---------------------------- MODULE OsalSemProofs ----------------------------
(***************************************************************************)
(* Proofs about OsalSem for any threads and any width of the count: types, *)
(* conservation of units, and no lost wake-up.                             *)
(***************************************************************************)
EXTENDS OsalSem, FiniteSetTheorems, TLAPS

\* The count grows by one or wraps to zero.
LEMMA AddOne ==
  ASSUME NEW M \in Nat \ {0}, NEW x \in 0..M
  PROVE  (x + 1) % (M + 1) = IF x = M THEN 0 ELSE x + 1
  BY SMTT(30)

LEMMA InitType == Init => TypeOK
  BY SemAssumption DEF Init, TypeOK, PCs

LEMMA NextType == TypeOK /\ [Next]_vars => TypeOK'
<1> USE SemAssumption
<1> SUFFICES ASSUME TypeOK, [Next]_vars PROVE TypeOK'
  OBVIOUS
<1>1. CASE UNCHANGED vars
  BY <1>1 DEF vars, TypeOK
<1>2. CASE Post
  <2>1. count' \in 0..MaxCount
    <3>1. count' = IF count = MaxCount THEN 0 ELSE count + 1
      BY <1>2, AddOne DEF Post, TypeOK
    <3> QED
      BY <3>1 DEF TypeOK
  <2>2. pc' \in [Threads -> PCs]
    BY <1>2 DEF Post, TypeOK, PCs, Sleeping
  <2>3. posts' \in 0..MaxPosts
    BY <1>2 DEF Post, TypeOK
  <2>4. UNCHANGED <<late, acquired>>
    BY <1>2 DEF Post
  <2> QED
    BY <2>1, <2>2, <2>3, <2>4 DEF TypeOK
<1>3. ASSUME NEW t \in Threads, Acquire(t) PROVE TypeOK'
  BY <1>3 DEF Acquire, TypeOK, PCs
<1>4. ASSUME NEW t \in Threads,
             \/ Sleep(t) \/ DeadlinePasses(t) \/ Expire(t) \/ WakeSpuriously(t) \/ ReturnTimeout(t)
      PROVE  TypeOK'
  BY <1>4 DEF Sleep, DeadlinePasses, Expire, WakeSpuriously, ReturnTimeout, TypeOK, PCs
<1> QED
  BY <1>1, <1>2, <1>3, <1>4 DEF Next

\* Whatever interleaves, the count stays within the width of its integer.
THEOREM TypeCorrect == Spec => []TypeOK
  BY InitType, NextType, PTL DEF Spec

-----------------------------------------------------------------------------
LEMMA NextUnits == TypeOK /\ UnitsConserved /\ [Next]_vars => UnitsConserved'
<1> USE SemAssumption
<1> SUFFICES ASSUME TypeOK, UnitsConserved, [Next]_vars, Initial + MaxPosts <= MaxCount
             PROVE  count' + acquired' = Initial + posts'
  BY DEF UnitsConserved
<1>1. count + acquired = Initial + posts
  BY DEF UnitsConserved
<1>2. CASE Post
  <2>1. count # MaxCount
    BY <1>1, <1>2 DEF Post, TypeOK
  <2>2. count' = count + 1
    BY <1>2, <2>1, AddOne DEF Post, TypeOK
  <2> QED
    BY <1>1, <1>2, <2>2 DEF Post, TypeOK
<1>3. ASSUME NEW t \in Threads, Acquire(t)
      PROVE  count' + acquired' = Initial + posts'
  BY <1>1, <1>3 DEF Acquire, TypeOK
<1>4. ASSUME \/ UNCHANGED vars
             \/ \E t \in Threads : \/ Sleep(t) \/ DeadlinePasses(t) \/ Expire(t)
                                   \/ WakeSpuriously(t) \/ ReturnTimeout(t)
      PROVE  UNCHANGED <<count, acquired, posts>>
  BY <1>4 DEF vars, Sleep, DeadlinePasses, Expire, WakeSpuriously, ReturnTimeout
<1> QED
  BY <1>1, <1>2, <1>3, <1>4 DEF Next

\* A unit is acquired exactly once and never invented, for any number of
\* waiting threads, as long as the count cannot wrap.
THEOREM UnitsKept == Spec => []UnitsConserved
<1>1. Init => TypeOK /\ UnitsConserved
  <2>1. Init => UnitsConserved
    BY SemAssumption DEF Init, UnitsConserved
  <2> QED
    BY <2>1, InitType
<1>2. TypeOK /\ UnitsConserved /\ [Next]_vars => (TypeOK /\ UnitsConserved)'
  BY NextType, NextUnits
<1> QED
  BY <1>1, <1>2, PTL DEF Spec

-----------------------------------------------------------------------------
LEMMA FiniteWoken == /\ IsFiniteSet(Woken) /\ Cardinality(Woken) \in Nat
                     /\ IsFiniteSet(Woken') /\ Cardinality(Woken') \in Nat
<1>1. Woken \in SUBSET Threads /\ Woken' \in SUBSET Threads
  BY DEF Woken
<1> QED
  BY <1>1, SemAssumption, FS_Subset, FS_CardinalityType

LEMMA NextWakeups == TypeOK /\ NoLostWakeup /\ [Next]_vars => NoLostWakeup'
<1> USE SemAssumption
<1> SUFFICES ASSUME TypeOK, NoLostWakeup, [Next]_vars PROVE NoLostWakeup'
  OBVIOUS
<1>1. CASE Post
  <2>1. count' <= count + 1
    <3>1. count' = IF count = MaxCount THEN 0 ELSE count + 1
      BY <1>1, AddOne DEF Post, TypeOK
    <3> QED
      BY <3>1 DEF TypeOK
  <2>2. CASE Sleeping = {}
    <3>1. Sleeping' = {}
      BY <1>1, <2>2 DEF Post, Sleeping
    <3> QED
      BY <3>1 DEF NoLostWakeup
  <2>3. CASE Sleeping # {}
    <3>1. PICK u \in Sleeping : pc' = [pc EXCEPT ![u] = "woken"]
      BY <1>1, <2>3 DEF Post
    <3>2. Woken' = Woken \cup {u} /\ u \notin Woken
      BY <3>1 DEF Woken, Sleeping, TypeOK
    <3>3. Cardinality(Woken') = Cardinality(Woken) + 1
      BY <3>2, FiniteWoken, FS_AddElement
    <3>4. count <= Cardinality(Woken)
      BY <2>3 DEF NoLostWakeup
    <3>5. count \in Nat /\ count' \in Nat
      BY NextType DEF TypeOK
    <3> QED
      BY <2>1, <3>3, <3>4, <3>5, FiniteWoken DEF NoLostWakeup
  <2> QED
    BY <2>2, <2>3
<1>2. ASSUME NEW t \in Threads, Acquire(t) PROVE NoLostWakeup'
  <2>1. Sleeping' = Sleeping
    BY <1>2 DEF Acquire, Sleeping, TypeOK
  <2>2. Woken' = Woken \ {t}
    BY <1>2 DEF Acquire, Woken, TypeOK
  <2>3. Cardinality(Woken') >= Cardinality(Woken) - 1
    <3>1. Cardinality(Woken') = IF t \in Woken THEN Cardinality(Woken) - 1 ELSE Cardinality(Woken)
      BY <2>2, FiniteWoken, FS_RemoveElement
    <3> QED
      BY <3>1, FiniteWoken
  <2>4. count' = count - 1 /\ count \in Nat
    BY <1>2 DEF Acquire, TypeOK
  <2> QED
    BY <2>1, <2>3, <2>4, FiniteWoken DEF NoLostWakeup
<1>3. ASSUME NEW t \in Threads, Sleep(t) PROVE NoLostWakeup'
  <2>1. count' = 0
    BY <1>3 DEF Sleep
  <2> QED
    BY <2>1, FiniteWoken DEF NoLostWakeup
<1>4. ASSUME \/ UNCHANGED vars
             \/ \E t \in Threads : \/ DeadlinePasses(t) \/ Expire(t) \/ WakeSpuriously(t)
                                   \/ ReturnTimeout(t)
      PROVE  NoLostWakeup'
  <2>1. Sleeping' \subseteq Sleeping /\ Woken \subseteq Woken' /\ count' = count
    BY <1>4 DEF vars, DeadlinePasses, Expire, WakeSpuriously, ReturnTimeout, Sleeping, Woken, TypeOK
  <2>2. Cardinality(Woken) <= Cardinality(Woken')
    BY <2>1, FiniteWoken, FS_Subset
  <2>3. count \in Nat
    BY DEF TypeOK
  <2> QED
    BY <2>1, <2>2, <2>3, FiniteWoken DEF NoLostWakeup
<1> QED
  BY <1>1, <1>2, <1>3, <1>4 DEF Next

\* While a thread sleeps, every available unit is matched by a thread already
\* woken for it, for any number of threads and posts, even across a wrap.
THEOREM WakeupsKept == Spec => []NoLostWakeup
<1>1. Init => TypeOK /\ NoLostWakeup
  <2>1. Init => Sleeping = {}
    BY DEF Init, Sleeping
  <2> QED
    BY <2>1, InitType DEF NoLostWakeup
<1>2. TypeOK /\ NoLostWakeup /\ [Next]_vars => (TypeOK /\ NoLostWakeup)'
  BY NextType, NextWakeups
<1> QED
  BY <1>1, <1>2, PTL DEF Spec
=============================================================================
