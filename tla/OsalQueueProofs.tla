--------------------------- MODULE OsalQueueProofs ---------------------------
(***************************************************************************)
(* Proofs about OsalQueue for any number of threads, any items and any     *)
(* depth: its type invariant, the consistency of the ring, that no wake-up *)
(* is lost on condition variables whose timeouts absorb no signal, and     *)
(* that the ring implements the bounded FIFO, whatever timeouts absorb.    *)
(***************************************************************************)
EXTENDS OsalQueue, FiniteSetTheorems, SequenceTheorems, TLAPS

\* Indices wrap at most once: the remainders that the ring computes are those
\* of numbers below twice the depth.
LEMMA WrapIndex ==
  ASSUME NEW D \in Nat \ {0}, NEW x \in 0..(2 * D - 1)
  PROVE  /\ x < D => x % D = x
         /\ x >= D => x % D = x - D
  BY SMTT(30)

\* A signal moves nobody but its caller and at most one sleeper of the
\* direction it is for.
LEMMA SignalMoves ==
  ASSUME NEW t \in Threads, NEW op, TypeOK, pc[t] \in {"enter", "woken"},
         ReturnSignalling(t, op)
  PROVE  /\ pc' \in [Threads -> PCs]
         /\ pc'[t] = "ok"
         /\ \/ /\ Waiting(op) = {}
               /\ \A v \in Threads \ {t} : pc'[v] = pc[v]
            \/ \E u \in Waiting(op) : /\ u # t
                                      /\ pc'[u] = "woken"
                                      /\ \A v \in Threads \ {t, u} : pc'[v] = pc[v]
  BY DEF ReturnSignalling, TypeOK, PCs, Returned, Waiting

-----------------------------------------------------------------------------
(* Type correctness. *)

LEMMA InitType == Init => TypeOK
  BY QueueAssumption DEF Init, TypeOK, PCs, Returned

LEMMA CompleteType ==
  ASSUME NEW t \in Threads, TypeOK, pc[t] \in {"enter", "woken"}, Complete(t)
  PROVE  TypeOK'
<1> USE QueueAssumption
<1>1. CASE Store(t)
  <2>1. pc' \in [Threads -> PCs]
    BY <1>1, SignalMoves DEF Store
  <2>2. count # Depth
    BY <1>1 DEF Complete, Blocked, Store
  <2>3. tail' \in 0..(Depth - 1)
    BY <1>1 DEF Store, TypeOK
  <2>4. /\ buffer' \in [0..(Depth - 1) -> Items \cup {NoItem}]
        /\ deadline' \in [Threads -> {"ahead", "passed"}]
    BY <1>1 DEF Store, TypeOK
  <2> QED
    BY <1>1, <2>1, <2>2, <2>3, <2>4 DEF Store, TypeOK
<1>2. CASE Fetch(t)
  <2>1. pc' \in [Threads -> PCs]
    BY <1>2, SignalMoves DEF Fetch
  <2>2. count # 0
    BY <1>2 DEF Complete, Blocked, Fetch
  <2>3. head' \in 0..(Depth - 1)
    BY <1>2 DEF Fetch, TypeOK
  <2>4. call' \in [Threads -> [op : {"send"}, item : Items, timed : BOOLEAN]
                               \cup [op : {"recv"}, item : Items \cup {NoItem}, timed : BOOLEAN]]
    BY <1>2 DEF Fetch, TypeOK
  <2>5. deadline' \in [Threads -> {"ahead", "passed"}]
    BY <1>2 DEF Fetch, TypeOK
  <2> QED
    BY <1>2, <2>1, <2>2, <2>3, <2>4, <2>5 DEF Fetch, TypeOK
<1> QED
  BY <1>1, <1>2 DEF Complete

LEMMA NextType == TypeOK /\ [Next]_vars => TypeOK'
<1> SUFFICES ASSUME TypeOK, [Next]_vars PROVE TypeOK'
  OBVIOUS
<1>1. CASE UNCHANGED vars
  BY <1>1 DEF vars, TypeOK
<1>2. ASSUME NEW t \in Threads, Start(t) PROVE TypeOK'
  BY <1>2 DEF Start, Calls, ring, TypeOK, PCs
<1>3. ASSUME NEW t \in Threads, EnterAndComplete(t) PROVE TypeOK'
  BY <1>3, CompleteType DEF EnterAndComplete
<1>4. ASSUME NEW t \in Threads, WokenAndComplete(t) PROVE TypeOK'
  BY <1>4, CompleteType DEF WokenAndComplete
<1>5. ASSUME NEW t \in Threads,
             \/ EnterAndFail(t) \/ EnterAndWait(t) \/ WaitExpires(t) \/ WakeSpuriously(t)
             \/ SignalAbsorbed(t) \/ WokenAndWait(t)
      PROVE  TypeOK'
  BY <1>5 DEF EnterAndFail, EnterAndWait, WaitExpires, WakeSpuriously, SignalAbsorbed,
              WokenAndWait, ring, TypeOK, PCs, Returned
<1>6. ASSUME NEW t \in Threads, DeadlinePasses(t) \/ ReturnTimeout(t) PROVE TypeOK'
  BY <1>6 DEF DeadlinePasses, ReturnTimeout, ring, TypeOK, PCs, Returned
<1> QED
  BY <1>1, <1>2, <1>3, <1>4, <1>5, <1>6 DEF Next, Proceed

\* Whatever interleaves, every variable of the queue keeps its type: count
\* never leaves 0..Depth and the indices never leave the buffer.
THEOREM TypeCorrect == Spec => []TypeOK
  BY InitType, NextType, PTL DEF Spec

-----------------------------------------------------------------------------
(* The ring. *)

\* One more item extends the occupied slots by the slot at tail.
LEMMA OccupiedByStore ==
  ASSUME NEW t \in Threads, TypeOK, tail = (head + count) % Depth, count < Depth, Store(t)
  PROVE  /\ tail' = (head' + count') % Depth
         /\ Occupied' \subseteq Occupied \cup {tail}
<1> USE QueueAssumption
<1>1. /\ head' = head
      /\ count' = count + 1
      /\ tail' = (tail + 1) % Depth
  BY DEF Store
<1>2. /\ head \in 0..(Depth - 1)
      /\ count \in 0..(Depth - 1)
  BY DEF TypeOK
<1>3. \A x \in 0..(2 * Depth - 1) : /\ x < Depth => x % Depth = x
                                   /\ x >= Depth => x % Depth = x - Depth
  BY WrapIndex
<1>4. head + count \in 0..(2 * Depth - 1) /\ head + count + 1 \in 0..(2 * Depth - 1)
  BY <1>2
<1>5. /\ (head + count) % Depth = IF head + count < Depth THEN head + count ELSE head + count - Depth
      /\ (head + count + 1) % Depth = IF head + count + 1 < Depth THEN head + count + 1
                                      ELSE head + count + 1 - Depth
  BY <1>2, <1>3, <1>4
<1>6. tail + 1 \in 0..(2 * Depth - 1)
  BY <1>2, <1>5
<1>7. (tail + 1) % Depth = IF tail + 1 < Depth THEN tail + 1 ELSE tail + 1 - Depth
  BY <1>3, <1>6
<1>8. tail' = (head' + count') % Depth
  BY <1>1, <1>2, <1>5, <1>7
<1>9. ASSUME NEW i \in 0..(count' - 1)
      PROVE  (head' + i) % Depth \in Occupied \cup {tail}
  <2>1. CASE i = count
    BY <1>1, <2>1
  <2>2. CASE i # count
    <3>1. i \in 0..(count - 1)
      BY <1>1, <1>2, <2>2
    <3> QED
      BY <1>1, <3>1 DEF Occupied
  <2> QED
    BY <2>1, <2>2
<1> QED
  BY <1>8, <1>9 DEF Occupied

\* One item less gives up the slot at head.
LEMMA OccupiedByFetch ==
  ASSUME NEW t \in Threads, TypeOK, tail = (head + count) % Depth, count > 0, Fetch(t)
  PROVE  /\ tail' = (head' + count') % Depth
         /\ Occupied' \subseteq Occupied
<1> USE QueueAssumption
<1>1. /\ head' = (head + 1) % Depth
      /\ count' = count - 1
      /\ tail' = tail
  BY DEF Fetch
<1>2. /\ head \in 0..(Depth - 1)
      /\ count \in 1..Depth
  BY DEF TypeOK
<1>3. \A x \in 0..(2 * Depth - 1) : /\ x < Depth => x % Depth = x
                                   /\ x >= Depth => x % Depth = x - Depth
  BY WrapIndex
<1>4. head' = IF head + 1 < Depth THEN head + 1 ELSE head + 1 - Depth
  <2>1. head + 1 \in 0..(2 * Depth - 1)
    BY <1>2
  <2>2. (head + 1) % Depth = IF head + 1 < Depth THEN head + 1 ELSE head + 1 - Depth
    BY <1>2, <1>3, <2>1
  <2> QED
    BY <1>1, <2>2
<1>5. ASSUME NEW i \in 0..count'
      PROVE  (head' + i) % Depth = (head + (i + 1)) % Depth
  <2>1. i \in 0..(Depth - 1)
    BY <1>1, <1>2
  <2>2. head + (i + 1) \in 0..(2 * Depth - 1) /\ head' + i \in 0..(2 * Depth - 1)
    BY <1>2, <1>4, <2>1
  <2>3. (head + (i + 1)) % Depth = IF head + (i + 1) < Depth THEN head + (i + 1)
                                   ELSE head + (i + 1) - Depth
    BY <1>2, <1>3, <1>4, <2>1, <2>2
  <2>4. (head' + i) % Depth = IF head' + i < Depth THEN head' + i ELSE head' + i - Depth
    BY <1>2, <1>3, <1>4, <2>1, <2>2
  <2> QED
    BY <1>2, <1>4, <2>1, <2>3, <2>4
<1>6. tail' = (head' + count') % Depth
  <2>1. (head' + count') % Depth = (head + (count' + 1)) % Depth
    BY <1>1, <1>2, <1>5
  <2>2. count' + 1 = count
    BY <1>1, <1>2
  <2> QED
    BY <1>1, <2>1, <2>2
<1>7. ASSUME NEW i \in 0..(count' - 1)
      PROVE  (head' + i) % Depth \in Occupied
  <2>1. i \in 0..count' /\ i + 1 \in 0..(count - 1)
    BY <1>1, <1>2
  <2>2. (head' + i) % Depth = (head + (i + 1)) % Depth
    BY <1>5, <2>1
  <2> QED
    BY <2>1, <2>2 DEF Occupied
<1> QED
  BY <1>6, <1>7 DEF Occupied

LEMMA CompleteRing ==
  ASSUME NEW t \in Threads, TypeOK, RingConsistent, Complete(t)
  PROVE  RingConsistent'
<1>1. CASE Store(t)
  <2>1. count < Depth
    BY <1>1, QueueAssumption DEF Complete, Blocked, Store, TypeOK
  <2>2. /\ tail' = (head' + count') % Depth
        /\ Occupied' \subseteq Occupied \cup {tail}
    BY <1>1, <2>1, OccupiedByStore DEF RingConsistent
  <2>3. buffer' = [buffer EXCEPT ![tail] = call[t].item] /\ call[t].item \in Items
    BY <1>1 DEF Store, TypeOK
  <2>4. ASSUME NEW s \in 0..(Depth - 1), s \in Occupied' PROVE buffer'[s] \in Items
    BY <2>2, <2>3, <2>4 DEF RingConsistent, TypeOK
  <2> QED
    BY <2>2, <2>4 DEF RingConsistent
<1>2. CASE Fetch(t)
  <2>1. count > 0
    BY <1>2, QueueAssumption DEF Complete, Blocked, Fetch, TypeOK
  <2>2. /\ tail' = (head' + count') % Depth
        /\ Occupied' \subseteq Occupied
    BY <1>2, <2>1, OccupiedByFetch DEF RingConsistent
  <2> QED
    BY <1>2, <2>2 DEF Fetch, RingConsistent
<1> QED
  BY <1>1, <1>2 DEF Complete

LEMMA InitRing == Init => RingConsistent
<1> SUFFICES ASSUME Init PROVE RingConsistent
  OBVIOUS
<1>1. 0 % Depth = 0
  BY WrapIndex, QueueAssumption
<1>2. Occupied = {}
  BY QueueAssumption DEF Init, Occupied
<1> QED
  BY <1>1, <1>2 DEF Init, RingConsistent

LEMMA NextRing == TypeOK /\ RingConsistent /\ [Next]_vars => RingConsistent'
<1> SUFFICES ASSUME TypeOK, RingConsistent, [Next]_vars PROVE RingConsistent'
  OBVIOUS
<1>1. CASE UNCHANGED ring
  BY <1>1 DEF ring, RingConsistent, Occupied
<1>2. ASSUME NEW t \in Threads, EnterAndComplete(t) \/ WokenAndComplete(t)
      PROVE  RingConsistent'
  BY <1>2, CompleteRing DEF EnterAndComplete, WokenAndComplete
<1>3. ASSUME NEW t \in Threads,
             \/ Start(t) \/ EnterAndFail(t) \/ EnterAndWait(t) \/ DeadlinePasses(t)
             \/ WaitExpires(t) \/ WakeSpuriously(t) \/ SignalAbsorbed(t) \/ WokenAndWait(t)
             \/ ReturnTimeout(t)
      PROVE  UNCHANGED ring
  BY <1>3 DEF Start, EnterAndFail, EnterAndWait, DeadlinePasses, WaitExpires, WakeSpuriously,
              SignalAbsorbed, WokenAndWait, ReturnTimeout
<1>4. CASE UNCHANGED vars
  BY <1>1, <1>4 DEF vars, ring
<1> QED
  BY <1>1, <1>2, <1>3, <1>4 DEF Next, Proceed

\* The three indices of the ring agree, and every slot counted as full was
\* filled by a sender, for any depth and any number of threads.
THEOREM RingCorrect == Spec => []RingConsistent
<1>1. Init => TypeOK /\ RingConsistent
  BY InitType, InitRing
<1>2. TypeOK /\ RingConsistent /\ [Next]_vars => (TypeOK /\ RingConsistent)'
  BY NextType, NextRing
<1> QED
  BY <1>1, <1>2, PTL DEF Spec

-----------------------------------------------------------------------------
(* No lost wake-up. *)

NoLostWakeup == NoLostReceiver /\ NoLostSender

\* The counting that both directions rest on.
LEMMA FiniteWoken ==
  ASSUME NEW op
  PROVE  IsFiniteSet(Woken(op)) /\ Cardinality(Woken(op)) \in Nat
         /\ IsFiniteSet(Woken(op)') /\ Cardinality(Woken(op)') \in Nat
<1>1. Woken(op) \in SUBSET Threads /\ Woken(op)' \in SUBSET Threads
  BY DEF Woken
<1> QED
  BY <1>1, QueueAssumption, FS_Subset, FS_CardinalityType

\* A caller that completes and signals one sleeper adds that sleeper to the
\* woken threads of the signalled direction ...
LEMMA SignalledSide ==
  ASSUME NEW t \in Threads, NEW op \in {"send", "recv"}, TypeOK,
         pc[t] \in {"enter", "woken"}, call[t].op # op,
         ReturnSignalling(t, op),
         \A v \in Threads \ {t} : call'[v] = call[v], call'[t].op = call[t].op
  PROVE  \/ Waiting(op)' = {}
         \/ /\ Waiting(op) # {}
            /\ Cardinality(Woken(op)') = Cardinality(Woken(op)) + 1
<1>1. CASE Waiting(op) = {}
  <2>1. Waiting(op)' = {}
    BY <1>1, SignalMoves DEF Waiting
  <2> QED
    BY <2>1
<1>2. ASSUME NEW u \in Waiting(op), u # t, pc'[u] = "woken",
             \A v \in Threads \ {t, u} : pc'[v] = pc[v]
      PROVE  Cardinality(Woken(op)') = Cardinality(Woken(op)) + 1
  <2>1. Woken(op)' = Woken(op) \cup {u}
    BY <1>2, SignalMoves DEF Woken, Waiting
  <2>2. u \notin Woken(op)
    BY DEF Woken, Waiting
  <2> QED
    BY <2>1, <2>2, FiniteWoken, FS_AddElement
<1> QED
  BY <1>1, <1>2, SignalMoves

\* ... and takes at most itself away from those of its own direction.
LEMMA CallerSide ==
  ASSUME NEW t \in Threads, NEW op \in {"send", "recv"}, NEW other, TypeOK,
         pc[t] \in {"enter", "woken"}, call[t].op = op, other # op,
         ReturnSignalling(t, other),
         \A v \in Threads \ {t} : call'[v] = call[v], call'[t].op = call[t].op
  PROVE  /\ Waiting(op)' = Waiting(op)
         /\ Cardinality(Woken(op)') >= Cardinality(Woken(op)) - 1
<1>1. \A v \in Threads \ {t} : call[v].op = op => pc'[v] = pc[v]
  BY SignalMoves DEF Waiting
<1>2. pc'[t] = "ok"
  BY SignalMoves
<1>3. Waiting(op)' = Waiting(op)
  BY <1>1, <1>2 DEF Waiting
<1>4. Woken(op)' = Woken(op) \ {t}
  BY <1>1, <1>2 DEF Woken
<1>5. Cardinality(Woken(op) \ {t}) >= Cardinality(Woken(op)) - 1
  <2>1. Cardinality(Woken(op) \ {t}) = IF t \in Woken(op) THEN Cardinality(Woken(op)) - 1
                                      ELSE Cardinality(Woken(op))
    BY FiniteWoken, FS_RemoveElement
  <2>2. Cardinality(Woken(op)) \in Nat
    BY FiniteWoken
  <2> QED
    BY <2>1, <2>2
<1> QED
  BY <1>3, <1>4, <1>5

LEMMA CompleteKeepsWakeups ==
  ASSUME NEW t \in Threads, TypeOK, NoLostWakeup, pc[t] \in {"enter", "woken"}, Complete(t)
  PROVE  NoLostWakeup'
<1>1. Cardinality(Woken("recv")) \in Nat /\ Cardinality(Woken("send")) \in Nat
      /\ Cardinality(Woken("recv")') \in Nat /\ Cardinality(Woken("send")') \in Nat
  BY FiniteWoken
<1>2. CASE Store(t)
  <2>1. /\ count' = count + 1
        /\ call' = call
        /\ call[t].op = "send"
        /\ ReturnSignalling(t, "recv")
    BY <1>2 DEF Store
  <2>2. \/ Waiting("recv")' = {}
        \/ /\ Waiting("recv") # {}
           /\ Cardinality(Woken("recv")') = Cardinality(Woken("recv")) + 1
    BY <2>1, SignalledSide
  <2>3. /\ Waiting("send")' = Waiting("send")
        /\ Cardinality(Woken("send")') >= Cardinality(Woken("send")) - 1
    BY <2>1, CallerSide
  <2>4. NoLostReceiver'
    BY <1>1, <2>1, <2>2 DEF NoLostWakeup, NoLostReceiver, TypeOK
  <2>5. NoLostSender'
    BY <1>1, <2>1, <2>3, QueueAssumption DEF NoLostWakeup, NoLostSender, TypeOK
  <2> QED
    BY <2>4, <2>5 DEF NoLostWakeup
<1>3. CASE Fetch(t)
  <2>1. /\ count' = count - 1
        /\ \A v \in Threads \ {t} : call'[v] = call[v]
        /\ call'[t].op = call[t].op
        /\ call[t].op = "recv"
        /\ ReturnSignalling(t, "send")
    BY <1>3 DEF Fetch, TypeOK
  <2>2. \/ Waiting("send")' = {}
        \/ /\ Waiting("send") # {}
           /\ Cardinality(Woken("send")') = Cardinality(Woken("send")) + 1
    BY <2>1, SignalledSide
  <2>3. /\ Waiting("recv")' = Waiting("recv")
        /\ Cardinality(Woken("recv")') >= Cardinality(Woken("recv")) - 1
    BY <2>1, CallerSide
  <2>4. NoLostSender'
    BY <1>1, <2>1, <2>2, QueueAssumption DEF NoLostWakeup, NoLostSender, TypeOK
  <2>5. NoLostReceiver'
    BY <1>1, <2>1, <2>3 DEF NoLostWakeup, NoLostReceiver, TypeOK
  <2> QED
    BY <2>4, <2>5 DEF NoLostWakeup
<1> QED
  BY <1>2, <1>3 DEF Complete

\* The other steps: nobody leaves "woken" while the queue is ready for it.
LEMMA StepsThatKeepCounts ==
  ASSUME TypeOK, NoLostWakeup, UNCHANGED count,
         \A op \in {"send", "recv"} : /\ Waiting(op)' \subseteq Waiting(op)
                                      /\ Woken(op) \subseteq Woken(op)'
  PROVE  NoLostWakeup'
<1>1. \A op \in {"send", "recv"} : Cardinality(Woken(op)) <= Cardinality(Woken(op)')
  BY FiniteWoken, FS_Subset
<1>2. Cardinality(Woken("recv")) \in Nat /\ Cardinality(Woken("send")) \in Nat
      /\ Cardinality(Woken("recv")') \in Nat /\ Cardinality(Woken("send")') \in Nat
  BY FiniteWoken
<1> QED
  BY <1>1, <1>2, QueueAssumption DEF NoLostWakeup, NoLostReceiver, NoLostSender, TypeOK

\* A thread that goes to sleep, first or again, found its operation blocked.
LEMMA SleepKeepsWakeups ==
  ASSUME NEW t \in Threads, TypeOK, NoLostWakeup, EnterAndWait(t) \/ WokenAndWait(t)
  PROVE  NoLostWakeup'
<1>1. /\ Blocked(t)
      /\ UNCHANGED <<ring, call>>
      /\ pc[t] \in {"enter", "woken"}
      /\ pc'[t] \in {"wait", "late"}
      /\ \A v \in Threads \ {t} : pc'[v] = pc[v]
  BY DEF EnterAndWait, WokenAndWait, TypeOK
<1>2. UNCHANGED count
  BY <1>1 DEF ring
<1>3. \A op \in {"send", "recv"} :
         op # call[t].op => Waiting(op)' = Waiting(op) /\ Woken(op)' = Woken(op)
  BY <1>1 DEF Waiting, Woken, TypeOK
<1>4. Cardinality(Woken("recv")') \in Nat /\ Cardinality(Woken("send")') \in Nat
  BY FiniteWoken
<1>5. CASE call[t].op = "send"
  <2>1. NoLostSender'
    BY <1>1, <1>2, <1>4, <1>5 DEF NoLostSender, Blocked, TypeOK
  <2>2. Waiting("recv")' = Waiting("recv") /\ Woken("recv")' = Woken("recv")
    BY <1>3, <1>5
  <2>3. NoLostReceiver'
    BY <1>2, <2>2 DEF NoLostWakeup, NoLostReceiver
  <2> QED
    BY <2>1, <2>3 DEF NoLostWakeup
<1>6. CASE call[t].op = "recv"
  <2>1. NoLostReceiver'
    BY <1>1, <1>2, <1>4, <1>6 DEF NoLostReceiver, Blocked, TypeOK
  <2>2. Waiting("send")' = Waiting("send") /\ Woken("send")' = Woken("send")
    BY <1>3, <1>6
  <2>3. NoLostSender'
    BY <1>2, <2>2 DEF NoLostWakeup, NoLostSender
  <2> QED
    BY <2>1, <2>3 DEF NoLostWakeup
<1> QED
  BY <1>5, <1>6 DEF TypeOK

LEMMA NextWakeups ==
  ASSUME ~TimeoutAbsorbsSignal, TypeOK, NoLostWakeup, [Next]_vars
  PROVE  NoLostWakeup'
<1>1. CASE UNCHANGED vars
  BY <1>1 DEF vars, NoLostWakeup, NoLostReceiver, NoLostSender, Waiting, Woken
<1>2. ASSUME NEW t \in Threads, EnterAndComplete(t) \/ WokenAndComplete(t)
      PROVE  NoLostWakeup'
  BY <1>2, CompleteKeepsWakeups DEF EnterAndComplete, WokenAndComplete
<1>3. ASSUME NEW t \in Threads, EnterAndWait(t) \/ WokenAndWait(t)
      PROVE  NoLostWakeup'
  BY <1>3, SleepKeepsWakeups
<1>4. ASSUME NEW t \in Threads,
             \/ Start(t) \/ EnterAndFail(t) \/ DeadlinePasses(t) \/ WaitExpires(t)
             \/ WakeSpuriously(t) \/ ReturnTimeout(t)
      PROVE  NoLostWakeup'
  <2>1. UNCHANGED count
    BY <1>4 DEF Start, EnterAndFail, DeadlinePasses, WaitExpires, WakeSpuriously, ReturnTimeout,
                ring
  <2>2. /\ \A v \in Threads \ {t} : pc'[v] = pc[v] /\ call'[v] = call[v]
        /\ pc[t] \in {"wait", "woken"} => call'[t] = call[t]
        /\ pc'[t] = "wait" => pc[t] = "wait"
        /\ pc[t] = "woken" => pc'[t] = "woken"
    BY <1>4 DEF Start, EnterAndFail, DeadlinePasses, WaitExpires, WakeSpuriously, ReturnTimeout,
                TypeOK, Returned
  <2>3. \A op \in {"send", "recv"} : /\ Waiting(op)' \subseteq Waiting(op)
                                     /\ Woken(op) \subseteq Woken(op)'
    BY <2>2 DEF Waiting, Woken
  <2> QED
    BY <2>1, <2>3, StepsThatKeepCounts
<1>5. ASSUME NEW t \in Threads, SignalAbsorbed(t)
      PROVE  NoLostWakeup'
  BY <1>5 DEF SignalAbsorbed
<1> QED
  BY <1>1, <1>2, <1>3, <1>4, <1>5 DEF Next, Proceed

\* One pthread_cond_signal per send and per receive is enough: while a thread
\* sleeps in the queue, every item (or free slot) it could use is matched by a
\* thread of its direction already woken.  It holds for every number of threads
\* and every depth, as long as a timeout absorbs no signal.
THEOREM WakeupsKept ==
  ASSUME ~TimeoutAbsorbsSignal
  PROVE  Spec => []NoLostReceiver /\ []NoLostSender
<1>1. Init => TypeOK /\ NoLostWakeup
  <2>1. Init => Waiting("recv") = {} /\ Waiting("send") = {}
    BY DEF Init, Waiting
  <2> QED
    BY <2>1, InitType DEF NoLostWakeup, NoLostReceiver, NoLostSender
<1>2. TypeOK /\ NoLostWakeup /\ [Next]_vars => (TypeOK /\ NoLostWakeup)'
  BY NextType, NextWakeups
<1>3. NoLostWakeup => NoLostReceiver /\ NoLostSender
  BY DEF NoLostWakeup
<1> QED
  BY <1>1, <1>2, <1>3, PTL DEF Spec

\* Senders that sleep beside free slots are matched in the same way.
THEOREM SendersKept ==
  ASSUME ~TimeoutAbsorbsSignal
  PROVE  Spec => []NoLostSender
  BY WakeupsKept, PTL
-----------------------------------------------------------------------------
(* The ring as a bounded FIFO.                                             *)

Stored == Items \cup {NoItem}

\* The abstract status of the threads (the mapping of Fifo).
Status == [t \in Threads |-> CASE pc[t] \in Returned -> pc[t]
                               [] pc[t] = "enter"     -> "busy"
                               [] OTHER               -> "waiting"]

LEMMA ContentsSeq ==
  ASSUME TypeOK
  PROVE  /\ Contents \in Seq(Stored)
         /\ Len(Contents) = count
         /\ \A i \in 1..count : Contents[i] = buffer[(head + i - 1) % Depth]
<1>1. ASSUME NEW i \in 1..count PROVE (head + i - 1) % Depth \in 0..(Depth - 1)
  BY QueueAssumption DEF TypeOK
<1>2. Contents \in [1..count -> Stored]
  BY <1>1 DEF Contents, TypeOK, Stored
<1>3. count \in Nat
  BY QueueAssumption DEF TypeOK
<1>4. Contents \in Seq(Stored)
  BY <1>2, <1>3, SeqDef
<1> QED
  BY <1>2, <1>3, <1>4, LenProperties DEF Contents

\* The abstract guard is the concrete one.
LEMMA SameBlocked ==
  ASSUME NEW t \in Threads, TypeOK
  PROVE  Fifo!Blocked(t) <=> Blocked(t)
<1>1. Contents = <<>> <=> count = 0
  BY ContentsSeq, EmptySeq DEF TypeOK
<1> QED
  BY <1>1, ContentsSeq DEF Fifo!Blocked, Blocked

\* A store appends to the contents.
LEMMA StoreAppends ==
  ASSUME NEW t \in Threads, TypeOK, RingConsistent, TypeOK', count < Depth, Store(t)
  PROVE  Contents' = Append(Contents, call[t].item)
<1> USE QueueAssumption
<1>1. /\ head' = head
      /\ count' = count + 1
      /\ buffer' = [buffer EXCEPT ![tail] = call[t].item]
      /\ tail = (head + count) % Depth
      /\ call[t].item \in Items
  BY DEF Store, RingConsistent, TypeOK
<1>2. /\ head \in 0..(Depth - 1)
      /\ count \in 0..(Depth - 1)
  BY DEF TypeOK
<1>3. \A x \in 0..(2 * Depth - 1) : /\ x < Depth => x % Depth = x
                                   /\ x >= Depth => x % Depth = x - Depth
  BY WrapIndex
<1>4. ASSUME NEW i \in 1..count PROVE Contents'[i] = Contents[i]
  <2>1. /\ head + count \in 0..(2 * Depth - 1)
        /\ head + i - 1 \in 0..(2 * Depth - 1)
    BY <1>2
  <2>2. (head + i - 1) % Depth # (head + count) % Depth
    BY <1>2, <1>3, <2>1
  <2>3. (head + i - 1) % Depth \in 0..(Depth - 1)
    BY <1>2
  <2>4. Contents'[i] = buffer'[(head + i - 1) % Depth]
    BY <1>1, <1>2 DEF Contents
  <2>5. buffer'[(head + i - 1) % Depth] = buffer[(head + i - 1) % Depth]
    BY <1>1, <2>2, <2>3 DEF TypeOK
  <2> QED
    BY <2>4, <2>5 DEF Contents
<1>5. Contents'[count + 1] = call[t].item
  <2>1. Contents'[count + 1] = buffer'[(head + (count + 1) - 1) % Depth]
    BY <1>1, <1>2 DEF Contents
  <2>2. (head + (count + 1) - 1) % Depth = tail
    BY <1>1, <1>2
  <2> QED
    BY <1>1, <2>1, <2>2 DEF TypeOK
<1>6. Contents \in Seq(Stored) /\ Len(Contents) = count
  BY ContentsSeq
<1>7. Contents' \in Seq(Stored) /\ Len(Contents') = count + 1
  <2>1. Contents' = [i \in 1..(count + 1) |-> buffer'[(head' + i - 1) % Depth]]
    BY <1>1 DEF Contents
  <2>2. ASSUME NEW i \in 1..(count + 1) PROVE buffer'[(head' + i - 1) % Depth] \in Stored
    <3>1. (head' + i - 1) % Depth \in 0..(Depth - 1)
      BY <1>1, <1>2
    <3> QED
      BY <3>1 DEF TypeOK, Stored
  <2>3. Contents' \in [1..(count + 1) -> Stored] /\ count + 1 \in Nat
    BY <1>2, <2>1, <2>2
  <2>4. Contents' \in Seq(Stored)
    BY <2>3, SeqDef
  <2> QED
    BY <2>3, <2>4, LenProperties
<1>8. Append(Contents, call[t].item) \in Seq(Stored)
      /\ Len(Append(Contents, call[t].item)) = count + 1
      /\ \A i \in 1..count : Append(Contents, call[t].item)[i] = Contents[i]
      /\ Append(Contents, call[t].item)[count + 1] = call[t].item
  BY <1>1, <1>6, AppendProperties DEF Stored
<1>9. \A i \in 1..(count + 1) : Contents'[i] = Append(Contents, call[t].item)[i]
  BY <1>2, <1>4, <1>5, <1>8
<1> QED
  BY <1>7, <1>8, <1>9, SeqEqual

\* A fetch delivers the head of the contents and leaves the tail.
LEMMA FetchTakesHead ==
  ASSUME NEW t \in Threads, TypeOK, RingConsistent, TypeOK', count > 0, Fetch(t)
  PROVE  /\ Contents # <<>>
         /\ buffer[head] = Head(Contents)
         /\ Contents' = Tail(Contents)
<1> USE QueueAssumption
<1>1. /\ head' = (head + 1) % Depth
      /\ count' = count - 1
      /\ buffer' = buffer
  BY DEF Fetch
<1>2. /\ head \in 0..(Depth - 1)
      /\ count \in 1..Depth
  BY DEF TypeOK
<1>3. \A x \in 0..(2 * Depth - 1) : /\ x < Depth => x % Depth = x
                                   /\ x >= Depth => x % Depth = x - Depth
  BY WrapIndex
<1>4. /\ Contents \in Seq(Stored)
      /\ Len(Contents) = count
      /\ \A i \in 1..count : Contents[i] = buffer[(head + i - 1) % Depth]
  BY ContentsSeq
<1>5. Contents # <<>>
  BY <1>2, <1>4, EmptySeq
<1>6. buffer[head] = Head(Contents)
  <2>1. Head(Contents) = Contents[1]
    BY <1>4, <1>5
  <2>2. (head + 1 - 1) % Depth = head
    BY <1>2, <1>3
  <2>3. Contents[1] = buffer[(head + 1 - 1) % Depth]
    BY <1>2, <1>4
  <2> QED
    BY <2>1, <2>2, <2>3
<1>7. head' = IF head + 1 < Depth THEN head + 1 ELSE head + 1 - Depth
  <2>1. head + 1 \in 0..(2 * Depth - 1)
    BY <1>2
  <2> QED
    BY <1>1, <1>2, <1>3, <2>1
<1>8. ASSUME NEW i \in 1..(count - 1) PROVE Contents'[i] = Contents[i + 1]
  <2>1. /\ head' + i - 1 \in 0..(2 * Depth - 1)
        /\ head + (i + 1) - 1 \in 0..(2 * Depth - 1)
    BY <1>2, <1>7
  <2>2. (head' + i - 1) % Depth = (head + (i + 1) - 1) % Depth
    BY <1>2, <1>3, <1>7, <2>1
  <2>3. Contents'[i] = buffer[(head' + i - 1) % Depth]
    BY <1>1, <1>2 DEF Contents
  <2>4. Contents[i + 1] = buffer[(head + (i + 1) - 1) % Depth]
    BY <1>2, <1>4
  <2> QED
    BY <2>2, <2>3, <2>4
<1>9. Contents' \in Seq(Stored) /\ Len(Contents') = count - 1
  <2>1. Contents' = [i \in 1..(count - 1) |-> buffer[(head' + i - 1) % Depth]]
    BY <1>1 DEF Contents
  <2>2. ASSUME NEW i \in 1..(count - 1) PROVE buffer[(head' + i - 1) % Depth] \in Stored
    <3>1. (head' + i - 1) % Depth \in 0..(Depth - 1)
      BY <1>2, <1>7
    <3> QED
      BY <3>1 DEF TypeOK, Stored
  <2>3. Contents' \in [1..(count - 1) -> Stored] /\ count - 1 \in Nat
    BY <1>2, <2>1, <2>2
  <2>4. Contents' \in Seq(Stored)
    BY <2>3, SeqDef
  <2> QED
    BY <2>3, <2>4, LenProperties
<1>10. /\ Tail(Contents) \in Seq(Stored)
       /\ Len(Tail(Contents)) = count - 1
       /\ \A i \in 1..(count - 1) : Tail(Contents)[i] = Contents[i + 1]
  BY <1>4, <1>5, HeadTailProperties
<1>11. Contents' = Tail(Contents)
  BY <1>2, <1>8, <1>9, <1>10, SeqEqual
<1> QED
  BY <1>5, <1>6, <1>11

-----------------------------------------------------------------------------
LEMMA InitMaps == Init => Fifo!Init
<1> SUFFICES ASSUME Init PROVE Fifo!Init
  OBVIOUS
<1>1. TypeOK
  BY InitType
<1>2. Contents = <<>>
  BY <1>1, ContentsSeq, EmptySeq DEF Init
<1> QED
  BY <1>2 DEF Init, Fifo!Init, Returned

\* To the abstract queue a signal is invisible: the sleeper still waits.
LEMMA SignalStatus ==
  ASSUME NEW t \in Threads, NEW op, TypeOK, pc[t] \in {"enter", "woken"},
         ReturnSignalling(t, op)
  PROVE  Status' = [Status EXCEPT ![t] = "ok"]
<1>1. \A v \in Threads \ {t} : pc'[v] = pc[v] \/ (pc[v] = "wait" /\ pc'[v] = "woken")
  BY SignalMoves DEF Waiting
<1>2. pc'[t] = "ok"
  BY SignalMoves
<1>3. ASSUME NEW v \in Threads \ {t} PROVE Status'[v] = Status[v]
  BY <1>1 DEF Status, Returned
<1>4. Status'[t] = "ok"
  BY <1>2 DEF Status, Returned
<1> QED
  BY <1>3, <1>4 DEF Status

LEMMA CompleteMaps ==
  ASSUME NEW t \in Threads, TypeOK, RingConsistent, TypeOK',
         pc[t] \in {"enter", "woken"}, Complete(t)
  PROVE  Fifo!Put(t) \/ Fifo!Take(t)
<1>1. Status' = [Status EXCEPT ![t] = "ok"]
  BY SignalStatus DEF Complete, Store, Fetch
<1>2. Status[t] \in {"busy", "waiting"}
  BY DEF Status, Returned
<1>3. ~Fifo!Blocked(t)
  BY SameBlocked DEF Complete
<1>4. CASE Store(t)
  <2>1. count < Depth
    BY <1>4, QueueAssumption DEF Complete, Blocked, Store, TypeOK
  <2>2. Contents' = Append(Contents, call[t].item)
    BY <1>4, <2>1, StoreAppends
  <2> QED
    BY <1>1, <1>2, <1>3, <1>4, <2>2 DEF Store, Fifo!Put, Fifo!Active, Status
<1>5. CASE Fetch(t)
  <2>1. count > 0
    BY <1>5, QueueAssumption DEF Complete, Blocked, Fetch, TypeOK
  <2>2. buffer[head] = Head(Contents) /\ Contents' = Tail(Contents)
    BY <1>5, <2>1, FetchTakesHead
  <2> QED
    BY <1>1, <1>2, <1>3, <1>5, <2>2 DEF Fetch, Fifo!Take, Fifo!Active, Status
<1> QED
  BY <1>4, <1>5 DEF Complete

LEMMA NextMaps ==
  ASSUME TypeOK, RingConsistent, TypeOK', [Next]_vars
  PROVE  [Fifo!Next]_(Fifo!vars)
<1>1. CASE UNCHANGED vars
  BY <1>1 DEF vars, Fifo!vars, Contents
<1>2. ASSUME NEW t \in Threads, Start(t) PROVE Fifo!Start(t)
  <2>1. Status' = [Status EXCEPT ![t] = "busy"] /\ Status[t] \in {"ok", "timeout"}
    BY <1>2 DEF Start, Status, TypeOK, Returned
  <2>2. Contents' = Contents
    BY <1>2 DEF Start, ring, Contents
  <2> QED
    BY <1>2, <2>1, <2>2 DEF Start, Fifo!Start, Calls, Fifo!Calls, Status
<1>3. ASSUME NEW t \in Threads, EnterAndComplete(t) \/ WokenAndComplete(t)
      PROVE  Fifo!Put(t) \/ Fifo!Take(t)
  BY <1>3, CompleteMaps DEF EnterAndComplete, WokenAndComplete
<1>4. ASSUME NEW t \in Threads, EnterAndFail(t) PROVE Fifo!GiveUp(t)
  <2>1. Status' = [Status EXCEPT ![t] = "timeout"] /\ Status[t] = "busy"
    BY <1>4 DEF EnterAndFail, Status, TypeOK, Returned
  <2>2. Contents' = Contents
    BY <1>4 DEF EnterAndFail, ring, Contents
  <2> QED
    BY <1>4, <2>1, <2>2, SameBlocked DEF EnterAndFail, Fifo!GiveUp, Status
<1>5. ASSUME NEW t \in Threads, EnterAndWait(t) PROVE Fifo!Wait(t)
  <2>1. Status' = [Status EXCEPT ![t] = "waiting"] /\ Status[t] = "busy"
    BY <1>5 DEF EnterAndWait, Status, TypeOK, Returned
  <2>2. Contents' = Contents
    BY <1>5 DEF EnterAndWait, ring, Contents
  <2> QED
    BY <1>5, <2>1, <2>2, SameBlocked DEF EnterAndWait, Fifo!Wait, Status
<1>6. ASSUME NEW t \in Threads, ReturnTimeout(t) PROVE Fifo!GiveUp(t)
  <2>1. Status' = [Status EXCEPT ![t] = "timeout"] /\ Status[t] = "waiting"
    BY <1>6 DEF ReturnTimeout, Status, TypeOK, Returned
  <2>2. Contents' = Contents
    BY <1>6 DEF ReturnTimeout, ring, Contents
  <2> QED
    BY <1>6, <2>1, <2>2 DEF ReturnTimeout, Fifo!GiveUp, Status
<1>7. ASSUME NEW t \in Threads,
             \/ DeadlinePasses(t) \/ WaitExpires(t) \/ WakeSpuriously(t)
             \/ SignalAbsorbed(t) \/ WokenAndWait(t)
      PROVE  UNCHANGED Fifo!vars
  <2>1. Status' = Status
    BY <1>7 DEF DeadlinePasses, WaitExpires, WakeSpuriously, SignalAbsorbed, WokenAndWait,
                Status, TypeOK, Returned
  <2>2. Contents' = Contents /\ call' = call
    BY <1>7 DEF DeadlinePasses, WaitExpires, WakeSpuriously, SignalAbsorbed, WokenAndWait,
                ring, Contents
  <2> QED
    BY <2>1, <2>2 DEF Fifo!vars, Status
<1> QED
  BY <1>1, <1>2, <1>3, <1>4, <1>5, <1>6, <1>7
     DEF Next, Proceed, Fifo!Next, Fifo!Finish

\* Every behaviour of the ring buffer is one of the FIFO: no item is lost,
\* duplicated or overtaken, whatever interleaves.
THEOREM RingImplementsFifo == Spec => ImplementsFifo
<1>1. Init => Fifo!Init
  BY InitMaps
<1>2. TypeOK /\ RingConsistent /\ TypeOK' /\ [Next]_vars => [Fifo!Next]_(Fifo!vars)
  BY NextMaps
<1> QED
  BY <1>1, <1>2, TypeCorrect, RingCorrect, PTL DEF Spec, ImplementsFifo, Fifo!Spec
=============================================================================
