----------------------------- MODULE TimerProofs -----------------------------
(***************************************************************************)
(* Proofs about Timer for any callers, ids, table size, scan period and    *)
(* timeouts: types, one entry per id, the accounting of armings, and that  *)
(* nothing expires early.                                                  *)
(***************************************************************************)
EXTENDS Timer, WellFoundedInduction, TLAPS

-----------------------------------------------------------------------------
(* Operators. *)

LEMMA InactiveEntry == Inactive \in Entries /\ Inactive.arming = 0 /\ Inactive.id = NoTimer
  BY TimerAssumption DEF Inactive, Entries

\* The first slot of a set of slots is one of them.
LEMMA FirstIsIn ==
  ASSUME NEW S \in SUBSET Slots, S # {}
  PROVE  FirstOf(S) \in S
<1>1. S \in SUBSET Nat
  BY TimerAssumption DEF Slots
<1> DEFINE R == {p \in Nat \X Nat : p[1] < p[2]}
<1>2. IsWellFoundedOn(R, Nat)
  <2>1. OpToRel(<, Nat) = R
    BY Zenon DEF OpToRel
  <2> QED
    BY <2>1, NatLessThanWellFounded, Zenon
<1>3. PICK x \in S : \A y \in S : ~ (<<y, x>> \in R)
  <2> HIDE DEF R
  <2> QED
    BY <1>1, <1>2, WFMin
<1>4. ASSUME NEW r \in S PROVE x <= r
  <2>1. r \in Nat /\ x \in Nat
    BY <1>1
  <2>2. ~ (<<r, x>> \in R)
    BY <1>3
  <2>3. ~ (r < x)
    BY <2>1, <2>2
  <2> QED
    BY <2>1, <2>3
<1> QED
  BY <1>4 DEF FirstOf

-----------------------------------------------------------------------------
(* Type correctness. *)

LEMMA InitType == Init => TypeOK
<1>1. 0 \in 0..MaxTime /\ 0 \in 0..MaxArmings /\ 0 \in Nat
  BY TimerAssumption
<1> QED
  BY <1>1, InactiveEntry, Zenon DEF Init, TypeOK, Fates

LEMMA NextType == TypeOK /\ [Next]_vars => TypeOK'
<1> USE TimerAssumption, InactiveEntry
<1> SUFFICES ASSUME TypeOK, [Next]_vars PROVE TypeOK'
  OBVIOUS
<1>1. CASE UNCHANGED vars
  BY <1>1 DEF vars, service, history, TypeOK
<1>2. CASE Tick
  <2>1. now' \in 0..MaxTime
    BY <1>2 DEF Tick, TypeOK
  <2> QED
    BY <1>2, <2>1 DEF Tick, service, history, TypeOK
<1>3. CASE InitThread \/ InitStarted
  BY <1>3, Zenon DEF InitThread, InitStarted, history, TypeOK
<1>4. ASSUME NEW t \in Callers, NEW id \in TimerIds, NEW d \in Timeouts, NEW e \in Events,
             StartCall(t, id, d, e)
      PROVE  TypeOK'
  <2>1. /\ armed' \in 0..MaxArmings
        /\ now + d \in Nat
    BY <1>4 DEF StartCall, TypeOK
  <2>2. [id |-> id, event |-> e, deadline |-> now + d, arming |-> armed + 1] \in Entries
    BY <1>4, <2>1 DEF StartCall, Entries, TypeOK
  <2>3. /\ request' \in [Callers -> Entries]
        /\ due' \in [Armings -> Nat]
        /\ fate' \in [Armings -> Fates]
    BY <1>4, <2>1, <2>2 DEF StartCall, TypeOK, Fates
  <2> QED
    BY <1>4, <2>1, <2>3 DEF StartCall, TypeOK
<1>5. ASSUME NEW t \in Callers, Request(t) PROVE TypeOK'
  <2>1. timers' \in [Slots -> Entries]
    BY <1>5 DEF Request, StartRestarts, StartInserts, StartBusy, TypeOK
  <2>2. fate' \in [Armings -> Fates]
    BY <1>5 DEF Request, StartRestarts, StartInserts, StartBusy, TypeOK, Fates
  <2>3. EndRequest(t)
    BY <1>5 DEF Request, StartRestarts, StartInserts, StartBusy
  <2> QED
    BY <2>1, <2>2, <2>3 DEF EndRequest, TypeOK
<1>6. ASSUME NEW t \in Callers, NEW id \in TimerIds, Stop(t, id) PROVE TypeOK'
  BY <1>6 DEF Stop, TypeOK, Fates
<1>7. CASE ScanSleeps \/ ScanReadsClock \/ ScanRoundEnds
  BY <1>7 DEF ScanSleeps, ScanReadsClock, ScanRoundEnds, SleepEnd, history, TypeOK
<1>8. CASE ScanCollects
  BY <1>8 DEF ScanCollects, TakenFrom, TypeOK, Fates
<1>9. ASSUME NEW b \in BOOLEAN, ScanPublishes(b) PROVE TypeOK'
  BY <1>9 DEF ScanPublishes, TypeOK, Fates
<1> QED
  BY <1>1, <1>2, <1>3, <1>4, <1>5, <1>6, <1>7, <1>8, <1>9 DEF Next, Call, Scan

\* Whatever interleaves, the table, the requests and the batch of the scanner
\* keep their types.
THEOREM TypeCorrect == Spec => []TypeOK
  BY InitType, NextType, PTL DEF Spec

-----------------------------------------------------------------------------
(* Accounting.  A ledger relates a table of entries to the armings with one *)
(* fate f: those armings are in the table, once each, and no others.        *)

Ledger(table, f, label) ==
    /\ \A a \in Armings : f[a] = label => OneOf(table, a)
    /\ \A i \in DOMAIN table : table[i] # Inactive => f[table[i].arming] = label

\* Entries that are in use have an arming number.
Numbered(table) == \A i \in DOMAIN table : table[i] = Inactive \/ table[i].arming \in Armings

\* The armings whose fate is not label are not in its ledger.
LEMMA NotInLedger ==
  ASSUME NEW I, NEW table \in [I -> Entries], NEW f, NEW label, Numbered(table),
         Ledger(table, f, label), NEW a \in Armings, f[a] # label
  PROVE  \A i \in I : table[i].arming # a
  BY InactiveEntry DEF Ledger, Numbered, Armings

\* A ledger does not change with fates that are not its own.
LEMMA LedgerKept ==
  ASSUME NEW I, NEW table \in [I -> Entries], NEW f, NEW g, NEW label, Numbered(table),
         Ledger(table, f, label),
         \A a \in Armings : g[a] = label <=> f[a] = label
  PROVE  Ledger(table, g, label)
  BY DEF Ledger, Numbered

\* An arming that gets its fate enters a free place ...
LEMMA LedgerPut ==
  ASSUME NEW I, NEW table \in [I -> Entries], NEW new \in [I -> Entries], NEW f, NEW g, NEW label,
         Numbered(table), Ledger(table, f, label),
         NEW i \in I, table[i] = Inactive, \A j \in I \ {i} : new[j] = table[j],
         new[i].arming \in Armings, f[new[i].arming] # label,
         \A a \in Armings : g[a] = label <=> f[a] = label \/ a = new[i].arming
  PROVE  Ledger(new, g, label)
<1>1. \A j \in I : table[j].arming # new[i].arming
  BY NotInLedger
<1>2. OneOf(new, new[i].arming)
  BY <1>1 DEF OneOf
<1>3. ASSUME NEW a \in Armings, g[a] = label, a # new[i].arming PROVE OneOf(new, a)
  <2>1. PICK j \in I : table[j].arming = a /\ \A k \in I \ {j} : table[k].arming # a
    BY <1>3 DEF Ledger, OneOf
  <2>2. j # i
    BY <2>1, InactiveEntry DEF Armings
  <2> QED
    BY <1>3, <2>1, <2>2 DEF OneOf
<1>4. ASSUME NEW j \in I, new[j] # Inactive PROVE g[new[j].arming] = label
  BY <1>4 DEF Ledger, Numbered
<1> QED
  BY <1>2, <1>3, <1>4 DEF Ledger

\* ... and one that loses it leaves its place.
LEMMA LedgerClear ==
  ASSUME NEW I, NEW table \in [I -> Entries], NEW f, NEW g, NEW label, Numbered(table),
         Ledger(table, f, label),
         NEW i \in I, table[i] # Inactive,
         \A a \in Armings : g[a] = label <=> f[a] = label /\ a # table[i].arming
  PROVE  Ledger([table EXCEPT ![i] = Inactive], g, label)
<1> DEFINE new == [table EXCEPT ![i] = Inactive]
<1>1. /\ new[i] = Inactive
      /\ \A j \in I \ {i} : new[j] = table[j]
      /\ DOMAIN new = I /\ DOMAIN table = I
  OBVIOUS
<1>2. table[i].arming \in Armings /\ f[table[i].arming] = label
  BY <1>1 DEF Ledger, Numbered
<1>3. \A j \in I \ {i} : table[j].arming # table[i].arming
  BY <1>1, <1>2 DEF Ledger, OneOf
<1>4. ASSUME NEW a \in Armings, g[a] = label PROVE OneOf(new, a)
  <2>1. PICK j \in I : table[j].arming = a /\ \A k \in I \ {j} : table[k].arming # a
    BY <1>1, <1>4 DEF Ledger, OneOf
  <2>2. j # i
    BY <1>4, <2>1
  <2>3. \A k \in I \ {j} : new[k].arming # a
    BY <1>1, <2>1, InactiveEntry DEF Armings
  <2> QED
    BY <1>1, <2>1, <2>2, <2>3 DEF OneOf
<1>5. ASSUME NEW j \in I, new[j] # Inactive PROVE g[new[j].arming] = label
  BY <1>1, <1>3, <1>5 DEF Ledger, Numbered
<1> HIDE DEF new
<1>6. Ledger(new, g, label)
  BY <1>1, <1>4, <1>5 DEF Ledger
<1> QED
  BY <1>6 DEF new

-----------------------------------------------------------------------------
(* What the accounting rests on.                                           *)

\* An entry in use names a timer, belongs to a start call made, and has the
\* deadline that call asked for.
ValidEntry(e) == \/ e = Inactive
                 \/ /\ e.id \in TimerIds
                    /\ e.arming \in 1..armed
                    /\ e.deadline = due[e.arming]

Bookkeeping ==
    /\ \A a \in Armings : fate[a] = "unused" <=> a > armed
    /\ \A t \in Callers : ValidEntry(request[t])
    /\ \A s \in Slots : ValidEntry(timers[s]) /\ ValidEntry(expired[s])
    /\ spc # "publish" => Pending = {}
    /\ scanNow <= now

LEMMA InitBookkeeping == Init => Bookkeeping
<1> SUFFICES ASSUME Init PROVE Bookkeeping
  OBVIOUS
<1>1. \A a \in Armings : fate[a] = "unused" /\ a > armed
  BY DEF Init, Armings
<1>2. Pending = {}
  BY DEF Init, Pending
<1> QED
  BY <1>1, <1>2 DEF Init, Bookkeeping, ValidEntry

\* The published entry is one of the batch.
LEMMA NextExpiredValid ==
  ASSUME TypeOK, Bookkeeping, Pending # {}
  PROVE  /\ FirstOf(Pending) \in Slots
         /\ NextExpired # Inactive
         /\ NextExpired.arming \in Armings
         /\ NextExpired.arming <= armed
<1>1. FirstOf(Pending) \in Pending
  BY FirstIsIn DEF Pending
<1>2. NextExpired # Inactive /\ FirstOf(Pending) \in Slots
  BY <1>1 DEF Pending, NextExpired
<1>3. NextExpired.arming \in 1..armed
  BY <1>2 DEF Bookkeeping, ValidEntry, NextExpired
<1> QED
  BY <1>2, <1>3, TimerAssumption DEF TypeOK, Armings

LEMMA NextBookkeeping == TypeOK /\ Bookkeeping /\ [Next]_vars => Bookkeeping'
<1> USE TimerAssumption, InactiveEntry
<1> SUFFICES ASSUME TypeOK, Bookkeeping, [Next]_vars PROVE Bookkeeping'
  OBVIOUS
<1>0. TypeOK'
  BY NextType
<1>1. CASE \/ UNCHANGED vars
           \/ Tick \/ InitThread \/ InitStarted \/ ScanSleeps \/ ScanReadsClock \/ ScanRoundEnds
  <2>1. UNCHANGED <<timers, request, expired, armed, due, fate>>
    BY <1>1 DEF vars, Tick, InitThread, InitStarted, ScanSleeps, ScanReadsClock, ScanRoundEnds,
                service, history
  <2>2. Pending' = Pending /\ (spc' # "publish" => Pending = {})
    BY <1>1, <2>1 DEF Pending, Bookkeeping, vars, Tick, InitThread, InitStarted, ScanSleeps,
                      ScanReadsClock, ScanRoundEnds, service, history
  <2>3. scanNow' <= now'
    BY <1>1, <1>0 DEF Bookkeeping, vars, Tick, InitThread, InitStarted, ScanSleeps,
                ScanReadsClock, ScanRoundEnds, service, history, TypeOK
  <2> QED
    BY <2>1, <2>2, <2>3 DEF Bookkeeping, ValidEntry
<1>2. ASSUME NEW t \in Callers, NEW id \in TimerIds, NEW d \in Timeouts, NEW e \in Events,
             StartCall(t, id, d, e)
      PROVE  Bookkeeping'
  <2>1. /\ armed' = armed + 1
        /\ armed \in Nat
        /\ armed + 1 \in Armings
        /\ \A a \in Armings \ {armed + 1} : fate'[a] = fate[a] /\ due'[a] = due[a]
        /\ fate'[armed + 1] = "calling"
        /\ due'[armed + 1] = now + d
    BY <1>2 DEF StartCall, TypeOK, Armings
  <2>2. ASSUME NEW e0 \in Entries, ValidEntry(e0) PROVE ValidEntry(e0)'
    BY <2>1, <2>2 DEF ValidEntry, Armings, TypeOK
  <2>3. ValidEntry(request[t])'
    BY <1>2, <2>1 DEF StartCall, ValidEntry, TypeOK
  <2>4. \A u \in Callers : ValidEntry(request[u])'
    BY <1>2, <2>1, <2>2, <2>3 DEF StartCall, Bookkeeping, TypeOK
  <2>5. \A a \in Armings : fate'[a] = "unused" <=> a > armed'
    BY <2>1 DEF Bookkeeping, Armings
  <2>6. UNCHANGED <<timers, expired, spc, scanNow, now>>
    BY <1>2 DEF StartCall
  <2>7. \A s \in Slots : ValidEntry(timers[s])' /\ ValidEntry(expired[s])'
    BY <2>2, <2>6 DEF Bookkeeping, TypeOK
  <2> QED
    BY <2>4, <2>5, <2>6, <2>7 DEF Bookkeeping, Pending
<1>3. ASSUME UNCHANGED <<armed, due, now, scanNow>>,
             \A a \in Armings : fate'[a] = "unused" <=> fate[a] = "unused",
             \A u \in Callers : request'[u] \in {request[u], Inactive},
             \A s \in Slots : /\ \/ timers'[s] \in {timers[s], Inactive}
                                 \/ \E u \in Callers : timers'[s] = request[u]
                              /\ expired'[s] \in {expired[s], timers[s], Inactive},
             spc' # "publish" => Pending' = {}
      PROVE  Bookkeeping'
  <2>1. ASSUME NEW e, ValidEntry(e) PROVE ValidEntry(e)'
    BY <1>3, <2>1 DEF ValidEntry
  <2>2. ValidEntry(Inactive)
    BY DEF ValidEntry
  <2>3. \A u \in Callers : ValidEntry(request'[u])
    BY <1>3, <2>2 DEF Bookkeeping
  <2>4. \A s \in Slots : ValidEntry(timers'[s]) /\ ValidEntry(expired'[s])
    BY <1>3, <2>2 DEF Bookkeeping
  <2>5. /\ \A u \in Callers : ValidEntry(request[u])'
        /\ \A s \in Slots : ValidEntry(timers[s])' /\ ValidEntry(expired[s])'
    BY <1>3, <2>3, <2>4 DEF ValidEntry
  <2> QED
    BY <1>3, <2>5 DEF Bookkeeping
<1>4. ASSUME NEW t \in Callers, Request(t) PROVE Bookkeeping'
  <2>1. /\ EndRequest(t)
        /\ request[t] # Inactive
    BY <1>4 DEF Request, StartRestarts, StartInserts, StartBusy
  <2>2. request[t].arming \in Armings /\ request[t].arming <= armed
    BY <2>1 DEF Bookkeeping, ValidEntry, TypeOK, Armings
  <2>3. /\ \A u \in Callers : request'[u] \in {request[u], Inactive}
        /\ UNCHANGED <<armed, due, now, scanNow, spc, expired>>
    BY <2>1 DEF EndRequest, TypeOK
  <2>4. \A s \in Slots : timers'[s] \in {timers[s], request[t]}
    BY <1>4 DEF Request, StartRestarts, StartInserts, StartBusy, TypeOK
  <2>5. \A a \in Armings : fate'[a] = "unused" <=> fate[a] = "unused"
    <3>1. fate[request[t].arming] # "unused"
      BY <2>2 DEF Bookkeeping, Armings, TypeOK
    <3>2. CASE StartRestarts(t)
      <4>1. PICK s \in SlotOf(request[t].id) :
               fate' = [fate EXCEPT ![timers[s].arming] = "replaced", ![request[t].arming] = "armed"]
        BY <3>2 DEF StartRestarts
      <4>2. timers[s].id \in TimerIds
        BY <2>1, <4>1 DEF SlotOf, Bookkeeping, ValidEntry
      <4>3. timers[s] # Inactive
        BY <4>2
      <4>4. timers[s].arming \in Armings /\ timers[s].arming <= armed
        BY <4>1, <4>3 DEF SlotOf, Bookkeeping, ValidEntry, TypeOK, Armings
      <4>5. fate[timers[s].arming] # "unused"
        BY <4>4 DEF Bookkeeping, Armings, TypeOK
      <4> QED
        BY <3>1, <4>1, <4>5 DEF TypeOK
    <3>3. CASE StartInserts(t) \/ StartBusy(t)
      BY <3>1, <3>3 DEF StartInserts, StartBusy, TypeOK
    <3> QED
      BY <1>4, <3>2, <3>3 DEF Request
  <2>6. spc' # "publish" => Pending' = {}
    BY <2>3 DEF Bookkeeping, Pending
  <2> QED
    BY <1>3, <2>3, <2>4, <2>5, <2>6
<1>5. ASSUME NEW t \in Callers, NEW id \in TimerIds, Stop(t, id) PROVE Bookkeeping'
  <2>1. PICK s \in SlotOf(id) : /\ timers' = [timers EXCEPT ![s] = Inactive]
                               /\ fate' = [fate EXCEPT ![timers[s].arming] = "stopped"]
    BY <1>5 DEF Stop
  <2>2. timers[s] # Inactive
    BY <2>1 DEF SlotOf
  <2>3. timers[s].arming \in Armings /\ timers[s].arming <= armed
    BY <2>1, <2>2 DEF SlotOf, Bookkeeping, ValidEntry, TypeOK, Armings
  <2>4. fate[timers[s].arming] # "unused"
    BY <2>3 DEF Bookkeeping, Armings, TypeOK
  <2>5. \A a \in Armings : fate'[a] = "unused" <=> fate[a] = "unused"
    BY <2>1, <2>4 DEF TypeOK
  <2>6. UNCHANGED <<armed, due, now, scanNow, request, expired, spc>>
    BY <1>5 DEF Stop
  <2>7. \A r \in Slots : timers'[r] \in {timers[r], Inactive}
    BY <2>1 DEF TypeOK
  <2> QED
    BY <1>3, <2>5, <2>6, <2>7 DEF Bookkeeping, Pending
<1>6. CASE ScanCollects
  <2>1. ASSUME NEW a \in Armings PROVE fate'[a] = "unused" <=> fate[a] = "unused"
    <3>1. CASE \E s \in Expiring : timers[s].arming = a
      <4>1. PICK s \in Expiring : timers[s].arming = a
        BY <3>1
      <4>2. s \in Slots /\ timers[s] # Inactive
        BY DEF Expiring, IsActive
      <4>3. a <= armed
        BY <4>1, <4>2 DEF Bookkeeping, ValidEntry, TypeOK
      <4>4. fate[a] # "unused"
        BY <4>3 DEF Bookkeeping, TypeOK, Armings
      <4> QED
        BY <1>6, <3>1, <4>4 DEF ScanCollects
    <3>2. CASE ~ \E s \in Expiring : timers[s].arming = a
      BY <1>6, <3>2 DEF ScanCollects
    <3> QED
      BY <3>1, <3>2
  <2>2. \A s \in Slots : /\ timers'[s] \in {timers[s], Inactive}
                         /\ expired'[s] \in {timers[s], Inactive}
    BY <1>6 DEF ScanCollects, TakenFrom, TypeOK
  <2>3. UNCHANGED <<armed, due, now, scanNow, request>> /\ spc' = "publish"
    BY <1>6 DEF ScanCollects
  <2> QED
    BY <1>3, <2>1, <2>2, <2>3
<1>7. ASSUME NEW b \in BOOLEAN, ScanPublishes(b) PROVE Bookkeeping'
  <2>1. /\ NextExpired.arming \in Armings
        /\ NextExpired.arming <= armed
    BY <1>7, NextExpiredValid DEF ScanPublishes
  <2>2. fate[NextExpired.arming] # "unused"
    BY <2>1 DEF Bookkeeping, Armings, TypeOK
  <2>3. \A a \in Armings : fate'[a] = "unused" <=> fate[a] = "unused"
    BY <1>7, <2>2 DEF ScanPublishes, TypeOK
  <2>4. UNCHANGED <<armed, due, now, scanNow, request, timers, spc>> /\ spc = "publish"
    BY <1>7 DEF ScanPublishes
  <2>5. \A s \in Slots : expired'[s] \in {expired[s], Inactive}
    BY <1>7 DEF ScanPublishes, TypeOK
  <2> QED
    BY <1>3, <2>3, <2>4, <2>5
<1> QED
  BY <1>1, <1>2, <1>4, <1>5, <1>6, <1>7 DEF Next, Call, Scan

-----------------------------------------------------------------------------
(* One entry per id. *)

LEMMA NextOneEntry == TypeOK /\ Bookkeeping /\ OneEntryPerId /\ [Next]_vars => OneEntryPerId'
<1> USE InactiveEntry
<1> SUFFICES ASSUME TypeOK, Bookkeeping, OneEntryPerId, [Next]_vars PROVE OneEntryPerId'
  OBVIOUS
<1>1. ASSUME \A s \in Slots : timers'[s] \in {timers[s], Inactive}
      PROVE  OneEntryPerId'
  BY <1>1 DEF OneEntryPerId, IsActive
<1>2. CASE \/ UNCHANGED vars
           \/ Tick \/ InitThread \/ InitStarted \/ Scan
           \/ \E t \in Callers : Call(t) \/ StartBusy(t)
  <2>1. \A s \in Slots : timers'[s] \in {timers[s], Inactive}
    BY <1>2 DEF vars, Tick, InitThread, InitStarted, Scan, ScanSleeps, ScanReadsClock,
                ScanRoundEnds, ScanCollects, ScanPublishes, Call, StartCall, Stop, StartBusy,
                service, history, TypeOK
  <2> QED
    BY <1>1, <2>1
<1>3. ASSUME NEW t \in Callers, StartRestarts(t) PROVE OneEntryPerId'
  <2>1. PICK s \in SlotOf(request[t].id) : timers' = [timers EXCEPT ![s] = request[t]]
    BY <1>3 DEF StartRestarts
  <2>2. /\ s \in Slots
        /\ timers[s].id = request[t].id
        /\ \A r \in Slots : timers'[r].id = timers[r].id
    BY <2>1 DEF SlotOf, TypeOK
  <2> QED
    BY <2>2 DEF OneEntryPerId, IsActive
<1>4. ASSUME NEW t \in Callers, StartInserts(t) PROVE OneEntryPerId'
  <2>1. PICK s \in Slots : timers' = [timers EXCEPT ![s] = request[t]]
    <3>1. FirstOf(FreeSlots) \in Slots
      BY <1>4, FirstIsIn DEF StartInserts, FreeSlots
    <3> QED
      BY <1>4, <3>1 DEF StartInserts
  <2>2. \A r \in Slots \ {s} : timers'[r] = timers[r] /\ timers[r].id # timers'[s].id
    BY <1>4, <2>1 DEF StartInserts, SlotOf, TypeOK
  <2> QED
    BY <2>2 DEF OneEntryPerId, IsActive
<1> QED
  BY <1>2, <1>3, <1>4 DEF Next, Request

\* Concurrent starts of one id never leave it with two entries, whatever slots
\* become free between them, for any table and any number of callers.
THEOREM OneEntry == Spec => []OneEntryPerId
<1>1. Init => TypeOK /\ Bookkeeping /\ OneEntryPerId
  <2>1. Init => OneEntryPerId
    BY InactiveEntry DEF Init, OneEntryPerId, IsActive
  <2> QED
    BY <2>1, InitType, InitBookkeeping
<1>2. TypeOK /\ Bookkeeping /\ OneEntryPerId /\ [Next]_vars => (TypeOK /\ Bookkeeping /\ OneEntryPerId)'
  BY NextType, NextBookkeeping, NextOneEntry
<1> QED
  BY <1>1, <1>2, PTL DEF Spec

-----------------------------------------------------------------------------
(* The ledgers of the service. *)

LEMMA AccountingIsLedgers ==
  ASSUME TypeOK
  PROVE  Accounting <=> /\ Ledger(request, fate, "calling")
                        /\ Ledger(timers, fate, "armed")
                        /\ Ledger(expired, fate, "expired")
  BY DEF Accounting, Ledger, TypeOK

LEMMA TablesNumbered ==
  ASSUME TypeOK, Bookkeeping
  PROVE  Numbered(request) /\ Numbered(timers) /\ Numbered(expired)
<1>1. ASSUME NEW e, ValidEntry(e) PROVE e = Inactive \/ e.arming \in Armings
  BY <1>1, TimerAssumption DEF ValidEntry, TypeOK, Armings
<1> QED
  BY <1>1 DEF Numbered, Bookkeeping, TypeOK

LEMMA NextAccounting == TypeOK /\ Bookkeeping /\ Accounting /\ [Next]_vars => Accounting'
<1> USE InactiveEntry
<1> SUFFICES ASSUME TypeOK, Bookkeeping, Accounting, [Next]_vars PROVE Accounting'
  OBVIOUS
<1>0. TypeOK'
  BY NextType
<1>1. /\ Ledger(request, fate, "calling")
      /\ Ledger(timers, fate, "armed")
      /\ Ledger(expired, fate, "expired")
  BY AccountingIsLedgers
<1>2. /\ request \in [Callers -> Entries]
      /\ timers \in [Slots -> Entries]
      /\ expired \in [Slots -> Entries]
      /\ fate \in [Armings -> Fates]
      /\ Numbered(request) /\ Numbered(timers) /\ Numbered(expired)
  BY TablesNumbered DEF TypeOK
<1>3. ASSUME Ledger(request', fate', "calling"), Ledger(timers', fate', "armed"),
             Ledger(expired', fate', "expired")
      PROVE  Accounting'
  BY <1>0, <1>3 DEF Accounting, Ledger, TypeOK
<1>4. CASE \/ UNCHANGED vars
           \/ Tick \/ InitThread \/ InitStarted \/ ScanSleeps \/ ScanReadsClock \/ ScanRoundEnds
  <2>1. UNCHANGED <<request, timers, expired, fate>>
    BY <1>4 DEF vars, Tick, InitThread, InitStarted, ScanSleeps, ScanReadsClock, ScanRoundEnds,
                service, history
  <2> QED
    BY <1>1, <1>3, <2>1
<1>5. ASSUME NEW t \in Callers, NEW id \in TimerIds, NEW d \in Timeouts, NEW e \in Events,
             StartCall(t, id, d, e)
      PROVE  Accounting'
  <2> DEFINE new == [id |-> id, event |-> e, deadline |-> now + d, arming |-> armed + 1]
  <2>1. /\ new \in Entries /\ new.arming = armed + 1 /\ armed + 1 \in Armings
        /\ fate[armed + 1] = "unused"
    <3>1. /\ armed + 1 \in Armings /\ armed + 1 > armed
          /\ now + d \in Nat
          /\ armed + 1 \in 0..MaxArmings
      BY <1>5, TimerAssumption DEF StartCall, TypeOK, Armings
    <3>2. new \in Entries
      BY <3>1 DEF Entries
    <3>3. fate[armed + 1] = "unused"
      BY <3>1 DEF Bookkeeping
    <3> QED
      BY <3>1, <3>2, <3>3
  <2>2. /\ request[t] = Inactive
        /\ request' = [request EXCEPT ![t] = new]
        /\ fate' = [fate EXCEPT ![armed + 1] = "calling"]
        /\ UNCHANGED <<timers, expired>>
    BY <1>5 DEF StartCall
  <2> HIDE DEF new
  <2>3. \A a \in Armings : fate'[a] = IF a = armed + 1 THEN "calling" ELSE fate[a]
    BY <1>2, <2>2
  <2>4. Ledger(request', fate', "calling")
    <3>1. /\ request' \in [Callers -> Entries]
          /\ \A u \in Callers \ {t} : request'[u] = request[u]
          /\ request'[t] = new
      BY <1>2, <2>1, <2>2
    <3>2. request'[t].arming \in Armings /\ fate[request'[t].arming] # "calling"
      BY <2>1, <3>1
    <3>3. \A a \in Armings : fate'[a] = "calling" <=> fate[a] = "calling" \/ a = request'[t].arming
      BY <2>1, <2>3, <3>1
    <3>4. /\ request \in [Callers -> Entries]
          /\ Numbered(request)
          /\ Ledger(request, fate, "calling")
          /\ request[t] = Inactive
      BY <1>1, <1>2, <2>2
    <3>5. /\ request' \in [Callers -> Entries]
          /\ \A u \in Callers \ {t} : request'[u] = request[u]
      BY <3>1
    <3> QED
      BY <3>2, <3>3, <3>4, <3>5, LedgerPut
  <2>5. Ledger(timers', fate', "armed") /\ Ledger(expired', fate', "expired")
    BY <1>1, <1>2, <2>1, <2>2, <2>3, LedgerKept
  <2> QED
    BY <1>3, <2>4, <2>5
<1>6. ASSUME NEW t \in Callers, request[t] # Inactive, EndRequest(t),
             NEW f, \A a \in Armings : f[a] = "calling" <=> fate[a] = "calling" /\ a # request[t].arming
      PROVE  Ledger(request', f, "calling")
  <2>1. Ledger([request EXCEPT ![t] = Inactive], f, "calling")
    BY <1>1, <1>2, <1>6, LedgerClear
  <2> QED
    BY <1>6, <2>1 DEF EndRequest
<1>7. ASSUME NEW t \in Callers, request[t] # Inactive
      PROVE  /\ request[t].arming \in Armings
             /\ request[t] \in Entries
             /\ fate[request[t].arming] = "calling"
  BY <1>1, <1>2, <1>7 DEF Numbered, Ledger
<1>8. ASSUME NEW s \in Slots, timers[s] # Inactive
      PROVE  timers[s].arming \in Armings /\ fate[timers[s].arming] = "armed"
  BY <1>1, <1>2, <1>8 DEF Numbered, Ledger
<1>9. ASSUME NEW t \in Callers, NEW s \in Slots, timers[s] # Inactive, request[t] # Inactive,
             timers' = [timers EXCEPT ![s] = request[t]],
             fate' = [fate EXCEPT ![timers[s].arming] = "replaced", ![request[t].arming] = "armed"],
             EndRequest(t)
      PROVE  Accounting'
  <2> DEFINE cleared == [timers EXCEPT ![s] = Inactive]
             f == [fate EXCEPT ![timers[s].arming] = "replaced"]
  <2>1. /\ \A a \in Armings : f[a] = IF a = timers[s].arming THEN "replaced" ELSE fate[a]
        /\ \A a \in Armings : fate'[a] = IF a = request[t].arming THEN "armed" ELSE f[a]
        /\ fate[timers[s].arming] = "armed"
        /\ fate[request[t].arming] = "calling"
    BY <1>2, <1>7, <1>8, <1>9
  <2>2. Ledger(cleared, f, "armed")
    <3>1. \A a \in Armings : f[a] = "armed" <=> fate[a] = "armed" /\ a # timers[s].arming
      BY <2>1
    <3> HIDE DEF f
    <3> QED
      BY <1>1, <1>2, <1>9, <3>1, LedgerClear
  <2>3. /\ cleared \in [Slots -> Entries]
        /\ cleared[s] = Inactive
        /\ Numbered(cleared)
    BY <1>2, <1>9 DEF Numbered
  <2>4. Ledger(timers', fate', "armed")
    <3>1. \A a \in Armings : fate'[a] = "armed" <=> f[a] = "armed" \/ a = request[t].arming
      BY <2>1
    <3>2. request[t].arming \in Armings /\ f[request[t].arming] # "armed"
      BY <1>7, <1>9, <2>1
    <3>3. /\ timers' \in [Slots -> Entries]
          /\ timers'[s] = request[t]
          /\ \A r \in Slots \ {s} : timers'[r] = cleared[r]
      BY <1>2, <1>9
    <3> HIDE DEF f, cleared
    <3> QED
      BY <2>2, <2>3, <3>1, <3>2, <3>3, LedgerPut
  <2>5. \A a \in Armings : fate'[a] = "calling" <=> fate[a] = "calling" /\ a # request[t].arming
    BY <2>1
  <2>6. Ledger(request', fate', "calling")
    BY <1>6, <1>9, <2>5
  <2>7. \A a \in Armings : fate'[a] = "expired" <=> fate[a] = "expired"
    BY <2>1
  <2>8. expired' = expired
    BY <1>9 DEF EndRequest
  <2>9. Ledger(expired', fate', "expired")
    BY <1>1, <1>2, <2>7, <2>8, LedgerKept
  <2> QED
    BY <1>3, <2>4, <2>6, <2>9
<1>10. ASSUME NEW t \in Callers, StartRestarts(t) PROVE Accounting'
  <2>1. PICK s \in SlotOf(request[t].id) :
           /\ timers' = [timers EXCEPT ![s] = request[t]]
           /\ fate' = [fate EXCEPT ![timers[s].arming] = "replaced", ![request[t].arming] = "armed"]
    BY <1>10 DEF StartRestarts
  <2>2. request[t] # Inactive /\ EndRequest(t)
    BY <1>10 DEF StartRestarts
  <2>3. s \in Slots /\ timers[s] # Inactive
    BY <2>1, <2>2, TimerAssumption DEF SlotOf, Bookkeeping, ValidEntry
  <2> QED
    BY <1>9, <2>1, <2>2, <2>3
<1>11. ASSUME NEW t \in Callers, StartInserts(t) PROVE Accounting'
  <2> DEFINE s == FirstOf(FreeSlots)
  <2>1. /\ request[t] # Inactive /\ EndRequest(t)
        /\ timers' = [timers EXCEPT ![s] = request[t]]
        /\ fate' = [fate EXCEPT ![request[t].arming] = "armed"]
    BY <1>11 DEF StartInserts
  <2>2. s \in FreeSlots
    BY <1>11, FirstIsIn DEF StartInserts, FreeSlots
  <2>3. s \in Slots /\ timers[s] = Inactive
    BY <2>2, TimerAssumption DEF FreeSlots, IsActive, Bookkeeping, ValidEntry
  <2> HIDE DEF s
  <2>4. /\ \A a \in Armings : fate'[a] = IF a = request[t].arming THEN "armed" ELSE fate[a]
        /\ fate[request[t].arming] = "calling"
        /\ request[t] \in Entries /\ request[t].arming \in Armings
    BY <1>2, <1>7, <2>1
  <2>5. Ledger(timers', fate', "armed")
    <3>1. \A a \in Armings : fate'[a] = "armed" <=> fate[a] = "armed" \/ a = request[t].arming
      BY <2>4
    <3>2. /\ timers' \in [Slots -> Entries]
          /\ timers'[s] = request[t]
          /\ \A r \in Slots \ {s} : timers'[r] = timers[r]
      BY <1>2, <2>1, <2>3
    <3>3. timers'[s].arming \in Armings /\ fate[timers'[s].arming] # "armed"
      BY <2>4, <3>2
    <3> QED
      BY <1>1, <1>2, <2>3, <3>1, <3>2, <3>3, LedgerPut
  <2>6. Ledger(request', fate', "calling")
    <3>1. \A a \in Armings : fate'[a] = "calling" <=> fate[a] = "calling" /\ a # request[t].arming
      BY <2>4
    <3> QED
      BY <1>6, <2>1, <3>1, Zenon
  <2>7. expired' = expired
    BY <2>1 DEF EndRequest
  <2>8. Ledger(expired', fate', "expired")
    BY <1>1, <1>2, <2>4, <2>7, LedgerKept
  <2> QED
    BY <1>3, <2>5, <2>6, <2>8
<1>12. ASSUME NEW t \in Callers, StartBusy(t) PROVE Accounting'
  <2>1. /\ request[t] # Inactive /\ EndRequest(t)
        /\ timers' = timers
        /\ fate' = [fate EXCEPT ![request[t].arming] = "refused"]
    BY <1>12 DEF StartBusy
  <2>2. /\ \A a \in Armings : fate'[a] = IF a = request[t].arming THEN "refused" ELSE fate[a]
        /\ fate[request[t].arming] = "calling"
    BY <1>2, <1>7, <2>1
  <2>3. Ledger(request', fate', "calling")
    <3>1. \A a \in Armings : fate'[a] = "calling" <=> fate[a] = "calling" /\ a # request[t].arming
      BY <2>2
    <3> QED
      BY <1>6, <2>1, <3>1, Zenon
  <2>4. expired' = expired
    BY <2>1 DEF EndRequest
  <2>5. Ledger(timers', fate', "armed") /\ Ledger(expired', fate', "expired")
    BY <1>1, <1>2, <2>1, <2>2, <2>4, LedgerKept
  <2> QED
    BY <1>3, <2>3, <2>5
<1>13. ASSUME NEW t \in Callers, NEW id \in TimerIds, Stop(t, id) PROVE Accounting'
  <2>1. PICK s \in SlotOf(id) : /\ timers' = [timers EXCEPT ![s] = Inactive]
                               /\ fate' = [fate EXCEPT ![timers[s].arming] = "stopped"]
    BY <1>13 DEF Stop
  <2>2. s \in Slots /\ timers[s] # Inactive
    BY <2>1, TimerAssumption DEF SlotOf
  <2>3. /\ \A a \in Armings : fate'[a] = IF a = timers[s].arming THEN "stopped" ELSE fate[a]
        /\ fate[timers[s].arming] = "armed"
    BY <1>2, <1>8, <2>1, <2>2
  <2>4. Ledger(timers', fate', "armed")
    <3>1. \A a \in Armings : fate'[a] = "armed" <=> fate[a] = "armed" /\ a # timers[s].arming
      BY <2>3
    <3>2. Ledger([timers EXCEPT ![s] = Inactive], fate', "armed")
      BY <1>1, <1>2, <2>2, <3>1, LedgerClear, Zenon
    <3> QED
      BY <2>1, <3>2
  <2>5. UNCHANGED <<request, expired>>
    BY <1>13 DEF Stop
  <2>6. Ledger(request', fate', "calling") /\ Ledger(expired', fate', "expired")
    BY <1>1, <1>2, <2>3, <2>5, LedgerKept
  <2> QED
    BY <1>3, <2>4, <2>6
<1>14. ASSUME NEW b \in BOOLEAN, ScanPublishes(b) PROVE Accounting'
  <2> DEFINE s == FirstOf(Pending)
             outcome == IF b THEN "published" ELSE "dropped"
  <2>1. /\ s \in Slots
        /\ expired[s] # Inactive
        /\ fate' = [fate EXCEPT ![expired[s].arming] = outcome]
        /\ expired' = [expired EXCEPT ![s] = Inactive]
        /\ UNCHANGED <<request, timers>>
    BY <1>14, NextExpiredValid DEF ScanPublishes, NextExpired
  <2>2. outcome \in {"published", "dropped"}
    OBVIOUS
  <2> HIDE DEF s, outcome
  <2>3. expired[s].arming \in Armings /\ fate[expired[s].arming] = "expired"
    BY <1>1, <1>2, <2>1 DEF Numbered, Ledger
  <2>4. \A a \in Armings : fate'[a] = IF a = expired[s].arming THEN outcome ELSE fate[a]
    BY <1>2, <2>1, <2>3
  <2>5. Ledger(expired', fate', "expired")
    <3>1. \A a \in Armings : fate'[a] = "expired" <=> fate[a] = "expired" /\ a # expired[s].arming
      BY <2>2, <2>4
    <3>2. Ledger([expired EXCEPT ![s] = Inactive], fate', "expired")
      BY <1>1, <1>2, <2>1, <3>1, LedgerClear
    <3> QED
      BY <2>1, <3>2
  <2>6. \A a \in Armings : /\ fate'[a] = "calling" <=> fate[a] = "calling"
                           /\ fate'[a] = "armed" <=> fate[a] = "armed"
    BY <2>2, <2>3, <2>4
  <2>7. Ledger(request', fate', "calling") /\ Ledger(timers', fate', "armed")
    BY <1>1, <1>2, <2>1, <2>6, LedgerKept
  <2> QED
    BY <1>3, <2>5, <2>7
<1>15. CASE ScanCollects
  <2>1. /\ \A s \in Slots : /\ expired'[s] = IF s \in Expiring THEN timers[s] ELSE Inactive
                            /\ timers'[s] = IF s \in Expiring THEN Inactive ELSE timers[s]
        /\ \A a \in Armings : fate'[a] = IF \E s \in Expiring : timers[s].arming = a
                                         THEN "expired" ELSE fate[a]
        /\ request' = request
        /\ DOMAIN expired' = Slots /\ DOMAIN timers' = Slots
    BY <1>15 DEF ScanCollects, TakenFrom
  <2>2. \A s \in Slots : expired[s] = Inactive
    BY <1>15 DEF ScanCollects, Bookkeeping, Pending
  <2>3. \A a \in Armings : fate[a] # "expired"
    BY <1>1, <1>2, <2>2 DEF Ledger, OneOf, Armings
  <2>4. \A s \in Expiring : /\ s \in Slots /\ timers[s] # Inactive
                            /\ timers[s].arming \in Armings /\ fate[timers[s].arming] = "armed"
    BY <1>8 DEF Expiring, IsActive
  <2>5. \A a \in Armings, r \in Slots, s \in Slots :
           timers[r].arming = a /\ timers[s].arming = a => r = s
    <3> SUFFICES ASSUME NEW a \in Armings, NEW r \in Slots, NEW s \in Slots,
                        timers[r].arming = a, timers[s].arming = a
                 PROVE  r = s
      OBVIOUS
    <3>1. fate[a] = "armed"
      BY <1>8 DEF Armings
    <3> QED
      BY <1>1, <1>2, <3>1 DEF Ledger, OneOf
  <2>6. Ledger(expired', fate', "expired")
    <3>1. ASSUME NEW a \in Armings, fate'[a] = "expired" PROVE OneOf(expired', a)
      <4>1. PICK s \in Expiring : timers[s].arming = a
        BY <2>1, <2>3, <3>1
      <4>2. s \in Slots /\ expired'[s].arming = a
        BY <2>1, <2>4, <4>1
      <4>3. \A r \in Slots \ {s} : expired'[r].arming # a
        BY <2>1, <2>4, <2>5, <4>1, <4>2 DEF Armings
      <4> QED
        BY <2>1, <4>2, <4>3 DEF OneOf
    <3>2. ASSUME NEW s \in Slots, expired'[s] # Inactive PROVE fate'[expired'[s].arming] = "expired"
      BY <2>1, <2>4, <3>2
    <3> QED
      BY <2>1, <3>1, <3>2 DEF Ledger
  <2>7. Ledger(timers', fate', "armed")
    <3>1. ASSUME NEW a \in Armings, fate'[a] = "armed" PROVE OneOf(timers', a)
      <4>1. fate[a] = "armed" /\ ~ \E s \in Expiring : timers[s].arming = a
        BY <2>1, <3>1
      <4>2. PICK s \in Slots : timers[s].arming = a /\ \A r \in Slots \ {s} : timers[r].arming # a
        BY <1>1, <1>2, <4>1 DEF Ledger, OneOf
      <4>3. timers'[s].arming = a /\ \A r \in Slots \ {s} : timers'[r].arming # a
        BY <2>1, <4>1, <4>2 DEF Armings
      <4> QED
        BY <2>1, <4>2, <4>3 DEF OneOf
    <3>2. ASSUME NEW s \in Slots, timers'[s] # Inactive PROVE fate'[timers'[s].arming] = "armed"
      <4>1. s \notin Expiring /\ timers'[s] = timers[s]
        BY <2>1, <3>2
      <4>2. timers[s].arming \in Armings /\ fate[timers[s].arming] = "armed"
        BY <1>8, <3>2, <4>1
      <4>3. ~ \E r \in Expiring : timers[r].arming = timers[s].arming
        BY <2>4, <2>5, <4>1, <4>2
      <4> QED
        BY <2>1, <4>1, <4>2, <4>3
    <3> QED
      BY <2>1, <3>1, <3>2 DEF Ledger
  <2>8. Ledger(request', fate', "calling")
    <3>1. \A a \in Armings : fate'[a] = "calling" <=> fate[a] = "calling"
      BY <2>1, <2>4
    <3> QED
      BY <1>1, <1>2, <2>1, <3>1, LedgerKept
  <2> QED
    BY <1>3, <2>6, <2>7, <2>8
<1> QED
  BY <1>4, <1>5, <1>10, <1>11, <1>12, <1>13, <1>14, <1>15 DEF Next, Call, Request, Scan

\* Every start call is accounted for at every moment, in exactly one of the
\* places it can be: so no expiry is lost or duplicated between the table and
\* the scanner's batch, for any number of callers, ids and slots.
THEOREM AccountingKept == Spec => []Accounting
<1>1. Init => TypeOK /\ Bookkeeping /\ Accounting
  <2>1. Init => Accounting
    BY InactiveEntry DEF Init, Accounting
  <2> QED
    BY <2>1, InitType, InitBookkeeping
<1>2. TypeOK /\ Bookkeeping /\ Accounting /\ [Next]_vars => (TypeOK /\ Bookkeeping /\ Accounting)'
  BY NextType, NextBookkeeping, NextAccounting
<1> QED
  BY <1>1, <1>2, PTL DEF Spec

-----------------------------------------------------------------------------
(* Nothing expires early. *)

LEMMA NextNeverEarly ==
  TypeOK /\ Bookkeeping /\ Accounting /\ NeverEarly /\ [Next]_vars => NeverEarly'
<1> USE TimerAssumption, InactiveEntry
<1> SUFFICES ASSUME TypeOK, Bookkeeping, Accounting, NeverEarly, [Next]_vars PROVE NeverEarly'
  OBVIOUS
<1> DEFINE Late == {"expired", "published", "dropped"}
<1>0. TypeOK'
  BY NextType
<1>1. now' \in Nat /\ now \in Nat /\ now <= now' /\ \A a \in Armings : due[a] \in Nat
  <2>1. now' = now \/ now' = now + 1
    BY DEF Next, vars, Tick, InitThread, InitStarted, Call, StartCall, Stop, Request, StartRestarts,
           StartInserts, StartBusy, EndRequest, Scan, ScanSleeps, ScanReadsClock, ScanCollects,
           ScanPublishes, ScanRoundEnds
  <2> QED
    BY <2>1 DEF TypeOK
<1>2. ASSUME \A a \in Armings : fate'[a] \in Late =>
                due'[a] = due[a] /\ (fate[a] \in Late \/ due[a] <= now)
      PROVE  NeverEarly'
  BY <1>1, <1>2 DEF NeverEarly
<1>3. CASE \/ UNCHANGED vars
           \/ Tick \/ InitThread \/ InitStarted \/ ScanSleeps \/ ScanReadsClock \/ ScanRoundEnds
  <2>1. UNCHANGED <<due, fate>>
    BY <1>3 DEF vars, Tick, InitThread, InitStarted, ScanSleeps, ScanReadsClock, ScanRoundEnds,
                history
  <2> QED
    BY <1>2, <2>1
<1>4. ASSUME NEW t \in Callers, NEW id \in TimerIds, NEW d \in Timeouts, NEW e \in Events,
             StartCall(t, id, d, e)
      PROVE  NeverEarly'
  <2>1. \A a \in Armings : fate'[a] \in Late => due'[a] = due[a] /\ fate[a] \in Late
    BY <1>4 DEF StartCall, TypeOK
  <2> QED
    BY <1>2, <2>1
<1>5. ASSUME NEW t \in Callers, Request(t) PROVE NeverEarly'
  <2>1. \A a \in Armings : fate'[a] \in Late => fate[a] \in Late
    BY <1>5 DEF Request, StartRestarts, StartInserts, StartBusy, TypeOK
  <2>2. due' = due
    BY <1>5 DEF Request, StartRestarts, StartInserts, StartBusy, EndRequest
  <2> QED
    BY <1>2, <2>1, <2>2
<1>6. ASSUME NEW t \in Callers, NEW id \in TimerIds, Stop(t, id) PROVE NeverEarly'
  <2>1. due' = due /\ \A a \in Armings : fate'[a] \in Late => fate[a] \in Late
    BY <1>6 DEF Stop, TypeOK
  <2> QED
    BY <1>2, <2>1
<1>7. CASE ScanCollects
  <2>1. due' = due
    BY <1>7 DEF ScanCollects
  <2>2. ASSUME NEW s \in Expiring PROVE due[timers[s].arming] <= now
    <3>1. s \in Slots /\ timers[s] # Inactive /\ timers[s].deadline <= scanNow
      BY DEF Expiring, IsActive
    <3>2. timers[s].deadline = due[timers[s].arming] /\ timers[s].arming \in Armings
      BY <3>1 DEF Bookkeeping, ValidEntry, TypeOK, Armings
    <3> QED
      BY <1>1, <3>1, <3>2 DEF Bookkeeping, TypeOK
  <2>3. \A a \in Armings : fate'[a] = fate[a] \/ \E s \in Expiring : timers[s].arming = a
    BY <1>7 DEF ScanCollects
  <2> QED
    BY <1>2, <2>1, <2>2, <2>3
<1>8. ASSUME NEW b \in BOOLEAN, ScanPublishes(b) PROVE NeverEarly'
  <2>1. NextExpired.arming \in Armings /\ fate[NextExpired.arming] = "expired"
    BY <1>8, NextExpiredValid DEF ScanPublishes, NextExpired, Accounting
  <2>2. \A a \in Armings \ {NextExpired.arming} : fate'[a] = fate[a]
    BY <1>8 DEF ScanPublishes, TypeOK
  <2>3. due' = due
    BY <1>8 DEF ScanPublishes
  <2> QED
    BY <1>2, <2>1, <2>2, <2>3
<1> QED
  BY <1>3, <1>4, <1>5, <1>6, <1>7, <1>8 DEF Next, Call, Scan

\* No event is published before the time its caller asked for, although the
\* deadline and the scanner's clock are both read before the lock is held.
THEOREM NotEarly == Spec => []NeverEarly
<1>1. Init => TypeOK /\ Bookkeeping /\ Accounting /\ NeverEarly
  <2>1. Init => Accounting /\ NeverEarly
    BY InactiveEntry DEF Init, Accounting, NeverEarly
  <2> QED
    BY <2>1, InitType, InitBookkeeping
<1>2. TypeOK /\ Bookkeeping /\ Accounting /\ NeverEarly /\ [Next]_vars
        => (TypeOK /\ Bookkeeping /\ Accounting /\ NeverEarly)'
  BY NextType, NextBookkeeping, NextAccounting, NextNeverEarly
<1> QED
  BY <1>1, <1>2, PTL DEF Spec

-----------------------------------------------------------------------------
(* What is settled stays settled. *)

Settled == {"refused", "stopped", "replaced", "published", "dropped"}

LEMMA NextSettled ==
  TypeOK /\ Bookkeeping /\ Accounting /\ [Next]_vars
    => \A a \in Armings : fate[a] \in Settled => fate'[a] = fate[a]
<1> USE TimerAssumption, InactiveEntry DEF Settled
<1> SUFFICES ASSUME TypeOK, Bookkeeping, Accounting, [Next]_vars,
                    NEW a \in Armings, fate[a] \in Settled
             PROVE  fate'[a] = fate[a]
  OBVIOUS
<1>1. ASSUME NEW t \in Callers, NEW id \in TimerIds, NEW d \in Timeouts, NEW e \in Events,
             StartCall(t, id, d, e)
      PROVE  fate'[a] = fate[a]
  <2>1. armed + 1 \in Armings /\ armed + 1 > armed
    BY <1>1 DEF StartCall, TypeOK, Armings
  <2>2. a # armed + 1
    BY <2>1 DEF Bookkeeping
  <2> QED
    BY <1>1, <2>2 DEF StartCall, TypeOK
<1>2. ASSUME NEW t \in Callers, Request(t) PROVE fate'[a] = fate[a]
  <2>1. a # request[t].arming
    BY <1>2 DEF Request, StartRestarts, StartInserts, StartBusy, Accounting
  <2>2. CASE StartRestarts(t)
    <3>1. PICK s \in SlotOf(request[t].id) :
             fate' = [fate EXCEPT ![timers[s].arming] = "replaced", ![request[t].arming] = "armed"]
      BY <2>2 DEF StartRestarts
    <3>2. s \in Slots /\ timers[s] # Inactive
      BY <2>2, <3>1 DEF StartRestarts, SlotOf, Bookkeeping, ValidEntry
    <3> QED
      BY <2>1, <3>1, <3>2 DEF Accounting, TypeOK
  <2>3. CASE StartInserts(t) \/ StartBusy(t)
    BY <2>1, <2>3 DEF StartInserts, StartBusy, TypeOK
  <2> QED
    BY <1>2, <2>2, <2>3 DEF Request
<1>3. ASSUME NEW t \in Callers, NEW id \in TimerIds, Stop(t, id) PROVE fate'[a] = fate[a]
  <2>1. PICK s \in SlotOf(id) : fate' = [fate EXCEPT ![timers[s].arming] = "stopped"]
    BY <1>3 DEF Stop
  <2>2. s \in Slots /\ timers[s] # Inactive
    BY <2>1 DEF SlotOf
  <2> QED
    BY <2>1, <2>2 DEF Accounting, TypeOK
<1>4. CASE ScanCollects
  <2>1. \A s \in Expiring : s \in Slots /\ timers[s] # Inactive
    BY DEF Expiring, IsActive
  <2> QED
    BY <1>4, <2>1 DEF ScanCollects, Accounting
<1>5. ASSUME NEW b \in BOOLEAN, ScanPublishes(b) PROVE fate'[a] = fate[a]
  <2>1. fate[NextExpired.arming] = "expired"
    BY <1>5, NextExpiredValid DEF ScanPublishes, NextExpired, Accounting
  <2> QED
    BY <1>5, <2>1 DEF ScanPublishes, TypeOK
<1>6. CASE \/ UNCHANGED vars
           \/ Tick \/ InitThread \/ InitStarted \/ ScanSleeps \/ ScanReadsClock \/ ScanRoundEnds
  BY <1>6 DEF vars, Tick, InitThread, InitStarted, ScanSleeps, ScanReadsClock, ScanRoundEnds, history
<1> QED
  BY <1>1, <1>2, <1>3, <1>4, <1>5, <1>6 DEF Next, Call, Scan

\* A stop that returned EP_OK, and a restart, silence the old arming for good,
\* and an event published or dropped is not published again: whatever the
\* scanner had read before.
THEOREM Silenced == Spec => SilencedForGood
<1>1. Init => TypeOK /\ Bookkeeping /\ Accounting
  <2>1. Init => Accounting
    BY InactiveEntry DEF Init, Accounting
  <2> QED
    BY <2>1, InitType, InitBookkeeping
<1>2. TypeOK /\ Bookkeeping /\ Accounting /\ [Next]_vars => (TypeOK /\ Bookkeeping /\ Accounting)'
  BY NextType, NextBookkeeping, NextAccounting
<1>3. TypeOK /\ Bookkeeping /\ Accounting /\ [Next]_vars
        => [\A a \in Armings : fate[a] \in {"refused", "stopped", "replaced", "published", "dropped"}
              => fate'[a] = fate[a]]_vars
  BY NextSettled DEF Settled
<1> QED
  BY <1>1, <1>2, <1>3, PTL DEF Spec, SilencedForGood
=============================================================================
