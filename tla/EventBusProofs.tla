--------------------------- MODULE EventBusProofs ---------------------------
(***************************************************************************)
(* Proofs about EventBus, for any threads, events, table and queue sizes   *)
(* and any number of calls.                                                *)
(***************************************************************************)
EXTENDS EventBus, WellFoundedInduction, TLAPS

USE BusAssumption, MessageAssumption DEF Threads, Slots, Serials

-----------------------------------------------------------------------------
(* Types.                                                                  *)

CallRecords == [op : {"send", "recv"}, item : Messages \cup {NoMessage}, timed : BOOLEAN]
CallsOK == /\ qcall \in [Threads -> CallRecords]
           /\ \A t \in Threads : qcall[t].op = "send" => qcall[t].item \in Messages

\* The dispatcher has a message from the receive on to the last handler.
HasMessage == dpc \in {"lock", "snapshot", "calling", "handler"}
MessageOK == /\ msg # NoMessage <=> HasMessage
             /\ phase \in {"down", "created"} => dpc = "unborn"

Types == TypeOK /\ CallsOK /\ MessageOK

LEMMA InitTypes == Init => Types
<1> SUFFICES ASSUME Init PROVE Types
  OBVIOUS
<1>1. queue \in Seq(Messages) /\ Len(queue) <= QueueDepth
  BY DEF Init, Q!Init
<1>2. published \in Seq(Messages) /\ ran \in Seq(Serials \X Slots)
  BY DEF Init
<1>3. attempted \in 0..MaxPublish /\ subscribed \in 0..MaxSubscribe
  BY DEF Init
<1>4. [op |-> "recv", item |-> NoMessage, timed |-> FALSE] \in CallRecords
  BY DEF CallRecords
<1>5. qcall = [t \in Threads |-> [op |-> "recv", item |-> NoMessage, timed |-> FALSE]]
  BY DEF Init, Q!Init
<1>6. CallsOK
  BY <1>4, <1>5 DEF CallsOK
<1>7. TypeOK
  BY <1>1, <1>2, <1>3, Zenon DEF Init, Q!Init, TypeOK
<1>8. MessageOK
  BY DEF Init, MessageOK, HasMessage
<1> QED
  BY <1>6, <1>7, <1>8 DEF Types

\* A call that starts.
LEMMA StartTypes ==
  ASSUME TypeOK, CallsOK, NEW t \in Threads, Q!Start(t)
  PROVE  CallsOK' /\ qstatus' \in [Threads -> {"ok", "timeout", "busy", "waiting"}] /\ queue' = queue
<1>1. PICK c \in Q!Calls : qcall' = [qcall EXCEPT ![t] = c]
  BY DEF Q!Start
<1>2. c \in CallRecords /\ (c.op = "send" => c.item \in Messages)
  BY DEF Q!Calls, CallRecords
<1>3. CallsOK'
  BY <1>1, <1>2 DEF CallsOK
<1>4. qstatus' \in [Threads -> {"ok", "timeout", "busy", "waiting"}]
  BY DEF Q!Start, TypeOK
<1> QED
  BY <1>3, <1>4 DEF Q!Start

\* A call that waits or gives up.
LEMMA WaitTypes ==
  ASSUME TypeOK, NEW t \in Threads, Q!Wait(t) \/ Q!GiveUp(t)
  PROVE  /\ qstatus' \in [Threads -> {"ok", "timeout", "busy", "waiting"}]
         /\ UNCHANGED <<queue, qcall>>
  BY DEF Q!Wait, Q!GiveUp, TypeOK

LEMMA TakeTypes ==
  ASSUME TypeOK, CallsOK, NEW t \in Threads, Q!Take(t)
  PROVE  /\ CallsOK'
         /\ qstatus' \in [Threads -> {"ok", "timeout", "busy", "waiting"}]
         /\ queue' \in Seq(Messages) /\ Len(queue') = Len(queue) - 1
         /\ Head(queue) \in Messages
<1>1. queue \in Seq(Messages) /\ queue # <<>> /\ queue' = Tail(queue)
  BY DEF Q!Take, Q!Blocked, TypeOK
<1>2. queue' \in Seq(Messages) /\ Len(queue') = Len(queue) - 1 /\ Head(queue) \in Messages
  BY <1>1
<1>3. [qcall[t] EXCEPT !.item = Head(queue)] \in CallRecords
  BY <1>2 DEF CallsOK, CallRecords
<1>4. qcall' = [qcall EXCEPT ![t] = [qcall[t] EXCEPT !.item = Head(queue)]]
  BY DEF Q!Take
<1>5. [qcall[t] EXCEPT !.item = Head(queue)].op = "recv"
  BY DEF Q!Take, CallsOK, CallRecords
<1>6. CallsOK'
  BY <1>3, <1>4, <1>5 DEF CallsOK
<1>7. qstatus' \in [Threads -> {"ok", "timeout", "busy", "waiting"}]
  BY DEF Q!Take, TypeOK
<1> QED
  BY <1>2, <1>6, <1>7

\* The first slot of a set of slots is its least element.
LEMMA FirstOfIsLeast ==
  ASSUME NEW S \in SUBSET Slots, S # {}
  PROVE  FirstOf(S) \in S /\ \A r \in S : FirstOf(S) <= r
<1>1. S \in SUBSET Nat
  OBVIOUS
<1> DEFINE R == {p \in Nat \X Nat : p[1] < p[2]}
<1>2. IsWellFoundedOn(R, Nat)
  <2>1. OpToRel(<, Nat) = R
    BY Zenon DEF OpToRel
  <2> QED
    BY <2>1, NatLessThanWellFounded, Zenon
<1>3. PICK x \in S : \A y \in S : ~ (<<y, x>> \in R)
  <2> HIDE DEF R
  <2> QED
    BY <1>1, <1>2, WFMin
<1>4. ASSUME NEW r \in S PROVE x <= r
  <2>1. r \in Nat /\ x \in Nat
    BY <1>1
  <2>2. ~ (<<r, x>> \in R)
    BY <1>3
  <2> QED
    BY <2>1, <2>2
<1> QED
  BY <1>4 DEF FirstOf

-----------------------------------------------------------------------------
LEMMA NextTypes ==
  ASSUME Types, [Next]_vars
  PROVE  Types'
<1> USE DEF Types, TypeOK, MessageOK, HasMessage
<1>1. CASE UNCHANGED vars
  BY <1>1 DEF vars, bus, history, CallsOK
<1>2. CASE InitStep
  <2>1. CASE InitThread
    BY <1>2, <2>1 DEF InitThread, qvars, history, CallsOK
  <2>2. CASE InitResources \/ InitThreadFails \/ InitStarted
    BY <2>2 DEF InitResources, InitThreadFails, InitStarted, qvars, history, CallsOK
  <2> QED
    BY <1>2, <2>1, <2>2 DEF InitStep
<1>3. ASSUME NEW t \in Threads, NEW e \in Events, Subscribe(t, e)
      PROVE  Types'
  <2>1. subscribed' \in 0..MaxSubscribe
    BY <1>3 DEF Subscribe
  <2>2. cpc' \in [Threads -> {"idle", "lock", "register"}] /\ wanted' \in [Threads -> Events \cup {NoEntry}]
    BY <1>3 DEF Subscribe
  <2> QED
    BY <1>3, <2>1, <2>2 DEF Subscribe, qvars, CallsOK
<1>4. ASSUME NEW t \in Threads, SubscribeLock(t)
      PROVE  Types'
  BY <1>4 DEF SubscribeLock, qvars, history, CallsOK
<1>5. ASSUME NEW t \in Threads, SubscribeRegister(t)
      PROVE  Types'
  <2>1. subscriptions' \in [Slots -> Events \cup {NoEntry}]
    BY <1>5 DEF SubscribeRegister
  <2> QED
    BY <1>5, <2>1 DEF SubscribeRegister, qvars, history, CallsOK
<1>6. ASSUME NEW t \in Threads, NEW e \in Events, NEW timed \in BOOLEAN, Publish(t, e, timed)
      PROVE  Types'
  <2>1. attempted' \in 0..MaxPublish
    BY <1>6 DEF Publish
  <2>2. Q!Start(t)
    BY <1>6 DEF Publish
  <2> QED
    BY <1>6, <2>1, <2>2, StartTypes DEF Publish
<1>7. ASSUME NEW t \in Threads, PublishAccepted(t)
      PROVE  Types'
  <2> DEFINE m == qcall[t].item
  <2>1. m \in Messages
    BY <1>7 DEF PublishAccepted, Sending, CallsOK
  <2>2. queue' = Append(queue, m) /\ Len(queue) # QueueDepth /\ UNCHANGED qcall
    BY <1>7 DEF PublishAccepted, Q!Put, Q!Blocked
  <2>3. queue' \in Seq(Messages) /\ Len(queue') <= QueueDepth
    BY <2>1, <2>2
  <2>4. published' \in Seq(Messages)
    BY <1>7, <2>1 DEF PublishAccepted
  <2>5. m.serial \in Serials /\ SlotsFor(m.event) \subseteq Slots
    BY <2>1 DEF Messages, SlotsFor
  <2>6. audience' \in [Serials -> SUBSET Slots]
    BY <1>7, <2>5 DEF PublishAccepted
  <2>7. qstatus' \in [Threads -> {"ok", "timeout", "busy", "waiting"}]
    BY <1>7 DEF PublishAccepted, Q!Put
  <2> QED
    BY <1>7, <2>2, <2>3, <2>4, <2>6, <2>7 DEF PublishAccepted, CallsOK
<1>8. ASSUME NEW t \in Threads, PublishWaits(t) \/ PublishTimesOut(t)
      PROVE  Types'
  BY <1>8, WaitTypes DEF PublishWaits, PublishTimesOut, history, CallsOK
<1>9. CASE DispatchCallsRecv
  BY <1>9, StartTypes DEF DispatchCallsRecv, history
<1>10. CASE DispatchReceives
  <2>1. Len(queue) <= QueueDepth /\ Len(queue) \in Nat
    OBVIOUS
  <2>2. dpc = "receiving" /\ Q!Take(Dispatcher) /\ msg' = Head(queue) /\ dpc' = "lock"
        /\ UNCHANGED <<phase, subscriptions, lock, cpc, wanted, snapshot, published, attempted,
                       subscribed, audience, ran>>
    BY <1>10 DEF DispatchReceives, history
  <2>3. CallsOK' /\ qstatus' \in [Threads -> {"ok", "timeout", "busy", "waiting"}]
        /\ queue' \in Seq(Messages) /\ Len(queue') = Len(queue) - 1 /\ msg' \in Messages
    BY <2>2, TakeTypes
  <2>4. Len(queue') <= QueueDepth
    BY <2>1, <2>3
  <2>5. msg' # NoMessage
    BY <2>3
  <2> QED
    BY <2>2, <2>3, <2>4, <2>5
<1>11. CASE DispatchWaits \/ DispatchTimesOut
  BY <1>11, WaitTypes DEF DispatchWaits, DispatchTimesOut, history, CallsOK
<1>12. CASE DispatchLocks \/ DispatchSnapshots \/ HandlerReturns \/ DispatchNext
  BY <1>12 DEF DispatchLocks, DispatchSnapshots, HandlerReturns, DispatchNext, SlotsFor, qvars, history, CallsOK
<1>13. CASE DispatchCalls
  <2>1. FirstOf(snapshot) \in Slots
    BY <1>13, FirstOfIsLeast DEF DispatchCalls
  <2>2. msg \in Messages /\ msg.serial \in Serials
    BY <1>13 DEF DispatchCalls, Messages
  <2>3. ran' \in Seq(Serials \X Slots)
    BY <1>13, <2>1, <2>2 DEF DispatchCalls
  <2>4. snapshot' \subseteq Slots
    BY <1>13 DEF DispatchCalls
  <2> QED
    BY <1>13, <2>3, <2>4 DEF DispatchCalls, qvars, CallsOK
<1> QED
  BY <1>1, <1>2, <1>3, <1>4, <1>5, <1>6, <1>7, <1>8, <1>9, <1>10, <1>11, <1>12, <1>13
     DEF Next, Proceed, Dispatch

-----------------------------------------------------------------------------
(* The lock and the table it protects.                                     *)

\* The dispatcher subscribes from inside of a handler only.
CallsFromHandler == cpc[Dispatcher] # "idle" => dpc = "handler"

TableInv == LockDiscipline /\ CallsFromHandler /\ TableIsPrefix

LEMMA InitTable == Init => TableInv
  BY DEF Init, TableInv, LockDiscipline, CallsFromHandler, TableIsPrefix, InSection

\* What changes neither the lock nor who is in a section, nor the table.
LEMMA QuietTable ==
  ASSUME Types, TableInv, UNCHANGED <<lock, cpc, subscriptions>>,
         dpc = "snapshot" <=> dpc' = "snapshot", dpc = "handler" => CanCall(Dispatcher) \/ dpc' = "handler"
  PROVE  TableInv'
<1>1. LockDiscipline'
  BY DEF TableInv, LockDiscipline, InSection
<1>2. CallsFromHandler'
  BY DEF TableInv, CallsFromHandler, CanCall
<1>3. TableIsPrefix'
  BY DEF TableInv, TableIsPrefix
<1> QED
  BY <1>1, <1>2, <1>3 DEF TableInv

\* The first free slot comes after all used ones.
LEMMA RegisterTable ==
  ASSUME Types, TableInv, NEW t \in Threads, SubscribeRegister(t)
  PROVE  /\ TableInv'
         /\ \A s \in Slots : subscriptions[s] # NoEntry => subscriptions'[s] = subscriptions[s]
<1> USE DEF Types, TypeOK
<1>1. \A u \in Threads : InSection(u) <=> u = t
  BY DEF SubscribeRegister, InSection, TableInv, LockDiscipline
<1>2. dpc # "snapshot"
  BY <1>1 DEF SubscribeRegister, InSection, TableInv, CallsFromHandler
<1>3. \A u \in Threads : ~InSection(u)'
  BY <1>1, <1>2 DEF SubscribeRegister, InSection
<1>4. LockDiscipline' /\ CallsFromHandler'
  BY <1>3 DEF SubscribeRegister, LockDiscipline, TableInv, CallsFromHandler
<1>5. CASE FreeSlots = {}
  BY <1>4, <1>5 DEF SubscribeRegister, TableInv, TableIsPrefix
<1>6. CASE FreeSlots # {}
  <2> DEFINE f == FirstOf(FreeSlots)
  <2>1. f \in FreeSlots /\ \A r \in FreeSlots : f <= r
    BY <1>6, FirstOfIsLeast DEF FreeSlots
  <2>2. f \in Slots /\ subscriptions[f] = NoEntry
    BY <2>1 DEF FreeSlots
  <2>3. \A r \in Slots : r < f => subscriptions[r] # NoEntry
    BY <2>1, <2>2 DEF FreeSlots
  <2>4. subscriptions' = [subscriptions EXCEPT ![f] = wanted[t]]
    BY <1>6 DEF SubscribeRegister
  <2> HIDE DEF f
  <2>5. \A s \in Slots : s # f => subscriptions'[s] = subscriptions[s]
    BY <2>2, <2>4
  <2>6. \A s \in Slots : subscriptions[s] # NoEntry => subscriptions'[s] = subscriptions[s]
    BY <2>2, <2>5
  <2>7. TableIsPrefix'
    <3> SUFFICES ASSUME NEW r \in Slots, NEW s \in Slots, r < s, subscriptions'[s] # NoEntry
                 PROVE  subscriptions'[r] # NoEntry
      BY DEF TableIsPrefix
    <3>1. subscriptions[r] # NoEntry
      BY <2>3, <2>5 DEF TableInv, TableIsPrefix
    <3> QED
      BY <2>6, <3>1
  <2> QED
    BY <1>4, <2>6, <2>7 DEF TableInv
<1> QED
  BY <1>5, <1>6

LEMMA NextTable ==
  ASSUME Types, TableInv, [Next]_vars
  PROVE  /\ TableInv'
         /\ \A s \in Slots : subscriptions[s] # NoEntry => subscriptions'[s] = subscriptions[s]
<1> USE DEF Types, TypeOK
<1>1. CASE UNCHANGED vars
  BY <1>1, QuietTable DEF vars, bus
<1>2. CASE InitStep
  BY <1>2, QuietTable DEF InitStep, InitResources, InitThreadFails, InitThread, InitStarted, MessageOK
<1>3. ASSUME NEW t \in Threads, NEW e \in Events, Subscribe(t, e)
      PROVE  TableInv' /\ UNCHANGED subscriptions
  <2>1. cpc[t] = "idle" /\ cpc'[t] = "lock" /\ \A u \in Threads : u # t => cpc'[u] = cpc[u]
    BY <1>3 DEF Subscribe, CanCall
  <2>2. UNCHANGED <<lock, dpc, subscriptions>> /\ (t = Dispatcher => dpc = "handler")
    BY <1>3 DEF Subscribe, CanCall
  <2> QED
    BY <2>1, <2>2 DEF TableInv, LockDiscipline, InSection, CallsFromHandler, TableIsPrefix
<1>4. ASSUME NEW t \in Threads, SubscribeLock(t)
      PROVE  TableInv' /\ UNCHANGED subscriptions
  <2>1. cpc[t] = "lock" /\ cpc'[t] = "register" /\ \A u \in Threads : u # t => cpc'[u] = cpc[u]
    BY <1>4 DEF SubscribeLock
  <2>2. UNCHANGED <<dpc, subscriptions>> /\ lock = NoThread /\ lock' = t
    BY <1>4 DEF SubscribeLock
  <2>3. \A u \in Threads : ~InSection(u)
    BY <2>2 DEF TableInv, LockDiscipline
  <2> QED
    BY <2>1, <2>2, <2>3 DEF TableInv, LockDiscipline, InSection, CallsFromHandler, TableIsPrefix
<1>5. ASSUME NEW t \in Threads, SubscribeRegister(t)
      PROVE  TableInv' /\ \A s \in Slots : subscriptions[s] # NoEntry => subscriptions'[s] = subscriptions[s]
  BY <1>5, RegisterTable
<1>6. ASSUME NEW t \in Threads, NEW e \in Events, NEW timed \in BOOLEAN, Publish(t, e, timed)
      PROVE  TableInv' /\ UNCHANGED subscriptions
  BY <1>6, QuietTable DEF Publish
<1>7. ASSUME NEW t \in Threads, PublishAccepted(t) \/ PublishWaits(t) \/ PublishTimesOut(t)
      PROVE  TableInv' /\ UNCHANGED subscriptions
  BY <1>7, QuietTable DEF PublishAccepted, PublishWaits, PublishTimesOut
<1>8. CASE DispatchCallsRecv \/ DispatchReceives \/ DispatchWaits \/ DispatchTimesOut
  BY <1>8, QuietTable DEF DispatchCallsRecv, DispatchReceives, DispatchWaits, DispatchTimesOut
<1>9. CASE DispatchCalls \/ HandlerReturns \/ DispatchNext
  BY <1>9, QuietTable DEF DispatchCalls, HandlerReturns, DispatchNext
<1>10. CASE DispatchLocks
  <2>1. \A u \in Threads : ~InSection(u)
    BY <1>10 DEF DispatchLocks, TableInv, LockDiscipline
  <2> QED
    BY <1>10, <2>1 DEF DispatchLocks, TableInv, LockDiscipline, InSection, CallsFromHandler, TableIsPrefix
<1>11. CASE DispatchSnapshots
  <2>1. \A u \in Threads : InSection(u) <=> u = Dispatcher
    BY <1>11 DEF DispatchSnapshots, TableInv, LockDiscipline, InSection
  <2> QED
    BY <1>11, <2>1 DEF DispatchSnapshots, TableInv, LockDiscipline, InSection, CallsFromHandler, TableIsPrefix
<1> QED
  BY <1>1, <1>2, <1>3, <1>4, <1>5, <1>6, <1>7, <1>8, <1>9, <1>10, <1>11
     DEF Next, Proceed, Dispatch

-----------------------------------------------------------------------------
(* Each publish call has a serial number of its own.                       *)

SerialInv ==
    /\ \A i \in DOMAIN published : published[i].serial <= attempted
    /\ \A i, j \in DOMAIN published : published[i].serial = published[j].serial => i = j
    /\ \A t \in Threads : Sending(t) =>
          /\ qcall[t].item.serial <= attempted
          /\ \A i \in DOMAIN published : published[i].serial # qcall[t].item.serial
    /\ \A t, u \in Threads : Sending(t) /\ Sending(u) /\ t # u
                                => qcall[t].item.serial # qcall[u].item.serial

LEMMA InitSerial == Init => SerialInv
  BY DEF Init, Q!Init, SerialInv, Sending, Q!Active

\* No message is accepted and no publish call starts.
LEMMA QuietSerial ==
  ASSUME SerialInv, UNCHANGED <<published, attempted>>,
         \A t \in Threads : Sending(t)' => Sending(t) /\ qcall'[t] = qcall[t]
  PROVE  SerialInv'
  BY DEF SerialInv

LEMMA WaitSerial ==
  ASSUME Types, NEW t \in Threads, Q!Wait(t) \/ Q!GiveUp(t)
  PROVE  \A u \in Threads : Sending(u)' => Sending(u) /\ qcall'[u] = qcall[u]
  BY DEF Types, TypeOK, Q!Wait, Q!GiveUp, Sending, Q!Active

LEMMA PublishSerial ==
  ASSUME Types, SerialInv, NEW t \in Threads, NEW e \in Events, NEW timed \in BOOLEAN, Publish(t, e, timed)
  PROVE  SerialInv'
<1> USE DEF Types, TypeOK
<1>1. published' = published /\ attempted' = attempted + 1 /\ ~Sending(t)
  BY DEF Publish, CanCall, Sending
<1>2. qcall'[t].item.serial = attempted + 1
  BY DEF Publish
<1>3. \A u \in Threads : u # t => qcall'[u] = qcall[u] /\ qstatus'[u] = qstatus[u]
  BY DEF Publish, Q!Start, CallsOK
<1>4. \A u \in Threads : u # t => (Sending(u)' <=> Sending(u))
  BY <1>3 DEF Sending, Q!Active
<1>5. \A i \in DOMAIN published : published[i].serial \in Nat
  <2>1. \A i \in DOMAIN published : published[i] \in Messages
    OBVIOUS
  <2> QED
    BY <2>1 DEF Messages
<1>6. \A u \in Threads : Sending(u) => qcall[u].item.serial \in Nat
  BY DEF Sending, CallsOK, Messages
<1>7. attempted \in Nat
  OBVIOUS
<1>8. \A i \in DOMAIN published' : published'[i].serial <= attempted'
  BY <1>1, <1>5, <1>7 DEF SerialInv
<1>9. \A u \in Threads : Sending(u)' =>
          /\ qcall'[u].item.serial <= attempted'
          /\ \A i \in DOMAIN published' : published'[i].serial # qcall'[u].item.serial
  <2> SUFFICES ASSUME NEW u \in Threads, Sending(u)'
               PROVE  /\ qcall'[u].item.serial <= attempted'
                      /\ \A i \in DOMAIN published : published[i].serial # qcall'[u].item.serial
    BY <1>1
  <2>1. CASE u = t
    BY <1>1, <1>2, <1>5, <1>7, <2>1 DEF SerialInv
  <2>2. CASE u # t
    BY <1>1, <1>3, <1>4, <1>6, <1>7, <2>2 DEF SerialInv
  <2> QED
    BY <2>1, <2>2
<1>10. \A u, v \in Threads : Sending(u)' /\ Sending(v)' /\ u # v
                                => qcall'[u].item.serial # qcall'[v].item.serial
  <2>1. \A u \in Threads : u # t /\ Sending(u)' => qcall'[u].item.serial # qcall'[t].item.serial
    BY <1>2, <1>3, <1>4, <1>6, <1>7 DEF SerialInv
  <2>2. \A u, v \in Threads : u # t /\ v # t /\ Sending(u)' /\ Sending(v)' /\ u # v
                                => qcall'[u].item.serial # qcall'[v].item.serial
    BY <1>3, <1>4 DEF SerialInv
  <2> QED
    BY <2>1, <2>2
<1>11. \A i, j \in DOMAIN published' : published'[i].serial = published'[j].serial => i = j
  BY <1>1 DEF SerialInv
<1> QED
  BY <1>8, <1>9, <1>10, <1>11 DEF SerialInv

LEMMA AcceptSerial ==
  ASSUME Types, SerialInv, NEW t \in Threads, PublishAccepted(t)
  PROVE  SerialInv'
<1> USE DEF Types, TypeOK
<1> DEFINE m == qcall[t].item
<1>1. Sending(t) /\ m \in Messages /\ published' = Append(published, m) /\ UNCHANGED <<attempted, qcall>>
  BY DEF PublishAccepted, Sending, CallsOK, Q!Put
<1>2. /\ DOMAIN published' = DOMAIN published \cup {Len(published) + 1}
      /\ Len(published) + 1 \notin DOMAIN published
      /\ published'[Len(published) + 1] = m
      /\ \A i \in DOMAIN published : published'[i] = published[i]
  BY <1>1
<1>3. ~Sending(t)' /\ \A u \in Threads : Sending(u)' => Sending(u)
  BY DEF PublishAccepted, Sending, Q!Put, Q!Active
<1> HIDE DEF m, Types, TypeOK
<1>4. \A i \in DOMAIN published' : published'[i].serial <= attempted'
  BY <1>1, <1>2 DEF SerialInv, m
<1>5. \A i, j \in DOMAIN published' : published'[i].serial = published'[j].serial => i = j
  BY <1>1, <1>2 DEF SerialInv, m
<1>6. \A u \in Threads : Sending(u)' =>
          /\ qcall'[u].item.serial <= attempted'
          /\ \A i \in DOMAIN published' : published'[i].serial # qcall'[u].item.serial
  BY <1>1, <1>2, <1>3 DEF SerialInv, m
<1>7. \A u, v \in Threads : Sending(u)' /\ Sending(v)' /\ u # v
                                => qcall'[u].item.serial # qcall'[v].item.serial
  BY <1>1, <1>3 DEF SerialInv
<1> QED
  BY <1>4, <1>5, <1>6, <1>7 DEF SerialInv

LEMMA NextSerial ==
  ASSUME Types, SerialInv, [Next]_vars
  PROVE  SerialInv'
<1> USE DEF Types, TypeOK
<1> DEFINE Same == UNCHANGED <<published, attempted, qcall, qstatus>>
<1>1. Same => SerialInv'
  BY QuietSerial DEF Sending, Q!Active
<1>2. CASE UNCHANGED vars
  BY <1>1, <1>2 DEF vars, bus, history
<1>3. CASE InitStep
  BY <1>1, <1>3 DEF InitStep, InitResources, InitThreadFails, InitThread, InitStarted, qvars, history
<1>4. ASSUME NEW t \in Threads, NEW e \in Events, Subscribe(t, e)
      PROVE  SerialInv'
  BY <1>1, <1>4 DEF Subscribe, qvars
<1>5. ASSUME NEW t \in Threads, SubscribeLock(t) \/ SubscribeRegister(t)
      PROVE  SerialInv'
  BY <1>1, <1>5 DEF SubscribeLock, SubscribeRegister, qvars, history
<1>6. ASSUME NEW t \in Threads, PublishWaits(t) \/ PublishTimesOut(t)
      PROVE  SerialInv'
  BY <1>6, QuietSerial, WaitSerial DEF PublishWaits, PublishTimesOut, history
<1>7. CASE DispatchWaits \/ DispatchTimesOut
  BY <1>7, QuietSerial, WaitSerial DEF DispatchWaits, DispatchTimesOut, history
<1>8. CASE DispatchCallsRecv
  <2>1. \A u \in Threads : Sending(u)' => Sending(u) /\ qcall'[u] = qcall[u]
    BY <1>8 DEF DispatchCallsRecv, Q!Start, Q!Active, Sending, CallsOK
  <2> QED
    BY <1>8, <2>1, QuietSerial DEF DispatchCallsRecv, history
<1>9. CASE DispatchReceives
  <2>1. \A u \in Threads : Sending(u)' => Sending(u) /\ qcall'[u] = qcall[u]
    BY <1>9 DEF DispatchReceives, Q!Take, Q!Active, Sending, CallsOK
  <2> QED
    BY <1>9, <2>1, QuietSerial DEF DispatchReceives, history
<1>10. CASE DispatchLocks \/ DispatchSnapshots \/ DispatchCalls \/ HandlerReturns \/ DispatchNext
  BY <1>1, <1>10
     DEF DispatchLocks, DispatchSnapshots, DispatchCalls, HandlerReturns, DispatchNext, qvars, history
<1> QED
  BY <1>2, <1>3, <1>4, <1>5, <1>6, <1>7, <1>8, <1>9, <1>10, PublishSerial, AcceptSerial
     DEF Next, Proceed, Dispatch

-----------------------------------------------------------------------------
(* The queue holds the last of the accepted messages, in their order, and  *)
(* the dispatcher the one before them.                                     *)

Taken == Len(published) - Len(queue)

QueueInv == /\ Taken >= 0
            /\ \A i \in 1..Len(queue) : queue[i] = published[Taken + i]
            /\ HasMessage => Taken >= 1 /\ msg = published[Taken]

LEMMA InitQueue == Init => QueueInv
  BY DEF Init, Q!Init, QueueInv, Taken, HasMessage

LEMMA AcceptQueue ==
  ASSUME Types, QueueInv, NEW t \in Threads, PublishAccepted(t)
  PROVE  QueueInv' /\ Taken' = Taken
<1> USE DEF Types, TypeOK
<1> DEFINE m == qcall[t].item
<1>1. m \in Messages /\ published' = Append(published, m) /\ queue' = Append(queue, m)
      /\ UNCHANGED <<msg, dpc>>
  BY DEF PublishAccepted, Sending, CallsOK, Q!Put
<1> HIDE DEF m
<1>2. /\ Len(published') = Len(published) + 1
      /\ published'[Len(published) + 1] = m
      /\ \A i \in 1..Len(published) : published'[i] = published[i]
  BY <1>1
<1>3. /\ Len(queue') = Len(queue) + 1
      /\ queue'[Len(queue) + 1] = m
      /\ \A i \in 1..Len(queue) : queue'[i] = queue[i]
  BY <1>1
<1>4. Len(published) \in Nat /\ Len(queue) \in Nat
  OBVIOUS
<1>5. Taken' = Taken /\ Taken \in Nat
  BY <1>2, <1>3, <1>4 DEF Taken, QueueInv
<1>6. ASSUME NEW i \in 1..Len(queue') PROVE queue'[i] = published'[Taken' + i]
  <2>1. CASE i = Len(queue) + 1
    BY <1>2, <1>3, <1>4, <1>5, <2>1 DEF Taken
  <2>2. CASE i \in 1..Len(queue)
    <3>1. Taken + i \in 1..Len(published)
      BY <1>4, <1>5, <2>2 DEF Taken
    <3> QED
      BY <1>2, <1>3, <1>5, <2>2, <3>1 DEF QueueInv
  <2> QED
    BY <1>3, <1>4, <2>1, <2>2
<1>7. HasMessage' => Taken' >= 1 /\ msg' = published'[Taken']
  <2> SUFFICES ASSUME HasMessage PROVE Taken >= 1 /\ msg = published'[Taken]
    BY <1>1, <1>5 DEF HasMessage
  <2>1. Taken >= 1 /\ msg = published[Taken]
    BY DEF QueueInv
  <2>2. Taken \in 1..Len(published)
    BY <1>4, <1>5, <2>1 DEF Taken
  <2> QED
    BY <1>2, <2>1, <2>2
<1> QED
  BY <1>5, <1>6, <1>7 DEF QueueInv

LEMMA ReceiveQueue ==
  ASSUME Types, QueueInv, DispatchReceives
  PROVE  QueueInv' /\ Taken' = Taken + 1
<1> USE DEF Types, TypeOK
<1>1. queue # <<>> /\ queue' = Tail(queue) /\ msg' = Head(queue) /\ UNCHANGED published
  BY DEF DispatchReceives, Q!Take, Q!Blocked, CallsOK, history
<1>2. /\ Len(queue) \in Nat \ {0} /\ Len(published) \in Nat
      /\ Len(queue') = Len(queue) - 1
      /\ \A i \in 1..Len(queue') : queue'[i] = queue[i + 1]
      /\ msg' = queue[1]
  BY <1>1
<1>3. Taken \in Nat /\ Taken' = Taken + 1
  BY <1>1, <1>2 DEF Taken, QueueInv
<1>4. \A i \in 1..Len(queue) : queue[i] = published[Taken + i]
  BY DEF QueueInv
<1> HIDE DEF Types, TypeOK
<1>5. ASSUME NEW i \in 1..Len(queue') PROVE queue'[i] = published'[Taken' + i]
  <2>1. i + 1 \in 1..Len(queue) /\ Taken + (i + 1) = Taken' + i
    BY <1>2, <1>3
  <2>2. queue[i + 1] = published[Taken + (i + 1)]
    BY <1>4, <2>1
  <2> QED
    BY <1>1, <1>2, <2>1, <2>2
<1>6. msg' = published'[Taken']
  <2>1. 1 \in 1..Len(queue)
    BY <1>2
  <2> QED
    BY <1>1, <1>2, <1>3, <1>4, <2>1
<1> QED
  BY <1>3, <1>5, <1>6 DEF QueueInv

\* No message is accepted or taken.
LEMMA QuietQueue ==
  ASSUME QueueInv, UNCHANGED <<published, queue>>, HasMessage' => HasMessage /\ msg' = msg
  PROVE  QueueInv' /\ Taken' = Taken
  BY DEF QueueInv, Taken

-----------------------------------------------------------------------------
(* The handlers that have run.                                             *)

\* The handlers ran in the order of the messages, for one message in the order
\* of their slots, and those still to be called come after them.
OrderInv ==
    /\ \A k, l \in DOMAIN ran : k < l =>
          \E i, j \in 1..Taken : /\ published[i].serial = ran[k][1]
                                 /\ published[j].serial = ran[l][1]
                                 /\ i < j \/ (i = j /\ ran[k][2] < ran[l][2])
    /\ \A k \in DOMAIN ran :
          \E i \in 1..Taken : /\ published[i].serial = ran[k][1]
                              /\ subscriptions[ran[k][2]] = published[i].event
    /\ dpc \in {"lock", "snapshot"} => \A k \in DOMAIN ran : ran[k][1] # msg.serial
    /\ dpc \in {"calling", "handler"} =>
          /\ snapshot \subseteq SlotsFor(msg.event)
          /\ \A k \in DOMAIN ran, s \in snapshot : ran[k][1] = msg.serial => ran[k][2] < s

\* Who was subscribed to a message when it was accepted still is while the
\* message is in the queue; when the handlers are called it has run or is to be
\* called, and after that it has run.
CalledInv ==
    /\ \A i \in DOMAIN published :
          i > Taken => audience[published[i].serial] \subseteq SlotsFor(published[i].event)
    /\ \A i \in DOMAIN published : i <= Taken /\ ~(HasMessage /\ i = Taken) =>
          audience[published[i].serial] \subseteq RanFor(published[i].serial)
    /\ dpc \in {"lock", "snapshot"} => audience[msg.serial] \subseteq SlotsFor(msg.event)
    /\ dpc \in {"calling", "handler"} =>
          audience[msg.serial] \subseteq RanFor(msg.serial) \cup snapshot

LEMMA InitRan == Init => OrderInv /\ CalledInv
  BY DEF Init, Q!Init, OrderInv, CalledInv, Taken, RanFor, HasMessage

\* Steps of others: the table only grows.
LEMMA GrowRan ==
  ASSUME Types, OrderInv, CalledInv, Taken \in Nat, Taken <= Len(published),
         UNCHANGED <<published, queue, msg, snapshot, ran, audience>>,
         dpc' = dpc \/ (dpc \in {"lock", "snapshot"} /\ dpc' \in {"lock", "snapshot"})
           \/ (dpc \in {"calling", "handler"} /\ dpc' \in {"calling", "handler"})
           \/ (~HasMessage /\ ~HasMessage'),
         \A s \in Slots : subscriptions[s] # NoEntry => subscriptions'[s] = subscriptions[s]
  PROVE  OrderInv' /\ CalledInv'
<1> USE DEF Types, TypeOK
<1>1. \A i \in DOMAIN published : published[i].event \in Events
  <2>1. \A i \in DOMAIN published : published[i] \in Messages
    OBVIOUS
  <2> QED
    BY <2>1 DEF Messages
<1>2. HasMessage => msg.event \in Events
  BY DEF MessageOK, Messages
<1>3. \A e \in Events : SlotsFor(e) \subseteq SlotsFor(e)'
  BY DEF SlotsFor
<1>4. Taken' = Taken /\ \A n : RanFor(n)' = RanFor(n)
  BY DEF Taken, RanFor
<1>5. \A k \in DOMAIN ran : ran[k][2] \in Slots
  <2>1. \A k \in DOMAIN ran : ran[k] \in Serials \X Slots
    OBVIOUS
  <2> QED
    BY <2>1
<1>6. HasMessage' = HasMessage
  BY DEF HasMessage
<1>7. 1..Taken \subseteq DOMAIN published
  OBVIOUS
<1> HIDE DEF Types, TypeOK
<1>8. \A k \in DOMAIN ran : \E i \in 1..Taken : /\ published[i].serial = ran[k][1]
                                                 /\ subscriptions'[ran[k][2]] = published[i].event
  <2> SUFFICES ASSUME NEW k \in DOMAIN ran
               PROVE  \E i \in 1..Taken : /\ published[i].serial = ran[k][1]
                                          /\ subscriptions'[ran[k][2]] = published[i].event
    OBVIOUS
  <2>1. PICK i \in 1..Taken : published[i].serial = ran[k][1] /\ subscriptions[ran[k][2]] = published[i].event
    BY DEF OrderInv
  <2>2. subscriptions[ran[k][2]] # NoEntry
    BY <1>1, <1>7, <2>1
  <2> QED
    BY <1>5, <2>1, <2>2
<1>9. OrderInv'
  BY <1>2, <1>3, <1>4, <1>8 DEF OrderInv, HasMessage
<1>10. CalledInv'
  BY <1>1, <1>2, <1>3, <1>4, <1>6 DEF CalledInv, HasMessage
<1> QED
  BY <1>9, <1>10

LEMMA AcceptRan ==
  ASSUME Types, SerialInv, QueueInv, OrderInv, CalledInv, NEW t \in Threads, PublishAccepted(t)
  PROVE  OrderInv' /\ CalledInv'
<1> USE DEF Types, TypeOK
<1> DEFINE m == qcall[t].item
<1>1. /\ Sending(t) /\ m \in Messages
      /\ published' = Append(published, m)
      /\ audience' = [audience EXCEPT ![m.serial] = SlotsFor(m.event)]
      /\ UNCHANGED <<subscriptions, dpc, msg, snapshot, ran>>
  BY DEF PublishAccepted, Sending, CallsOK, Q!Put
<1>2. m.serial \in Serials /\ \A i \in DOMAIN published : published[i].serial # m.serial
  BY <1>1 DEF SerialInv, Messages
<1> HIDE DEF m
<1>3. /\ DOMAIN published' = 1..(Len(published) + 1)
      /\ published'[Len(published) + 1] = m
      /\ \A i \in 1..Len(published) : published'[i] = published[i]
      /\ DOMAIN published = 1..Len(published)
      /\ Len(published) \in Nat
  BY <1>1
<1>4. Taken' = Taken /\ Taken \in 0..Len(published)
  BY AcceptQueue DEF QueueInv, Taken
<1>5. audience'[m.serial] = SlotsFor(m.event)
  BY <1>1, <1>2
<1>6. \A i \in 1..Len(published) : /\ published'[i].serial = published[i].serial
                                   /\ published'[i].event = published[i].event
                                   /\ audience'[published[i].serial] = audience[published[i].serial]
  <2>1. \A i \in 1..Len(published) : published[i].serial \in Serials
    <3>1. \A i \in 1..Len(published) : published[i] \in Messages
      OBVIOUS
    <3> QED
      BY <3>1 DEF Messages
  <2> QED
    BY <1>1, <1>2, <1>3, <2>1
<1>7. HasMessage => Taken >= 1 /\ msg = published[Taken]
  BY DEF QueueInv
<1>8. HasMessage => audience'[msg.serial] = audience[msg.serial]
  BY <1>4, <1>6, <1>7
<1>9. HasMessage' = HasMessage /\ (\A n : RanFor(n)' = RanFor(n)) /\ (\A e : SlotsFor(e)' = SlotsFor(e))
  BY <1>1 DEF HasMessage, RanFor, SlotsFor
<1> HIDE DEF Types, TypeOK
<1>10. OrderInv'
  <2>1. \A i \in 1..Taken : published'[i] = published[i]
    BY <1>3, <1>4
  <2>2. \A k, l \in DOMAIN ran : k < l =>
          \E i, j \in 1..Taken : /\ published'[i].serial = ran[k][1]
                                 /\ published'[j].serial = ran[l][1]
                                 /\ i < j \/ (i = j /\ ran[k][2] < ran[l][2])
    BY <2>1 DEF OrderInv
  <2>3. \A k \in DOMAIN ran : \E i \in 1..Taken : /\ published'[i].serial = ran[k][1]
                                                  /\ subscriptions[ran[k][2]] = published'[i].event
    BY <2>1 DEF OrderInv
  <2> QED
    BY <1>1, <1>4, <1>9, <2>2, <2>3 DEF OrderInv
<1>11. \A i \in DOMAIN published' :
          i > Taken => audience'[published'[i].serial] \subseteq SlotsFor(published'[i].event)
  <2> SUFFICES ASSUME NEW i \in 1..(Len(published) + 1), i > Taken
               PROVE  audience'[published'[i].serial] \subseteq SlotsFor(published'[i].event)
    BY <1>3
  <2>1. CASE i = Len(published) + 1
    BY <1>3, <1>5, <2>1
  <2>2. CASE i \in 1..Len(published)
    BY <1>3, <1>6, <2>2 DEF CalledInv
  <2> QED
    BY <1>3, <2>1, <2>2
<1>12. \A i \in DOMAIN published' : i <= Taken /\ ~(HasMessage /\ i = Taken) =>
          audience'[published'[i].serial] \subseteq RanFor(published'[i].serial)
  BY <1>3, <1>4, <1>6 DEF CalledInv
<1>13. CalledInv'
  BY <1>1, <1>4, <1>8, <1>9, <1>11, <1>12 DEF CalledInv, HasMessage
<1> QED
  BY <1>10, <1>13

LEMMA ReceiveRan ==
  ASSUME Types, SerialInv, QueueInv, OrderInv, CalledInv, DispatchReceives
  PROVE  OrderInv' /\ CalledInv'
<1>1. /\ UNCHANGED <<published, ran, audience, subscriptions>>
      /\ ~HasMessage /\ dpc' = "lock"
  BY DEF DispatchReceives, history, HasMessage
<1>2. Taken' = Taken + 1 /\ QueueInv'
  BY ReceiveQueue
<1>3. Taken \in Nat /\ Len(published) \in Nat /\ Len(queue) \in Nat /\ Len(queue) >= 1
  BY DEF Types, TypeOK, QueueInv, Taken, DispatchReceives, Q!Take, Q!Blocked, CallsOK
<1>4. Taken + 1 \in 1..Len(published) /\ DOMAIN published = 1..Len(published)
  BY <1>3 DEF Taken, Types, TypeOK
<1>5. msg' = published[Taken + 1]
  BY <1>1, <1>2 DEF QueueInv, HasMessage
<1>6. (\A n : RanFor(n)' = RanFor(n)) /\ (\A e : SlotsFor(e)' = SlotsFor(e))
  BY <1>1 DEF RanFor, SlotsFor
<1>7. 1..Taken \subseteq 1..Taken' /\ 1..Taken \subseteq 1..Len(published)
  BY <1>2, <1>3, <1>4
<1>8. \A k \in DOMAIN ran' : ran'[k][1] # msg'.serial
  <2> SUFFICES ASSUME NEW k \in DOMAIN ran, ran[k][1] = published[Taken + 1].serial PROVE FALSE
    BY <1>1, <1>5
  <2>1. PICK i \in 1..Taken : published[i].serial = ran[k][1]
    BY DEF OrderInv
  <2>2. i = Taken + 1
    BY <1>4, <1>7, <2>1 DEF SerialInv
  <2> QED
    BY <1>3, <2>2
<1>9. \A k, l \in DOMAIN ran' : k < l =>
          \E i, j \in 1..Taken' : /\ published'[i].serial = ran'[k][1]
                                  /\ published'[j].serial = ran'[l][1]
                                  /\ i < j \/ (i = j /\ ran'[k][2] < ran'[l][2])
  BY <1>1, <1>7 DEF OrderInv
<1>10. \A k \in DOMAIN ran' : \E i \in 1..Taken' : /\ published'[i].serial = ran'[k][1]
                                                   /\ subscriptions'[ran'[k][2]] = published'[i].event
  BY <1>1, <1>7 DEF OrderInv
<1>11. OrderInv'
  BY <1>1, <1>8, <1>9, <1>10 DEF OrderInv
<1>12. \A i \in 1..Len(published) :
          i > Taken + 1 => audience[published[i].serial] \subseteq SlotsFor(published[i].event)
  BY <1>3, <1>4 DEF CalledInv
<1>13. \A i \in 1..Len(published) : i <= Taken + 1 /\ i # Taken + 1 =>
          audience[published[i].serial] \subseteq RanFor(published[i].serial)
  BY <1>1, <1>3, <1>4 DEF CalledInv
<1>14. audience'[msg'.serial] \subseteq SlotsFor(msg'.event)
  BY <1>1, <1>3, <1>4, <1>5 DEF CalledInv
<1>15. CalledInv'
  BY <1>1, <1>2, <1>4, <1>6, <1>12, <1>13, <1>14 DEF CalledInv, HasMessage
<1> QED
  BY <1>11, <1>15

LEMMA SnapshotRan ==
  ASSUME Types, OrderInv, CalledInv, DispatchSnapshots
  PROVE  OrderInv' /\ CalledInv'
<1>1. /\ UNCHANGED <<published, queue, ran, audience, subscriptions, msg>>
      /\ dpc = "snapshot" /\ dpc' = "calling" /\ snapshot' = SlotsFor(msg.event)
  BY DEF DispatchSnapshots, history, qvars
<1>2. Taken' = Taken /\ (\A n : RanFor(n)' = RanFor(n)) /\ (\A e : SlotsFor(e)' = SlotsFor(e))
  BY <1>1 DEF RanFor, SlotsFor, Taken
<1>3. OrderInv'
  BY <1>1, <1>2 DEF OrderInv
<1>4. CalledInv'
  BY <1>1, <1>2 DEF CalledInv, HasMessage
<1> QED
  BY <1>3, <1>4

LEMMA CallRan ==
  ASSUME Types, QueueInv, OrderInv, CalledInv, DispatchCalls
  PROVE  OrderInv' /\ CalledInv'
<1> DEFINE f == FirstOf(snapshot)
<1>1. /\ UNCHANGED <<published, queue, audience, subscriptions, msg>>
      /\ dpc = "calling" /\ dpc' = "handler" /\ snapshot' = snapshot \ {f}
      /\ ran' = Append(ran, <<msg.serial, f>>)
      /\ snapshot # {}
  BY DEF DispatchCalls, qvars
<1>2. f \in snapshot /\ (\A r \in snapshot : f <= r) /\ snapshot \subseteq Slots
  BY <1>1, FirstOfIsLeast DEF Types, TypeOK
<1>3. f \in SlotsFor(msg.event) /\ f \in Slots /\ subscriptions[f] = msg.event
  BY <1>1, <1>2 DEF OrderInv, SlotsFor
<1> HIDE DEF f
<1>4. /\ DOMAIN ran = 1..Len(ran) /\ Len(ran) \in Nat
      /\ DOMAIN ran' = 1..(Len(ran) + 1)
      /\ \A k \in 1..Len(ran) : ran'[k] = ran[k]
      /\ ran'[Len(ran) + 1] = <<msg.serial, f>>
  <2>1. ran \in Seq(Serials \X Slots)
    BY DEF Types, TypeOK
  <2>2. msg \in Messages /\ msg.serial \in Serials
    BY <1>1 DEF Types, TypeOK, MessageOK, HasMessage, Messages
  <2>3. <<msg.serial, f>> \in Serials \X Slots
    BY <1>3, <2>2
  <2> QED
    BY <1>1, <2>1, <2>3
<1>5. Taken' = Taken /\ \A e : SlotsFor(e)' = SlotsFor(e)
  BY <1>1 DEF SlotsFor, Taken
<1>6. Taken \in Nat /\ Taken >= 1 /\ msg = published[Taken]
  BY <1>1 DEF QueueInv, HasMessage, Taken, Types, TypeOK
<1>7. Taken \in 1..Taken
  BY <1>6
<1>8. \A n : n = msg.serial => RanFor(n)' = RanFor(n) \cup {f}
  BY <1>1, <1>4 DEF RanFor
<1>9. \A n : n # msg.serial => RanFor(n)' = RanFor(n)
  BY <1>1, <1>4 DEF RanFor
<1>10. \A k, l \in DOMAIN ran' : k < l =>
          \E i, j \in 1..Taken : /\ published[i].serial = ran'[k][1]
                                 /\ published[j].serial = ran'[l][1]
                                 /\ i < j \/ (i = j /\ ran'[k][2] < ran'[l][2])
  <2> SUFFICES ASSUME NEW k \in 1..(Len(ran) + 1), NEW l \in 1..(Len(ran) + 1), k < l
               PROVE  \E i, j \in 1..Taken : /\ published[i].serial = ran'[k][1]
                                             /\ published[j].serial = ran'[l][1]
                                             /\ i < j \/ (i = j /\ ran'[k][2] < ran'[l][2])
    BY <1>4
  <2>1. CASE l \in 1..Len(ran)
    <3>1. k \in 1..Len(ran)
      BY <1>4, <2>1
    <3>2. ran'[k] = ran[k] /\ ran'[l] = ran[l] /\ k \in DOMAIN ran /\ l \in DOMAIN ran
      BY <1>4, <2>1, <3>1
    <3>3. \E i, j \in 1..Taken : /\ published[i].serial = ran[k][1]
                                 /\ published[j].serial = ran[l][1]
                                 /\ i < j \/ (i = j /\ ran[k][2] < ran[l][2])
      BY <3>2 DEF OrderInv
    <3> QED
      BY <3>2, <3>3, Zenon
  <2>2. CASE l = Len(ran) + 1
    <3>1. k \in 1..Len(ran) /\ ran'[k] = ran[k] /\ ran'[l][1] = msg.serial /\ ran'[l][2] = f
      BY <1>4, <2>2
    <3>2. PICK i \in 1..Taken : published[i].serial = ran[k][1]
      BY <1>4, <3>1 DEF OrderInv
    <3>3. CASE i = Taken
      <4>1. ran[k][2] < f
        BY <1>1, <1>2, <1>4, <1>6, <3>1, <3>2, <3>3 DEF OrderInv
      <4> QED
        BY <1>6, <1>7, <3>1, <3>2, <3>3, <4>1
    <3>4. CASE i < Taken
      <4>1. published[i].serial = ran'[k][1] /\ published[Taken].serial = ran'[l][1]
        BY <1>6, <3>1, <3>2
      <4> QED
        BY <1>7, <3>2, <3>4, <4>1, Zenon
    <3> QED
      BY <1>6, <3>3, <3>4
  <2> QED
    BY <1>4, <2>1, <2>2
<1>11. \A k \in DOMAIN ran' : \E i \in 1..Taken : /\ published[i].serial = ran'[k][1]
                                                  /\ subscriptions[ran'[k][2]] = published[i].event
  <2> SUFFICES ASSUME NEW k \in 1..(Len(ran) + 1)
               PROVE  \E i \in 1..Taken : /\ published[i].serial = ran'[k][1]
                                          /\ subscriptions[ran'[k][2]] = published[i].event
    BY <1>4
  <2>1. CASE k = Len(ran) + 1
    BY <1>3, <1>4, <1>6, <1>7, <2>1
  <2>2. CASE k \in 1..Len(ran)
    BY <1>4, <2>2 DEF OrderInv
  <2> QED
    BY <1>4, <2>1, <2>2
<1>12. \A k \in DOMAIN ran', s \in snapshot' : ran'[k][1] = msg.serial => ran'[k][2] < s
  <2> SUFFICES ASSUME NEW k \in 1..(Len(ran) + 1), NEW s \in snapshot, s # f, ran'[k][1] = msg.serial
               PROVE  ran'[k][2] < s
    BY <1>1, <1>4
  <2>1. CASE k = Len(ran) + 1
    <3>1. f \in Nat /\ s \in Nat /\ f <= s
      BY <1>2, <1>3
    <3> QED
      BY <1>4, <2>1, <3>1
  <2>2. CASE k \in 1..Len(ran)
    BY <1>1, <1>4, <2>2 DEF OrderInv
  <2> QED
    BY <1>4, <2>1, <2>2
<1>13. OrderInv'
  <2>1. \A e : e = msg.event => snapshot' \subseteq SlotsFor(e)'
    BY <1>1, <1>5 DEF OrderInv
  <2> QED
    BY <1>1, <1>5, <1>10, <1>11, <1>12, <2>1 DEF OrderInv
<1>14. \A n : n = msg.serial => audience[n] \subseteq RanFor(n)' \cup snapshot'
  BY <1>1, <1>8 DEF CalledInv
<1>15. ASSUME NEW n PROVE RanFor(n) \subseteq RanFor(n)'
  <2>1. CASE n = msg.serial
    BY <1>8, <2>1
  <2>2. CASE n # msg.serial
    BY <1>9, <2>2
  <2> QED
    BY <2>1, <2>2
<1>16. CalledInv'
  BY <1>1, <1>5, <1>14, <1>15 DEF CalledInv, HasMessage
<1> QED
  BY <1>13, <1>16

LEMMA NextMessageRan ==
  ASSUME Types, QueueInv, OrderInv, CalledInv, DispatchNext
  PROVE  OrderInv' /\ CalledInv'
<1>1. /\ UNCHANGED <<published, queue, ran, audience, subscriptions, snapshot>>
      /\ dpc = "calling" /\ dpc' = "recv" /\ snapshot = {}
  BY DEF DispatchNext, history, qvars
<1>2. Taken' = Taken /\ (\A n : RanFor(n)' = RanFor(n)) /\ (\A e : SlotsFor(e)' = SlotsFor(e))
  BY <1>1 DEF RanFor, SlotsFor, Taken
<1>3. msg = published[Taken] /\ HasMessage
  BY <1>1 DEF QueueInv, HasMessage
<1>4. OrderInv'
  BY <1>1, <1>2 DEF OrderInv
<1>5. \A i \in DOMAIN published : i <= Taken => audience[published[i].serial] \subseteq RanFor(published[i].serial)
  BY <1>1, <1>3 DEF CalledInv
<1>6. CalledInv'
  BY <1>1, <1>2, <1>5 DEF CalledInv, HasMessage
<1> QED
  BY <1>4, <1>6

-----------------------------------------------------------------------------
Inv == Types /\ TableInv /\ SerialInv /\ QueueInv /\ OrderInv /\ CalledInv

LEMMA InitInv == Init => Inv
  BY InitTypes, InitTable, InitSerial, InitQueue, InitRan DEF Inv

LEMMA NextInv == Inv /\ [Next]_vars => Inv'
<1> SUFFICES ASSUME Inv, [Next]_vars PROVE Inv'
  OBVIOUS
<1>1. Types /\ TableInv /\ SerialInv /\ QueueInv /\ OrderInv /\ CalledInv
  BY DEF Inv
<1>2. Types' /\ TableInv' /\ SerialInv'
  BY <1>1, NextTypes, NextTable, NextSerial
<1>3. \A s \in Slots : subscriptions[s] # NoEntry => subscriptions'[s] = subscriptions[s]
  BY <1>1, NextTable
<1>4. Taken \in Nat /\ Taken <= Len(published)
  BY <1>1 DEF Types, TypeOK, QueueInv, Taken
<1> DEFINE Same == UNCHANGED <<published, queue, msg, snapshot, ran, audience>>
           Rest == QueueInv' /\ OrderInv' /\ CalledInv'
<1> SUFFICES Rest
  BY <1>2 DEF Inv
<1>5. Same /\ dpc' = dpc => Rest
  BY <1>1, <1>3, <1>4, QuietQueue, GrowRan DEF HasMessage
<1>6. CASE UNCHANGED vars
  BY <1>5, <1>6 DEF vars, bus, history
<1>7. CASE InitStep
  <2>1. CASE InitThread
    <3>1. ~HasMessage /\ ~HasMessage' /\ Same
      BY <1>1, <2>1 DEF InitThread, Types, MessageOK, HasMessage, qvars, history
    <3> QED
      BY <1>1, <1>3, <1>4, <3>1, QuietQueue, GrowRan
  <2>2. CASE InitResources \/ InitThreadFails \/ InitStarted
    BY <1>5, <2>2 DEF InitResources, InitThreadFails, InitStarted, qvars, history
  <2> QED
    BY <1>7, <2>1, <2>2 DEF InitStep
<1>8. ASSUME NEW t \in Threads, NEW e \in Events, NEW timed \in BOOLEAN,
             Subscribe(t, e) \/ Publish(t, e, timed)
      PROVE  Rest
  BY <1>5, <1>8 DEF Subscribe, Publish, qvars, Q!Start
<1>9. ASSUME NEW t \in Threads, SubscribeLock(t) \/ SubscribeRegister(t) \/ PublishWaits(t) \/ PublishTimesOut(t)
      PROVE  Rest
  BY <1>5, <1>9
     DEF SubscribeLock, SubscribeRegister, PublishWaits, PublishTimesOut, qvars, history, Q!Wait, Q!GiveUp
<1>10. ASSUME NEW t \in Threads, PublishAccepted(t)
       PROVE  Rest
  BY <1>1, <1>10, AcceptQueue, AcceptRan
<1>11. CASE DispatchCallsRecv \/ DispatchWaits \/ DispatchTimesOut
  <2>1. ~HasMessage /\ ~HasMessage' /\ Same
    BY <1>11 DEF DispatchCallsRecv, DispatchWaits, DispatchTimesOut, HasMessage, history,
                 Q!Start, Q!Wait, Q!GiveUp
  <2> QED
    BY <1>1, <1>3, <1>4, <2>1, QuietQueue, GrowRan
<1>12. CASE DispatchReceives
  BY <1>1, <1>12, ReceiveQueue, ReceiveRan
<1>13. CASE DispatchLocks
  <2>1. dpc = "lock" /\ dpc' = "snapshot" /\ Same
    BY <1>13 DEF DispatchLocks, qvars, history
  <2> QED
    BY <1>1, <1>3, <1>4, <2>1, QuietQueue, GrowRan DEF HasMessage
<1>14. CASE DispatchSnapshots
  BY <1>1, <1>14, SnapshotRan, QuietQueue DEF DispatchSnapshots, HasMessage, qvars, history
<1>15. CASE DispatchCalls
  BY <1>1, <1>15, CallRan, QuietQueue DEF DispatchCalls, HasMessage, qvars
<1>16. CASE HandlerReturns
  <2>1. dpc = "handler" /\ dpc' = "calling" /\ Same
    BY <1>16 DEF HandlerReturns, qvars, history
  <2> QED
    BY <1>1, <1>3, <1>4, <2>1, QuietQueue, GrowRan DEF HasMessage
<1>17. CASE DispatchNext
  BY <1>1, <1>17, NextMessageRan, QuietQueue DEF DispatchNext, HasMessage, qvars, history
<1> QED
  BY <1>6, <1>7, <1>8, <1>9, <1>10, <1>11, <1>12, <1>13, <1>14, <1>15, <1>16, <1>17
     DEF Next, Proceed, Dispatch

LEMMA InvAlways == Spec => []Inv
  BY InitInv, NextInv, PTL DEF Spec

-----------------------------------------------------------------------------
\* Every variable of the bus keeps its type; the queue never holds more than
\* EP_EVENT_QUEUE_DEPTH messages.
THEOREM TypeCorrect == Spec => []TypeOK
<1>1. Inv => TypeOK
  BY DEF Inv, Types
<1> QED
  BY <1>1, InvAlways, PTL

\* Only the holder of g_event_lock reads or writes the table, and no handler is
\* called while the dispatcher holds it.
THEOREM LockHeldInSections == Spec => []LockDiscipline
<1>1. Inv => LockDiscipline
  BY DEF Inv, TableInv
<1> QED
  BY <1>1, InvAlways, PTL

\* The used slots come first, in the order the handlers were registered.
THEOREM PrefixAlways == Spec => []TableIsPrefix
<1>1. Inv => TableIsPrefix
  BY DEF Inv, TableInv
<1> QED
  BY <1>1, InvAlways, PTL

\* A subscription is never overwritten or moved.
THEOREM SubscriptionsKept == Spec => SubscriptionsStable
<1>1. Inv /\ [Next]_vars
        => [\A s \in Slots : subscriptions[s] # NoEntry => subscriptions'[s] = subscriptions[s]]_vars
  BY NextTable DEF Inv
<1> QED
  BY <1>1, InvAlways, PTL DEF Spec, SubscriptionsStable

\* An accepted message is found by its serial number.
LEMMA PositionOfSerial ==
  ASSUME SerialInv, NEW i \in DOMAIN published
  PROVE  Position(published[i].serial) = i
  BY DEF SerialInv, Position

\* The dispatcher calls the handlers in the order the queue accepted the
\* messages, for one message in the order of registration, and none twice.
THEOREM DispatchedInOrder == Spec => []RanInOrder
<1>1. Inv => RanInOrder
  <2> SUFFICES ASSUME Inv, NEW k \in DOMAIN ran, NEW l \in DOMAIN ran, k < l
               PROVE  \/ Position(ran[k][1]) < Position(ran[l][1])
                      \/ ran[k][1] = ran[l][1] /\ ran[k][2] < ran[l][2]
    BY DEF RanInOrder
  <2>1. PICK i, j \in 1..Taken : /\ published[i].serial = ran[k][1]
                                 /\ published[j].serial = ran[l][1]
                                 /\ i < j \/ (i = j /\ ran[k][2] < ran[l][2])
    BY DEF Inv, OrderInv
  <2>2. i \in DOMAIN published /\ j \in DOMAIN published
    <3>1. published \in Seq(Messages) /\ Len(published) \in Nat /\ Len(queue) \in Nat
      BY DEF Inv, Types, TypeOK
    <3> QED
      BY <2>1, <3>1 DEF Taken
  <2>3. Position(ran[k][1]) = i /\ Position(ran[l][1]) = j
    BY <2>1, <2>2, PositionOfSerial DEF Inv
  <2> QED
    BY <2>1, <2>3
<1> QED
  BY <1>1, InvAlways, PTL

\* When the dispatcher is done with a message, the handlers subscribed to its
\* event when it was accepted have run, and no handler of another event has.
THEOREM SubscribersReached == Spec => []SubscribersCalled
<1>1. Inv => SubscribersCalled
  <2> SUFFICES ASSUME Inv, NEW n \in Serials, Finished(n)
               PROVE  /\ audience[n] \subseteq RanFor(n)
                      /\ \A s \in RanFor(n) : subscriptions[s] = published[Position(n)].event
    BY DEF SubscribersCalled
  <2>1. PICK i \in DOMAIN published : published[i].serial = n
    BY DEF Finished
  <2>2. /\ Len(published) \in Nat /\ Len(queue) \in Nat /\ DOMAIN published = 1..Len(published)
        /\ DOMAIN queue = 1..Len(queue)
    BY DEF Inv, Types, TypeOK
  <2>3. i <= Taken
    <3> SUFFICES ASSUME i > Taken PROVE FALSE
      BY <2>2 DEF Taken
    <3>1. i - Taken \in 1..Len(queue) /\ Taken + (i - Taken) = i
      BY <2>2 DEF Taken
    <3>2. queue[i - Taken] = published[i]
      BY <3>1 DEF Inv, QueueInv
    <3>3. n \in Queued
      BY <2>1, <2>2, <3>1, <3>2 DEF Queued
    <3> QED
      BY <3>3 DEF Finished
  <2>4. ~(HasMessage /\ i = Taken)
    BY <2>1 DEF Finished, Inv, QueueInv, Types, MessageOK
  <2>5. audience[n] \subseteq RanFor(n)
    BY <2>1, <2>3, <2>4 DEF Inv, CalledInv
  <2>6. ASSUME NEW s \in RanFor(n) PROVE subscriptions[s] = published[Position(n)].event
    <3>1. PICK k \in DOMAIN ran : ran[k][1] = n /\ ran[k][2] = s
      BY DEF RanFor
    <3>2. PICK j \in 1..Taken : published[j].serial = n /\ subscriptions[s] = published[j].event
      BY <3>1 DEF Inv, OrderInv
    <3>3. j \in DOMAIN published
      BY <2>2, <3>2 DEF Taken
    <3>4. Position(n) = j
      BY <3>2, <3>3, PositionOfSerial DEF Inv
    <3> QED
      BY <3>2, <3>4
  <2> QED
    BY <2>5, <2>6
<1> QED
  BY <1>1, InvAlways, PTL
=============================================================================
