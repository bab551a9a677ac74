--------------------------- MODULE EventTimerProofs --------------------------
(***************************************************************************)
(* Proofs about EventTimer: the timer service on top of the event bus is   *)
(* still a timer service and still an event bus, so what is proved of each *)
(* holds of both together; and the two facts that only hold of the two     *)
(* together, what the handlers hear of a timer and when an expiry is lost. *)
(***************************************************************************)
EXTENDS EventTimer, TLAPS

\* The components with what is proved of them.
BP == INSTANCE EventBusProofs
TP == INSTANCE TimerProofs

LEMMA BusAssumptions == BP!BusAssumption /\ BP!MessageAssumption
  BY ComponentAssumption DEF BP!Messages, B!Messages, BP!Serials, B!Serials

LEMMA TimerAssumptions == TP!TimerAssumption
  BY ComponentAssumption

-----------------------------------------------------------------------------
(* The timer service of the system.                                        *)

\* Every step is one of the timer service, or leaves it alone.
LEMMA TimerSteps == [Next]_vars => [T!Next]_T!vars
<1> USE DEF T!vars, T!service, T!history, timerVars
<1> SUFFICES ASSUME [Next]_vars PROVE T!Next \/ UNCHANGED timerVars
  OBVIOUS
<1>1. CASE BusStep \/ ScanCallsPublish \/ UNCHANGED vars
  BY <1>1 DEF BusStep, ScanCallsPublish, vars
<1>2. CASE TimerInit \/ TimerCall
  BY <1>2 DEF TimerInit, TimerCall, T!Next
<1>3. CASE ScanStep \/ ScanPublished \/ ScanDropped \/ Time
  BY <1>3 DEF ScanStep, ScanPublished, ScanDropped, Time, T!Next, T!Scan
<1> QED
  BY <1>1, <1>2, <1>3 DEF Next, Scan

\* T and TP are the same timer service.
LEMMA TimerInits == T!Init => TP!Init
  BY DEF T!Init, TP!Init, T!Slots, TP!Slots, T!Armings, TP!Armings, T!Inactive, TP!Inactive

LEMMA TimerNexts == [T!Next]_T!vars => [TP!Next]_TP!vars
<1> USE DEF T!vars, TP!vars, T!service, TP!service, T!history, TP!history, T!Slots, TP!Slots,
            T!Armings, TP!Armings, T!Inactive, TP!Inactive, T!IsActive, TP!IsActive
<1> SUFFICES ASSUME T!Next PROVE TP!Next
  OBVIOUS
<1>1. T!Tick => TP!Tick
  BY DEF T!Tick, TP!Tick
<1>2. T!InitThread => TP!InitThread
  BY DEF T!InitThread, TP!InitThread
<1>3. T!InitStarted => TP!InitStarted
  BY DEF T!InitStarted, TP!InitStarted
<1>4. ASSUME NEW t \in Callers, T!Request(t) PROVE TP!Request(t)
  <2> USE DEF T!SlotOf, TP!SlotOf, T!FreeSlots, TP!FreeSlots, T!FirstOf, TP!FirstOf,
              T!EndRequest, TP!EndRequest
  <2>1. T!StartRestarts(t) => TP!StartRestarts(t)
    BY DEF T!StartRestarts, TP!StartRestarts
  <2>2. T!StartInserts(t) => TP!StartInserts(t)
    BY DEF T!StartInserts, TP!StartInserts
  <2>3. T!StartBusy(t) => TP!StartBusy(t)
    BY DEF T!StartBusy, TP!StartBusy
  <2> QED
    BY <1>4, <2>1, <2>2, <2>3 DEF T!Request, TP!Request
<1>5. ASSUME NEW t \in Callers, T!Call(t) PROVE TP!Call(t)
  <2>1. ASSUME NEW id PROVE T!Stop(t, id) => TP!Stop(t, id)
    BY DEF T!Stop, TP!Stop, T!SlotOf, TP!SlotOf
  <2>2. ASSUME NEW id, NEW d, NEW e PROVE T!StartCall(t, id, d, e) => TP!StartCall(t, id, d, e)
    BY DEF T!StartCall, TP!StartCall
  <2> QED
    BY <1>5, <2>1, <2>2 DEF T!Call, TP!Call
<1>6. T!Scan => TP!Scan
  <2>1. T!ScanSleeps => TP!ScanSleeps
    BY DEF T!ScanSleeps, TP!ScanSleeps, T!SleepEnd, TP!SleepEnd
  <2>2. T!ScanReadsClock => TP!ScanReadsClock
    BY DEF T!ScanReadsClock, TP!ScanReadsClock
  <2>3. T!ScanCollects => TP!ScanCollects
    BY DEF T!ScanCollects, TP!ScanCollects, T!Expiring, TP!Expiring, T!TakenFrom, TP!TakenFrom
  <2>4. ASSUME NEW b PROVE T!ScanPublishes(b) => TP!ScanPublishes(b)
    BY DEF T!ScanPublishes, TP!ScanPublishes, T!Pending, TP!Pending, T!NextExpired, TP!NextExpired,
           T!FirstOf, TP!FirstOf
  <2>5. T!ScanRoundEnds => TP!ScanRoundEnds
    BY DEF T!ScanRoundEnds, TP!ScanRoundEnds, T!Pending, TP!Pending
  <2> QED
    BY <2>1, <2>2, <2>3, <2>4, <2>5 DEF T!Scan, TP!Scan
<1> QED
  BY <1>1, <1>2, <1>3, <1>4, <1>5, <1>6 DEF T!Next, TP!Next

\* What is known of the timer service.
TimerInv == TP!TypeOK /\ TP!Bookkeeping /\ TP!Accounting /\ TP!NeverEarly

LEMMA InitTimer == Init => TimerInv
<1>1. TP!Init => TP!TypeOK /\ TP!Bookkeeping
  BY TimerAssumptions, TP!InitType, TP!InitBookkeeping
<1>2. TP!Init => TP!Accounting /\ TP!NeverEarly
  BY TimerAssumptions, TP!InactiveEntry DEF TP!Init, TP!Accounting, TP!NeverEarly
<1> QED
  BY <1>1, <1>2, TimerInits DEF Init, TimerInv

LEMMA NextTimer == TimerInv /\ [Next]_vars => TimerInv'
<1>1. [Next]_vars => [TP!Next]_TP!vars
  BY TimerSteps, TimerNexts
<1>2. TP!TypeOK /\ [TP!Next]_TP!vars => TP!TypeOK'
  BY TimerAssumptions, TP!NextType
<1>3. TP!TypeOK /\ TP!Bookkeeping /\ [TP!Next]_TP!vars => TP!Bookkeeping'
  BY TimerAssumptions, TP!NextBookkeeping
<1>4. TP!TypeOK /\ TP!Bookkeeping /\ TP!Accounting /\ [TP!Next]_TP!vars => TP!Accounting'
  BY TimerAssumptions, TP!NextAccounting
<1>5. TimerInv /\ [TP!Next]_TP!vars => TP!NeverEarly'
  BY TimerAssumptions, TP!NextNeverEarly DEF TimerInv
<1> QED
  BY <1>1, <1>2, <1>3, <1>4, <1>5 DEF TimerInv

\* What is settled about an arming stays settled.
LEMMA SettledStays ==
  ASSUME TimerInv, [Next]_vars, NEW a \in 1..MaxArmings, fate[a] \in {"published", "dropped"}
  PROVE  fate'[a] = fate[a]
<1>1. [TP!Next]_TP!vars
  BY TimerSteps, TimerNexts
<1>2. TP!TypeOK /\ TP!Bookkeeping /\ TP!Accounting /\ [TP!Next]_TP!vars
        => \A x \in TP!Armings : fate[x] \in TP!Settled => fate'[x] = fate[x]
  BY TimerAssumptions, TP!NextSettled
<1> QED
  BY <1>1, <1>2 DEF TimerInv, TP!Armings, TP!Settled

-----------------------------------------------------------------------------
(* The event bus of the system.                                            *)

LEMMA NextExpiredEvent ==
  ASSUME TimerInv, spc = "publish", T!Pending # {}
  PROVE  T!NextExpired.event \in Events /\ T!NextExpired.arming \in 1..MaxArmings
         /\ T!NextExpired = TP!NextExpired
<1> USE DEF TP!Slots, TP!Armings
<1>1. T!Pending = TP!Pending /\ T!NextExpired = TP!NextExpired
  BY DEF T!Pending, TP!Pending, T!NextExpired, TP!NextExpired, T!FirstOf, TP!FirstOf,
         T!Inactive, TP!Inactive, T!Slots
<1>2. TP!FirstOf(TP!Pending) \in TP!Slots /\ TP!NextExpired.arming \in TP!Armings
  BY <1>1, TimerAssumptions, TP!NextExpiredValid DEF TimerInv
<1>3. TP!NextExpired \in TP!Entries
  BY <1>2 DEF TP!NextExpired, TimerInv, TP!TypeOK
<1> QED
  BY <1>1, <1>2, <1>3 DEF TP!Entries

\* Every step is one of the bus, or leaves it alone: the scanner publishes as
\* any thread may.
LEMMA BusSteps == TimerInv /\ [Next]_vars => [B!Next]_B!vars
<1> USE DEF B!vars, B!bus, B!history, busVars
<1> SUFFICES ASSUME TimerInv, [Next]_vars PROVE B!Next \/ UNCHANGED busVars
  OBVIOUS
<1>1. Scanner \in B!Threads
  BY SystemAssumption DEF B!Threads
<1>2. CASE BusStep
  BY <1>2 DEF BusStep, B!Next
<1>3. CASE TimerInit \/ TimerCall \/ ScanStep \/ Time \/ UNCHANGED vars
  BY <1>3 DEF TimerInit, TimerCall, ScanStep, Time, vars
<1>4. CASE ScanCallsPublish
  <2>1. T!NextExpired.event \in Events
    BY <1>4, NextExpiredEvent DEF ScanCallsPublish
  <2> QED
    BY <1>1, <1>4, <2>1 DEF ScanCallsPublish, B!Next
<1>5. CASE ScanPublished \/ ScanDropped
  BY <1>1, <1>5 DEF ScanPublished, ScanDropped, B!Next, B!Proceed
<1> QED
  BY <1>2, <1>3, <1>4, <1>5 DEF Next, Scan

\* B and BP are the same bus.
LEMMA BusInits == B!Init => BP!Init
  BY DEF B!Init, BP!Init, B!Q!Init, BP!Q!Init, B!Threads, BP!Threads, B!Slots, BP!Slots,
         B!Serials, BP!Serials

LEMMA BusNexts == [B!Next]_B!vars => [BP!Next]_BP!vars
<1> USE DEF B!vars, BP!vars, B!bus, BP!bus, B!history, BP!history, B!qvars, BP!qvars,
            B!Threads, BP!Threads, B!Slots, BP!Slots, B!Serials, BP!Serials,
            B!Q!Active, BP!Q!Active, B!Q!Blocked, BP!Q!Blocked, B!CanCall, BP!CanCall
<1> SUFFICES ASSUME B!Next PROVE BP!Next
  OBVIOUS
<1>1. B!InitStep => BP!InitStep
  BY DEF B!InitStep, BP!InitStep, B!InitResources, BP!InitResources, B!InitThreadFails, BP!InitThreadFails,
         B!InitThread, BP!InitThread, B!InitStarted, BP!InitStarted
<1>2. ASSUME NEW t, NEW e, B!Subscribe(t, e) PROVE BP!Subscribe(t, e)
  BY <1>2 DEF B!Subscribe, BP!Subscribe
<1>3. ASSUME NEW t, B!Q!Start(t) PROVE BP!Q!Start(t)
  BY <1>3 DEF B!Q!Start, BP!Q!Start, B!Q!Calls, BP!Q!Calls, B!Messages, BP!Messages
<1>4. ASSUME NEW t, NEW e, NEW b, B!Publish(t, e, b) PROVE BP!Publish(t, e, b)
  BY <1>3, <1>4 DEF B!Publish, BP!Publish
<1>5. ASSUME NEW t, B!Q!Wait(t) PROVE BP!Q!Wait(t)
  BY <1>5 DEF B!Q!Wait, BP!Q!Wait
<1>6. ASSUME NEW t, B!Q!GiveUp(t) PROVE BP!Q!GiveUp(t)
  BY <1>6 DEF B!Q!GiveUp, BP!Q!GiveUp
<1>7. ASSUME NEW t, B!Proceed(t) PROVE BP!Proceed(t)
  <2> USE DEF B!Sending, BP!Sending
  <2>1. B!SubscribeLock(t) => BP!SubscribeLock(t)
    BY DEF B!SubscribeLock, BP!SubscribeLock
  <2>2. B!SubscribeRegister(t) => BP!SubscribeRegister(t)
    BY DEF B!SubscribeRegister, BP!SubscribeRegister, B!FreeSlots, BP!FreeSlots, B!FirstOf, BP!FirstOf
  <2>3. B!PublishAccepted(t) => BP!PublishAccepted(t)
    BY DEF B!PublishAccepted, BP!PublishAccepted, B!Q!Put, BP!Q!Put, B!SlotsFor, BP!SlotsFor
  <2>4. B!PublishWaits(t) => BP!PublishWaits(t)
    BY <1>5 DEF B!PublishWaits, BP!PublishWaits
  <2>5. B!PublishTimesOut(t) => BP!PublishTimesOut(t)
    BY <1>6 DEF B!PublishTimesOut, BP!PublishTimesOut
  <2> QED
    BY <1>7, <2>1, <2>2, <2>3, <2>4, <2>5 DEF B!Proceed, BP!Proceed
<1>8. B!Dispatch => BP!Dispatch
  <2> USE DEF B!SlotsFor, BP!SlotsFor, B!FirstOf, BP!FirstOf
  <2>1. B!DispatchCallsRecv => BP!DispatchCallsRecv
    BY <1>3 DEF B!DispatchCallsRecv, BP!DispatchCallsRecv
  <2>2. B!DispatchReceives => BP!DispatchReceives
    BY DEF B!DispatchReceives, BP!DispatchReceives, B!Q!Take, BP!Q!Take
  <2>3. B!DispatchWaits => BP!DispatchWaits
    BY <1>5 DEF B!DispatchWaits, BP!DispatchWaits
  <2>4. B!DispatchTimesOut => BP!DispatchTimesOut
    BY <1>6 DEF B!DispatchTimesOut, BP!DispatchTimesOut
  <2>5. B!DispatchLocks => BP!DispatchLocks
    BY DEF B!DispatchLocks, BP!DispatchLocks
  <2>6. B!DispatchSnapshots => BP!DispatchSnapshots
    BY DEF B!DispatchSnapshots, BP!DispatchSnapshots
  <2>7. B!DispatchCalls => BP!DispatchCalls
    BY DEF B!DispatchCalls, BP!DispatchCalls
  <2>8. B!HandlerReturns => BP!HandlerReturns
    BY DEF B!HandlerReturns, BP!HandlerReturns
  <2>9. B!DispatchNext => BP!DispatchNext
    BY DEF B!DispatchNext, BP!DispatchNext
  <2> QED
    BY <2>1, <2>2, <2>3, <2>4, <2>5, <2>6, <2>7, <2>8, <2>9 DEF B!Dispatch, BP!Dispatch
<1> HIDE DEF B!CanCall, BP!CanCall, B!Q!Active, BP!Q!Active
<1> QED
  BY <1>1, <1>2, <1>4, <1>7, <1>8 DEF B!Next, BP!Next

LEMMA InitBus == Init => BP!Inv
  BY BusInits, BusAssumptions, BP!InitInv DEF Init

LEMMA NextBus == TimerInv /\ BP!Inv /\ [Next]_vars => BP!Inv'
<1>1. BP!Inv /\ [BP!Next]_BP!vars => BP!Inv'
  BY BusAssumptions, BP!NextInv
<1> QED
  BY <1>1, BusSteps, BusNexts

-----------------------------------------------------------------------------
\* The composed system is an event bus and a timer service: putting the scan
\* thread among the publishers, and the dispatcher among the callers of the
\* timer, does nothing that either component would not do alone
\* (ep_framework_init, ep_timer.c:58).
THEOREM SystemImplementsParts == Spec => B!Spec /\ T!Spec
<1>1. Init => B!Init /\ T!Init /\ TimerInv
  BY InitTimer DEF Init
<1>2. TimerInv /\ [Next]_vars => TimerInv' /\ [B!Next]_B!vars /\ [T!Next]_T!vars
  BY NextTimer, BusSteps, TimerSteps
<1> QED
  BY <1>1, <1>2, PTL DEF Spec, B!Spec, T!Spec

-----------------------------------------------------------------------------
(* From the table of timers to the handlers.                               *)

\* A message that was published for an arming belongs to one that has expired
\* and was published, and to no other message.
OriginInv ==
    /\ origin \in [B!Serials -> 0..MaxArmings]
    /\ \A n \in B!Serials : origin[n] # 0 => fate[origin[n]] = "published"
    /\ \A m, n \in B!Serials : origin[m] # 0 /\ origin[m] = origin[n] => m = n

LEMMA InitOrigin == Init => OriginInv
  BY SystemAssumption, ComponentAssumption DEF Init, OriginInv, B!Serials

\* The scanner's message is one of the bus.
LEMMA ScannerSerial ==
  ASSUME BP!Inv, B!PublishAccepted(Scanner)
  PROVE  qcall[Scanner].item.serial \in B!Serials
<1>1. Scanner \in BP!Threads /\ qcall[Scanner].op = "send"
  BY SystemAssumption DEF BP!Threads, B!PublishAccepted, B!Sending
<1>2. qcall[Scanner].item \in BP!Messages
  BY <1>1 DEF BP!Inv, BP!Types, BP!CallsOK
<1> QED
  BY <1>2 DEF BP!Messages, BP!Serials, B!Serials

LEMMA NextOrigin == TimerInv /\ BP!Inv /\ OriginInv /\ [Next]_vars => OriginInv'
<1> USE DEF B!Serials
<1> SUFFICES ASSUME TimerInv, BP!Inv, OriginInv, [Next]_vars PROVE OriginInv'
  OBVIOUS
<1>1. MaxArmings \in Nat /\ MaxPublish \in Nat
  BY ComponentAssumption DEF B!BusAssumption, T!TimerAssumption
<1>2. ASSUME UNCHANGED origin PROVE OriginInv'
  <2>1. \A n \in B!Serials : origin[n] # 0 => fate'[origin[n]] = "published"
    <3> SUFFICES ASSUME NEW n \in B!Serials, origin[n] # 0 PROVE fate'[origin[n]] = "published"
      OBVIOUS
    <3>1. origin[n] \in 1..MaxArmings /\ fate[origin[n]] = "published"
      BY <1>1 DEF OriginInv
    <3> QED
      BY <3>1, SettledStays
  <2> QED
    BY <1>2, <2>1 DEF OriginInv
<1>3. CASE ScanPublished
  <2> DEFINE n0 == qcall[Scanner].item.serial
             a0 == T!NextExpired.arming
  <2>1. n0 \in B!Serials
    BY <1>3, ScannerSerial DEF ScanPublished
  <2>2. spc = "publish" /\ T!Pending # {}
        /\ fate' = [fate EXCEPT ![T!NextExpired.arming] = "published"]
    BY <1>3 DEF ScanPublished, T!ScanPublishes
  <2>3. a0 \in 1..MaxArmings /\ T!NextExpired = TP!NextExpired
    BY <2>2, NextExpiredEvent
  <2>4. fate[a0] = "expired"
    <3>1. TP!Pending # {} /\ spc = "publish"
      BY <2>2 DEF T!Pending, TP!Pending, T!Slots, TP!Slots, T!Inactive, TP!Inactive
    <3>2. TP!FirstOf(TP!Pending) \in TP!Slots /\ TP!NextExpired # TP!Inactive
      BY <3>1, TimerAssumptions, TP!NextExpiredValid DEF TimerInv
    <3> QED
      BY <2>3, <3>2 DEF TimerInv, TP!Accounting, TP!NextExpired
  <2>5. fate \in [1..MaxArmings -> TP!Fates]
    BY DEF TimerInv, TP!TypeOK, TP!Armings
  <2>6. origin' = [origin EXCEPT ![n0] = a0]
    BY <1>3 DEF ScanPublished
  <2>7. fate'[a0] = "published" /\ \A a \in (1..MaxArmings) \ {a0} : fate'[a] = fate[a]
    BY <2>2, <2>3, <2>5
  <2>8. \A n \in B!Serials : origin[n] # a0
    BY <1>1, <2>3, <2>4 DEF OriginInv
  <2> HIDE DEF n0, a0
  <2>9. origin' \in [B!Serials -> 0..MaxArmings]
    BY <1>1, <2>1, <2>3, <2>6 DEF OriginInv
  <2>10. ASSUME NEW n \in B!Serials, origin'[n] # 0 PROVE fate'[origin'[n]] = "published"
    <3>1. CASE n = n0
      BY <2>1, <2>6, <2>7, <3>1 DEF OriginInv
    <3>2. CASE n # n0
      <4>1. origin'[n] = origin[n] /\ origin[n] \in (1..MaxArmings) \ {a0}
        BY <1>1, <2>6, <2>8, <2>10, <3>2 DEF OriginInv
      <4> QED
        BY <2>7, <2>10, <4>1 DEF OriginInv
    <3> QED
      BY <3>1, <3>2
  <2>11. \A m, n \in B!Serials : origin'[m] # 0 /\ origin'[m] = origin'[n] => m = n
    BY <2>1, <2>6, <2>8 DEF OriginInv
  <2> QED
    BY <2>9, <2>10, <2>11 DEF OriginInv
<1>4. ~ScanPublished => UNCHANGED origin
  BY DEF Next, BusStep, TimerInit, TimerCall, Scan, ScanStep, ScanCallsPublish, ScanDropped, Time, vars
<1> QED
  BY <1>2, <1>3, <1>4

SystemInv == TimerInv /\ BP!Inv /\ OriginInv

LEMMA SystemAlways == Spec => []SystemInv
<1>1. Init => SystemInv
  BY InitTimer, InitBus, InitOrigin DEF SystemInv
<1>2. SystemInv /\ [Next]_vars => SystemInv'
  BY NextTimer, NextBus, NextOrigin DEF SystemInv
<1> QED
  BY <1>1, <1>2, PTL DEF Spec

\* The variables keep their types.
THEOREM TypeCorrect == Spec => []TypeOK
<1>1. SystemInv => TypeOK
  <2> SUFFICES ASSUME SystemInv PROVE TypeOK
    OBVIOUS
  <2>1. T!TypeOK
    BY DEF SystemInv, TimerInv, TP!TypeOK, T!TypeOK, T!Slots, TP!Slots, T!Armings, TP!Armings,
           T!Entries, TP!Entries, T!Fates, TP!Fates
  <2>2. B!TypeOK
    BY DEF SystemInv, BP!Inv, BP!Types, BP!TypeOK, B!TypeOK, B!Threads, BP!Threads, B!Slots, BP!Slots,
           B!Serials, BP!Serials, B!Messages, BP!Messages
  <2> QED
    BY <2>1, <2>2 DEF SystemInv, OriginInv, TypeOK
<1> QED
  BY <1>1, SystemAlways, PTL

\* A handler hears of a timer only once that arming expired: never before its
\* deadline, never for one that was stopped or restarted in time, and never
\* twice, whatever threads start and stop timers, publish and subscribe
\* meanwhile, handlers included (ep_timer_scan, ep_event_dispatch_loop).
THEOREM ExpiriesHeardOnce == Spec => []ExpiriesFaithful
<1>1. SystemInv => ExpiriesFaithful
  <2> SUFFICES ASSUME SystemInv PROVE HandlerOnlyForExpired /\ OneMessagePerArming
    BY DEF ExpiriesFaithful
  <2>1. HandlerOnlyForExpired
    <3> SUFFICES ASSUME NEW i \in DOMAIN ran, origin[ran[i][1]] # 0
                 PROVE  fate[origin[ran[i][1]]] = "published" /\ due[origin[ran[i][1]]] <= now
      BY DEF HandlerOnlyForExpired
    <3>1. ran \in Seq(BP!Serials \X BP!Slots)
      BY DEF SystemInv, BP!Inv, BP!Types, BP!TypeOK
    <3>2. ran[i][1] \in B!Serials
      BY <3>1 DEF BP!Serials, B!Serials
    <3>3. origin[ran[i][1]] \in 1..MaxArmings /\ fate[origin[ran[i][1]]] = "published"
      BY <3>2, ComponentAssumption DEF SystemInv, OriginInv, T!TimerAssumption
    <3> QED
      BY <3>3 DEF SystemInv, TimerInv, TP!NeverEarly, TP!Armings
  <2>2. OneMessagePerArming
    <3> SUFFICES ASSUME NEW i \in DOMAIN published, NEW j \in DOMAIN published,
                        origin[published[i].serial] # 0,
                        origin[published[i].serial] = origin[published[j].serial]
                 PROVE  i = j
      BY DEF OneMessagePerArming
    <3>1. published \in Seq(BP!Messages)
      BY DEF SystemInv, BP!Inv, BP!Types, BP!TypeOK
    <3>2. published[i] \in BP!Messages /\ published[j] \in BP!Messages
      BY <3>1
    <3>3. published[i].serial \in B!Serials /\ published[j].serial \in B!Serials
      BY <3>2 DEF BP!Messages, BP!Serials, B!Serials
    <3>4. published[i].serial = published[j].serial
      BY <3>3 DEF SystemInv, OriginInv
    <3> QED
      BY <3>4 DEF SystemInv, BP!Inv, BP!SerialInv
  <2> QED
    BY <2>1, <2>2
<1> QED
  BY <1>1, SystemAlways, PTL

-----------------------------------------------------------------------------
(* Which expiries are lost.                                                *)

\* The scanner is in the queue only with a send that does not wait.
ScannerInv == qstatus[Scanner] \in {"ok", "timeout"} \/ (qstatus[Scanner] = "busy" /\ ~qcall[Scanner].timed)

LEMMA InitScanner == Init => ScannerInv
  BY SystemAssumption DEF Init, B!Init, B!Q!Init, ScannerInv, B!Threads

\* The calls of another thread.
LEMMA OthersScanner ==
  ASSUME BP!Inv, ScannerInv, NEW t \in B!Threads, t # Scanner,
         B!Q!Start(t) \/ B!Q!Put(t) \/ B!Q!Take(t) \/ B!Q!Wait(t) \/ B!Q!GiveUp(t)
  PROVE  ScannerInv'
<1>1. /\ qstatus \in [B!Threads -> {"ok", "timeout", "busy", "waiting"}]
      /\ qcall \in [B!Threads -> BP!CallRecords]
  BY DEF BP!Inv, BP!Types, BP!TypeOK, BP!CallsOK, B!Threads, BP!Threads
<1>2. qstatus'[Scanner] = qstatus[Scanner]
  <2>1. PICK r : qstatus' = [qstatus EXCEPT ![t] = r]
    BY Zenon DEF B!Q!Start, B!Q!Put, B!Q!Take, B!Q!Wait, B!Q!GiveUp
  <2> QED
    BY <1>1, <2>1, SystemAssumption DEF B!Threads
<1>3. qcall'[Scanner] = qcall[Scanner]
  <2> USE SystemAssumption DEF B!Threads
  <2>1. CASE B!Q!Start(t)
    BY <1>1, <2>1 DEF B!Q!Start
  <2>2. CASE B!Q!Put(t) \/ B!Q!Wait(t) \/ B!Q!GiveUp(t)
    BY <2>2 DEF B!Q!Put, B!Q!Wait, B!Q!GiveUp
  <2>3. CASE B!Q!Take(t)
    BY <1>1, <2>3 DEF B!Q!Take
  <2> QED
    BY <2>1, <2>2, <2>3
<1> QED
  BY <1>2, <1>3 DEF ScannerInv

LEMMA NextScanner == BP!Inv /\ ScannerInv /\ [Next]_vars => ScannerInv'
<1> SUFFICES ASSUME BP!Inv, ScannerInv, [Next]_vars PROVE ScannerInv'
  OBVIOUS
<1>0. /\ Scanner \in B!Threads /\ Dispatcher \in B!Threads /\ Dispatcher # Scanner
      /\ qstatus \in [B!Threads -> {"ok", "timeout", "busy", "waiting"}]
      /\ qcall \in [B!Threads -> BP!CallRecords]
  BY SystemAssumption, ComponentAssumption
     DEF BP!Inv, BP!Types, BP!TypeOK, BP!CallsOK, B!Threads, BP!Threads, B!BusAssumption
<1>1. CASE UNCHANGED <<qstatus, qcall>>
  BY <1>1 DEF ScannerInv
<1>2. CASE BusStep
  <2>1. ASSUME NEW t \in B!Threads \ {Scanner}, B!Proceed(t) PROVE ScannerInv'
    BY <1>1, <2>1, OthersScanner
       DEF B!Proceed, B!SubscribeLock, B!SubscribeRegister, B!PublishAccepted, B!PublishWaits,
           B!PublishTimesOut, B!qvars
  <2>2. ASSUME NEW t \in B!Threads \ {Scanner}, NEW e \in Events, B!Subscribe(t, e) \/ B!Publish(t, e, TRUE)
        PROVE  ScannerInv'
    BY <1>1, <2>2, OthersScanner DEF B!Subscribe, B!Publish, B!qvars
  <2>3. CASE B!Dispatch
    BY <1>0, <1>1, <2>3, OthersScanner
       DEF B!Dispatch, B!DispatchCallsRecv, B!DispatchReceives, B!DispatchWaits, B!DispatchTimesOut,
           B!DispatchLocks, B!DispatchSnapshots, B!DispatchCalls, B!HandlerReturns, B!DispatchNext, B!qvars
  <2>4. CASE B!InitStep
    BY <1>1, <2>4 DEF B!InitStep, B!InitResources, B!InitThreadFails, B!InitThread, B!InitStarted, B!qvars
  <2> QED
    BY <1>2, <2>1, <2>2, <2>3, <2>4 DEF BusStep
<1>3. CASE TimerInit \/ TimerCall \/ ScanStep \/ Time \/ UNCHANGED vars
  BY <1>1, <1>3 DEF TimerInit, TimerCall, ScanStep, Time, vars, busVars
<1>4. CASE ScanCallsPublish
  <2>1. qstatus' = [qstatus EXCEPT ![Scanner] = "busy"] /\ ~qcall'[Scanner].timed
    BY <1>4 DEF ScanCallsPublish, B!Publish, B!Q!Start
  <2> QED
    BY <1>0, <2>1 DEF ScannerInv
<1>5. CASE ScanPublished \/ ScanDropped
  <2>1. qstatus'[Scanner] \in {"ok", "timeout"}
    BY <1>0, <1>5 DEF ScanPublished, ScanDropped, B!PublishAccepted, B!PublishTimesOut, B!Q!Put, B!Q!GiveUp
  <2> QED
    BY <2>1 DEF ScannerInv
<1> QED
  BY <1>2, <1>3, <1>4, <1>5 DEF Next, Scan

\* An expiry is lost, silently, only because the queue of the bus was full at
\* that moment: never by a timeout, for want of a handler, or because the timer
\* was started or stopped meanwhile (the result ignored at ep_timer.c:58).
THEOREM LostOnlyWhenFull == Spec => DroppedOnlyWhenFull
<1>1. ASSUME TimerInv, ScannerInv, [Next]_vars, NEW a \in DOMAIN fate, fate[a] # "dropped",
             fate'[a] = "dropped"
      PROVE  Len(queue) = QueueDepth
  <2>1. fate \in [1..MaxArmings -> TP!Fates]
    BY <1>1 DEF TimerInv, TP!TypeOK, TP!Armings
  <2>2. ASSUME NEW f, fate' = [fate EXCEPT ![f] = "published"] PROVE FALSE
    BY <1>1, <2>1, <2>2
  <2>3. CASE BusStep \/ TimerInit \/ ScanCallsPublish \/ Time \/ UNCHANGED vars
    BY <1>1, <2>3 DEF BusStep, TimerInit, T!InitThread, T!InitStarted, T!history, ScanCallsPublish, Time,
                      T!Tick, vars, timerVars
  <2>4. CASE TimerCall
    <3>1. PICK t \in Callers : T!Request(t) \/ T!Call(t)
      BY <2>4 DEF TimerCall
    <3>2. fate'[a] \in {fate[a], "calling", "armed", "replaced", "refused", "stopped"}
      BY <2>1, <3>1 DEF T!Request, T!StartRestarts, T!StartInserts, T!StartBusy, T!Call, T!Stop, T!StartCall
    <3> QED
      BY <1>1, <3>2
  <2>5. CASE ScanStep
    BY <1>1, <2>1, <2>5 DEF ScanStep, T!ScanSleeps, T!ScanReadsClock, T!ScanCollects, T!ScanRoundEnds,
                            T!history, T!Armings
  <2>6. CASE ScanPublished
    BY <2>2, <2>6 DEF ScanPublished, T!ScanPublishes
  <2>7. CASE ScanDropped
    <3>1. B!Sending(Scanner) /\ B!Q!GiveUp(Scanner)
      BY <2>7 DEF ScanDropped, B!PublishTimesOut
    <3>2. B!Q!Blocked(Scanner)
      BY <1>1, <3>1 DEF ScannerInv, B!Q!GiveUp
    <3> QED
      BY <3>1, <3>2 DEF B!Sending, B!Q!Blocked
  <2> QED
    BY <1>1, <2>3, <2>4, <2>5, <2>6, <2>7 DEF Next, Scan
<1>2. TimerInv /\ ScannerInv /\ [Next]_vars
        => [\A a \in DOMAIN fate : fate[a] # "dropped" /\ fate'[a] = "dropped"
              => Len(queue) = QueueDepth]_vars
  BY <1>1
<1>3. Init => SystemInv /\ ScannerInv
  BY InitTimer, InitBus, InitOrigin, InitScanner DEF SystemInv
<1>4. SystemInv /\ ScannerInv /\ [Next]_vars => (SystemInv /\ ScannerInv)'
  BY NextTimer, NextBus, NextOrigin, NextScanner DEF SystemInv
<1>5. SystemInv => TimerInv
  BY DEF SystemInv
<1> QED
  BY <1>2, <1>3, <1>4, <1>5, PTL DEF Spec, DroppedOnlyWhenFull
=============================================================================
