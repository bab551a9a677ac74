----------------------------- MODULE EventTimer -----------------------------
(***************************************************************************)
(* The timer service on top of the event bus, as ep_framework_init brings  *)
(* them up: the scan thread is one of the publishers of the bus, and the   *)
(* dispatcher, from inside a handler, is one of the callers of the timer   *)
(* (a handler that re-arms its own timer).                                 *)
(***************************************************************************)
EXTENDS Naturals, Sequences, FiniteSets

CONSTANTS Clients, Dispatcher, Events, MaxHandlers, QueueDepth, NoThread, NoEntry,
          NoMessage, MaxPublish, MaxSubscribe,
          Callers, TimerIds, MaxTimers, ScanPeriod, Timeouts, NoTimer, MaxTime, MaxArmings,
          Scanner   \* the thread created by ep_timer_init

ASSUME SystemAssumption == /\ Scanner \in Clients
                           /\ Scanner \notin Callers
                           /\ Callers \subseteq Clients \cup {Dispatcher}
                           /\ MaxArmings < MaxPublish

VARIABLES phase, subscriptions, lock, cpc, wanted, queue, qstatus, qcall, dpc, msg, snapshot,
          published, attempted, subscribed, audience, ran,
          now, started, timers, request, spc, wakeAt, scanNow, expired, armed, due, fate,
          origin   \* history: serial of a message -> arming it was published for, or 0

B == INSTANCE EventBus
T == INSTANCE Timer

\* What the two components take for granted.
ASSUME ComponentAssumption == B!BusAssumption /\ B!MessageAssumption /\ T!TimerAssumption

busVars == <<phase, subscriptions, lock, cpc, wanted, queue, qstatus, qcall, dpc, msg,
             snapshot, published, attempted, subscribed, audience, ran>>
timerVars == <<now, started, timers, request, spc, wakeAt, scanNow, expired, armed, due, fate>>
vars == <<busVars, timerVars, origin>>

Init == B!Init /\ T!Init /\ origin = [n \in B!Serials |-> 0]

\* A thread with a start under way is inside ep_timer_start.
InTimerCall(t) == t \in Callers /\ request[t] # T!Inactive

-----------------------------------------------------------------------------
\* The bound on publish calls keeps a serial number for every arming that may
\* still expire.
Unresolved == {a \in 1..MaxArmings : fate[a] \in {"unused", "calling", "armed", "expired"}}
SerialToSpare == attempted + Cardinality(Unresolved) < MaxPublish

\* Steps of the bus alone; a handler returns only when its own calls have.
BusStep == /\ \/ B!InitStep
              \/ \E t \in B!Threads \ {Scanner} :
                    \/ B!Proceed(t)
                    \/ /\ ~InTimerCall(t)
                       /\ \E e \in Events : \/ B!Subscribe(t, e)
                                           \/ (SerialToSpare /\ B!Publish(t, e, TRUE))
              \/ B!Dispatch /\ ~InTimerCall(Dispatcher)
           /\ UNCHANGED <<timerVars, origin>>

\* ep_timer_init calls ep_event_init before it creates anything (73-76).
TimerInit == /\ phase = "started"
             /\ T!InitThread \/ T!InitStarted
             /\ UNCHANGED <<busVars, origin>>

TimerCall == /\ \E t \in Callers : \/ T!Request(t)
                                   \/ T!Call(t) /\ B!CanCall(t)
             /\ UNCHANGED <<busVars, origin>>

ScanStep == /\ T!ScanSleeps \/ T!ScanReadsClock \/ T!ScanCollects \/ T!ScanRoundEnds
            /\ UNCHANGED <<busVars, origin>>

\* The scanner calls ep_event_publish(event_id, 0, 0, 0) for the next expired
\* entry ...
ScanCallsPublish == /\ spc = "publish"
                    /\ T!Pending # {}
                    /\ B!Publish(Scanner, T!NextExpired.event, FALSE)
                    /\ UNCHANGED <<timerVars, origin>>

\* ... and goes on whether the bus took the message or not.
ScanPublished == /\ B!PublishAccepted(Scanner)
                 /\ T!ScanPublishes(TRUE)
                 /\ origin' = [origin EXCEPT ![qcall[Scanner].item.serial] = T!NextExpired.arming]

ScanDropped == /\ B!PublishTimesOut(Scanner)
               /\ T!ScanPublishes(FALSE)
               /\ UNCHANGED origin

Time == T!Tick /\ UNCHANGED <<busVars, origin>>

Scan == ScanStep \/ ScanCallsPublish \/ ScanPublished \/ ScanDropped

Next == BusStep \/ TimerInit \/ TimerCall \/ Scan \/ Time

Spec == Init /\ [][Next]_vars

\* Every thread inside a call or a loop is scheduled, handlers return, and
\* time passes.
FairSpec == /\ Spec
            /\ WF_vars(Time)
            /\ WF_vars(Scan)
            /\ WF_vars(B!Dispatch /\ ~InTimerCall(Dispatcher) /\ UNCHANGED <<timerVars, origin>>)
            /\ \A t \in B!Threads \ {Scanner} :
                  WF_vars(B!Proceed(t) /\ UNCHANGED <<timerVars, origin>>)
            /\ \A t \in Callers : WF_vars(T!Request(t) /\ UNCHANGED <<busVars, origin>>)

-----------------------------------------------------------------------------
TypeOK == /\ B!TypeOK
          /\ T!TypeOK
          /\ origin \in [B!Serials -> 0..MaxArmings]

\* A handler is called for a timer only when that arming expired: never before
\* its deadline, and never for one that was stopped or restarted in time.
HandlerOnlyForExpired == \A i \in DOMAIN ran :
    LET a == origin[ran[i][1]]
    IN  a # 0 => fate[a] = "published" /\ due[a] <= now

\* One arming, one message: between the table, the scanner's batch, the queue
\* and the dispatcher an expiry is never duplicated.
OneMessagePerArming == \A i, j \in DOMAIN published :
    LET a == origin[published[i].serial] IN
    a # 0 /\ a = origin[published[j].serial] => i = j

\* The handlers hear of an arming at most once, and only after it expired.
ExpiriesFaithful == HandlerOnlyForExpired /\ OneMessagePerArming

\* The silent loss of an expiry (the ignored result at 58) has one cause only:
\* the queue of the bus was full.
DroppedOnlyWhenFull ==
    [][\A a \in DOMAIN fate : fate[a] # "dropped" /\ fate'[a] = "dropped"
          => Len(queue) = QueueDepth]_vars

\* From start to handlers: an armed timer that is neither stopped nor
\* restarted nor dropped is dispatched to its subscribers.
Dispatched(a) == \E n \in B!Serials : origin[n] = a /\ B!Finished(n)
TimerReachesHandlers == \A a \in 1..MaxArmings :
    fate[a] = "armed" ~> fate[a] \in {"stopped", "replaced", "dropped"} \/ Dispatched(a)
=============================================================================
