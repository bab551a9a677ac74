------------------------------ MODULE EventBus ------------------------------
(***************************************************************************)
(* The global event bus (components/event/src/ep_event.c): any thread may  *)
(* subscribe and publish; one dispatcher thread receives each message,     *)
(* copies the matching subscriptions under g_event_lock, and calls the     *)
(* handlers with the lock released.  A handler may itself subscribe and    *)
(* publish.  The message queue is used at the level of BoundedFifo.        *)
(*                                                                         *)
(* The payload is abstracted to the serial number of its publish call: it  *)
(* is what tells one message from another.  Calls that return an error     *)
(* before they reach the lock or the queue (bad arguments, bus not         *)
(* started) change nothing and are the stuttering steps of Spec.           *)
(***************************************************************************)
EXTENDS Naturals, Sequences, FiniteSets

CONSTANTS Clients,       \* threads that call the bus
          Dispatcher,    \* the thread created by ep_event_init
          Events,        \* event ids
          MaxHandlers,   \* EP_EVENT_MAX_HANDLERS
          QueueDepth,    \* EP_EVENT_QUEUE_DEPTH
          NoThread,      \* the mutex is free
          NoEntry,       \* an unused subscription
          NoMessage,
          MaxPublish,    \* bound on the publish calls of a behaviour
          MaxSubscribe   \* bound on the subscribe calls of a behaviour

ASSUME BusAssumption == /\ Dispatcher \notin Clients
                        /\ NoThread \notin Clients \cup {Dispatcher}
                        /\ NoEntry \notin Events
                        /\ MaxHandlers \in Nat \ {0}
                        /\ QueueDepth \in Nat \ {0}
                        /\ MaxPublish \in Nat
                        /\ MaxSubscribe \in Nat

Threads == Clients \cup {Dispatcher}
Slots == 1..MaxHandlers
Serials == 1..MaxPublish
Messages == [event : Events, serial : Serials]

ASSUME MessageAssumption == NoMessage \notin Messages

VARIABLES phase,          \* g_event_started, and how far ep_event_init is
          subscriptions,  \* slot -> event id of its handler, or NoEntry
          lock,           \* holder of g_event_lock, or NoThread
          cpc,            \* thread -> where its subscribe call is
          wanted,         \* thread -> event id it is subscribing to
          queue, qstatus, qcall,   \* g_event_queue and the calls on it
          dpc,            \* where the dispatch loop is
          msg,            \* the dispatcher's local message
          snapshot        \* slots of the handlers still to be called for msg

\* What the properties need to know of the past.
VARIABLES published,      \* messages accepted by the queue, in order
          attempted,      \* number of publish calls made, accepted or not
          subscribed,     \* number of subscribe calls made
          audience,            \* serial -> slots subscribed when it was accepted
          ran             \* handler calls <<serial, slot>>, in order

bus == <<phase, subscriptions, lock, cpc, wanted, queue, qstatus, qcall,
         dpc, msg, snapshot>>
history == <<published, attempted, subscribed, audience, ran>>
vars == <<bus, history>>

Q == INSTANCE BoundedFifo WITH
       Threads <- Threads, Items <- Messages, Depth <- QueueDepth,
       NoItem <- NoMessage, fifo <- queue, status <- qstatus, call <- qcall

qvars == <<queue, qstatus, qcall>>

Init == /\ phase = "down"
        /\ subscriptions = [s \in Slots |-> NoEntry]
        /\ lock = NoThread
        /\ cpc = [t \in Threads |-> "idle"]
        /\ wanted = [t \in Threads |-> NoEntry]
        /\ Q!Init
        /\ dpc = "unborn"
        /\ msg = NoMessage
        /\ snapshot = {}
        /\ published = <<>>
        /\ attempted = 0
        /\ subscribed = 0
        /\ audience = [n \in Serials |-> {}]
        /\ ran = <<>>

\* t can make a call: it is in none, and the dispatcher can only from inside a
\* handler.
CanCall(t) == /\ cpc[t] = "idle"
              /\ ~Q!Active(t)
              /\ t = Dispatcher => dpc = "handler"

-----------------------------------------------------------------------------
(* ep_event_init, called by the one thread that starts the framework.      *)

\* The mutex and the queue exist (81-89); failing there leaves phase "down".
InitResources == /\ phase = "down"
                 /\ phase' = "created"
                 /\ UNCHANGED <<subscriptions, lock, cpc, wanted, qvars, dpc, msg,
                                snapshot, history>>

\* Thread creation fails (91-94): a later call starts over with new resources.
InitThreadFails == /\ phase = "created"
                   /\ phase' = "down"
                   /\ UNCHANGED <<subscriptions, lock, cpc, wanted, qvars, dpc, msg,
                                  snapshot, history>>

\* The dispatcher runs before g_event_started is set.
InitThread == /\ phase = "created"
              /\ phase' = "running"
              /\ dpc' = "recv"
              /\ UNCHANGED <<subscriptions, lock, cpc, wanted, qvars, msg, snapshot,
                             history>>

InitStarted == /\ phase = "running"
               /\ phase' = "started"
               /\ UNCHANGED <<subscriptions, lock, cpc, wanted, qvars, dpc, msg,
                              snapshot, history>>

-----------------------------------------------------------------------------
(* ep_event_subscribe.                                                     *)

Subscribe(t, e) == /\ phase = "started"
                   /\ CanCall(t)
                   /\ subscribed < MaxSubscribe
                   /\ subscribed' = subscribed + 1
                   /\ cpc' = [cpc EXCEPT ![t] = "lock"]
                   /\ wanted' = [wanted EXCEPT ![t] = e]
                   /\ UNCHANGED <<phase, subscriptions, lock, qvars, dpc, msg, snapshot,
                                  published, attempted, audience, ran>>

SubscribeLock(t) == /\ cpc[t] = "lock"
                    /\ lock = NoThread
                    /\ lock' = t
                    /\ cpc' = [cpc EXCEPT ![t] = "register"]
                    /\ UNCHANGED <<phase, subscriptions, wanted, qvars, dpc, msg,
                                   snapshot, history>>

FreeSlots == {s \in Slots : subscriptions[s] = NoEntry}

FirstOf(S) == CHOOSE s \in S : \A r \in S : s <= r

\* The first unused slot, or EP_ERR_BUSY; the lock is released either way.
SubscribeRegister(t) ==
    /\ cpc[t] = "register"
    /\ subscriptions' = IF FreeSlots = {} THEN subscriptions
                        ELSE [subscriptions EXCEPT ![FirstOf(FreeSlots)] = wanted[t]]
    /\ lock' = NoThread
    /\ cpc' = [cpc EXCEPT ![t] = "idle"]
    /\ wanted' = [wanted EXCEPT ![t] = NoEntry]
    /\ UNCHANGED <<phase, qvars, dpc, msg, snapshot, history>>

-----------------------------------------------------------------------------
(* ep_event_publish: a send on the queue with the caller's timeout.        *)

SlotsFor(e) == {s \in Slots : subscriptions[s] = e}
Sending(t) == Q!Active(t) /\ qcall[t].op = "send"

Publish(t, e, timed) ==
    /\ phase = "started"
    /\ CanCall(t)
    /\ attempted < MaxPublish
    /\ attempted' = attempted + 1
    /\ Q!Start(t)
    /\ qcall'[t] = [op |-> "send", timed |-> timed,
                    item |-> [event |-> e, serial |-> attempted + 1]]
    /\ UNCHANGED <<phase, subscriptions, lock, cpc, wanted, dpc, msg, snapshot,
                   published, subscribed, audience, ran>>

PublishAccepted(t) ==
    /\ Sending(t)
    /\ Q!Put(t)
    /\ LET m == qcall[t].item
       IN  /\ published' = Append(published, m)
           /\ audience' = [audience EXCEPT ![m.serial] = SlotsFor(m.event)]
    /\ UNCHANGED <<phase, subscriptions, lock, cpc, wanted, dpc, msg, snapshot,
                   attempted, subscribed, ran>>

\* The queue is full: wait for room, or return EP_ERR_TIMEOUT.
PublishWaits(t) == /\ Sending(t)
                   /\ Q!Wait(t)
                   /\ UNCHANGED <<phase, subscriptions, lock, cpc, wanted, dpc, msg,
                                  snapshot, history>>

PublishTimesOut(t) == /\ Sending(t)
                      /\ Q!GiveUp(t)
                      /\ UNCHANGED <<phase, subscriptions, lock, cpc, wanted, dpc, msg,
                                     snapshot, history>>

-----------------------------------------------------------------------------
(* ep_event_dispatch_loop.                                                 *)

DispatchCallsRecv == /\ dpc = "recv"
                     /\ Q!Start(Dispatcher)
                     /\ qcall'[Dispatcher] = [op |-> "recv", item |-> NoMessage, timed |-> TRUE]
                     /\ dpc' = "receiving"
                     /\ UNCHANGED <<phase, subscriptions, lock, cpc, wanted, msg,
                                    snapshot, history>>

DispatchReceives == /\ dpc = "receiving"
                    /\ Q!Take(Dispatcher)
                    /\ msg' = Head(queue)
                    /\ dpc' = "lock"
                    /\ UNCHANGED <<phase, subscriptions, lock, cpc, wanted, snapshot,
                                   history>>

DispatchWaits == /\ dpc = "receiving"
                 /\ Q!Wait(Dispatcher)
                 /\ UNCHANGED <<phase, subscriptions, lock, cpc, wanted, dpc, msg,
                                snapshot, history>>

\* Mutant: the loop ends when the receive times out.
DispatchGivesUp == /\ dpc = "receiving"
                   /\ Q!GiveUp(Dispatcher)
                   /\ dpc' = "unborn"
                   /\ UNCHANGED <<phase, subscriptions, lock, cpc, wanted, msg,
                                  snapshot, history>>

\* After 1000 ms without a message the loop starts over.
DispatchTimesOut == /\ dpc = "receiving"
                    /\ Q!GiveUp(Dispatcher)
                    /\ dpc' = "recv"
                    /\ UNCHANGED <<phase, subscriptions, lock, cpc, wanted, msg,
                                   snapshot, history>>

DispatchLocks == /\ dpc = "lock"
                 /\ lock = NoThread
                 /\ lock' = Dispatcher
                 /\ dpc' = "snapshot"
                 /\ UNCHANGED <<phase, subscriptions, cpc, wanted, qvars, msg, snapshot,
                                history>>

\* Mutant: the handlers are called with the lock held.
DispatchKeepsLock == /\ dpc = "snapshot"
                     /\ snapshot' = SlotsFor(msg.event)
                     /\ dpc' = "calling"
                     /\ UNCHANGED <<phase, subscriptions, lock, cpc, wanted, qvars, msg, history>>

\* Mutant: the copy stops one slot early.
DispatchMissesLast == /\ dpc = "snapshot"
                      /\ snapshot' = SlotsFor(msg.event) \ {MaxHandlers}
                      /\ lock' = NoThread
                      /\ dpc' = "calling"
                      /\ UNCHANGED <<phase, subscriptions, cpc, wanted, qvars, msg, history>>

\* Copy the matching subscriptions and release the lock.
DispatchSnapshots == /\ dpc = "snapshot"
                     /\ snapshot' = SlotsFor(msg.event)
                     /\ lock' = NoThread
                     /\ dpc' = "calling"
                     /\ UNCHANGED <<phase, subscriptions, cpc, wanted, qvars, msg, history>>

\* Mutant: a handler is called and not taken off the copy.
DispatchRepeats == /\ dpc = "calling"
                   /\ snapshot # {}
                   /\ ran' = Append(ran, <<msg.serial, FirstOf(snapshot)>>)
                   /\ dpc' = "handler"
                   /\ UNCHANGED <<phase, subscriptions, lock, cpc, wanted, qvars, msg, snapshot,
                                  published, attempted, subscribed, audience>>

\* The handlers are called in the order of their slots.
DispatchCalls == /\ dpc = "calling"
                 /\ snapshot # {}
                 /\ ran' = Append(ran, <<msg.serial, FirstOf(snapshot)>>)
                 /\ snapshot' = snapshot \ {FirstOf(snapshot)}
                 /\ dpc' = "handler"
                 /\ UNCHANGED <<phase, subscriptions, lock, cpc, wanted, qvars, msg,
                                published, attempted, subscribed, audience>>

HandlerReturns == /\ dpc = "handler"
                  /\ CanCall(Dispatcher)
                  /\ dpc' = "calling"
                  /\ UNCHANGED <<phase, subscriptions, lock, cpc, wanted, qvars, msg,
                                 snapshot, history>>

DispatchNext == /\ dpc = "calling"
                /\ snapshot = {}
                /\ msg' = NoMessage
                /\ dpc' = "recv"
                /\ UNCHANGED <<phase, subscriptions, lock, cpc, wanted, qvars, snapshot,
                               history>>

-----------------------------------------------------------------------------
InitStep == InitResources \/ InitThreadFails \/ InitThread \/ InitStarted

\* A call under way moves on.
Proceed(t) == \/ SubscribeLock(t) \/ SubscribeRegister(t)
              \/ PublishAccepted(t) \/ PublishWaits(t) \/ PublishTimesOut(t)

Dispatch == \/ DispatchCallsRecv \/ DispatchReceives \/ DispatchWaits \/ DispatchTimesOut
            \/ DispatchLocks \/ DispatchSnapshots \/ DispatchCalls
            \/ HandlerReturns \/ DispatchNext

Next == \/ InitStep
        \/ \E t \in Threads : \/ Proceed(t)
                              \/ \E e \in Events : \/ Subscribe(t, e)
                                                   \/ Publish(t, e, TRUE)
                                                   \/ Publish(t, e, FALSE)
        \/ Dispatch

Spec == Init /\ [][Next]_vars

\* Threads inside a call are scheduled, and handlers return.
FairSpec == /\ Spec
            /\ WF_vars(Dispatch)
            /\ \A t \in Threads : WF_vars(Proceed(t))

-----------------------------------------------------------------------------
TypeOK == /\ phase \in {"down", "created", "running", "started"}
          /\ subscriptions \in [Slots -> Events \cup {NoEntry}]
          /\ lock \in Threads \cup {NoThread}
          /\ cpc \in [Threads -> {"idle", "lock", "register"}]
          /\ wanted \in [Threads -> Events \cup {NoEntry}]
          /\ queue \in Seq(Messages) /\ Len(queue) <= QueueDepth
          /\ qstatus \in [Threads -> {"ok", "timeout", "busy", "waiting"}]
          /\ dpc \in {"unborn", "recv", "receiving", "lock", "snapshot", "calling", "handler"}
          /\ msg \in Messages \cup {NoMessage}
          /\ snapshot \subseteq Slots
          /\ published \in Seq(Messages)
          /\ attempted \in 0..MaxPublish
          /\ subscribed \in 0..MaxSubscribe
          /\ audience \in [Serials -> SUBSET Slots]
          /\ ran \in Seq(Serials \X Slots)

\* g_event_lock protects the table: its holder is the one thread in a section
\* that reads or writes the subscriptions, and the dispatcher has given it up
\* when it calls a handler (handlers subscribe, and the mutex is not recursive).
InSection(t) == \/ cpc[t] = "register"
                \/ t = Dispatcher /\ dpc = "snapshot"
LockDiscipline == \A t \in Threads : InSection(t) <=> lock = t

\* Used slots form a prefix of the table, so that the scan for a free slot
\* keeps the order of registration.
TableIsPrefix == \A r, s \in Slots :
    r < s /\ subscriptions[s] # NoEntry => subscriptions[r] # NoEntry

Position(n) == CHOOSE i \in DOMAIN published : published[i].serial = n

\* Messages are dispatched in the order the queue accepted them, each handler
\* at most once per message, and in the order of registration.
RanInOrder == \A i, j \in DOMAIN ran : i < j =>
    \/ Position(ran[i][1]) < Position(ran[j][1])
    \/ ran[i][1] = ran[j][1] /\ ran[i][2] < ran[j][2]

RanFor(n) == {ran[i][2] : i \in {k \in DOMAIN ran : ran[k][1] = n}}
Queued == {queue[i].serial : i \in DOMAIN queue}
Finished(n) == /\ \E i \in DOMAIN published : published[i].serial = n
               /\ n \notin Queued
               /\ msg = NoMessage \/ msg.serial # n

\* When the dispatcher is done with a message, every handler that was
\* subscribed to its event when the message was accepted has run, and no
\* handler of another event has.
SubscribersCalled == \A n \in Serials : Finished(n) =>
    /\ audience[n] \subseteq RanFor(n)
    /\ \A s \in RanFor(n) : subscriptions[s] = published[Position(n)].event

\* A subscription once made is never overwritten or moved.
SubscriptionsStable ==
    [][\A s \in Slots : subscriptions[s] # NoEntry => subscriptions'[s] = subscriptions[s]]_vars

\* Every accepted message is dispatched to the end, even when handlers publish
\* into the full queue they are draining.
EveryMessageDispatched ==
    \A n \in Serials : n \in Queued ~> Finished(n)

\* Subscribing from a handler, or while the dispatcher is busy, never blocks
\* for ever.
SubscribeReturns == \A t \in Threads : cpc[t] = "lock" ~> cpc[t] = "idle"
=============================================================================
