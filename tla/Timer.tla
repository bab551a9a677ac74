------------------------------- MODULE Timer -------------------------------
(***************************************************************************)
(* The one-shot timer service (components/timer/src/ep_timer.c).  Callers  *)
(* start, restart and stop timers in a fixed table; one thread scans the   *)
(* table every ScanPeriod ticks, takes the expired entries out of it and,  *)
(* with g_timer_lock released, publishes their events without waiting.     *)
(*                                                                         *)
(* Every section under g_timer_lock is one step.  What is read outside the *)
(* lock is kept apart: a caller computes its deadline before it has the    *)
(* lock, and the scanner reads the clock before it has the lock.           *)
(*                                                                         *)
(* Each call of ep_timer_start is an arming with a number of its own (the  *)
(* code has none); fate says what became of it.                            *)
(***************************************************************************)
EXTENDS Naturals

CONSTANTS Callers,     \* threads that start and stop timers
          TimerIds, Events,
          MaxTimers,   \* EP_TIMER_MAX_TIMERS
          ScanPeriod,  \* EP_TIMER_SCAN_PERIOD_MS, in ticks of the clock
          Timeouts,    \* values of timeout_ms, in ticks
          NoTimer,
          MaxTime,     \* bound of the clock; a sleep is cut short there
          MaxArmings   \* bound on the start calls of a behaviour

ASSUME TimerAssumption == /\ MaxTimers \in Nat \ {0}
                          /\ ScanPeriod \in Nat \ {0}
                          /\ Timeouts \subseteq Nat
                          /\ MaxTime \in Nat
                          /\ MaxArmings \in Nat
                          /\ NoTimer \notin TimerIds
                          /\ Events # {}

Slots == 1..MaxTimers
Armings == 1..MaxArmings

VARIABLES now,       \* ep_time_now_ms
          started,   \* g_timer_started
          timers,    \* slot -> entry; an inactive one has id NoTimer
          request,   \* caller -> the start under way, its deadline computed
          spc,       \* where the scan loop is
          wakeAt,    \* when the scanner's sleep ends
          scanNow,   \* now_ms read by the scanner for this round
          expired    \* slot -> entry taken out of it in this round and not published yet

\* History.
VARIABLES armed,     \* number of start calls so far
          due,       \* arming -> call time plus timeout
          fate       \* arming -> what became of it

service == <<started, timers, request, spc, wakeAt, scanNow, expired>>
history == <<armed, due, fate>>
vars == <<now, service, history>>

Inactive == [id |-> NoTimer, event |-> CHOOSE e \in Events : TRUE, deadline |-> 0, arming |-> 0]

IsActive(s) == timers[s].id # NoTimer

Init == /\ now = 0
        /\ started = FALSE
        /\ timers = [s \in Slots |-> Inactive]
        /\ request = [t \in Callers |-> Inactive]
        /\ spc = "unborn"
        /\ wakeAt = 0
        /\ scanNow = 0
        /\ expired = [s \in Slots |-> Inactive]
        /\ armed = 0
        /\ due = [a \in Armings |-> 0]
        /\ fate = [a \in Armings |-> "unused"]

-----------------------------------------------------------------------------
Tick == /\ now < MaxTime
        /\ now' = now + 1
        /\ UNCHANGED <<service, history>>

\* ep_timer_init creates the lock and the thread ...
InitThread == /\ spc = "unborn"
              /\ spc' = "loop"
              /\ UNCHANGED <<now, started, timers, request, wakeAt, scanNow, expired, history>>

\* ... and then lets the callers in.
InitStarted == /\ spc # "unborn"
               /\ ~started
               /\ started' = TRUE
               /\ UNCHANGED <<now, timers, request, spc, wakeAt, scanNow, expired, history>>

-----------------------------------------------------------------------------
\* ep_timer_start up to the lock: the deadline is computed.  (Deadlines past
\* MaxTime, the bound of the clock, are left out.)
StartCall(t, id, timeout, e) ==
    /\ started
    /\ request[t] = Inactive
    /\ now + timeout <= MaxTime
    /\ armed < MaxArmings
    /\ LET a == armed + 1
       IN  /\ armed' = a
           /\ request' = [request EXCEPT ![t] = [id |-> id, event |-> e,
                                                deadline |-> now + timeout, arming |-> a]]
           /\ due' = [due EXCEPT ![a] = now + timeout]
           /\ fate' = [fate EXCEPT ![a] = "calling"]
    /\ UNCHANGED <<now, started, timers, spc, wakeAt, scanNow, expired>>

SlotOf(id) == {s \in Slots : timers[s].id = id}
FreeSlots == {s \in Slots : ~IsActive(s)}
FirstOf(S) == CHOOSE s \in S : \A r \in S : s <= r

EndRequest(t) == /\ request' = [request EXCEPT ![t] = Inactive]
                 /\ UNCHANGED <<now, started, spc, wakeAt, scanNow, expired, armed, due>>

\* The section under the lock, for an id that is active: restart in place.
StartRestarts(t) ==
    /\ request[t] # Inactive
    /\ \E s \in SlotOf(request[t].id) :
          /\ timers' = [timers EXCEPT ![s] = request[t]]
          /\ fate' = [fate EXCEPT ![timers[s].arming] = "replaced",
                                  ![request[t].arming] = "armed"]
    /\ EndRequest(t)

\* Mutant: the first free slot is taken without looking for the id further on.
StartInsertsBlindly(t) ==
    /\ request[t] # Inactive
    /\ FreeSlots # {}
    /\ timers' = [timers EXCEPT ![FirstOf(FreeSlots)] = request[t]]
    /\ fate' = [fate EXCEPT ![request[t].arming] = "armed"]
    /\ EndRequest(t)

\* For an id that is not: the first free slot.
StartInserts(t) ==
    /\ request[t] # Inactive
    /\ SlotOf(request[t].id) = {}
    /\ FreeSlots # {}
    /\ timers' = [timers EXCEPT ![FirstOf(FreeSlots)] = request[t]]
    /\ fate' = [fate EXCEPT ![request[t].arming] = "armed"]
    /\ EndRequest(t)

\* No slot is free: EP_ERR_BUSY.
StartBusy(t) == /\ request[t] # Inactive
                /\ SlotOf(request[t].id) = {}
                /\ FreeSlots = {}
                /\ fate' = [fate EXCEPT ![request[t].arming] = "refused"]
                /\ EndRequest(t)
                /\ UNCHANGED timers

\* Mutant: the entry stays active.
StopWithoutEffect(t, id) ==
    /\ started
    /\ request[t] = Inactive
    /\ \E s \in SlotOf(id) : fate' = [fate EXCEPT ![timers[s].arming] = "stopped"]
    /\ UNCHANGED <<now, started, timers, request, spc, wakeAt, scanNow, expired, armed, due>>

\* ep_timer_stop of an active timer; of any other it returns EP_ERR_INVAL and
\* changes nothing.
Stop(t, id) == /\ started
               /\ request[t] = Inactive
               /\ \E s \in SlotOf(id) :
                     /\ timers' = [timers EXCEPT ![s] = Inactive]
                     /\ fate' = [fate EXCEPT ![timers[s].arming] = "stopped"]
               /\ UNCHANGED <<now, started, request, spc, wakeAt, scanNow, expired, armed, due>>

-----------------------------------------------------------------------------
SleepEnd == IF now + ScanPeriod < MaxTime THEN now + ScanPeriod ELSE MaxTime

ScanSleeps == /\ spc = "loop"
              /\ wakeAt' = SleepEnd
              /\ spc' = "sleep"
              /\ UNCHANGED <<now, started, timers, request, scanNow, expired, history>>

\* The clock is read before the lock is requested.
ScanReadsClock == /\ spc = "sleep"
                  /\ now >= wakeAt
                  /\ scanNow' = now
                  /\ spc' = "scan"
                  /\ UNCHANGED <<now, started, timers, request, wakeAt, expired, history>>

\* Mutant: whatever is due before the next round expires in this one.
ExpiringThisRound == {s \in Slots : IsActive(s) /\ timers[s].deadline <= scanNow + ScanPeriod}

\* Mutant: only an entry that is due right now expires.
ExpiringExactly == {s \in Slots : IsActive(s) /\ timers[s].deadline = scanNow}

Expiring == {s \in Slots : IsActive(s) /\ timers[s].deadline <= scanNow}

\* The entries of the slots in S, out of the table.
TakenFrom(S) == [s \in Slots |-> IF s \in S THEN timers[s] ELSE Inactive]

\* Mutant: an expired entry stays active.
ScanKeepsEntries == /\ spc = "scan"
                    /\ expired' = TakenFrom(Expiring)
                    /\ fate' = [a \in Armings |-> IF \E s \in Expiring : timers[s].arming = a
                                                  THEN "expired" ELSE fate[a]]
                    /\ spc' = "publish"
                    /\ UNCHANGED <<now, started, timers, request, wakeAt, scanNow, armed, due>>

\* Under the lock, take every expired entry out of the table.
ScanCollects == /\ spc = "scan"
                /\ expired' = TakenFrom(Expiring)
                /\ timers' = [s \in Slots |-> IF s \in Expiring THEN Inactive ELSE timers[s]]
                /\ fate' = [a \in Armings |-> IF \E s \in Expiring : timers[s].arming = a
                                              THEN "expired" ELSE fate[a]]
                /\ spc' = "publish"
                /\ UNCHANGED <<now, started, request, wakeAt, scanNow, armed, due>>

\* The batch is published in the order of the slots.
Pending == {s \in Slots : expired[s] # Inactive}
NextExpired == expired[FirstOf(Pending)]

\* ep_event_publish with timeout 0.  The result is ignored, so an event the
\* bus does not take is dropped.
ScanPublishes(accepted) ==
    /\ spc = "publish"
    /\ Pending # {}
    /\ fate' = [fate EXCEPT ![NextExpired.arming] = IF accepted THEN "published" ELSE "dropped"]
    /\ expired' = [expired EXCEPT ![FirstOf(Pending)] = Inactive]
    /\ UNCHANGED <<now, started, timers, request, spc, wakeAt, scanNow, armed, due>>

ScanRoundEnds == /\ spc = "publish"
                 /\ Pending = {}
                 /\ spc' = "loop"
                 /\ UNCHANGED <<now, started, timers, request, wakeAt, scanNow, expired, history>>

-----------------------------------------------------------------------------
Request(t) == StartRestarts(t) \/ StartInserts(t) \/ StartBusy(t)

Call(t) == \E id \in TimerIds : \/ Stop(t, id)
                                \/ \E d \in Timeouts, e \in Events : StartCall(t, id, d, e)

Scan == \/ ScanSleeps \/ ScanReadsClock \/ ScanCollects \/ ScanRoundEnds
        \/ ScanPublishes(TRUE) \/ ScanPublishes(FALSE)

Next == \/ Tick
        \/ InitThread \/ InitStarted
        \/ \E t \in Callers : Call(t) \/ Request(t)
        \/ Scan

Spec == Init /\ [][Next]_vars

\* Time passes and the timer thread is scheduled.
FairSpec == Spec /\ WF_vars(Tick) /\ WF_vars(Scan)

-----------------------------------------------------------------------------
Fates == {"unused", "calling", "refused", "armed", "replaced", "stopped", "expired", "published", "dropped"}
Entries == [id : TimerIds \cup {NoTimer}, event : Events, deadline : Nat, arming : 0..MaxArmings]

TypeOK == /\ now \in 0..MaxTime
          /\ started \in BOOLEAN
          /\ timers \in [Slots -> Entries]
          /\ request \in [Callers -> Entries]
          /\ spc \in {"unborn", "loop", "sleep", "scan", "publish"}
          /\ wakeAt \in 0..MaxTime
          /\ scanNow \in 0..MaxTime
          /\ expired \in [Slots -> Entries]
          /\ armed \in 0..MaxArmings
          /\ due \in [Armings -> Nat]
          /\ fate \in [Armings -> Fates]

\* A timer id has at most one active entry: concurrent starts of the same id
\* end up in one slot, whatever slots have become free in the meantime.
OneEntryPerId == \A r, s \in Slots :
    IsActive(r) /\ IsActive(s) /\ timers[r].id = timers[s].id => r = s

\* Every arming is accounted for: while its call is under way it is in that
\* call only, while it is armed in one slot of the table, when it has expired
\* once in the scanner's batch, and afterwards nowhere; so nothing is published
\* twice, and nothing is lost between the table and the batch.
OneOf(table, a) == \E i \in DOMAIN table : /\ table[i].arming = a
                                           /\ \A j \in DOMAIN table \ {i} : table[j].arming # a
Accounting ==
    /\ \A a \in Armings : /\ fate[a] = "calling" => OneOf(request, a)
                          /\ fate[a] = "armed"   => OneOf(timers, a)
                          /\ fate[a] = "expired" => OneOf(expired, a)
    /\ \A t \in Callers : request[t] # Inactive => fate[request[t].arming] = "calling"
    /\ \A s \in Slots : timers[s] # Inactive => fate[timers[s].arming] = "armed"
    /\ \A s \in Slots : expired[s] # Inactive => fate[expired[s].arming] = "expired"

\* No event is published before the time its caller asked for, although both
\* the deadline and the scanner's clock are read outside the lock.
NeverEarly == \A a \in Armings : fate[a] \in {"expired", "published", "dropped"} => due[a] <= now

\* A stop that returned EP_OK, and a restart, silence the old arming for good.
SilencedForGood ==
    [][\A a \in Armings : fate[a] \in {"refused", "stopped", "replaced", "published", "dropped"}
          => fate'[a] = fate[a]]_vars

\* A one-shot timer does not stay in the table: it expires unless it is
\* stopped or replaced first.
ArmedResolves == \A a \in Armings : fate[a] = "armed" ~> fate[a] \notin {"armed", "expired"}
=============================================================================
