------------------------------ MODULE OsalQueue ------------------------------
(***************************************************************************)
(* The host message queue (ep_host_osal_queue.c): a ring buffer, a mutex   *)
(* and one condition variable per direction.  Everything between the       *)
(* pthread_mutex_lock and the pthread_mutex_unlock (or the release inside  *)
(* pthread_cond_timedwait) of a call touches only what the mutex protects, *)
(* so it is one step; what interleaves is the order in which the calls,    *)
(* the wake-ups and the timeouts obtain the mutex.                         *)
(*                                                                         *)
(* POSIX lets a timed wait that runs out of time absorb a signal sent at   *)
(* the same moment.  Whether the platform's condition variables do so is   *)
(* the constant TimeoutAbsorbsSignal.                                      *)
(***************************************************************************)
EXTENDS Naturals, FiniteSets

CONSTANTS Threads, Items, Depth, NoItem,
          TimeoutAbsorbsSignal   \* BOOLEAN, see above

ASSUME QueueAssumption == /\ IsFiniteSet(Threads)
                          /\ Depth \in Nat \ {0}     \* ep_queue_create: 121-123
                          /\ NoItem \notin Items
                          /\ TimeoutAbsorbsSignal \in BOOLEAN

VARIABLES buffer,     \* slot -> item last copied into it
          head, tail, count,
          pc,         \* thread -> where its call is (see PCs)
          call,       \* thread -> operation, item, and whether timeout_ms > 0
          deadline    \* thread -> has the deadline of its wait "passed", or is it "ahead"

ring == <<buffer, head, tail, count>>
vars == <<buffer, head, tail, count, pc, call, deadline>>

Returned == {"ok", "timeout"}       \* EP_OK, EP_ERR_TIMEOUT: not in a call
\* enter: about to lock; wait: asleep in timedwait; woken: timedwait is about
\* to return 0; late: timedwait is about to return ETIMEDOUT.
PCs == Returned \cup {"enter", "wait", "woken", "late"}

Calls == [op : {"send"}, item : Items, timed : BOOLEAN]
           \cup [op : {"recv"}, item : {NoItem}, timed : BOOLEAN]

Init == /\ buffer = [i \in 0..(Depth - 1) |-> NoItem]
        /\ head = 0
        /\ tail = 0
        /\ count = 0
        /\ pc = [t \in Threads |-> "ok"]
        /\ call = [t \in Threads |-> [op |-> "recv", item |-> NoItem, timed |-> FALSE]]
        /\ deadline = [t \in Threads |-> "ahead"]

-----------------------------------------------------------------------------
\* The loop conditions at 180 and 237.
Blocked(t) == IF call[t].op = "send" THEN count = Depth ELSE count = 0

\* Threads asleep on not_empty (op = "recv") or on not_full (op = "send").
Waiting(op) == {t \in Threads : pc[t] = "wait" /\ call[t].op = op}
Woken(op)   == {t \in Threads : pc[t] = "woken" /\ call[t].op = op}

\* Mutant: signal only when the queue leaves the empty or the full state.
SignalOnEdge(t, op) ==
    IF Waiting(op) = {} \/ count \notin {0, Depth}
    THEN pc' = [pc EXCEPT ![t] = "ok"]
    ELSE \E u \in Waiting(op) : pc' = [pc EXCEPT ![t] = "ok", ![u] = "woken"]

\* Mutant: one condition variable for both directions.
SignalAnySleeper(t, op) ==
    IF Waiting("recv") \cup Waiting("send") = {}
    THEN pc' = [pc EXCEPT ![t] = "ok"]
    ELSE \E u \in Waiting("recv") \cup Waiting("send") :
            pc' = [pc EXCEPT ![t] = "ok", ![u] = "woken"]

\* pthread_cond_signal by t, which also returns: one sleeper of the given
\* direction, if there is one, is released.
ReturnSignalling(t, op) ==
    IF Waiting(op) = {}
    THEN pc' = [pc EXCEPT ![t] = "ok"]
    ELSE \E u \in Waiting(op) : pc' = [pc EXCEPT ![t] = "ok", ![u] = "woken"]

\* Mutant: the item is copied to the slot of the other index.
StoreAtHead(t) == /\ call[t].op = "send"
                  /\ buffer' = [buffer EXCEPT ![head] = call[t].item]
                  /\ tail' = (tail + 1) % Depth
                  /\ count' = count + 1
                  /\ ReturnSignalling(t, "recv")
                  /\ deadline' = [deadline EXCEPT ![t] = "ahead"]
                  /\ UNCHANGED <<head, call>>

Store(t) == /\ call[t].op = "send"
            /\ buffer' = [buffer EXCEPT ![tail] = call[t].item]
            /\ tail' = (tail + 1) % Depth
            /\ count' = count + 1
            /\ ReturnSignalling(t, "recv")
            /\ deadline' = [deadline EXCEPT ![t] = "ahead"]
            /\ UNCHANGED <<head, call>>

\* Mutant: the item is read before the index moves, but from the next slot.
FetchNextSlot(t) == /\ call[t].op = "recv"
                    /\ call' = [call EXCEPT ![t].item = buffer[(head + 1) % Depth]]
                    /\ head' = (head + 1) % Depth
                    /\ count' = count - 1
                    /\ ReturnSignalling(t, "send")
                    /\ deadline' = [deadline EXCEPT ![t] = "ahead"]
                    /\ UNCHANGED <<buffer, tail>>

Fetch(t) == /\ call[t].op = "recv"
            /\ call' = [call EXCEPT ![t].item = buffer[head]]
            /\ head' = (head + 1) % Depth
            /\ count' = count - 1
            /\ ReturnSignalling(t, "send")
            /\ deadline' = [deadline EXCEPT ![t] = "ahead"]
            /\ UNCHANGED <<buffer, tail>>

\* Past the loop: copy, move the index, count, signal, unlock, EP_OK.
Complete(t) == ~Blocked(t) /\ (Store(t) \/ Fetch(t))

-----------------------------------------------------------------------------
\* A thread calls ep_queue_send or ep_queue_recv with any arguments.
Start(t) == /\ pc[t] \in Returned
            /\ \E c \in Calls : call' = [call EXCEPT ![t] = c]
            /\ pc' = [pc EXCEPT ![t] = "enter"]
            /\ UNCHANGED <<ring, deadline>>

\* First passage through the critical section.
EnterAndComplete(t) == pc[t] = "enter" /\ Complete(t)

\* Mutant: timeout_ms is not looked at.
EnterAndGiveUp(t) == /\ pc[t] = "enter"
                     /\ Blocked(t)
                     /\ pc' = [pc EXCEPT ![t] = "timeout"]
                     /\ UNCHANGED <<ring, call, deadline>>

EnterAndFail(t) == /\ pc[t] = "enter"
                   /\ Blocked(t)
                   /\ ~call[t].timed
                   /\ pc' = [pc EXCEPT ![t] = "timeout"]
                   /\ UNCHANGED <<ring, call, deadline>>

\* The deadline is computed once, here, and the thread starts to wait.
EnterAndWait(t) == /\ pc[t] = "enter"
                   /\ Blocked(t)
                   /\ call[t].timed
                   /\ pc' = [pc EXCEPT ![t] = "wait"]
                   /\ UNCHANGED <<ring, call, deadline>>

\* The clock reaches the deadline of a call that has one.
DeadlinePasses(t) == /\ pc[t] \in {"wait", "woken"}
                     /\ deadline[t] = "ahead"
                     /\ deadline' = [deadline EXCEPT ![t] = "passed"]
                     /\ UNCHANGED <<ring, pc, call>>

\* pthread_cond_timedwait gives up on a thread still asleep.
WaitExpires(t) == /\ pc[t] = "wait"
                  /\ deadline[t] = "passed"
                  /\ pc' = [pc EXCEPT ![t] = "late"]
                  /\ UNCHANGED <<ring, call, deadline>>

\* A spurious wake-up.
WakeSpuriously(t) == /\ pc[t] = "wait"
                     /\ pc' = [pc EXCEPT ![t] = "woken"]
                     /\ UNCHANGED <<ring, call, deadline>>

\* A signalled thread whose deadline passes before it is back in the mutex
\* may still be told ETIMEDOUT, where the platform allows it.
SignalAbsorbed(t) == /\ TimeoutAbsorbsSignal
                     /\ pc[t] = "woken"
                     /\ deadline[t] = "passed"
                     /\ pc' = [pc EXCEPT ![t] = "late"]
                     /\ UNCHANGED <<ring, call, deadline>>

\* timedwait returned 0 with the mutex held: the loop tests again.
WokenAndComplete(t) == pc[t] = "woken" /\ Complete(t)

\* Mutant: the deadline is computed anew after every wake-up.
WokenAndRearm(t) == /\ pc[t] = "woken"
                    /\ Blocked(t)
                    /\ pc' = [pc EXCEPT ![t] = "wait"]
                    /\ deadline' = [deadline EXCEPT ![t] = "ahead"]
                    /\ UNCHANGED <<ring, call>>

\* Still blocked: wait again for the same deadline; if that has passed the
\* wait ends at once with ETIMEDOUT.
WokenAndWait(t) == /\ pc[t] = "woken"
                   /\ Blocked(t)
                   /\ pc' = [pc EXCEPT ![t] = IF deadline[t] = "passed" THEN "late" ELSE "wait"]
                   /\ UNCHANGED <<ring, call, deadline>>

\* timedwait returned ETIMEDOUT with the mutex held: EP_ERR_TIMEOUT, whatever
\* the queue holds by now.
ReturnTimeout(t) == /\ pc[t] = "late"
                    /\ pc' = [pc EXCEPT ![t] = "timeout"]
                    /\ deadline' = [deadline EXCEPT ![t] = "ahead"]
                    /\ UNCHANGED <<ring, call>>

\* The steps that carry a call to its return once it has started.
Proceed(t) == \/ EnterAndComplete(t) \/ EnterAndFail(t) \/ EnterAndWait(t)
              \/ WaitExpires(t)
              \/ WokenAndComplete(t) \/ WokenAndWait(t)
              \/ ReturnTimeout(t)

Next == \E t \in Threads : \/ Start(t) \/ Proceed(t)
                           \/ DeadlinePasses(t)
                           \/ WakeSpuriously(t) \/ SignalAbsorbed(t)

Spec == Init /\ [][Next]_vars

\* The scheduler runs every thread that can run, and time passes.
FairSpec == /\ Spec
            /\ \A t \in Threads : WF_vars(Proceed(t)) /\ WF_vars(DeadlinePasses(t))

-----------------------------------------------------------------------------
TypeOK == /\ buffer \in [0..(Depth - 1) -> Items \cup {NoItem}]
          /\ head \in 0..(Depth - 1)
          /\ tail \in 0..(Depth - 1)
          /\ count \in 0..Depth
          /\ pc \in [Threads -> PCs]
          /\ call \in [Threads -> [op : {"send"}, item : Items, timed : BOOLEAN]
                                   \cup [op : {"recv"}, item : Items \cup {NoItem}, timed : BOOLEAN]]
          /\ deadline \in [Threads -> {"ahead", "passed"}]

\* The three indices of the ring describe the same contents, and every slot
\* counted as full holds an item some sender copied there: the memcpy, the
\* index and the count of a call are never out of step, whatever interleaves.
Occupied == {(head + i) % Depth : i \in 0..(count - 1)}
RingConsistent == /\ tail = (head + count) % Depth
                  /\ \A s \in 0..(Depth - 1) : s \in Occupied => buffer[s] \in Items

\* No lost wake-up on not_empty: while some receiver sleeps, every item in the
\* queue is matched by a receiver already woken and on its way to the mutex.
\* One pthread_cond_signal per send (line 201) is enough even when other
\* receivers arrive first and take the item.
NoLostReceiver == Waiting("recv") # {} => count <= Cardinality(Woken("recv"))

\* The mirror property of not_full and the signal at line 258.
NoLostSender == Waiting("send") # {} => Depth - count <= Cardinality(Woken("send"))

\* What the queue design says of ETIMEDOUT (docs/superpowers/specs/
\* 2026-05-30-host-osal-queue-design.md:156 and 171): a call returns
\* EP_ERR_TIMEOUT only if there is still no room, or no data, at the deadline.
TimeoutOnlyWhenBlocked ==
    [][\A t \in Threads : pc'[t] = "timeout" /\ pc[t] # "timeout" => Blocked(t)]_vars

\* Every call returns: the deadline bounds the wait even if no thread ever
\* uses the other end of the queue again.
EveryCallReturns == \A t \in Threads : pc[t] \notin Returned ~> pc[t] \in Returned

-----------------------------------------------------------------------------
(* Refinement: the occupied slots, oldest first, are the abstract FIFO. *)
Contents == [i \in 1..count |-> buffer[(head + i - 1) % Depth]]

Fifo == INSTANCE BoundedFifo WITH
          fifo <- Contents,
          status <- [t \in Threads |-> CASE pc[t] \in Returned -> pc[t]
                                         [] pc[t] = "enter"     -> "busy"
                                         [] OTHER               -> "waiting"]

\* The ring buffer implements the bounded FIFO: no item is lost, duplicated or
\* overtaken, and a call that finds the queue ready does not fail.
ImplementsFifo == Fifo!Spec

\* It also implements the promise that every call returns.
ImplementsFairFifo == Fifo!FairSpec
=============================================================================
