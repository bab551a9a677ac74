----------------------------- MODULE BoundedFifo -----------------------------
(***************************************************************************)
(* What the OSAL queue promises its callers (osal/include/ep_osal_queue.h):*)
(* a FIFO of at most Depth items shared by any number of threads.  A call  *)
(* takes effect at one instant between its start and its return, or gives  *)
(* up without any effect.  OsalQueue is shown to implement this module,    *)
(* and EventTimer uses the queue at this level.                            *)
(***************************************************************************)
EXTENDS Naturals, Sequences

CONSTANTS Threads,  \* threads that may call the queue, each in either role
          Items,    \* values of the fixed-size message
          Depth,    \* capacity given to ep_queue_create
          NoItem    \* content of an output buffer not written yet

VARIABLES fifo,     \* the messages accepted and not yet received, oldest first
          status,   \* thread -> "busy" or "waiting" inside a call, else the
                    \* result of its last call
          call      \* thread -> its current (or last) call

vars == <<fifo, status, call>>

Calls == [op : {"send"}, item : Items, timed : BOOLEAN]
           \cup [op : {"recv"}, item : {NoItem}, timed : BOOLEAN]

Init == /\ fifo = <<>>
        /\ status = [t \in Threads |-> "ok"]
        /\ call = [t \in Threads |-> [op |-> "recv", item |-> NoItem, timed |-> FALSE]]

\* A send is blocked by a full queue, a receive by an empty one.
Blocked(t) == IF call[t].op = "send" THEN Len(fifo) = Depth ELSE fifo = <<>>

Start(t) == /\ status[t] \in {"ok", "timeout"}
            /\ \E c \in Calls : call' = [call EXCEPT ![t] = c]
            /\ status' = [status EXCEPT ![t] = "busy"]
            /\ UNCHANGED fifo

Active(t) == status[t] \in {"busy", "waiting"}

Put(t) == /\ Active(t)
          /\ call[t].op = "send"
          /\ ~Blocked(t)
          /\ fifo' = Append(fifo, call[t].item)
          /\ status' = [status EXCEPT ![t] = "ok"]
          /\ UNCHANGED call

Take(t) == /\ Active(t)
           /\ call[t].op = "recv"
           /\ ~Blocked(t)
           /\ fifo' = Tail(fifo)
           /\ call' = [call EXCEPT ![t].item = Head(fifo)]
           /\ status' = [status EXCEPT ![t] = "ok"]

\* A timed call that finds the queue blocked waits ...
Wait(t) == /\ status[t] = "busy"
           /\ call[t].timed
           /\ Blocked(t)
           /\ status' = [status EXCEPT ![t] = "waiting"]
           /\ UNCHANGED <<fifo, call>>

\* Mutant: a call with timeout 0 fails even when the queue is ready.
GiveUpReady(t) == /\ \/ status[t] = "waiting"
                     \/ status[t] = "busy" /\ ~call[t].timed
                  /\ status' = [status EXCEPT ![t] = "timeout"]
                  /\ UNCHANGED <<fifo, call>>

\* ... and only a call that waits, or one with timeout 0 that is blocked, may
\* fail: a call that finds the queue ready when it starts succeeds.
GiveUp(t) == /\ \/ status[t] = "waiting"
                \/ status[t] = "busy" /\ ~call[t].timed /\ Blocked(t)
             /\ status' = [status EXCEPT ![t] = "timeout"]
             /\ UNCHANGED <<fifo, call>>

Finish(t) == Put(t) \/ Take(t) \/ Wait(t) \/ GiveUp(t)

Next == \E t \in Threads : Start(t) \/ Finish(t)

Spec == Init /\ [][Next]_vars

\* Every call returns: no thread blocks for ever in the queue.
FairSpec == Spec /\ \A t \in Threads : WF_vars(Finish(t))
=============================================================================
