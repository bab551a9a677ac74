------------------------------ MODULE OsalSem ------------------------------
(***************************************************************************)
(* The host counting semaphore (ep_host_osal_sem.c): an unsigned count, a  *)
(* mutex and one condition variable.  As in OsalQueue, a passage through   *)
(* the mutex is one step.  The count is an unsigned int and post adds one  *)
(* without looking: it wraps.  MaxCount is UINT_MAX.                       *)
(***************************************************************************)
EXTENDS Naturals, FiniteSets

CONSTANTS Threads, MaxCount, Initial, MaxPosts

ASSUME SemAssumption == /\ IsFiniteSet(Threads)
                        /\ MaxCount \in Nat \ {0}
                        /\ Initial \in 0..MaxCount
                        /\ MaxPosts \in Nat

VARIABLES count,
          pc,        \* thread -> "idle" or where its ep_sem_wait is
          late,      \* threads whose deadline has passed
          posts,     \* history: posts that returned EP_OK (bounded by MaxPosts)
          acquired   \* history: waits that returned EP_OK

vars == <<count, pc, late, posts, acquired>>

\* wait: asleep in timedwait; woken: it is about to return 0; expired: it is
\* about to return ETIMEDOUT.
PCs == {"idle", "wait", "woken", "expired"}

Init == /\ count = Initial
        /\ pc = [t \in Threads |-> "idle"]
        /\ late = {}
        /\ posts = 0
        /\ acquired = 0

Sleeping == {t \in Threads : pc[t] = "wait"}
Woken == {t \in Threads : pc[t] = "woken"}

-----------------------------------------------------------------------------
\* Mutant: a woken thread takes its unit without counting it down.
AcquireUncounted(t) == /\ pc[t] \in {"idle", "woken"}
                       /\ count > 0
                       /\ count' = IF pc[t] = "woken" THEN count ELSE count - 1
                       /\ acquired' = acquired + 1
                       /\ pc' = [pc EXCEPT ![t] = "idle"]
                       /\ late' = late \ {t}
                       /\ UNCHANGED posts

\* Take one unit and return: a first call that finds one, or a thread back
\* from timedwait.
Acquire(t) == /\ pc[t] \in {"idle", "woken"}
              /\ count > 0
              /\ count' = count - 1
              /\ acquired' = acquired + 1
              /\ pc' = [pc EXCEPT ![t] = "idle"]
              /\ late' = late \ {t}
              /\ UNCHANGED posts

\* Mutant: the deadline is computed anew for every sleep.
SleepRearmed(t) == /\ pc[t] \in {"idle", "woken"}
                   /\ count = 0
                   /\ pc' = [pc EXCEPT ![t] = "wait"]
                   /\ late' = late \ {t}
                   /\ UNCHANGED <<count, posts, acquired>>

\* A wait with a positive timeout that finds no unit goes to sleep, a woken
\* one goes back to sleep; past its deadline the sleep ends at once.
\* (With timeout 0 the call returns EP_ERR_TIMEOUT and changes nothing.)
Sleep(t) == /\ pc[t] \in {"idle", "woken"}
            /\ count = 0
            /\ pc' = [pc EXCEPT ![t] = IF t \in late THEN "expired" ELSE "wait"]
            /\ UNCHANGED <<count, late, posts, acquired>>

DeadlinePasses(t) == /\ pc[t] \in {"wait", "woken"}
                     /\ t \notin late
                     /\ late' = late \cup {t}
                     /\ UNCHANGED <<count, pc, posts, acquired>>

Expire(t) == /\ pc[t] = "wait"
             /\ t \in late
             /\ pc' = [pc EXCEPT ![t] = "expired"]
             /\ UNCHANGED <<count, late, posts, acquired>>

WakeSpuriously(t) == /\ pc[t] = "wait"
                     /\ pc' = [pc EXCEPT ![t] = "woken"]
                     /\ UNCHANGED <<count, late, posts, acquired>>

\* ETIMEDOUT: the count is not looked at again.
ReturnTimeout(t) == /\ pc[t] = "expired"
                    /\ pc' = [pc EXCEPT ![t] = "idle"]
                    /\ late' = late \ {t}
                    /\ UNCHANGED <<count, posts, acquired>>

\* Mutant: a sleeper is woken only by the post that makes the count positive.
PostOnEdge == /\ posts < MaxPosts
              /\ posts' = posts + 1
              /\ count' = (count + 1) % (MaxCount + 1)
              /\ IF Sleeping = {} \/ count > 0 THEN UNCHANGED pc
                 ELSE \E u \in Sleeping : pc' = [pc EXCEPT ![u] = "woken"]
              /\ UNCHANGED <<late, acquired>>

\* ep_sem_post: add one modulo the width of the count, wake one sleeper.
Post == /\ posts < MaxPosts
        /\ posts' = posts + 1
        /\ count' = (count + 1) % (MaxCount + 1)
        /\ IF Sleeping = {} THEN UNCHANGED pc
           ELSE \E u \in Sleeping : pc' = [pc EXCEPT ![u] = "woken"]
        /\ UNCHANGED <<late, acquired>>

\* What carries a wait that went to sleep to its return.
Finish(t) == \/ pc[t] = "woken" /\ (Acquire(t) \/ Sleep(t))
             \/ Expire(t)
             \/ ReturnTimeout(t)

Next == \/ Post
        \/ \E t \in Threads : \/ Acquire(t) \/ Sleep(t) \/ DeadlinePasses(t)
                              \/ Expire(t) \/ WakeSpuriously(t) \/ ReturnTimeout(t)

Spec == Init /\ [][Next]_vars

FairSpec == /\ Spec
            /\ \A t \in Threads : WF_vars(Finish(t)) /\ WF_vars(DeadlinePasses(t))

-----------------------------------------------------------------------------
TypeOK == /\ count \in 0..MaxCount
          /\ pc \in [Threads -> PCs]
          /\ late \subseteq Threads
          /\ posts \in 0..MaxPosts
          /\ acquired \in Nat

\* Units are neither created nor lost: what was available and posted is either
\* still there or was acquired by exactly one wait (as long as the count cannot
\* wrap: Initial + MaxPosts <= MaxCount).
UnitsConserved == Initial + MaxPosts <= MaxCount => count + acquired = Initial + posts

\* No lost wake-up: while a thread sleeps, every available unit is matched by
\* a thread already woken for it.
NoLostWakeup == Sleeping # {} => count <= Cardinality(Woken)

\* Every wait that sleeps returns.
WaitReturns == \A t \in Threads : pc[t] # "idle" ~> pc[t] = "idle"

\* What docs/porting/osal-api-reference.md:333 says of ep_sem_post: at the
\* upper limit of the count it returns EP_ERR_BUSY.  So a post that returns
\* EP_OK never makes units disappear.
PostAddsUnit == [][posts' = posts + 1 => count' = count + 1]_vars
=============================================================================
