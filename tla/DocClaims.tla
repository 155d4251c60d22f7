------------------------------ MODULE DocClaims ------------------------------
(***************************************************************************)
(* Statements that comments, documents and tests of the repository make    *)
(* about the engine, and that the engine does not keep.  Each is checked   *)
(* by a run of MCDocClaims whose counterexample shows the disagreement.    *)
(***************************************************************************)
EXTENDS EngineProperties

(* spec.c:91 and spec.c:140, "Every waiter must be a valid thread ID in a  *)
(* blocked state": about the queues of mutexes and semaphores.             *)
WaitersAreBlocked ==
  \A r \in OfType("MUTEX") \cup OfType("SEMAPHORE") :
    \A w \in QueuedOn(r) : state[w] \in BlockedStates

(* smash.h:82, "-1 means no timeout (infinite wait, like chMtxLock)": an   *)
(* untimed wait has no timer, so it cannot expire.                         *)
UntimedWaitsAreInfinite ==
  \A t \in Thread :
    Waiting(t) /\ Pending(t).type \notin TimedTypes => timeout_ticks[t] = NoTimeout

(* spec.c:76, "No thread should be waiting on a free mutex": of            *)
(* smash_check_mutex_integrity, which reports it as a violation.           *)
FreeMutexHasNoWaiters ==
  \A r \in OfType("MUTEX") : owner[r] = NoThread => waiters[r] = <<>>

(* SAFETY_ANALYSIS.md:44, "All arrays bounds-checked against SMASH_MAX_*   *)
(* constants", and engine.c:10, "catches OOB resource IDs and other        *)
(* mis-configurations before they cause silent corruption": whatever       *)
(* scenario the validator accepts, an action that indexes the resources    *)
(* names one, and a message is stored inside mb_messages.                  *)
AccessesStayInArrays ==
  \A t \in Runnable, type \in ResourceActions :
    Doing(t, type) =>
      LET r == Target(t)
          stores == r \in OfType("MAILBOX") /\ ~MbFull(r)
          capacity == scenario.mb_capacity[r]
      IN
      /\ r \in Resource
      /\ stores /\ type = "MB_POST" => mb_tail[r] < MaxWaiters
      /\ stores /\ type = "MB_POST_FRONT" =>
           (mb_head[r] - 1 + capacity) % capacity < MaxWaiters
=============================================================================
