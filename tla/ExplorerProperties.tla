------------------------- MODULE ExplorerProperties -------------------------
(***************************************************************************)
(* What the explorer and the minimizer promise.  known is what an          *)
(* arbitrary execution of the same scenario ran into, so a property that   *)
(* compares it with the result says what the search must not miss.         *)
(***************************************************************************)
EXTENDS Minimizer, EngineProperties

(* Where the search stands, its recursion, the saved engines and the       *)
(* recorded schedule agree: explore_dfs is as deep in the save stack and   *)
(* in the sleep sets as the schedule is long, the schedule saved at a      *)
(* depth is the path to it, and none of the three arrays overflows.  So    *)
(* the guard that would drop a step from a full schedule never does.       *)
DepthIsScheduleLength ==
  /\ Len(calls) <= MaxDepth
  /\ \A d \in 1 .. Len(calls) : Len(calls[d].schedule) = d - 1
  /\ mode \in {"call", "check", "return"} => Len(schedule) = Len(calls)
  /\ mode = "loop" => calls # <<>> /\ Len(schedule) = Len(calls) - 1

(* No limit of the configuration cut the search short, and a cut would     *)
(* have been noticed: a limit of MaxDepth hides behind the hard guard.     *)
Exhaustive ==
  /\ mode = "done"
  /\ DepthLimit < MaxDepth
  /\ result.max_depth_reached = 0
  /\ ~InterleavingsUsedUp

(* No two threads name the same resource *)
Independent(s) ==
  \A t, u \in Thread : \A a \in Range(s.steps[t]), b \in Range(s.steps[u]) :
    t # u /\ a.resource_id # NoResource => a.resource_id # b.resource_id

(* Where the reductions in use lose nothing.  Snapshots leave out timers,  *)
(* what a condition wait is about to do, and the order of the wait queues, *)
(* which decides who is woken where more than one can wait for a mailbox;  *)
(* the partial-order reduction is safe for threads that share nothing.     *)
QueueOrderMatters(s) ==
  NThreads > 2 /\ \E a \in ActionsOf(s) : a.type \in MailboxTypes

ReductionsAreSafe ==
  /\ config.enable_state_caching =>
       Untimed(scenario) /\ CondFree(scenario) /\ ~QueueOrderMatters(scenario)
  /\ config.enable_dpor => Untimed(scenario) /\ Independent(scenario)

(* What the search has found, when some schedule runs into known.  A       *)
(* search that stops at its first bug owes no more than one.               *)
KnownIsFound ==
  /\ known # "none" => BugFound
  /\ ~config.stop_on_first_bug =>
       /\ known = "deadlock" => result.deadlocks > 0
       /\ known = "violation" => result.violations > 0

(* A search that ends without a limit in its way has found a deadlock if   *)
(* any schedule deadlocks, and a violation if any schedule runs into one,  *)
(* whatever the backtracking, the snapshots and the full table left out.   *)
BugsAreFound == Exhaustive /\ ReductionsAreSafe => KnownIsFound

(* And it raises no false alarm.  However often the engine was saved and   *)
(* restored in between, a scenario whose threads make no mistake is never  *)
(* reported for a failed call or a failed check, a failing trace of it     *)
(* comes from a deadlock, and with its locks in order it is not reported   *)
(* at all.                                                                 *)
ReportsAreTrue ==
  /\ Disciplined(scenario)
  /\ \A r \in OfType("SEMAPHORE") : scenario.sem_init[r] >= 0
  => /\ result.violations = 0
     /\ BugFound => result.deadlocks > 0
     /\ Ordered(scenario) => ~BugFound

(* The state in which a replay must end for a report to be true: some      *)
(* check fails, or the threads that are not done are all blocked.          *)
Broken == Violation \/ ~NoDeadlock

(* The reported trace is a path of the program to the bug: replayed on a   *)
(* fresh engine none of its picks is refused, it meets the bug at its last *)
(* step and nothing wrong before, though the search saved and restored the *)
(* engine many times before it got there, and went on after.               *)
ReportReplays ==
  mode = "reproduce" =>
    /\ ~refused
    /\ Broken => at > Len(plan)
    /\ ReplayEnded => Broken

(* The minimized trace still ends in a bug, whatever the removal of steps  *)
(* did to the replays in between: a thread picked while blocked, or        *)
(* revived by a timer in that very step.  It is no longer than the         *)
(* original.  Whether each of its picks is accepted is left open:          *)
(* smash_trace_minimize does not ask what smash_run_schedule returned.     *)
MinimizedStillFails ==
  mode = "confirm" /\ ReplayEnded =>
    Broken /\ Len(plan) <= Len(result.failing_trace)

(* Every search ends, also of threads that never do, and its report is     *)
(* minimized and confirmed in the end.                                     *)
SearchEnds ==
  mode = "call" ~> \/ mode = "done" /\ ~BugFound
                   \/ mode = "confirm" /\ ReplayEnded
=============================================================================
