------------------------------- MODULE Replay -------------------------------
(***************************************************************************)
(* smash_run_schedule: the engine is reset and driven through a given      *)
(* sequence of threads, whatever it is.  Unlike the explorer, a replay may *)
(* pick a thread that is blocked or done, or one whose timer expires in    *)
(* the very step it is picked for.                                         *)
(***************************************************************************)
EXTENDS SpecChecks

VARIABLES
  plan,    \* the schedule that is replayed
  at,      \* the position of its next step
  refused  \* whether that step was refused: smash_run_schedule returns false

replayVars == <<plan, at, refused>>

ReplayEnded == fail # "none" \/ AllDone \/ at > Len(plan) \/ refused

(* The picked thread takes its step, *)
Follow ==
  /\ ~ReplayEnded
  /\ Step(plan[at])
  /\ at' = at + 1
  /\ UNCHANGED <<plan, refused>>

(* or is not ready: time has passed for the others, and the rest of the    *)
(* schedule is given up.                                                   *)
GiveUp ==
  /\ ~ReplayEnded
  /\ Refused(plan[at])
  /\ refused' = TRUE
  /\ UNCHANGED <<plan, at>>

(* Any sequence of valid thread indices may be replayed.  An index out of  *)
(* range is refused with engine->failed set and is left out.               *)
ReplayInit ==
  /\ Init
  /\ plan \in Seq(Thread)
  /\ at = 1
  /\ refused = FALSE
ReplayNext == Follow \/ GiveUp
ReplaySpec == ReplayInit /\ [][ReplayNext]_<<vars, replayVars>>
=============================================================================
