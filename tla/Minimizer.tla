------------------------------ MODULE Minimizer ------------------------------
(***************************************************************************)
(* What is done with a failing trace of the explorer: smash_trace_minimize *)
(* (trace.c) shortens it by delta debugging.  Before and after it stands a *)
(* caller who replays what it is given and what it returns with            *)
(* smash_run_schedule, which nothing under src/ does.  All replays share   *)
(* one engine, which smash_engine_init clears each time.                   *)
(***************************************************************************)
EXTENDS Explorer, Replay

VARIABLES
  trace,  \* trace->schedule
  chunk,  \* how many steps are removed at a time
  start   \* how many steps precede the removed ones

minimizeVars == <<trace, chunk, start>>
everything == <<allVars, replayVars, minimizeVars>>

MinimizerInit ==
  /\ SearchInit
  /\ plan = <<>> /\ at = 1 /\ refused = FALSE
  /\ trace = <<>> /\ chunk = 0 /\ start = 0

(* smash_engine_init, then smash_run_schedule of s *)
Begin(s) ==
  /\ Load(Reset(scenario))
  /\ plan' = s
  /\ at' = 1
  /\ refused' = FALSE

Goto(m) ==
  /\ mode' = m
  /\ UNCHANGED <<config, calls, schedule, sleep_set, visited, result, known>>

(* The caller replays the explorer's report, *)
Reproduce ==
  /\ mode = "done"
  /\ BugFound
  /\ trace' = result.failing_trace
  /\ Begin(result.failing_trace)
  /\ Goto("reproduce")
  /\ UNCHANGED <<chunk, start>>

(* then minimizes it, beginning with chunks of half its length. *)
Minimize ==
  /\ mode = "reproduce"
  /\ ReplayEnded
  /\ chunk' = Len(trace) \div 2
  /\ start' = 0
  /\ Goto("minimize")
  /\ UNCHANGED <<vars, replayVars, trace>>

Without(s, from, n) == SubSeq(s, 1, from) \o SubSeq(s, from + n + 1, Len(s))

TryWithout ==
  /\ mode = "minimize"
  /\ chunk >= 1
  /\ start + chunk <= Len(trace)
  /\ Begin(Without(trace, start, chunk))
  /\ Goto("trial")
  /\ UNCHANGED minimizeVars

HalveChunk ==
  /\ mode = "minimize"
  /\ chunk >= 1
  /\ start + chunk > Len(trace)
  /\ chunk' = chunk \div 2
  /\ start' = 0
  /\ Goto("minimize")
  /\ UNCHANGED <<vars, replayVars, trace>>

(* A fault of the engine, a failed check, or a deadlock where the replay   *)
(* has ended                                                               *)
StillFails_StopsEarly == Violation \/ ~AllDone
StillFails == Violation \/ (~AllDone /\ Runnable = {})

(* start stays where it is when the shorter schedule is kept *)
JudgeTrial ==
  /\ mode = "trial"
  /\ ReplayEnded
  /\ IF StillFails
     THEN trace' = plan /\ UNCHANGED start
     ELSE start' = start + chunk /\ UNCHANGED trace
  /\ Goto("minimize")
  /\ UNCHANGED <<vars, replayVars, chunk>>

(* The caller replays the minimized schedule *)
Confirm ==
  /\ mode = "minimize"
  /\ chunk = 0
  /\ Begin(trace)
  /\ Goto("confirm")
  /\ UNCHANGED minimizeVars

Replaying ==
  /\ mode \in {"reproduce", "trial", "confirm"}
  /\ ReplayNext
  /\ UNCHANGED <<searchVars, minimizeVars>>

Minimizing ==
  \/ Reproduce \/ Minimize \/ TryWithout \/ HalveChunk \/ JudgeTrial \/ Confirm
  \/ Replaying

MinimizerNext ==
  \/ SearchNext /\ UNCHANGED <<replayVars, minimizeVars>>
  \/ Minimizing

MinimizerSpec ==
  /\ MinimizerInit
  /\ [][MinimizerNext]_everything
  /\ WF_everything(Search /\ UNCHANGED <<replayVars, minimizeVars>>)
  /\ WF_everything(Minimizing)
=============================================================================
