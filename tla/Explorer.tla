------------------------------ MODULE Explorer ------------------------------
(***************************************************************************)
(* The depth-first search of explorer.c, with the partial-order reduction  *)
(* of dpor.c and the state cache of state.c.  The recursion of explore_dfs *)
(* is a stack of activation records; mode says where the running one is.   *)
(*                                                                         *)
(* The search is deterministic.  What it should find is laid down before   *)
(* it starts, by an execution of the same scenario under an arbitrary      *)
(* scheduler (mode "walk"): known is what that execution ran into.         *)
(***************************************************************************)
EXTENDS SpecChecks, FiniteSets

CONSTANTS
  MaxDepth,   \* SMASH_MAX_DEPTH
  MaxStates,  \* SMASH_MAX_STATES
  Configs     \* the values of smash_config_t a search is started with

ASSUME SearchAssumption ==
  /\ MaxDepth \in Nat \ {0}
  /\ MaxStates \in Nat
  /\ Configs \subseteq [max_depth            : Int,
                        max_interleavings    : Nat,
                        stop_on_first_bug    : BOOLEAN,
                        enable_dpor          : BOOLEAN,
                        enable_state_caching : BOOLEAN]

VARIABLES
  config,     \* of this search
  mode,       \* "walk", then where the search is, at last "done"
  calls,      \* the activation records of explore_dfs, callers first
  schedule,   \* engine->trace.schedule: the threads stepped so far
  sleep_set,  \* g_dpor.sleep_set: a set of threads for each depth
  visited,    \* engine->state_ht: the snapshots already expanded
  result,     \* smash_result_t
  known       \* "none", or what an execution of this scenario ran into

searchVars == <<config, mode, calls, schedule, sleep_set, visited, result, known>>
allVars == <<vars, searchVars>>

NoTrace == <<>>   \* failing_trace = NULL; a failing trace has a step at least

SearchInit ==
  /\ Init
  /\ config \in Configs
  /\ mode = "walk"
  /\ calls = <<>>
  /\ schedule = <<>>
  /\ sleep_set = [d \in 0 .. MaxDepth - 1 |-> {}]
  /\ visited = {}
  /\ result = [interleavings |-> 0, states |-> 0, cache_pruned |-> 0,
               dpor_pruned |-> 0, sleep_pruned |-> 0, deadlocks |-> 0,
               violations |-> 0, max_depth_reached |-> 0,
               failing_trace |-> NoTrace]
  /\ known = "none"

-----------------------------------------------------------------------------
(* save_engine and restore_engine: threads and resources, and the trace *)

EngineState ==
  [state |-> state, pc |-> pc, blocked_on |-> blocked_on,
   timeout_ticks |-> timeout_ticks, priority |-> priority,
   owned_mutex_stack |-> owned_mutex_stack, exec_ctx |-> exec_ctx,
   sys_lock_depth |-> sys_lock_depth, isr_depth |-> isr_depth,
   stack_depth |-> stack_depth, stack_watermark |-> stack_watermark,
   owner |-> owner, count |-> count, waiters |-> waiters, alive |-> alive,
   mb_messages |-> mb_messages, mb_head |-> mb_head, mb_tail |-> mb_tail,
   mb_count |-> mb_count]

(* The engine becomes e, and engine->failed is cleared *)
Load(e) ==
  /\ state' = e.state /\ pc' = e.pc /\ blocked_on' = e.blocked_on
  /\ timeout_ticks' = e.timeout_ticks /\ priority' = e.priority
  /\ owned_mutex_stack' = e.owned_mutex_stack /\ exec_ctx' = e.exec_ctx
  /\ sys_lock_depth' = e.sys_lock_depth /\ isr_depth' = e.isr_depth
  /\ stack_depth' = e.stack_depth /\ stack_watermark' = e.stack_watermark
  /\ owner' = e.owner /\ count' = e.count /\ waiters' = e.waiters
  /\ alive' = e.alive /\ mb_messages' = e.mb_messages /\ mb_head' = e.mb_head
  /\ mb_tail' = e.mb_tail /\ mb_count' = e.mb_count
  /\ fail' = "none"
  /\ UNCHANGED scenario

(* The innermost activation record, and the thread that its loop comes to  *)
(* next: the first of those that are left                                  *)
Top == calls[Len(calls)]
ComesNext(t) == t \in Top.left /\ \A u \in Top.left : t <= u

Restore_KeepsSchedule == Load(Top.engine) /\ UNCHANGED schedule
Restore_ThreadsOnly ==
  /\ Load([EngineState EXCEPT
             !.state = Top.engine.state, !.pc = Top.engine.pc,
             !.blocked_on = Top.engine.blocked_on, !.priority = Top.engine.priority,
             !.owned_mutex_stack = Top.engine.owned_mutex_stack])
  /\ schedule' = Top.schedule
Restore == Load(Top.engine) /\ schedule' = Top.schedule

-----------------------------------------------------------------------------
(* State cache: smash_capture_state, and the visited table, which stops    *)
(* growing when it is full.  64-bit hashes are taken to be injective.      *)

Byte == 256   \* a uint8_t or int8_t field keeps this many values apart

CaptureState_NoPc ==
  [states     |-> state,
   priorities |-> [t \in Thread |-> priority[t] % Byte],
   owners     |-> [r \in Resource |-> owner[r] % Byte],
   counts     |-> [r \in Resource |-> count[r] % Byte]]

CaptureState ==
  [states     |-> state,
   pcs        |-> [t \in Thread |-> pc[t] % Byte],
   priorities |-> [t \in Thread |-> priority[t] % Byte],
   exec_ctx   |-> exec_ctx,
   sys_locks  |-> [t \in Thread |-> sys_lock_depth[t] % Byte],
   owners     |-> [r \in Resource |-> owner[r] % Byte],
   counts     |-> [r \in Resource |-> count[r] % Byte],
   alive      |-> alive]

StateVisited == CaptureState \in visited
MarkVisited ==
  visited' = IF Cardinality(visited) < MaxStates
             THEN visited \cup {CaptureState} ELSE visited

-----------------------------------------------------------------------------
(* Partial-order reduction *)

NextAction(t) ==
  IF pc[t] < StepCount(t) THEN scenario.steps[t][pc[t] + 1]
  ELSE [type |-> "DONE", resource_id |-> NoResource, arg |-> 0]

(* smash_dpor_dependent *)
Dependent(a, b) ==
  /\ a.resource_id = b.resource_id
  /\ a.resource_id >= 0
  /\ ~({a.type, b.type} \subseteq {"YIELD", "NOP"})

(* compute_persistent_set: the least set with the first runnable thread,   *)
(* and with every runnable thread whose next action depends on the next    *)
(* action of a member.                                                     *)
PersistentSet ==
  LET Seed == CHOOSE t \in Runnable : \A u \in Runnable : t <= u
      Closed(S) ==
        \A p \in S, q \in Runnable : Dependent(NextAction(p), NextAction(q)) => q \in S
  IN {q \in Runnable :
        \A S \in SUBSET Runnable : Seed \in S /\ Closed(S) => q \in S}

Sleeping(depth) == sleep_set[depth]

(* smash_dpor_sleep_add *)
SleepAdd(depth, t) == sleep_set' = [sleep_set EXCEPT ![depth] = @ \cup {t}]

(* smash_dpor_sleep_propagate *)
SleepPropagate(depth, runnable) ==
  sleep_set' = IF depth < MaxDepth - 1
               THEN [sleep_set EXCEPT ![depth + 1] =
                       @ \cup (sleep_set[depth] \cap runnable)]
               ELSE sleep_set

ExploreSet(depth) ==
  IF config.enable_dpor THEN PersistentSet \ Sleeping(depth) ELSE Runnable

-----------------------------------------------------------------------------
(* smash_explore replaces limits that would stop the search at once *)

DepthLimit ==
  IF config.max_depth <= 0 \/ config.max_depth > MaxDepth
  THEN MaxDepth ELSE config.max_depth
InterleavingsUsedUp ==
  /\ config.max_interleavings # 0
  /\ result.interleavings >= config.max_interleavings

BugFound == result.failing_trace # NoTrace
Stopped == BugFound /\ config.stop_on_first_bug

(* The first failing trace is kept *)
Recorded(res) ==
  [res EXCEPT !.failing_trace = IF @ = NoTrace THEN schedule ELSE @]

EngineUnchanged == UNCHANGED <<vars, schedule>>

(* explore_dfs returns to its caller *)
ReturnAtOnce ==
  /\ mode' = "return"
  /\ UNCHANGED calls

Leave ==
  /\ mode' = "return"
  /\ calls' = SubSeq(calls, 1, Len(calls) - 1)

(* or stays in its loop, which takes up the threads one by one *)
TakeUp_Again(t) == UNCHANGED calls
TakeUp(t) == calls' = [calls EXCEPT ![Len(calls)].left = @ \ {t}]

Continue ==
  /\ mode' = "loop"
  /\ UNCHANGED calls

-----------------------------------------------------------------------------
(* The walk, which ends where the search would back up.  smash_explore     *)
(* then starts from a fresh engine.                                        *)

Walk ==
  /\ mode = "walk"
  /\ ~Violation
  /\ Next
  /\ UNCHANGED searchVars

Explore ==
  /\ mode = "walk"
  /\ known' = IF Violation THEN "violation"
              ELSE IF ~NoDeadlock THEN "deadlock" ELSE "none"
  /\ Load(Reset(scenario))
  /\ mode' = "call"
  /\ UNCHANGED <<config, calls, schedule, sleep_set, visited, result>>

-----------------------------------------------------------------------------
(* The head of explore_dfs, called at depth Len(calls) *)

Barred == Stopped \/ InterleavingsUsedUp \/ Len(calls) >= MaxDepth

Bar ==
  /\ mode = "call"
  /\ Barred
  /\ ReturnAtOnce
  /\ EngineUnchanged
  /\ UNCHANGED <<config, sleep_set, visited, result, known>>

HitDepthLimit ==
  /\ mode = "call"
  /\ ~Barred
  /\ Len(calls) >= DepthLimit
  /\ result' = [result EXCEPT !.max_depth_reached =
                  IF Len(calls) > @ THEN Len(calls) ELSE @]
  /\ ReturnAtOnce
  /\ EngineUnchanged
  /\ UNCHANGED <<config, sleep_set, visited, known>>

Entered == mode = "call" /\ ~Barred /\ Len(calls) < DepthLimit

Complete ==
  /\ Entered
  /\ AllDone
  /\ result' = [result EXCEPT !.interleavings = @ + 1]
  /\ ReturnAtOnce
  /\ EngineUnchanged
  /\ UNCHANGED <<config, sleep_set, visited, known>>

ReportDeadlock ==
  /\ Entered
  /\ ~NoDeadlock
  /\ result' = Recorded([result EXCEPT !.deadlocks = @ + 1])
  /\ ReturnAtOnce
  /\ EngineUnchanged
  /\ UNCHANGED <<config, sleep_set, visited, known>>

Revisit ==
  /\ Entered
  /\ Runnable # {}
  /\ config.enable_state_caching
  /\ StateVisited
  /\ result' = [result EXCEPT !.cache_pruned = @ + 1]
  /\ ReturnAtOnce
  /\ EngineUnchanged
  /\ UNCHANGED <<config, sleep_set, visited, known>>

(* The engine is saved once here.  The code saves it again, unchanged,     *)
(* before each thread it tries.                                            *)
Expand ==
  /\ Entered
  /\ Runnable # {}
  /\ IF config.enable_state_caching
     THEN ~StateVisited /\ MarkVisited
     ELSE UNCHANGED visited
  /\ result' = [result EXCEPT !.states = @ + 1]
  /\ calls' = Append(calls, [engine   |-> EngineState,
                             schedule |-> schedule,
                             runnable |-> Runnable,
                             explore  |-> ExploreSet(Len(calls)),
                             left     |-> Runnable])
  /\ mode' = "loop"
  /\ EngineUnchanged
  /\ UNCHANGED <<config, sleep_set, known>>

-----------------------------------------------------------------------------
(* Its loop over the runnable threads, at depth Len(calls) - 1 *)

Prune ==
  /\ mode = "loop"
  /\ \E t \in Thread :
       /\ ComesNext(t)
       /\ t \notin Top.explore
       /\ result' = IF config.enable_dpor /\ t \in Sleeping(Len(calls) - 1)
                    THEN [result EXCEPT !.sleep_pruned = @ + 1]
                    ELSE [result EXCEPT !.dpor_pruned = @ + 1]
       /\ TakeUp(t)
  /\ EngineUnchanged
  /\ UNCHANGED <<config, mode, sleep_set, visited, known>>

Try ==
  /\ mode = "loop"
  /\ \E t \in Thread :
       /\ ComesNext(t)
       /\ t \in Top.explore
       /\ IF config.enable_dpor
          THEN SleepAdd(Len(calls) - 1, t) ELSE UNCHANGED sleep_set
       /\ schedule' = Append(schedule, t)
       /\ Step(t)
       /\ TakeUp(t)
  /\ mode' = "check"
  /\ UNCHANGED <<config, visited, result, known>>

(* The step failed, or an invariant check of spec.c does *)
ReportViolation ==
  /\ mode = "check"
  /\ Violation
  /\ result' = Recorded([result EXCEPT !.violations = @ + 1])
  /\ Restore
  /\ IF config.stop_on_first_bug THEN Leave ELSE Continue
  /\ UNCHANGED <<config, sleep_set, visited, known>>

Descend ==
  /\ mode = "check"
  /\ ~Violation
  /\ mode' = "call"
  /\ EngineUnchanged
  /\ UNCHANGED <<config, calls, sleep_set, visited, result, known>>

(* The recursive call has returned *)
BackUp ==
  /\ mode = "return"
  /\ calls # <<>>
  /\ IF config.enable_dpor
     THEN SleepPropagate(Len(calls) - 1, Top.runnable)
     ELSE UNCHANGED sleep_set
  /\ Restore
  /\ IF Stopped THEN Leave ELSE Continue
  /\ UNCHANGED <<config, visited, result, known>>

EndLoop ==
  /\ mode = "loop"
  /\ Top.left = {}
  /\ Leave
  /\ EngineUnchanged
  /\ UNCHANGED <<config, sleep_set, visited, result, known>>

(* smash_explore returns *)
Finish ==
  /\ mode = "return"
  /\ calls = <<>>
  /\ mode' = "done"
  /\ EngineUnchanged
  /\ UNCHANGED <<config, calls, sleep_set, visited, result, known>>

-----------------------------------------------------------------------------
Search ==
  \/ Bar \/ HitDepthLimit \/ Complete \/ ReportDeadlock \/ Revisit \/ Expand
  \/ Prune \/ Try \/ ReportViolation \/ Descend \/ BackUp \/ EndLoop \/ Finish

SearchNext == Walk \/ Explore \/ Search

(* Once started, the search is one sequential program that keeps running. *)
SearchSpec == SearchInit /\ [][SearchNext]_allVars /\ WF_allVars(Search)
=============================================================================
