------------------------------- MODULE Kernel -------------------------------
(***************************************************************************)
(* The state of the SMASH execution engine: scenarios (smash_scenario_t),  *)
(* the simulated ChibiOS threads (smash_thread_t) and kernel objects       *)
(* (smash_resource_t), the state smash_engine_reset builds, and the        *)
(* passage of time at the head of smash_execute_step.                      *)
(*                                                                         *)
(* Threads and resources are the array indices the code uses.  The trace,  *)
(* the step counter and the wording of fail_msg are left out: fail holds   *)
(* the kind of the failure instead of its text.                            *)
(*                                                                         *)
(* An operator named X_What is X with a bug in it.  No definition uses it: *)
(* it is put in the place of X to see which property notices.              *)
(***************************************************************************)
EXTENDS Integers, Sequences

CONSTANTS
  NThreads,     \* scenario->thread_count
  NResources,   \* scenario->resource_count
  MaxWaiters,   \* SMASH_MAX_WAITERS: wait-queue slots, and mailbox slots
  MaxOwned,     \* SMASH_MAX_RESOURCES: slots of an owned-mutex stack
  MaxIsrDepth,  \* SMASH_MAX_ISR_DEPTH
  Scenarios     \* the scenarios under test, all of the same size

(* SMASH_MAX_WAITERS is SMASH_MAX_THREADS, and smash_scenario_validate     *)
(* bounds the two counts by SMASH_MAX_THREADS and SMASH_MAX_RESOURCES.     *)
ASSUME SizeAssumption ==
  /\ NThreads \in Nat \ {0}
  /\ NResources \in Nat
  /\ MaxWaiters \in Nat /\ NThreads <= MaxWaiters
  /\ MaxOwned \in Nat /\ NResources <= MaxOwned
  /\ MaxIsrDepth \in Nat

Thread == 0 .. NThreads - 1
Resource == 0 .. NResources - 1

NoThread == -1      \* owner of a free mutex
NoResource == -1    \* SMASH_NO_RESOURCE, and blocked_on of a runnable thread
NoTimeout == -1     \* timeout_ticks of an infinite wait

-----------------------------------------------------------------------------
(* Actions and scenarios *)

(* Actions with which smash_execute_step uses resource_id as an index, and *)
(* those with which it does not.                                           *)
ResourceActions ==
  {"MUTEX_LOCK", "MUTEX_TIMED_LOCK", "MUTEX_UNLOCK",
   "SEM_WAIT", "SEM_TIMED_WAIT", "SEM_SIGNAL",
   "COND_WAIT", "COND_SIGNAL", "COND_BROADCAST",
   "MB_POST", "MB_POST_FRONT", "MB_FETCH",
   "OBJECT_INIT", "OBJECT_DESTROY"}

LocalActions ==
  {"NOP", "YIELD", "DONE", "SYS_LOCK", "SYS_UNLOCK", "ISR_ENTER",
   "ISR_EXIT", "CALL", "RETURN",
   "COND_WAIT_TIMEOUT", "MB_POST_TIMEOUT", "MB_FETCH_TIMEOUT"}

ResourceTypes == {"MUTEX", "SEMAPHORE", "CONDVAR", "MAILBOX"}

(* What smash_scenario_validate accepts: every resource_id is in range, or *)
(* SMASH_NO_RESOURCE, whatever the action.  It tests the two counts        *)
(* (SizeAssumption) and the lengths of the programs, which may be any here.*)
Actions ==
  [type        : ResourceActions \cup LocalActions,
   resource_id : Resource \cup {NoResource},
   arg         : Int]

ValidScenario(s) ==
  s \in [steps            : [Thread -> Seq(Actions)],
         priorities       : [Thread -> Int],
         stack_sizes      : [Thread -> Int],
         res_types        : [Resource -> ResourceTypes],
         sem_init         : [Resource -> Int],
         associated_mutex : [Resource -> Int],
         mb_capacity      : [Resource -> Int]]

ASSUME ScenarioAssumption == \A s \in Scenarios : ValidScenario(s)

(* What the validator does not test, and nothing after it does: an action  *)
(* that needs a resource names one, and a mailbox has no more slots than   *)
(* its array of messages.  What the engine does to a scenario that does    *)
(* not fit is undefined from the first access outside an array on, and is  *)
(* left out.                                                               *)
FitsArrays(s) ==
  /\ \A t \in Thread : \A i \in 1 .. Len(s.steps[t]) :
       s.steps[t][i].type \in ResourceActions => s.steps[t][i].resource_id \in Resource
  /\ \A r \in Resource : s.mb_capacity[r] \in 0 .. MaxWaiters

-----------------------------------------------------------------------------
VARIABLES
  scenario,          \* engine->scenario, fixed at smash_engine_init
  state, pc, blocked_on, timeout_ticks,      \* scheduling of each thread
  priority, owned_mutex_stack,               \* inheritance of each thread
  exec_ctx, sys_lock_depth, isr_depth,       \* API context of each thread
  stack_depth, stack_watermark,              \* stack use of each thread
  owner, count, waiters, alive,              \* each resource
  mb_messages, mb_head, mb_tail, mb_count,   \* each mailbox
  fail               \* "none", or why engine->failed was set

schedVars == <<state, pc, blocked_on, timeout_ticks>>
inheritVars == <<priority, owned_mutex_stack>>
ctxVars == <<exec_ctx, sys_lock_depth, isr_depth>>
stackVars == <<stack_depth, stack_watermark>>
objectVars == <<owner, count, waiters>>
mailboxVars == <<mb_messages, mb_head, mb_tail, mb_count>>
vars == <<scenario, schedVars, inheritVars, ctxVars, stackVars, objectVars,
          alive, mailboxVars, fail>>

BlockedStates == {"BLOCKED_MUTEX", "BLOCKED_SEM"}
ThreadStates == {"READY", "DONE"} \cup BlockedStates
Contexts == {"THREAD", "SYS_LOCK", "ISR"}
Failures ==
  {"none", "use_after_free", "context", "relock", "queue_overflow",
   "not_owner", "lifo", "not_condvar", "bad_associated_mutex",
   "cond_not_owner", "not_mailbox", "exit_holding", "unbalanced",
   "isr_nesting", "double_destroy", "stack_overflow"}

(* On a scenario that fits, every array of the engine keeps its shape and  *)
(* its range, and no stack, queue or ring index leaves the C array it      *)
(* lives in.  (That smash_scenario_validate accepts a scenario is not      *)
(* enough: see AccessesStayInArrays of DocClaims.)                         *)
TypeOK ==
  /\ ValidScenario(scenario) /\ FitsArrays(scenario)
  /\ state \in [Thread -> ThreadStates]
  /\ pc \in [Thread -> Nat]
  /\ blocked_on \in [Thread -> Resource \cup {NoResource}]
  /\ timeout_ticks \in [Thread -> Nat \cup {NoTimeout}]
  /\ priority \in [Thread -> Int]
  /\ owned_mutex_stack \in [Thread -> Seq(Resource)]
  /\ \A t \in Thread : Len(owned_mutex_stack[t]) <= MaxOwned
  /\ exec_ctx \in [Thread -> Contexts]
  /\ sys_lock_depth \in [Thread -> Nat]
  /\ isr_depth \in [Thread -> 0 .. MaxIsrDepth]
  /\ stack_depth \in [Thread -> Nat]
  /\ stack_watermark \in [Thread -> Nat]
  /\ owner \in [Resource -> Thread \cup {NoThread}]
  /\ count \in [Resource -> Int]
  /\ waiters \in [Resource -> Seq(Thread)]
  /\ \A r \in Resource : Len(waiters[r]) <= MaxWaiters
  /\ alive \in [Resource -> BOOLEAN]
  /\ mb_messages \in [Resource -> [0 .. MaxWaiters - 1 -> Int]]
  /\ mb_head \in [Resource -> 0 .. MaxWaiters - 1]
  /\ mb_tail \in [Resource -> 0 .. MaxWaiters - 1]
  /\ mb_count \in [Resource -> 0 .. MaxWaiters]
  /\ \A r \in Resource : mb_count[r] <= scenario.mb_capacity[r]
  /\ fail \in Failures

-----------------------------------------------------------------------------
(* Threads and resources as smash_engine_reset builds them for s *)
Reset(s) ==
  [state             |-> [t \in Thread |-> "READY"],
   pc                |-> [t \in Thread |-> 0],
   blocked_on        |-> [t \in Thread |-> NoResource],
   timeout_ticks     |-> [t \in Thread |-> NoTimeout],
   priority          |-> s.priorities,
   owned_mutex_stack |-> [t \in Thread |-> <<>>],
   exec_ctx          |-> [t \in Thread |-> "THREAD"],
   sys_lock_depth    |-> [t \in Thread |-> 0],
   isr_depth         |-> [t \in Thread |-> 0],
   stack_depth       |-> [t \in Thread |-> 0],
   stack_watermark   |-> [t \in Thread |-> 0],
   owner             |-> [r \in Resource |-> NoThread],
   count             |-> s.sem_init,
   waiters           |-> [r \in Resource |-> <<>>],
   alive             |-> [r \in Resource |-> TRUE],
   mb_messages       |-> [r \in Resource |-> [i \in 0 .. MaxWaiters - 1 |-> 0]],
   mb_head           |-> [r \in Resource |-> 0],
   mb_tail           |-> [r \in Resource |-> 0],
   mb_count          |-> [r \in Resource |-> 0]]

(* smash_engine_init on a valid scenario *)
Init ==
  /\ scenario \in Scenarios
  /\ state = Reset(scenario).state
  /\ pc = Reset(scenario).pc
  /\ blocked_on = Reset(scenario).blocked_on
  /\ timeout_ticks = Reset(scenario).timeout_ticks
  /\ priority = Reset(scenario).priority
  /\ owned_mutex_stack = Reset(scenario).owned_mutex_stack
  /\ exec_ctx = Reset(scenario).exec_ctx
  /\ sys_lock_depth = Reset(scenario).sys_lock_depth
  /\ isr_depth = Reset(scenario).isr_depth
  /\ stack_depth = Reset(scenario).stack_depth
  /\ stack_watermark = Reset(scenario).stack_watermark
  /\ owner = Reset(scenario).owner
  /\ count = Reset(scenario).count
  /\ waiters = Reset(scenario).waiters
  /\ alive = Reset(scenario).alive
  /\ mb_messages = Reset(scenario).mb_messages
  /\ mb_head = Reset(scenario).mb_head
  /\ mb_tail = Reset(scenario).mb_tail
  /\ mb_count = Reset(scenario).mb_count
  /\ fail = "none"

(* smash_collect_runnable and smash_all_done *)
Runnable == {t \in Thread : state[t] = "READY"}
AllDone == \A t \in Thread : state[t] = "DONE"

(* base_priority is set by the reset and never written again *)
BasePriority(t) == scenario.priorities[t]
ResType(r) == scenario.res_types[r]

-----------------------------------------------------------------------------
(* The passage of time.  Every executed step first counts down the timer   *)
(* of each blocked thread; a timer that reaches zero makes its thread      *)
(* READY behind the timed call.  The wait queue and the inherited          *)
(* priorities are not touched.  The rest of the step reads and updates the *)
(* ticked values, so every action below is written in terms of them.       *)
Ticking(u) == state[u] \in BlockedStates /\ timeout_ticks[u] > 0
Expired_TestBeforeCount(u) == Ticking(u) /\ timeout_ticks[u] = 0
Expired(u) == Ticking(u) /\ timeout_ticks[u] = 1

TickedState ==
  [u \in Thread |-> IF Expired(u) THEN "READY" ELSE state[u]]
TickedPc ==
  [u \in Thread |-> IF Expired(u) THEN pc[u] + 1 ELSE pc[u]]
TickedBlockedOn ==
  [u \in Thread |-> IF Expired(u) THEN NoResource ELSE blocked_on[u]]
TickedTimeout ==
  [u \in Thread |-> IF Expired(u) THEN NoTimeout
                    ELSE IF Ticking(u) THEN timeout_ticks[u] - 1
                    ELSE timeout_ticks[u]]

(* How a step leaves the scheduling state, after the tick:                 *)
(* the thread stays where it is,                                           *)
Stay ==
  /\ state' = TickedState
  /\ pc' = TickedPc
  /\ blocked_on' = TickedBlockedOn
  /\ timeout_ticks' = TickedTimeout

(* or moves on to its next action,                                         *)
Advance(t) ==
  /\ state' = TickedState
  /\ pc' = [TickedPc EXCEPT ![t] = @ + 1]
  /\ blocked_on' = TickedBlockedOn
  /\ timeout_ticks' = TickedTimeout

(* or blocks on r; a timed call (ticks > 0) arms the timer, an untimed one *)
(* leaves the timer as it finds it,                                        *)
Block(t, r, blocked, ticks) ==
  /\ state' = [TickedState EXCEPT ![t] = blocked]
  /\ pc' = TickedPc
  /\ blocked_on' = [TickedBlockedOn EXCEPT ![t] = r]
  /\ timeout_ticks' = [TickedTimeout EXCEPT ![t] = IF ticks > 0 THEN ticks ELSE @]

(* or moves on after making the waiters W runnable, which the wake-up      *)
(* itself advances by n actions.                                           *)
WakeAndAdvance_SleeperRetries(t, W, n) ==
  /\ state' = [u \in Thread |-> IF u \in W THEN "READY" ELSE TickedState[u]]
  /\ pc' = [TickedPc EXCEPT ![t] = @ + 1]
  /\ blocked_on' =
       [u \in Thread |-> IF u \in W THEN NoResource ELSE TickedBlockedOn[u]]
  /\ timeout_ticks' = TickedTimeout

WakeAndAdvance(t, W, n) ==
  /\ state' = [u \in Thread |-> IF u \in W THEN "READY" ELSE TickedState[u]]
  /\ pc' = [u \in Thread |-> TickedPc[u] + (IF u \in W THEN n ELSE 0)
                                         + (IF u = t THEN 1 ELSE 0)]
  /\ blocked_on' =
       [u \in Thread |-> IF u \in W THEN NoResource ELSE TickedBlockedOn[u]]
  /\ timeout_ticks' = TickedTimeout
=============================================================================
