---------------------------- MODULE SearchProofs ----------------------------
(***************************************************************************)
(* The engine under its three drivers: the depth-first search, the replay  *)
(* of any schedule, and the minimizer.  Whatever they make of it, every    *)
(* array of the engine keeps its shape and range, the search never leaves  *)
(* its own arrays, and it does not accuse threads that make no mistake.    *)
(*                                                                         *)
(* A driver changes the engine in two ways only: by a step, for which      *)
(* ThreadTypeStep and OrderlyStep have the answers, and by loading a saved *)
(* or a fresh engine, for which the same has to be known of saved engines. *)
(***************************************************************************)
EXTENDS AccountingProofs, ExplorerProperties

-----------------------------------------------------------------------------
(* Saved engines *)

SavedEngines ==
  [state             : [Thread -> ThreadStates],
   pc                : [Thread -> Nat],
   blocked_on        : [Thread -> Resource \cup {NoResource}],
   timeout_ticks     : [Thread -> Nat \cup {NoTimeout}],
   priority          : [Thread -> Int],
   owned_mutex_stack : {f \in [Thread -> Seq(Resource)] :
                          \A t \in Thread : Len(f[t]) <= MaxOwned},
   exec_ctx          : [Thread -> Contexts],
   sys_lock_depth    : [Thread -> Nat],
   isr_depth         : [Thread -> 0 .. MaxIsrDepth],
   stack_depth       : [Thread -> Nat],
   stack_watermark   : [Thread -> Nat],
   owner             : [Resource -> Thread \cup {NoThread}],
   count             : [Resource -> Int],
   waiters           : {f \in [Resource -> Seq(Thread)] :
                          \A r \in Resource : Len(f[r]) <= MaxWaiters},
   alive             : [Resource -> BOOLEAN],
   mb_messages       : [Resource -> [0 .. MaxWaiters - 1 -> Int]],
   mb_head           : [Resource -> 0 .. MaxWaiters - 1],
   mb_tail           : [Resource -> 0 .. MaxWaiters - 1],
   mb_count          : {f \in [Resource -> 0 .. MaxWaiters] :
                          \A r \in Resource : f[r] <= scenario.mb_capacity[r]}]

LEMMA SavedType ==
  ASSUME TypeOK
  PROVE  EngineState \in SavedEngines
  BY DEF TypeOK, EngineState, SavedEngines

LEMMA LoadType ==
  ASSUME ValidScenario(scenario), FitsArrays(scenario), NEW e \in SavedEngines, Load(e)
  PROVE  TypeOK'
<1>1. /\ ValidScenario(scenario)' /\ FitsArrays(scenario)'
      /\ scenario' = scenario
  BY DEF Load
<1>2. fail' \in Failures
  BY DEF Load, Failures
<1> QED BY <1>1, <1>2 DEF Load, SavedEngines, TypeOK

(* smash_engine_reset builds a typed engine *)
LEMMA ResetType ==
  ASSUME ValidScenario(scenario), FitsArrays(scenario)
  PROVE  Reset(scenario) \in SavedEngines
<1> DEFINE e == Reset(scenario)
<1>1. /\ e.priority \in [Thread -> Int]
      /\ e.count \in [Resource -> Int]
      /\ \A r \in Resource : 0 <= scenario.mb_capacity[r]
  BY SizeAssumption DEF ValidScenario, FitsArrays, Reset
<1>2. 0 \in 0 .. MaxWaiters - 1 /\ 0 \in 0 .. MaxWaiters /\ 0 \in 0 .. MaxIsrDepth
  BY SizeAssumption
<1>3. /\ <<>> \in Seq(Resource) /\ <<>> \in Seq(Thread) /\ Len(<<>>) = 0
      /\ 0 <= MaxOwned /\ 0 <= MaxWaiters
  BY SizeAssumption
<1>4. [t \in Thread |-> <<>>] \in {f \in [Thread -> Seq(Resource)] :
                                   \A t \in Thread : Len(f[t]) <= MaxOwned}
  BY <1>3
<1>5. [r \in Resource |-> <<>>] \in {f \in [Resource -> Seq(Thread)] :
                                     \A r \in Resource : Len(f[r]) <= MaxWaiters}
  BY <1>3
<1>6. [r \in Resource |-> 0] \in
        {f \in [Resource -> 0 .. MaxWaiters] :
           \A r \in Resource : f[r] <= scenario.mb_capacity[r]}
  BY <1>1, <1>2
<1> QED BY <1>1, <1>2, <1>4, <1>5, <1>6
     DEF Reset, SavedEngines, ThreadStates, Contexts, NoThread, NoTimeout, NoResource

(* The engine is left alone, or takes a step *)
LEMMA EngineFrame ==
  ASSUME TypeOK, UNCHANGED vars
  PROVE  TypeOK'
  BY DEF TypeOK, vars, schedVars, inheritVars, ctxVars, stackVars, objectVars,
         mailboxVars

LEMMA StepScenario ==
  ASSUME NEW t \in Thread, Step(t) \/ Refused(t)
  PROVE  scenario' = scenario
  BY StepKeepsScenario DEF Refused, ModelUnchanged

-----------------------------------------------------------------------------
(* What is known of the engine while it runs threads that make no mistake  *)
(* (Orderly) holds of the saved engines too.  It is said here of any saved *)
(* engine e of a scenario s, in the words of EngineInvariants.             *)

MutexesOf(s) == {r \in Resource : s.res_types[r] = "MUTEX"}
Sleeps(e, u) == e.state[u] \in BlockedStates

SettledIn(e, s) ==
  /\ \A u \in Thread :
       /\ e.timeout_ticks[u] = NoTimeout
       /\ Sleeps(e, u) =>
            /\ e.blocked_on[u] \in Resource
            /\ \E k \in 1 .. Len(e.waiters[e.blocked_on[u]]) :
                 e.waiters[e.blocked_on[u]][k] = u
       /\ e.state[u] = "BLOCKED_MUTEX" => e.blocked_on[u] \in MutexesOf(s)
       /\ e.state[u] = "BLOCKED_SEM" => e.blocked_on[u] \notin MutexesOf(s)
  /\ \A r \in Resource :
       /\ \A k \in 1 .. Len(e.waiters[r]) :
            Sleeps(e, e.waiters[r][k]) /\ e.blocked_on[e.waiters[r][k]] = r
       /\ NoRepeats(e.waiters[r])
  /\ \A r \in MutexesOf(s) : e.owner[r] = NoThread => e.waiters[r] = <<>>

WaitsForIn(e, t, u) ==
  /\ e.state[t] = "BLOCKED_MUTEX"
  /\ e.blocked_on[t] \in Resource
  /\ e.owner[e.blocked_on[t]] = u
  /\ u # t

DependentsIn(e, t) ==
  {u \in Thread :
     \A B \in SUBSET Thread :
       (t \in B /\ \A v \in Thread, w \in B : WaitsForIn(e, v, w) => v \in B) => u \in B}

InheritedIn(e, s) ==
  /\ \A u \in Thread : s.priorities[u] <= e.priority[u]
  /\ \A v, w \in Thread : WaitsForIn(e, v, w) => e.priority[v] <= e.priority[w]
  /\ \A t \in Thread : \E u \in DependentsIn(e, t) : e.priority[t] = s.priorities[u]

OnTrackIn(e, s, u) ==
  /\ e.pc[u] <= Len(s.steps[u])
  /\ e.owned_mutex_stack[u] = Held(s.steps[u])[e.pc[u]]
  /\ Sleeps(e, u) =>
       LET a == s.steps[u][e.pc[u] + 1] IN
       /\ e.pc[u] < Len(s.steps[u])
       /\ a.resource_id = e.blocked_on[u]
       /\ WaitKind(a.type) = s.res_types[e.blocked_on[u]]

CalmIn(e, s) ==
  /\ e.count = s.sem_init
  /\ \A r \in Resource : e.alive[r] /\ (s.res_types[r] # "MUTEX" => e.waiters[r] = <<>>)
  /\ \A u \in Thread :
       /\ e.exec_ctx[u] = "THREAD" /\ e.sys_lock_depth[u] = 0
       /\ e.isr_depth[u] = 0 /\ e.stack_depth[u] = 0
       /\ e.state[u] = "DONE" => e.pc[u] >= Len(s.steps[u])

OrderlyIn(e, s) ==
  /\ SettledIn(e, s) /\ Match(e.owner, e.owned_mutex_stack)
  /\ InheritedIn(e, s)
  /\ \A u \in Thread : OnTrackIn(e, s, u)
  /\ CalmIn(e, s)

LEMMA SavedParts ==
  ASSUME NEW e, e = EngineState
  PROVE  /\ e.state = state /\ e.pc = pc /\ e.blocked_on = blocked_on
         /\ e.timeout_ticks = timeout_ticks /\ e.priority = priority
         /\ e.owned_mutex_stack = owned_mutex_stack /\ e.exec_ctx = exec_ctx
         /\ e.sys_lock_depth = sys_lock_depth /\ e.isr_depth = isr_depth
         /\ e.stack_depth = stack_depth /\ e.owner = owner /\ e.count = count
         /\ e.waiters = waiters /\ e.alive = alive
  BY DEF EngineState

LEMMA SavedSettled ==
  ASSUME NEW e, e = EngineState
  PROVE  SettledIn(e, scenario) <=> Settled
<1>1. /\ e.state = state /\ e.blocked_on = blocked_on /\ e.timeout_ticks = timeout_ticks
      /\ e.owner = owner /\ e.waiters = waiters
  BY SavedParts
<1>2. MutexesOf(scenario) = OfType("MUTEX")
  BY DEF MutexesOf, OfType, ResType
<1>3. \A u \in Thread : Sleeps(e, u) <=> state[u] \in BlockedStates
  BY <1>1 DEF Sleeps
<1>4. (\A u \in Thread : Sleeps(e, u) =>
         /\ e.blocked_on[u] \in Resource
         /\ \E k \in 1 .. Len(e.waiters[e.blocked_on[u]]) :
              e.waiters[e.blocked_on[u]][k] = u) <=> BlockedAreQueued
  BY <1>1, <1>3 DEF BlockedAreQueued, QueuedOn
<1>5. ASSUME NEW r \in Resource
      PROVE  (/\ \A k \in 1 .. Len(e.waiters[r]) :
                   Sleeps(e, e.waiters[r][k]) /\ e.blocked_on[e.waiters[r][k]] = r
              /\ NoRepeats(e.waiters[r])) <=> ExactQueue(r)
  BY <1>1 DEF ExactQueue, WaitsIn, Sleeps
<1>6. \A u \in Thread :
        /\ (e.state[u] = "BLOCKED_MUTEX" => e.blocked_on[u] \in MutexesOf(scenario))
             <=> OnMutex(u)
        /\ (e.state[u] = "BLOCKED_SEM" => e.blocked_on[u] \notin MutexesOf(scenario))
             <=> OffMutex(u)
  BY <1>1, <1>2 DEF OnMutex, OffMutex
<1>7. (\A r \in MutexesOf(scenario) : e.owner[r] = NoThread => e.waiters[r] = <<>>)
        <=> FreeMutexesIdle
  BY <1>1, <1>2 DEF FreeMutexesIdle
<1>8. (\A u \in Thread : e.timeout_ticks[u] = NoTimeout) <=> NoTimers
  BY <1>1 DEF NoTimers
<1> QED BY <1>4, <1>5, <1>6, <1>7, <1>8 DEF Settled, SettledIn

LEMMA SavedInherited ==
  ASSUME NEW e, e = EngineState
  PROVE  InheritedIn(e, scenario) <=> Monotone /\ \A t \in Thread : Witnessed(t)
<1>1. /\ e.state = state /\ e.blocked_on = blocked_on /\ e.priority = priority
      /\ e.owner = owner
  BY SavedParts
<1>2. \A u, v : WaitsForIn(e, u, v) <=> WaitsFor(u, v)
  BY <1>1 DEF WaitsForIn, WaitsFor
<1>3. \A t : DependentsIn(e, t) = Dependents(t)
  BY <1>2 DEF DependentsIn, Dependents
<1>4. \A t : (\E u \in DependentsIn(e, t) : e.priority[t] = scenario.priorities[u])
               <=> Witnessed(t)
  BY <1>1, <1>3 DEF Witnessed, BasePriority
<1>5. (/\ \A u \in Thread : scenario.priorities[u] <= e.priority[u]
       /\ \A v, w \in Thread : WaitsForIn(e, v, w) => e.priority[v] <= e.priority[w])
        <=> Monotone
  BY <1>1, <1>2 DEF Monotone, BasePriority
<1> QED BY <1>4, <1>5 DEF InheritedIn

LEMMA SavedOnTrack ==
  ASSUME NEW e, e = EngineState, NEW u \in Thread
  PROVE  OnTrackIn(e, scenario, u)
           <=> OnTrack(u) /\ (state[u] \in BlockedStates => SleepsOver(u))
<1>1. /\ e.pc = pc /\ e.blocked_on = blocked_on /\ e.state = state
      /\ e.owned_mutex_stack = owned_mutex_stack
  BY SavedParts
<1> QED BY <1>1 DEF OnTrackIn, OnTrack, SleepsOver, Sleeps, Pending, StepCount, ResType

LEMMA SavedCalm ==
  ASSUME NEW e, e = EngineState, fail = "none"
  PROVE  CalmIn(e, scenario) <=> Calm
<1>1. /\ e.state = state /\ e.pc = pc /\ e.exec_ctx = exec_ctx
      /\ e.sys_lock_depth = sys_lock_depth /\ e.isr_depth = isr_depth
      /\ e.stack_depth = stack_depth /\ e.count = count
      /\ e.waiters = waiters /\ e.alive = alive
  BY SavedParts
<1>2. (\A r \in Resource : e.alive[r]
         /\ (scenario.res_types[r] # "MUTEX" => e.waiters[r] = <<>>))
        <=> (\A r \in Resource : alive[r] /\ (ResType(r) # "MUTEX" => waiters[r] = <<>>))
  BY <1>1 DEF ResType
<1>3. \A u \in Thread :
        (/\ e.exec_ctx[u] = "THREAD" /\ e.sys_lock_depth[u] = 0
         /\ e.isr_depth[u] = 0 /\ e.stack_depth[u] = 0
         /\ e.state[u] = "DONE" => e.pc[u] >= Len(scenario.steps[u]))
        <=> (/\ exec_ctx[u] = "THREAD" /\ sys_lock_depth[u] = 0
             /\ isr_depth[u] = 0 /\ stack_depth[u] = 0
             /\ state[u] = "DONE" => pc[u] >= StepCount(u))
  BY <1>1 DEF StepCount
<1> QED BY <1>1, <1>2, <1>3 DEF CalmIn, Calm

(* To save an engine keeps what is known of it, *)
LEMMA SavedIsEngine ==
  TypeOK /\ fail = "none" => (OrderlyIn(EngineState, scenario) <=> Orderly)
<1> SUFFICES ASSUME TypeOK, fail = "none", NEW e, e = EngineState
             PROVE  OrderlyIn(e, scenario) <=> Orderly
  OBVIOUS
<1>1. Match(e.owner, e.owned_mutex_stack) <=> StacksMatchOwners
  <2>1. e.owner = owner /\ e.owned_mutex_stack = owned_mutex_stack
    BY SavedParts
  <2> QED BY <2>1, TypeOKParts, MatchMeaning
<1>2. SettledIn(e, scenario) <=> Settled
  BY SavedSettled
<1>3. InheritedIn(e, scenario) <=> Monotone /\ \A t \in Thread : Witnessed(t)
  BY SavedInherited
<1>4. \A u \in Thread :
        OnTrackIn(e, scenario, u)
          <=> OnTrack(u) /\ (state[u] \in BlockedStates => SleepsOver(u))
  BY SavedOnTrack
<1>5. CalmIn(e, scenario) <=> Calm
  BY SavedCalm
<1> QED BY <1>1, <1>2, <1>3, <1>4, <1>5 DEF Orderly, OrderlyIn

(* and so does to load it. *)
LEMMA LoadedIsEngine ==
  (TypeOK /\ fail = "none" => (OrderlyIn(EngineState, scenario) <=> Orderly))'
  BY SavedIsEngine, PTL

LEMMA LoadOrderly ==
  ASSUME TypeOK', NEW e \in SavedEngines, Load(e), OrderlyIn(e, scenario)
  PROVE  Orderly'
<1>1. fail' = "none" /\ scenario' = scenario
  BY DEF Load
<1>2. EngineState' = e
  BY DEF Load, EngineState, SavedEngines
<1>3. OrderlyIn(EngineState', scenario')
  BY <1>1, <1>2
<1> QED BY <1>1, <1>3, LoadedIsEngine

(* A step of the search or of a replay is a step of the engine, where no   *)
(* timer runs: then a thread that is picked though it sleeps stays asleep, *)
(* and nothing else happens.                                               *)
LEMMA MoveIsNext ==
  ASSUME TypeOK, NoTimers, NEW t \in Thread, Step(t) \/ Refused(t)
  PROVE  [Next]_vars
<1>1. Typed
  BY TypeOKParts DEF Typed
<1>2. CASE Step(t)
  BY <1>1, <1>2, StepIsAwake DEF Next, Runnable
<1>3. CASE Refused(t)
  <2>1. UNCHANGED schedVars
    BY <1>1, <1>3, TimeStandsStill DEF Refused, Stay, Typed, schedVars
  <2> QED BY <1>3, <2>1
       DEF Refused, ModelUnchanged, modelVars, vars, inheritVars, objectVars, mailboxVars
<1> QED BY <1>2, <1>3

LEMMA MoveOrderly ==
  ASSUME TypeOK, Disciplined(scenario), Orderly, NEW t \in Thread, Step(t) \/ Refused(t)
  PROVE  Orderly'
<1>1. [Next]_vars
  BY MoveIsNext DEF Orderly, Settled
<1> QED BY <1>1, OrderlyStep

(* A fresh engine is in an initial state. *)
LEMMA FreshOrderly == (Init /\ TypeOK /\ Disciplined(scenario) => Orderly)'
  BY InitOrderly, PTL

LEMMA ResetOrderly ==
  ASSUME TypeOK', scenario \in Scenarios, Disciplined(scenario), Load(Reset(scenario))
  PROVE  Orderly'
<1>1. scenario' = scenario
  BY DEF Load
<1>2. Init'
  BY <1>1 DEF Load, Init
<1>3. Disciplined(scenario)'
  BY <1>1
<1> QED BY <1>2, <1>3, FreshOrderly

-----------------------------------------------------------------------------
(* A replay of any schedule *)

LEMMA ReplayScenario ==
  ASSUME ReplayNext, plan \in Seq(Thread), at \in Nat \ {0}
  PROVE  scenario' = scenario
<1>1. plan[at] \in Thread
  BY DEF ReplayNext, Follow, GiveUp, ReplayEnded
<1> QED BY <1>1, StepScenario DEF ReplayNext, Follow, GiveUp

LEMMA ReplayStep ==
  ASSUME TypeOK, ReplayNext, plan \in Seq(Thread), at \in Nat \ {0}
  PROVE  TypeOK' /\ plan' \in Seq(Thread) /\ at' \in Nat \ {0}
<1>1. plan[at] \in Thread
  BY DEF ReplayNext, Follow, GiveUp, ReplayEnded
<1>2. plan' \in Seq(Thread) /\ at' \in Nat \ {0}
  BY DEF ReplayNext, Follow, GiveUp
<1> QED BY <1>1, <1>2, ThreadTypeStep DEF ReplayNext, Follow, GiveUp

(* The engine stays typed and in its bounds in smash_run_schedule too,     *)
(* which picks threads that are blocked, done or just timed out, and not   *)
(* only runnable ones.                                                     *)
THEOREM ReplayTypeCorrect == ReplaySpec /\ FitsArrays(scenario) => []TypeOK
<1> DEFINE IInv == TypeOK /\ plan \in Seq(Thread) /\ at \in Nat \ {0}
<1>1. ReplayInit /\ FitsArrays(scenario) => IInv
  BY TypeInit DEF ReplayInit
<1>2. IInv /\ [ReplayNext]_<<vars, replayVars>> => IInv'
  BY ReplayStep, EngineFrame DEF replayVars
<1> QED BY <1>1, <1>2, PTL DEF ReplaySpec

-----------------------------------------------------------------------------
(* The search *)

Frames ==
  [engine : SavedEngines, schedule : Seq(Thread), runnable : SUBSET Thread,
   explore : SUBSET Thread, left : SUBSET Thread]

Results ==
  [interleavings : Nat, states : Nat, cache_pruned : Nat, dpor_pruned : Nat,
   sleep_pruned : Nat, deadlocks : Nat, violations : Nat,
   max_depth_reached : Nat, failing_trace : Seq(Thread)]

SearchOK ==
  /\ calls \in Seq(Frames)
  /\ schedule \in Seq(Thread)
  /\ result \in Results
  /\ mode = "walk" => calls = <<>> /\ schedule = <<>>
  /\ mode = "check" => calls # <<>>

(* The inductive invariant *)
SearchInv == TypeOK /\ SearchOK /\ DepthIsScheduleLength

LEMMA TopType ==
  ASSUME SearchOK, calls # <<>>
  PROVE  /\ Len(calls) \in Nat \ {0}
         /\ Top = calls[Len(calls)]
         /\ Top \in Frames
  BY DEF SearchOK, Top

(* smash_explore and explore_dfs leave a frame *)
LEMMA LeaveType ==
  ASSUME SearchOK, calls # <<>>, Leave
  PROVE  /\ calls' \in Seq(Frames)
         /\ Len(calls') = Len(calls) - 1
         /\ \A d \in 1 .. Len(calls') : calls'[d] = calls[d]
<1>1. Len(calls) > 0
  BY TopType
<1>2. OwnedPop(calls) = SubSeq(calls, 1, Len(calls) - 1)
  BY DEF OwnedPop
<1>3. /\ OwnedPop(calls) \in Seq(Frames)
      /\ Len(OwnedPop(calls)) = Len(calls) - 1
      /\ \A d \in 1 .. Len(calls) - 1 : OwnedPop(calls)[d] = calls[d]
  <2>1. calls \in Seq(Frames)
    BY DEF SearchOK
  <2> QED BY <1>1, <2>1, OwnedPopType
<1>4. calls' = OwnedPop(calls)
  BY <1>2 DEF Leave
<1> QED BY <1>3, <1>4

(* take up a thread, *)
LEMMA TakeUpType ==
  ASSUME SearchOK, calls # <<>>, NEW t \in Thread, TakeUp(t)
  PROVE  /\ calls' \in Seq(Frames)
         /\ Len(calls') = Len(calls)
         /\ \A d \in 1 .. Len(calls') : /\ calls'[d].schedule = calls[d].schedule
                                         /\ calls'[d].engine = calls[d].engine
<1>1. Len(calls) \in 1 .. Len(calls) /\ calls[Len(calls)] \in Frames
  BY TopType
<1> DEFINE frame == [calls[Len(calls)] EXCEPT !.left = @ \ {t}]
<1>2. /\ frame \in Frames
      /\ frame.schedule = calls[Len(calls)].schedule
      /\ frame.engine = calls[Len(calls)].engine
  BY <1>1 DEF Frames
<1>3. calls' = [calls EXCEPT ![Len(calls)] = frame]
  BY DEF TakeUp
<1> HIDE DEF frame
<1> QED BY <1>1, <1>2, <1>3 DEF SearchOK

(* or add a frame *)
LEMMA EnterType ==
  ASSUME TypeOK, SearchOK, Expand
  PROVE  /\ calls' \in Seq(Frames)
         /\ Len(calls') = Len(calls) + 1
         /\ \A d \in 1 .. Len(calls) : calls'[d] = calls[d]
         /\ calls'[Len(calls) + 1].schedule = schedule
         /\ calls'[Len(calls) + 1].engine = EngineState
<1> DEFINE frame == [engine |-> EngineState, schedule |-> schedule,
                     runnable |-> Runnable, explore |-> ExploreSet(Len(calls)),
                     left |-> Runnable]
<1>1. ExploreSet(Len(calls)) \subseteq Runnable
  BY DEF ExploreSet, PersistentSet
<1>2. frame \in Frames
  BY <1>1, SavedType DEF Frames, SearchOK, Runnable
<1>3. calls' = Append(calls, frame)
  BY DEF Expand
<1>4. calls \in Seq(Frames)
  BY DEF SearchOK
<1> HIDE DEF frame
<1>5. frame.schedule = schedule /\ frame.engine = EngineState
  BY DEF frame
<1> QED BY <1>2, <1>3, <1>4, <1>5, AppendType

(* A counter goes up, or the greatest depth is noted *)
LEMMA CountedType ==
  ASSUME NEW res \in Results
  PROVE  /\ [res EXCEPT !.interleavings = @ + 1] \in Results
         /\ [res EXCEPT !.states = @ + 1] \in Results
         /\ [res EXCEPT !.cache_pruned = @ + 1] \in Results
         /\ [res EXCEPT !.dpor_pruned = @ + 1] \in Results
         /\ [res EXCEPT !.sleep_pruned = @ + 1] \in Results
         /\ [res EXCEPT !.deadlocks = @ + 1] \in Results
         /\ [res EXCEPT !.violations = @ + 1] \in Results
         /\ \A n \in Nat : [res EXCEPT !.max_depth_reached =
                               IF n > @ THEN n ELSE @] \in Results
<1>0. /\ res.interleavings \in Nat
      /\ res.states \in Nat
      /\ res.cache_pruned \in Nat
      /\ res.dpor_pruned \in Nat
      /\ res.sleep_pruned \in Nat
      /\ res.deadlocks \in Nat
      /\ res.violations \in Nat
  BY DEF Results
<1>a. \A n \in Nat : n + 1 \in Nat
  OBVIOUS
<1>1. /\ res.interleavings + 1 \in Nat
      /\ res.states + 1 \in Nat
      /\ res.cache_pruned + 1 \in Nat
      /\ res.dpor_pruned + 1 \in Nat
      /\ res.sleep_pruned + 1 \in Nat
      /\ res.deadlocks + 1 \in Nat
      /\ res.violations + 1 \in Nat
  BY <1>0, <1>a
<1>2. [res EXCEPT !.interleavings = @ + 1] \in Results
  BY <1>1 DEF Results
<1>3. [res EXCEPT !.states = @ + 1] \in Results
  BY <1>1 DEF Results
<1>4. [res EXCEPT !.cache_pruned = @ + 1] \in Results
  BY <1>1 DEF Results
<1>5. [res EXCEPT !.dpor_pruned = @ + 1] \in Results
  BY <1>1 DEF Results
<1>6. [res EXCEPT !.sleep_pruned = @ + 1] \in Results
  BY <1>1 DEF Results
<1>7. [res EXCEPT !.deadlocks = @ + 1] \in Results
  BY <1>1 DEF Results
<1>8. [res EXCEPT !.violations = @ + 1] \in Results
  BY <1>1 DEF Results
<1>9. \A n \in Nat : [res EXCEPT !.max_depth_reached =
                          IF n > @ THEN n ELSE @] \in Results
  BY DEF Results
<1> QED BY <1>2, <1>3, <1>4, <1>5, <1>6, <1>7, <1>8, <1>9

LEMMA RecordedType ==
  ASSUME NEW res \in Results, schedule \in Seq(Thread)
  PROVE  Recorded(res) \in Results
  BY DEF Recorded, Results

(* What explore_dfs goes back to *)
LEMMA RestoreType ==
  ASSUME SearchInv, calls # <<>>, Restore
  PROVE  /\ TypeOK'
         /\ schedule' \in Seq(Thread)
         /\ Len(schedule') = Len(calls) - 1
<1>1. Top.engine \in SavedEngines /\ Top.schedule \in Seq(Thread)
  BY TopType DEF SearchInv, Frames
<1>2. TypeOK'
  BY <1>1, LoadType DEF Restore, SearchInv, TypeOK
<1>3. Len(calls) \in 1 .. Len(calls) /\ Top = calls[Len(calls)]
  BY TopType DEF SearchInv
<1>4. Len(Top.schedule) = Len(calls) - 1
  BY <1>3 DEF SearchInv, DepthIsScheduleLength
<1> QED BY <1>1, <1>2, <1>4 DEF Restore

LEMMA ScenarioFixed ==
  ASSUME SearchNext
  PROVE  scenario' = scenario
<1>2. CASE Walk \/ Try
  BY <1>2, StepScenario DEF Walk, Next, Runnable, Try
<1>3. CASE ReportViolation \/ BackUp \/ Explore
  BY <1>3 DEF ReportViolation, BackUp, Restore, Explore, Load
<1>4. ASSUME EngineUnchanged
      PROVE  scenario' = scenario
  BY <1>4 DEF EngineUnchanged, vars
<1> QED BY <1>2, <1>3, <1>4
     DEF SearchNext, Search, Bar, HitDepthLimit, Complete, ReportDeadlock, Revisit,
         Expand, Prune, Descend, EndLoop, Finish

(* What has to hold after a step of explore_dfs *)
LEMMA Stands ==
  ASSUME scenario' = scenario, TypeOK', calls' \in Seq(Frames), schedule' \in Seq(Thread),
         result' \in Results, Len(calls') <= MaxDepth,
         \A d \in 1 .. Len(calls') : Len(calls'[d].schedule) = d - 1,
         \/ mode' \in {"call", "return"} /\ Len(schedule') = Len(calls')
         \/ mode' = "check" /\ Len(schedule') = Len(calls') /\ calls' # <<>>
         \/ mode' = "loop" /\ Len(schedule') = Len(calls') - 1 /\ calls' # <<>>
         \/ mode' = "done"
  PROVE  SearchInv'
<1>1. mode' # "walk" /\ (mode' = "check" => calls' # <<>>)
  OBVIOUS
<1>2. SearchOK'
  BY <1>1 DEF SearchOK, Frames, SavedEngines
<1>3. /\ mode' \in {"call", "check", "return"} => Len(schedule') = Len(calls')
      /\ mode' = "loop" => calls' # <<>> /\ Len(schedule') = Len(calls') - 1
  OBVIOUS
<1>4. DepthIsScheduleLength'
  BY <1>3 DEF DepthIsScheduleLength
<1> QED BY <1>2, <1>4 DEF SearchInv

(* A step that leaves the recursion and the schedule as they are *)
LEMMA StandsStill ==
  ASSUME scenario' = scenario, SearchInv, UNCHANGED calls, EngineUnchanged, result' \in Results,
         \/ /\ mode \in {"call", "check", "return"}
            /\ mode' \in {"call", "return"}
         \/ mode' = "done"
  PROVE  SearchInv'
<1>1. TypeOK'
  BY EngineFrame DEF SearchInv, EngineUnchanged
<1>2. schedule' = schedule /\ calls' = calls
  BY DEF EngineUnchanged
<1>3. SearchOK /\ DepthIsScheduleLength
  BY DEF SearchInv
<1> QED BY <1>1, <1>2, <1>3, Stands DEF SearchOK, DepthIsScheduleLength

(* A step that leaves the activation records, and what it goes on with *)
LEMMA StandsLeave ==
  ASSUME scenario' = scenario, SearchInv, calls # <<>>, Leave, TypeOK', schedule' \in Seq(Thread),
         Len(schedule') = Len(calls) - 1, result' \in Results
  PROVE  SearchInv'
<1>1. /\ calls' \in Seq(Frames)
      /\ Len(calls') = Len(calls) - 1
      /\ \A d \in 1 .. Len(calls') : calls'[d] = calls[d]
  BY LeaveType DEF SearchInv
<1>2. Len(calls) \in Nat \ {0} /\ MaxDepth \in Nat /\ Len(calls) <= MaxDepth
  BY TopType, SearchAssumption DEF SearchInv, DepthIsScheduleLength
<1>3. \A d \in 1 .. Len(calls') : Len(calls'[d].schedule) = d - 1
  BY <1>1, <1>2 DEF SearchInv, DepthIsScheduleLength
<1>4. mode' = "return"
  BY DEF Leave
<1>5. Len(calls') <= MaxDepth
  BY <1>1, <1>2
<1> QED BY <1>1, <1>3, <1>4, <1>5, Stands

LEMMA StandsContinue ==
  ASSUME scenario' = scenario, SearchInv, calls # <<>>, Continue, TypeOK', schedule' \in Seq(Thread),
         Len(schedule') = Len(calls) - 1, result' \in Results
  PROVE  SearchInv'
<1>1. calls' = calls /\ mode' = "loop"
  BY DEF Continue
<1>2. SearchOK /\ DepthIsScheduleLength
  BY DEF SearchInv
<1> QED BY <1>1, <1>2, Stands DEF SearchOK, DepthIsScheduleLength

(* A step that takes up a thread *)
LEMMA StandsTakeUp ==
  ASSUME scenario' = scenario, SearchInv, calls # <<>>, NEW t \in Thread, TakeUp(t), TypeOK',
         schedule' \in Seq(Thread), result' \in Results,
         \/ mode' = "check" /\ Len(schedule') = Len(calls)
         \/ mode' = "loop" /\ Len(schedule') = Len(calls) - 1
  PROVE  SearchInv'
<1>1. /\ calls' \in Seq(Frames)
      /\ Len(calls') = Len(calls)
      /\ \A d \in 1 .. Len(calls') : calls'[d].schedule = calls[d].schedule
  BY TakeUpType DEF SearchInv
<1>2. Len(calls) \in Nat \ {0} /\ DepthIsScheduleLength
  BY TopType DEF SearchInv
<1>3. calls' # <<>>
  BY <1>1, <1>2
<1>4. \A d \in 1 .. Len(calls') : Len(calls'[d].schedule) = d - 1
  BY <1>1, <1>2 DEF DepthIsScheduleLength
<1>5. Len(calls') <= MaxDepth
  BY <1>1, <1>2 DEF DepthIsScheduleLength
<1> QED BY <1>1, <1>3, <1>4, <1>5, Stands

LEMMA SearchStep ==
  ASSUME SearchInv, SearchNext
  PROVE  SearchInv'
<1>0. /\ TypeOK /\ SearchOK /\ DepthIsScheduleLength /\ result \in Results
      /\ scenario' = scenario
  BY ScenarioFixed DEF SearchInv, SearchOK
<1>1. CASE Walk
  <2>1. TypeOK'
    BY <1>0, <1>1, ThreadTypeStep DEF Walk, Next, Runnable
  <2> QED BY <1>0, <1>1, <2>1
       DEF Walk, searchVars, SearchInv, SearchOK, DepthIsScheduleLength
<1>2. CASE Explore
  <2>1. TypeOK'
    BY <1>0, <1>2, ResetType, LoadType DEF Explore, TypeOK
  <2>2. calls = <<>> /\ schedule = <<>> /\ UNCHANGED <<calls, schedule, result>>
    BY <1>0, <1>2 DEF Explore, SearchOK
  <2>3. mode' = "call"
    BY <1>2 DEF Explore
  <2> QED BY <1>0, <2>1, <2>2, <2>3, Stands DEF SearchOK, DepthIsScheduleLength
<1>3. CASE Bar
  BY <1>0, <1>3, StandsStill DEF Bar, ReturnAtOnce
<1>4. CASE HitDepthLimit
  <2>1. Len(calls) \in Nat
    BY <1>0 DEF SearchOK
  <2>2. result' \in Results
    BY <1>0, <1>4, <2>1, CountedType DEF HitDepthLimit
  <2> QED BY <1>0, <1>4, <2>2, StandsStill DEF HitDepthLimit, ReturnAtOnce
<1>5. CASE Complete
  <2>1. result' \in Results
    BY <1>0, <1>5, CountedType DEF Complete
  <2> QED BY <1>0, <1>5, <2>1, StandsStill DEF Complete, Entered, ReturnAtOnce
<1>6. CASE ReportDeadlock
  <2>1. result' \in Results
    BY <1>0, <1>6, CountedType, RecordedType DEF ReportDeadlock, SearchOK
  <2> QED BY <1>0, <1>6, <2>1, StandsStill DEF ReportDeadlock, Entered, ReturnAtOnce
<1>7. CASE Revisit
  <2>1. result' \in Results
    BY <1>0, <1>7, CountedType DEF Revisit
  <2> QED BY <1>0, <1>7, <2>1, StandsStill DEF Revisit, Entered, ReturnAtOnce
<1>8. CASE Expand
  <2>1. TypeOK'
    BY <1>0, <1>8, EngineFrame DEF Expand, EngineUnchanged
  <2>2. result' \in Results
    BY <1>0, <1>8, CountedType DEF Expand
  <2>3. Len(calls) \in Nat /\ MaxDepth \in Nat
    BY <1>0, SearchAssumption DEF SearchOK
  <2>4. /\ Len(calls) < MaxDepth
        /\ Len(schedule) = Len(calls)
        /\ schedule' = schedule
        /\ mode' = "loop"
    BY <1>0, <1>8, <2>3
       DEF Expand, Entered, Barred, EngineUnchanged, DepthIsScheduleLength
  <2>5. /\ calls' \in Seq(Frames)
        /\ Len(calls') = Len(calls) + 1
        /\ \A d \in 1 .. Len(calls) : calls'[d] = calls[d]
        /\ calls'[Len(calls) + 1].schedule = schedule
    BY <1>0, <1>8, EnterType
  <2>6. calls' # <<>> /\ schedule' \in Seq(Thread)
    BY <1>0, <2>3, <2>4, <2>5 DEF SearchOK
  <2>7. \A d \in 1 .. Len(calls') : Len(calls'[d].schedule) = d - 1
    <3> SUFFICES ASSUME NEW d \in 1 .. Len(calls')
                 PROVE  Len(calls'[d].schedule) = d - 1
      OBVIOUS
    <3>1. CASE d = Len(calls) + 1
      BY <2>3, <2>4, <2>5, <3>1
    <3>2. CASE d # Len(calls) + 1
      <4>1. d \in 1 .. Len(calls) /\ calls'[d] = calls[d]
        BY <2>3, <2>5, <3>2
      <4> QED BY <1>0, <4>1 DEF DepthIsScheduleLength
    <3> QED BY <3>1, <3>2
  <2>8. Len(calls') <= MaxDepth /\ Len(schedule') = Len(calls') - 1
    BY <2>3, <2>4, <2>5
  <2> QED BY <1>0, <2>1, <2>2, <2>4, <2>5, <2>6, <2>7, <2>8, Stands
<1>9. CASE Prune
  <2>1. TypeOK'
    BY <1>0, <1>9, EngineFrame DEF Prune, EngineUnchanged
  <2>2. result' \in Results
    BY <1>0, <1>9, CountedType DEF Prune
  <2>3. /\ calls # <<>>
        /\ Len(schedule) = Len(calls) - 1
        /\ schedule' = schedule
        /\ mode' = "loop"
    BY <1>0, <1>9 DEF Prune, EngineUnchanged, DepthIsScheduleLength
  <2>4. PICK t \in Thread : TakeUp(t)
    BY <1>9 DEF Prune
  <2>5. schedule' \in Seq(Thread)
    BY <1>0, <2>3 DEF SearchOK
  <2> QED BY <1>0, <2>1, <2>2, <2>3, <2>4, <2>5, StandsTakeUp
<1>10. CASE Try
  <2>1. /\ calls # <<>>
        /\ Len(schedule) = Len(calls) - 1
        /\ mode' = "check"
        /\ result' = result
    BY <1>0, <1>10 DEF Try, DepthIsScheduleLength
  <2>2. PICK t \in Thread : /\ schedule' = Append(schedule, t)
                            /\ Step(t)
                            /\ TakeUp(t)
    BY <1>10 DEF Try
  <2>3. TypeOK'
    BY <1>0, <2>2, ThreadTypeStep
  <2>4. Len(calls) \in Nat
    BY <1>0 DEF SearchOK
  <2>5. schedule' \in Seq(Thread) /\ Len(schedule') = Len(calls)
    BY <1>0, <2>1, <2>2, <2>4, AppendType DEF SearchOK
  <2> QED BY <1>0, <2>1, <2>2, <2>3, <2>5, StandsTakeUp
<1>11. CASE ReportViolation
  <2>1. calls # <<>> /\ Restore
    BY <1>0, <1>11 DEF ReportViolation, SearchOK
  <2>2. /\ TypeOK'
        /\ schedule' \in Seq(Thread)
        /\ Len(schedule') = Len(calls) - 1
    BY <2>1, RestoreType
  <2>3. result' \in Results
    BY <1>0, <1>11, CountedType, RecordedType DEF ReportViolation, SearchOK
  <2>4. Leave \/ Continue
    BY <1>11 DEF ReportViolation
  <2> QED BY <1>0, <2>1, <2>2, <2>3, <2>4, StandsLeave, StandsContinue
<1>12. CASE Descend
  BY <1>0, <1>12, StandsStill DEF Descend
<1>13. CASE BackUp
  <2>1. calls # <<>> /\ Restore /\ result' = result
    BY <1>13 DEF BackUp
  <2>2. /\ TypeOK'
        /\ schedule' \in Seq(Thread)
        /\ Len(schedule') = Len(calls) - 1
    BY <2>1, RestoreType
  <2>3. Leave \/ Continue
    BY <1>13 DEF BackUp
  <2> QED BY <1>0, <2>1, <2>2, <2>3, StandsLeave, StandsContinue
<1>14. CASE EndLoop
  <2>1. TypeOK'
    BY <1>0, <1>14, EngineFrame DEF EndLoop, EngineUnchanged
  <2>2. /\ calls # <<>> /\ Leave
        /\ schedule' = schedule /\ result' = result
        /\ Len(schedule) = Len(calls) - 1
    BY <1>0, <1>14 DEF EndLoop, EngineUnchanged, DepthIsScheduleLength
  <2> QED BY <1>0, <2>1, <2>2, StandsLeave DEF SearchOK
<1>15. CASE Finish
  BY <1>0, <1>15, StandsStill DEF Finish
<1> QED BY <1>1, <1>2, <1>3, <1>4, <1>5, <1>6, <1>7, <1>8, <1>9, <1>10, <1>11,
           <1>12, <1>13, <1>14, <1>15 DEF SearchNext, Search

-----------------------------------------------------------------------------
(* The minimizer *)

MinimizerOK ==
  /\ plan \in Seq(Thread) /\ at \in Nat \ {0}
  /\ trace \in Seq(Thread)
  /\ chunk \in Nat /\ start \in Nat

LEMMA WithoutType ==
  ASSUME NEW s \in Seq(Thread), NEW from \in Nat, NEW n \in Nat, from + n <= Len(s)
  PROVE  Without(s, from, n) \in Seq(Thread)
<1>1. \A i \in 1 .. from : s[i] \in Thread
  OBVIOUS
<1>2. \A i \in from + n + 1 .. Len(s) : s[i] \in Thread
  OBVIOUS
<1>3. SubSeq(s, 1, from) \in Seq(Thread)
  BY <1>1, SubSeqProperties
<1>4. SubSeq(s, from + n + 1, Len(s)) \in Seq(Thread)
  <2>1. from + n + 1 \in Int /\ Len(s) \in Int
    OBVIOUS
  <2> QED BY <1>2, <2>1, SubSeqProperties
<1> QED BY <1>3, <1>4 DEF Without

LEMMA BeginType ==
  ASSUME TypeOK, NEW s \in Seq(Thread), Begin(s)
  PROVE  TypeOK' /\ plan' \in Seq(Thread) /\ at' \in Nat \ {0}
<1>1. ValidScenario(scenario) /\ FitsArrays(scenario)
  BY DEF TypeOK
<1>2. Reset(scenario) \in SavedEngines
  BY <1>1, ResetType
<1>3. Load(Reset(scenario)) /\ plan' = s /\ at' = 1
  BY DEF Begin
<1>4. TypeOK'
  BY <1>1, <1>2, <1>3, LoadType
<1> QED BY <1>3, <1>4

(* It leaves the activation records as the search did: empty *)
LEMMA MinimizerStep ==
  ASSUME SearchInv, MinimizerOK, Minimizing
  PROVE  SearchInv' /\ MinimizerOK'
<1>0. TypeOK /\ SearchOK /\ DepthIsScheduleLength /\ result \in Results
  BY DEF SearchInv, SearchOK
<1>1. ASSUME TypeOK', UNCHANGED <<calls, schedule, result, scenario>>,
             \/ mode' \in {"reproduce", "minimize", "trial", "confirm"}
             \/ mode' = mode
      PROVE  SearchInv'
  <2>1. SearchOK'
    BY <1>0, <1>1 DEF SearchOK, Frames, SavedEngines
  <2>2. DepthIsScheduleLength'
    BY <1>0, <1>1 DEF DepthIsScheduleLength
  <2> QED BY <1>1, <2>1, <2>2 DEF SearchInv
<1>2. CASE Reproduce
  <2>1. result.failing_trace \in Seq(Thread)
    BY <1>0 DEF Results
  <2>2. TypeOK' /\ plan' \in Seq(Thread) /\ at' \in Nat \ {0}
    BY <1>0, <1>2, <2>1, BeginType DEF Reproduce
  <2> QED BY <1>1, <1>2, <2>1, <2>2 DEF Reproduce, Begin, Load, Goto, MinimizerOK
<1>3. CASE Minimize \/ HalveChunk
  <2>1. TypeOK'
    BY <1>0, <1>3, EngineFrame DEF Minimize, HalveChunk
  <2>2. Len(trace) \div 2 \in Nat /\ chunk \div 2 \in Nat
    BY DEF MinimizerOK
  <2> QED BY <1>1, <1>3, <2>1, <2>2
       DEF Minimize, HalveChunk, Goto, MinimizerOK, replayVars, vars
<1>4. CASE TryWithout
  <2>1. Without(trace, start, chunk) \in Seq(Thread)
    BY <1>4, WithoutType DEF TryWithout, MinimizerOK
  <2>2. TypeOK' /\ plan' \in Seq(Thread) /\ at' \in Nat \ {0}
    BY <1>0, <1>4, <2>1, BeginType DEF TryWithout
  <2> QED BY <1>1, <1>4, <2>2
       DEF TryWithout, Begin, Load, Goto, MinimizerOK, minimizeVars
<1>5. CASE JudgeTrial
  <2>1. TypeOK'
    BY <1>0, <1>5, EngineFrame DEF JudgeTrial
  <2>2. start + chunk \in Nat
    BY DEF MinimizerOK
  <2> QED BY <1>1, <1>5, <2>1, <2>2 DEF JudgeTrial, Goto, MinimizerOK, replayVars, vars
<1>6. CASE Confirm
  <2>1. TypeOK' /\ plan' \in Seq(Thread) /\ at' \in Nat \ {0}
    BY <1>0, <1>6, BeginType DEF Confirm, MinimizerOK
  <2> QED BY <1>1, <1>6, <2>1 DEF Confirm, Begin, Load, Goto, MinimizerOK, minimizeVars
<1>7. CASE Replaying
  <2>1. TypeOK' /\ plan' \in Seq(Thread) /\ at' \in Nat \ {0}
    BY <1>0, <1>7, ReplayStep DEF Replaying, MinimizerOK
  <2>2. scenario' = scenario
    BY <1>7, ReplayScenario DEF Replaying, MinimizerOK
  <2> QED BY <1>1, <1>7, <2>1, <2>2
       DEF Replaying, searchVars, minimizeVars, MinimizerOK
<1> QED BY <1>2, <1>3, <1>4, <1>5, <1>6, <1>7 DEF Minimizing

(* The inductive invariant of the search and the minimizer together *)
LEMMA SearchInvCorrect ==
  MinimizerSpec /\ FitsArrays(scenario) => [](SearchInv /\ MinimizerOK)
<1> DEFINE IInv == SearchInv /\ MinimizerOK
<1>1. MinimizerInit /\ FitsArrays(scenario) => IInv
  <2> SUFFICES ASSUME MinimizerInit, FitsArrays(scenario)
               PROVE  IInv
    OBVIOUS
  <2>1. TypeOK
    BY TypeInit DEF MinimizerInit, SearchInit
  <2>2. result \in Results
    BY DEF MinimizerInit, SearchInit, Results, NoTrace
  <2> QED BY <2>1, <2>2, SearchAssumption
       DEF MinimizerInit, SearchInit, SearchInv, SearchOK, DepthIsScheduleLength,
           MinimizerOK
<1>2. IInv /\ [MinimizerNext]_everything => IInv'
  <2> SUFFICES ASSUME IInv, [MinimizerNext]_everything
               PROVE  IInv'
    OBVIOUS
  <2>1. CASE SearchNext /\ UNCHANGED <<replayVars, minimizeVars>>
    BY <2>1, SearchStep DEF MinimizerOK, replayVars, minimizeVars
  <2>2. CASE Minimizing
    BY <2>2, MinimizerStep
  <2>3. CASE UNCHANGED everything
    <3>1. UNCHANGED <<vars, calls, schedule, result, mode, plan, at, trace, chunk, start>>
      BY <2>3 DEF everything, allVars, searchVars, replayVars, minimizeVars
    <3>2. TypeOK'
      BY <3>1, EngineFrame DEF SearchInv
    <3>3. scenario' = scenario
      BY <3>1 DEF vars
    <3> QED BY <3>1, <3>2, <3>3
         DEF SearchInv, SearchOK, Frames, SavedEngines, DepthIsScheduleLength, MinimizerOK
  <2> QED BY <2>1, <2>2, <2>3 DEF MinimizerNext
<1> QED BY <1>1, <1>2, PTL DEF MinimizerSpec

(* Whatever the configuration and the scenario, and whatever the           *)
(* minimizer replays in the end: the recursion of explore_dfs, its save    *)
(* stack and the recorded schedule stay in step and within their arrays,   *)
(* and so do all arrays of the engine they save and restore.               *)
THEOREM SearchStaysInBounds ==
  MinimizerSpec /\ FitsArrays(scenario) => [](TypeOK /\ DepthIsScheduleLength)
<1>1. SearchInv /\ MinimizerOK => TypeOK /\ DepthIsScheduleLength
  BY DEF SearchInv
<1> QED BY <1>1, SearchInvCorrect, PTL

-----------------------------------------------------------------------------
(* What is reported *)

SavedOrderly == \A d \in 1 .. Len(calls) : OrderlyIn(calls[d].engine, scenario)

(* Neither the engine nor a saved one is ever out of order, if the threads *)
(* make no mistake; so nothing can be reported but a deadlock.             *)
ReportInv ==
  /\ scenario \in Scenarios
  /\ Disciplined(scenario) => Orderly /\ SavedOrderly
  /\ ReportsAreTrue

LEMMA SavedStay ==
  ASSUME SearchOK, SavedOrderly, scenario' = scenario,
         \/ UNCHANGED calls
         \/ calls # <<>> /\ Leave
         \/ calls # <<>> /\ \E t \in Thread : TakeUp(t)
  PROVE  SavedOrderly'
<1>1. CASE UNCHANGED calls
  BY <1>1 DEF SavedOrderly
<1>2. CASE calls # <<>> /\ Leave
  <2>1. /\ Len(calls') = Len(calls) - 1
        /\ \A d \in 1 .. Len(calls') : calls'[d] = calls[d]
    BY <1>2, LeaveType
  <2>2. Len(calls) \in Nat
    BY DEF SearchOK
  <2> QED BY <2>1, <2>2 DEF SavedOrderly
<1>3. CASE calls # <<>> /\ \E t \in Thread : TakeUp(t)
  <2>1. /\ Len(calls') = Len(calls)
        /\ \A d \in 1 .. Len(calls') : calls'[d].engine = calls[d].engine
    BY <1>3, TakeUpType
  <2> QED BY <2>1 DEF SavedOrderly
<1> QED BY <1>1, <1>2, <1>3

LEMMA SavedGrow ==
  ASSUME TypeOK, SearchOK, Disciplined(scenario), Orderly, SavedOrderly, Expand,
         scenario' = scenario
  PROVE  SavedOrderly'
<1>1. /\ Len(calls') = Len(calls) + 1
      /\ \A d \in 1 .. Len(calls) : calls'[d] = calls[d]
      /\ calls'[Len(calls) + 1].engine = EngineState
  BY EnterType
<1>2. OrderlyIn(EngineState, scenario)
  BY SavedIsEngine DEF Orderly, Calm
<1>3. Len(calls) \in Nat
  BY DEF SearchOK
<1> SUFFICES ASSUME NEW d \in 1 .. Len(calls')
             PROVE  OrderlyIn(calls'[d].engine, scenario)
  BY DEF SavedOrderly
<1>4. CASE d = Len(calls) + 1
  BY <1>1, <1>2, <1>4
<1>5. CASE d # Len(calls) + 1
  <2>1. d \in 1 .. Len(calls)
    BY <1>1, <1>3, <1>5
  <2> QED BY <1>1, <2>1 DEF SavedOrderly
<1> QED BY <1>4, <1>5

LEMMA OrderlyFrame ==
  ASSUME TypeOK, Disciplined(scenario), Orderly, UNCHANGED vars
  PROVE  Orderly'
  BY OrderlyStep

LEMMA RestoreOrderly ==
  ASSUME SearchOK, TypeOK', SavedOrderly, calls # <<>>, Restore
  PROVE  Orderly'
<1>1. Len(calls) \in 1 .. Len(calls) /\ Top = calls[Len(calls)] /\ Top \in Frames
  BY TopType
<1>2. Top.engine \in SavedEngines /\ OrderlyIn(Top.engine, scenario)
  BY <1>1 DEF SavedOrderly, Frames
<1> QED BY <1>2, LoadOrderly DEF Restore

LEMMA SearchKeepsOrder ==
  ASSUME SearchInv, SearchNext, TypeOK', scenario \in Scenarios,
         Disciplined(scenario), Orderly, SavedOrderly
  PROVE  Orderly' /\ SavedOrderly'
<1>0. TypeOK /\ SearchOK /\ DepthIsScheduleLength /\ scenario' = scenario
  BY ScenarioFixed DEF SearchInv
<1>1. ASSUME EngineUnchanged
      PROVE  Orderly'
  BY <1>0, <1>1, OrderlyFrame DEF EngineUnchanged
<1>2. CASE Walk
  <2>1. Orderly'
    BY <1>0, <1>2, OrderlyStep DEF Walk
  <2> QED BY <1>0, <1>2, <2>1, SavedStay DEF Walk, searchVars
<1>3. CASE Explore
  <2>1. Orderly'
    BY <1>3, ResetOrderly DEF Explore
  <2> QED BY <1>0, <1>3, <2>1, SavedStay DEF Explore
<1>4. CASE Bar \/ HitDepthLimit \/ Complete \/ ReportDeadlock \/ Revisit
  <2>1. EngineUnchanged /\ UNCHANGED calls
    BY <1>4 DEF Bar, HitDepthLimit, Complete, ReportDeadlock, Revisit, ReturnAtOnce
  <2> QED BY <1>0, <1>1, <2>1, SavedStay
<1>5. CASE Descend \/ Finish
  BY <1>0, <1>1, <1>5, SavedStay DEF Descend, Finish
<1>6. CASE Expand
  BY <1>0, <1>1, <1>6, SavedGrow DEF Expand
<1>7. CASE Prune
  <2>1. calls # <<>> /\ EngineUnchanged /\ \E t \in Thread : TakeUp(t)
    BY <1>0, <1>7 DEF Prune, DepthIsScheduleLength
  <2> QED BY <1>0, <1>1, <2>1, SavedStay
<1>8. CASE Try
  <2>1. calls # <<>>
    BY <1>0, <1>8 DEF Try, DepthIsScheduleLength
  <2>2. PICK t \in Thread : Step(t) /\ TakeUp(t)
    BY <1>8 DEF Try
  <2>3. Orderly'
    BY <1>0, <2>2, MoveOrderly
  <2> QED BY <1>0, <2>1, <2>2, <2>3, SavedStay
<1>9. CASE ReportViolation \/ BackUp
  <2>1. calls # <<>> /\ Restore /\ (Leave \/ Continue)
    BY <1>0, <1>9 DEF ReportViolation, BackUp, SearchOK
  <2>2. Orderly'
    BY <1>0, <2>1, RestoreOrderly
  <2> QED BY <1>0, <2>1, <2>2, SavedStay DEF Continue
<1>10. CASE EndLoop
  <2>1. calls # <<>> /\ EngineUnchanged /\ Leave
    BY <1>0, <1>10 DEF EndLoop, DepthIsScheduleLength
  <2> QED BY <1>0, <1>1, <2>1, SavedStay
<1> QED BY <1>2, <1>3, <1>4, <1>5, <1>6, <1>7, <1>8, <1>9, <1>10
     DEF SearchNext, Search

(* A report that says no more than before *)
LEMMA ReportStands ==
  ASSUME ReportsAreTrue, scenario' = scenario,
         \/ UNCHANGED result
         \/ /\ result'.violations = result.violations
            /\ result'.deadlocks = result.deadlocks
            /\ result'.failing_trace = result.failing_trace
  PROVE  ReportsAreTrue'
<1>1. /\ result'.violations = result.violations
      /\ result'.deadlocks = result.deadlocks
      /\ result'.failing_trace = result.failing_trace
  OBVIOUS
<1> QED BY <1>1 DEF ReportsAreTrue, BugFound, OfType, ResType

LEMMA SearchKeepsTrue ==
  ASSUME SearchInv, SearchNext, ReportInv
  PROVE  ReportsAreTrue'
<1>0. /\ TypeOK /\ SearchOK /\ result \in Results /\ scenario' = scenario
      /\ ReportsAreTrue /\ (Disciplined(scenario) => Orderly)
  BY ScenarioFixed DEF SearchInv, SearchOK, ReportInv
<1>1. CASE \/ Walk \/ Explore \/ Bar \/ Try \/ Descend \/ BackUp \/ EndLoop \/ Finish
  <2>1. UNCHANGED result
    BY <1>1 DEF Walk, searchVars, Explore, Bar, Try, Descend, BackUp, EndLoop, Finish
  <2> QED BY <1>0, <2>1, ReportStands
<1>2. CASE HitDepthLimit \/ Complete \/ Revisit \/ Expand \/ Prune
  <2>1. /\ result'.violations = result.violations
        /\ result'.deadlocks = result.deadlocks
        /\ result'.failing_trace = result.failing_trace
    BY <1>0, <1>2 DEF HitDepthLimit, Complete, Revisit, Expand, Prune, Results
  <2> QED BY <1>0, <2>1, ReportStands
<1>3. CASE ReportDeadlock
  <2> DEFINE res == [result EXCEPT !.deadlocks = @ + 1]
  <2>1. res \in Results /\ res.deadlocks > 0 /\ res.violations = result.violations
    <3>1. result.deadlocks \in Nat
      BY <1>0 DEF Results
    <3>2. result.deadlocks + 1 > 0
      BY <3>1
    <3> QED BY <1>0, <3>2, CountedType DEF Results
  <2>2. result' = Recorded(res)
    BY <1>3 DEF ReportDeadlock
  <2> HIDE DEF res
  <2>3. result'.deadlocks > 0 /\ result'.violations = result.violations
    BY <2>1, <2>2 DEF Recorded, Results
  <2>4. Ordered(scenario) => ~Disciplined(scenario)
    BY <1>0, <1>3, NeverStuck DEF ReportDeadlock, OrderedNeverStuck
  <2> QED BY <1>0, <2>3, <2>4 DEF ReportsAreTrue, OfType, ResType
<1>4. CASE ReportViolation
  <2>1. Violation
    BY <1>4 DEF ReportViolation
  <2>2. NoFalseAlarm
    BY <1>0, NoAlarm
  <2> QED BY <1>0, <2>1, <2>2 DEF NoFalseAlarm, ReportsAreTrue, OfType, ResType
<1> QED BY <1>1, <1>2, <1>3, <1>4 DEF SearchNext, Search

LEMMA SearchKeepsReport ==
  ASSUME SearchInv, SearchNext, TypeOK', ReportInv
  PROVE  ReportInv'
<1>1. scenario' = scenario
  BY ScenarioFixed
<1>2. ReportsAreTrue'
  BY SearchKeepsTrue
<1>3. Disciplined(scenario) => Orderly' /\ SavedOrderly'
  BY SearchKeepsOrder DEF ReportInv
<1> QED BY <1>1, <1>2, <1>3 DEF ReportInv

LEMMA MinimizerKeepsReport ==
  ASSUME SearchInv, MinimizerOK, Minimizing, TypeOK', ReportInv
  PROVE  ReportInv'
<1>0. TypeOK /\ SearchOK
  BY DEF SearchInv
<1>1. scenario' = scenario /\ UNCHANGED <<calls, result>>
  <2>1. CASE Replaying
    BY <2>1, ReplayScenario DEF Replaying, searchVars, MinimizerOK
  <2>2. CASE ~Replaying
    BY <2>2 DEF Minimizing, Reproduce, Minimize, TryWithout, HalveChunk, JudgeTrial,
                Confirm, Begin, Load, Goto, vars
  <2> QED BY <2>1, <2>2
<1>2. ReportsAreTrue'
  BY <1>1, ReportStands DEF ReportInv
<1>3. ASSUME Disciplined(scenario)
      PROVE  Orderly' /\ SavedOrderly'
  <2>0. scenario \in Scenarios /\ Orderly /\ SavedOrderly
    BY <1>3 DEF ReportInv
  <2>1. SavedOrderly'
    BY <1>0, <1>1, <2>0, SavedStay
  <2>2. CASE Reproduce \/ TryWithout \/ Confirm
    <3>1. Load(Reset(scenario))
      BY <2>2 DEF Reproduce, TryWithout, Confirm, Begin
    <3> QED BY <1>3, <2>0, <2>1, <3>1, ResetOrderly
  <2>3. CASE Minimize \/ HalveChunk \/ JudgeTrial
    <3>1. UNCHANGED vars
      BY <2>3 DEF Minimize, HalveChunk, JudgeTrial
    <3> QED BY <1>0, <1>3, <2>0, <2>1, <3>1, OrderlyFrame
  <2>4. CASE Replaying
    <3>1. \E t \in Thread : Step(t) \/ Refused(t)
      BY <2>4 DEF Replaying, ReplayNext, Follow, GiveUp, ReplayEnded, MinimizerOK
    <3> QED BY <1>0, <1>3, <2>0, <2>1, <3>1, MoveOrderly
  <2> QED BY <2>2, <2>3, <2>4 DEF Minimizing
<1> QED BY <1>1, <1>2, <1>3 DEF ReportInv

(* A scenario whose threads make no mistake is never reported for anything *)
(* but a deadlock, nor for that if its locks are in order: whatever the    *)
(* configuration, the limits and the reductions, and however often the     *)
(* engine is saved, restored and reset on the way.                         *)
THEOREM SearchReportsAreTrue == MinimizerSpec /\ FitsArrays(scenario) => []ReportsAreTrue
<1>1. MinimizerInit /\ FitsArrays(scenario) => ReportInv
  <2> SUFFICES ASSUME MinimizerInit, FitsArrays(scenario)
               PROVE  ReportInv
    OBVIOUS
  <2>1. Init /\ calls = <<>> /\ result.violations = 0 /\ ~BugFound
    BY DEF MinimizerInit, SearchInit, BugFound
  <2>2. TypeOK /\ scenario \in Scenarios
    BY <2>1, TypeInit DEF Init
  <2>3. Disciplined(scenario) => Orderly
    BY <2>1, <2>2, InitOrderly
  <2> QED BY <2>1, <2>2, <2>3 DEF ReportInv, SavedOrderly, ReportsAreTrue
<1>2. /\ SearchInv /\ MinimizerOK /\ ReportInv
      /\ (SearchInv /\ MinimizerOK)' /\ [MinimizerNext]_everything
      => ReportInv'
  <2> SUFFICES ASSUME SearchInv, MinimizerOK, ReportInv, TypeOK',
                      [MinimizerNext]_everything
               PROVE  ReportInv'
    BY DEF SearchInv
  <2>1. CASE SearchNext /\ UNCHANGED <<replayVars, minimizeVars>>
    BY <2>1, SearchKeepsReport
  <2>2. CASE Minimizing
    BY <2>2, MinimizerKeepsReport
  <2>3. CASE UNCHANGED everything
    <3>1. UNCHANGED <<vars, calls, result>> /\ scenario' = scenario
      BY <2>3 DEF everything, allVars, searchVars, vars
    <3>2. Disciplined(scenario) => Orderly'
      BY <3>1, OrderlyFrame DEF SearchInv, ReportInv
    <3>3. Disciplined(scenario) => SavedOrderly'
      BY <3>1, SavedStay DEF SearchInv, ReportInv
    <3>4. ReportsAreTrue'
      BY <3>1, ReportStands DEF ReportInv
    <3> QED BY <3>1, <3>2, <3>3, <3>4 DEF ReportInv
  <2> QED BY <2>1, <2>2, <2>3 DEF MinimizerNext
<1>3. ReportInv => ReportsAreTrue
  BY DEF ReportInv
<1> QED BY <1>1, <1>2, <1>3, SearchInvCorrect, PTL DEF MinimizerSpec
=============================================================================
