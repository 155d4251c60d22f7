# SMASH in TLA+

SMASH is a stateless model checker for ChibiOS-style concurrency. A *scenario*
gives each simulated thread a list of actions on kernel objects (mutexes,
semaphores, condition variables, mailboxes). The *engine* executes one action of
one thread at a time on a deterministic model of the ChibiOS primitives. The
*explorer* drives the engine through the interleavings depth first, with
partial-order reduction and a cache of visited states, and a set of *checks*
judges every state it reaches. A failing schedule is *minimized*, and a scenario
can be *exported* as a formula for an SMT solver.

This directory specifies all of these in TLA+, model-checks them with TLC, and
proves their main safety properties with TLAPS for every scenario of every size.
The question throughout is whether a verdict of SMASH can be relied upon: does
the engine do what it says the ChibiOS primitives do, are the checks neither too
weak nor too strict, and does the search see, report and shorten what is there?

## 1. Inventory

Line numbers are those of the sources under `src/`.

| Component | Source | State it keeps | Operations | Modelled |
|---|---|---|---|---|
| Scenario | `include/smash.h`, `smash_scenario_validate` | programs, priorities, resource types, initial counts, capacities; constant during a search | validate | `Kernel` |
| Execution engine | `src/engine.c` | per thread: state, pc, blocked_on, timer, API context, stack use; `failed` | init, reset, collect runnable, all done, execute step, run schedule | `Kernel`, `Engine`, `Replay` |
| ChibiOS model | `src/chibios_model.c` | per thread: priority, LIFO stack of mutexes; per resource: owner, count, wait queue, alive, ring buffer | mutex lock/unlock, semaphore wait/signal, condition wait/signal/broadcast, mailbox post/post front/fetch | `ChibiosModel` |
| Checks | `src/spec.c` | none | eight predicates, and `smash_check_all` | `SpecChecks` |
| Explorer | `src/explorer.c` | recursion stack with saved engines, recorded schedule, counters, first failing trace | `smash_explore`, `explore_dfs` | `Explorer` |
| Partial-order reduction | `src/dpor.c`, `compute_persistent_set` | sleep sets by depth | dependence test, persistent set, add to and propagate sleep sets | `Explorer` |
| State cache | `src/state.c`, `smash_capture_state` | table of snapshots | capture, lookup, insert | `Explorer` |
| Trace | `src/trace.c` | schedule being shortened | `smash_trace_minimize` | `Minimizer` |
| SMT export | `src/smt.c` | none | the four groups of assertions | `SmtExport` |
| Symbolic checker | `src/sym_engine.c` | solver context | encode, check | no, see section 6 |
| Tools | `tools/`, `hitl/` | plots, serial ports | | no |

**Interactions.** The explorer copies the engine, asks for the runnable threads
and calls `smash_execute_step` for one of them. That function first counts down
the timer of every blocked thread, then runs the current action: it calls the
ChibiOS model or changes the thread itself. The ChibiOS model is where threads
meet: an unlock or a signal advances the program counter of the *sleeping*
thread it serves, pushes the mutex on that thread's stack and makes it
runnable. After each step the explorer evaluates `smash_check_all`, recurses, and
restores its copy. The minimizer resets the engine and replays a shortened
schedule with `smash_run_schedule`, which, unlike the explorer, may pick a thread
that cannot run. There is no callback and no real concurrency; the concurrency is
the simulated one, and every order of steps is a possible execution.

**What is hard about it.**

* *Interleaving.* Waker and sleeper share the duty of completing a call. Owner
  fields, thread stacks, wait queues and program counters must agree in every
  order. Queues are unordered: `waiter_remove` moves the last entry into the gap.
* *Priority inheritance.* A boost loop walks a chain of owners that may be a
  cycle; the recalculation on unlock looks at one level and relies on the
  current priorities of the waiters to carry the rest.
* *Timeouts.* A timer that expires leaves a queue entry behind; a wake-up that
  comes first leaves the timer armed; time passes only when a thread steps.
* *Limits.* `MaxWaiters` slots per queue, a stack of mutexes that drops what does
  not fit, ring indices modulo the capacity, an ISR nesting limit, the depth, state
  and interleaving limits of the search.
* *Checks.* Evaluated after every step; one too strict reports healthy programs
  and one too weak misses the fault.
* *The search itself.* Sleep sets stored by depth, persistent sets that look one
  action ahead, snapshots that leave out part of the state, an engine that is
  saved and restored piece by piece around every branch.

`PROJECT.json` lists the hazards line by line, each with the properties aimed
at it or the reason why there is none.

**What makes each component correct.** Engine and ChibiOS model: ownership,
queues and accounting agree; priorities are inherited exactly; a release goes to
the best waiter; no signal or message is lost; no array index leaves its array; a
timed wait ends. Checks: silent on programs without a mistake, and a stuck
program is explained. Explorer, reduction and cache: a bug that some schedule
runs into is found, and a bug that is reported is real. Minimization: it ends, and
the reduced schedule still fails. Export: its models and the executions that end
well are the same orders.

## 2. Modules

| Module | Extends | What it models |
|---|---|---|
| `Kernel` | | constants, scenarios, all state of the engine, `Init` (`smash_engine_init`/`reset`), the runnable set, the timer tick, and the four ways a step leaves the scheduling state: `Stay`, `Advance`, `Block`, `WakeAndAdvance` |
| `ChibiosModel` | `Kernel` | `chibios_model.c`, one operator per entry point with all its refusals |
| `Engine` | `ChibiosModel` | `smash_execute_step`, one action per action type, and its refusal of a thread that is not ready; `Spec`, `FairSpec` |
| `SpecChecks` | `Engine` | the predicates of `spec.c` |
| `Replay` | `SpecChecks` | `smash_run_schedule` on any schedule; `refused` is its return value |
| `Explorer` | `SpecChecks` | `smash_explore` and `explore_dfs`, the persistent set, the sleep sets, the snapshot and the table |
| `Minimizer` | `Explorer`, `Replay` | `smash_trace_minimize`, between a caller's replay of what it is given (`Reproduce`) and of what it returns (`Confirm`); composes explorer, engine and minimizer |
| `SmtExport` | `Replay` | the formula of `smash_smt_export`; the engine runs freely, or along a model of the formula |
| `BoundedDeque` | | what a mailbox promises, abstractly |
| `EngineProperties` | `SpecChecks` | the properties of the engine; the instance of `BoundedDeque` and the operation each call owes it |
| `ExplorerProperties`, `SmtProperties` | `Minimizer`, `SmtExport`, and `EngineProperties` | the properties of the search and of the export |
| `DocClaims`, `SearchClaims`, `SmtClaims` | the above | statements of comments and documents that the code does not keep |
| `EngineInvariants` | `EngineProperties` | the predicates that the inductive invariants of the engine are made of |
| `TypeProofs`, `EngineProofs`, `WaitingProofs`, `InheritanceProofs`, `AccountingProofs`, `DequeProofs` | each the one before, the first `EngineInvariants` | theorems about the engine |
| `SearchProofs` | `AccountingProofs`, `ExplorerProperties` | theorems about the search, the replay and the minimizer |
| `SmtProofs` | `AccountingProofs`, `SmtProperties` | theorems about the export |
| `MCScenarios` | `EngineProperties` | notation for scenarios |
| `MCThreads`, `MCAllActions`, `MCSearch`, `MCSmt` | `MCScenarios` | scenarios of the passing runs, `MCSmt` also of a disagreement |
| `MCDocClaims`, `MCSearchClaims` | `MCScenarios` | scenarios of the disagreements |

**State of the engine.** Variables carry the names of the C fields: `pc[t]` is
`engine->threads[t].pc`, `waiters[r]` the first `waiter_count` entries of
`engine->resources[r].waiters`, `owned_mutex_stack[t]` the first `owned_count`
entries of that array, with the most recent mutex last. Threads and resources are
indices from 0 as in the code, and -1 plays the parts it plays there
(`NoThread`, `NoResource`, `NoTimeout`).
`fail` stands for `engine->failed` and holds the kind of the failure in place of
its message. The scenario is a variable chosen in `Init` and never changed, so one
run covers a whole set of scenarios.

**Scenarios.** `ValidScenario` is what `smash_scenario_validate` accepts, no less.
That is more than the engine can bear: the validator tests no mailbox capacity,
and lets `SMASH_NO_RESOURCE` pass for an action that needs a resource. `FitsArrays`
names what is missing. Where it fails, the behaviour of the C program is undefined from the first
access outside an array on, so the passing runs have scenarios that fit, the theorems carry
`FitsArrays(scenario)` as a hypothesis, and `doc_oversized_mailbox` (section 4) shows
how an accepted scenario gets there.

**Actions of the engine.** One step of the specification is one call of
`smash_execute_step` on a runnable thread, timer tick included: the operators that
set the next scheduling state are all written in terms of the ticked values, so no
action can leave the tick out. A call that may succeed, block or be refused is an
operator with these disjuncts. Once `fail` is set nothing steps any more: the
explorer backs up at that point.

**The search.** `explore_dfs` is recursive; `calls` is its stack of activation
records (the saved engine, the saved schedule, the runnable threads, the set to
explore, the threads its loop has not come to), and `mode` says where the
innermost call stands: at its head, in its loop, after a step, or returning. One
action is one path through that piece of code, with the early returns at the head
in the order of the code. The search is deterministic. What it *should* find is
laid down before it starts: from `SearchInit` an arbitrary scheduler executes the
same scenario (`Walk`), `known` records what that execution ran into, and then
the search starts on a fresh engine (`Explore`). TLC thus compares each
search with every execution of its scenario, and a property that relates `known`
to `result` says what the search must not miss.

**Minimization** shares the one engine with the search: `Begin` is
`smash_engine_init`, and `Replay` is the loop of `smash_run_schedule`, with a
picked thread that is not `READY` ticking the others' timers before the replay is
given up, which `refused` records. Nothing in the repository replays the trace before and after
`smash_trace_minimize`; `Reproduce` and `Confirm` are a caller doing so, to ask what the
two traces are worth.

**The export.** `pos` maps an action to its place in the order; `Formula(pos)` is
the conjunction of the assertions written. A model of it fixes an order of
the threads, which is what a solver's answer is replayed as.

**Left out.** Trace events and the step counter (output only), the wording of
messages and of the exported text, the machine width of priorities and counts
except in the snapshot, hash collisions (a 64-bit hash is taken to identify its
snapshot), the clock, and a schedule entry that is no thread index.
`smash_dpor_record`, `smash_dpor_analyze` and `smash_dpor_next_backtrack` are
called by nothing (`smash.h:412`).

**Definitions named `X_What`** are `X` with a plausible bug. Nothing uses them:
put in the place of `X`, each makes the property it is listed with in
`PROJECT.json` fail, which shows that the property depends on that code.

**Against the program.** Besides reading, the search model was compared with the
C code: scenarios were run through `smash_explore` with the configurations of
`MCSearch`, and counters, deadlocks, violations, failing trace and minimized trace were the
same in all of 1440 searches and 1120 minimizations. The counterexamples of
section 4 were reproduced by replaying their steps in C.

## 3. Passing runs

| Run | Instance | Bounds | Distinct states |
|---|---|---|---|
| `threads` | `MCThreads`, `FairSpec` | 3 threads, 3 places per queue; three families of scenarios, below | about 139,000 |
| `all_actions` | `MCAllActions`, `Spec` | 2 threads, one object of each type; all pairs of 31 programs | about 13,000 |
| `search` | `MCSearch`, `MinimizerSpec` | 2 threads, 2 mutexes, a semaphore, a mailbox; all multisets of 7 programs under 8 configurations; 12 levels, 12 cached states | about 143,000 |
| `smt` | `MCSmt`, `SmtSpec` | 3 threads, 2 mutexes, 2 semaphores; all multisets of 8 programs with 8 actions in all | about 83,000 |

All of them set `CHECK_DEADLOCK FALSE`. The system really stops: when all threads are
done, when a scenario deadlocks, when a step failed, or when a search has been
reported. Which of these stops are legitimate is what `DeadlockIsCircular`,
`OrderedFinish`, `StuckSendersFaceFull` and `SearchEnds` are about.

**`threads`** asks whether the primitives are right under every interleaving of three
threads. Its scenarios are of three families; most properties name the class of scenarios
they are about, and the other families then satisfy them for lack of a case.

*Untimed locks*: two mutexes and a semaphore; all multisets of 9 programs, under 5
priority assignments.

* `QueuesExact`: a wait queue holds exactly the threads now blocked on it, once
  (mailbox queues included, which the third family fills).
* `InheritanceExact`: every thread's priority is the highest base priority among
  itself and all threads that wait for it, directly or through others, cycles
  included.
* `StacksReplayPrograms`: the mutexes a thread holds are the ones its executed
  actions account for, in order.
* `SignalsConserved`: count = initial count + signals executed - waits executed.
* `DeadlockIsCircular`: in programs that release what they lock, a deadlock
  always has a circular wait for the explorer to report.
* `CircularWaitIsFinal`: a circular wait never dissolves, so it could be reported
  as soon as it closes.
* `NoFalseAlarm`: the checks stay silent on threads that use mutexes only, nest them
  and give them back, in a scenario without a semaphore that starts below zero.
* `HandoffToHighest`: a released mutex with waiters goes at once to one entitled
  to the highest priority.
* `OrderedFinish`: threads that nest mutexes in one order all finish.

Three threads are needed for an inheritance chain of two hops, for a choice between
two waiters, and for `waiter_remove` to move an entry. Five of the shapes are
disciplined, in both nesting orders, and four contain one mistake each.

*Timed calls*: a mutex and a semaphore; all multisets of 7 programs with timers of 1
to 3 ticks. What is left when calls can give up?

* `BlockedAreQueued`: a sleeper is always in the queue it sleeps on.
* `StaleEntriesBounded`: a thread has no more queue entries than the timed calls it has
  passed, plus one while it sleeps.
* `BoostsAreRepaid`: a boost given for a waiter that then gives up outlives it, but a
  thread that holds no mutex is back at its own priority.
* `TimedWaitsEnd`: a timed wait ends as long as steps are taken.

Timers of 1 to 3 ticks against three threads' steps make the timer expire before, in
the same step as and after the event it races.

*Mailboxes*: one mailbox of 1 to 3 slots; all multisets of 4 programs. Capacities 1 to 3
with four posts at either end wrap both indices around.

`MailboxIsDeque`: the ring buffer, its contents read off `mb_head`, `mb_count` and
`mb_messages`, refines `BoundedDeque`, and each step is the operation of the call that
is executed (`Delivers`): a post that gets past its action appends its own message, an
urgent post prepends it, a fetch removes the first message; a call that does not get
past its action changes nothing, and sleeps only at a full mailbox, or an empty one; no other step
changes a mailbox. The refinement alone would admit an urgent post that appends or a
post that vanishes.

`StuckSendersFaceFull`: senders and receivers sleep in one queue, and a post wakes
nobody; still, if one thread fetches from a mailbox, its senders are stuck for good
only in front of a full mailbox or together with that thread. With two consumers it
is false: with two slots and the programs `<<Fetch>>`, `<<Post, Post, Post>>`,
`<<Post>>`, `<<Fetch>>` a fetch wakes the other receiver in place of a sender, and
the sender sleeps for ever in front of a free slot.

**`all_actions`** runs every action type, used well and badly, including calls on
objects of the wrong type and destroyed objects. `TypeOK` covers the bounds of
every C array. `StacksMatchOwners`: a mutex is on its owner's stack once and on
no other. `NoSleepInCriticalSection`: mutex and semaphore calls never sleep while
`sys_lock_depth` is positive, through all nestings of interrupts and locks.
`DestroyedObjectsUntouched`: nothing happens to a destroyed mutex or semaphore
until it is created again. With two places in a wait queue, expired timers fill
it, so the overflow refusals happen.

**`search`** asks whether a search finds what there is and whether what it reports
is true.

* `BugsAreFound`: a search that no limit cut short has found a deadlock if some
  schedule deadlocks and a violation if some schedule runs into one (or a bug, if
  it stops at the first). With the state cache this is claimed for scenarios
  without timed calls and condition variables, and with the partial-order
  reduction for threads that share no resource; section 4 shows that it fails beyond that.
* `ReportsAreTrue`: threads that make no mistake are never reported for a failed call or
  check, and not for a deadlock either if they take their locks in order, however often
  the engine was copied and put back on the way.
* `DepthIsScheduleLength`: recursion depth, saved schedules and recorded schedule
  agree at every point, so none of the three arrays of `SMASH_MAX_DEPTH` entries
  overflows and no step is dropped from a schedule.
* `ReportReplays`: the failing trace, replayed on a fresh engine, meets the bug at its
  last step and nothing wrong before, and none of its picks is refused.
* `MinimizedStillFails`: the minimized one ends in a bug too, and it is no longer. Whether
  each of its picks is accepted is left open, as `smash_trace_minimize` does not ask;
  TLC meets no refused pick in these scenarios.
* `SearchEnds`: every search ends, also of threads that never do, and its report
  is minimized and confirmed.

The programs deadlock, fail, time out and run for ever in all combinations. The
depth limit of 11 lies above the longest finite schedule; other configurations
have limits that bite: `max_depth` 3 and 0 (replaced by the maximum), one or two
interleavings. The table of 12 snapshots fills in many of the searches. Two
threads keep the number of executions to compare with small; 2000 searches of random
untimed scenarios of three threads were compared with exhaustive search in C
and agreed with the claim for the cache.

**`smt`** asks whether the formula says what the engine does.
`ExecutionsAreModels`: the order in which an execution that ends well completes
its actions satisfies the formula, so "unsatisfiable" means that no schedule
ends well. `ModelsAreExecutions`: where threads give back what they lock and
no two waits compete for a signal, every model, replayed, runs to the end without
anyone blocking. So a model is a schedule that ends well; section 4 sets this against
what `Z3_WORKFLOW.md` makes of it. Eight actions on three threads allow two sections of one
thread on one mutex (which unlock belongs to which lock) and a wait among
sections.

Priority inheritance, accounting and queue exactness are stated for scenarios
without timed calls (and, where noted, without condition variables), because the
code does not keep them otherwise: see the next section.

### Fairness

`Spec`, `SmtSpec` and `ReplaySpec` have none. `FairSpec` adds `WF_vars(Next)`:
while some thread is runnable and nothing failed, some thread steps. The code
justifies exactly this: a path of `explore_dfs` continues while
`smash_collect_runnable` is not empty and no check failed. It promises nothing to an
individual thread, since the explorer takes every choice; so there is no fairness
per thread, and `OrderedFinish` and `TimedWaitsEnd` hold under every schedule.
`TimedWaitsEnd` needs steps to be taken for ever, which is why it is stated for
scenarios in which one thread sits on an action the engine does not handle.

`MinimizerSpec` has weak fairness of the search and of the minimization: each is one
sequential program that keeps running until it returns. The walk has none: it
stands for an arbitrary execution to compare with.

### Constants

`MaxWaiters` is `SMASH_MAX_WAITERS`, `MaxOwned` is `SMASH_MAX_RESOURCES`,
`MaxIsrDepth` is `SMASH_MAX_ISR_DEPTH`, `MaxDepth` is `SMASH_MAX_DEPTH`,
`MaxStates` is `SMASH_MAX_STATES`. They are set small so that queues, nesting,
searches and the table reach their limits. Programs have at most five actions,
which bounds every counter; no state constraint is used.

## 4. Disagreements

Eight runs show, with the smallest scenario that does, a statement of the
repository that the code does not keep. Each is expected to be violated.

| Run | Statement | What the code does |
|---|---|---|
| `doc_timeout_queue` | "Every waiter must be a valid thread ID in a blocked state" (`spec.c:91`) | an expired timer leaves the thread in the queue; the ordinary timeout of `test_timeout.c`, scenario 1, is reported as a violation |
| `doc_leftover_timer` | "-1 means no timeout (infinite wait ...)" (`smash.h:82`) | a handoff does not clear the timer, and the thread's next untimed wait expires |
| `doc_cond_frees_mutex` | "No thread should be waiting on a free mutex" (`spec.c:76`) | `smash_cond_wait` frees the mutex without serving its queue |
| `doc_oversized_mailbox` | "All arrays bounds-checked against `SMASH_MAX_*` constants" (`SAFETY_ANALYSIS.md:44`); validation "catches OOB resource IDs and other mis-configurations" (`engine.c:10`) | `smash_scenario_validate` tests no capacity and `smash_mb_post` only that one: the post after `SMASH_MAX_WAITERS` others stores past `mb_messages` (`chibios_model.c:522`, `smash.h:119`) |
| `doc_persistent_sets` | "Exploring only the persistent set is sound" (`explorer.c:12`) | the set compares next actions only: when the second thread's conflict is one step away, the first thread alone is explored and the deadlock is missed |
| `doc_sleep_sets` | "Sleep sets do not miss bugs" (`ENHANCEMENT_SLEEP_SETS.md:151`) | entries are kept by depth and survive into unrelated states; all actions of the basic mailbox scenario are mutually dependent, and its deadlock is missed |
| `doc_caching` | "No bugs missed due to caching" (`SAFETY_ANALYSIS.md:187`) | the snapshot leaves out timers and queues, so a state with a running timer is taken for one without and is not expanded |
| `doc_models_are_bugs` | "Z3 found a valid schedule (SAT) = bug exists!" (`Z3_WORKFLOW.md:143`) | the formula says that sections do not overlap (`smt.c:92`) and nothing that asks for a failure: for the ABBA deadlock its models are the serial orders, which run to the end |

The counterexamples of the engine and of the search were reproduced in C, the oversized
mailbox excepted, which is read off the bounds. For the three of the search that is a
search with the option on that reports nothing, next to one with it off that
reports the bug. `tests/test_chibios_v2.c` passes its mailbox cases for this
reason: with `enable_dpor` and `enable_state_caching` off the same test counts
deadlocks in each of its five cases.

`doc_oversized_mailbox` stands for both gaps of the validator. The other is
`SMASH_NO_RESOURCE` (-1) on an action that needs a resource: `engine.c:487` and `:141` let it
pass, and the call reads `resources[-1]`. In `doc_models_are_bugs` the model printed in
`Z3_WORKFLOW.md:85-95` and read as a deadlock has both threads inside sections of `M1` at
once; the formula that `smash_smt_export` writes rules it out. For scenarios like this one
`ModelsAreExecutions` says, and `ModelsRunThrough` proves, the contrary of what the document says.

Further observations, without a run of their own:

* Timed calls are there to "prevent deadlocks" (`test_timeout.c:8`), but if every
  thread sleeps with a timer nobody steps, no time passes and a deadlock is
  reported (`explorer.c:146`).
* "Blocking operations in ISR/SYS_LOCK context are violations" (`smash.h:150`), but
  unlocking inside an interrupt handler restores thread context (`engine.c:291`)
  and a blocking call after it goes unreported.
* A receiver that finds its mailbox empty is never woken by a post; the
  basic mailbox scenario, which `test_chibios_v2.c:241` expects to run without
  deadlock, has one. A fetch that should "wake blocked sender if any"
  (`chibios_model.c:608`) wakes the first entry of a queue shared with receivers.
* A search with `max_depth` equal to `SMASH_MAX_DEPTH`, or 0, that is cut short at that depth
  prints no warning: the hard guard (`explorer.c:128`) returns first. `Exhaustive` excludes it.
* A minimized schedule may fail in another way than the original, since only
  failure is tested, and `smash_trace_minimize` ignores what `smash_run_schedule`
  returned (`trace.c:154`). `MinimizedStillFails` says no more than the code keeps.
* The formula pairs every wait with some earlier signal, so two waits may share
  one, and leaves out locks that are never given back (`smt.c:129`, `smt.c:66`).
  `ModelsAreExecutions` is stated without them.
* The formula has an event for every action, those after an `ACT_DONE` included, which are
  never executed; so it may have no model although every schedule ends well.
  `ExecutionsAreModels` is stated for programs without `ACT_DONE`.
* Condition-variable and mailbox calls test neither `alive` nor `exec_ctx`.
* A thread woken from a condition wait does not reacquire the mutex; it runs its
  wait again and is refused. `V2_IMPLEMENTATION_STATUS.md:178` lists this as open.
* A circular wait is reported only once nothing can run, because
  `smash_check_all` leaves the check out (`spec.c:373`). `CircularWaitIsFinal` shows
  that an early report would raise no false alarm.
* The switch of `smash_execute_step` has no case for the timeout variants of
  condition and mailbox calls: the thread stays on the action for ever. Modelled
  as `Unhandled`.

## 5. Proofs

| Theorem | Module | Statement |
|---|---|---|
| `TypeCorrect` | `TypeProofs` | `Spec => []TypeOK` |
| `SleepersAreQueued` | `EngineProofs` | `Spec => []BlockedAreQueued` |
| `OwnersMatchStacks` | `EngineProofs` | `Spec => []StacksMatchOwners` |
| `CriticalSectionsStayAwake` | `EngineProofs` | `Spec => []NoSleepInCriticalSection` |
| `DestroyedStayUntouched` | `EngineProofs` | `Spec => DestroyedObjectsUntouched` |
| `BoostsEnd` | `EngineProofs` | `Spec => []BoostsAreRepaid` |
| `StaleEntriesCounted` | `EngineProofs` | `Spec => []StaleEntriesBounded` |
| `QueuesAreExact` | `WaitingProofs` | `Spec => []QueuesExact` |
| `CircularWaitsLast` | `WaitingProofs` | `Spec => CircularWaitIsFinal` |
| `PrioritiesAreInherited` | `InheritanceProofs` | `Spec => []InheritanceExact` |
| `HandoffsAreFair` | `InheritanceProofs` | `Spec => HandoffToHighest` |
| `SignalsAreConserved` | `AccountingProofs` | `Spec => []SignalsConserved` |
| `StacksReplay` | `AccountingProofs` | `Spec => []StacksReplayPrograms` |
| `DeadlocksAreCircular` | `AccountingProofs` | `Spec => []DeadlockIsCircular` |
| `LockOrderSuffices` | `AccountingProofs` | `Spec => [](Disciplined(scenario) /\ Ordered(scenario) => NoDeadlock)` |
| `AlarmsAreTrue` | `AccountingProofs` | `Spec => []NoFalseAlarm` |
| `MailboxesAreDeques` | `DequeProofs` | `Spec => MailboxIsDeque` |
| `WakeUpsReachSenders` | `DequeProofs` | `Spec => []StuckSendersFaceFull` |
| `ReplayTypeCorrect` | `SearchProofs` | `ReplaySpec => []TypeOK` |
| `SearchStaysInBounds` | `SearchProofs` | `MinimizerSpec => [](TypeOK /\ DepthIsScheduleLength)` |
| `SearchReportsAreTrue` | `SearchProofs` | `MinimizerSpec => []ReportsAreTrue` |
| `ExecutionsSatisfyFormula` | `SmtProofs` | `SmtSpec => []ExecutionsAreModels` |
| `ModelsRunThrough` | `SmtProofs` | `SmtSpec => []ModelsAreExecutions` |

Each left-hand side is to be read with `/\ FitsArrays(scenario)`, which every one of
these theorems has as a hypothesis. They hold for every set of scenarios of every size, timed
calls, condition variables and misuse included except where the property names a class of
scenarios, from this hypothesis and the assumptions of `Kernel` and `Explorer`:

* `SizeAssumption`: at least one thread, `NThreads <= MaxWaiters`,
  `NResources <= MaxOwned`. The code has `SMASH_MAX_WAITERS` equal to
  `SMASH_MAX_THREADS`, and the validator bounds both counts.
* `ScenarioAssumption`: every scenario is one that `smash_scenario_validate` accepts
  (`ValidScenario`).
* `FitsArrays(scenario)`: an action that needs a resource names one, and a mailbox has no more
  slots than the message array. This is no assumption of a module but a hypothesis, since
  accepted scenarios break it (section 4): the theorems say what holds of a scenario whose
  author has seen to it, and that nothing else is needed.
* `SearchAssumption`: a search has a level at least, and its configuration has the
  types of `smash_config_t`.

**`TypeCorrect`.** `TypeOK` is inductive; it contains `FitsArrays(scenario)`, which no step
changes. What makes it so is `mb_count[r] <= mb_capacity[r]`: without it the ring indices
could not be kept within the array.
`TypeOKParts` splits it by component, each way of leaving the scheduling state
(`StayType`, `AdvanceType`, `BlockType`, `WakeType`) and each helper on queues and stacks
has a lemma, and each entry point has one that combines them.

**`SleepersAreQueued`.** `BlockedAreQueued` is inductive given `TypeOK`. Each of the
25 actions does one of four things to the queues and the sleepers in them: nothing, it
appends the thread that falls asleep, it removes one entry and wakes its
thread, or it empties the queue and wakes everyone. The `...Shape` lemmas sort the
actions; `SleepersStayQueued` then has four cases instead of 25. The heart is
`RemoveKeepsOthers`: removing an entry by moving the last one into the gap loses
no one else.

**`OwnersMatchStacks`.** `StacksMatchOwners` is inductive given `TypeOK`, with the
same plan: the owners and stacks stay, one mutex is acquired, or one is released to
nobody or to another thread. The difficulty is `owned_push`, which drops the mutex
when the stack is full. `RoomOnStack` shows that this never happens: a stack
without repetition that lacks a mutex has fewer than `NResources` entries, by a
pigeonhole argument, and `NResources <= MaxOwned`.

**`CriticalSectionsStayAwake`.** The property is not inductive: it says nothing of
what the calls test. `ContextKnowsSections` (a thread with a positive lock depth
is never in thread context) makes it so; `StepSleepers` shows that a mutex or
semaphore call puts to sleep only the calling thread, and only in thread context.

**`DestroyedStayUntouched`** is an action property: `StepKeepsDestroyed` has one case
per kind of call, and the guard that refuses dead objects closes each.

**`BoostsEnd`.** Inductive given `StacksMatchOwners`: a boost reaches only
owners of mutexes, whose stacks are therefore not empty, along the whole chain
(`BoostedHold`), and the unlock that empties a stack leaves no mutex whose waiters
`recalc_priority` could count (`LastUnlock`).

**`StaleEntriesCounted`.** The property bounds the queue entries of a thread by the
timed calls it has passed. That is not inductive: a timer that a wake-up left armed
(section 4, `doc_leftover_timer`) expires in a later, untimed call and leaves an entry
that no timed call of that moment accounts for. `StaleInv` therefore counts a *late*
timer, one that runs while the thread is not in a timed call, like an entry. Each step
is shown to keep the balance in two halves: the tick (`TickWithin`), and what follows
it (`StepWithin`), where a thread gains an entry only by falling asleep and loses one when it
is woken. `EntriesAdded`, `EntriesRemoved` and `EntriesCleared` count entries over all
queues.

**`QueuesAreExact`.** The strengthening adds that no timer runs (`NoTimers`), so that
a tick moves nobody, and states for each queue that its entries are pairwise distinct
sleepers on it. `WaitShape` sorts the actions as above.

**`CircularWaitsLast`.** Uses the exact queues and `OnMutex`: a
thread in state `BLOCKED_MUTEX` is blocked on a mutex. A sleeper in a closed set can only
be woken by the owner of what it waits for, and that owner sleeps in the set too.

**`PrioritiesAreInherited`, `HandoffsAreFair`.** The boost loop and `recalc_priority`
are local and incremental; the property quantifies over everyone who waits for a thread
through any chain. `InheritInv` bridges the two. `Monotone` says that a priority is not
below the thread's base priority nor below that of a thread that waits for it, which is
local, and bounds it from below. From above, `Witnessed` says that some dependent has
that base priority. A witness is needed because around a cycle the local conditions do not
determine the priorities: they would hold of any value that is high enough. `BoostKeepsMonotone`
and `BoostKeepsWitness` treat the step in which a thread blocks, where the new edge may close a
cycle; `UnlockKeepsMonotone` and `UnlockKeepsWitness` treat the release, where `RecalcIsExact`
shows that one level of waiters suffices because their own priorities are already exact.
All other steps leave the graph alone (`Aside`).

**`StacksReplay`, `SignalsAreConserved`.** Both compare the state with the program text
executed so far. `Books` sorts the steps by whom they take past which action: nobody, the
caller, or the caller and the sleeper it serves. `PendingInv` (a sleeper sleeps in the
call it has not got past) gives the sleeper's action, which the waker's code
does not look at. `Held` is a recursive function over the program; that it satisfies its own recursion
(`HeldStepwise`) is shown by the least number for which no such function
would exist (`LeastNumber`, from the well-foundedness of the subset order on finite sets). `TallyInv`
counts signals and waits as sets of actions, which grow by one element at a time.

**`DeadlocksAreCircular`, `LockOrderSuffices`, `AlarmsAreTrue`.** For programs that nest their
mutexes, `CalmInv` states that no call was refused, no semaphore or interrupt was touched and no
finished thread owns anything; it rests on `ReplayInv`, since whether an unlock is refused depends
on what the *program* has locked. In a stuck state every thread that is not done waits for an
owner, who is stuck in turn (`StuckBehindStuck`), so the stuck threads wait for each other
in a circle, which is what `smash_check_circular_wait` looks for. With ordered locks the sleeper on
the greatest mutex waits for a thread that would need a greater one (`HoldsLower`): a contradiction.
`LockOrderSuffices` is the safety half of `OrderedFinish`. `AlarmsAreTrue` goes through the six
checks of `smash_check_all`, each from one of the invariants above.

**`MailboxesAreDeques`.** The refinement of `BoundedDeque`. Lemmas on rings (`RingAppend`,
`RingPrepend`, `RingTail`) say what the three index computations do to the
sequence read off the ring, wrap-around included; `RingInv` (the tail is as
far ahead of the head as there are messages) is what posts at the back need.
`CallDelivers` ties each call to its operation: the disjuncts of an entry point either take the
caller past its action or leave it there (`Served`, `Unserved`), and the two sides of
`Serves` answer to them, since the tick advances only sleepers and the caller is none. So a post
maps to `PushBack` of its own message, an urgent post to `PushFront`, a fetch to `PopFront`,
and a step that is no mailbox call leaves all the rings alone.

**`WakeUpsReachSenders`.** The property speaks of states where nothing runs. `SpokenInv` says why
they are reached only with a full mailbox: while senders sleep and no receiver does, there are
at most as many free slots as threads awake and about to post. A post uses up one of each; a fetch frees
a slot and wakes a sender, because with one consumer the queue it wakes holds senders only.

**`ReplayTypeCorrect`, `SearchStaysInBounds`.** A driver changes the engine by a step,
covered by the first theorem, or by loading a saved engine. So the invariant types every
engine saved in `calls` (`SavedEngines`), and relates the length of the recorded
schedule to the depth in every mode.

**`SearchReportsAreTrue`.** A search is no behaviour of `Spec`: it goes back to engines it has left.
What is known of the engine while it runs threads without mistakes is gathered in `Orderly`, which every
step keeps (`OrderlyStep`) and from which `NoFalseAlarm` and `LockOrderSuffices` follow in the state
itself (`NoAlarm`, `NeverStuck`). The invariant asks it of the current engine and, as `OrderlyIn`, of every
engine in `calls`. To save an engine carries it over (`SavedIsEngine`), to restore one
brings it back (`LoadOrderly`), a fresh engine has it (`ResetOrderly`), and a replay that picks a
sleeping thread is harmless since no timer runs (`MoveIsNext`). So the search never meets a
violation, nor a deadlock with ordered locks.

**`ExecutionsSatisfyFormula`.** The assertions are about positions in a complete order, and
an execution has only a beginning of one. `Recorded` restates them for the sequence of
events completed so far, and `OrderInv` keeps them, with three links to the engine's state:
the recorded events of a thread are those before its `pc`; a section still open in the
sequence has its mutex on the stack of its thread (`OpenOnStack`), so that no other
thread completes a lock on it; and a wait on a semaphore that starts empty has a signal
before it, since the semaphore would otherwise have been given out more often than it was
filled (`SomeSignal`, from `TallyInv`). A step may complete two events, the unlock or signal and then
the call of the sleeper it served, in this order. At the end every event is recorded
(`FinishedInv`) and `RecordedIsModel` turns the sequence into positions. Steps without a
plan are steps of `Spec` (`FreeRuns`), which brings in the engine's own invariants.

**`ModelsRunThrough`.** The inductive invariant `Along` fixes the whole state of the replay: after
the first `k` events of the model every thread has done its share of them and is ready, `order` is
this beginning of the model, and after the last event the threads end in turn. The work is to show
that the next event finds its object ready. For a lock (`FreeToLock`): if its mutex had an owner,
it would be on that thread's stack, which is what the executed part of its program leaves
(`ReplayInv`); so a lock of it among the executed events has no unlock among them
(`HeldIsOpen`), while the model, in which every lock has an unlock (`LocksAreUnlocked`, from
`Balanced`) and sections do not overlap, has that unlock before the next event
(`SectionsInModel`). For a wait (`SignalIsThere`): the count is what the executed signals and
waits leave (`TallyInv`), and `Supplied` leaves room for one more wait. The engine's own invariants
hold since a replay of such a scenario is a behaviour of `Spec` (`LockstepRuns`): no timer runs, so a
pick that were refused would change nothing, and `SmtTyped` keeps the picks valid threads.

**Model-checked only.** The liveness properties `OrderedFinish`, `TimedWaitsEnd` and
`SearchEnds`: fairness is out of the prover's reach. `BugsAreFound`, `ReportReplays` and
`MinimizedStillFails` compare two executions from the same start. `OrderlyIn` says of a saved engine what
holds *in* it; these properties need what a *step* between two saved engines does, while an action relates the
current state to the next one only. Every step of the engine would have to be written a second
time as a relation between records, and shown to be deterministic.

## 6. Not modelled, and what is left

The symbolic checker (`sym_engine.c`, built with `USE_Z3=1` only) does not compile:
`mk_var`, a function of two arguments (line 48), is called with three (lines 521 to
545). Apart from that, its program-order constraints are on variables
(`prog_order_T...`, line 196) that the other constraints (`step_T...`) do not
mention, and a satisfiable set of scheduling constraints is reported as a deadlock
(line 732). There is no behaviour here for a specification to be faithful to.

The viewer and the hardware-in-the-loop scripts are plotting and serial-port I/O. The
event log is written and printed and never read back.

Open: condition variables with three threads once a woken thread reacquires its
mutex (the code does not yet); values beyond a byte in the snapshot
(`CaptureState` has the narrowing, the checked scenarios stay below); a
larger class of scenarios for which the partial-order reduction loses nothing.
