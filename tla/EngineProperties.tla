--------------------------- MODULE EngineProperties ---------------------------
(***************************************************************************)
(* What the execution engine promises, as invariants, action properties    *)
(* and liveness properties.  Some hold of every scenario, others of the    *)
(* scenarios that satisfy a condition named here: each MC module says      *)
(* which scenarios it checks.                                              *)
(***************************************************************************)
EXTENDS SpecChecks, FiniteSets, FiniteSetsExt, SequencesExt

-----------------------------------------------------------------------------
(* Classes of scenarios *)

ActionsOf(s) == UNION {{s.steps[t][i] : i \in 1 .. Len(s.steps[t])} : t \in Thread}

TimedTypes == {"MUTEX_TIMED_LOCK", "SEM_TIMED_WAIT"}
CondTypes == {"COND_WAIT", "COND_SIGNAL", "COND_BROADCAST"}
MailboxTypes == {"MB_POST", "MB_POST_FRONT", "MB_FETCH"}

(* No call that can give up waiting *)
Untimed(s) == \A a \in ActionsOf(s) : a.type \notin TimedTypes

(* No wait that sets a mutex free behind the back of its waiters *)
CondFree(s) == \A a \in ActionsOf(s) : a.type \notin CondTypes

(* Mutex calls name mutexes, semaphore calls name semaphores.  The engine  *)
(* checks this for condition variables and mailboxes only.                 *)
WellTyped(s) ==
  \A a \in ActionsOf(s) :
    /\ a.type \in {"MUTEX_LOCK", "MUTEX_TIMED_LOCK", "MUTEX_UNLOCK"} =>
         s.res_types[a.resource_id] = "MUTEX"
    /\ a.type \in {"SEM_WAIT", "SEM_TIMED_WAIT", "SEM_SIGNAL"} =>
         s.res_types[a.resource_id] = "SEMAPHORE"

-----------------------------------------------------------------------------
(* Ownership and wait queues *)

(* The resource table and the threads' LIFO stacks are two records of one  *)
(* fact (resources[].owner, owned_mutex_stack): a mutex is owned by a      *)
(* thread exactly when it is on that thread's stack, once.  Acquisition,   *)
(* handoff to a sleeping thread, cond_wait and unlock update both.  Holds  *)
(* of every scenario.                                                      *)
StacksMatchOwners ==
  /\ \A t \in Thread, r \in Resource :
       owner[r] = t <=> \E k \in 1 .. Len(owned_mutex_stack[t]) :
                          owned_mutex_stack[t][k] = r
  /\ \A t \in Thread : \A j, k \in 1 .. Len(owned_mutex_stack[t]) :
       owned_mutex_stack[t][j] = owned_mutex_stack[t][k] => j = k

(* No thread sleeps where nobody can wake it: a blocked thread is in the   *)
(* queue of the resource it is blocked on, whatever unlocks, signals,      *)
(* broadcasts and expired timers did to the queues (waiter_remove moves    *)
(* entries around).  Holds of every scenario.                              *)
BlockedAreQueued ==
  \A t \in Thread :
    state[t] \in BlockedStates =>
      blocked_on[t] \in Resource /\ t \in QueuedOn(blocked_on[t])

(* Without timed calls the queues hold nothing else: every entry is a      *)
(* thread now blocked on that resource, and it is there once.              *)
QueuesExact ==
  Untimed(scenario) =>
    /\ \A r \in Resource : \A w \in QueuedOn(r) :
         state[w] \in BlockedStates /\ blocked_on[w] = r
    /\ \A r \in Resource : \A j, k \in 1 .. Len(waiters[r]) :
         waiters[r][j] = waiters[r][k] => j = k

-----------------------------------------------------------------------------
(* Priority inheritance *)

(* t and the threads that directly or through others wait for a mutex of t *)
Dependents(t) ==
  {u \in Thread :
     \A B \in SUBSET Thread :
       (t \in B /\ \A v \in Thread, w \in B : WaitsFor(v, w) => v \in B) => u \in B}

(* The priority a thread is entitled to *)
InheritedPriority(t) == Max({BasePriority(u) : u \in Dependents(t)})

Regular(s) == Untimed(s) /\ CondFree(s) /\ WellTyped(s)

(* The boost loop of smash_mutex_lock and recalc_priority, one local and   *)
(* incremental, the other looking at one level of waiters only, keep every *)
(* priority at exactly the highest base priority among the thread and all  *)
(* that wait for it, through any number of mutexes and around cycles.      *)
InheritanceExact ==
  Regular(scenario) => \A t \in Thread : priority[t] = InheritedPriority(t)

(* A mutex released while threads queue for it goes at once to one of them *)
(* that is entitled to the highest priority; it is never free in between   *)
(* and no third thread can overtake.                                       *)
HandoffToHighest ==
  [][Regular(scenario) =>
       \A r \in OfType("MUTEX") :
         waiters[r] # <<>> /\ owner'[r] # owner[r] =>
           /\ owner'[r] \in QueuedOn(r)
           /\ \A w \in QueuedOn(r) :
                InheritedPriority(w) <= InheritedPriority(owner'[r])]_vars

-----------------------------------------------------------------------------
(* Accounting: what a thread holds is a function of how far it got *)

(* How many of its actions t got past *)
Passed(t) == IF pc[t] < StepCount(t) THEN pc[t] ELSE StepCount(t)

(* The stacks left by the first 0, 1, 2, ... of a series of actions, if    *)
(* its lock and unlock calls all succeed                                   *)
StackAfter(stack, a) ==
  CASE a.type = "MUTEX_LOCK"   -> Append(stack, a.resource_id)
    [] a.type = "MUTEX_UNLOCK" -> OwnedPop(stack)
    [] OTHER                   -> stack

Held(actions) ==
  LET held[i \in 0 .. Len(actions)] ==
        IF i = 0 THEN <<>> ELSE StackAfter(held[i - 1], actions[i])
  IN held

(* However the threads interleave, block and hand mutexes to each other, a *)
(* thread holds exactly the mutexes its executed actions account for: the  *)
(* pc a waker advances for a sleeper and the stack it pushes on agree.     *)
StacksReplayPrograms ==
  Regular(scenario) /\ fail = "none" =>
    \A t \in Thread : owned_mutex_stack[t] = Held(scenario.steps[t])[Passed(t)]

(* The actions that threads got past, of this type and on r *)
PassedActions == UNION {{t} \X (1 .. Passed(t)) : t \in Thread}

Executed(type, r) ==
  {e \in PassedActions : /\ scenario.steps[e[1]][e[2]].type = type
                         /\ scenario.steps[e[1]][e[2]].resource_id = r}

(* No signal is lost or used twice: a semaphore counts exactly the signals *)
(* sent and not yet taken, where a wait completed by the signaller on      *)
(* behalf of the sleeper (pc++ in smash_sem_signal) has taken one.         *)
SignalsConserved ==
  Untimed(scenario) /\ WellTyped(scenario) /\ fail = "none" =>
    \A r \in OfType("SEMAPHORE") :
      count[r] = scenario.sem_init[r] + Cardinality(Executed("SEM_SIGNAL", r))
                                      - Cardinality(Executed("SEM_WAIT", r))

-----------------------------------------------------------------------------
(* Deadlock *)

MutexOnly(s) ==
  \A a \in ActionsOf(s) :
    a.type \in {"MUTEX_LOCK", "MUTEX_UNLOCK", "YIELD", "NOP"}

(* Every thread nests its critical sections: it locks no mutex it holds,   *)
(* unlocks the one it locked last, and holds none in the end.              *)
Balanced(s) ==
  \A t \in Thread :
    /\ Held(s.steps[t])[Len(s.steps[t])] = <<>>
    /\ \A i \in 1 .. Len(s.steps[t]) :
         LET held == Held(s.steps[t])[i - 1]
             a    == s.steps[t][i]
         IN /\ a.type = "MUTEX_LOCK" => a.resource_id \notin Range(held)
            /\ a.type = "MUTEX_UNLOCK" =>
                 held # <<>> /\ held[Len(held)] = a.resource_id

(* Threads lock mutexes in the order of their numbers *)
Ordered(s) ==
  \A t \in Thread : \A i \in 1 .. Len(s.steps[t]) :
    LET held == Held(s.steps[t])[i - 1] IN
    s.steps[t][i].type = "MUTEX_LOCK" =>
      \A k \in 1 .. Len(held) : held[k] < s.steps[t][i].resource_id

Disciplined(s) == MutexOnly(s) /\ Balanced(s) /\ WellTyped(s)

(* The explorer explains a deadlock by a circular wait if it finds one     *)
(* (explore_dfs): among threads that release what they lock, it always     *)
(* does.  A thread cannot be stuck for any other reason.                   *)
DeadlockIsCircular ==
  Disciplined(scenario) /\ ~NoDeadlock => ~NoCircularWait

(* Reporting a circular wait before everything stops (the aim stated in    *)
(* smash_check_circular_wait) raises no false alarm: threads that wait for *)
(* each other on untimed locks do so for ever.                             *)
CircularWaitIsFinal ==
  [][Regular(scenario) =>
       \A S \in SUBSET Thread : Entangled(S) => Entangled(S)']_vars

(* Lock ordering prevents deadlock (SAFETY_ANALYSIS.md, appendix A), and   *)
(* the engine runs such a scenario to its end under every schedule.        *)
OrderedFinish == Disciplined(scenario) /\ Ordered(scenario) ~> AllDone

(* The explorer's own checks stay silent on threads that use mutexes only, *)
(* nest them and return them: every violation it reports there would be a  *)
(* false alarm.  A semaphore that starts below zero, used or not, would be *)
(* a mistake of the scenario.                                              *)
NoFalseAlarm ==
  /\ Disciplined(scenario)
  /\ \A r \in OfType("SEMAPHORE") : scenario.sem_init[r] >= 0
  => ~Violation
-----------------------------------------------------------------------------
(* Timed waits *)

TimedCallsPassed(t) ==
  {i \in 1 .. Passed(t) : scenario.steps[t][i].type \in TimedTypes}

(* The entries of t in all the wait queues *)
EntriesOf(t) ==
  {e \in UNION {{r} \X (1 .. Len(waiters[r])) : r \in Resource} :
     waiters[e[1]][e[2]] = t}

(* An expired timer leaves its thread in the wait queue, so timed calls    *)
(* make the queues grow.  By no more than one entry for each timed call a  *)
(* thread is past, though: blocking adds one entry, every wake-up removes  *)
(* one, even when it finds a stale entry and wakes a thread from another   *)
(* wait.  This bounds the use of the SMASH_MAX_WAITERS slots.              *)
StaleEntriesBounded ==
  \A t \in Thread :
    Cardinality(EntriesOf(t))
      <= Cardinality(TimedCallsPassed(t)) + (IF state[t] \in BlockedStates THEN 1 ELSE 0)

(* Nor is a boost taken back when the waiter it was given for gives up.    *)
(* Such a boost ends when its owner unlocks: a thread that holds no mutex  *)
(* runs at its own priority, whatever timers, stale entries and chains of  *)
(* owners did before.                                                      *)
BoostsAreRepaid ==
  CondFree(scenario) =>
    \A t \in Thread :
      owned_mutex_stack[t] = <<>> => priority[t] = BasePriority(t)

(* Some thread always has a step to take: it sits on one of the actions    *)
(* the engine does not handle, and time passes each time it runs.          *)
Spinner(t) == \E type \in {"COND_WAIT_TIMEOUT", "MB_POST_TIMEOUT", "MB_FETCH_TIMEOUT"} :
                 StepCount(t) > 0 /\ scenario.steps[t][1].type = type
AlwaysBusy == \E t \in Thread : Spinner(t)

Waiting(t) == state[t] \in BlockedStates
TimerRuns(t) == Waiting(t) /\ timeout_ticks[t] # NoTimeout

(* A timed wait ends as long as steps are taken, whether or not anyone     *)
(* ever unlocks or signals: the count-down at the head of                  *)
(* smash_execute_step reaches every blocked thread.                        *)
TimedWaitsEnd ==
  \A t \in Thread : AlwaysBusy /\ TimerRuns(t) ~> ~TimerRuns(t) \/ fail # "none"

-----------------------------------------------------------------------------
(* API context and object lifecycle *)

Blocking == {"COND_WAIT", "MB_POST", "MB_POST_FRONT", "MB_FETCH"}

(* Mutex and semaphore calls never put a thread to sleep inside a critical *)
(* section: exec_ctx, which they test, keeps track of sys_lock_depth       *)
(* through every nesting of interrupts and locks.                          *)
NoSleepInCriticalSection ==
  (\A a \in ActionsOf(scenario) : a.type \notin Blocking) =>
    \A t \in Thread : Waiting(t) => sys_lock_depth[t] = 0

(* Nothing happens to a destroyed mutex or semaphore until it is created   *)
(* again: no acquisition, no handoff, no wake-up and no new waiter, even   *)
(* for calls that were under way when it was destroyed.                    *)
DestroyedObjectsUntouched ==
  [][CondFree(scenario) =>
       \A r \in OfType("MUTEX") \cup OfType("SEMAPHORE") :
         ~alive[r] => /\ owner'[r] = owner[r]
                      /\ count'[r] = count[r]
                      /\ waiters'[r] = waiters[r]]_vars

-----------------------------------------------------------------------------
(* Mailboxes *)

MailboxContents ==
  [r \in Resource |->
     [i \in 1 .. mb_count[r] |->
        mb_messages[r][(mb_head[r] + i - 1) % scenario.mb_capacity[r]]]]

MailboxOnly(s) == \A a \in ActionsOf(s) : a.type \in MailboxTypes

(* The action a sleeping thread has not got past *)
Pending(t) == scenario.steps[t][pc[t] + 1]
Senders(r) == {t \in QueuedOn(r) : Pending(t).type \in {"MB_POST", "MB_POST_FRONT"}}
Receivers(r) == {t \in QueuedOn(r) : Pending(t).type = "MB_FETCH"}

(* One thread fetches from each mailbox *)
SingleConsumer(s) ==
  \A r \in Resource : \A t, u \in Thread :
    (\A v \in {t, u} : \E i \in 1 .. Len(s.steps[v]) :
        s.steps[v][i].type = "MB_FETCH" /\ s.steps[v][i].resource_id = r) => t = u

(* The wake-up a fetch gives to the common queue of a mailbox is never     *)
(* lost on a sender if there is one consumer: whatever was overtaken or    *)
(* woken in vain on the way, senders are stuck for good only in front of a *)
(* full mailbox, or behind their consumer.  A second consumer breaks this: *)
(* the fetch that wakes it uses up the wake-up of a sender.                *)
StuckSendersFaceFull ==
  MailboxOnly(scenario) /\ SingleConsumer(scenario) /\ ~NoDeadlock =>
    \A r \in Resource : Senders(r) # {} => MbFull(r) \/ Receivers(r) # {}

Messages == {a.arg : a \in UNION {ActionsOf(s) : s \in Scenarios}}

Deque == INSTANCE BoundedDeque WITH
           Mailbox  <- Resource,
           Message  <- Messages,
           queue    <- MailboxContents,
           capacity <- scenario.mb_capacity

(* A call that gets past its action has done what is asked of it; one that *)
(* does not has done nothing, and sleeps only where it cannot be served.   *)
Serves(t, operation, unservable) ==
  IF pc'[t] = TickedPc[t] + 1
  THEN operation
  ELSE UNCHANGED MailboxContents /\ (fail' = "none" => unservable)

Delivers(t) ==
  LET r == Target(t)
      msg == Current(t).arg
  IN
  /\ Post(t) => Serves(t, Deque!PushBack(r, msg), Deque!Full(r))
  /\ PostFront(t) => Serves(t, Deque!PushFront(r, msg), Deque!Full(r))
  /\ Fetch(t) => Serves(t, Deque!PopFront(r), Deque!Empty(r))

(* The ring buffer behaves like a bounded double-ended queue, and each     *)
(* call does to it what its name says: a post that succeeds appends its    *)
(* own message, an urgent post puts it in front, a fetch takes the first   *)
(* message away, a call that blocks or is refused, a timer and all other   *)
(* steps change nothing.  So no message is lost, duplicated or reordered,  *)
(* whatever the order of wrap-arounds at either end, and no call goes to   *)
(* sleep with a slot or a message to be had.                               *)
MailboxIsDeque ==
  /\ Deque!Spec
  /\ [][/\ \A t \in Thread : Delivers(t)
        /\ \/ UNCHANGED MailboxContents
           \/ \E t \in Thread : Post(t) \/ PostFront(t) \/ Fetch(t)]_vars
=============================================================================
