---------------------------- MODULE WaitingProofs ----------------------------
(***************************************************************************)
(* Waiting without timers, for every scenario of the class each property   *)
(* names and for every size: the wait queues hold exactly the threads that *)
(* wait, and a circular wait is for ever.                                  *)
(***************************************************************************)
EXTENDS EngineProofs

LEMMA TimeStandsStill ==
  ASSUME SchedOK, NoTimers
  PROVE  /\ TickedState = state
         /\ TickedPc = pc
         /\ TickedBlockedOn = blocked_on
         /\ TickedTimeout = timeout_ticks
<1>1. \A u \in Thread : ~Ticking(u) /\ ~Expired(u)
  BY DEF NoTimers, Ticking, Expired, NoTimeout
<1>2. TickedState = state
  BY <1>1 DEF SchedOK, TickedState
<1>3. TickedPc = pc
  BY <1>1 DEF SchedOK, TickedPc
<1>4. TickedBlockedOn = blocked_on
  BY <1>1 DEF SchedOK, TickedBlockedOn
<1>5. TickedTimeout = timeout_ticks
  BY <1>1 DEF SchedOK, TickedTimeout
<1> QED BY <1>2, <1>3, <1>4, <1>5

(* Nobody outside W falls asleep, wakes up or ends *)
Unmoved(W) ==
  \A u \in Thread \ W : state'[u] = state[u] /\ blocked_on'[u] = blocked_on[u]

(* What a step does to the queues and the threads in them *)
Minds(t) == Unmoved({t}) /\ state'[t] \notin BlockedStates /\ waiters' = waiters

Queues(t, r) ==
  /\ Unmoved({t})
  /\ state'[t] \in BlockedStates
  /\ blocked_on'[t] = r
  /\ waiters' = [waiters EXCEPT ![r] = Append(@, t)]

Wakes(r, i) ==
  /\ Unmoved({waiters[r][i]})
  /\ state'[waiters[r][i]] = "READY"
  /\ waiters' = [waiters EXCEPT ![r] = WaiterRemove(@, i)]

WakesAll(r) ==
  /\ Unmoved(QueuedOn(r))
  /\ \A u \in QueuedOn(r) : state'[u] = "READY"
  /\ waiters' = [waiters EXCEPT ![r] = <<>>]

WaitShape(t) ==
  \/ Minds(t)
  \/ \E r \in Resource : Queues(t, r)
  \/ \E r \in Resource : \E i \in 1 .. Len(waiters[r]) : Wakes(r, i)
  \/ \E r \in Resource : WakesAll(r)

(* The ways a step leaves the scheduling state *)
LEMMA StayUnmoved ==
  ASSUME SchedOK, NoTimers, NEW t \in Thread, Stay \/ Advance(t), state[t] = "READY"
  PROVE  /\ Unmoved({t}) /\ state' = state /\ blocked_on' = blocked_on
         /\ state'[t] \notin BlockedStates /\ NoTimers'
<1>1. state' = state /\ blocked_on' = blocked_on /\ timeout_ticks' = timeout_ticks
  BY TimeStandsStill DEF Stay, Advance
<1> QED BY <1>1 DEF Unmoved, NoTimers, BlockedStates

LEMMA EndUnmoved ==
  ASSUME SchedOK, NoTimers, NEW t \in Thread, state' = [TickedState EXCEPT ![t] = "DONE"],
         blocked_on' = TickedBlockedOn, timeout_ticks' = TickedTimeout
  PROVE  Unmoved({t}) /\ state'[t] \notin BlockedStates /\ NoTimers'
  BY TimeStandsStill DEF SchedOK, Unmoved, NoTimers, BlockedStates

LEMMA BlockUnmoved ==
  ASSUME SchedOK, NoTimers, NEW t \in Thread, NEW r, NEW blocked,
         Block(t, r, blocked, 0)
  PROVE  /\ Unmoved({t}) /\ NoTimers'
         /\ state'[t] = blocked /\ blocked_on'[t] = r
<1>1. timeout_ticks' = timeout_ticks
  BY TimeStandsStill DEF SchedOK, Block
<1>2. /\ state' = [state EXCEPT ![t] = blocked]
      /\ blocked_on' = [blocked_on EXCEPT ![t] = r]
  BY TimeStandsStill DEF Block
<1> QED BY <1>1, <1>2 DEF SchedOK, Unmoved, NoTimers

LEMMA WakeUnmoved ==
  ASSUME SchedOK, NoTimers, NEW t \in Thread, NEW W, NEW n, WakeAndAdvance(t, W, n)
  PROVE  /\ Unmoved(W) /\ NoTimers'
         /\ \A u \in Thread \cap W : state'[u] = "READY"
<1>1. timeout_ticks' = timeout_ticks
  BY TimeStandsStill DEF WakeAndAdvance
<1> QED BY <1>1, TimeStandsStill DEF WakeAndAdvance, Unmoved, NoTimers

(* and the queues with it *)
LEMMA QueuesShape ==
  ASSUME SchedOK, NoTimers, NEW t \in Thread, NEW r \in Resource,
         NEW blocked \in BlockedStates, Block(t, r, blocked, 0),
         waiters' = [waiters EXCEPT ![r] = Append(@, t)]
  PROVE  WaitShape(t) /\ NoTimers'
<1>1. Unmoved({t}) /\ NoTimers' /\ state'[t] = blocked /\ blocked_on'[t] = r
  BY BlockUnmoved
<1> QED BY <1>1 DEF WaitShape, Queues

LEMMA WakesShape ==
  ASSUME SchedOK, ObjectOK, NoTimers, NEW t \in Thread, NEW r \in Resource, NEW n,
         NEW i \in 1 .. Len(waiters[r]), WakeAndAdvance(t, {waiters[r][i]}, n),
         waiters' = [waiters EXCEPT ![r] = WaiterRemove(@, i)]
  PROVE  WaitShape(t) /\ NoTimers'
<1>1. waiters[r][i] \in Thread
  BY QueuedAreThreads
<1>2. /\ Unmoved({waiters[r][i]}) /\ NoTimers'
      /\ state'[waiters[r][i]] = "READY"
  BY <1>1, WakeUnmoved
<1> QED BY <1>2 DEF WaitShape, Wakes

LEMMA MindsShape ==
  ASSUME SchedOK, NoTimers, NEW t \in Thread, state[t] = "READY",
         Stay \/ Advance(t), waiters' = waiters
  PROVE  WaitShape(t) /\ NoTimers'
  BY StayUnmoved DEF WaitShape, Minds

LEMMA RejectMinds ==
  ASSUME SchedOK, NoTimers, NEW t \in Thread, state[t] = "READY", NEW reason,
         Reject(reason), Stay \/ Advance(t)
  PROVE  WaitShape(t) /\ NoTimers'
  BY MindsShape DEF Reject, modelVars, objectVars

LEMMA MutexWaits ==
  ASSUME Typed, NoTimers, NEW t \in Thread, state[t] = "READY", NEW r \in Resource,
         MutexLock(t, r, 0) \/ MutexUnlock(t, r)
  PROVE  WaitShape(t) /\ NoTimers'
<1> USE DEF Typed, ModelOK
<1>1. CASE LockAcquire(t, r)
  BY <1>1, MindsShape DEF LockAcquire
<1>2. CASE LockBlock(t, r, 0)
  BY <1>2, QueuesShape DEF LockBlock, BlockedStates
<1>3. CASE LockReject(t, r)
  BY <1>3, RejectMinds DEF LockReject
<1>4. CASE UnlockHandoff(t, r)
  <2>1. PICK i \in 1 .. Len(waiters[r]) :
          /\ waiters' = [waiters EXCEPT ![r] = WaiterRemove(@, i)]
          /\ WakeAndAdvance(t, {waiters[r][i]}, 1)
    BY <1>4 DEF UnlockHandoff
  <2> QED BY <2>1, WakesShape
<1>5. CASE UnlockFree(t, r)
  BY <1>5, MindsShape DEF UnlockFree
<1>6. CASE UnlockReject(t, r)
  BY <1>6, RejectMinds DEF UnlockReject
<1> QED BY <1>1, <1>2, <1>3, <1>4, <1>5, <1>6 DEF MutexLock, MutexUnlock

LEMMA SemWaits ==
  ASSUME Typed, NoTimers, NEW t \in Thread, state[t] = "READY", NEW r \in Resource,
         SemWait(t, r, 0) \/ SemSignal(t, r)
  PROVE  WaitShape(t) /\ NoTimers'
<1> USE DEF Typed, ModelOK
<1>1. CASE SemTake(t, r)
  BY <1>1, MindsShape DEF SemTake
<1>2. CASE SemBlock(t, r, 0)
  BY <1>2, QueuesShape DEF SemBlock, BlockedStates
<1>3. CASE SemWaitReject(t, r)
  BY <1>3, RejectMinds DEF SemWaitReject
<1>4. CASE SemWake(t, r)
  <2>1. PICK i \in 1 .. Len(waiters[r]) :
          /\ waiters' = [waiters EXCEPT ![r] = WaiterRemove(@, i)]
          /\ WakeAndAdvance(t, {waiters[r][i]}, 1)
    BY <1>4 DEF SemWake
  <2> QED BY <2>1, WakesShape
<1>5. CASE SemPost(t, r)
  BY <1>5, MindsShape DEF SemPost
<1>6. CASE SemSignalReject(t, r)
  BY <1>6, RejectMinds DEF SemSignalReject
<1> QED BY <1>1, <1>2, <1>3, <1>4, <1>5, <1>6 DEF SemWait, SemSignal

LEMMA CondWaits ==
  ASSUME Typed, NoTimers, NEW t \in Thread, state[t] = "READY", NEW c \in Resource,
         CondWait(t, c) \/ CondSignal(t, c) \/ CondBroadcast(t, c)
  PROVE  WaitShape(t) /\ NoTimers'
<1> USE DEF Typed, ModelOK
<1>1. CASE CondBlock(t, c)
  BY <1>1, QueuesShape DEF CondBlock, BlockedStates
<1>2. CASE CondOverflow(t, c)
  BY <1>2, MindsShape DEF CondOverflow
<1>3. CASE CondWaitReject(t, c)
  BY <1>3, RejectMinds DEF CondWaitReject
<1>4. CASE CondWake(t, c)
  <2>1. PICK i \in 1 .. Len(waiters[c]) :
          /\ waiters' = [waiters EXCEPT ![c] = WaiterRemove(@, i)]
          /\ WakeAndAdvance(t, {waiters[c][i]}, 0)
    BY <1>4 DEF CondWake
  <2> QED BY <2>1, WakesShape
<1>5. CASE CondLost(t, c)
  BY <1>5, MindsShape DEF CondLost, modelVars, objectVars
<1>6. CASE CondSignalReject(t, c)
  BY <1>6, RejectMinds DEF CondSignalReject
<1>7. CASE CondWakeAll(t, c)
  BY <1>7, WakeUnmoved, QueuedAreThreads DEF CondWakeAll, WaitShape, WakesAll
<1> QED BY <1>1, <1>2, <1>3, <1>4, <1>5, <1>6, <1>7 DEF CondWait, CondSignal, CondBroadcast

LEMMA MailboxWaits ==
  ASSUME Typed, NoTimers, NEW t \in Thread, state[t] = "READY", NEW r \in Resource,
         NEW msg, MbPost(t, r, msg) \/ MbPostFront(t, r, msg) \/ MbFetch(t, r)
  PROVE  WaitShape(t) /\ NoTimers'
<1> USE DEF Typed, ModelOK
<1>1. CASE MbAppend(t, r, msg) \/ MbPrepend(t, r, msg)
  BY <1>1, MindsShape DEF MbAppend, MbPrepend, objectVars
<1>2. ASSUME NEW blocks, MbBlock(t, r, blocks) \/ MbReject(r, blocks)
      PROVE  WaitShape(t) /\ NoTimers'
  BY <1>2, QueuesShape, RejectMinds DEF MbBlock, MbReject, BlockedStates
<1>3. CASE MbTake(t, r)
  <2>1. CASE waiters[r] = <<>>
    <3>1. waiters' = waiters
      BY <1>3, <2>1 DEF MbTake, ObjectOK
    <3>2. {waiters[r][i] : i \in {1} \cap (1 .. Len(waiters[r]))} = {}
      BY <2>1
    <3>3. Unmoved({}) /\ NoTimers'
      BY <1>3, <3>2, WakeUnmoved DEF MbTake
    <3> QED BY <3>1, <3>3 DEF WaitShape, Minds, Unmoved, BlockedStates
  <2>2. CASE waiters[r] # <<>>
    <3>1. 1 \in 1 .. Len(waiters[r])
      BY <2>2 DEF ObjectOK
    <3>2. waiters' = [waiters EXCEPT ![r] = WaiterRemove(@, 1)]
      BY <1>3, <2>2 DEF MbTake, ObjectOK
    <3>3. {waiters[r][i] : i \in {1} \cap (1 .. Len(waiters[r]))} = {waiters[r][1]}
      BY <3>1
    <3>4. WakeAndAdvance(t, {waiters[r][1]}, 0)
      BY <1>3, <3>3 DEF MbTake
    <3> QED BY <3>1, <3>2, <3>4, WakesShape
  <2> QED BY <2>1, <2>2
<1> QED BY <1>1, <1>2, <1>3 DEF MbPost, MbPostFront, MbFetch

LEMMA LocalWaits ==
  ASSUME Typed, NoTimers, NEW t \in Thread, state[t] = "READY",
         \/ ThreadEnd(t) \/ Done(t) \/ Pause(t) \/ Unhandled(t) \/ LocalReject(t)
         \/ SysLock(t) \/ SysUnlock(t) \/ IsrEnter(t) \/ IsrExit(t)
         \/ ObjectInit(t) \/ ObjectDestroy(t) \/ Call(t) \/ Return(t)
  PROVE  WaitShape(t) /\ NoTimers'
<1>1. waiters' = waiters
  BY LocalKeeps DEF modelVars, objectVars
<1>2. CASE ThreadEnd(t) \/ Done(t)
  BY <1>1, <1>2, EndUnmoved DEF ThreadEnd, Done, WaitShape, Minds, Typed
<1>3. CASE ~(ThreadEnd(t) \/ Done(t))
  <2>1. Stay \/ Advance(t)
    BY <1>3 DEF Pause, Unhandled, LocalReject, SysLock, SysUnlock, IsrEnter, IsrExit,
                CtxStep, ObjectInit, ObjectDestroy, SetAlive, Call, Return
  <2> QED BY <1>1, <2>1, MindsShape DEF Typed
<1> QED BY <1>2, <1>3

LEMMA NoTimedCalls ==
  ASSUME Typed, Untimed(scenario), NEW t \in Thread
  PROVE  ~TimedLock(t) /\ ~TimedWait(t)
  BY CurrentIsOfScenario DEF Untimed, TimedTypes, TimedLock, TimedWait

(* The thread that takes a step is awake *)
LEMMA StepIsAwake ==
  ASSUME Typed, NoTimers, NEW t \in Thread, Step(t)
  PROVE  state[t] = "READY"
<1>1. TickedState[t] = "READY"
  BY DEF Step, ThreadEnd, Done, Lock, TimedLock, Unlock, Wait, TimedWait, Signal,
         WaitCond, SignalCond, Broadcast, Post, PostFront, Fetch, Pause, Unhandled,
         LocalReject, SysLock, SysUnlock, IsrEnter, IsrExit, ObjectInit,
         ObjectDestroy, Call, Return, Doing, Scheduled
<1> QED BY <1>1, TimeStandsStill DEF Typed

LEMMA StepWaits ==
  ASSUME Typed, NoTimers, Untimed(scenario), NEW t \in Thread, Step(t)
  PROVE  WaitShape(t) /\ NoTimers'
<1>1. ASSUME NEW type \in ResourceActions, Doing(t, type)
      PROVE  Target(t) \in Resource
  BY <1>1, CurrentType
<1>2. CASE Lock(t) \/ Unlock(t)
  BY <1>1, <1>2, StepIsAwake, MutexWaits DEF Lock, Unlock, ResourceActions
<1>3. CASE Wait(t) \/ Signal(t)
  BY <1>1, <1>3, StepIsAwake, SemWaits DEF Wait, Signal, ResourceActions
<1>4. CASE WaitCond(t) \/ SignalCond(t) \/ Broadcast(t)
  BY <1>1, <1>4, StepIsAwake, CondWaits DEF WaitCond, SignalCond, Broadcast, ResourceActions
<1>5. CASE Post(t) \/ PostFront(t) \/ Fetch(t)
  BY <1>1, <1>5, StepIsAwake, MailboxWaits DEF Post, PostFront, Fetch, ResourceActions
<1> QED BY <1>2, <1>3, <1>4, <1>5, NoTimedCalls, StepIsAwake, LocalWaits DEF Step

-----------------------------------------------------------------------------
(* The queues are exact *)

(* waiter_remove takes one entry out and none in *)
LEMMA RemoveIsExact ==
  ASSUME NEW q \in Seq(Thread), NoRepeats(q), NEW i \in 1 .. Len(q)
  PROVE  /\ NoRepeats(WaiterRemove(q, i))
         /\ \A k \in 1 .. Len(WaiterRemove(q, i)) :
              /\ WaiterRemove(q, i)[k] # q[i]
              /\ \E j \in 1 .. Len(q) : WaiterRemove(q, i)[k] = q[j]
<1> DEFINE p == WaiterRemove(q, i)
<1>1. /\ Len(p) = Len(q) - 1 /\ Len(q) \in Nat
      /\ \A k \in 1 .. Len(q) - 1 : p[k] = IF k = i THEN q[Len(q)] ELSE q[k]
  BY WaiterRemoveType
<1> HIDE DEF p
<1>2. ASSUME NEW j \in 1 .. Len(p), NEW k \in 1 .. Len(p), p[j] = p[k]
      PROVE  j = k
  <2> DEFINE from(m) == IF m = i THEN Len(q) ELSE m
  <2>1. \A m \in 1 .. Len(p) : from(m) \in 1 .. Len(q) /\ p[m] = q[from(m)]
    BY <1>1
  <2>2. from(j) = from(k)
    BY <1>2, <2>1 DEF NoRepeats
  <2> QED BY <1>1, <2>2
<1>3. ASSUME NEW k \in 1 .. Len(p)
      PROVE  /\ p[k] # q[i]
             /\ \E j \in 1 .. Len(q) : p[k] = q[j]
  <2>1. CASE k = i
    <3>1. p[k] = q[Len(q)] /\ Len(q) \in 1 .. Len(q) /\ Len(q) # i
      BY <1>1, <2>1
    <3> QED BY <3>1 DEF NoRepeats
  <2>2. CASE k # i
    <3>1. p[k] = q[k] /\ k \in 1 .. Len(q)
      BY <1>1, <2>2
    <3> QED BY <2>2, <3>1 DEF NoRepeats
  <2> QED BY <2>1, <2>2
<1> QED BY <1>2, <1>3 DEF p, NoRepeats

LEMMA QueueStaysExact ==
  ASSUME ObjectOK, NEW t \in Thread, state[t] = "READY", WaitShape(t),
         \A r \in Resource : ExactQueue(r), NEW r \in Resource
  PROVE  ExactQueue(r)'
<1>0. /\ waiters[r] \in Seq(Thread) /\ Len(waiters[r]) \in Nat
      /\ \A k \in 1 .. Len(waiters[r]) : /\ waiters[r][k] \in Thread
                                         /\ WaitsIn(waiters[r][k], r)
      /\ NoRepeats(waiters[r])
  BY DEF ObjectOK, ExactQueue
<1>1. \A k \in 1 .. Len(waiters[r]) : waiters[r][k] # t
  BY <1>0 DEF WaitsIn, BlockedStates
<1>2. CASE Minds(t)
  BY <1>0, <1>1, <1>2 DEF Minds, Unmoved, ExactQueue, WaitsIn
<1>3. ASSUME NEW q \in Resource, Queues(t, q)
      PROVE  ExactQueue(r)'
  <2>1. CASE r # q
    <3>1. waiters'[r] = waiters[r]
      BY <1>3, <2>1 DEF Queues, ObjectOK
    <3> QED BY <1>0, <1>1, <1>3, <3>1 DEF Queues, Unmoved, ExactQueue, WaitsIn
  <2>2. CASE r = q
    <3> DEFINE old == waiters[r]
               p == waiters'[r]
    <3>1. /\ Len(p) = Len(old) + 1
          /\ \A k \in 1 .. Len(old) : p[k] = old[k]
          /\ p[Len(old) + 1] = t
      BY <1>0, <1>3, <2>2, AppendType DEF Queues, ObjectOK
    <3>2. /\ Len(old) \in Nat /\ NoRepeats(old)
          /\ \A k \in 1 .. Len(old) : old[k] # t /\ old[k] \in Thread /\ WaitsIn(old[k], r)
      BY <1>0, <1>1
    <3> HIDE DEF p, old
    <3>3. NoRepeats(p)
      BY <3>1, <3>2 DEF NoRepeats
    <3>4. ASSUME NEW k \in 1 .. Len(p)
          PROVE  state'[p[k]] \in BlockedStates /\ blocked_on'[p[k]] = r
      <4>1. CASE k = Len(old) + 1
        BY <1>3, <2>2, <3>1, <4>1 DEF Queues
      <4>2. CASE k # Len(old) + 1
        <5>1. k \in 1 .. Len(old)
          BY <3>1, <3>2, <4>2
        <5> QED BY <1>3, <3>1, <3>2, <5>1 DEF Queues, Unmoved, WaitsIn
      <4> QED BY <4>1, <4>2
    <3> QED BY <3>3, <3>4 DEF p, ExactQueue, WaitsIn, NoRepeats
  <2> QED BY <2>1, <2>2
<1>4. ASSUME NEW q \in Resource, NEW i \in 1 .. Len(waiters[q]), Wakes(q, i)
      PROVE  ExactQueue(r)'
  <2>1. CASE r # q
    <3>1. waiters'[r] = waiters[r]
      BY <1>4, <2>1 DEF Wakes, ObjectOK
    <3>2. WaitsIn(waiters[q][i], q)
      BY DEF ExactQueue
    <3>3. \A k \in 1 .. Len(waiters[r]) : waiters[r][k] # waiters[q][i]
      BY <1>0, <2>1, <3>2 DEF WaitsIn
    <3> QED BY <1>0, <1>4, <3>1, <3>3 DEF Wakes, Unmoved, ExactQueue, WaitsIn
  <2>2. CASE r = q
    <3>1. waiters'[r] = WaiterRemove(waiters[r], i)
      BY <1>4, <2>2 DEF Wakes, ObjectOK
    <3>2. /\ NoRepeats(waiters'[r])
          /\ \A k \in 1 .. Len(waiters'[r]) :
               /\ waiters'[r][k] # waiters[r][i]
               /\ \E j \in 1 .. Len(waiters[r]) : waiters'[r][k] = waiters[r][j]
      BY <1>0, <1>4, <2>2, <3>1, RemoveIsExact
    <3> QED BY <1>0, <1>4, <2>2, <3>2 DEF Wakes, Unmoved, ExactQueue, WaitsIn
  <2> QED BY <2>1, <2>2
<1>5. ASSUME NEW q \in Resource, WakesAll(q)
      PROVE  ExactQueue(r)'
  <2>1. CASE r # q
    <3>1. waiters'[r] = waiters[r]
      BY <1>5, <2>1 DEF WakesAll, ObjectOK
    <3>2. \A k \in 1 .. Len(waiters[r]) : waiters[r][k] \notin QueuedOn(q)
      <4>1. \A u \in QueuedOn(q) : WaitsIn(u, q)
        BY DEF QueuedOn, ExactQueue
      <4> QED BY <1>0, <2>1, <4>1 DEF WaitsIn
    <3> QED BY <1>0, <1>5, <3>1, <3>2 DEF WakesAll, Unmoved, ExactQueue, WaitsIn
  <2>2. CASE r = q
    <3>1. waiters'[r] = <<>>
      BY <1>5, <2>2 DEF WakesAll, ObjectOK
    <3> QED BY <3>1 DEF ExactQueue, NoRepeats
  <2> QED BY <2>1, <2>2
<1> QED BY <1>2, <1>3, <1>4, <1>5 DEF WaitShape

LEMMA ExactMeaning ==
  ASSUME ObjectOK
  PROVE  (\A r \in Resource : ExactQueue(r)) <=>
           /\ \A r \in Resource : \A w \in QueuedOn(r) :
                state[w] \in BlockedStates /\ blocked_on[w] = r
           /\ \A r \in Resource : \A j, k \in 1 .. Len(waiters[r]) :
                waiters[r][j] = waiters[r][k] => j = k
  BY DEF ExactQueue, WaitsIn, NoRepeats, QueuedOn

(* Without timed calls *)
ExactInv == Untimed(scenario) => NoTimers /\ \A r \in Resource : ExactQueue(r)

LEMMA ExactInit ==
  ASSUME Init
  PROVE  ExactInv
  BY DEF Init, Reset, ExactInv, NoTimers, ExactQueue, NoRepeats

LEMMA ExactStep ==
  ASSUME TypeOK, ExactInv, [Next]_vars
  PROVE  ExactInv'
<1>1. Typed /\ ObjectOK
  BY TypeOKParts DEF Typed, ModelOK
<1>2. CASE Next
  <2>1. PICK t \in Thread : Step(t)
    BY <1>2 DEF Next, Runnable
  <2>2. scenario' = scenario
    BY <2>1, StepKeepsScenario
  <2>3. ASSUME Untimed(scenario)
        PROVE  NoTimers' /\ \A r \in Resource : ExactQueue(r)'
    <3>1. NoTimers /\ \A r \in Resource : ExactQueue(r)
      BY <2>3 DEF ExactInv
    <3>2. state[t] = "READY" /\ WaitShape(t) /\ NoTimers'
      BY <1>1, <2>1, <2>3, <3>1, StepIsAwake, StepWaits
    <3> QED BY <1>1, <3>1, <3>2, QueueStaysExact
  <2> QED BY <2>2, <2>3 DEF ExactInv, Untimed, ActionsOf
<1>3. CASE UNCHANGED vars
  BY <1>3 DEF ExactInv, NoTimers, ExactQueue, WaitsIn, Untimed, ActionsOf, vars,
              schedVars, objectVars
<1> QED BY <1>2, <1>3

LEMMA ExactCorrect == Spec /\ FitsArrays(scenario) => []ExactInv
<1>1. Init => ExactInv
  BY ExactInit
<1>2. TypeOK /\ ExactInv /\ [Next]_vars => ExactInv'
  BY ExactStep
<1> QED BY <1>1, <1>2, TypeCorrect, PTL DEF Spec

(* Without timed calls every entry of a wait queue is a thread that sleeps *)
(* there, once, whatever waiter_remove moved around: no call ever wakes a  *)
(* thread that waits for something else.                                   *)
THEOREM QueuesAreExact == Spec /\ FitsArrays(scenario) => []QueuesExact
<1>1. TypeOK /\ ExactInv => QueuesExact
  BY TypeOKParts, ExactMeaning DEF ExactInv, QueuesExact, ModelOK
<1> QED BY <1>1, TypeCorrect, ExactCorrect, PTL

-----------------------------------------------------------------------------
(* A circular wait is for ever *)

LEMMA TypedCalls ==
  ASSUME Typed, WellTyped(scenario), NEW t \in Thread
  PROVE  /\ Lock(t) \/ Unlock(t) => Target(t) \in OfType("MUTEX")
         /\ Wait(t) \/ Signal(t) => Target(t) \in OfType("SEMAPHORE")
<1>1. ASSUME NEW type \in ResourceActions, Doing(t, type)
      PROVE  /\ Target(t) \in Resource
             /\ Current(t) \in ActionsOf(scenario) /\ Current(t).type = type
  BY <1>1, CurrentType, CurrentIsOfScenario
<1>2. \A a \in ActionsOf(scenario) :
        /\ a.type \in {"MUTEX_LOCK", "MUTEX_UNLOCK"} =>
             scenario.res_types[a.resource_id] = "MUTEX"
        /\ a.type \in {"SEM_WAIT", "SEM_SIGNAL"} =>
             scenario.res_types[a.resource_id] = "SEMAPHORE"
  BY DEF WellTyped
<1>3. CASE Lock(t) \/ Unlock(t)
  <2>1. /\ Target(t) \in Resource /\ Current(t) \in ActionsOf(scenario)
        /\ Current(t).type \in {"MUTEX_LOCK", "MUTEX_UNLOCK"}
    BY <1>1, <1>3 DEF Lock, Unlock, ResourceActions
  <2>2. ResType(Target(t)) = "MUTEX"
    BY <1>2, <2>1 DEF Target, ResType
  <2> QED BY <1>1, <2>1, <2>2 DEF OfType, Wait, Signal, ResourceActions, Doing, Lock, Unlock
<1>4. CASE Wait(t) \/ Signal(t)
  <2>1. /\ Target(t) \in Resource /\ Current(t) \in ActionsOf(scenario)
        /\ Current(t).type \in {"SEM_WAIT", "SEM_SIGNAL"}
    BY <1>1, <1>4 DEF Wait, Signal, ResourceActions
  <2>2. ResType(Target(t)) = "SEMAPHORE"
    BY <1>2, <2>1 DEF Target, ResType
  <2> QED BY <1>1, <2>1, <2>2 DEF OfType, Wait, Signal, ResourceActions, Doing, Lock, Unlock
<1> QED BY <1>3, <1>4

LEMMA RegularCalls ==
  ASSUME Typed, Regular(scenario), NEW t \in Thread
  PROVE  /\ Lock(t) \/ Unlock(t) => Target(t) \in OfType("MUTEX")
         /\ Wait(t) \/ Signal(t) => Target(t) \in OfType("SEMAPHORE")
  BY TypedCalls DEF Regular

LEMMA AwakeAfter ==
  ASSUME SchedOK, NoTimers, NEW t \in Thread, state[t] = "READY",
         \/ Stay \/ Advance(t)
         \/ state' = [TickedState EXCEPT ![t] = "DONE"]
         \/ \E W, n : WakeAndAdvance(t, W, n)
  PROVE  state'[t] # "BLOCKED_MUTEX"
<1>1. TickedState = state
  BY TimeStandsStill
<1>2. CASE Stay \/ Advance(t)
  BY <1>1, <1>2 DEF Stay, Advance
<1>3. CASE state' = [TickedState EXCEPT ![t] = "DONE"]
  BY <1>1, <1>3 DEF SchedOK
<1>4. ASSUME NEW W, NEW n, WakeAndAdvance(t, W, n)
      PROVE  state'[t] # "BLOCKED_MUTEX"
  BY <1>1, <1>4 DEF WakeAndAdvance
<1> QED BY <1>2, <1>3, <1>4

(* Who falls asleep as on a mutex has called smash_mutex_lock *)
LEMMA SleepsOnMutex ==
  ASSUME Typed, NoTimers, Regular(scenario), NEW t \in Thread, Step(t),
         state'[t] = "BLOCKED_MUTEX"
  PROVE  blocked_on'[t] \in OfType("MUTEX")
<1>0. state[t] = "READY" /\ SchedOK
  BY StepIsAwake DEF Typed
<1>1. CASE Lock(t)
  <2>1. Target(t) \in OfType("MUTEX")
    BY <1>1, RegularCalls
  <2>2. CASE LockBlock(t, Target(t), 0)
    BY <1>0, <2>1, <2>2, BlockUnmoved DEF LockBlock
  <2> QED BY <1>0, <1>1, <2>2, AwakeAfter DEF Lock, MutexLock, LockAcquire, LockReject
<1>2. CASE Unlock(t)
  <2>1. \/ Stay \/ Advance(t)
        \/ \E W, n : WakeAndAdvance(t, W, n)
    BY <1>2 DEF Unlock, MutexUnlock, UnlockHandoff, UnlockFree, UnlockReject
  <2> QED BY <1>0, <2>1, AwakeAfter
<1>3. CASE Wait(t) \/ Signal(t)
  <2>1. CASE SemBlock(t, Target(t), 0)
    <3>1. state'[t] = "BLOCKED_SEM"
      BY <1>0, <2>1, BlockUnmoved DEF SemBlock
    <3> QED BY <3>1
  <2>2. CASE ~SemBlock(t, Target(t), 0)
    <3>1. \/ Stay \/ Advance(t)
          \/ \E W, n : WakeAndAdvance(t, W, n)
      BY <1>3, <2>2 DEF Wait, Signal, SemWait, SemSignal, SemTake, SemWaitReject, SemWake,
                        SemPost, SemSignalReject
    <3> QED BY <1>0, <3>1, AwakeAfter
  <2> QED BY <2>1, <2>2
<1>4. CASE Post(t) \/ PostFront(t) \/ Fetch(t)
  <2>1. \/ \E blocks : MbBlock(t, Target(t), blocks)
        \/ Stay \/ Advance(t)
        \/ \E W, n : WakeAndAdvance(t, W, n)
    BY <1>4 DEF Post, PostFront, Fetch, MbPost, MbPostFront, MbFetch, MbAppend,
                MbPrepend, MbReject, MbTake
  <2>2. ASSUME NEW blocks, MbBlock(t, Target(t), blocks)
        PROVE  FALSE
    <3>1. state'[t] = "BLOCKED_SEM"
      BY <1>0, <2>2, BlockUnmoved DEF MbBlock
    <3> QED BY <3>1
  <2> QED BY <1>0, <2>1, <2>2, AwakeAfter
<1>5. CASE ThreadEnd(t) \/ Done(t)
  BY <1>0, <1>5, AwakeAfter DEF ThreadEnd, Done
<1>6. CASE Pause(t) \/ Unhandled(t) \/ LocalReject(t) \/ SysLock(t) \/ SysUnlock(t)
             \/ IsrEnter(t) \/ IsrExit(t) \/ ObjectInit(t) \/ ObjectDestroy(t)
             \/ Call(t) \/ Return(t)
  <2>1. Stay \/ Advance(t)
    BY <1>6 DEF Pause, Unhandled, LocalReject, SysLock, SysUnlock, IsrEnter, IsrExit,
                CtxStep, ObjectInit, ObjectDestroy, SetAlive, Call, Return
  <2> QED BY <1>0, <2>1, AwakeAfter
<1>7. ~TimedLock(t) /\ ~TimedWait(t) /\ ~WaitCond(t) /\ ~SignalCond(t) /\ ~Broadcast(t)
  BY NoTimedCalls, NoConditionCalls DEF Regular
<1> QED BY <1>1, <1>2, <1>3, <1>4, <1>5, <1>6, <1>7 DEF Step

LEMMA SleepersStayOnMutex ==
  ASSUME Typed, NoTimers, Regular(scenario), NEW t \in Thread, Step(t),
         NEW u \in Thread, OnMutex(u)
  PROVE  OnMutex(u)'
<1>1. WaitShape(t) /\ scenario' = scenario
  BY StepWaits, StepKeepsScenario DEF Regular
<1>2. CASE u = t
  BY <1>1, <1>2, SleepsOnMutex DEF OnMutex, OfType, ResType
<1>3. CASE u # t
  <2>1. \/ state'[u] = state[u] /\ blocked_on'[u] = blocked_on[u]
        \/ state'[u] = "READY"
    BY <1>1, <1>3 DEF WaitShape, Minds, Queues, Wakes, WakesAll, Unmoved
  <2> QED BY <1>1, <2>1 DEF OnMutex, OfType, ResType
<1> QED BY <1>2, <1>3

(* Nobody but its owner changes a held mutex or wakes who waits for it *)
HeldStays(m, t) ==
  /\ owner'[m] = owner[m]
  /\ \A u \in Thread \ {t} :
       WaitsIn(u, m) => state'[u] = state[u] /\ blocked_on'[u] = blocked_on[u]

LEMMA HeldMutexStays ==
  ASSUME Typed, NoTimers, Regular(scenario), \A r \in Resource : ExactQueue(r),
         NEW t \in Thread, Step(t),
         NEW m \in OfType("MUTEX"), owner[m] \notin {t, NoThread}
  PROVE  HeldStays(m, t)
<1>0. /\ state[t] = "READY" /\ SchedOK /\ ObjectOK
      /\ m \in Resource /\ ResType(m) = "MUTEX"
  BY StepIsAwake DEF Typed, ModelOK, OfType
<1>1. ASSUME UNCHANGED owner, Unmoved({t})
      PROVE  HeldStays(m, t)
  BY <1>1 DEF HeldStays, Unmoved
<1>2. ASSUME owner'[m] = owner[m], Stay \/ Advance(t)
      PROVE  HeldStays(m, t)
  BY <1>0, <1>2, StayUnmoved DEF HeldStays
<1>3. ASSUME NEW r \in Resource, r # m, NEW i \in 1 .. Len(waiters[r]), NEW n,
             owner'[m] = owner[m], WakeAndAdvance(t, {waiters[r][i]}, n)
      PROVE  HeldStays(m, t)
  <2>1. Unmoved({waiters[r][i]})
    BY <1>0, <1>3, WakeUnmoved
  <2>2. ~WaitsIn(waiters[r][i], m)
    BY <1>3 DEF ExactQueue, WaitsIn
  <2> QED BY <1>3, <2>1, <2>2 DEF HeldStays, Unmoved
<1>4. CASE Lock(t)
  <2> DEFINE r == Target(t)
  <2>1. CASE LockAcquire(t, r)
    <3>1. owner'[m] = owner[m]
      BY <1>0, <2>1 DEF LockAcquire, ObjectOK
    <3> QED BY <1>2, <2>1, <3>1 DEF LockAcquire
  <2>2. CASE LockBlock(t, r, 0)
    BY <1>0, <1>1, <2>2, BlockUnmoved DEF LockBlock
  <2>3. CASE LockReject(t, r)
    BY <1>2, <2>3 DEF LockReject, Reject, modelVars, objectVars
  <2> QED BY <1>4, <2>1, <2>2, <2>3 DEF Lock, MutexLock
<1>5. CASE Unlock(t)
  <2> DEFINE r == Target(t)
  <2>1. r \in Resource
    BY <1>5, RegularCalls DEF OfType
  <2>2. CASE UnlockReject(t, r)
    BY <1>2, <2>2 DEF UnlockReject, Reject, modelVars, objectVars
  <2>3. CASE UnlockFree(t, r)
    <3>1. r # m
      BY <2>3 DEF UnlockFree, UnlockFault
    <3>2. owner'[m] = owner[m]
      BY <1>0, <2>3, <3>1 DEF UnlockFree, ObjectOK
    <3> QED BY <1>2, <2>3, <3>2 DEF UnlockFree
  <2>4. CASE UnlockHandoff(t, r)
    <3>1. r # m
      BY <2>4 DEF UnlockHandoff, UnlockFault
    <3>2. owner'[m] = owner[m]
      BY <1>0, <2>4, <3>1 DEF UnlockHandoff, ObjectOK
    <3> QED BY <1>3, <2>1, <2>4, <3>1, <3>2 DEF UnlockHandoff
  <2> QED BY <1>5, <2>2, <2>3, <2>4 DEF Unlock, MutexUnlock
<1>6. CASE Wait(t) \/ Signal(t)
  <2> DEFINE r == Target(t)
  <2>1. r \in Resource /\ r # m
    BY <1>0, <1>6, RegularCalls DEF OfType
  <2>2. CASE SemTake(t, r) \/ SemWaitReject(t, r) \/ SemPost(t, r) \/ SemSignalReject(t, r)
    BY <1>2, <2>2 DEF SemTake, SemWaitReject, SemPost, SemSignalReject, Reject, modelVars,
                      objectVars
  <2>3. CASE SemBlock(t, r, 0)
    BY <1>0, <1>1, <2>3, BlockUnmoved DEF SemBlock
  <2>4. CASE SemWake(t, r)
    BY <1>3, <2>1, <2>4 DEF SemWake
  <2> QED BY <1>6, <2>2, <2>3, <2>4 DEF Wait, Signal, SemWait, SemSignal
<1>7. CASE Post(t) \/ PostFront(t) \/ Fetch(t)
  <2> DEFINE r == Target(t)
             msg == Current(t).arg
  <2>1. ASSUME NEW blocks, MbReject(r, blocks)
        PROVE  HeldStays(m, t)
    BY <1>2, <2>1 DEF MbReject, Reject, modelVars, objectVars
  <2>2. ASSUME NEW blocks, MbBlock(t, r, blocks)
        PROVE  HeldStays(m, t)
    BY <1>0, <1>1, <2>2, BlockUnmoved DEF MbBlock
  <2>3. CASE MbAppend(t, r, msg) \/ MbPrepend(t, r, msg)
    BY <1>2, <2>3 DEF MbAppend, MbPrepend, objectVars
  <2>4. CASE MbTake(t, r)
    <3>1. r \in Resource /\ r # m
      BY <1>0, <1>7, <2>4, CurrentType
         DEF Post, PostFront, Fetch, MbTake, MbFault, ResourceActions
    <3>2. CASE waiters[r] = <<>>
      <4>1. {waiters[r][i] : i \in {1} \cap (1 .. Len(waiters[r]))} = {}
        BY <3>2
      <4>2. Unmoved({})
        BY <1>0, <2>4, <4>1, WakeUnmoved DEF MbTake
      <4> QED BY <2>4, <4>2 DEF MbTake, HeldStays, Unmoved
    <3>3. CASE waiters[r] # <<>>
      <4>1. 1 \in 1 .. Len(waiters[r])
        BY <1>0, <3>1, <3>3 DEF ObjectOK
      <4>2. {waiters[r][i] : i \in {1} \cap (1 .. Len(waiters[r]))} = {waiters[r][1]}
        BY <4>1
      <4>3. WakeAndAdvance(t, {waiters[r][1]}, 0) /\ owner' = owner
        BY <2>4, <4>2 DEF MbTake
      <4> QED BY <1>3, <3>1, <4>1, <4>3
    <3> QED BY <3>2, <3>3
  <2> HIDE DEF r, msg
  <2>5. \/ MbAppend(t, r, msg) \/ MbPrepend(t, r, msg) \/ MbTake(t, r)
        \/ \E blocks : MbBlock(t, r, blocks) \/ MbReject(r, blocks)
    BY <1>7 DEF Post, PostFront, Fetch, MbPost, MbPostFront, MbFetch, r, msg
  <2> QED BY <2>1, <2>2, <2>3, <2>4, <2>5
<1>8. CASE ThreadEnd(t) \/ Done(t)
  <2>1. Unmoved({t})
    BY <1>0, <1>8, EndUnmoved DEF ThreadEnd, Done
  <2> QED BY <1>1, <1>8, <2>1, LocalKeeps DEF modelVars, objectVars
<1>9. CASE Pause(t) \/ Unhandled(t) \/ LocalReject(t) \/ SysLock(t) \/ SysUnlock(t)
             \/ IsrEnter(t) \/ IsrExit(t) \/ ObjectInit(t) \/ ObjectDestroy(t)
             \/ Call(t) \/ Return(t)
  <2>1. Stay \/ Advance(t)
    BY <1>9 DEF Pause, Unhandled, LocalReject, SysLock, SysUnlock, IsrEnter, IsrExit,
                CtxStep, ObjectInit, ObjectDestroy, SetAlive, Call, Return
  <2> QED BY <1>2, <1>9, <2>1, LocalKeeps DEF modelVars, objectVars
<1>10. ~TimedLock(t) /\ ~TimedWait(t) /\ ~WaitCond(t) /\ ~SignalCond(t) /\ ~Broadcast(t)
  BY NoTimedCalls, NoConditionCalls DEF Regular
<1> QED BY <1>4, <1>5, <1>6, <1>7, <1>8, <1>9, <1>10 DEF Step

LEMMA EntangledStays ==
  ASSUME Typed, NoTimers, Regular(scenario), \A r \in Resource : ExactQueue(r),
         \A u \in Thread : OnMutex(u), NEW t \in Thread, Step(t),
         NEW S \in SUBSET Thread, Entangled(S)
  PROVE  Entangled(S)'
<1> SUFFICES ASSUME NEW u \in S
             PROVE  \E v \in S : WaitsFor(u, v)'
  BY DEF Entangled
<1>1. PICK v \in S : WaitsFor(u, v)
  BY DEF Entangled
<1>2. \A w \in S : state[w] = "BLOCKED_MUTEX" /\ w \in Thread
  BY DEF Entangled, WaitsFor
<1>3. u # t /\ v # t
  BY <1>2, StepIsAwake
<1> DEFINE m == blocked_on[u]
<1>4. m \in OfType("MUTEX") /\ owner[m] = v
  BY <1>1 DEF WaitsFor, OnMutex
<1>5. owner[m] \notin {t, NoThread}
  BY <1>2, <1>3, <1>4 DEF Thread, NoThread
<1>6. WaitsIn(u, m) /\ u \in Thread \ {t}
  BY <1>2, <1>3 DEF WaitsIn, BlockedStates
<1>7. owner'[m] = v /\ state'[u] = state[u] /\ blocked_on'[u] = m
  BY <1>4, <1>5, <1>6, HeldMutexStays DEF HeldStays
<1> QED BY <1>1, <1>7 DEF WaitsFor

OnMutexInv == Regular(scenario) => \A u \in Thread : OnMutex(u)

LEMMA OnMutexStep ==
  ASSUME TypeOK, ExactInv, OnMutexInv, [Next]_vars
  PROVE  OnMutexInv'
<1>1. CASE Next
  <2>1. PICK t \in Thread : Step(t)
    BY <1>1 DEF Next, Runnable
  <2>2. scenario' = scenario /\ Typed
    BY <2>1, StepKeepsScenario, TypeOKParts DEF Typed
  <2>3. Regular(scenario) => \A u \in Thread : OnMutex(u)'
    BY <2>1, <2>2, SleepersStayOnMutex DEF OnMutexInv, ExactInv, Regular
  <2> QED BY <2>2, <2>3
       DEF OnMutexInv, Regular, Untimed, CondFree, WellTyped, ActionsOf
<1>2. CASE UNCHANGED vars
  BY <1>2 DEF OnMutexInv, OnMutex, OfType, ResType, Regular, Untimed, CondFree,
              WellTyped, ActionsOf, vars, schedVars
<1> QED BY <1>1, <1>2

LEMMA OnMutexCorrect == Spec /\ FitsArrays(scenario) => []OnMutexInv
<1>1. Init => OnMutexInv
  BY DEF Init, Reset, OnMutexInv, OnMutex
<1>2. TypeOK /\ ExactInv /\ OnMutexInv /\ [Next]_vars => OnMutexInv'
  BY OnMutexStep
<1> QED BY <1>1, <1>2, TypeCorrect, ExactCorrect, PTL DEF Spec

(* The explorer may report a circular wait before everything has stopped:  *)
(* threads that wait for each other's mutexes do so for ever.              *)
THEOREM CircularWaitsLast == Spec /\ FitsArrays(scenario) => CircularWaitIsFinal
<1> DEFINE A == Regular(scenario) =>
                  \A S \in SUBSET Thread : Entangled(S) => Entangled(S)'
<1>1. TypeOK /\ ExactInv /\ OnMutexInv /\ [Next]_vars => [A]_vars
  <2>1. ASSUME TypeOK, ExactInv, OnMutexInv, Next, Regular(scenario),
               NEW S \in SUBSET Thread, Entangled(S)
        PROVE  Entangled(S)'
    <3>1. Typed /\ NoTimers /\ \A r \in Resource : ExactQueue(r)
      BY <2>1, TypeOKParts DEF Typed, ExactInv, Regular
    <3> QED BY <2>1, <3>1, EntangledStays DEF OnMutexInv, Next, Runnable
  <2> QED BY <2>1
<1>2. [][A]_vars <=> CircularWaitIsFinal
  BY DEF CircularWaitIsFinal
<1> HIDE DEF A
<1> QED BY <1>1, <1>2, TypeCorrect, ExactCorrect, OnMutexCorrect, PTL DEF Spec
=============================================================================
