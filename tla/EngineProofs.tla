----------------------------- MODULE EngineProofs -----------------------------
(***************************************************************************)
(* Safety of the engine's synchronization objects, for every size and for  *)
(* every scenario of the class each property names: wait queues and        *)
(* owners, sleeping and critical sections, destroyed objects, the end of   *)
(* priority boosts, and the entries timed waits leave behind in queues.    *)
(*                                                                         *)
(* A step does one of four things to the wait queues and to the threads    *)
(* that sleep in them, and one of four to the owners and the stacks.  The  *)
(* lemmas ending in Shape sort every action into these; properties of the  *)
(* queues and owners are then preserved shape by shape.                    *)
(***************************************************************************)
EXTENDS TypeProofs, FiniteSetTheorems

-----------------------------------------------------------------------------
(* What a step does to the wait queues *)

(* Who sleeps after the step slept before it, in the same place *)
SleepersOnly(W) ==
  \A u \in Thread \ W :
    state'[u] \in BlockedStates =>
      state[u] \in BlockedStates /\ blocked_on'[u] = blocked_on[u]

QueuesQuiet == SleepersOnly({}) /\ waiters' = waiters

Enqueues(t, r) ==
  /\ SleepersOnly({t})
  /\ blocked_on'[t] = r
  /\ waiters' = [waiters EXCEPT ![r] = Append(@, t)]

Dequeues(r, i) ==
  /\ SleepersOnly({})
  /\ state'[waiters[r][i]] \notin BlockedStates
  /\ waiters' = [waiters EXCEPT ![r] = WaiterRemove(@, i)]

Empties(r) ==
  /\ SleepersOnly({})
  /\ \A u \in QueuedOn(r) : state'[u] \notin BlockedStates
  /\ waiters' = [waiters EXCEPT ![r] = <<>>]

QueueShape ==
  \/ QueuesQuiet
  \/ \E t \in Thread, r \in Resource : Enqueues(t, r)
  \/ \E r \in Resource : \E i \in 1 .. Len(waiters[r]) : Dequeues(r, i)
  \/ \E r \in Resource : Empties(r)

(* A tick only ever ends a wait *)
LEMMA TickSleepers ==
  ASSUME SchedOK, NEW u \in Thread, TickedState[u] \in BlockedStates
  PROVE  state[u] \in BlockedStates /\ TickedBlockedOn[u] = blocked_on[u]
  BY DEF SchedOK, TickedState, TickedBlockedOn, BlockedStates

LEMMA StaySleepers ==
  ASSUME SchedOK, NEW t \in Thread, Stay \/ Advance(t)
  PROVE  SleepersOnly({})
  BY TickSleepers DEF Stay, Advance, SleepersOnly

LEMMA EndSleepers ==
  ASSUME SchedOK, NEW t \in Thread,
         state' = [TickedState EXCEPT ![t] = "DONE"],
         blocked_on' = TickedBlockedOn
  PROVE  SleepersOnly({})
  BY TickedType, TickSleepers DEF SleepersOnly, BlockedStates

LEMMA BlockSleepers ==
  ASSUME SchedOK, NEW t \in Thread, NEW r, NEW blocked, NEW ticks,
         Block(t, r, blocked, ticks)
  PROVE  SleepersOnly({t}) /\ blocked_on'[t] = r
  BY TickedType, TickSleepers DEF Block, SleepersOnly

LEMMA WakeSleepers ==
  ASSUME SchedOK, NEW t \in Thread, NEW W, NEW n, WakeAndAdvance(t, W, n)
  PROVE  SleepersOnly({}) /\ \A u \in Thread \cap W : state'[u] \notin BlockedStates
  BY TickSleepers DEF WakeAndAdvance, SleepersOnly, BlockedStates

LEMMA EnqueueShape ==
  ASSUME SchedOK, NEW t \in Thread, NEW r \in Resource, NEW blocked, NEW ticks,
         Block(t, r, blocked, ticks),
         waiters' = [waiters EXCEPT ![r] = Append(@, t)]
  PROVE  QueueShape
  BY BlockSleepers DEF QueueShape, Enqueues

LEMMA DequeueShape ==
  ASSUME SchedOK, ObjectOK, NEW t \in Thread, NEW r \in Resource, NEW n,
         NEW i \in 1 .. Len(waiters[r]),
         WakeAndAdvance(t, {waiters[r][i]}, n),
         waiters' = [waiters EXCEPT ![r] = WaiterRemove(@, i)]
  PROVE  QueueShape
  BY WakeSleepers, QueuedAreThreads DEF QueueShape, Dequeues

LEMMA QuietShape ==
  ASSUME SchedOK, NEW t \in Thread, Stay \/ Advance(t), waiters' = waiters
  PROVE  QueueShape
  BY StaySleepers DEF QueueShape, QueuesQuiet

LEMMA RejectShape ==
  ASSUME SchedOK, NEW t \in Thread, NEW reason, Reject(reason), Stay \/ Advance(t)
  PROVE  QueueShape
  BY QuietShape DEF Reject, modelVars, objectVars

LEMMA MutexShape ==
  ASSUME Typed, NEW t \in Thread, NEW r \in Resource, NEW ticks,
         MutexLock(t, r, ticks) \/ MutexUnlock(t, r)
  PROVE  QueueShape
<1> USE DEF Typed, ModelOK
<1>1. CASE LockAcquire(t, r)
  BY <1>1, QuietShape DEF LockAcquire
<1>2. CASE LockBlock(t, r, ticks)
  BY <1>2, EnqueueShape DEF LockBlock
<1>3. CASE LockReject(t, r)
  BY <1>3, RejectShape DEF LockReject
<1>4. CASE UnlockHandoff(t, r)
  <2>1. PICK i \in 1 .. Len(waiters[r]) :
          /\ waiters' = [waiters EXCEPT ![r] = WaiterRemove(@, i)]
          /\ WakeAndAdvance(t, {waiters[r][i]}, 1)
    BY <1>4 DEF UnlockHandoff
  <2> QED BY <2>1, DequeueShape
<1>5. CASE UnlockFree(t, r)
  BY <1>5, QuietShape DEF UnlockFree
<1>6. CASE UnlockReject(t, r)
  BY <1>6, RejectShape DEF UnlockReject
<1> QED BY <1>1, <1>2, <1>3, <1>4, <1>5, <1>6 DEF MutexLock, MutexUnlock

LEMMA SemShape ==
  ASSUME Typed, NEW t \in Thread, NEW r \in Resource, NEW ticks,
         SemWait(t, r, ticks) \/ SemSignal(t, r)
  PROVE  QueueShape
<1> USE DEF Typed, ModelOK
<1>1. CASE SemTake(t, r)
  BY <1>1, QuietShape DEF SemTake
<1>2. CASE SemBlock(t, r, ticks)
  BY <1>2, EnqueueShape DEF SemBlock
<1>3. CASE SemWaitReject(t, r)
  BY <1>3, RejectShape DEF SemWaitReject
<1>4. CASE SemWake(t, r)
  <2>1. PICK i \in 1 .. Len(waiters[r]) :
          /\ waiters' = [waiters EXCEPT ![r] = WaiterRemove(@, i)]
          /\ WakeAndAdvance(t, {waiters[r][i]}, 1)
    BY <1>4 DEF SemWake
  <2> QED BY <2>1, DequeueShape
<1>5. CASE SemPost(t, r)
  BY <1>5, QuietShape DEF SemPost
<1>6. CASE SemSignalReject(t, r)
  BY <1>6, RejectShape DEF SemSignalReject
<1> QED BY <1>1, <1>2, <1>3, <1>4, <1>5, <1>6 DEF SemWait, SemSignal

LEMMA CondShape ==
  ASSUME Typed, NEW t \in Thread, NEW c \in Resource,
         CondWait(t, c) \/ CondSignal(t, c) \/ CondBroadcast(t, c)
  PROVE  QueueShape
<1> USE DEF Typed, ModelOK
<1>1. CASE CondBlock(t, c)
  BY <1>1, EnqueueShape DEF CondBlock
<1>2. CASE CondOverflow(t, c)
  BY <1>2, QuietShape DEF CondOverflow
<1>3. CASE CondWaitReject(t, c)
  BY <1>3, RejectShape DEF CondWaitReject
<1>4. CASE CondWake(t, c)
  <2>1. PICK i \in 1 .. Len(waiters[c]) :
          /\ waiters' = [waiters EXCEPT ![c] = WaiterRemove(@, i)]
          /\ WakeAndAdvance(t, {waiters[c][i]}, 0)
    BY <1>4 DEF CondWake
  <2> QED BY <2>1, DequeueShape
<1>5. CASE CondLost(t, c)
  BY <1>5, QuietShape DEF CondLost, modelVars, objectVars
<1>6. CASE CondSignalReject(t, c)
  BY <1>6, RejectShape DEF CondSignalReject
<1>7. CASE CondWakeAll(t, c)
  BY <1>7, WakeSleepers, QueuedAreThreads DEF CondWakeAll, QueueShape, Empties
<1> QED BY <1>1, <1>2, <1>3, <1>4, <1>5, <1>6, <1>7 DEF CondWait, CondSignal, CondBroadcast

LEMMA MailboxShape ==
  ASSUME Typed, NEW t \in Thread, NEW r \in Resource, NEW msg,
         MbPost(t, r, msg) \/ MbPostFront(t, r, msg) \/ MbFetch(t, r)
  PROVE  QueueShape
<1> USE DEF Typed, ModelOK
<1>1. CASE MbAppend(t, r, msg) \/ MbPrepend(t, r, msg)
  BY <1>1, QuietShape DEF MbAppend, MbPrepend, objectVars
<1>2. ASSUME NEW blocks, MbBlock(t, r, blocks) \/ MbReject(r, blocks)
      PROVE  QueueShape
  BY <1>2, EnqueueShape, RejectShape DEF MbBlock, MbReject
<1>3. CASE MbTake(t, r)
  <2>1. CASE waiters[r] = <<>>
    <3>1. waiters' = waiters
      BY <1>3, <2>1 DEF MbTake, ObjectOK
    <3>2. SleepersOnly({})
      BY <1>3, WakeSleepers DEF MbTake
    <3> QED BY <3>1, <3>2 DEF QueueShape, QueuesQuiet
  <2>2. CASE waiters[r] # <<>>
    <3>1. 1 \in 1 .. Len(waiters[r])
      BY <2>2 DEF ObjectOK
    <3>2. waiters' = [waiters EXCEPT ![r] = WaiterRemove(@, 1)]
      BY <1>3, <2>2 DEF MbTake, ObjectOK
    <3>3. {waiters[r][i] : i \in {1} \cap (1 .. Len(waiters[r]))} = {waiters[r][1]}
      BY <3>1
    <3>4. WakeAndAdvance(t, {waiters[r][1]}, 0)
      BY <1>3, <3>3 DEF MbTake
    <3> QED BY <3>1, <3>2, <3>4, DequeueShape
  <2> QED BY <2>1, <2>2
<1> QED BY <1>1, <1>2, <1>3 DEF MbPost, MbPostFront, MbFetch

LEMMA LocalShape ==
  ASSUME Typed, NEW t \in Thread,
         \/ ThreadEnd(t) \/ Done(t) \/ Pause(t) \/ Unhandled(t) \/ LocalReject(t)
         \/ SysLock(t) \/ SysUnlock(t) \/ IsrEnter(t) \/ IsrExit(t)
         \/ ObjectInit(t) \/ ObjectDestroy(t) \/ Call(t) \/ Return(t)
  PROVE  QueueShape
<1>1. waiters' = waiters
  BY DEF ThreadEnd, Done, Pause, Unhandled, LocalReject, SysLock, SysUnlock, IsrEnter,
         IsrExit, CtxStep, ObjectInit, ObjectDestroy, SetAlive, Call, Return,
         ModelUnchanged, modelVars, objectVars
<1>2. CASE ThreadEnd(t) \/ Done(t)
  BY <1>1, <1>2, EndSleepers DEF ThreadEnd, Done, QueueShape, QueuesQuiet, Typed
<1>3. CASE ~(ThreadEnd(t) \/ Done(t))
  <2>1. Stay \/ Advance(t)
    BY <1>3 DEF Pause, Unhandled, LocalReject, SysLock, SysUnlock, IsrEnter, IsrExit,
                CtxStep, ObjectInit, ObjectDestroy, SetAlive, Call, Return
  <2> QED BY <1>1, <2>1, QuietShape DEF Typed
<1> QED BY <1>2, <1>3

LEMMA StepQueueShape ==
  ASSUME Typed, NEW t \in Thread, Step(t)
  PROVE  QueueShape
<1>1. ASSUME NEW type \in ResourceActions, Doing(t, type)
      PROVE  Target(t) \in Resource
  BY <1>1, CurrentType
<1>2. CASE Lock(t) \/ TimedLock(t) \/ Unlock(t)
  BY <1>1, <1>2, MutexShape DEF Lock, TimedLock, Unlock, ResourceActions
<1>3. CASE Wait(t) \/ TimedWait(t) \/ Signal(t)
  BY <1>1, <1>3, SemShape DEF Wait, TimedWait, Signal, ResourceActions
<1>4. CASE WaitCond(t) \/ SignalCond(t) \/ Broadcast(t)
  BY <1>1, <1>4, CondShape DEF WaitCond, SignalCond, Broadcast, ResourceActions
<1>5. CASE Post(t) \/ PostFront(t) \/ Fetch(t)
  BY <1>1, <1>5, MailboxShape DEF Post, PostFront, Fetch, ResourceActions
<1> QED BY <1>2, <1>3, <1>4, <1>5, LocalShape DEF Step

-----------------------------------------------------------------------------
(* Every sleeper can be found *)

(* Whatever is removed, every other thread in the queue stays in it *)
LEMMA RemoveKeepsOthers ==
  ASSUME NEW q \in Seq(Thread), NEW i \in 1 .. Len(q),
         NEW k \in 1 .. Len(q), q[k] # q[i]
  PROVE  \E j \in 1 .. Len(WaiterRemove(q, i)) : WaiterRemove(q, i)[j] = q[k]
<1>1. /\ Len(WaiterRemove(q, i)) = Len(q) - 1
      /\ \A j \in 1 .. Len(q) - 1 :
           WaiterRemove(q, i)[j] = IF j = i THEN q[Len(q)] ELSE q[j]
  BY WaiterRemoveType
<1>2. CASE k = Len(q)
  <2>1. i \in 1 .. Len(q) - 1
    BY <1>2
  <2> QED BY <1>1, <1>2, <2>1
<1>3. CASE k # Len(q)
  <2>1. k \in 1 .. Len(q) - 1 /\ k # i
    BY <1>3
  <2> QED BY <1>1, <2>1
<1> QED BY <1>2, <1>3

LEMMA SleepersStayQueued ==
  ASSUME SchedOK, ObjectOK, BlockedAreQueued, QueueShape
  PROVE  BlockedAreQueued'
<1> SUFFICES ASSUME NEW u \in Thread, state'[u] \in BlockedStates
             PROVE  /\ blocked_on'[u] \in Resource
                    /\ \E k \in 1 .. Len(waiters'[blocked_on'[u]]) :
                         waiters'[blocked_on'[u]][k] = u
  BY DEF BlockedAreQueued, QueuedOn
<1>0. ASSUME NEW W, SleepersOnly(W), u \notin W
      PROVE  /\ blocked_on'[u] = blocked_on[u]
             /\ blocked_on[u] \in Resource
             /\ \E k \in 1 .. Len(waiters[blocked_on[u]]) : waiters[blocked_on[u]][k] = u
  BY <1>0 DEF SleepersOnly, BlockedAreQueued, QueuedOn
<1>1. CASE QueuesQuiet
  BY <1>0, <1>1 DEF QueuesQuiet
<1>2. ASSUME NEW t \in Thread, NEW r \in Resource, Enqueues(t, r)
      PROVE  /\ blocked_on'[u] \in Resource
             /\ \E k \in 1 .. Len(waiters'[blocked_on'[u]]) :
                  waiters'[blocked_on'[u]][k] = u
  <2>1. waiters[r] \in Seq(Thread)
    BY DEF ObjectOK
  <2>2. waiters'[r] = Append(waiters[r], t)
        /\ \A q \in Resource \ {r} : waiters'[q] = waiters[q]
    BY <1>2 DEF Enqueues, ObjectOK
  <2>3. /\ Len(waiters'[r]) = Len(waiters[r]) + 1
        /\ \A k \in 1 .. Len(waiters[r]) : waiters'[r][k] = waiters[r][k]
        /\ waiters'[r][Len(waiters[r]) + 1] = t
    BY <2>1, <2>2, AppendType
  <2>4. Len(waiters[r]) \in Nat
    BY <2>1
  <2>5. CASE u = t
    BY <1>2, <2>3, <2>4, <2>5 DEF Enqueues
  <2>6. CASE u # t
    <3>1. PICK k \in 1 .. Len(waiters[blocked_on[u]]) : waiters[blocked_on[u]][k] = u
      BY <1>0, <1>2, <2>6 DEF Enqueues
    <3>2. blocked_on'[u] = blocked_on[u] /\ blocked_on[u] \in Resource
      BY <1>0, <1>2, <2>6 DEF Enqueues
    <3> QED BY <2>2, <2>3, <2>4, <3>1, <3>2
  <2> QED BY <2>5, <2>6
<1>3. ASSUME NEW r \in Resource, NEW i \in 1 .. Len(waiters[r]), Dequeues(r, i)
      PROVE  /\ blocked_on'[u] \in Resource
             /\ \E k \in 1 .. Len(waiters'[blocked_on'[u]]) :
                  waiters'[blocked_on'[u]][k] = u
  <2>1. waiters'[r] = WaiterRemove(waiters[r], i)
        /\ \A q \in Resource \ {r} : waiters'[q] = waiters[q]
    BY <1>3 DEF Dequeues, ObjectOK
  <2>2. PICK k \in 1 .. Len(waiters[blocked_on[u]]) : waiters[blocked_on[u]][k] = u
    BY <1>0, <1>3 DEF Dequeues
  <2>3. blocked_on'[u] = blocked_on[u] /\ blocked_on[u] \in Resource
    BY <1>0, <1>3 DEF Dequeues
  <2>4. CASE blocked_on[u] = r
    <3>1. u # waiters[r][i]
      BY <1>3 DEF Dequeues
    <3>2. waiters[r] \in Seq(Thread)
      BY DEF ObjectOK
    <3> QED BY <2>1, <2>2, <2>3, <2>4, <3>1, <3>2, RemoveKeepsOthers
  <2>5. CASE blocked_on[u] # r
    BY <2>1, <2>2, <2>3, <2>5
  <2> QED BY <2>4, <2>5
<1>4. ASSUME NEW r \in Resource, Empties(r)
      PROVE  /\ blocked_on'[u] \in Resource
             /\ \E k \in 1 .. Len(waiters'[blocked_on'[u]]) :
                  waiters'[blocked_on'[u]][k] = u
  <2>1. \A q \in Resource \ {r} : waiters'[q] = waiters[q]
    BY <1>4 DEF Empties, ObjectOK
  <2>2. blocked_on[u] # r
    BY <1>0, <1>4 DEF Empties, QueuedOn
  <2> QED BY <1>0, <1>4, <2>1, <2>2 DEF Empties
<1> QED BY <1>1, <1>2, <1>3, <1>4 DEF QueueShape

LEMMA QueuedStep ==
  ASSUME TypeOK, BlockedAreQueued, [Next]_vars
  PROVE  BlockedAreQueued'
<1>1. Typed
  BY TypeOKParts DEF Typed
<1>2. CASE Next
  BY <1>1, <1>2, StepQueueShape, SleepersStayQueued DEF Next, Runnable, Typed, ModelOK
<1>3. CASE UNCHANGED vars
  BY <1>3 DEF BlockedAreQueued, QueuedOn, vars, schedVars, objectVars
<1> QED BY <1>2, <1>3

(* No thread ever sleeps where nobody can find it: a blocked thread is in  *)
(* the wait queue of what it is blocked on, whatever smash_execute_step    *)
(* and waiter_remove did before.                                           *)
THEOREM SleepersAreQueued == Spec /\ FitsArrays(scenario) => []BlockedAreQueued
<1>1. Init => BlockedAreQueued
  BY DEF Init, Reset, BlockedAreQueued, BlockedStates
<1>2. TypeOK /\ BlockedAreQueued /\ [Next]_vars => BlockedAreQueued'
  BY QueuedStep
<1> QED BY <1>1, <1>2, TypeCorrect, PTL DEF Spec

-----------------------------------------------------------------------------
(* Owners and stacks *)

OnStack(s, r) == \E k \in 1 .. Len(s) : s[k] = r

(* StacksMatchOwners of any owners and stacks, so that it can be stated    *)
(* half-way through a handoff                                              *)
Match(own, stacks) ==
  /\ own \in [Resource -> Thread \cup {NoThread}]
  /\ stacks \in [Thread -> Seq(Resource)]
  /\ \A t \in Thread, r \in Resource : own[r] = t <=> OnStack(stacks[t], r)
  /\ \A t \in Thread : NoRepeats(stacks[t])

LEMMA MatchMeaning ==
  ASSUME ModelOK
  PROVE  StacksMatchOwners <=> Match(owner, owned_mutex_stack)
  BY DEF StacksMatchOwners, Match, OnStack, NoRepeats, ModelOK, InheritOK, ObjectOK

(* owned_push never drops a mutex: a stack without repetitions that lacks  *)
(* one resource has a free slot.                                           *)
LEMMA RoomOnStack ==
  ASSUME NEW s \in Seq(Resource), NoRepeats(s), NEW r \in Resource, ~OnStack(s, r)
  PROVE  Len(s) < MaxOwned
<1> DEFINE n == Len(s) + 1
           f == [k \in 1 .. n |-> IF k = n THEN r ELSE s[k]]
<1>1. Len(s) \in Nat /\ n \in Nat
  OBVIOUS
<1>2. f \in [1 .. n -> Resource]
  OBVIOUS
<1>3. \A j, k \in 1 .. n : f[j] = f[k] => j = k
  <2> SUFFICES ASSUME NEW j \in 1 .. n, NEW k \in 1 .. n, f[j] = f[k]
               PROVE  j = k
    OBVIOUS
  <2>1. CASE j = n /\ k # n
    BY <2>1, <1>1 DEF OnStack
  <2>2. CASE j # n /\ k = n
    BY <2>2, <1>1 DEF OnStack
  <2>3. CASE j # n /\ k # n
    BY <2>3, <1>1 DEF NoRepeats
  <2> QED BY <2>1, <2>2, <2>3
<1>4. f \in Injection(1 .. n, Resource)
  <2> HIDE DEF n, f
  <2> QED BY <1>2, <1>3 DEF Injection, IsInjective
<1>5. IsFiniteSet(Resource) /\ Cardinality(Resource) = NResources
  <2>1. 0 \in Int /\ NResources - 1 \in Int
    BY SizeAssumption
  <2>2. /\ IsFiniteSet(0 .. NResources - 1)
        /\ Cardinality(0 .. NResources - 1)
             = IF 0 > NResources - 1 THEN 0 ELSE NResources - 1 - 0 + 1
    BY <2>1, FS_Interval
  <2> QED BY <2>2, SizeAssumption DEF Resource
<1>6. Cardinality(1 .. n) = n
  <2> HIDE DEF n
  <2>1. Cardinality(1 .. n) = IF 1 > n THEN 0 ELSE n - 1 + 1
    BY <1>1, FS_Interval
  <2> QED BY <1>1, <2>1
<1>7. Cardinality(1 .. n) <= Cardinality(Resource)
  <2> HIDE DEF n, f
  <2> QED BY <1>4, <1>5, FS_Injection
<1> QED BY <1>1, <1>5, <1>6, <1>7, SizeAssumption

LEMMA PushOnStack ==
  ASSUME NEW s \in Seq(Resource), NoRepeats(s), NEW r \in Resource, ~OnStack(s, r)
  PROVE  /\ OwnedPush(s, r) \in Seq(Resource)
         /\ NoRepeats(OwnedPush(s, r))
         /\ \A q \in Resource : OnStack(OwnedPush(s, r), q) <=> OnStack(s, q) \/ q = r
<1>1. OwnedPush(s, r) = Append(s, r)
  BY RoomOnStack DEF OwnedPush
<1>2. /\ Append(s, r) \in Seq(Resource)
      /\ Len(Append(s, r)) = Len(s) + 1
      /\ \A k \in 1 .. Len(s) : Append(s, r)[k] = s[k]
      /\ Append(s, r)[Len(s) + 1] = r
      /\ Len(s) \in Nat
  BY AppendType
<1> DEFINE p == Append(s, r)
<1> HIDE DEF p
<1>3. NoRepeats(p)
  BY <1>2 DEF p, NoRepeats, OnStack
<1>4. ASSUME NEW q \in Resource
      PROVE  OnStack(p, q) <=> OnStack(s, q) \/ q = r
  BY <1>2 DEF p, OnStack
<1> QED BY <1>1, <1>2, <1>3, <1>4 DEF p

LEMMA PopOffStack ==
  ASSUME NEW s \in Seq(Resource), NoRepeats(s), Len(s) > 0
  PROVE  /\ OwnedPop(s) \in Seq(Resource)
         /\ NoRepeats(OwnedPop(s))
         /\ \A q \in Resource :
              OnStack(OwnedPop(s), q) <=> OnStack(s, q) /\ q # s[Len(s)]
<1>1. /\ OwnedPop(s) \in Seq(Resource)
      /\ Len(OwnedPop(s)) = Len(s) - 1
      /\ \A k \in 1 .. Len(s) - 1 : OwnedPop(s)[k] = s[k]
      /\ Len(s) \in Nat
  BY OwnedPopType
<1> QED BY <1>1 DEF NoRepeats, OnStack

LEMMA AcquireMatch ==
  ASSUME NEW own, NEW stacks, Match(own, stacks), NEW t \in Thread, NEW r \in Resource,
         own[r] = NoThread
  PROVE  Match([own EXCEPT ![r] = t], [stacks EXCEPT ![t] = OwnedPush(@, r)])
<1> DEFINE s == OwnedPush(stacks[t], r)
<1>1. \A u \in Thread : ~OnStack(stacks[u], r)
  BY DEF Match, Thread, NoThread
<1>2. /\ s \in Seq(Resource)
      /\ NoRepeats(s)
      /\ \A q \in Resource : OnStack(s, q) <=> OnStack(stacks[t], q) \/ q = r
  BY <1>1, PushOnStack DEF Match
<1>3. [stacks EXCEPT ![t] = OwnedPush(@, r)] = [stacks EXCEPT ![t] = s]
  OBVIOUS
<1> HIDE DEF s
<1> QED BY <1>1, <1>2, <1>3 DEF Match

LEMMA ReleaseMatch ==
  ASSUME NEW own, NEW stacks, Match(own, stacks), NEW t \in Thread, NEW r \in Resource,
         own[r] = t, Len(stacks[t]) > 0, stacks[t][Len(stacks[t])] = r
  PROVE  Match([own EXCEPT ![r] = NoThread], [stacks EXCEPT ![t] = OwnedPop(@)])
<1> DEFINE s == OwnedPop(stacks[t])
<1>1. /\ s \in Seq(Resource)
      /\ NoRepeats(s)
      /\ \A q \in Resource : OnStack(s, q) <=> OnStack(stacks[t], q) /\ q # r
  BY PopOffStack DEF Match
<1>2. \A u \in Thread : u # NoThread
  BY DEF Thread, NoThread
<1>3. [stacks EXCEPT ![t] = OwnedPop(@)] = [stacks EXCEPT ![t] = s]
  OBVIOUS
<1> HIDE DEF s
<1> QED BY <1>1, <1>2, <1>3 DEF Match

-----------------------------------------------------------------------------
(* What a step does to owners and stacks *)

Acquires(t, r) ==
  /\ owner[r] = NoThread
  /\ owner' = [owner EXCEPT ![r] = t]
  /\ owned_mutex_stack' = [owned_mutex_stack EXCEPT ![t] = OwnedPush(@, r)]

Releases(t, r) ==
  /\ owner[r] = t /\ OwnedTopIs(t, r)
  /\ owner' = [owner EXCEPT ![r] = NoThread]
  /\ owned_mutex_stack' = [owned_mutex_stack EXCEPT ![t] = OwnedPop(@)]

HandsOver(t, w, r) ==
  /\ owner[r] = t /\ OwnedTopIs(t, r)
  /\ owner' = [owner EXCEPT ![r] = w]
  /\ owned_mutex_stack' =
       [[owned_mutex_stack EXCEPT ![t] = OwnedPop(@)] EXCEPT ![w] = OwnedPush(@, r)]

OwnersQuiet == UNCHANGED <<owner, owned_mutex_stack>>

OwnerShape ==
  \/ OwnersQuiet
  \/ \E t \in Thread, r \in Resource : Acquires(t, r) \/ Releases(t, r)
  \/ \E t, w \in Thread, r \in Resource : HandsOver(t, w, r)

LEMMA MutexOwnerShape ==
  ASSUME ObjectOK, NEW t \in Thread, NEW r \in Resource, NEW ticks,
         MutexLock(t, r, ticks) \/ MutexUnlock(t, r)
  PROVE  OwnerShape
<1>1. CASE LockAcquire(t, r)
  BY <1>1 DEF LockAcquire, OwnerShape, Acquires
<1>2. CASE LockBlock(t, r, ticks)
  BY <1>2 DEF LockBlock, OwnerShape, OwnersQuiet
<1>3. CASE LockReject(t, r) \/ UnlockReject(t, r)
  BY <1>3 DEF LockReject, UnlockReject, Reject, modelVars, inheritVars, objectVars,
              OwnerShape, OwnersQuiet
<1>4. CASE UnlockHandoff(t, r)
  <2>1. PICK i \in 1 .. Len(waiters[r]) : HandsOver(t, waiters[r][i], r)
    BY <1>4 DEF UnlockHandoff, UnlockFault, HandsOver
  <2> QED BY <2>1, QueuedAreThreads DEF OwnerShape
<1>5. CASE UnlockFree(t, r)
  BY <1>5 DEF UnlockFree, UnlockFault, OwnerShape, Releases
<1> QED BY <1>1, <1>2, <1>3, <1>4, <1>5 DEF MutexLock, MutexUnlock

LEMMA CondWaitOwnerShape ==
  ASSUME NEW t \in Thread, NEW c \in Resource, CondWait(t, c)
  PROVE  OwnerShape
<1>1. CASE CondRelease(t, c)
  <2> DEFINE m == scenario.associated_mutex[c]
  <2>1. m \in Resource /\ Releases(t, m)
    BY <1>1 DEF CondRelease, CondWaitFault, Releases
  <2> QED BY <2>1 DEF OwnerShape
<1>2. CASE CondWaitReject(t, c)
  BY <1>2 DEF CondWaitReject, Reject, modelVars, inheritVars, objectVars, OwnerShape,
              OwnersQuiet
<1> QED BY <1>1, <1>2 DEF CondWait, CondBlock, CondOverflow

LEMMA StepOwnerShape ==
  ASSUME Typed, NEW t \in Thread, Step(t)
  PROVE  OwnerShape
<1>1. ASSUME NEW type \in ResourceActions, Doing(t, type)
      PROVE  Target(t) \in Resource
  BY <1>1, CurrentType
<1>2. CASE Lock(t) \/ TimedLock(t) \/ Unlock(t)
  BY <1>1, <1>2, MutexOwnerShape
     DEF Lock, TimedLock, Unlock, ResourceActions, Typed, ModelOK
<1>3. CASE WaitCond(t)
  BY <1>1, <1>3, CondWaitOwnerShape DEF WaitCond, ResourceActions
<1>4. CASE Wait(t) \/ TimedWait(t) \/ Signal(t)
  BY <1>4 DEF Wait, TimedWait, Signal, SemWait, SemTake, SemBlock, SemWaitReject,
              SemSignal, SemWake, SemPost, SemSignalReject, Reject, modelVars,
              inheritVars, objectVars, OwnerShape, OwnersQuiet
<1>5. CASE SignalCond(t) \/ Broadcast(t)
  BY <1>5 DEF SignalCond, Broadcast, CondSignal, CondBroadcast, CondWake, CondLost,
              CondSignalReject, CondWakeAll, Reject, modelVars, inheritVars,
              objectVars, OwnerShape, OwnersQuiet
<1>6. CASE Post(t) \/ PostFront(t) \/ Fetch(t)
  BY <1>6 DEF Post, PostFront, Fetch, MbPost, MbPostFront, MbFetch, MbAppend,
              MbPrepend, MbBlock, MbReject, MbTake, Reject, modelVars, inheritVars,
              objectVars, OwnerShape, OwnersQuiet
<1>7. CASE ~(\/ Lock(t) \/ TimedLock(t) \/ Unlock(t) \/ WaitCond(t) \/ Wait(t)
             \/ TimedWait(t) \/ Signal(t) \/ SignalCond(t) \/ Broadcast(t)
             \/ Post(t) \/ PostFront(t) \/ Fetch(t))
  BY <1>7 DEF Step, ThreadEnd, Done, Pause, Unhandled, LocalReject, SysLock, SysUnlock,
              IsrEnter, IsrExit, CtxStep, ObjectInit, ObjectDestroy, SetAlive, Call,
              Return, ModelUnchanged, modelVars, inheritVars, objectVars, OwnerShape,
              OwnersQuiet
<1> QED BY <1>2, <1>3, <1>4, <1>5, <1>6, <1>7

LEMMA OwnersStayMatched ==
  ASSUME ModelOK, StacksMatchOwners, OwnerShape
  PROVE  Match(owner', owned_mutex_stack')
<1>1. Match(owner, owned_mutex_stack)
  BY MatchMeaning
<1>2. CASE OwnersQuiet
  BY <1>1, <1>2 DEF OwnersQuiet
<1>3. ASSUME NEW t \in Thread, NEW r \in Resource, Acquires(t, r) \/ Releases(t, r)
      PROVE  Match(owner', owned_mutex_stack')
  BY <1>1, <1>3, AcquireMatch, ReleaseMatch DEF Acquires, Releases, OwnedTopIs
<1>4. ASSUME NEW t \in Thread, NEW w \in Thread, NEW r \in Resource, HandsOver(t, w, r)
      PROVE  Match(owner', owned_mutex_stack')
  <2> DEFINE own == [owner EXCEPT ![r] = NoThread]
             stacks == [owned_mutex_stack EXCEPT ![t] = OwnedPop(@)]
  <2>1. Match(own, stacks)
    BY <1>1, <1>4, ReleaseMatch DEF HandsOver, OwnedTopIs
  <2>2. own[r] = NoThread /\ [own EXCEPT ![r] = w] = [owner EXCEPT ![r] = w]
    BY <1>1 DEF Match
  <2>3. owner' = [own EXCEPT ![r] = w]
        /\ owned_mutex_stack' = [stacks EXCEPT ![w] = OwnedPush(@, r)]
    BY <1>4, <2>2 DEF HandsOver
  <2> HIDE DEF own, stacks
  <2> QED BY <2>1, <2>2, <2>3, AcquireMatch
<1> QED BY <1>2, <1>3, <1>4 DEF OwnerShape

LEMMA MatchedStep ==
  ASSUME TypeOK, StacksMatchOwners, [Next]_vars
  PROVE  StacksMatchOwners'
<1>1. CASE Next
  <2>1. Match(owner', owned_mutex_stack')
    BY <1>1, TypeOKParts, StepOwnerShape, OwnersStayMatched DEF Next, Runnable, Typed
  <2> QED BY <2>1 DEF StacksMatchOwners, Match, OnStack, NoRepeats
<1>2. CASE UNCHANGED vars
  BY <1>2 DEF StacksMatchOwners, vars, inheritVars, objectVars
<1> QED BY <1>1, <1>2

(* Every mutex is on the stack of its owner, once, and on no other stack:  *)
(* the two records of ownership agree after every lock, unlock, handoff    *)
(* and cond_wait, and owned_push never drops a mutex.                      *)
THEOREM OwnersMatchStacks == Spec /\ FitsArrays(scenario) => []StacksMatchOwners
<1>1. Init => StacksMatchOwners
  BY DEF Init, Reset, StacksMatchOwners, Thread, NoThread
<1>2. TypeOK /\ StacksMatchOwners /\ [Next]_vars => StacksMatchOwners'
  BY MatchedStep
<1> QED BY <1>1, <1>2, TypeCorrect, PTL DEF Spec

-----------------------------------------------------------------------------
(* What the programs of a scenario say of its steps *)

(* The action a thread executes is one of its scenario's *)
LEMMA CurrentIsOfScenario ==
  ASSUME Typed, NEW t \in Thread, NEW type, Doing(t, type)
  PROVE  Current(t) \in ActionsOf(scenario) /\ Current(t).type = type
<1>1. TickedPc[t] \in Nat /\ TickedPc[t] < Len(scenario.steps[t])
  BY TickedType DEF Typed, Doing, StepCount
<1>2. Len(scenario.steps[t]) \in Nat
  BY DEF Typed, ValidScenario
<1>3. TickedPc[t] + 1 \in 1 .. Len(scenario.steps[t])
  BY <1>1, <1>2
<1> QED BY <1>3 DEF Doing, Current, ActionsOf

LEMMA NoConditionCalls ==
  ASSUME Typed, CondFree(scenario), NEW t \in Thread
  PROVE  ~WaitCond(t) /\ ~SignalCond(t) /\ ~Broadcast(t)
  BY CurrentIsOfScenario DEF CondFree, CondTypes, WaitCond, SignalCond, Broadcast

LEMMA StepKeepsScenario ==
  ASSUME NEW t \in Thread, Step(t)
  PROVE  scenario' = scenario
  BY DEF Step, ThreadEnd, Done, Lock, TimedLock, Unlock, Wait, TimedWait, Signal,
         WaitCond, SignalCond, Broadcast, Post, PostFront, Fetch, Pause, Unhandled,
         LocalReject, SysLock, SysUnlock, IsrEnter, IsrExit, ObjectInit,
         ObjectDestroy, Call, Return, SetAlive, CtxStep, ModelUnchanged, ModelStep

-----------------------------------------------------------------------------
(* Who falls asleep *)

MayBlock(t) ==
  exec_ctx[t] = "THREAD" \/ \E type \in Blocking : Doing(t, type)

FallsAsleep(t) ==
  \/ SleepersOnly({})
  \/ SleepersOnly({t}) /\ MayBlock(t)

LEMMA AwakeSleepers ==
  ASSUME Typed, NEW t \in Thread, Stay \/ Advance(t)
  PROVE  FallsAsleep(t)
  BY StaySleepers DEF Typed, FallsAsleep

LEMMA MutexSleepers ==
  ASSUME Typed, NEW t \in Thread, NEW r \in Resource, NEW ticks,
         MutexLock(t, r, ticks) \/ MutexUnlock(t, r)
  PROVE  FallsAsleep(t)
<1>1. CASE LockAcquire(t, r) \/ LockReject(t, r)
  BY <1>1, AwakeSleepers DEF LockAcquire, LockReject
<1>2. CASE LockBlock(t, r, ticks)
  <2>1. SleepersOnly({t})
    BY <1>2, BlockSleepers DEF LockBlock, Typed
  <2>2. exec_ctx[t] = "THREAD"
    BY <1>2 DEF LockBlock, LockFault
  <2> QED BY <2>1, <2>2 DEF FallsAsleep, MayBlock
<1>3. CASE UnlockFree(t, r) \/ UnlockReject(t, r)
  BY <1>3, AwakeSleepers DEF UnlockFree, UnlockReject
<1>4. CASE UnlockHandoff(t, r)
  BY <1>4, WakeSleepers DEF UnlockHandoff, Typed, FallsAsleep
<1> QED BY <1>1, <1>2, <1>3, <1>4 DEF MutexLock, MutexUnlock

LEMMA SemSleepers ==
  ASSUME Typed, NEW t \in Thread, NEW r \in Resource, NEW ticks,
         SemWait(t, r, ticks) \/ SemSignal(t, r)
  PROVE  FallsAsleep(t)
<1>1. CASE SemTake(t, r) \/ SemWaitReject(t, r) \/ SemPost(t, r) \/ SemSignalReject(t, r)
  BY <1>1, AwakeSleepers DEF SemTake, SemWaitReject, SemPost, SemSignalReject
<1>2. CASE SemBlock(t, r, ticks)
  <2>1. SleepersOnly({t})
    BY <1>2, BlockSleepers DEF SemBlock, Typed
  <2>2. exec_ctx[t] = "THREAD"
    BY <1>2 DEF SemBlock, SemWaitFault
  <2> QED BY <2>1, <2>2 DEF FallsAsleep, MayBlock
<1>3. CASE SemWake(t, r)
  BY <1>3, WakeSleepers DEF SemWake, Typed, FallsAsleep
<1> QED BY <1>1, <1>2, <1>3 DEF SemWait, SemSignal

LEMMA CondSleepers ==
  ASSUME Typed, NEW t \in Thread, WaitCond(t) \/ SignalCond(t) \/ Broadcast(t)
  PROVE  FallsAsleep(t)
<1> DEFINE c == Target(t)
<1>1. CASE CondBlock(t, c) /\ Doing(t, "COND_WAIT")
  <2>1. SleepersOnly({t})
    BY <1>1, BlockSleepers DEF CondBlock, Typed
  <2> QED BY <1>1, <2>1 DEF FallsAsleep, MayBlock, Blocking
<1>2. CASE CondOverflow(t, c) \/ CondWaitReject(t, c) \/ CondLost(t, c)
             \/ CondSignalReject(t, c)
  BY <1>2, AwakeSleepers DEF CondOverflow, CondWaitReject, CondLost, CondSignalReject
<1>3. CASE CondWake(t, c) \/ CondWakeAll(t, c)
  BY <1>3, WakeSleepers DEF CondWake, CondWakeAll, Typed, FallsAsleep
<1> QED BY <1>1, <1>2, <1>3
     DEF WaitCond, SignalCond, Broadcast, CondWait, CondSignal, CondBroadcast

LEMMA MailboxSleepers ==
  ASSUME Typed, NEW t \in Thread, Post(t) \/ PostFront(t) \/ Fetch(t)
  PROVE  FallsAsleep(t)
<1> DEFINE r == Target(t)
           msg == Current(t).arg
<1>1. CASE MbAppend(t, r, msg) \/ MbPrepend(t, r, msg)
  BY <1>1, AwakeSleepers DEF MbAppend, MbPrepend
<1>2. ASSUME NEW blocks, MbReject(r, blocks)
      PROVE  FallsAsleep(t)
  BY <1>2, AwakeSleepers DEF MbReject
<1>3. ASSUME NEW blocks, MbBlock(t, r, blocks)
      PROVE  FallsAsleep(t)
  <2>1. SleepersOnly({t})
    BY <1>3, BlockSleepers DEF MbBlock, Typed
  <2>2. MayBlock(t)
    BY DEF MayBlock, Blocking, Post, PostFront, Fetch
  <2> QED BY <2>1, <2>2 DEF FallsAsleep
<1>4. CASE MbTake(t, r)
  BY <1>4, WakeSleepers DEF MbTake, Typed, FallsAsleep
<1> HIDE DEF r, msg
<1>5. \/ MbAppend(t, r, msg) \/ MbPrepend(t, r, msg) \/ MbTake(t, r)
      \/ \E blocks : MbBlock(t, r, blocks) \/ MbReject(r, blocks)
  BY DEF Post, PostFront, Fetch, MbPost, MbPostFront, MbFetch, r, msg
<1> QED BY <1>1, <1>2, <1>3, <1>4, <1>5

LEMMA StepSleepers ==
  ASSUME Typed, NEW t \in Thread, Step(t)
  PROVE  FallsAsleep(t)
<1>1. ASSUME NEW type \in ResourceActions, Doing(t, type)
      PROVE  Target(t) \in Resource
  BY <1>1, CurrentType
<1>2. CASE Lock(t) \/ TimedLock(t) \/ Unlock(t)
  BY <1>1, <1>2, MutexSleepers DEF Lock, TimedLock, Unlock, ResourceActions
<1>3. CASE Wait(t) \/ TimedWait(t) \/ Signal(t)
  BY <1>1, <1>3, SemSleepers DEF Wait, TimedWait, Signal, ResourceActions
<1>4. CASE WaitCond(t) \/ SignalCond(t) \/ Broadcast(t)
  BY <1>4, CondSleepers
<1>5. CASE Post(t) \/ PostFront(t) \/ Fetch(t)
  BY <1>5, MailboxSleepers
<1>6. CASE ThreadEnd(t) \/ Done(t)
  BY <1>6, EndSleepers DEF ThreadEnd, Done, Typed, FallsAsleep
<1>7. CASE Pause(t) \/ Unhandled(t) \/ LocalReject(t) \/ SysLock(t) \/ SysUnlock(t)
             \/ IsrEnter(t) \/ IsrExit(t) \/ ObjectInit(t) \/ ObjectDestroy(t)
             \/ Call(t) \/ Return(t)
  <2>1. Stay \/ Advance(t)
    BY <1>7 DEF Pause, Unhandled, LocalReject, SysLock, SysUnlock, IsrEnter, IsrExit,
                CtxStep, ObjectInit, ObjectDestroy, SetAlive, Call, Return
  <2> QED BY <2>1, AwakeSleepers
<1> QED BY <1>2, <1>3, <1>4, <1>5, <1>6, <1>7 DEF Step

-----------------------------------------------------------------------------
(* Sleeping and critical sections *)

(* What the calls test, exec_ctx, never forgets a critical section *)
ContextKnowsSections ==
  \A t \in Thread : sys_lock_depth[t] > 0 => exec_ctx[t] # "THREAD"

ChangesContext(t) == SysLock(t) \/ SysUnlock(t) \/ IsrEnter(t) \/ IsrExit(t)

LEMMA ContextFrame ==
  ASSUME NEW t \in Thread, Step(t)
  PROVE  ChangesContext(t) \/ UNCHANGED ctxVars
  BY DEF Step, ThreadEnd, Done, Lock, TimedLock, Unlock, Wait, TimedWait, Signal,
         WaitCond, SignalCond, Broadcast, Post, PostFront, Fetch, Pause, Unhandled,
         LocalReject, ObjectInit, ObjectDestroy, Call, Return, SetAlive, ModelStep,
         ChangesContext

LEMMA ContextStep ==
  ASSUME LocalOK, NEW t \in Thread, ChangesContext(t), ContextKnowsSections
  PROVE  /\ ContextKnowsSections'
         /\ Advance(t) /\ TickedState[t] = "READY"
         /\ \A u \in Thread \ {t} : sys_lock_depth'[u] = sys_lock_depth[u]
<1>1. Advance(t) /\ TickedState[t] = "READY"
  BY DEF ChangesContext, SysLock, SysUnlock, IsrEnter, IsrExit, CtxStep, Doing, Scheduled
<1>2. \A u \in Thread \ {t} : /\ sys_lock_depth'[u] = sys_lock_depth[u]
                              /\ exec_ctx'[u] = exec_ctx[u]
  BY DEF ChangesContext, SysLock, SysUnlock, IsrEnter, IsrExit, LocalOK
<1>3. sys_lock_depth'[t] > 0 => exec_ctx'[t] # "THREAD"
  BY DEF ChangesContext, SysLock, SysUnlock, IsrEnter, IsrExit, LocalOK, RestoredCtx,
         ContextKnowsSections
<1> QED BY <1>1, <1>2, <1>3 DEF ContextKnowsSections

SectionsInv == ContextKnowsSections /\ NoSleepInCriticalSection

LEMMA SectionsStep ==
  ASSUME TypeOK, SectionsInv, NEW t \in Thread, Step(t)
  PROVE  SectionsInv'
<1>0. Typed /\ LocalOK
  BY TypeOKParts DEF Typed
<1>1. scenario' = scenario
  BY StepKeepsScenario
<1>2. ContextKnowsSections'
  BY <1>0, ContextFrame, ContextStep DEF SectionsInv, ContextKnowsSections, ctxVars
<1>3. ASSUME \A a \in ActionsOf(scenario) : a.type \notin Blocking,
             NEW u \in Thread, state'[u] \in BlockedStates
      PROVE  sys_lock_depth'[u] = 0
  <2>1. FallsAsleep(t)
    BY <1>0, StepSleepers
  <2>2. CASE ChangesContext(t)
    <3>1. u # t
      BY <1>0, <1>3, <2>2, ContextStep DEF SectionsInv, Advance, BlockedStates
    <3>2. sys_lock_depth'[u] = sys_lock_depth[u]
      BY <1>0, <2>2, <3>1, ContextStep DEF SectionsInv
    <3>3. state[u] \in BlockedStates
      BY <1>3, <2>1, <3>1 DEF FallsAsleep, SleepersOnly
    <3> QED BY <1>3, <3>2, <3>3 DEF SectionsInv, NoSleepInCriticalSection, Waiting
  <2>3. CASE UNCHANGED ctxVars
    <3>1. sys_lock_depth'[u] = sys_lock_depth[u]
      BY <2>3 DEF ctxVars
    <3>2. CASE state[u] \in BlockedStates
      BY <1>3, <3>1, <3>2 DEF SectionsInv, NoSleepInCriticalSection, Waiting
    <3>3. CASE state[u] \notin BlockedStates
      <4>1. u = t /\ MayBlock(t)
        BY <1>3, <2>1, <3>3 DEF FallsAsleep, SleepersOnly
      <4>2. exec_ctx[t] = "THREAD"
        BY <1>0, <1>3, <4>1, CurrentIsOfScenario DEF MayBlock
      <4>3. sys_lock_depth[t] \in Nat /\ ~(sys_lock_depth[t] > 0)
        BY <1>0, <4>2 DEF SectionsInv, ContextKnowsSections, LocalOK
      <4> QED BY <3>1, <4>1, <4>3
    <3> QED BY <3>2, <3>3
  <2> QED BY <2>2, <2>3, ContextFrame
<1> QED BY <1>1, <1>2, <1>3 DEF SectionsInv, NoSleepInCriticalSection, Waiting, ActionsOf

(* A mutex or semaphore call never puts a thread to sleep in a critical    *)
(* section: exec_ctx, the only thing smash_mutex_lock and smash_sem_wait   *)
(* test, follows sys_lock_depth through all nestings of locks and          *)
(* interrupts.                                                             *)
THEOREM CriticalSectionsStayAwake ==
  Spec /\ FitsArrays(scenario) => []NoSleepInCriticalSection
<1>1. Init => SectionsInv
  BY DEF Init, Reset, SectionsInv, ContextKnowsSections, NoSleepInCriticalSection,
         Waiting, BlockedStates
<1>2. TypeOK /\ SectionsInv /\ [Next]_vars => SectionsInv'
  <2>1. CASE Next
    BY <2>1, SectionsStep DEF Next, Runnable
  <2>2. CASE UNCHANGED vars
    BY <2>2 DEF SectionsInv, ContextKnowsSections, NoSleepInCriticalSection, Waiting,
                ActionsOf, vars, schedVars, ctxVars
  <2> QED BY <2>1, <2>2
<1>3. SectionsInv => NoSleepInCriticalSection
  BY DEF SectionsInv
<1> QED BY <1>1, <1>2, <1>3, TypeCorrect, PTL DEF Spec

-----------------------------------------------------------------------------
(* Destroyed objects *)

(* The objects a step changes *)
Keeps(r) == owner'[r] = owner[r] /\ count'[r] = count[r] /\ waiters'[r] = waiters[r]

LEMMA MutexKeeps ==
  ASSUME ObjectOK, NEW t \in Thread, NEW q \in Resource, NEW ticks,
         MutexLock(t, q, ticks) \/ MutexUnlock(t, q),
         NEW r \in Resource, ~alive[r]
  PROVE  Keeps(r)
<1>1. CASE LockReject(t, q) \/ UnlockReject(t, q)
  BY <1>1 DEF LockReject, UnlockReject, Reject, modelVars, objectVars, Keeps
<1>2. CASE LockAcquire(t, q) \/ LockBlock(t, q, ticks)
  <2>1. r # q
    BY <1>2 DEF LockAcquire, LockBlock, LockFault
  <2> QED BY <1>2, <2>1 DEF LockAcquire, LockBlock, ObjectOK, Keeps
<1>3. CASE UnlockHandoff(t, q) \/ UnlockFree(t, q)
  <2>1. r # q
    BY <1>3 DEF UnlockHandoff, UnlockFree, UnlockFault
  <2> QED BY <1>3, <2>1 DEF UnlockHandoff, UnlockFree, ObjectOK, Keeps
<1> QED BY <1>1, <1>2, <1>3 DEF MutexLock, MutexUnlock

LEMMA SemKeeps ==
  ASSUME ObjectOK, NEW t \in Thread, NEW q \in Resource, NEW ticks,
         SemWait(t, q, ticks) \/ SemSignal(t, q),
         NEW r \in Resource, ~alive[r]
  PROVE  Keeps(r)
<1>1. CASE SemWaitReject(t, q) \/ SemSignalReject(t, q)
  BY <1>1 DEF SemWaitReject, SemSignalReject, Reject, modelVars, objectVars, Keeps
<1>2. CASE SemTake(t, q) \/ SemBlock(t, q, ticks)
  <2>1. r # q
    BY <1>2 DEF SemTake, SemBlock, SemWaitFault
  <2> QED BY <1>2, <2>1 DEF SemTake, SemBlock, ObjectOK, Keeps
<1>3. CASE SemWake(t, q) \/ SemPost(t, q)
  <2>1. r # q
    BY <1>3 DEF SemWake, SemPost
  <2> QED BY <1>3, <2>1 DEF SemWake, SemPost, ObjectOK, Keeps
<1> QED BY <1>1, <1>2, <1>3 DEF SemWait, SemSignal

(* A mailbox call touches nothing but a mailbox *)
LEMMA MailboxKeeps ==
  ASSUME ObjectOK, NEW t \in Thread, NEW q \in Resource, NEW msg,
         MbPost(t, q, msg) \/ MbPostFront(t, q, msg) \/ MbFetch(t, q),
         NEW r \in Resource, ResType(r) # "MAILBOX"
  PROVE  Keeps(r)
<1>1. ASSUME NEW blocks, MbReject(q, blocks)
      PROVE  Keeps(r)
  BY <1>1 DEF MbReject, Reject, modelVars, objectVars, Keeps
<1>2. ASSUME NEW blocks, MbBlock(t, q, blocks)
      PROVE  Keeps(r)
  <2>1. r # q
    BY <1>2 DEF MbBlock, MbFault
  <2> QED BY <1>2, <2>1 DEF MbBlock, ObjectOK, Keeps
<1>3. CASE MbAppend(t, q, msg) \/ MbPrepend(t, q, msg)
  BY <1>3 DEF MbAppend, MbPrepend, objectVars, Keeps
<1>4. CASE MbTake(t, q)
  <2>1. r # q
    BY <1>4 DEF MbTake, MbFault
  <2> QED BY <1>4, <2>1 DEF MbTake, ObjectOK, Keeps
<1> QED BY <1>1, <1>2, <1>3, <1>4 DEF MbPost, MbPostFront, MbFetch

LEMMA LocalKeeps ==
  ASSUME NEW t \in Thread,
         \/ ThreadEnd(t) \/ Done(t) \/ Pause(t) \/ Unhandled(t) \/ LocalReject(t)
         \/ SysLock(t) \/ SysUnlock(t) \/ IsrEnter(t) \/ IsrExit(t)
         \/ ObjectInit(t) \/ ObjectDestroy(t) \/ Call(t) \/ Return(t)
  PROVE  UNCHANGED modelVars
  BY DEF ThreadEnd, Done, Pause, Unhandled, LocalReject, SysLock, SysUnlock, IsrEnter,
         IsrExit, CtxStep, ObjectInit, ObjectDestroy, SetAlive, Call, Return,
         ModelUnchanged

LEMMA StepKeepsDestroyed ==
  ASSUME Typed, CondFree(scenario), NEW t \in Thread, Step(t),
         NEW r \in OfType("MUTEX") \cup OfType("SEMAPHORE"), ~alive[r]
  PROVE  Keeps(r)
<1>1. ASSUME NEW type \in ResourceActions, Doing(t, type)
      PROVE  Target(t) \in Resource
  BY <1>1, CurrentType
<1>2. r \in Resource /\ ResType(r) # "MAILBOX" /\ ObjectOK
  BY DEF OfType, Typed, ModelOK
<1>3. CASE Lock(t) \/ TimedLock(t) \/ Unlock(t)
  BY <1>1, <1>2, <1>3, MutexKeeps DEF Lock, TimedLock, Unlock, ResourceActions
<1>4. CASE Wait(t) \/ TimedWait(t) \/ Signal(t)
  BY <1>1, <1>2, <1>4, SemKeeps DEF Wait, TimedWait, Signal, ResourceActions
<1>5. CASE Post(t) \/ PostFront(t) \/ Fetch(t)
  BY <1>1, <1>2, <1>5, MailboxKeeps DEF Post, PostFront, Fetch, ResourceActions
<1>6. CASE UNCHANGED modelVars
  BY <1>6 DEF modelVars, objectVars, Keeps
<1> QED BY <1>3, <1>4, <1>5, <1>6, NoConditionCalls, LocalKeeps DEF Step

(* No call gets through to a destroyed mutex or semaphore, whoever owned   *)
(* it or was queued for it when it was destroyed, until it is initialized  *)
(* again.                                                                  *)
THEOREM DestroyedStayUntouched == Spec /\ FitsArrays(scenario) => DestroyedObjectsUntouched
<1> DEFINE A == CondFree(scenario) =>
                  \A r \in OfType("MUTEX") \cup OfType("SEMAPHORE") :
                    ~alive[r] => /\ owner'[r] = owner[r]
                                 /\ count'[r] = count[r]
                                 /\ waiters'[r] = waiters[r]
<1>1. TypeOK /\ [Next]_vars => [A]_vars
  <2>1. CASE TypeOK /\ Next
    BY <2>1, TypeOKParts, StepKeepsDestroyed DEF Next, Runnable, Typed, Keeps
  <2> QED BY <2>1
<1>2. [][A]_vars <=> DestroyedObjectsUntouched
  BY DEF DestroyedObjectsUntouched
<1> HIDE DEF A
<1> QED BY <1>1, <1>2, TypeCorrect, PTL DEF Spec

-----------------------------------------------------------------------------
(* The end of a boost *)

LEMMA OwnersHold ==
  ASSUME StacksMatchOwners, NEW u \in Thread, NEW r \in Resource, owner[r] = u
  PROVE  owned_mutex_stack[u] # <<>>
  BY DEF StacksMatchOwners

(* Every thread on the chain of owners owns something *)
LEMMA BoostedHold ==
  ASSUME StacksMatchOwners, NEW r \in Resource, NEW p, NEW u \in Boosted(owner[r], p)
  PROVE  owned_mutex_stack[u] # <<>>
<1> DEFINE B == {v \in Thread : owned_mutex_stack[v] # <<>>}
<1>1. ASSUME NEW v \in Thread, NEW w, v = NextOwner(w)
      PROVE  v \in B
  <2>1. v # NoThread
    BY DEF Thread, NoThread
  <2>2. TickedBlockedOn[w] \in Resource /\ owner[TickedBlockedOn[w]] = v
    BY <1>1, <2>1 DEF NextOwner
  <2> QED BY <2>2, OwnersHold
<1>2. ClosedUnderBoost(B, owner[r], p)
  BY <1>1, OwnersHold DEF ClosedUnderBoost
<1>3. u \in B
  BY <1>2 DEF Boosted
<1> QED BY <1>3

LEMMA PushIsNotEmpty ==
  ASSUME NEW s \in Seq(Resource), NEW r \in Resource
  PROVE  OwnedPush(s, r) # <<>>
<1>1. MaxOwned >= 1
  BY SizeAssumption DEF Resource
<1>2. Append(s, r) # <<>>
  <2> DEFINE p == Append(s, r)
  <2>1. Len(p) = Len(s) + 1 /\ Len(s) \in Nat
    BY AppendType
  <2> HIDE DEF p
  <2>2. p # <<>>
    BY <2>1
  <2> QED BY <2>2 DEF p
<1>3. Len(s) \in Nat /\ MaxOwned \in Nat
  BY SizeAssumption
<1>4. CASE Len(s) < MaxOwned
  BY <1>2, <1>4 DEF OwnedPush
<1>5. CASE ~(Len(s) < MaxOwned)
  <2>1. OwnedPush(s, r) = s /\ Len(s) # 0
    BY <1>1, <1>3, <1>5 DEF OwnedPush
  <2> QED BY <2>1
<1> QED BY <1>4, <1>5

(* A thread that gives up its last mutex falls back to its own priority *)
LEMMA LastUnlock ==
  ASSUME InheritOK, StacksMatchOwners, NEW t \in Thread, NEW r \in Resource,
         UnlockFault(t, r) = "none", RecalcPriority(t, r),
         OwnedPop(owned_mutex_stack[t]) = <<>>
  PROVE  priority'[t] = BasePriority(t)
<1> DEFINE s == owned_mutex_stack[t]
<1>1. s \in Seq(Resource) /\ Len(s) > 0 /\ s[Len(s)] = r
  BY DEF UnlockFault, OwnedTopIs, InheritOK
<1>2. Len(s) = 1 /\ s[1] = r
  <2> HIDE DEF s
  <2>1. Len(OwnedPop(s)) = Len(s) - 1 /\ Len(s) \in Nat
    BY <1>1, OwnedPopType
  <2>2. Len(OwnedPop(s)) = 0
    BY DEF s
  <2>3. Len(s) = 1
    BY <2>1, <2>2
  <2> QED BY <1>1, <2>3
<1>3. \A q \in Resource : owner[q] = t => q = r
  BY <1>2 DEF StacksMatchOwners
<1>4. PriorityClaims(t, r) = {BasePriority(t)}
  BY <1>3 DEF PriorityClaims
<1> QED BY <1>4 DEF RecalcPriority, InheritOK

Repaid(t) == owned_mutex_stack[t] = <<>> => priority[t] = BasePriority(t)

LEMMA LockRepaid ==
  ASSUME InheritOK, StacksMatchOwners, NEW t \in Thread, NEW r \in Resource, NEW ticks,
         MutexLock(t, r, ticks), scenario' = scenario, NEW u \in Thread, Repaid(u)
  PROVE  Repaid(u)'
<1>1. CASE LockAcquire(t, r)
  <2>1. CASE u = t
    <3>1. owned_mutex_stack'[t] = OwnedPush(owned_mutex_stack[t], r)
      BY <1>1 DEF LockAcquire, InheritOK
    <3>2. owned_mutex_stack'[t] # <<>>
      BY <3>1, PushIsNotEmpty DEF InheritOK
    <3> QED BY <2>1, <3>2 DEF Repaid
  <2>2. CASE u # t
    BY <1>1, <2>2 DEF LockAcquire, InheritOK, Repaid, BasePriority
  <2> QED BY <2>1, <2>2
<1>2. CASE LockBlock(t, r, ticks)
  <2>1. u \notin Boosted(owner[r], priority[t]) => priority'[u] = priority[u]
    BY <1>2 DEF LockBlock
  <2> QED BY <1>2, <2>1, BoostedHold DEF LockBlock, Repaid, BasePriority
<1>3. CASE LockReject(t, r)
  BY <1>3 DEF LockReject, Reject, modelVars, inheritVars, Repaid, BasePriority
<1> QED BY <1>1, <1>2, <1>3 DEF MutexLock

LEMMA UnlockRepaid ==
  ASSUME InheritOK, ObjectOK, StacksMatchOwners, NEW t \in Thread, NEW r \in Resource,
         MutexUnlock(t, r), scenario' = scenario, NEW u \in Thread, Repaid(u)
  PROVE  Repaid(u)'
<1> DEFINE popped == [owned_mutex_stack EXCEPT ![t] = OwnedPop(@)]
<1>0. UnlockFault(t, r) = "none" => popped \in [Thread -> Seq(Resource)]
  BY OwnedPopType DEF UnlockFault, OwnedTopIs, InheritOK
<1>1. CASE UnlockHandoff(t, r)
  <2>1. PICK w \in Thread :
          owned_mutex_stack' = [popped EXCEPT ![w] = OwnedPush(@, r)]
    BY <1>1, QueuedAreThreads DEF UnlockHandoff
  <2>2. popped \in [Thread -> Seq(Resource)]
    BY <1>0, <1>1 DEF UnlockHandoff
  <2>3. CASE u = w
    <3>1. owned_mutex_stack'[u] = OwnedPush(popped[u], r)
      BY <2>1, <2>2, <2>3
    <3> QED BY <2>2, <3>1, PushIsNotEmpty DEF Repaid
  <2>4. CASE u # w /\ u = t
    <3>1. owned_mutex_stack'[u] = OwnedPop(owned_mutex_stack[t])
      BY <2>1, <2>4 DEF InheritOK
    <3> QED BY <1>1, <2>4, <3>1, LastUnlock DEF UnlockHandoff, Repaid, BasePriority
  <2>5. CASE u # w /\ u # t
    BY <1>1, <2>1, <2>5
       DEF UnlockHandoff, RecalcPriority, InheritOK, Repaid, BasePriority
  <2> QED BY <2>3, <2>4, <2>5
<1>2. CASE UnlockFree(t, r)
  <2>1. CASE u = t
    <3>1. owned_mutex_stack'[u] = OwnedPop(owned_mutex_stack[t])
      BY <1>2, <2>1 DEF UnlockFree, InheritOK
    <3> QED BY <1>2, <2>1, <3>1, LastUnlock DEF UnlockFree, Repaid, BasePriority
  <2>2. CASE u # t
    BY <1>2, <2>2 DEF UnlockFree, RecalcPriority, InheritOK, Repaid, BasePriority
  <2> QED BY <2>1, <2>2
<1>3. CASE UnlockReject(t, r)
  BY <1>3 DEF UnlockReject, Reject, modelVars, inheritVars, Repaid, BasePriority
<1> QED BY <1>1, <1>2, <1>3 DEF MutexUnlock

LEMMA StepRepaid ==
  ASSUME Typed, StacksMatchOwners, CondFree(scenario), NEW t \in Thread, Step(t),
         NEW u \in Thread, Repaid(u)
  PROVE  Repaid(u)'
<1>0. scenario' = scenario /\ InheritOK /\ ObjectOK
  BY StepKeepsScenario DEF Typed, ModelOK
<1>1. ASSUME NEW type \in ResourceActions, Doing(t, type)
      PROVE  Target(t) \in Resource
  BY <1>1, CurrentType
<1>2. CASE Lock(t) \/ TimedLock(t)
  BY <1>0, <1>1, <1>2, LockRepaid DEF Lock, TimedLock, ResourceActions
<1>3. CASE Unlock(t)
  BY <1>0, <1>1, <1>3, UnlockRepaid DEF Unlock, ResourceActions
<1>4. CASE Wait(t) \/ TimedWait(t) \/ Signal(t)
  BY <1>0, <1>4 DEF Wait, TimedWait, Signal, SemWait, SemTake, SemBlock, SemWaitReject,
              SemSignal, SemWake, SemPost, SemSignalReject, Reject, modelVars,
              inheritVars, Repaid, BasePriority
<1>5. CASE Post(t) \/ PostFront(t) \/ Fetch(t)
  BY <1>0, <1>5 DEF Post, PostFront, Fetch, MbPost, MbPostFront, MbFetch, MbAppend,
              MbPrepend, MbBlock, MbReject, MbTake, Reject, modelVars, inheritVars,
              Repaid, BasePriority
<1>6. CASE UNCHANGED modelVars
  BY <1>0, <1>6 DEF modelVars, inheritVars, Repaid, BasePriority
<1> QED BY <1>2, <1>3, <1>4, <1>5, <1>6, NoConditionCalls, LocalKeeps DEF Step

(* A boost ends with the last unlock of its owner: a thread that holds no  *)
(* mutex runs at its own priority, though a timer that expires takes no    *)
(* boost back and recalc_priority looks at one level of waiters.           *)
THEOREM BoostsEnd == Spec /\ FitsArrays(scenario) => []BoostsAreRepaid
<1>1. Init => BoostsAreRepaid
  BY DEF Init, Reset, BoostsAreRepaid, BasePriority
<1>2. TypeOK /\ StacksMatchOwners /\ BoostsAreRepaid /\ [Next]_vars => BoostsAreRepaid'
  <2> SUFFICES ASSUME TypeOK, StacksMatchOwners, BoostsAreRepaid, [Next]_vars
               PROVE  BoostsAreRepaid'
    OBVIOUS
  <2>1. CASE Next
    <3>1. PICK t \in Thread : Step(t)
      BY <2>1 DEF Next, Runnable
    <3>2. scenario' = scenario /\ Typed
      BY <3>1, StepKeepsScenario, TypeOKParts DEF Typed
    <3>3. CondFree(scenario) => \A u \in Thread : Repaid(u)'
      BY <3>1, <3>2, StepRepaid DEF BoostsAreRepaid, Repaid
    <3> QED BY <3>2, <3>3 DEF BoostsAreRepaid, Repaid, CondFree, ActionsOf
  <2>2. CASE UNCHANGED vars
    BY <2>2 DEF BoostsAreRepaid, CondFree, ActionsOf, BasePriority, vars, inheritVars
  <2> QED BY <2>1, <2>2
<1> QED BY <1>1, <1>2, TypeCorrect, OwnersMatchStacks, PTL DEF Spec

-----------------------------------------------------------------------------
(* Stale queue entries.  A thread may still have the timer of a timed call *)
(* it is past, left by a wake-up; such a late timer will take it out of    *)
(* another wait and leave the entry, so it counts like an entry already.   *)

InTimedCall(u, p) == p < StepCount(u) /\ scenario.steps[u][p + 1].type \in TimedTypes

TimedBefore(u, p) ==
  {i \in 1 .. (IF p < StepCount(u) THEN p ELSE StepCount(u)) :
     scenario.steps[u][i].type \in TimedTypes}

Late(u, p, ticks) == IF ticks # NoTimeout /\ ~InTimedCall(u, p) THEN 1 ELSE 0
Asleep(s) == IF s \in BlockedStates THEN 1 ELSE 0

Entries(queues, u) ==
  {e \in UNION {{r} \X (1 .. Len(queues[r])) : r \in Resource} : queues[e[1]][e[2]] = u}

Within(u, queues, p, s, ticks) ==
  Cardinality(Entries(queues, u)) + Late(u, p, ticks)
    <= Cardinality(TimedBefore(u, p)) + Asleep(s)

StaleInv ==
  \A u \in Thread : Within(u, waiters, pc[u], state[u], timeout_ticks[u])

LEMMA OneMore ==
  ASSUME NEW X, IsFiniteSet(X), NEW x, x \notin X
  PROVE  /\ IsFiniteSet(X \cup {x}) /\ Cardinality(X) \in Nat
         /\ Cardinality(X \cup {x}) = Cardinality(X) + 1
  BY FS_AddElement, FS_CardinalityType

LEMMA EntriesMembers ==
  ASSUME NEW queues, NEW u
  PROVE  /\ \A m \in Resource : \A k : <<m, k>> \in Entries(queues, u) <=>
                                         k \in 1 .. Len(queues[m]) /\ queues[m][k] = u
         /\ \A e \in Entries(queues, u) : \E m \in Resource : \E k : e = <<m, k>>
<1>1. ASSUME NEW e \in Entries(queues, u)
      PROVE  \E m \in Resource : \E k : e = <<m, k>>
  <2>1. PICK m \in Resource : e \in {m} \X (1 .. Len(queues[m]))
    BY DEF Entries
  <2> QED BY <2>1
<1>2. ASSUME NEW m \in Resource, NEW k
      PROVE  <<m, k>> \in Entries(queues, u) <=>
               k \in 1 .. Len(queues[m]) /\ queues[m][k] = u
  <2>1. <<m, k>> \in UNION {{r} \X (1 .. Len(queues[r])) : r \in Resource} <=>
          k \in 1 .. Len(queues[m])
    OBVIOUS
  <2> QED BY <2>1 DEF Entries
<1> QED BY <1>1, <1>2

LEMMA NewEntries ==
  ASSUME NEW u
  PROVE  /\ \A m \in Resource : \A k : <<m, k>> \in Entries(waiters', u) <=>
                                         k \in 1 .. Len(waiters'[m]) /\ waiters'[m][k] = u
         /\ \A e \in Entries(waiters', u) : \E m \in Resource : \E k : e = <<m, k>>
  BY EntriesMembers

LEMMA EntriesFinite ==
  ASSUME NEW queues, NEW u,
         \A r \in Resource : Len(queues[r]) \in Nat /\ Len(queues[r]) <= MaxWaiters
  PROVE  IsFiniteSet(Entries(queues, u)) /\ Cardinality(Entries(queues, u)) \in Nat
<1>1. IsFiniteSet(Resource) /\ IsFiniteSet(1 .. MaxWaiters)
  BY FS_Interval, SizeAssumption DEF Resource
<1>2. IsFiniteSet(Resource \X (1 .. MaxWaiters))
  BY <1>1, FS_Product
<1>3. Entries(queues, u) \in SUBSET (Resource \X (1 .. MaxWaiters))
  <2> SUFFICES ASSUME NEW e \in Entries(queues, u)
               PROVE  e \in Resource \X (1 .. MaxWaiters)
    OBVIOUS
  <2>1. PICK m \in Resource : \E k : e = <<m, k>>
    BY EntriesMembers
  <2>2. PICK k : e = <<m, k>>
    BY <2>1
  <2>3. k \in 1 .. Len(queues[m])
    BY <2>2, EntriesMembers
  <2> QED BY <2>2, <2>3, SizeAssumption
<1> QED BY <1>2, <1>3, FS_Subset, FS_CardinalityType

LEMMA FiniteEntries ==
  ASSUME ObjectOK, NEW u
  PROVE  IsFiniteSet(Entries(waiters, u)) /\ Cardinality(Entries(waiters, u)) \in Nat
<1>1. \A r \in Resource : Len(waiters[r]) \in Nat /\ Len(waiters[r]) <= MaxWaiters
  BY DEF ObjectOK
<1> QED BY <1>1, EntriesFinite

LEMMA FiniteNewEntries ==
  ASSUME ObjectOK', NEW u
  PROVE  Cardinality(Entries(waiters', u)) \in Nat
<1>1. \A r \in Resource : Len(waiters'[r]) \in Nat /\ Len(waiters'[r]) <= MaxWaiters
  BY DEF ObjectOK
<1> QED BY <1>1, EntriesFinite

LEMMA EntriesAdded ==
  ASSUME ObjectOK, NEW t \in Thread, NEW r \in Resource,
         waiters' = [waiters EXCEPT ![r] = Append(@, t)], NEW u \in Thread
  PROVE  Cardinality(Entries(waiters', u))
           <= Cardinality(Entries(waiters, u)) + (IF u = t THEN 1 ELSE 0)
<1> DEFINE q == waiters[r]
           E == Entries(waiters, u)
           F == Entries(waiters', u)
<1>1. /\ q \in Seq(Thread) /\ Len(q) \in Nat
      /\ waiters'[r] = Append(q, t)
      /\ \A m \in Resource : m # r => waiters'[m] = waiters[m]
  BY DEF ObjectOK
<1>2. /\ Len(waiters'[r]) = Len(q) + 1 /\ waiters'[r][Len(q) + 1] = t
      /\ \A k \in 1 .. Len(q) : waiters'[r][k] = q[k]
  BY <1>1, AppendType
<1>3. IsFiniteSet(E) /\ Cardinality(E) \in Nat
  BY FiniteEntries
<1>4. /\ \A m \in Resource : \A k : <<m, k>> \in F <=>
                                      k \in 1 .. Len(waiters'[m]) /\ waiters'[m][k] = u
      /\ \A m \in Resource : \A k : <<m, k>> \in E <=>
                                      k \in 1 .. Len(waiters[m]) /\ waiters[m][k] = u
      /\ \A e \in E \cup F : \E m \in Resource : \E k : e = <<m, k>>
  <2> HIDE DEF E, F
  <2>1. /\ \A m \in Resource : \A k : <<m, k>> \in F <=>
                                        k \in 1 .. Len(waiters'[m]) /\ waiters'[m][k] = u
        /\ \A e \in F : \E m \in Resource : \E k : e = <<m, k>>
    BY NewEntries, Zenon DEF F
  <2>2. /\ \A m \in Resource : \A k : <<m, k>> \in E <=>
                                        k \in 1 .. Len(waiters[m]) /\ waiters[m][k] = u
        /\ \A e \in E : \E m \in Resource : \E k : e = <<m, k>>
    BY EntriesMembers, Zenon DEF E
  <2> QED BY <2>1, <2>2
<1> HIDE DEF E, F
<1>5. \A m \in Resource : \A k :
        <<m, k>> \in F <=> <<m, k>> \in E \/ (m = r /\ k = Len(q) + 1 /\ u = t)
  <2> SUFFICES ASSUME NEW m \in Resource, NEW k
               PROVE  <<m, k>> \in F <=>
                        <<m, k>> \in E \/ (m = r /\ k = Len(q) + 1 /\ u = t)
    OBVIOUS
  <2>1. CASE m # r
    BY <1>1, <1>4, <2>1
  <2>2. CASE m = r
    <3>1. k \in 1 .. Len(q) + 1 <=> k \in 1 .. Len(q) \/ k = Len(q) + 1
      BY <1>1
    <3>2. Len(q) + 1 \notin 1 .. Len(q)
      BY <1>1
    <3> QED BY <1>2, <1>4, <2>2, <3>1, <3>2
  <2> QED BY <2>1, <2>2
<1>6. CASE u = t
  <2> DEFINE x == <<r, Len(q) + 1>>
  <2>1. F = E \cup {x} /\ x \notin E
    BY <1>1, <1>4, <1>5, <1>6
  <2> HIDE DEF x
  <2>2. Cardinality(F) = Cardinality(E) + 1
    BY <1>3, <2>1, OneMore
  <2> QED BY <1>3, <1>6, <2>2 DEF E, F
<1>7. CASE u # t
  <2>1. F = E
    BY <1>4, <1>5, <1>7
  <2> QED BY <1>3, <1>7, <2>1 DEF E, F
<1> QED BY <1>6, <1>7

LEMMA EntriesRemoved ==
  ASSUME ObjectOK, NEW r \in Resource, NEW i \in 1 .. Len(waiters[r]),
         waiters' = [waiters EXCEPT ![r] = WaiterRemove(@, i)], NEW u \in Thread
  PROVE  Cardinality(Entries(waiters', u)) + (IF u = waiters[r][i] THEN 1 ELSE 0)
           <= Cardinality(Entries(waiters, u))
<1> DEFINE q == waiters[r]
           n == Len(q)
           E == Entries(waiters, u)
           F == Entries(waiters', u)
<1>1. /\ q \in Seq(Thread) /\ n \in Nat /\ i \in 1 .. Len(q)
      /\ waiters'[r] = WaiterRemove(q, i)
      /\ \A m \in Resource : m # r => waiters'[m] = waiters[m]
  BY DEF ObjectOK
<1>2. /\ Len(waiters'[r]) = n - 1
      /\ \A k \in 1 .. n - 1 : waiters'[r][k] = IF k = i THEN q[n] ELSE q[k]
  <2>1. /\ Len(WaiterRemove(q, i)) = Len(q) - 1
        /\ \A k \in 1 .. Len(q) - 1 :
             WaiterRemove(q, i)[k] = IF k = i THEN q[Len(q)] ELSE q[k]
    <3> HIDE DEF q, n
    <3> QED BY <1>1, WaiterRemoveType
  <2> QED BY <1>1, <2>1
<1>3. IsFiniteSet(E) /\ Cardinality(E) \in Nat
  BY FiniteEntries
<1>4. /\ \A m \in Resource : \A k : <<m, k>> \in F <=>
                                      k \in 1 .. Len(waiters'[m]) /\ waiters'[m][k] = u
      /\ \A m \in Resource : \A k : <<m, k>> \in E <=>
                                      k \in 1 .. Len(waiters[m]) /\ waiters[m][k] = u
      /\ \A e \in E \cup F : \E m \in Resource : \E k : e = <<m, k>>
  <2> HIDE DEF E, F
  <2>1. /\ \A m \in Resource : \A k : <<m, k>> \in F <=>
                                        k \in 1 .. Len(waiters'[m]) /\ waiters'[m][k] = u
        /\ \A e \in F : \E m \in Resource : \E k : e = <<m, k>>
    BY NewEntries, Zenon DEF F
  <2>2. /\ \A m \in Resource : \A k : <<m, k>> \in E <=>
                                        k \in 1 .. Len(waiters[m]) /\ waiters[m][k] = u
        /\ \A e \in E : \E m \in Resource : \E k : e = <<m, k>>
    BY EntriesMembers, Zenon DEF E
  <2> QED BY <2>1, <2>2
<1>5. i \in 1 .. n /\ n \in 1 .. n
  BY <1>1
<1> HIDE DEF E, F
<1>6. /\ \A m \in Resource \ {r} : \A k : <<m, k>> \in F <=> <<m, k>> \in E
      /\ \A k : <<r, k>> \in F <=> k \in 1 .. n - 1 /\ (IF k = i THEN q[n] ELSE q[k]) = u
      /\ \A k : <<r, k>> \in E <=> k \in 1 .. n /\ q[k] = u
  BY <1>1, <1>2, <1>4
<1> HIDE DEF q, n
<1> DEFINE x == <<r, n>>
           y == <<r, i>>
<1>7. CASE u = q[i]
  <2>1. \E z \in {x, y} : z \in E /\ F = E \ {z}
    <3>1. CASE q[n] = u
      <4>1. x \in E /\ \A k : <<r, k>> \in F <=> <<r, k>> \in E /\ k # n
        BY <1>1, <1>5, <1>6, <1>7, <3>1
      <4>2. \A e : e \in F <=> e \in E /\ e # x
        BY <1>4, <1>6, <4>1
      <4> QED BY <4>1, <4>2
    <3>2. CASE q[n] # u
      <4>1. y \in E /\ \A k : <<r, k>> \in F <=> <<r, k>> \in E /\ k # i
        BY <1>1, <1>5, <1>6, <1>7, <3>2
      <4>2. \A e : e \in F <=> e \in E /\ e # y
        BY <1>4, <1>6, <4>1
      <4> QED BY <4>1, <4>2
    <3> QED BY <3>1, <3>2
  <2>2. PICK z : z \in E /\ F = E \ {z}
    BY <2>1
  <2>3. Cardinality(F) = Cardinality(E) - 1
    BY <1>3, <2>2, FS_RemoveElement
  <2> QED BY <1>3, <1>7, <2>3 DEF E, F, q
<1>8. CASE u # q[i] /\ q[n] = u
  <2>1. F = (E \ {x}) \cup {y} /\ x \in E /\ y \notin E
    BY <1>1, <1>4, <1>5, <1>6, <1>8
  <2> DEFINE D == E \ {x}
  <2> HIDE DEF x, y
  <2>2. IsFiniteSet(D) /\ Cardinality(D) = Cardinality(E) - 1 /\ y \notin D
    BY <1>3, <2>1, FS_RemoveElement
  <2>3. F = D \cup {y}
    BY <2>1
  <2> HIDE DEF D
  <2>4. Cardinality(F) = Cardinality(D) + 1
    BY <2>2, <2>3, OneMore
  <2> QED BY <1>3, <1>8, <2>2, <2>4 DEF E, F, q
<1>9. CASE u # q[i] /\ q[n] # u
  <2>1. \A k : k \in 1 .. n <=> k \in 1 .. n - 1 \/ k = n
    BY <1>1, <1>5
  <2>2. \A k : <<r, k>> \in F <=> <<r, k>> \in E
    BY <1>6, <1>9, <2>1
  <2>3. \A m \in Resource : \A k : <<m, k>> \in F <=> <<m, k>> \in E
    BY <1>6, <2>2
  <2>4. \A e \in E \cup F : e \in F <=> e \in E
    BY <1>4, <2>3
  <2>5. F = E
    BY <2>4
  <2> QED BY <1>3, <1>9, <2>5 DEF E, F, q
<1> QED BY <1>7, <1>8, <1>9

LEMMA EntriesCleared ==
  ASSUME ObjectOK, NEW r \in Resource, waiters' = [waiters EXCEPT ![r] = <<>>],
         NEW u \in Thread
  PROVE  Cardinality(Entries(waiters', u)) + (IF u \in QueuedOn(r) THEN 1 ELSE 0)
           <= Cardinality(Entries(waiters, u))
<1> DEFINE E == Entries(waiters, u)
           F == Entries(waiters', u)
<1>1. /\ waiters'[r] = <<>> /\ Len(waiters'[r]) = 0
      /\ \A m \in Resource : m # r => waiters'[m] = waiters[m]
  BY DEF ObjectOK
<1>2. IsFiniteSet(E) /\ Cardinality(E) \in Nat
  BY FiniteEntries
<1>3. /\ \A m \in Resource : \A k : <<m, k>> \in F <=>
                                      k \in 1 .. Len(waiters'[m]) /\ waiters'[m][k] = u
      /\ \A m \in Resource : \A k : <<m, k>> \in E <=>
                                      k \in 1 .. Len(waiters[m]) /\ waiters[m][k] = u
      /\ \A e \in E \cup F : \E m \in Resource : \E k : e = <<m, k>>
  <2> HIDE DEF E, F
  <2>1. /\ \A m \in Resource : \A k : <<m, k>> \in F <=>
                                        k \in 1 .. Len(waiters'[m]) /\ waiters'[m][k] = u
        /\ \A e \in F : \E m \in Resource : \E k : e = <<m, k>>
    BY NewEntries, Zenon DEF F
  <2>2. /\ \A m \in Resource : \A k : <<m, k>> \in E <=>
                                        k \in 1 .. Len(waiters[m]) /\ waiters[m][k] = u
        /\ \A e \in E : \E m \in Resource : \E k : e = <<m, k>>
    BY EntriesMembers, Zenon DEF E
  <2> QED BY <2>1, <2>2
<1> HIDE DEF E, F
<1>4. \A k : <<r, k>> \notin F
  BY <1>1, <1>3
<1>5. F \subseteq E
  BY <1>1, <1>3, <1>4
<1>6. Cardinality(F) \in Nat /\ Cardinality(F) <= Cardinality(E)
  BY <1>2, <1>5, FS_Subset, FS_CardinalityType
<1>7. CASE u \in QueuedOn(r)
  <2>1. PICK k \in 1 .. Len(waiters[r]) : waiters[r][k] = u
    BY <1>7 DEF QueuedOn
  <2> DEFINE x == <<r, k>>
  <2>2. x \in E /\ F \subseteq E \ {x}
    BY <1>3, <1>4, <1>5, <2>1
  <2> HIDE DEF x
  <2>3. IsFiniteSet(E \ {x}) /\ Cardinality(E \ {x}) = Cardinality(E) - 1
    BY <1>2, <2>2, FS_RemoveElement
  <2>4. Cardinality(F) <= Cardinality(E) - 1
    BY <2>2, <2>3, FS_Subset
  <2> QED BY <1>2, <1>6, <1>7, <2>4 DEF E, F
<1>8. CASE u \notin QueuedOn(r)
  BY <1>6, <1>8 DEF E, F
<1> QED BY <1>7, <1>8

LEMMA TimedBeforeGrows ==
  ASSUME ValidScenario(scenario), NEW u \in Thread, NEW p \in Nat, NEW n \in Nat, p <= n
  PROVE  /\ Cardinality(TimedBefore(u, p)) \in Nat /\ Cardinality(TimedBefore(u, n)) \in Nat
         /\ Cardinality(TimedBefore(u, p)) <= Cardinality(TimedBefore(u, n))
         /\ InTimedCall(u, p) /\ p < n =>
              Cardinality(TimedBefore(u, p)) + 1 <= Cardinality(TimedBefore(u, n))
<1> DEFINE A == TimedBefore(u, p)
           B == TimedBefore(u, n)
<1>1. StepCount(u) \in Nat
  BY DEF StepCount, ValidScenario
<1>2. IsFiniteSet(B)
  <2> DEFINE top == IF n < StepCount(u) THEN n ELSE StepCount(u)
  <2>1. top \in Nat
    BY <1>1
  <2>2. B \subseteq 1 .. top
    BY DEF TimedBefore
  <2> HIDE DEF B, top
  <2>3. IsFiniteSet(1 .. top)
    BY <2>1, FS_Interval
  <2> QED BY <2>2, <2>3, FS_Subset
<1>3. A \subseteq B
  BY <1>1 DEF TimedBefore
<1>4. ASSUME InTimedCall(u, p), p < n
      PROVE  p + 1 \notin A /\ p + 1 \in B
  BY <1>1, <1>4 DEF TimedBefore, InTimedCall
<1> HIDE DEF A, B
<1>5. IsFiniteSet(A) /\ Cardinality(A) <= Cardinality(B)
  BY <1>2, <1>3, FS_Subset
<1>6. Cardinality(A) \in Nat /\ Cardinality(B) \in Nat
  BY <1>2, <1>5, FS_CardinalityType
<1>7. ASSUME InTimedCall(u, p), p < n
      PROVE  Cardinality(A) + 1 <= Cardinality(B)
  <2>1. A \cup {p + 1} \subseteq B
    BY <1>3, <1>4, <1>7
  <2>2. Cardinality(A \cup {p + 1}) = Cardinality(A) + 1
    BY <1>4, <1>5, <1>7, OneMore
  <2>3. Cardinality(A \cup {p + 1}) <= Cardinality(B)
    BY <1>2, <2>1, FS_Subset
  <2> QED BY <2>2, <2>3
<1> QED BY <1>5, <1>6, <1>7 DEF A, B

(* A tick takes nobody out of the bounds: the timer of a timed call adds   *)
(* that call, a late timer counted already.                                *)
LEMMA TickWithin ==
  ASSUME Typed, NEW u \in Thread, Within(u, waiters, pc[u], state[u], timeout_ticks[u])
  PROVE  Within(u, waiters, TickedPc[u], TickedState[u], TickedTimeout[u])
<1>1. /\ pc[u] \in Nat /\ timeout_ticks[u] \in Nat \cup {NoTimeout} /\ state[u] \in ThreadStates
      /\ Cardinality(Entries(waiters, u)) \in Nat
  BY FiniteEntries DEF Typed, SchedOK, ModelOK
<1>2. CASE Expired(u)
  <2>1. /\ TickedPc[u] = pc[u] + 1 /\ TickedState[u] = "READY" /\ TickedTimeout[u] = NoTimeout
        /\ timeout_ticks[u] # NoTimeout /\ state[u] \in BlockedStates
    BY <1>2 DEF TickedPc, TickedState, TickedTimeout, Expired, Ticking, NoTimeout
  <2>2. /\ Late(u, pc[u] + 1, NoTimeout) = 0 /\ Asleep("READY") = 0 /\ Asleep(state[u]) = 1
        /\ Late(u, pc[u], timeout_ticks[u]) = IF InTimedCall(u, pc[u]) THEN 0 ELSE 1
    BY <2>1 DEF Late, Asleep, BlockedStates
  <2>3. /\ Cardinality(TimedBefore(u, pc[u])) \in Nat
        /\ Cardinality(TimedBefore(u, pc[u] + 1)) \in Nat
        /\ Cardinality(TimedBefore(u, pc[u])) <= Cardinality(TimedBefore(u, pc[u] + 1))
        /\ InTimedCall(u, pc[u]) =>
             Cardinality(TimedBefore(u, pc[u])) + 1 <= Cardinality(TimedBefore(u, pc[u] + 1))
    BY <1>1, TimedBeforeGrows DEF Typed
  <2> QED BY <1>1, <2>1, <2>2, <2>3 DEF Within
<1>3. CASE ~Expired(u)
  <2>1. /\ TickedPc[u] = pc[u] /\ TickedState[u] = state[u]
        /\ TickedTimeout[u] = NoTimeout <=> timeout_ticks[u] = NoTimeout
    BY <1>1, <1>3 DEF TickedPc, TickedState, TickedTimeout, Expired, Ticking, NoTimeout
  <2>2. Late(u, pc[u], TickedTimeout[u]) = Late(u, pc[u], timeout_ticks[u])
    BY <2>1 DEF Late
  <2> QED BY <2>1, <2>2 DEF Within
<1> QED BY <1>2, <1>3

(* After the tick a thread goes on with the timer it has, unless it starts *)
(* a timed wait,                                                           *)
Onward(u) ==
  /\ pc'[u] >= TickedPc[u]
  /\ \/ timeout_ticks'[u] = TickedTimeout[u]
     \/ pc'[u] = TickedPc[u] /\ InTimedCall(u, pc'[u])

(* and it gets an entry only when it falls asleep, and loses one at least  *)
(* when it is woken.                                                       *)
Balances(u) ==
  Cardinality(Entries(waiters', u)) + Asleep(TickedState[u])
    <= Cardinality(Entries(waiters, u)) + Asleep(state'[u])

LEMMA StepWithin ==
  ASSUME Typed, Typed', scenario' = scenario, NEW u \in Thread, Onward(u), Balances(u),
         Within(u, waiters, pc[u], state[u], timeout_ticks[u])
  PROVE  Within(u, waiters, pc[u], state[u], timeout_ticks[u])'
<1> DEFINE p == TickedPc[u]
           n == pc'[u]
<1>1. Within(u, waiters, p, TickedState[u], TickedTimeout[u])
  BY TickWithin
<1>2. /\ p \in Nat /\ n \in Nat /\ p <= n
      /\ Cardinality(Entries(waiters, u)) \in Nat /\ Cardinality(Entries(waiters', u)) \in Nat
  <2>1. p \in Nat /\ Cardinality(Entries(waiters, u)) \in Nat
    BY TickedType, FiniteEntries DEF Typed, SchedOK, ModelOK
  <2>2. n \in Nat
    BY DEF Typed, SchedOK
  <2>3. Cardinality(Entries(waiters', u)) \in Nat
    BY FiniteNewEntries DEF Typed, ModelOK
  <2> QED BY <2>1, <2>2, <2>3 DEF Onward
<1>3. /\ Cardinality(TimedBefore(u, p)) \in Nat /\ Cardinality(TimedBefore(u, n)) \in Nat
      /\ Cardinality(TimedBefore(u, p)) <= Cardinality(TimedBefore(u, n))
      /\ InTimedCall(u, p) /\ p < n =>
           Cardinality(TimedBefore(u, p)) + 1 <= Cardinality(TimedBefore(u, n))
  BY <1>2, TimedBeforeGrows DEF Typed
<1>4. /\ Asleep(TickedState[u]) \in {0, 1} /\ Asleep(state'[u]) \in {0, 1}
      /\ Late(u, p, TickedTimeout[u]) \in {0, 1} /\ Late(u, n, timeout_ticks'[u]) \in {0, 1}
  BY DEF Asleep, Late
<1>5. Late(u, n, timeout_ticks'[u]) + Cardinality(TimedBefore(u, p))
        <= Late(u, p, TickedTimeout[u]) + Cardinality(TimedBefore(u, n))
  <2>1. CASE Late(u, n, timeout_ticks'[u]) <= Late(u, p, TickedTimeout[u])
    BY <1>3, <1>4, <2>1
  <2>2. CASE Late(u, n, timeout_ticks'[u]) = 1 /\ Late(u, p, TickedTimeout[u]) = 0
    <3>1. timeout_ticks'[u] # NoTimeout /\ ~InTimedCall(u, n)
      BY <2>2 DEF Late
    <3>2. timeout_ticks'[u] = TickedTimeout[u]
      BY <3>1 DEF Onward
    <3>3. InTimedCall(u, p) /\ p < n
      BY <1>2, <2>2, <3>1, <3>2 DEF Late
    <3> QED BY <1>3, <2>2, <3>3
  <2> QED BY <1>4, <2>1, <2>2
<1>6. Cardinality(Entries(waiters', u)) + Late(u, n, timeout_ticks'[u])
        <= Cardinality(TimedBefore(u, n)) + Asleep(state'[u])
  <2> HIDE DEF p, n
  <2> QED BY <1>1, <1>2, <1>3, <1>4, <1>5 DEF Within, Balances
<1>7. /\ TimedBefore(u, pc[u])' = TimedBefore(u, n)
      /\ Late(u, pc[u], timeout_ticks[u])' = Late(u, n, timeout_ticks'[u])
      /\ Entries(waiters, u)' = Entries(waiters', u)
      /\ Asleep(state[u])' = Asleep(state'[u])
  BY DEF TimedBefore, Late, InTimedCall, StepCount
<1> QED BY <1>6, <1>7 DEF Within

Accounted == \A u \in Thread : Onward(u) /\ Balances(u)

LEMMA QuietAccounted ==
  ASSUME Typed, NEW t \in Thread, Stay \/ Advance(t), waiters' = waiters
  PROVE  Accounted
<1>1. \A u \in Thread : /\ pc'[u] >= TickedPc[u] /\ state'[u] = TickedState[u]
                        /\ timeout_ticks'[u] = TickedTimeout[u]
  BY TickedType DEF Typed, Stay, Advance
<1>2. \A u \in Thread : Cardinality(Entries(waiters, u)) \in Nat /\ Asleep(TickedState[u]) \in Nat
  BY FiniteEntries DEF Typed, ModelOK, Asleep
<1> QED BY <1>1, <1>2 DEF Accounted, Onward, Balances

LEMMA EndAccounted ==
  ASSUME Typed, NEW t \in Thread, TickedState[t] = "READY",
         state' = [TickedState EXCEPT ![t] = "DONE"], pc' = TickedPc,
         timeout_ticks' = TickedTimeout, waiters' = waiters
  PROVE  Accounted
<1>1. \A u \in Thread : /\ pc'[u] >= TickedPc[u] /\ timeout_ticks'[u] = TickedTimeout[u]
                        /\ Asleep(state'[u]) = Asleep(TickedState[u])
  BY TickedType DEF Typed, Asleep, BlockedStates
<1>2. \A u \in Thread : Cardinality(Entries(waiters, u)) \in Nat /\ Asleep(TickedState[u]) \in Nat
  BY FiniteEntries DEF Typed, ModelOK, Asleep
<1> QED BY <1>1, <1>2 DEF Accounted, Onward, Balances

LEMMA BlockAccounted ==
  ASSUME Typed, ObjectOK', NEW t \in Thread, TickedState[t] = "READY", NEW r \in Resource,
         NEW blocked \in BlockedStates, NEW ticks \in Nat,
         ticks > 0 => InTimedCall(t, TickedPc[t]), Block(t, r, blocked, ticks),
         waiters' = [waiters EXCEPT ![r] = Append(@, t)]
  PROVE  Accounted
<1> SUFFICES ASSUME NEW u \in Thread PROVE Onward(u) /\ Balances(u)
  BY DEF Accounted
<1>1. /\ TickedPc[u] \in Nat /\ pc'[u] = TickedPc[u]
      /\ state'[u] = IF u = t THEN blocked ELSE TickedState[u]
      /\ timeout_ticks'[u] = IF u = t /\ ticks > 0 THEN ticks ELSE TickedTimeout[u]
  BY TickedType DEF Typed, Block
<1>2. Onward(u)
  BY <1>1 DEF Onward
<1>3. Cardinality(Entries(waiters', u))
        <= Cardinality(Entries(waiters, u)) + (IF u = t THEN 1 ELSE 0)
  BY EntriesAdded DEF Typed, ModelOK
<1>4. /\ Cardinality(Entries(waiters, u)) \in Nat /\ Cardinality(Entries(waiters', u)) \in Nat
  BY FiniteEntries, FiniteNewEntries DEF Typed, ModelOK
<1>5. Asleep(state'[u]) = Asleep(TickedState[u]) + (IF u = t THEN 1 ELSE 0)
  BY <1>1 DEF Asleep, BlockedStates
<1>6. Asleep(TickedState[u]) \in Nat
  BY DEF Asleep
<1> QED BY <1>2, <1>3, <1>4, <1>5, <1>6 DEF Balances

LEMMA WakeAccounted ==
  ASSUME Typed, ObjectOK', NEW t \in Thread, NEW W, NEW n \in {0, 1}, WakeAndAdvance(t, W, n),
         \A u \in Thread : Cardinality(Entries(waiters', u)) + (IF u \in W THEN 1 ELSE 0)
                             <= Cardinality(Entries(waiters, u))
  PROVE  Accounted
<1> SUFFICES ASSUME NEW u \in Thread PROVE Onward(u) /\ Balances(u)
  BY DEF Accounted
<1>1. /\ TickedPc[u] \in Nat /\ pc'[u] >= TickedPc[u]
      /\ state'[u] = IF u \in W THEN "READY" ELSE TickedState[u]
      /\ timeout_ticks'[u] = TickedTimeout[u]
  BY TickedType DEF Typed, WakeAndAdvance
<1>2. /\ Cardinality(Entries(waiters, u)) \in Nat /\ Cardinality(Entries(waiters', u)) \in Nat
      /\ Asleep(TickedState[u]) \in {0, 1} /\ Asleep(state'[u]) \in {0, 1}
  BY FiniteEntries, FiniteNewEntries DEF Typed, ModelOK, Asleep
<1>3. u \notin W => Asleep(state'[u]) = Asleep(TickedState[u])
  BY <1>1
<1> QED BY <1>1, <1>2, <1>3 DEF Onward, Balances

LEMMA RemoveAccounted ==
  ASSUME Typed, ObjectOK', NEW t \in Thread, NEW n \in {0, 1}, NEW r \in Resource,
         NEW i \in 1 .. Len(waiters[r]), WakeAndAdvance(t, {waiters[r][i]}, n),
         waiters' = [waiters EXCEPT ![r] = WaiterRemove(@, i)]
  PROVE  Accounted
<1>1. \A u \in Thread :
        Cardinality(Entries(waiters', u)) + (IF u \in {waiters[r][i]} THEN 1 ELSE 0)
          <= Cardinality(Entries(waiters, u))
  BY EntriesRemoved DEF Typed, ModelOK
<1> QED BY <1>1, WakeAccounted

LEMMA RejectAccounted ==
  ASSUME Typed, NEW t \in Thread, NEW reason, Reject(reason), Stay \/ Advance(t)
  PROVE  Accounted
  BY QuietAccounted DEF Reject, modelVars, objectVars

LEMMA MutexAccounted ==
  ASSUME Typed, ObjectOK', NEW t \in Thread, TickedState[t] = "READY", NEW r \in Resource,
         NEW ticks \in Nat, ticks > 0 => InTimedCall(t, TickedPc[t]),
         MutexLock(t, r, ticks) \/ MutexUnlock(t, r)
  PROVE  Accounted
<1>1. CASE LockAcquire(t, r)
  BY <1>1, QuietAccounted DEF LockAcquire
<1>2. CASE LockBlock(t, r, ticks)
  BY <1>2, BlockAccounted DEF LockBlock, BlockedStates
<1>3. CASE LockReject(t, r)
  BY <1>3, RejectAccounted DEF LockReject
<1>4. CASE UnlockHandoff(t, r)
  <2>1. PICK i \in 1 .. Len(waiters[r]) :
          /\ waiters' = [waiters EXCEPT ![r] = WaiterRemove(@, i)]
          /\ WakeAndAdvance(t, {waiters[r][i]}, 1)
    BY <1>4 DEF UnlockHandoff
  <2> QED BY <2>1, RemoveAccounted
<1>5. CASE UnlockFree(t, r)
  BY <1>5, QuietAccounted DEF UnlockFree
<1>6. CASE UnlockReject(t, r)
  BY <1>6, RejectAccounted DEF UnlockReject
<1> QED BY <1>1, <1>2, <1>3, <1>4, <1>5, <1>6 DEF MutexLock, MutexUnlock

LEMMA SemAccounted ==
  ASSUME Typed, ObjectOK', NEW t \in Thread, TickedState[t] = "READY", NEW r \in Resource,
         NEW ticks \in Nat, ticks > 0 => InTimedCall(t, TickedPc[t]),
         SemWait(t, r, ticks) \/ SemSignal(t, r)
  PROVE  Accounted
<1>1. CASE SemTake(t, r)
  BY <1>1, QuietAccounted DEF SemTake
<1>2. CASE SemBlock(t, r, ticks)
  BY <1>2, BlockAccounted DEF SemBlock, BlockedStates
<1>3. CASE SemWaitReject(t, r)
  BY <1>3, RejectAccounted DEF SemWaitReject
<1>4. CASE SemWake(t, r)
  <2>1. PICK i \in 1 .. Len(waiters[r]) :
          /\ waiters' = [waiters EXCEPT ![r] = WaiterRemove(@, i)]
          /\ WakeAndAdvance(t, {waiters[r][i]}, 1)
    BY <1>4 DEF SemWake
  <2> QED BY <2>1, RemoveAccounted
<1>5. CASE SemPost(t, r)
  BY <1>5, QuietAccounted DEF SemPost
<1>6. CASE SemSignalReject(t, r)
  BY <1>6, RejectAccounted DEF SemSignalReject
<1> QED BY <1>1, <1>2, <1>3, <1>4, <1>5, <1>6 DEF SemWait, SemSignal

LEMMA CondAccounted ==
  ASSUME Typed, ObjectOK', NEW t \in Thread, TickedState[t] = "READY", NEW c \in Resource,
         CondWait(t, c) \/ CondSignal(t, c) \/ CondBroadcast(t, c)
  PROVE  Accounted
<1>1. CASE CondBlock(t, c)
  <2>1. PICK blocked \in BlockedStates : Block(t, c, blocked, 0)
    BY <1>1 DEF CondBlock, BlockedStates
  <2>2. waiters' = [waiters EXCEPT ![c] = Append(@, t)]
    BY <1>1 DEF CondBlock
  <2>3. 0 \in Nat /\ ~(0 > 0)
    OBVIOUS
  <2> QED BY <2>1, <2>2, <2>3, BlockAccounted
<1>2. CASE CondOverflow(t, c)
  BY <1>2, QuietAccounted DEF CondOverflow
<1>3. CASE CondWaitReject(t, c)
  BY <1>3, RejectAccounted DEF CondWaitReject
<1>4. CASE CondWake(t, c)
  <2>1. PICK i \in 1 .. Len(waiters[c]) :
          /\ waiters' = [waiters EXCEPT ![c] = WaiterRemove(@, i)]
          /\ WakeAndAdvance(t, {waiters[c][i]}, 0)
    BY <1>4 DEF CondWake
  <2> QED BY <2>1, RemoveAccounted
<1>5. CASE CondLost(t, c)
  BY <1>5, QuietAccounted DEF CondLost, modelVars, objectVars
<1>6. CASE CondWakeAll(t, c)
  <2>1. \A u \in Thread :
          Cardinality(Entries(waiters', u)) + (IF u \in QueuedOn(c) THEN 1 ELSE 0)
            <= Cardinality(Entries(waiters, u))
    BY <1>6, EntriesCleared DEF CondWakeAll, Typed, ModelOK
  <2> QED BY <1>6, <2>1, WakeAccounted DEF CondWakeAll
<1>7. CASE CondSignalReject(t, c)
  BY <1>7, RejectAccounted DEF CondSignalReject
<1> QED BY <1>1, <1>2, <1>3, <1>4, <1>5, <1>6, <1>7 DEF CondWait, CondSignal, CondBroadcast

LEMMA MailboxAccounted ==
  ASSUME Typed, ObjectOK', NEW t \in Thread, TickedState[t] = "READY", NEW r \in Resource,
         NEW msg, MbPost(t, r, msg) \/ MbPostFront(t, r, msg) \/ MbFetch(t, r)
  PROVE  Accounted
<1>1. CASE MbAppend(t, r, msg) \/ MbPrepend(t, r, msg)
  BY <1>1, QuietAccounted DEF MbAppend, MbPrepend, objectVars
<1>2. ASSUME NEW blocks, MbBlock(t, r, blocks) \/ MbReject(r, blocks)
      PROVE  Accounted
  BY <1>2, BlockAccounted, RejectAccounted DEF MbBlock, MbReject, BlockedStates
<1>3. CASE MbTake(t, r)
  <2> DEFINE W == {waiters[r][i] : i \in {1} \cap (1 .. Len(waiters[r]))}
  <2>1. WakeAndAdvance(t, W, 0)
    BY <1>3 DEF MbTake
  <2>2. CASE waiters[r] = <<>>
    <3>1. waiters' = waiters /\ W = {}
      BY <1>3, <2>2 DEF MbTake, Typed, ModelOK, ObjectOK
    <3>2. \A u \in Thread : Cardinality(Entries(waiters, u)) \in Nat
      BY FiniteEntries DEF Typed, ModelOK
    <3> HIDE DEF W
    <3>3. \A u \in Thread : Cardinality(Entries(waiters', u)) + (IF u \in W THEN 1 ELSE 0)
                              <= Cardinality(Entries(waiters, u))
      BY <3>1, <3>2
    <3> QED BY <2>1, <3>3, WakeAccounted
  <2>3. CASE waiters[r] # <<>>
    <3>1. 1 \in 1 .. Len(waiters[r])
      BY <2>3 DEF Typed, ModelOK, ObjectOK
    <3>2. waiters' = [waiters EXCEPT ![r] = WaiterRemove(@, 1)]
      BY <1>3, <2>3 DEF MbTake, Typed, ModelOK, ObjectOK
    <3>3. W = {waiters[r][1]}
      BY <3>1
    <3> HIDE DEF W
    <3>4. WakeAndAdvance(t, {waiters[r][1]}, 0)
      BY <2>1, <3>3
    <3> QED BY <3>1, <3>2, <3>4, RemoveAccounted
  <2> QED BY <2>2, <2>3
<1> QED BY <1>1, <1>2, <1>3 DEF MbPost, MbPostFront, MbFetch

LEMMA LocalAccounted ==
  ASSUME Typed, NEW t \in Thread, TickedState[t] = "READY",
         \/ ThreadEnd(t) \/ Done(t) \/ Pause(t) \/ Unhandled(t) \/ LocalReject(t)
         \/ SysLock(t) \/ SysUnlock(t) \/ IsrEnter(t) \/ IsrExit(t)
         \/ ObjectInit(t) \/ ObjectDestroy(t) \/ Call(t) \/ Return(t)
  PROVE  Accounted
<1>1. waiters' = waiters
  BY LocalKeeps DEF modelVars, objectVars
<1>2. CASE ThreadEnd(t) \/ Done(t)
  BY <1>1, <1>2, EndAccounted DEF ThreadEnd, Done
<1>3. CASE ~(ThreadEnd(t) \/ Done(t))
  <2>1. Stay \/ Advance(t)
    BY <1>3 DEF Pause, Unhandled, LocalReject, SysLock, SysUnlock, IsrEnter, IsrExit,
                CtxStep, ObjectInit, ObjectDestroy, SetAlive, Call, Return
  <2> QED BY <1>1, <2>1, QuietAccounted
<1> QED BY <1>2, <1>3

LEMMA StepAccounted ==
  ASSUME Typed, Typed', NEW t \in Thread, Step(t)
  PROVE  Accounted
<1>1. TickedState[t] = "READY"
  BY DEF Step, ThreadEnd, Done, Lock, TimedLock, Unlock, Wait, TimedWait, Signal,
         WaitCond, SignalCond, Broadcast, Post, PostFront, Fetch, Pause, Unhandled,
         LocalReject, SysLock, SysUnlock, IsrEnter, IsrExit, ObjectInit,
         ObjectDestroy, Call, Return, Doing, Scheduled
<1>2. ASSUME NEW type \in ResourceActions, Doing(t, type)
      PROVE  Target(t) \in Resource
  BY <1>2, CurrentType
<1>3. ASSUME NEW type \in TimedTypes, Doing(t, type)
      PROVE  Target(t) \in Resource /\ Ticks(t) \in Nat /\ InTimedCall(t, TickedPc[t])
  BY <1>3, CurrentType, TicksType DEF TimedTypes, ResourceActions, InTimedCall, Doing, Current
<1>4. ObjectOK'
  BY DEF Typed, ModelOK
<1>5. CASE Lock(t) \/ TimedLock(t) \/ Unlock(t)
  BY <1>1, <1>2, <1>3, <1>4, <1>5, MutexAccounted
     DEF Lock, TimedLock, Unlock, ResourceActions, TimedTypes
<1>6. CASE Wait(t) \/ TimedWait(t) \/ Signal(t)
  BY <1>1, <1>2, <1>3, <1>4, <1>6, SemAccounted
     DEF Wait, TimedWait, Signal, ResourceActions, TimedTypes
<1>7. CASE WaitCond(t) \/ SignalCond(t) \/ Broadcast(t)
  BY <1>1, <1>2, <1>4, <1>7, CondAccounted DEF WaitCond, SignalCond, Broadcast, ResourceActions
<1>8. CASE Post(t) \/ PostFront(t) \/ Fetch(t)
  BY <1>1, <1>2, <1>4, <1>8, MailboxAccounted DEF Post, PostFront, Fetch, ResourceActions
<1> QED BY <1>1, <1>5, <1>6, <1>7, <1>8, LocalAccounted DEF Step

(* A thread is in the wait queues no more often than it is past timed      *)
(* calls, and once more while it sleeps, though expired and late timers    *)
(* leave entries behind.                                                   *)
THEOREM StaleEntriesCounted == Spec /\ FitsArrays(scenario) => []StaleEntriesBounded
<1>1. Init /\ TypeOK => StaleInv
  <2> SUFFICES ASSUME Init, TypeOK, NEW u \in Thread
               PROVE  Within(u, waiters, pc[u], state[u], timeout_ticks[u])
    BY DEF StaleInv
  <2>1. \A r \in Resource : waiters[r] = <<>>
    BY DEF Init, Reset
  <2>2. Entries(waiters, u) = {}
    BY <2>1 DEF Entries
  <2>3. pc[u] = 0 /\ timeout_ticks[u] = NoTimeout /\ state[u] = "READY"
    BY DEF Init, Reset
  <2>4. Late(u, pc[u], timeout_ticks[u]) = 0 /\ Asleep(state[u]) = 0
    BY <2>3 DEF Late, Asleep, BlockedStates
  <2>5. Cardinality(TimedBefore(u, pc[u])) \in Nat
    BY <2>3, TimedBeforeGrows DEF TypeOK
  <2>6. Cardinality(Entries(waiters, u)) = 0
    BY <2>2, FS_EmptySet
  <2> QED BY <2>4, <2>5, <2>6 DEF Within
<1>2. TypeOK /\ StaleInv /\ [Next]_vars => StaleInv'
  <2> SUFFICES ASSUME TypeOK, StaleInv, [Next]_vars, NEW u \in Thread
               PROVE  Within(u, waiters, pc[u], state[u], timeout_ticks[u])'
    BY DEF StaleInv
  <2>1. Within(u, waiters, pc[u], state[u], timeout_ticks[u])
    BY DEF StaleInv
  <2>2. CASE Next
    <3>1. PICK t \in Thread : Step(t)
      BY <2>2 DEF Next, Runnable
    <3>2. TypeOK'
      BY TypeStep
    <3>3. Typed /\ Typed'
      <4>1. Typed
        BY TypeOKParts DEF Typed
      <4>2. Typed'
        BY <3>2 DEF TypeOK, Typed, SchedOK, ModelOK, InheritOK, ObjectOK, MailboxOK
      <4> QED BY <4>1, <4>2
    <3>4. scenario' = scenario /\ Accounted
      BY <3>1, <3>3, StepKeepsScenario, StepAccounted
    <3> QED BY <2>1, <3>3, <3>4, StepWithin DEF Accounted
  <2>3. CASE UNCHANGED vars
    BY <2>1, <2>3 DEF Within, Entries, Late, InTimedCall, TimedBefore, Asleep, StepCount,
                      vars, schedVars, objectVars
  <2> QED BY <2>2, <2>3
<1>3. TypeOK /\ StaleInv => StaleEntriesBounded
  <2> SUFFICES ASSUME TypeOK, StaleInv, NEW u \in Thread
               PROVE  Cardinality(EntriesOf(u))
                        <= Cardinality(TimedCallsPassed(u))
                             + (IF state[u] \in BlockedStates THEN 1 ELSE 0)
    BY DEF StaleEntriesBounded
  <2>1. Within(u, waiters, pc[u], state[u], timeout_ticks[u])
    BY DEF StaleInv
  <2>2. EntriesOf(u) = Entries(waiters, u) /\ TimedCallsPassed(u) = TimedBefore(u, pc[u])
    BY DEF EntriesOf, Entries, TimedCallsPassed, TimedBefore, Passed
  <2>3. /\ Cardinality(Entries(waiters, u)) \in Nat
        /\ Cardinality(TimedBefore(u, pc[u])) \in Nat
        /\ Late(u, pc[u], timeout_ticks[u]) \in Nat
    <3>1. ValidScenario(scenario) /\ pc[u] \in Nat /\ pc[u] <= pc[u] /\ ObjectOK
      BY TypeOKParts DEF TypeOK, SchedOK, ModelOK
    <3>2. Late(u, pc[u], timeout_ticks[u]) \in Nat
      BY DEF Late
    <3> QED BY <3>1, <3>2, FiniteEntries, TimedBeforeGrows
  <2> HIDE DEF Within
  <2> QED BY <2>1, <2>2, <2>3 DEF Within, Asleep
<1> QED BY <1>1, <1>2, <1>3, TypeCorrect, PTL DEF Spec
=============================================================================
