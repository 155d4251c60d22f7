----------------------------- MODULE TypeProofs -----------------------------
(***************************************************************************)
(* Type correctness of the engine: whatever scenario is run, every step    *)
(* leaves every array of the engine within its shape and range.            *)
(*                                                                         *)
(* The proof goes through four groups of variables, one for each operator  *)
(* that describes part of a step.                                          *)
(***************************************************************************)
EXTENDS EngineInvariants, SequenceTheorems, TLAPS

SchedOK ==
  /\ state \in [Thread -> ThreadStates]
  /\ pc \in [Thread -> Nat]
  /\ blocked_on \in [Thread -> Resource \cup {NoResource}]
  /\ timeout_ticks \in [Thread -> Nat \cup {NoTimeout}]

InheritOK ==
  /\ priority \in [Thread -> Int]
  /\ owned_mutex_stack \in [Thread -> Seq(Resource)]
  /\ \A t \in Thread : Len(owned_mutex_stack[t]) <= MaxOwned

LocalOK ==
  /\ exec_ctx \in [Thread -> Contexts]
  /\ sys_lock_depth \in [Thread -> Nat]
  /\ isr_depth \in [Thread -> 0 .. MaxIsrDepth]
  /\ stack_depth \in [Thread -> Nat]
  /\ stack_watermark \in [Thread -> Nat]
  /\ alive \in [Resource -> BOOLEAN]

ObjectOK ==
  /\ owner \in [Resource -> Thread \cup {NoThread}]
  /\ count \in [Resource -> Int]
  /\ waiters \in [Resource -> Seq(Thread)]
  /\ \A r \in Resource : Len(waiters[r]) <= MaxWaiters

MailboxOK ==
  /\ mb_messages \in [Resource -> [0 .. MaxWaiters - 1 -> Int]]
  /\ mb_head \in [Resource -> 0 .. MaxWaiters - 1]
  /\ mb_tail \in [Resource -> 0 .. MaxWaiters - 1]
  /\ mb_count \in [Resource -> 0 .. MaxWaiters]
  /\ \A r \in Resource : mb_count[r] <= scenario.mb_capacity[r]

ModelOK == InheritOK /\ ObjectOK /\ MailboxOK /\ fail \in Failures

(* A call of the model is made under these, and leaves SchedOK and ModelOK *)
Typed == ValidScenario(scenario) /\ FitsArrays(scenario) /\ SchedOK /\ ModelOK

LEMMA TypeOKParts ==
  TypeOK <=> /\ ValidScenario(scenario) /\ FitsArrays(scenario)
             /\ SchedOK /\ LocalOK /\ ModelOK
  BY DEF TypeOK, SchedOK, LocalOK, ModelOK, InheritOK, ObjectOK, MailboxOK

-----------------------------------------------------------------------------
(* Sequences *)

LEMMA AppendType ==
  ASSUME NEW S, NEW q \in Seq(S), NEW x \in S
  PROVE  /\ Append(q, x) \in Seq(S)
         /\ Len(Append(q, x)) = Len(q) + 1
         /\ \A k \in 1 .. Len(q) : Append(q, x)[k] = q[k]
         /\ Append(q, x)[Len(q) + 1] = x
  OBVIOUS

(* Removing a waiter leaves a queue with one entry less. *)
LEMMA WaiterRemoveType ==
  ASSUME NEW S, NEW q \in Seq(S), NEW i \in 1 .. Len(q)
  PROVE  /\ WaiterRemove(q, i) \in Seq(S)
         /\ Len(WaiterRemove(q, i)) = Len(q) - 1
         /\ \A k \in 1 .. Len(q) - 1 :
              WaiterRemove(q, i)[k] = IF k = i THEN q[Len(q)] ELSE q[k]
  BY DEF WaiterRemove

LEMMA OwnedPopType ==
  ASSUME NEW S, NEW q \in Seq(S), Len(q) > 0
  PROVE  /\ OwnedPop(q) \in Seq(S)
         /\ Len(OwnedPop(q)) = Len(q) - 1
         /\ \A k \in 1 .. Len(q) - 1 : OwnedPop(q)[k] = q[k]
<1>1. Len(q) - 1 \in Int /\ \A k \in 1 .. Len(q) - 1 : q[k] \in S
  OBVIOUS
<1> DEFINE n == Len(q) - 1
<1>2. /\ SubSeq(q, 1, n) \in Seq(S)
      /\ Len(SubSeq(q, 1, n)) = IF 1 <= n THEN n - 1 + 1 ELSE 0
      /\ \A k \in 1 .. n - 1 + 1 : SubSeq(q, 1, n)[k] = q[1 + k - 1]
  <2> HIDE DEF n
  <2> QED BY <1>1, SubSeqProperties DEF n
<1>3. \A k \in 1 .. n : 1 + k - 1 = k
  OBVIOUS
<1>4. OwnedPop(q) = SubSeq(q, 1, n)
  BY DEF OwnedPop
<1>5. n \in Nat
  OBVIOUS
<1> HIDE DEF n
<1>6. Len(OwnedPop(q)) = n
  BY <1>2, <1>4, <1>5
<1>7. \A k \in 1 .. n : OwnedPop(q)[k] = q[k]
  BY <1>2, <1>3, <1>4, <1>5
<1> QED BY <1>2, <1>4, <1>6, <1>7 DEF n

LEMMA OwnedPushType ==
  ASSUME NEW S, NEW q \in Seq(S), NEW x \in S
  PROVE  /\ OwnedPush(q, x) \in Seq(S)
         /\ Len(q) <= MaxOwned => Len(OwnedPush(q, x)) <= MaxOwned
  BY SizeAssumption DEF OwnedPush

LEMMA QueuedAreThreads ==
  ASSUME ObjectOK, NEW r \in Resource
  PROVE  /\ QueuedOn(r) \subseteq Thread
         /\ \A i \in 1 .. Len(waiters[r]) : waiters[r][i] \in Thread
  BY DEF ObjectOK, QueuedOn

-----------------------------------------------------------------------------
(* Scheduling state *)

LEMMA TickedType ==
  ASSUME SchedOK
  PROVE  /\ TickedState \in [Thread -> ThreadStates]
         /\ TickedPc \in [Thread -> Nat]
         /\ TickedBlockedOn \in [Thread -> Resource \cup {NoResource}]
         /\ TickedTimeout \in [Thread -> Nat \cup {NoTimeout}]
<1>1. TickedState \in [Thread -> ThreadStates]
  BY DEF SchedOK, TickedState, ThreadStates
<1>2. TickedPc \in [Thread -> Nat]
  BY DEF SchedOK, TickedPc
<1>3. TickedBlockedOn \in [Thread -> Resource \cup {NoResource}]
  BY DEF SchedOK, TickedBlockedOn
<1>4. TickedTimeout \in [Thread -> Nat \cup {NoTimeout}]
  BY DEF SchedOK, TickedTimeout, Ticking, Expired, NoTimeout
<1> QED BY <1>1, <1>2, <1>3, <1>4

LEMMA StayType ==
  ASSUME SchedOK, Stay
  PROVE  SchedOK'
  BY TickedType DEF Stay, SchedOK

LEMMA AdvanceType ==
  ASSUME SchedOK, NEW t \in Thread, Advance(t)
  PROVE  SchedOK'
  BY TickedType DEF Advance, SchedOK

LEMMA BlockType ==
  ASSUME SchedOK, NEW t \in Thread, NEW r \in Resource, NEW ticks \in Nat,
         NEW blocked \in BlockedStates, Block(t, r, blocked, ticks)
  PROVE  SchedOK'
  BY TickedType DEF Block, SchedOK, ThreadStates

LEMMA WakeType ==
  ASSUME SchedOK, NEW t \in Thread, NEW W, NEW n \in {0, 1},
         WakeAndAdvance(t, W, n)
  PROVE  SchedOK'
<1>1. state' \in [Thread -> ThreadStates]
  BY TickedType DEF WakeAndAdvance, ThreadStates
<1>2. pc' \in [Thread -> Nat]
  BY TickedType DEF WakeAndAdvance
<1>3. blocked_on' \in [Thread -> Resource \cup {NoResource}]
  BY TickedType DEF WakeAndAdvance
<1>4. timeout_ticks' \in [Thread -> Nat \cup {NoTimeout}]
  BY TickedType DEF WakeAndAdvance
<1> QED BY <1>1, <1>2, <1>3, <1>4 DEF SchedOK

(* A thread that ends *)
LEMMA EndType ==
  ASSUME SchedOK, NEW t \in Thread,
         state' = [TickedState EXCEPT ![t] = "DONE"],
         pc' = TickedPc, blocked_on' = TickedBlockedOn,
         timeout_ticks' = TickedTimeout
  PROVE  SchedOK'
  BY TickedType DEF SchedOK, ThreadStates

-----------------------------------------------------------------------------
(* Calls of the model *)

LEMMA MailboxFrame ==
  ASSUME MailboxOK, UNCHANGED <<scenario, mailboxVars>>
  PROVE  MailboxOK'
  BY DEF MailboxOK, mailboxVars

LEMMA RejectType ==
  ASSUME ModelOK, UNCHANGED scenario, NEW reason \in Failures, Reject(reason)
  PROVE  ModelOK'
  BY MailboxFrame DEF ModelOK, Reject, modelVars, inheritVars, objectVars,
                      InheritOK, ObjectOK

(* A thread put at the end of a queue that has room *)
LEMMA EnqueueType ==
  ASSUME ObjectOK, NEW t \in Thread, NEW r \in Resource,
         Len(waiters[r]) < MaxWaiters,
         waiters' = [waiters EXCEPT ![r] = Append(@, t)]
  PROVE  /\ waiters' \in [Resource -> Seq(Thread)]
         /\ \A q \in Resource : Len(waiters'[q]) <= MaxWaiters
  BY SizeAssumption, AppendType DEF ObjectOK

(* A thread taken out of a queue *)
LEMMA DequeueType ==
  ASSUME ObjectOK, NEW r \in Resource, NEW i \in 1 .. Len(waiters[r]),
         waiters' = [waiters EXCEPT ![r] = WaiterRemove(@, i)]
  PROVE  /\ waiters' \in [Resource -> Seq(Thread)]
         /\ \A q \in Resource : Len(waiters'[q]) <= MaxWaiters
<1> DEFINE shorter == WaiterRemove(waiters[r], i)
<1>1. waiters[r] \in Seq(Thread)
  BY DEF ObjectOK
<1>2. shorter \in Seq(Thread) /\ Len(shorter) = Len(waiters[r]) - 1
  BY <1>1, WaiterRemoveType
<1>3. waiters' = [waiters EXCEPT ![r] = shorter]
  OBVIOUS
<1> HIDE DEF shorter
<1>4. Len(shorter) <= MaxWaiters
  BY <1>1, <1>2, SizeAssumption DEF ObjectOK
<1> QED BY <1>2, <1>3, <1>4 DEF ObjectOK

(* recalc_priority yields a priority, whatever is released *)
LEMMA RecalcType ==
  ASSUME ValidScenario(scenario), InheritOK, ObjectOK,
         NEW t \in Thread, NEW r \in Resource, RecalcPriority(t, r)
  PROVE  priority' \in [Thread -> Int]
<1>1. BasePriority(t) \in Int
  BY DEF ValidScenario, BasePriority
<1>2. \A m \in Resource : \A w \in QueuedOn(m) : priority[w] \in Int
  BY QueuedAreThreads DEF InheritOK
<1>3. PriorityClaims(t, r) \subseteq Int
  BY <1>1, <1>2 DEF PriorityClaims
<1> QED BY <1>3 DEF RecalcPriority, InheritOK

LEMMA MutexLockType ==
  ASSUME Typed, UNCHANGED scenario, NEW t \in Thread, NEW r \in Resource,
         NEW ticks \in Nat, MutexLock(t, r, ticks)
  PROVE  Typed'
<1> USE DEF Typed, ModelOK
<1>1. CASE LockAcquire(t, r)
  <2>1. SchedOK'
    BY <1>1, AdvanceType DEF LockAcquire
  <2>2. InheritOK'
    <3> DEFINE pushed == OwnedPush(owned_mutex_stack[t], r)
    <3>1. pushed \in Seq(Resource) /\ Len(pushed) <= MaxOwned
      BY OwnedPushType DEF InheritOK
    <3>2. owned_mutex_stack' = [owned_mutex_stack EXCEPT ![t] = pushed]
      BY <1>1 DEF LockAcquire
    <3> HIDE DEF pushed
    <3> QED BY <1>1, <3>1, <3>2 DEF LockAcquire, InheritOK
  <2> QED BY <1>1, <2>1, <2>2, MailboxFrame DEF LockAcquire, ObjectOK
<1>2. CASE LockBlock(t, r, ticks)
  <2>1. SchedOK'
    BY <1>2, BlockType DEF LockBlock, BlockedStates
  <2>2. Len(waiters[r]) < MaxWaiters
    BY <1>2, SizeAssumption DEF LockBlock, LockFault, ObjectOK
  <2>3. ObjectOK'
    BY <1>2, <2>2, EnqueueType DEF LockBlock, ObjectOK
  <2>4. priority' \in [Thread -> Int]
    BY <1>2 DEF LockBlock, InheritOK
  <2> QED BY <1>2, <2>1, <2>3, <2>4, MailboxFrame DEF LockBlock, InheritOK
<1>3. CASE LockReject(t, r)
  <2>1. LockFault(t, r) \in Failures
    BY DEF LockFault, Failures
  <2> QED BY <1>3, <2>1, RejectType, StayType DEF LockReject
<1> QED BY <1>1, <1>2, <1>3 DEF MutexLock

(* The stack of an owner after the mutex on top is released *)
LEMMA PoppedType ==
  ASSUME InheritOK, NEW t \in Thread, Len(owned_mutex_stack[t]) > 0
  PROVE  /\ OwnedPop(owned_mutex_stack[t]) \in Seq(Resource)
         /\ Len(OwnedPop(owned_mutex_stack[t])) <= MaxOwned
<1>1. owned_mutex_stack[t] \in Seq(Resource) /\ Len(owned_mutex_stack[t]) <= MaxOwned
  BY DEF InheritOK
<1>2. /\ OwnedPop(owned_mutex_stack[t]) \in Seq(Resource)
      /\ Len(OwnedPop(owned_mutex_stack[t])) = Len(owned_mutex_stack[t]) - 1
  BY <1>1, OwnedPopType
<1> QED BY <1>1, <1>2, SizeAssumption

LEMMA MutexUnlockType ==
  ASSUME Typed, UNCHANGED scenario, NEW t \in Thread, NEW r \in Resource,
         MutexUnlock(t, r)
  PROVE  Typed'
<1> USE DEF Typed, ModelOK
<1> DEFINE popped == [owned_mutex_stack EXCEPT ![t] = OwnedPop(@)]
<1>0. ASSUME UnlockFault(t, r) = "none"
      PROVE  /\ popped \in [Thread -> Seq(Resource)]
             /\ \A u \in Thread : Len(popped[u]) <= MaxOwned
  <2>1. Len(owned_mutex_stack[t]) > 0
    BY <1>0 DEF UnlockFault, OwnedTopIs
  <2> QED BY <2>1, PoppedType DEF InheritOK
<1>1. CASE UnlockHandoff(t, r)
  <2>1. priority' \in [Thread -> Int]
    BY <1>1, RecalcType DEF UnlockHandoff
  <2>2. PICK i \in 1 .. Len(waiters[r]) :
          LET w == waiters[r][i] IN
          /\ waiters' = [waiters EXCEPT ![r] = WaiterRemove(@, i)]
          /\ owner' = [owner EXCEPT ![r] = w]
          /\ owned_mutex_stack' = [popped EXCEPT ![w] = OwnedPush(@, r)]
          /\ WakeAndAdvance(t, {w}, 1)
    BY <1>1 DEF UnlockHandoff
  <2> DEFINE w == waiters[r][i]
  <2>3. w \in Thread
    BY QueuedAreThreads
  <2>4. SchedOK'
    BY <2>2, WakeType
  <2>5. ObjectOK'
    BY <1>1, <2>2, <2>3, DequeueType DEF ObjectOK, UnlockHandoff
  <2>6. InheritOK'
    <3> DEFINE pushed == OwnedPush(popped[w], r)
    <3>1. popped \in [Thread -> Seq(Resource)] /\ \A u \in Thread : Len(popped[u]) <= MaxOwned
      BY <1>0, <1>1 DEF UnlockHandoff
    <3>2. owned_mutex_stack' = [popped EXCEPT ![w] = pushed]
      BY <2>2
    <3> HIDE DEF popped, w
    <3>3. pushed \in Seq(Resource) /\ Len(pushed) <= MaxOwned
      BY <2>3, <3>1, OwnedPushType
    <3> HIDE DEF pushed
    <3> QED BY <2>1, <2>3, <3>1, <3>2, <3>3 DEF InheritOK
  <2> QED BY <1>1, <2>4, <2>5, <2>6, MailboxFrame DEF UnlockHandoff
<1>2. CASE UnlockFree(t, r)
  <2>1. SchedOK'
    BY <1>2, AdvanceType DEF UnlockFree
  <2>2. InheritOK'
    BY <1>0, <1>2, RecalcType DEF UnlockFree, InheritOK
  <2> QED BY <1>2, <2>1, <2>2, MailboxFrame DEF UnlockFree, ObjectOK
<1>3. CASE UnlockReject(t, r)
  <2>1. UnlockFault(t, r) \in Failures
    BY DEF UnlockFault, Failures
  <2> QED BY <1>3, <2>1, RejectType, AdvanceType DEF UnlockReject
<1> QED BY <1>1, <1>2, <1>3 DEF MutexUnlock

LEMMA SemWaitType ==
  ASSUME Typed, UNCHANGED scenario, NEW t \in Thread, NEW r \in Resource,
         NEW ticks \in Nat, SemWait(t, r, ticks)
  PROVE  Typed'
<1> USE DEF Typed, ModelOK
<1>1. CASE SemTake(t, r)
  BY <1>1, AdvanceType, MailboxFrame DEF SemTake, InheritOK, ObjectOK, inheritVars
<1>2. CASE SemBlock(t, r, ticks)
  <2>1. SchedOK'
    BY <1>2, BlockType DEF SemBlock, BlockedStates
  <2>2. Len(waiters[r]) < MaxWaiters
    BY <1>2, SizeAssumption DEF SemBlock, SemWaitFault, ObjectOK
  <2>3. ObjectOK'
    BY <1>2, <2>2, EnqueueType DEF SemBlock, ObjectOK
  <2> QED BY <1>2, <2>1, <2>3, MailboxFrame DEF SemBlock, InheritOK, inheritVars
<1>3. CASE SemWaitReject(t, r)
  <2>1. SemWaitFault(t, r) \in Failures
    BY DEF SemWaitFault, Failures
  <2> QED BY <1>3, <2>1, RejectType, StayType DEF SemWaitReject
<1> QED BY <1>1, <1>2, <1>3 DEF SemWait

LEMMA SemSignalType ==
  ASSUME Typed, UNCHANGED scenario, NEW t \in Thread, NEW r \in Resource,
         SemSignal(t, r)
  PROVE  Typed'
<1> USE DEF Typed, ModelOK
<1>1. CASE SemWake(t, r)
  <2>1. PICK i \in 1 .. Len(waiters[r]) :
          /\ waiters' = [waiters EXCEPT ![r] = WaiterRemove(@, i)]
          /\ WakeAndAdvance(t, {waiters[r][i]}, 1)
    BY <1>1 DEF SemWake
  <2>2. SchedOK'
    BY <2>1, WakeType
  <2>3. ObjectOK'
    BY <1>1, <2>1, DequeueType DEF SemWake, ObjectOK
  <2> QED BY <1>1, <2>2, <2>3, MailboxFrame DEF SemWake, InheritOK, inheritVars
<1>2. CASE SemPost(t, r)
  BY <1>2, AdvanceType, MailboxFrame DEF SemPost, InheritOK, ObjectOK, inheritVars
<1>3. CASE SemSignalReject(t, r)
  BY <1>3, RejectType, AdvanceType DEF SemSignalReject, Failures
<1> QED BY <1>1, <1>2, <1>3 DEF SemSignal

LEMMA CondWaitType ==
  ASSUME Typed, UNCHANGED scenario, NEW t \in Thread, NEW c \in Resource,
         CondWait(t, c)
  PROVE  Typed'
<1> USE DEF Typed, ModelOK
<1>1. ASSUME CondRelease(t, c)
      PROVE  /\ InheritOK'
             /\ owner' \in [Resource -> Thread \cup {NoThread}]
             /\ UNCHANGED <<count, mailboxVars>>
  <2>1. Len(owned_mutex_stack[t]) > 0
    BY <1>1 DEF CondRelease, CondWaitFault, OwnedTopIs
  <2> QED BY <1>1, <2>1, PoppedType DEF CondRelease, InheritOK, ObjectOK
<1>2. CASE CondBlock(t, c)
  <2>1. SchedOK'
    BY <1>2, BlockType DEF CondBlock, BlockedStates
  <2>2. ObjectOK'
    BY <1>1, <1>2, EnqueueType DEF CondBlock, ObjectOK
  <2> QED BY <1>1, <1>2, <2>1, <2>2, MailboxFrame DEF CondBlock
<1>3. CASE CondOverflow(t, c)
  <2>1. SchedOK'
    BY <1>3, StayType DEF CondOverflow
  <2> QED BY <1>1, <1>3, <2>1, MailboxFrame DEF CondOverflow, ObjectOK, Failures
<1>4. CASE CondWaitReject(t, c)
  <2>1. CondWaitFault(t, c) \in Failures
    BY DEF CondWaitFault, Failures
  <2> QED BY <1>4, <2>1, RejectType, StayType DEF CondWaitReject
<1> QED BY <1>2, <1>3, <1>4 DEF CondWait

LEMMA CondSignalRejectType ==
  ASSUME Typed, UNCHANGED scenario, NEW t \in Thread, NEW c \in Resource,
         CondSignalReject(t, c)
  PROVE  Typed'
  BY RejectType, AdvanceType DEF CondSignalReject, Failures, Typed, ModelOK

LEMMA CondSignalType ==
  ASSUME Typed, UNCHANGED scenario, NEW t \in Thread, NEW c \in Resource,
         CondSignal(t, c)
  PROVE  Typed'
<1> USE DEF Typed, ModelOK
<1>1. CASE CondWake(t, c)
  <2>1. PICK i \in 1 .. Len(waiters[c]) :
          /\ waiters' = [waiters EXCEPT ![c] = WaiterRemove(@, i)]
          /\ WakeAndAdvance(t, {waiters[c][i]}, 0)
    BY <1>1 DEF CondWake
  <2>2. SchedOK'
    BY <2>1, WakeType
  <2>3. ObjectOK'
    BY <1>1, <2>1, DequeueType DEF CondWake, ObjectOK
  <2> QED BY <1>1, <2>2, <2>3, MailboxFrame DEF CondWake, InheritOK, inheritVars
<1>2. CASE CondLost(t, c)
  BY <1>2, AdvanceType, MailboxFrame
     DEF CondLost, InheritOK, ObjectOK, modelVars, inheritVars, objectVars
<1>3. CASE CondSignalReject(t, c)
  BY <1>3, CondSignalRejectType
<1> QED BY <1>1, <1>2, <1>3 DEF CondSignal

LEMMA CondBroadcastType ==
  ASSUME Typed, UNCHANGED scenario, NEW t \in Thread, NEW c \in Resource,
         CondBroadcast(t, c)
  PROVE  Typed'
<1> USE DEF Typed, ModelOK
<1>1. CASE CondWakeAll(t, c)
  <2>1. SchedOK'
    BY <1>1, WakeType DEF CondWakeAll
  <2>2. ObjectOK'
    BY <1>1, SizeAssumption DEF CondWakeAll, ObjectOK
  <2> QED BY <1>1, <2>1, <2>2, MailboxFrame DEF CondWakeAll, InheritOK, inheritVars
<1>2. CASE CondSignalReject(t, c)
  BY <1>2, CondSignalRejectType
<1> QED BY <1>1, <1>2 DEF CondBroadcast

-----------------------------------------------------------------------------
(* Mailboxes *)

LEMMA MbRejectType ==
  ASSUME Typed, UNCHANGED scenario, NEW r \in Resource, NEW blocks \in BOOLEAN,
         MbReject(r, blocks)
  PROVE  Typed'
<1>1. MbFault(r, blocks) \in Failures
  BY DEF MbFault, Failures
<1> QED BY <1>1, RejectType, StayType DEF MbReject, Typed, ModelOK

LEMMA MbBlockType ==
  ASSUME Typed, UNCHANGED scenario, NEW t \in Thread, NEW r \in Resource,
         NEW blocks \in BOOLEAN, MbBlock(t, r, blocks)
  PROVE  Typed'
<1> USE DEF Typed, ModelOK
<1>1. SchedOK'
  BY BlockType DEF MbBlock, BlockedStates
<1>2. Len(waiters[r]) < MaxWaiters
  BY SizeAssumption DEF MbBlock, MbFault, ObjectOK
<1>3. ObjectOK'
  BY <1>2, EnqueueType DEF MbBlock, ObjectOK
<1> QED BY <1>1, <1>3, MailboxFrame DEF MbBlock, InheritOK, inheritVars

(* Stepping a ring index by one, either way, keeps it below the capacity,  *)
(* which is positive whenever the index is used.                           *)
LEMMA RingIndex ==
  ASSUME NEW cap \in 1 .. MaxWaiters, NEW i \in 0 .. MaxWaiters - 1
  PROVE  /\ (i + 1) % cap \in 0 .. MaxWaiters - 1
         /\ (i - 1 + cap) % cap \in 0 .. MaxWaiters - 1
<1>1. \A n \in Int : n % cap \in 0 .. cap - 1
  OBVIOUS
<1>2. i + 1 \in Int /\ i - 1 + cap \in Int
  BY SizeAssumption
<1>3. \A n \in 0 .. cap - 1 : n \in 0 .. MaxWaiters - 1
  BY SizeAssumption
<1> QED BY <1>1, <1>2, <1>3

LEMMA Capacity ==
  ASSUME Typed, NEW r \in Resource
  PROVE  /\ scenario.mb_capacity[r] \in 0 .. MaxWaiters
         /\ ~MbFull(r) \/ ~MbEmpty(r) => scenario.mb_capacity[r] \in 1 .. MaxWaiters
<1>1. scenario.mb_capacity[r] \in 0 .. MaxWaiters
  BY DEF Typed, FitsArrays
<1>2. mb_count[r] \in Nat /\ mb_count[r] <= scenario.mb_capacity[r]
  BY SizeAssumption DEF Typed, ModelOK, MailboxOK
<1> QED BY <1>1, <1>2, SizeAssumption DEF MbFull, MbEmpty

(* A box that is not full has room for one more, and one that is not empty *)
(* can spare one.                                                          *)
LEMMA RoomLeft ==
  ASSUME Typed, NEW r \in Resource
  PROVE  /\ ~MbFull(r) => mb_count[r] + 1 \in 0 .. scenario.mb_capacity[r]
         /\ ~MbEmpty(r) => mb_count[r] - 1 \in 0 .. scenario.mb_capacity[r]
<1> DEFINE n == mb_count[r]
           cap == scenario.mb_capacity[r]
<1>1. cap \in Int
  BY Capacity, SizeAssumption
<1>2. n \in Nat /\ n <= cap
  BY SizeAssumption DEF Typed, ModelOK, MailboxOK
<1>3. (MbFull(r) <=> n >= cap) /\ (MbEmpty(r) <=> n = 0)
  BY <1>1, <1>2 DEF MbFull, MbEmpty
<1> HIDE DEF n, cap
<1>4. /\ ~(n >= cap) => n + 1 \in 0 .. cap
      /\ ~(n = 0) => n - 1 \in 0 .. cap
  BY <1>1, <1>2
<1> QED BY <1>3, <1>4 DEF n, cap

(* The number of messages changes by one, within the capacity *)
LEMMA FillType ==
  ASSUME Typed, NEW r \in Resource, NEW n \in 0 .. scenario.mb_capacity[r],
         mb_count' = [mb_count EXCEPT ![r] = n]
  PROVE  /\ mb_count' \in [Resource -> 0 .. MaxWaiters]
         /\ \A q \in Resource : mb_count'[q] <= scenario.mb_capacity[q]
<1>1. scenario.mb_capacity[r] \in 0 .. MaxWaiters
  BY Capacity
<1>2. n \in 0 .. MaxWaiters /\ n <= scenario.mb_capacity[r]
  BY <1>1, SizeAssumption
<1>3. \A q \in Resource \ {r} : mb_count'[q] = mb_count[q]
  BY DEF Typed, ModelOK, MailboxOK
<1> QED BY <1>2, <1>3 DEF Typed, ModelOK, MailboxOK

LEMMA MbAppendType ==
  ASSUME Typed, UNCHANGED scenario, NEW t \in Thread, NEW r \in Resource,
         NEW msg \in Int, MbAppend(t, r, msg)
  PROVE  Typed'
<1> USE DEF Typed, ModelOK
<1> DEFINE cap == scenario.mb_capacity[r]
           next == (mb_tail[r] + 1) % cap
<1>1. SchedOK'
  BY AdvanceType DEF MbAppend
<1>2. cap \in 1 .. MaxWaiters
  BY Capacity DEF MbAppend
<1>3. next \in 0 .. MaxWaiters - 1
  <2> HIDE DEF cap
  <2> QED BY <1>2, RingIndex DEF MailboxOK
<1>4. mb_count[r] + 1 \in 0 .. cap
  BY RoomLeft DEF MbAppend
<1>5. /\ mb_messages' = [mb_messages EXCEPT ![r][mb_tail[r]] = msg]
      /\ mb_tail' = [mb_tail EXCEPT ![r] = next]
      /\ mb_count' = [mb_count EXCEPT ![r] = @ + 1]
      /\ mb_head' = mb_head
  BY DEF MbAppend
<1>6. MailboxOK'
  <2> HIDE DEF next
  <2>1. mb_messages' \in [Resource -> [0 .. MaxWaiters - 1 -> Int]]
    BY <1>5 DEF MailboxOK
  <2>2. mb_tail' \in [Resource -> 0 .. MaxWaiters - 1]
    BY <1>3, <1>5 DEF MailboxOK
  <2>3. /\ mb_count' \in [Resource -> 0 .. MaxWaiters]
        /\ \A q \in Resource : mb_count'[q] <= scenario.mb_capacity[q]
    BY <1>4, <1>5, FillType
  <2> QED BY <1>5, <2>1, <2>2, <2>3 DEF MailboxOK
<1> QED BY <1>1, <1>6 DEF MbAppend, InheritOK, ObjectOK, inheritVars, objectVars

LEMMA MbPrependType ==
  ASSUME Typed, UNCHANGED scenario, NEW t \in Thread, NEW r \in Resource,
         NEW msg \in Int, MbPrepend(t, r, msg)
  PROVE  Typed'
<1> USE DEF Typed, ModelOK
<1> DEFINE cap == scenario.mb_capacity[r]
           next == (mb_head[r] - 1 + cap) % cap
<1>1. SchedOK'
  BY AdvanceType DEF MbPrepend
<1>2. cap \in 1 .. MaxWaiters
  BY Capacity DEF MbPrepend
<1>3. next \in 0 .. MaxWaiters - 1
  <2> HIDE DEF cap
  <2> QED BY <1>2, RingIndex DEF MailboxOK
<1>4. mb_count[r] + 1 \in 0 .. cap
  BY RoomLeft DEF MbPrepend
<1>5. /\ mb_messages' = [mb_messages EXCEPT ![r][next] = msg]
      /\ mb_head' = [mb_head EXCEPT ![r] = next]
      /\ mb_count' = [mb_count EXCEPT ![r] = @ + 1]
      /\ mb_tail' = mb_tail
  BY DEF MbPrepend
<1>6. MailboxOK'
  <2> HIDE DEF next
  <2>1. mb_messages' \in [Resource -> [0 .. MaxWaiters - 1 -> Int]]
    BY <1>5 DEF MailboxOK
  <2>2. mb_head' \in [Resource -> 0 .. MaxWaiters - 1]
    BY <1>3, <1>5 DEF MailboxOK
  <2>3. /\ mb_count' \in [Resource -> 0 .. MaxWaiters]
        /\ \A q \in Resource : mb_count'[q] <= scenario.mb_capacity[q]
    BY <1>4, <1>5, FillType
  <2> QED BY <1>5, <2>1, <2>2, <2>3 DEF MailboxOK
<1> QED BY <1>1, <1>6 DEF MbPrepend, InheritOK, ObjectOK, inheritVars, objectVars

LEMMA MbTakeType ==
  ASSUME Typed, UNCHANGED scenario, NEW t \in Thread, NEW r \in Resource,
         MbTake(t, r)
  PROVE  Typed'
<1> USE DEF Typed, ModelOK
<1> DEFINE cap == scenario.mb_capacity[r]
           next == (mb_head[r] + 1) % cap
<1>1. SchedOK'
  BY WakeType DEF MbTake
<1>2. cap \in 1 .. MaxWaiters
  BY Capacity DEF MbTake
<1>3. next \in 0 .. MaxWaiters - 1
  <2> HIDE DEF cap
  <2> QED BY <1>2, RingIndex DEF MailboxOK
<1>4. mb_count[r] - 1 \in 0 .. cap
  BY RoomLeft DEF MbTake
<1>5. /\ mb_head' = [mb_head EXCEPT ![r] = next]
      /\ mb_count' = [mb_count EXCEPT ![r] = @ - 1]
      /\ UNCHANGED <<mb_messages, mb_tail>>
  BY DEF MbTake
<1>6. MailboxOK'
  <2> HIDE DEF next
  <2>1. mb_head' \in [Resource -> 0 .. MaxWaiters - 1]
    BY <1>3, <1>5 DEF MailboxOK
  <2>2. /\ mb_count' \in [Resource -> 0 .. MaxWaiters]
        /\ \A q \in Resource : mb_count'[q] <= scenario.mb_capacity[q]
    BY <1>4, <1>5, FillType
  <2> QED BY <1>5, <2>1, <2>2 DEF MailboxOK
<1>7. /\ waiters' \in [Resource -> Seq(Thread)]
      /\ \A q \in Resource : Len(waiters'[q]) <= MaxWaiters
  <2>1. CASE waiters[r] = <<>>
    BY <2>1 DEF MbTake, ObjectOK
  <2>2. CASE waiters[r] # <<>>
    <3>1. 1 \in 1 .. Len(waiters[r])
      BY <2>2 DEF ObjectOK
    <3>2. waiters' = [waiters EXCEPT ![r] = WaiterRemove(@, 1)]
      BY <2>2 DEF MbTake, ObjectOK
    <3> QED BY <3>1, <3>2, DequeueType
  <2> QED BY <2>1, <2>2
<1> QED BY <1>1, <1>6, <1>7 DEF MbTake, InheritOK, ObjectOK, inheritVars

-----------------------------------------------------------------------------
(* Steps of the engine *)

LEMMA CurrentType ==
  ASSUME Typed, NEW t \in Thread, NEW type, Doing(t, type)
  PROVE  /\ Current(t) \in Actions
         /\ Current(t).arg \in Int
         /\ type \in ResourceActions => Target(t) \in Resource
<1>1. scenario.steps[t] \in Seq(Actions) /\ TickedPc[t] \in Nat
  BY TickedType DEF Typed, ModelOK, ValidScenario
<1>2. Current(t) \in Actions
  BY <1>1 DEF Doing, StepCount, Current
<1>3. TickedPc[t] + 1 \in 1 .. Len(scenario.steps[t])
  BY <1>1 DEF Doing, StepCount
<1>4. type \in ResourceActions => Target(t) \in Resource
  BY <1>3 DEF Typed, FitsArrays, Doing, Current, Target
<1> QED BY <1>2, <1>4 DEF Actions

LEMMA TicksType ==
  ASSUME NEW t \in Thread, Current(t).arg \in Int
  PROVE  Ticks(t) \in Nat /\ Ticks(t) > 0 /\ Units(t) \in Nat /\ Units(t) > 0
  BY DEF Ticks, Units, DefaultTicks

(* A step that calls the model *)
LEMMA ModelStepType ==
  ASSUME LocalOK, ModelStep
  PROVE  LocalOK'
  BY DEF LocalOK, ModelStep, ctxVars, stackVars

(* A step that does not *)
LEMMA LocalStepType ==
  ASSUME Typed, ModelUnchanged, fail' \in Failures
  PROVE  ValidScenario(scenario)' /\ FitsArrays(scenario)' /\ ModelOK'
  BY MailboxFrame DEF Typed, ModelOK, ModelUnchanged, modelVars, inheritVars,
                      objectVars, InheritOK, ObjectOK

LEMMA LocalFaultType ==
  ASSUME NEW t \in Thread
  PROVE  /\ LocalFault(t) \in Failures
         /\ LocalFault(t) = "none" =>
              /\ Current(t).type = "SYS_UNLOCK" => ~(sys_lock_depth[t] <= 0)
              /\ Current(t).type = "ISR_ENTER" => ~(isr_depth[t] >= MaxIsrDepth)
              /\ Current(t).type = "ISR_EXIT" => ~(isr_depth[t] <= 0)
  BY DEF LocalFault, Failures

LEMMA CallsType ==
  ASSUME Typed, LocalOK, NEW t \in Thread,
         \/ Lock(t) \/ TimedLock(t) \/ Unlock(t)
         \/ Wait(t) \/ TimedWait(t) \/ Signal(t)
         \/ WaitCond(t) \/ SignalCond(t) \/ Broadcast(t)
         \/ Post(t) \/ PostFront(t) \/ Fetch(t)
  PROVE  Typed' /\ LocalOK'
<1> DEFINE r == Target(t)
<1>1. ASSUME NEW type \in ResourceActions, Doing(t, type)
      PROVE  r \in Resource /\ Ticks(t) \in Nat /\ Current(t).arg \in Int
  BY <1>1, CurrentType, TicksType
<1>2. /\ MbFull(r) \in BOOLEAN
      /\ MbEmpty(r) \in BOOLEAN
  BY DEF MbFull, MbEmpty
<1>3. ModelStep => UNCHANGED scenario /\ LocalOK'
  BY ModelStepType DEF ModelStep
<1>4. CASE Lock(t)
  <2>1. Doing(t, "MUTEX_LOCK") /\ MutexLock(t, r, 0) /\ ModelStep
    BY <1>4 DEF Lock
  <2>2. r \in Resource
    BY <1>1, <2>1 DEF ResourceActions
  <2> QED BY <1>3, <2>1, <2>2, MutexLockType
<1>5. CASE TimedLock(t)
  <2>1. Doing(t, "MUTEX_TIMED_LOCK") /\ MutexLock(t, r, Ticks(t)) /\ ModelStep
    BY <1>5 DEF TimedLock
  <2>2. r \in Resource /\ Ticks(t) \in Nat
    BY <1>1, <2>1 DEF ResourceActions
  <2> QED BY <1>3, <2>1, <2>2, MutexLockType
<1>6. CASE Unlock(t)
  <2>1. Doing(t, "MUTEX_UNLOCK") /\ MutexUnlock(t, r) /\ ModelStep
    BY <1>6 DEF Unlock
  <2>2. r \in Resource
    BY <1>1, <2>1 DEF ResourceActions
  <2> QED BY <1>3, <2>1, <2>2, MutexUnlockType
<1>7. CASE Wait(t)
  <2>1. Doing(t, "SEM_WAIT") /\ SemWait(t, r, 0) /\ ModelStep
    BY <1>7 DEF Wait
  <2>2. r \in Resource
    BY <1>1, <2>1 DEF ResourceActions
  <2> QED BY <1>3, <2>1, <2>2, SemWaitType
<1>8. CASE TimedWait(t)
  <2>1. Doing(t, "SEM_TIMED_WAIT") /\ SemWait(t, r, Ticks(t)) /\ ModelStep
    BY <1>8 DEF TimedWait
  <2>2. r \in Resource /\ Ticks(t) \in Nat
    BY <1>1, <2>1 DEF ResourceActions
  <2> QED BY <1>3, <2>1, <2>2, SemWaitType
<1>9. CASE Signal(t)
  <2>1. Doing(t, "SEM_SIGNAL") /\ SemSignal(t, r) /\ ModelStep
    BY <1>9 DEF Signal
  <2>2. r \in Resource
    BY <1>1, <2>1 DEF ResourceActions
  <2> QED BY <1>3, <2>1, <2>2, SemSignalType
<1>10. CASE WaitCond(t)
  <2>1. Doing(t, "COND_WAIT") /\ CondWait(t, r) /\ ModelStep
    BY <1>10 DEF WaitCond
  <2>2. r \in Resource
    BY <1>1, <2>1 DEF ResourceActions
  <2> QED BY <1>3, <2>1, <2>2, CondWaitType
<1>11. CASE SignalCond(t)
  <2>1. Doing(t, "COND_SIGNAL") /\ CondSignal(t, r) /\ ModelStep
    BY <1>11 DEF SignalCond
  <2>2. r \in Resource
    BY <1>1, <2>1 DEF ResourceActions
  <2> QED BY <1>3, <2>1, <2>2, CondSignalType
<1>12. CASE Broadcast(t)
  <2>1. Doing(t, "COND_BROADCAST") /\ CondBroadcast(t, r) /\ ModelStep
    BY <1>12 DEF Broadcast
  <2>2. r \in Resource
    BY <1>1, <2>1 DEF ResourceActions
  <2> QED BY <1>3, <2>1, <2>2, CondBroadcastType
<1>13. CASE Post(t)
  <2>1. Doing(t, "MB_POST") /\ MbPost(t, r, Current(t).arg) /\ ModelStep
    BY <1>13 DEF Post
  <2>2. r \in Resource /\ Current(t).arg \in Int
    BY <1>1, <2>1 DEF ResourceActions
  <2> QED BY <1>2, <1>3, <2>1, <2>2, MbAppendType, MbBlockType, MbRejectType DEF MbPost
<1>14. CASE PostFront(t)
  <2>1. Doing(t, "MB_POST_FRONT") /\ MbPostFront(t, r, Current(t).arg) /\ ModelStep
    BY <1>14 DEF PostFront
  <2>2. r \in Resource /\ Current(t).arg \in Int
    BY <1>1, <2>1 DEF ResourceActions
  <2> QED BY <1>2, <1>3, <2>1, <2>2, MbPrependType, MbBlockType, MbRejectType
         DEF MbPostFront
<1>15. CASE Fetch(t)
  <2>1. Doing(t, "MB_FETCH") /\ MbFetch(t, r) /\ ModelStep
    BY <1>15 DEF Fetch
  <2>2. r \in Resource
    BY <1>1, <2>1 DEF ResourceActions
  <2> QED BY <1>2, <1>3, <2>1, <2>2, MbTakeType, MbBlockType, MbRejectType DEF MbFetch
<1> QED BY <1>4, <1>5, <1>6, <1>7, <1>8, <1>9, <1>10, <1>11, <1>12, <1>13, <1>14, <1>15

LEMMA CtxStepType ==
  ASSUME Typed, LocalOK, NEW t \in Thread, CtxStep(t),
         exec_ctx' \in [Thread -> Contexts],
         sys_lock_depth' \in [Thread -> Nat],
         isr_depth' \in [Thread -> 0 .. MaxIsrDepth]
  PROVE  Typed' /\ LocalOK'
<1>1. SchedOK'
  BY AdvanceType DEF CtxStep, Typed
<1>2. ValidScenario(scenario)' /\ FitsArrays(scenario)' /\ ModelOK'
  BY LocalStepType DEF CtxStep, Typed, ModelOK
<1> QED BY <1>1, <1>2 DEF CtxStep, Typed, LocalOK, stackVars

LEMMA ContextType ==
  ASSUME Typed, LocalOK, NEW t \in Thread,
         SysLock(t) \/ SysUnlock(t) \/ IsrEnter(t) \/ IsrExit(t)
  PROVE  Typed' /\ LocalOK'
<1>1. \A d \in Int : RestoredCtx(d) \in Contexts
  BY DEF RestoredCtx, Contexts
<1>2. CASE SysLock(t)
  BY <1>2, CtxStepType DEF SysLock, LocalOK, Contexts
<1>3. CASE SysUnlock(t)
  <2>1. sys_lock_depth[t] - 1 \in Nat
    BY <1>3, LocalFaultType DEF SysUnlock, LocalOK, Doing
  <2> QED BY <1>1, <1>3, <2>1, CtxStepType DEF SysUnlock, LocalOK
<1>4. CASE IsrEnter(t)
  <2>1. isr_depth[t] + 1 \in 0 .. MaxIsrDepth
    BY <1>4, LocalFaultType, SizeAssumption DEF IsrEnter, LocalOK, Doing
  <2> QED BY <1>4, <2>1, CtxStepType DEF IsrEnter, LocalOK, Contexts
<1>5. CASE IsrExit(t)
  <2>1. isr_depth[t] - 1 \in 0 .. MaxIsrDepth
    BY <1>5, LocalFaultType, SizeAssumption DEF IsrExit, LocalOK, Doing
  <2> QED BY <1>1, <1>5, <2>1, CtxStepType DEF IsrExit, LocalOK
<1> QED BY <1>2, <1>3, <1>4, <1>5

LEMMA ThreadStepType ==
  ASSUME Typed, LocalOK, NEW t \in Thread,
         \/ ThreadEnd(t) \/ Done(t) \/ Pause(t) \/ Unhandled(t) \/ LocalReject(t)
         \/ ObjectInit(t) \/ ObjectDestroy(t) \/ Call(t) \/ Return(t)
  PROVE  Typed' /\ LocalOK'
<1> USE DEF Typed
<1>1. CASE ThreadEnd(t)
  BY <1>1, EndType, LocalStepType DEF ThreadEnd, ModelOK, LocalOK, ctxVars, stackVars
<1>2. CASE Done(t)
  <2>1. fail' \in Failures
    BY <1>2 DEF Done, ModelOK, Failures
  <2> QED BY <1>2, <2>1, EndType, LocalStepType DEF Done, LocalOK, ctxVars, stackVars
<1>3. CASE Pause(t)
  BY <1>3, AdvanceType, LocalStepType DEF Pause, ModelOK, LocalOK, ctxVars, stackVars
<1>4. CASE Unhandled(t)
  BY <1>4, StayType, LocalStepType DEF Unhandled, ModelOK, LocalOK, ctxVars, stackVars
<1>5. CASE LocalReject(t)
  BY <1>5, StayType, LocalStepType, LocalFaultType
     DEF LocalReject, LocalOK, ctxVars, stackVars
<1>6. ASSUME NEW value \in BOOLEAN, SetAlive(t, value)
      PROVE  Typed' /\ LocalOK'
  BY <1>6, AdvanceType, LocalStepType DEF SetAlive, ModelOK, LocalOK, ctxVars, stackVars
<1>7. CASE ObjectInit(t)
  BY <1>6, <1>7 DEF ObjectInit
<1>8. CASE ObjectDestroy(t)
  BY <1>6, <1>8 DEF ObjectDestroy
<1>9. CASE Call(t)
  <2>1. stack_depth[t] + Units(t) \in Nat
    BY <1>9, CurrentType, TicksType DEF Call, LocalOK
  <2>2. SchedOK' /\ fail' \in Failures
    BY <1>9, StayType, AdvanceType DEF Call, ModelOK, Failures
  <2>3. stack_depth' \in [Thread -> Nat] /\ stack_watermark' \in [Thread -> Nat]
    BY <1>9, <2>1 DEF Call, LocalOK
  <2> QED BY <1>9, <2>2, <2>3, LocalStepType DEF Call, LocalOK, ctxVars
<1>10. CASE Return(t)
  <2>1. Units(t) \in Nat
    BY <1>10, CurrentType, TicksType DEF Return
  <2>2. stack_depth' \in [Thread -> Nat]
    BY <1>10, <2>1 DEF Return, LocalOK
  <2> QED BY <1>10, <2>2, AdvanceType, LocalStepType DEF Return, ModelOK, LocalOK, ctxVars
<1> QED BY <1>1, <1>2, <1>3, <1>4, <1>5, <1>7, <1>8, <1>9, <1>10

-----------------------------------------------------------------------------

LEMMA TypeInit ==
  ASSUME Init, FitsArrays(scenario)
  PROVE  TypeOK
<1>1. ValidScenario(scenario)
  BY ScenarioAssumption DEF Init
<1>2. SchedOK
  BY DEF Init, Reset, SchedOK, ThreadStates
<1>3. LocalOK
  BY SizeAssumption DEF Init, Reset, LocalOK, Contexts
<1>4. InheritOK
  BY <1>1, SizeAssumption DEF Init, Reset, InheritOK, ValidScenario
<1>5. ObjectOK
  BY <1>1, SizeAssumption DEF Init, Reset, ObjectOK, ValidScenario
<1>6. MailboxOK
  BY <1>1, SizeAssumption DEF Init, Reset, MailboxOK, FitsArrays
<1> QED BY <1>1, <1>2, <1>3, <1>4, <1>5, <1>6, TypeOKParts DEF Init, Reset, ModelOK, Failures

LEMMA ThreadTypeStep ==
  ASSUME TypeOK, NEW t \in Thread, Step(t) \/ Refused(t)
  PROVE  TypeOK'
<1>1. Typed /\ LocalOK
  BY TypeOKParts DEF Typed
<1>2. ASSUME Step(t)
      PROVE  Typed' /\ LocalOK'
  BY <1>1, <1>2, CallsType, ContextType, ThreadStepType DEF Step
<1>3. ASSUME Refused(t)
      PROVE  Typed' /\ LocalOK'
  <2>1. fail' \in Failures
    BY <1>3 DEF Refused, Failures
  <2>2. ValidScenario(scenario)' /\ FitsArrays(scenario)' /\ ModelOK'
    BY <1>1, <1>3, <2>1, LocalStepType DEF Refused
  <2>3. SchedOK'
    BY <1>1, <1>3, StayType DEF Refused, Typed
  <2>4. LocalOK'
    BY <1>1, <1>3 DEF Refused, LocalOK, ctxVars, stackVars
  <2> QED BY <2>2, <2>3, <2>4 DEF Typed
<1>4. Typed' /\ LocalOK'
  BY <1>2, <1>3
<1> QED BY <1>4 DEF TypeOK, Typed, SchedOK, LocalOK, ModelOK, InheritOK,
                    ObjectOK, MailboxOK

LEMMA TypeStep ==
  ASSUME TypeOK, [Next]_vars
  PROVE  TypeOK'
<1>2. CASE Next
  BY <1>2, ThreadTypeStep DEF Next, Runnable
<1>3. CASE UNCHANGED vars
  BY <1>3 DEF TypeOK, vars, schedVars, inheritVars, ctxVars, stackVars, objectVars,
              mailboxVars
<1> QED BY <1>2, <1>3

(* Every array of the engine stays within its shape, its range and its     *)
(* bounds, in every state of every accepted scenario that fits the arrays  *)
(* to begin with (smash_execute_step and all it calls).                    *)
THEOREM TypeCorrect == Spec /\ FitsArrays(scenario) => []TypeOK
<1>1. Init /\ FitsArrays(scenario) => TypeOK
  BY TypeInit
<1>2. TypeOK /\ [Next]_vars => TypeOK'
  BY TypeStep
<1> QED BY <1>1, <1>2, PTL DEF Spec
=============================================================================
