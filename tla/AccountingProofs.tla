--------------------------- MODULE AccountingProofs ---------------------------
(***************************************************************************)
(* What the threads hold and the semaphores count is a function of how far *)
(* the programs got, for every scenario of the class each property names   *)
(* and for every size; and among threads that make no mistake, a deadlock  *)
(* is a circular wait and no check reports anything else.                  *)
(***************************************************************************)
EXTENDS InheritanceProofs, WellFoundedInduction

-----------------------------------------------------------------------------
(* A recursive function exists: by the least number it could not be        *)
(* computed for.                                                           *)

LEMMA LeastNumber ==
  ASSUME NEW T \in SUBSET Nat, T # {}
  PROVE  \E n \in T : \A m \in T : n <= m
<1> DEFINE F == {0 .. n : n \in T}
<1>1. F \subseteq FiniteSubsetsOf(Nat) /\ F # {}
  <2>1. \A n \in T : 0 .. n \subseteq Nat /\ IsFiniteSet(0 .. n)
    BY FS_Interval
  <2> QED BY <2>1 DEF FiniteSubsetsOf
<1> HIDE DEF F
<1>2. PICK x \in F : \A y \in F : ~(<<y, x>> \in StrictSubsetOrdering(Nat))
  BY <1>1, WFMin, FS_StrictSubsetOrderingWellFounded
<1>3. PICK n \in T : x = 0 .. n
  BY DEF F
<1>4. ASSUME NEW m \in T
      PROVE  n <= m
  <2>1. SUFFICES ASSUME m < n PROVE FALSE
    OBVIOUS
  <2>2. 0 .. m \in F
    BY DEF F
  <2>3. 0 .. m \subseteq x /\ 0 .. m # x /\ x \subseteq Nat
    BY <1>3, <2>1
  <2> QED BY <1>2, <2>2, <2>3 DEF StrictSubsetOrdering
<1> QED BY <1>4

(* h gives the stacks after the first 0 .. n of the actions *)
IsHistory(h, actions, n) ==
  h = [i \in 0 .. n |-> IF i = 0 THEN <<>> ELSE StackAfter(h[i - 1], actions[i])]

LEMMA HistoryExists ==
  ASSUME NEW actions, NEW n \in Nat
  PROVE  \E h : IsHistory(h, actions, n)
<1> DEFINE T == {m \in Nat : ~\E h : IsHistory(h, actions, m)}
<1> SUFFICES ASSUME T # {} PROVE FALSE
  OBVIOUS
<1>1. PICK m \in T : \A k \in T : m <= k
  <2>1. T \subseteq Nat
    OBVIOUS
  <2> HIDE DEF T
  <2> QED BY <2>1, LeastNumber
<1>2. CASE m = 0
  <2> DEFINE h == [i \in 0 .. 0 |-> <<>>]
  <2>1. IsHistory(h, actions, 0)
    BY DEF IsHistory
  <2> QED BY <1>2, <2>1
<1>3. CASE m # 0
  <2>1. m - 1 \in Nat /\ m - 1 \notin T
    BY <1>1, <1>3
  <2>2. PICK g : IsHistory(g, actions, m - 1)
    BY <2>1
  <2> DEFINE h == [i \in 0 .. m |->
                     IF i = m THEN StackAfter(g[m - 1], actions[m]) ELSE g[i]]
  <2>3. \A i \in 0 .. m : h[i] = IF i = 0 THEN <<>> ELSE StackAfter(h[i - 1], actions[i])
    <3>1. \A i \in 0 .. m - 1 :
            g[i] = IF i = 0 THEN <<>> ELSE StackAfter(g[i - 1], actions[i])
      BY <2>2 DEF IsHistory
    <3>2. m \in Nat \ {0}
      BY <1>1, <1>3
    <3> QED BY <3>1, <3>2
  <2>4. h = [i \in 0 .. m |-> IF i = 0 THEN <<>> ELSE StackAfter(h[i - 1], actions[i])]
    <3>1. h = [i \in 0 .. m |-> h[i]]
      OBVIOUS
    <3> HIDE DEF h
    <3> QED BY <2>3, <3>1
  <2>5. IsHistory(h, actions, m)
    BY <2>4 DEF IsHistory
  <2> QED BY <1>1, <2>5
<1> QED BY <1>2, <1>3

(* The stacks a program leaves behind, action by action *)
LEMMA HeldStepwise ==
  ASSUME NEW actions, Len(actions) \in Nat
  PROVE  /\ Held(actions)[0] = <<>>
         /\ \A i \in 1 .. Len(actions) :
              Held(actions)[i] = StackAfter(Held(actions)[i - 1], actions[i])
<1>1. \E h : h = [i \in 0 .. Len(actions) |->
                    IF i = 0 THEN <<>> ELSE StackAfter(h[i - 1], actions[i])]
  BY HistoryExists DEF IsHistory
<1>2. IsHistory(Held(actions), actions, Len(actions))
  BY <1>1, Zenon DEF Held, IsHistory
<1> HIDE DEF Held
<1>3. \A i \in 0 .. Len(actions) :
        Held(actions)[i] = IF i = 0 THEN <<>> ELSE StackAfter(Held(actions)[i - 1], actions[i])
  BY <1>2 DEF IsHistory
<1> QED BY <1>3

-----------------------------------------------------------------------------
(* How far the threads get *)

(* u is before an action of this type on r *)
About(u, type, r) ==
  pc[u] < StepCount(u) /\ Pending(u).type = type /\ Pending(u).resource_id = r

MovesOn(A) == pc' = [u \in Thread |-> IF u \in A THEN pc[u] + 1 ELSE pc[u]]

LEMMA DoingIsAbout ==
  ASSUME Typed, NoTimers, NEW t \in Thread, NEW type, Doing(t, type)
  PROVE  About(t, type, Target(t)) /\ state[t] = "READY"
  BY TimeStandsStill DEF Typed, Doing, Scheduled, About, Pending, Current, Target

LEMMA StayMoves ==
  ASSUME SchedOK, NoTimers, NEW t \in Thread, state[t] = "READY"
  PROVE  /\ Stay => MovesOn({}) /\ state' = state
         /\ Advance(t) => MovesOn({t}) /\ state' = state
  BY TimeStandsStill DEF SchedOK, Stay, Advance, MovesOn

LEMMA BlockMoves ==
  ASSUME SchedOK, NoTimers, NEW t \in Thread, NEW r, NEW blocked,
         Block(t, r, blocked, 0)
  PROVE  MovesOn({}) /\ blocked_on'[t] = r
  BY TimeStandsStill DEF SchedOK, Block, MovesOn

(* A wake-up advances its thread by 1, or not at all *)
LEMMA WakeMoves ==
  ASSUME SchedOK, NoTimers, NEW t \in Thread, state[t] = "READY", NEW W,
         \A u \in W : u # t
  PROVE  /\ WakeAndAdvance(t, W, 0) =>
              MovesOn({t}) /\ state'[t] = "READY"
         /\ WakeAndAdvance(t, W, 1) =>
              /\ MovesOn({t} \cup W) /\ state'[t] = "READY"
              /\ \A u \in Thread \cap W : state'[u] = "READY"
<1>1. TickedState = state /\ TickedPc = pc
  BY TimeStandsStill
<1>2. ASSUME WakeAndAdvance(t, W, 0)
      PROVE  MovesOn({t}) /\ state'[t] = "READY"
  BY <1>1, <1>2 DEF SchedOK, WakeAndAdvance, MovesOn
<1>3. ASSUME WakeAndAdvance(t, W, 1)
      PROVE  /\ MovesOn({t} \cup W) /\ state'[t] = "READY"
             /\ \A u \in Thread \cap W : state'[u] = "READY"
  BY <1>1, <1>3 DEF SchedOK, WakeAndAdvance, MovesOn
<1> QED BY <1>2, <1>3

LEMMA WaitKinds ==
  /\ WaitKind("MUTEX_LOCK") = "MUTEX"
  /\ WaitKind("SEM_WAIT") = "SEMAPHORE"
  /\ WaitKind("COND_WAIT") = "CONDVAR"
  /\ \A type \in MailboxTypes : WaitKind(type) = "MAILBOX"
  BY DEF WaitKind, MailboxTypes

-----------------------------------------------------------------------------
(* What a step does to the count of the semaphores and to the stacks, and  *)
(* which threads it takes past which of their actions                      *)

Booked == {"MUTEX_LOCK", "MUTEX_UNLOCK", "SEM_WAIT", "SEM_SIGNAL"}

Unbooked ==
  /\ count' = count
  /\ CondFree(scenario) => owned_mutex_stack' = owned_mutex_stack

Stops(t) ==
  /\ MovesOn({}) /\ Unbooked
  /\ state'[t] \in BlockedStates =>
       /\ pc[t] < StepCount(t)
       /\ Pending(t).resource_id = blocked_on'[t]
       /\ WaitKind(Pending(t).type) = ResType(blocked_on'[t])

Passes(t) ==
  /\ MovesOn({t}) /\ Unbooked
  /\ pc[t] < StepCount(t) /\ Pending(t).type \notin Booked
  /\ state'[t] \notin BlockedStates

Locks(t, r) ==
  /\ MovesOn({t}) /\ About(t, "MUTEX_LOCK", r) /\ state'[t] \notin BlockedStates
  /\ owner[r] = NoThread
  /\ owned_mutex_stack' = [owned_mutex_stack EXCEPT ![t] = OwnedPush(@, r)]
  /\ count' = count

Unlocks(t, r) ==
  /\ MovesOn({t}) /\ About(t, "MUTEX_UNLOCK", r) /\ state'[t] \notin BlockedStates
  /\ OwnedTopIs(t, r)
  /\ owned_mutex_stack' = [owned_mutex_stack EXCEPT ![t] = OwnedPop(@)]
  /\ count' = count

Gives(t, w, r) ==
  /\ MovesOn({t, w}) /\ t # w
  /\ About(t, "MUTEX_UNLOCK", r) /\ About(w, "MUTEX_LOCK", r)
  /\ state'[t] \notin BlockedStates /\ state'[w] \notin BlockedStates
  /\ owner[r] = t /\ OwnedTopIs(t, r)
  /\ owned_mutex_stack' =
       [[owned_mutex_stack EXCEPT ![t] = OwnedPop(@)] EXCEPT ![w] = OwnedPush(@, r)]
  /\ count' = count

TakesSignal(t, r) ==
  /\ MovesOn({t}) /\ About(t, "SEM_WAIT", r) /\ state'[t] \notin BlockedStates
  /\ count[r] > 0
  /\ count' = [count EXCEPT ![r] = @ - 1]
  /\ owned_mutex_stack' = owned_mutex_stack

LeavesSignal(t, r) ==
  /\ MovesOn({t}) /\ About(t, "SEM_SIGNAL", r) /\ state'[t] \notin BlockedStates
  /\ count' = [count EXCEPT ![r] = @ + 1]
  /\ owned_mutex_stack' = owned_mutex_stack

PassesSignal(t, w, r) ==
  /\ MovesOn({t, w}) /\ t # w
  /\ About(t, "SEM_SIGNAL", r) /\ About(w, "SEM_WAIT", r)
  /\ state'[t] \notin BlockedStates /\ state'[w] \notin BlockedStates
  /\ UNCHANGED <<count, owned_mutex_stack>>

Books(t) ==
  \/ Stops(t) \/ Passes(t)
  \/ \E r \in Resource :
       \/ Locks(t, r) \/ Unlocks(t, r) \/ TakesSignal(t, r) \/ LeavesSignal(t, r)
       \/ \E w \in Thread : Gives(t, w, r) \/ PassesSignal(t, w, r)

(* What a step is taken in *)
Waits ==
  /\ Typed /\ NoTimers /\ BlockedAreQueued
  /\ \A r \in Resource : ExactQueue(r)
  /\ \A u \in Thread : state[u] \in BlockedStates => SleepsOver(u)

LEMMA WaitingAreAbout ==
  ASSUME Waits, NEW r \in Resource, NEW i \in 1 .. Len(waiters[r])
  PROVE  /\ waiters[r][i] \in Thread /\ state[waiters[r][i]] \in BlockedStates
         /\ ResType(r) = "MUTEX" => About(waiters[r][i], "MUTEX_LOCK", r)
         /\ ResType(r) = "SEMAPHORE" => About(waiters[r][i], "SEM_WAIT", r)
<1> DEFINE w == waiters[r][i]
<1>1. w \in Thread /\ state[w] \in BlockedStates /\ blocked_on[w] = r
  BY QueuedAreThreads DEF Waits, Typed, ModelOK, ExactQueue, WaitsIn
<1>2. SleepsOver(w)
  BY <1>1 DEF Waits
<1> HIDE DEF w
<1>3. /\ WaitKind(Pending(w).type) = "MUTEX" => Pending(w).type = "MUTEX_LOCK"
      /\ WaitKind(Pending(w).type) = "SEMAPHORE" => Pending(w).type = "SEM_WAIT"
  BY DEF WaitKind
<1>4. /\ ResType(r) = "MUTEX" => About(w, "MUTEX_LOCK", r)
      /\ ResType(r) = "SEMAPHORE" => About(w, "SEM_WAIT", r)
  BY <1>1, <1>2, <1>3 DEF SleepsOver, About
<1> QED BY <1>1, <1>4 DEF w

LEMMA MutexBooks ==
  ASSUME Waits, WellTyped(scenario), NEW t \in Thread, Lock(t) \/ Unlock(t), fail' = "none"
  PROVE  Books(t)
<1> DEFINE r == Target(t)
<1>1. r \in Resource /\ ResType(r) = "MUTEX"
  BY TypedCalls DEF Waits, OfType
<1>2. /\ SchedOK /\ NoTimers /\ state[t] = "READY" /\ state[t] \notin BlockedStates
      /\ Lock(t) => About(t, "MUTEX_LOCK", r)
      /\ Unlock(t) => About(t, "MUTEX_UNLOCK", r)
  BY DoingIsAbout DEF Waits, Typed, Lock, Unlock, BlockedStates
<1> HIDE DEF r
<1>3. CASE Lock(t) /\ LockAcquire(t, r)
  <2>1. MovesOn({t}) /\ state' = state
    BY <1>2, <1>3, StayMoves DEF LockAcquire
  <2> QED BY <1>1, <1>2, <1>3, <2>1 DEF LockAcquire, Books, Locks
<1>4. CASE Lock(t) /\ LockBlock(t, r, 0)
  <2>1. MovesOn({}) /\ blocked_on'[t] = r
    BY <1>2, <1>4, BlockMoves DEF LockBlock
  <2>2. Stops(t)
    BY <1>1, <1>2, <1>4, <2>1, WaitKinds DEF LockBlock, Stops, Unbooked, About
  <2> QED BY <2>2 DEF Books
<1>5. CASE Unlock(t) /\ UnlockFree(t, r)
  <2>1. MovesOn({t}) /\ state' = state
    BY <1>2, <1>5, StayMoves DEF UnlockFree
  <2>2. OwnedTopIs(t, r)
    BY <1>5 DEF UnlockFree, UnlockFault
  <2> QED BY <1>1, <1>2, <1>5, <2>1, <2>2 DEF UnlockFree, Books, Unlocks
<1>6. CASE Unlock(t) /\ UnlockHandoff(t, r)
  <2>1. PICK i \in 1 .. Len(waiters[r]) :
          /\ owned_mutex_stack' = [[owned_mutex_stack EXCEPT ![t] = OwnedPop(@)]
                                     EXCEPT ![waiters[r][i]] = OwnedPush(@, r)]
          /\ WakeAndAdvance(t, {waiters[r][i]}, 1)
    BY <1>6 DEF UnlockHandoff
  <2> DEFINE w == waiters[r][i]
  <2>2. /\ w \in Thread /\ state[w] \in BlockedStates
        /\ About(w, "MUTEX_LOCK", r)
    BY <1>1, WaitingAreAbout
  <2>3. w # t
    BY <1>2, <2>2
  <2>4. owner[r] = t /\ OwnedTopIs(t, r) /\ count' = count
    BY <1>6 DEF UnlockHandoff, UnlockFault
  <2> HIDE DEF w
  <2>5. /\ MovesOn({t} \cup {w}) /\ state'[t] = "READY" /\ state'[w] = "READY"
    BY <1>2, <2>1, <2>2, <2>3, WakeMoves DEF w
  <2>6. {t} \cup {w} = {t, w}
    OBVIOUS
  <2>7. owned_mutex_stack' = [[owned_mutex_stack EXCEPT ![t] = OwnedPop(@)]
                                EXCEPT ![w] = OwnedPush(@, r)]
    BY <2>1 DEF w
  <2>8. Gives(t, w, r)
    BY <1>2, <1>6, <2>2, <2>3, <2>4, <2>5, <2>6, <2>7 DEF Gives, BlockedStates
  <2> QED BY <1>1, <2>2, <2>8 DEF Books
<1>7. ~LockReject(t, r) /\ ~UnlockReject(t, r)
  BY DEF LockReject, UnlockReject, Reject
<1> QED BY <1>3, <1>4, <1>5, <1>6, <1>7 DEF Lock, Unlock, MutexLock, MutexUnlock, r

LEMMA SemBooks ==
  ASSUME Waits, WellTyped(scenario), NEW t \in Thread, Wait(t) \/ Signal(t), fail' = "none"
  PROVE  Books(t)
<1> DEFINE r == Target(t)
<1>1. r \in Resource /\ ResType(r) = "SEMAPHORE"
  BY TypedCalls DEF Waits, OfType
<1>2. /\ SchedOK /\ NoTimers /\ state[t] = "READY" /\ state[t] \notin BlockedStates
      /\ Wait(t) => About(t, "SEM_WAIT", r)
      /\ Signal(t) => About(t, "SEM_SIGNAL", r)
  BY DoingIsAbout DEF Waits, Typed, Wait, Signal, BlockedStates
<1> HIDE DEF r
<1>3. CASE Wait(t) /\ SemTake(t, r)
  <2>1. MovesOn({t}) /\ state' = state
    BY <1>2, <1>3, StayMoves DEF SemTake
  <2> QED BY <1>1, <1>2, <1>3, <2>1 DEF SemTake, Books, TakesSignal, inheritVars
<1>4. CASE Wait(t) /\ SemBlock(t, r, 0)
  <2>1. MovesOn({}) /\ blocked_on'[t] = r
    BY <1>2, <1>4, BlockMoves DEF SemBlock
  <2>2. Stops(t)
    BY <1>1, <1>2, <1>4, <2>1, WaitKinds
       DEF SemBlock, Stops, Unbooked, About, inheritVars
  <2> QED BY <2>2 DEF Books
<1>5. CASE Signal(t) /\ SemPost(t, r)
  <2>1. MovesOn({t}) /\ state' = state
    BY <1>2, <1>5, StayMoves DEF SemPost
  <2> QED BY <1>1, <1>2, <1>5, <2>1 DEF SemPost, Books, LeavesSignal, inheritVars
<1>6. CASE Signal(t) /\ SemWake(t, r)
  <2>1. PICK i \in 1 .. Len(waiters[r]) : WakeAndAdvance(t, {waiters[r][i]}, 1)
    BY <1>6 DEF SemWake
  <2> DEFINE w == waiters[r][i]
  <2>2. w \in Thread /\ state[w] \in BlockedStates /\ About(w, "SEM_WAIT", r)
    BY <1>1, WaitingAreAbout
  <2>3. w # t
    BY <1>2, <2>2
  <2> HIDE DEF w
  <2>4. MovesOn({t} \cup {w}) /\ state'[t] = "READY" /\ state'[w] = "READY"
    BY <1>2, <2>1, <2>2, <2>3, WakeMoves DEF w
  <2>5. {t} \cup {w} = {t, w}
    OBVIOUS
  <2>6. UNCHANGED <<count, owned_mutex_stack>>
    BY <1>6 DEF SemWake, inheritVars
  <2>7. PassesSignal(t, w, r)
    BY <1>2, <1>6, <2>2, <2>3, <2>4, <2>5, <2>6 DEF PassesSignal, BlockedStates
  <2> QED BY <1>1, <2>2, <2>7 DEF Books
<1>7. ~SemWaitReject(t, r) /\ ~SemSignalReject(t, r)
  BY DEF SemWaitReject, SemSignalReject, Reject
<1> QED BY <1>3, <1>4, <1>5, <1>6, <1>7 DEF Wait, Signal, SemWait, SemSignal, r

LEMMA CondBooks ==
  ASSUME Waits, NEW t \in Thread, WaitCond(t) \/ SignalCond(t) \/ Broadcast(t),
         fail' = "none"
  PROVE  Books(t)
<1> DEFINE c == Target(t)
<1>1. c \in Resource
  BY CurrentType DEF Waits, WaitCond, SignalCond, Broadcast, ResourceActions
<1>2. /\ SchedOK /\ NoTimers /\ state[t] = "READY" /\ state[t] \notin BlockedStates
      /\ ~CondFree(scenario)
      /\ WaitCond(t) => About(t, "COND_WAIT", c)
      /\ SignalCond(t) => About(t, "COND_SIGNAL", c)
      /\ Broadcast(t) => About(t, "COND_BROADCAST", c)
  BY DoingIsAbout, NoConditionCalls
     DEF Waits, Typed, WaitCond, SignalCond, Broadcast, BlockedStates
<1> HIDE DEF c
<1>3. CASE WaitCond(t) /\ CondBlock(t, c)
  <2>1. MovesOn({}) /\ blocked_on'[t] = c
    BY <1>2, <1>3, BlockMoves DEF CondBlock
  <2>2. ResType(c) = "CONDVAR" /\ count' = count
    BY <1>3 DEF CondBlock, CondRelease, CondWaitFault
  <2>3. Stops(t)
    BY <1>2, <1>3, <2>1, <2>2, WaitKinds DEF Stops, Unbooked, About
  <2> QED BY <2>3 DEF Books
<1>4. ASSUME SignalCond(t) \/ Broadcast(t), NEW W, \A u \in W : u # t,
             WakeAndAdvance(t, W, 0), count' = count
      PROVE  Books(t)
  <2>1. MovesOn({t}) /\ state'[t] = "READY"
    BY <1>2, <1>4, WakeMoves
  <2>2. Passes(t)
    BY <1>2, <1>4, <2>1 DEF Passes, Unbooked, About, Booked, BlockedStates
  <2> QED BY <2>2 DEF Books
<1>5. \A u \in QueuedOn(c) : u # t
  BY <1>1, <1>2, WaitingAreAbout DEF QueuedOn
<1>6. CASE SignalCond(t) /\ CondWake(t, c)
  <2>1. PICK i \in 1 .. Len(waiters[c]) : WakeAndAdvance(t, {waiters[c][i]}, 0)
    BY <1>6 DEF CondWake
  <2>2. waiters[c][i] # t
    BY <1>5 DEF QueuedOn
  <2> QED BY <1>4, <1>6, <2>1, <2>2 DEF CondWake
<1>7. CASE Broadcast(t) /\ CondWakeAll(t, c)
  BY <1>4, <1>5, <1>7 DEF CondWakeAll
<1>8. CASE SignalCond(t) /\ CondLost(t, c)
  <2>1. MovesOn({t}) /\ state' = state
    BY <1>2, <1>8, StayMoves DEF CondLost
  <2>2. count' = count
    BY <1>8 DEF CondLost, modelVars, objectVars
  <2>3. Passes(t)
    BY <1>2, <1>8, <2>1, <2>2 DEF Passes, Unbooked, About, Booked
  <2> QED BY <2>3 DEF Books
<1>9. ~CondWaitReject(t, c) /\ ~CondOverflow(t, c) /\ ~CondSignalReject(t, c)
  BY DEF CondWaitReject, CondOverflow, CondSignalReject, Reject
<1> QED BY <1>3, <1>6, <1>7, <1>8, <1>9
     DEF WaitCond, SignalCond, Broadcast, CondWait, CondSignal, CondBroadcast, c

LEMMA MailboxBooks ==
  ASSUME Waits, NEW t \in Thread, Post(t) \/ PostFront(t) \/ Fetch(t), fail' = "none"
  PROVE  Books(t)
<1> DEFINE r == Target(t)
           msg == Current(t).arg
<1>1. r \in Resource
  BY CurrentType DEF Waits, Post, PostFront, Fetch, ResourceActions
<1>2. /\ SchedOK /\ NoTimers /\ state[t] = "READY" /\ state[t] \notin BlockedStates
      /\ \E type \in MailboxTypes : About(t, type, r)
  BY DoingIsAbout DEF Waits, Typed, Post, PostFront, Fetch, BlockedStates, MailboxTypes
<1>3. \/ MbAppend(t, r, msg) \/ MbPrepend(t, r, msg) \/ MbTake(t, r)
      \/ \E blocks : MbBlock(t, r, blocks) \/ MbReject(r, blocks)
  BY DEF Post, PostFront, Fetch, MbPost, MbPostFront, MbFetch
<1> HIDE DEF r, msg
<1>4. ASSUME MovesOn({t}), state'[t] = "READY", Unbooked
      PROVE  Books(t)
  <2>1. Passes(t)
    BY <1>2, <1>4 DEF Passes, About, Booked, BlockedStates, MailboxTypes
  <2> QED BY <2>1 DEF Books
<1>5. CASE MbAppend(t, r, msg) \/ MbPrepend(t, r, msg)
  <2>1. MovesOn({t}) /\ state' = state
    BY <1>2, <1>5, StayMoves DEF MbAppend, MbPrepend
  <2> QED BY <1>2, <1>4, <1>5, <2>1
       DEF MbAppend, MbPrepend, Unbooked, inheritVars, objectVars
<1>6. CASE MbTake(t, r)
  <2> DEFINE W == {waiters[r][i] : i \in {1} \cap (1 .. Len(waiters[r]))}
  <2>1. \A u \in W : u # t
    BY <1>1, <1>2, WaitingAreAbout
  <2>2. WakeAndAdvance(t, W, 0) /\ Unbooked
    BY <1>6 DEF MbTake, Unbooked, inheritVars
  <2> HIDE DEF W
  <2>3. MovesOn({t}) /\ state'[t] = "READY"
    BY <1>2, <2>1, <2>2, WakeMoves
  <2> QED BY <1>4, <2>2, <2>3
<1>7. ASSUME NEW blocks, MbBlock(t, r, blocks)
      PROVE  Books(t)
  <2>1. MovesOn({}) /\ blocked_on'[t] = r
    BY <1>2, <1>7, BlockMoves DEF MbBlock
  <2>2. ResType(r) = "MAILBOX" /\ Unbooked
    BY <1>7 DEF MbBlock, MbFault, Unbooked, inheritVars
  <2>3. Stops(t)
    BY <1>2, <2>1, <2>2, WaitKinds DEF Stops, About
  <2> QED BY <2>3 DEF Books
<1>8. \A blocks : ~MbReject(r, blocks)
  BY DEF MbReject, Reject
<1> QED BY <1>3, <1>5, <1>6, <1>7, <1>8

LEMMA LocalBooks ==
  ASSUME Waits, NEW t \in Thread, state[t] = "READY", fail' = "none",
         \/ ThreadEnd(t) \/ Done(t) \/ Pause(t) \/ Unhandled(t) \/ LocalReject(t)
         \/ SysLock(t) \/ SysUnlock(t) \/ IsrEnter(t) \/ IsrExit(t)
         \/ ObjectInit(t) \/ ObjectDestroy(t) \/ Call(t) \/ Return(t)
  PROVE  Books(t)
<1>1. Unbooked /\ SchedOK /\ NoTimers /\ Typed
  BY LocalKeeps DEF Unbooked, modelVars, inheritVars, objectVars, Waits, Typed
<1>2. CASE ThreadEnd(t) \/ Done(t)
  <2>1. pc' = pc /\ state'[t] = "DONE"
    BY <1>1, <1>2, TimeStandsStill DEF ThreadEnd, Done, SchedOK
  <2>2. Stops(t)
    BY <1>1, <2>1 DEF Stops, MovesOn, SchedOK, BlockedStates
  <2> QED BY <2>2 DEF Books
<1>3. CASE Stay
  <2>1. MovesOn({}) /\ state' = state
    BY <1>1, <1>3, StayMoves
  <2>2. Stops(t)
    BY <1>1, <2>1 DEF Stops, BlockedStates
  <2> QED BY <2>2 DEF Books
<1>4. CASE ~(ThreadEnd(t) \/ Done(t)) /\ ~Stay
  <2>1. Advance(t) /\ \E type \in LocalActions \cup {"OBJECT_INIT", "OBJECT_DESTROY"} :
                         Doing(t, type)
    BY <1>4 DEF Pause, Unhandled, LocalReject, SysLock, SysUnlock, IsrEnter, IsrExit,
                CtxStep, ObjectInit, ObjectDestroy, SetAlive, Call, Return, LocalActions
  <2>2. PICK type \in LocalActions \cup {"OBJECT_INIT", "OBJECT_DESTROY"} :
          About(t, type, Target(t))
    BY <1>1, <2>1, DoingIsAbout
  <2>3. MovesOn({t}) /\ state' = state
    BY <1>1, <2>1, StayMoves
  <2>4. Passes(t)
    BY <1>1, <2>2, <2>3 DEF Passes, About, LocalActions, Booked, BlockedStates
  <2> QED BY <2>4 DEF Books
<1> QED BY <1>2, <1>3, <1>4

LEMMA StepBooks ==
  ASSUME Waits, Untimed(scenario), WellTyped(scenario), NEW t \in Thread, Step(t),
         fail' = "none"
  PROVE  Books(t)
<1>1. state[t] = "READY" /\ ~TimedLock(t) /\ ~TimedWait(t)
  BY StepIsAwake, NoTimedCalls DEF Waits
<1> QED BY <1>1, MutexBooks, SemBooks, CondBooks, MailboxBooks, LocalBooks DEF Step

-----------------------------------------------------------------------------
(* Sleepers sleep in their pending action *)

(* While nothing has failed, without timed calls *)
PendingInv ==
  Untimed(scenario) /\ WellTyped(scenario) /\ fail = "none" =>
    \A u \in Thread : /\ pc[u] <= StepCount(u)
                      /\ state[u] \in BlockedStates => SleepsOver(u)

LEMMA StepIsAllowed ==
  ASSUME NEW t \in Thread, Step(t)
  PROVE  fail = "none"
  BY DEF Step, ThreadEnd, Done, Lock, TimedLock, Unlock, Wait, TimedWait, Signal,
         WaitCond, SignalCond, Broadcast, Post, PostFront, Fetch, Pause, Unhandled,
         LocalReject, SysLock, SysUnlock, IsrEnter, IsrExit, ObjectInit,
         ObjectDestroy, Call, Return, Doing, Scheduled

LEMMA BooksMoves ==
  ASSUME NEW t \in Thread, Books(t)
  PROVE  \E A \in SUBSET Thread :
           /\ MovesOn(A)
           /\ \A u \in A : pc[u] < StepCount(u) /\ state'[u] \notin BlockedStates
<1>1. CASE Stops(t)
  BY <1>1 DEF Stops
<1>2. CASE \/ Passes(t)
           \/ \E r \in Resource : \/ Locks(t, r) \/ Unlocks(t, r)
                                  \/ TakesSignal(t, r) \/ LeavesSignal(t, r)
  <2>1. MovesOn({t}) /\ pc[t] < StepCount(t) /\ state'[t] \notin BlockedStates
    BY <1>2 DEF Passes, Locks, Unlocks, TakesSignal, LeavesSignal, About
  <2>2. {t} \in SUBSET Thread
    OBVIOUS
  <2> QED BY <2>1, <2>2
<1>3. ASSUME NEW r \in Resource, NEW w \in Thread, Gives(t, w, r) \/ PassesSignal(t, w, r)
      PROVE  \E A \in SUBSET Thread :
               /\ MovesOn(A)
               /\ \A u \in A : pc[u] < StepCount(u) /\ state'[u] \notin BlockedStates
  <2>1. /\ MovesOn({t, w})
        /\ \A u \in {t, w} : pc[u] < StepCount(u) /\ state'[u] \notin BlockedStates
    BY <1>3 DEF Gives, PassesSignal, About
  <2>2. {t, w} \in SUBSET Thread
    OBVIOUS
  <2> QED BY <2>1, <2>2
<1> QED BY <1>1, <1>2, <1>3 DEF Books

LEMMA PendingKept ==
  ASSUME Typed, scenario' = scenario, NEW t \in Thread, WaitShape(t), Books(t),
         \A u \in Thread : /\ pc[u] <= StepCount(u)
                           /\ state[u] \in BlockedStates => SleepsOver(u),
         NEW u \in Thread
  PROVE  /\ pc'[u] <= StepCount(u)'
         /\ state'[u] \in BlockedStates => SleepsOver(u)'
<1>0. StepCount(u)' = StepCount(u) /\ StepCount(u) \in Nat /\ pc[u] \in Nat
  BY DEF StepCount, Typed, SchedOK, ValidScenario
<1>1. PICK A \in SUBSET Thread :
        /\ MovesOn(A)
        /\ \A v \in A : pc[v] < StepCount(v) /\ state'[v] \notin BlockedStates
  BY BooksMoves
<1>2. pc'[u] <= StepCount(u)'
  BY <1>0, <1>1 DEF MovesOn
<1>3. ASSUME state'[u] \in BlockedStates
      PROVE  SleepsOver(u)'
  <2>1. pc'[u] = pc[u]
    BY <1>1, <1>3 DEF MovesOn
  <2>2. Pending(u)' = Pending(u)
    BY <2>1 DEF Pending
  <2>3. \A r : ResType(r)' = ResType(r)
    BY DEF ResType
  <2>4. CASE u = t
    <3>1. Stops(t)
      BY <1>3, <2>4 DEF Books, Passes, Locks, Unlocks, TakesSignal, LeavesSignal, Gives,
                        PassesSignal
    <3> QED BY <1>0, <1>3, <2>1, <2>2, <2>3, <2>4, <3>1 DEF Stops, SleepsOver
  <2>5. CASE u # t
    <3>1. state[u] \in BlockedStates /\ blocked_on'[u] = blocked_on[u]
      BY <1>3, <2>5 DEF WaitShape, Minds, Queues, Wakes, WakesAll, Unmoved, BlockedStates
    <3> QED BY <1>0, <2>1, <2>2, <2>3, <3>1 DEF SleepsOver
  <2> QED BY <2>4, <2>5
<1> QED BY <1>2, <1>3

LEMMA UntimedStep ==
  ASSUME TypeOK, BlockedAreQueued, ExactInv, PendingInv, Next, fail' = "none",
         Untimed(scenario), WellTyped(scenario)
  PROVE  /\ scenario' = scenario /\ Waits /\ fail = "none"
         /\ \A u \in Thread : pc[u] <= StepCount(u)
         /\ \E t \in Thread : Step(t) /\ WaitShape(t) /\ Books(t)
<1>1. PICK t \in Thread : Step(t)
  BY DEF Next, Runnable
<1>2. scenario' = scenario /\ fail = "none"
  BY <1>1, StepKeepsScenario, StepIsAllowed
<1>3. Waits /\ \A u \in Thread : pc[u] <= StepCount(u)
  BY <1>2, TypeOKParts DEF Waits, Typed, ExactInv, PendingInv
<1>4. WaitShape(t) /\ Books(t)
  BY <1>1, <1>3, StepWaits, StepBooks DEF Waits
<1> QED BY <1>1, <1>2, <1>3, <1>4

LEMMA PendingStep ==
  ASSUME TypeOK, BlockedAreQueued, ExactInv, PendingInv, [Next]_vars
  PROVE  PendingInv'
<1>1. CASE Next
  <2>1. scenario' = scenario
    BY <1>1, StepKeepsScenario DEF Next, Runnable
  <2>2. ASSUME Untimed(scenario), WellTyped(scenario), fail' = "none", NEW u \in Thread
        PROVE  /\ pc'[u] <= StepCount(u)'
               /\ state'[u] \in BlockedStates => SleepsOver(u)'
    BY <1>1, <2>2, UntimedStep, PendingKept DEF Waits
  <2>3. Untimed(scenario)' = Untimed(scenario) /\ WellTyped(scenario)' = WellTyped(scenario)
    BY <2>1 DEF Untimed, WellTyped, ActionsOf
  <2> QED BY <2>2, <2>3 DEF PendingInv
<1>2. CASE UNCHANGED vars
  BY <1>2 DEF PendingInv, Untimed, WellTyped, ActionsOf, SleepsOver, Pending, StepCount,
              ResType, vars, schedVars
<1> QED BY <1>1, <1>2

LEMMA PendingCorrect == Spec /\ FitsArrays(scenario) => []PendingInv
<1>1. Init /\ TypeOK => PendingInv
  <2> SUFFICES ASSUME Init, TypeOK PROVE PendingInv
    OBVIOUS
  <2>1. \A u \in Thread : state[u] = "READY" /\ pc[u] = 0 /\ StepCount(u) \in Nat
    BY DEF Init, Reset, TypeOK, ValidScenario, StepCount
  <2> QED BY <2>1 DEF PendingInv, BlockedStates
<1>2. TypeOK /\ BlockedAreQueued /\ ExactInv /\ PendingInv /\ [Next]_vars => PendingInv'
  BY PendingStep
<1> QED BY <1>1, <1>2, TypeCorrect, SleepersAreQueued, ExactCorrect, PTL DEF Spec

-----------------------------------------------------------------------------
(* The signals *)

LEMMA ExecutedMembers ==
  ASSUME NEW type, NEW r, NEW e
  PROVE  e \in Executed(type, r) <=>
           \E u \in Thread : \E i \in 1 .. Passed(u) :
             /\ e = <<u, i>>
             /\ scenario.steps[u][i].type = type
             /\ scenario.steps[u][i].resource_id = r
  BY DEF Executed, PassedActions

(* Threads A move past their pending actions, at most one of which is of   *)
(* this type on r.                                                         *)
LEMMA ExecutedGrows ==
  ASSUME Typed, scenario' = scenario, \A u \in Thread : pc[u] <= StepCount(u),
         NEW A \in SUBSET Thread, MovesOn(A), \A u \in A : pc[u] < StepCount(u),
         NEW type, NEW r
  PROVE  /\ (\A u \in A : ~About(u, type, r)) => Executed(type, r)' = Executed(type, r)
         /\ \A w \in A :
              About(w, type, r) /\ (\A u \in A \ {w} : ~About(u, type, r)) =>
                /\ Executed(type, r)' = Executed(type, r) \cup {<<w, pc[w] + 1>>}
                /\ <<w, pc[w] + 1>> \notin Executed(type, r)
<1>1. /\ \A u \in Thread : /\ pc[u] \in Nat /\ Passed(u) = pc[u]
                           /\ Passed(u)' = IF u \in A THEN pc[u] + 1 ELSE pc[u]
  BY DEF Typed, SchedOK, ValidScenario, StepCount, Passed, MovesOn
<1>2. \A e : e \in Executed(type, r)' <=>
           \E u \in Thread : \E i \in 1 .. Passed(u)' :
             /\ e = <<u, i>>
             /\ scenario.steps[u][i].type = type
             /\ scenario.steps[u][i].resource_id = r
  BY DEF Executed, PassedActions
<1>3. \A u \in A : About(u, type, r) <=> /\ scenario.steps[u][pc[u] + 1].type = type
                                        /\ scenario.steps[u][pc[u] + 1].resource_id = r
  BY DEF About, Pending
<1>4. \A e : e \in Executed(type, r)' <=>
           \/ e \in Executed(type, r)
           \/ \E u \in A : e = <<u, pc[u] + 1>> /\ About(u, type, r)
  <2>1. ASSUME NEW e, e \in Executed(type, r)'
        PROVE  \/ e \in Executed(type, r)
               \/ \E u \in A : e = <<u, pc[u] + 1>> /\ About(u, type, r)
    <3>0. PICK u \in Thread : \E i \in 1 .. Passed(u)' :
            /\ e = <<u, i>>
            /\ scenario.steps[u][i].type = type
            /\ scenario.steps[u][i].resource_id = r
      BY <1>2, <2>1, Zenon
    <3>1. PICK i \in 1 .. Passed(u)' :
            /\ e = <<u, i>>
            /\ scenario.steps[u][i].type = type
            /\ scenario.steps[u][i].resource_id = r
      BY <3>0
    <3>2. i \in 1 .. Passed(u) \/ (u \in A /\ i = pc[u] + 1)
      BY <1>1
    <3> QED BY <1>3, <3>1, <3>2, ExecutedMembers
  <2>2. ASSUME NEW e, e \in Executed(type, r)
        PROVE  e \in Executed(type, r)'
    <3>0. PICK u \in Thread : \E i \in 1 .. Passed(u) :
            /\ e = <<u, i>>
            /\ scenario.steps[u][i].type = type
            /\ scenario.steps[u][i].resource_id = r
      BY <2>2, ExecutedMembers
    <3>1. PICK i \in 1 .. Passed(u) :
            /\ e = <<u, i>>
            /\ scenario.steps[u][i].type = type
            /\ scenario.steps[u][i].resource_id = r
      BY <3>0
    <3>2. i \in 1 .. Passed(u)'
      BY <1>1
    <3> QED BY <1>2, <3>1, <3>2
  <2>3. ASSUME NEW u \in A, About(u, type, r)
        PROVE  <<u, pc[u] + 1>> \in Executed(type, r)'
    <3>1. pc[u] + 1 \in 1 .. Passed(u)'
      BY <1>1
    <3> QED BY <1>2, <1>3, <2>3, <3>1
  <2> QED BY <2>1, <2>2, <2>3
<1>5. \A w \in Thread : <<w, pc[w] + 1>> \notin Executed(type, r)
  <2> SUFFICES ASSUME NEW w \in Thread, <<w, pc[w] + 1>> \in Executed(type, r)
               PROVE  FALSE
    OBVIOUS
  <2>1. PICK u \in Thread : \E i \in 1 .. Passed(u) : <<w, pc[w] + 1>> = <<u, i>>
    BY ExecutedMembers
  <2> QED BY <1>1, <2>1
<1>6. ASSUME \A u \in A : ~About(u, type, r)
      PROVE  Executed(type, r)' = Executed(type, r)
  BY <1>4, <1>6
<1>7. ASSUME NEW w \in A, About(w, type, r), \A u \in A \ {w} : ~About(u, type, r)
      PROVE  Executed(type, r)' = Executed(type, r) \cup {<<w, pc[w] + 1>>}
  BY <1>4, <1>7
<1> QED BY <1>5, <1>6, <1>7

Tally(r) ==
  /\ IsFiniteSet(Executed("SEM_SIGNAL", r)) /\ IsFiniteSet(Executed("SEM_WAIT", r))
  /\ count[r] = scenario.sem_init[r] + Cardinality(Executed("SEM_SIGNAL", r))
                                     - Cardinality(Executed("SEM_WAIT", r))

LEMMA TallyKept ==
  ASSUME Typed, scenario' = scenario, \A u \in Thread : pc[u] <= StepCount(u),
         NEW t \in Thread, Books(t), NEW r \in Resource, Tally(r)
  PROVE  Tally(r)'
<1> DEFINE S == Executed("SEM_SIGNAL", r)
           W == Executed("SEM_WAIT", r)
<1>0. /\ count \in [Resource -> Int] /\ scenario.sem_init[r] \in Int
      /\ IsFiniteSet(S) /\ Cardinality(S) \in Nat
      /\ IsFiniteSet(W) /\ Cardinality(W) \in Nat
      /\ count[r] = scenario.sem_init[r] + Cardinality(S) - Cardinality(W)
  BY FS_CardinalityType DEF Typed, ModelOK, ObjectOK, ValidScenario, Tally
<1>1. ASSUME NEW A \in SUBSET Thread, MovesOn(A), \A u \in A : pc[u] < StepCount(u)
      PROVE  /\ (\A u \in A : ~About(u, "SEM_SIGNAL", r)) => S' = S
             /\ (\A u \in A : ~About(u, "SEM_WAIT", r)) => W' = W
             /\ \A w \in A :
                  About(w, "SEM_SIGNAL", r) /\ (\A u \in A \ {w} : ~About(u, "SEM_SIGNAL", r))
                    => S' = S \cup {<<w, pc[w] + 1>>} /\ <<w, pc[w] + 1>> \notin S
             /\ \A w \in A :
                  About(w, "SEM_WAIT", r) /\ (\A u \in A \ {w} : ~About(u, "SEM_WAIT", r))
                    => W' = W \cup {<<w, pc[w] + 1>>} /\ <<w, pc[w] + 1>> \notin W
  BY <1>1, ExecutedGrows
<1> HIDE DEF S, W
<1>2. ASSUME S' = S, W' = W, count'[r] = count[r]
      PROVE  Tally(r)'
  BY <1>0, <1>2 DEF Tally, S, W
<1>3. {t} \in SUBSET Thread
  OBVIOUS
<1>4. CASE Stops(t)
  <2>1. S' = S /\ W' = W
    BY <1>1, <1>4 DEF Stops
  <2> QED BY <1>2, <1>4, <2>1 DEF Stops, Unbooked
<1>5. ASSUME NEW q \in Resource, Passes(t) \/ Locks(t, q) \/ Unlocks(t, q)
      PROVE  Tally(r)'
  <2>1. /\ MovesOn({t}) /\ pc[t] < StepCount(t) /\ count' = count
        /\ ~About(t, "SEM_SIGNAL", r) /\ ~About(t, "SEM_WAIT", r)
    BY <1>5 DEF Passes, Locks, Unlocks, Unbooked, About, Booked
  <2>2. S' = S /\ W' = W
    BY <1>1, <1>3, <2>1
  <2> QED BY <1>2, <2>1, <2>2
<1>6. ASSUME NEW q \in Resource, NEW w \in Thread, Gives(t, w, q)
      PROVE  Tally(r)'
  <2>1. /\ MovesOn({t, w}) /\ {t, w} \in SUBSET Thread /\ count' = count
        /\ \A u \in {t, w} : /\ pc[u] < StepCount(u)
                             /\ ~About(u, "SEM_SIGNAL", r) /\ ~About(u, "SEM_WAIT", r)
    BY <1>6 DEF Gives, About
  <2>2. S' = S /\ W' = W
    BY <1>1, <2>1
  <2> QED BY <1>2, <2>1, <2>2
<1>7. ASSUME NEW q \in Resource, TakesSignal(t, q) \/ LeavesSignal(t, q), q # r
      PROVE  Tally(r)'
  <2>1. /\ MovesOn({t}) /\ pc[t] < StepCount(t) /\ count'[r] = count[r]
        /\ ~About(t, "SEM_SIGNAL", r) /\ ~About(t, "SEM_WAIT", r)
    BY <1>0, <1>7 DEF TakesSignal, LeavesSignal, About
  <2>2. S' = S /\ W' = W
    BY <1>1, <1>3, <2>1
  <2> QED BY <1>2, <2>1, <2>2
<1>8. CASE TakesSignal(t, r)
  <2>1. /\ MovesOn({t}) /\ pc[t] < StepCount(t) /\ count'[r] = count[r] - 1
        /\ ~About(t, "SEM_SIGNAL", r) /\ About(t, "SEM_WAIT", r)
    BY <1>0, <1>8 DEF TakesSignal, About
  <2>2. S' = S /\ W' = W \cup {<<t, pc[t] + 1>>} /\ <<t, pc[t] + 1>> \notin W
    BY <1>1, <1>3, <2>1
  <2>3. IsFiniteSet(W') /\ Cardinality(W') = Cardinality(W) + 1
    BY <1>0, <2>2, OneMore
  <2> QED BY <1>0, <2>1, <2>2, <2>3 DEF Tally, S, W
<1>9. CASE LeavesSignal(t, r)
  <2>1. /\ MovesOn({t}) /\ pc[t] < StepCount(t) /\ count'[r] = count[r] + 1
        /\ About(t, "SEM_SIGNAL", r) /\ ~About(t, "SEM_WAIT", r)
    BY <1>0, <1>9 DEF LeavesSignal, About
  <2>2. W' = W /\ S' = S \cup {<<t, pc[t] + 1>>} /\ <<t, pc[t] + 1>> \notin S
    BY <1>1, <1>3, <2>1
  <2>3. IsFiniteSet(S') /\ Cardinality(S') = Cardinality(S) + 1
    BY <1>0, <2>2, OneMore
  <2> QED BY <1>0, <2>1, <2>2, <2>3 DEF Tally, S, W
<1>10. ASSUME NEW q \in Resource, NEW w \in Thread, PassesSignal(t, w, q), q # r
       PROVE  Tally(r)'
  <2>1. /\ MovesOn({t, w}) /\ {t, w} \in SUBSET Thread /\ count' = count
        /\ \A u \in {t, w} : /\ pc[u] < StepCount(u)
                             /\ ~About(u, "SEM_SIGNAL", r) /\ ~About(u, "SEM_WAIT", r)
    BY <1>10 DEF PassesSignal, About
  <2>2. S' = S /\ W' = W
    BY <1>1, <2>1
  <2> QED BY <1>2, <2>1, <2>2
<1>11. ASSUME NEW w \in Thread, PassesSignal(t, w, r)
       PROVE  Tally(r)'
  <2>1. /\ MovesOn({t, w}) /\ {t, w} \in SUBSET Thread /\ count' = count /\ t # w
        /\ About(t, "SEM_SIGNAL", r) /\ ~About(t, "SEM_WAIT", r)
        /\ About(w, "SEM_WAIT", r) /\ ~About(w, "SEM_SIGNAL", r)
        /\ \A u \in {t, w} : pc[u] < StepCount(u)
    BY <1>11 DEF PassesSignal, About
  <2>2. /\ \A u \in {t, w} \ {t} : u = w
        /\ \A u \in {t, w} \ {w} : u = t
    OBVIOUS
  <2>3. /\ S' = S \cup {<<t, pc[t] + 1>>} /\ <<t, pc[t] + 1>> \notin S
        /\ W' = W \cup {<<w, pc[w] + 1>>} /\ <<w, pc[w] + 1>> \notin W
    BY <1>1, <2>1, <2>2
  <2>4. /\ IsFiniteSet(S') /\ Cardinality(S') = Cardinality(S) + 1
        /\ IsFiniteSet(W') /\ Cardinality(W') = Cardinality(W) + 1
    BY <1>0, <2>3, OneMore
  <2> QED BY <1>0, <2>1, <2>4 DEF Tally, S, W
<1> QED BY <1>4, <1>5, <1>6, <1>7, <1>8, <1>9, <1>10, <1>11 DEF Books

TallyInv ==
  Untimed(scenario) /\ WellTyped(scenario) /\ fail = "none" =>
    \A r \in Resource : Tally(r)

LEMMA TallyCorrect == Spec /\ FitsArrays(scenario) => []TallyInv
<1>1. Init /\ TypeOK => TallyInv
  <2> SUFFICES ASSUME Init, TypeOK, NEW r \in Resource PROVE Tally(r)
    BY DEF TallyInv
  <2>1. \A u \in Thread : Passed(u) = 0
    BY DEF Init, Reset, TypeOK, ValidScenario, StepCount, Passed
  <2>2. Executed("SEM_SIGNAL", r) = {} /\ Executed("SEM_WAIT", r) = {}
    BY <2>1, ExecutedMembers
  <2>3. IsFiniteSet({}) /\ Cardinality({}) = 0
    BY FS_EmptySet
  <2>4. count[r] = scenario.sem_init[r] /\ scenario.sem_init[r] \in Int
    BY DEF Init, Reset, TypeOK, ValidScenario
  <2>5. /\ IsFiniteSet(Executed("SEM_SIGNAL", r)) /\ IsFiniteSet(Executed("SEM_WAIT", r))
        /\ Cardinality(Executed("SEM_SIGNAL", r)) = 0
        /\ Cardinality(Executed("SEM_WAIT", r)) = 0
    BY <2>2, <2>3, Zenon
  <2>6. count[r] \in Int /\ count[r] = scenario.sem_init[r] + 0 - 0
    BY <2>4
  <2> QED BY <2>5, <2>6, Zenon DEF Tally
<1>2. TypeOK /\ BlockedAreQueued /\ ExactInv /\ PendingInv /\ TallyInv /\ [Next]_vars
        => TallyInv'
  <2> SUFFICES ASSUME TypeOK, BlockedAreQueued, ExactInv, PendingInv, TallyInv, [Next]_vars
               PROVE  TallyInv'
    OBVIOUS
  <2>1. CASE Next
    <3>1. scenario' = scenario
      BY <2>1, StepKeepsScenario DEF Next, Runnable
    <3>2. ASSUME Untimed(scenario), WellTyped(scenario), fail' = "none", NEW r \in Resource
          PROVE  Tally(r)'
      BY <2>1, <3>2, UntimedStep, TallyKept DEF Waits, TallyInv
    <3>3. Untimed(scenario)' = Untimed(scenario) /\ WellTyped(scenario)' = WellTyped(scenario)
      BY <3>1 DEF Untimed, WellTyped, ActionsOf
    <3> QED BY <3>2, <3>3 DEF TallyInv
  <2>2. CASE UNCHANGED vars
    <3>1. UNCHANGED <<scenario, state, pc, count, fail>>
      BY <2>2 DEF vars, schedVars, objectVars
    <3>2. \A u \in Thread : Passed(u)' = Passed(u)
      BY <3>1 DEF Passed, StepCount
    <3>3. PassedActions' = PassedActions
      BY <3>2, Zenon DEF PassedActions
    <3>4. \A type, r : Executed(type, r)' = Executed(type, r)
      BY <3>1, <3>3, Zenon DEF Executed
    <3>5. \A r \in Resource : Tally(r)' <=> Tally(r)
      BY <3>1, <3>4 DEF Tally
    <3>6. (Untimed(scenario)' <=> Untimed(scenario)) /\ (WellTyped(scenario)' <=> WellTyped(scenario))
      BY <3>1 DEF Untimed, WellTyped, ActionsOf
    <3> QED BY <3>1, <3>5, <3>6 DEF TallyInv
  <2> QED BY <2>1, <2>2
<1> QED BY <1>1, <1>2, TypeCorrect, SleepersAreQueued, ExactCorrect, PendingCorrect, PTL
     DEF Spec

(* A semaphore counts exactly the signals sent and not yet taken, whether  *)
(* a wait took one itself or the signaller completed it for a sleeper.     *)
THEOREM SignalsAreConserved == Spec /\ FitsArrays(scenario) => []SignalsConserved
<1>1. TallyInv => SignalsConserved
  BY DEF TallyInv, Tally, SignalsConserved, OfType
<1> QED BY <1>1, TallyCorrect, PTL

-----------------------------------------------------------------------------
(* The stacks *)

LEMMA StackAfters ==
  ASSUME NEW stack, NEW a
  PROVE  /\ a.type = "MUTEX_LOCK" => StackAfter(stack, a) = Append(stack, a.resource_id)
         /\ a.type = "MUTEX_UNLOCK" => StackAfter(stack, a) = OwnedPop(stack)
         /\ a.type \notin {"MUTEX_LOCK", "MUTEX_UNLOCK"} => StackAfter(stack, a) = stack
  BY DEF StackAfter

(* A lock that succeeds finds room on the stack *)
LEMMA PushIsAppend ==
  ASSUME Typed, StacksMatchOwners, NEW u \in Thread, NEW r \in Resource, owner[r] # u
  PROVE  OwnedPush(owned_mutex_stack[u], r) = Append(owned_mutex_stack[u], r)
<1>1. Match(owner, owned_mutex_stack)
  BY MatchMeaning DEF Typed
<1>2. /\ owned_mutex_stack[u] \in Seq(Resource) /\ NoRepeats(owned_mutex_stack[u])
      /\ ~OnStack(owned_mutex_stack[u], r)
  BY <1>1 DEF Match
<1>3. Len(owned_mutex_stack[u]) < MaxOwned
  BY <1>2, RoomOnStack
<1> QED BY <1>3 DEF OwnedPush

(* u stays where it is, or its stack follows its program *)
Replays(u) ==
  \/ pc'[u] = pc[u] /\ owned_mutex_stack'[u] = owned_mutex_stack[u]
  \/ /\ pc[u] < StepCount(u) /\ pc'[u] = pc[u] + 1
     /\ owned_mutex_stack'[u] = StackAfter(owned_mutex_stack[u], Pending(u))

LEMMA BooksReplay ==
  ASSUME Typed, StacksMatchOwners, CondFree(scenario), NEW t \in Thread, Books(t),
         NEW u \in Thread
  PROVE  Replays(u)
<1> DEFINE stack == owned_mutex_stack
<1>0. stack \in [Thread -> Seq(Resource)]
  BY DEF Typed, ModelOK, InheritOK
<1>1. CASE Stops(t)
  BY <1>1 DEF Stops, Unbooked, MovesOn, Replays
<1>2. CASE Passes(t)
  <2>1. StackAfter(stack[t], Pending(t)) = stack[t]
    BY <1>2, StackAfters DEF Passes, Booked
  <2> QED BY <1>2, <2>1 DEF Passes, Unbooked, MovesOn, Replays
<1>3. ASSUME NEW r \in Resource, Locks(t, r)
      PROVE  Replays(u)
  <2>1. OwnedPush(stack[t], r) = Append(stack[t], r)
    BY <1>3, PushIsAppend DEF Locks, Thread, NoThread
  <2>2. StackAfter(stack[t], Pending(t)) = Append(stack[t], r) /\ pc[t] < StepCount(t)
    BY <1>3, StackAfters DEF Locks, About
  <2> QED BY <1>0, <1>3, <2>1, <2>2 DEF Locks, MovesOn, Replays
<1>4. ASSUME NEW r \in Resource, Unlocks(t, r)
      PROVE  Replays(u)
  <2>1. StackAfter(stack[t], Pending(t)) = OwnedPop(stack[t]) /\ pc[t] < StepCount(t)
    BY <1>4, StackAfters DEF Unlocks, About
  <2> QED BY <1>0, <1>4, <2>1 DEF Unlocks, MovesOn, Replays
<1>5. ASSUME NEW r \in Resource, NEW w \in Thread, Gives(t, w, r)
      PROVE  Replays(u)
  <2>1. OwnedPush(stack[w], r) = Append(stack[w], r)
    BY <1>5, PushIsAppend DEF Gives
  <2>2. /\ StackAfter(stack[t], Pending(t)) = OwnedPop(stack[t]) /\ pc[t] < StepCount(t)
        /\ StackAfter(stack[w], Pending(w)) = Append(stack[w], r) /\ pc[w] < StepCount(w)
    BY <1>5, StackAfters DEF Gives, About
  <2>3. /\ stack'[t] = OwnedPop(stack[t]) /\ stack'[w] = OwnedPush(stack[w], r)
        /\ u \notin {t, w} => stack'[u] = stack[u]
    BY <1>0, <1>5 DEF Gives
  <2> QED BY <1>5, <2>1, <2>2, <2>3 DEF Gives, MovesOn, Replays
<1>6. ASSUME NEW r \in Resource, TakesSignal(t, r) \/ LeavesSignal(t, r)
      PROVE  Replays(u)
  <2>1. StackAfter(stack[t], Pending(t)) = stack[t] /\ pc[t] < StepCount(t)
    BY <1>6, StackAfters DEF TakesSignal, LeavesSignal, About
  <2> QED BY <1>6, <2>1 DEF TakesSignal, LeavesSignal, MovesOn, Replays
<1>7. ASSUME NEW r \in Resource, NEW w \in Thread, PassesSignal(t, w, r)
      PROVE  Replays(u)
  <2>1. \A v \in {t, w} :
          StackAfter(stack[v], Pending(v)) = stack[v] /\ pc[v] < StepCount(v)
    BY <1>7, StackAfters DEF PassesSignal, About
  <2> QED BY <1>7, <2>1 DEF PassesSignal, MovesOn, Replays
<1> QED BY <1>1, <1>2, <1>3, <1>4, <1>5, <1>6, <1>7 DEF Books

ReplayInv ==
  Regular(scenario) /\ fail = "none" =>
    \A u \in Thread : owned_mutex_stack[u] = Held(scenario.steps[u])[pc[u]]

LEMMA NextHeld ==
  ASSUME TypeOK, NEW u \in Thread
  PROVE  /\ Held(scenario.steps[u])[0] = <<>>
         /\ pc[u] \in Nat
         /\ pc[u] < StepCount(u) =>
              Held(scenario.steps[u])[pc[u] + 1]
                = StackAfter(Held(scenario.steps[u])[pc[u]], Pending(u))
<1> DEFINE steps == scenario.steps[u]
<1>1. Len(steps) \in Nat /\ StepCount(u) = Len(steps) /\ pc[u] \in Nat
      /\ Pending(u) = steps[pc[u] + 1]
  BY DEF TypeOK, ValidScenario, StepCount, Pending
<1> HIDE DEF steps
<1>2. /\ Held(steps)[0] = <<>>
      /\ \A i \in 1 .. Len(steps) : Held(steps)[i] = StackAfter(Held(steps)[i - 1], steps[i])
  BY <1>1, HeldStepwise
<1>3. ASSUME pc[u] < StepCount(u)
      PROVE  Held(steps)[pc[u] + 1] = StackAfter(Held(steps)[pc[u]], steps[pc[u] + 1])
  <2>1. PICK i \in 1 .. Len(steps) : i = pc[u] + 1
    BY <1>1, <1>3
  <2>2. i - 1 = pc[u]
    BY <1>1, <2>1
  <2>3. Held(steps)[i] = StackAfter(Held(steps)[i - 1], steps[i])
    BY <1>2
  <2> QED BY <2>1, <2>2, <2>3
<1> QED BY <1>1, <1>2, <1>3 DEF steps

LEMMA TrackStep ==
  ASSUME TypeOK, BlockedAreQueued, StacksMatchOwners, ExactInv, PendingInv, ReplayInv,
         [Next]_vars
  PROVE  ReplayInv'
<1>1. CASE Next
  <2>1. scenario' = scenario
    BY <1>1, StepKeepsScenario DEF Next, Runnable
  <2>2. ASSUME Regular(scenario), fail' = "none", NEW u \in Thread
        PROVE  owned_mutex_stack'[u] = Held(scenario.steps[u])[pc'[u]]
    <3>1. Untimed(scenario) /\ WellTyped(scenario) /\ CondFree(scenario)
      BY <2>2 DEF Regular
    <3>2. Waits /\ fail = "none" /\ \E t \in Thread : Books(t)
      BY <1>1, <2>2, <3>1, UntimedStep
    <3>3. Replays(u)
      BY <3>1, <3>2, BooksReplay DEF Waits
    <3>4. owned_mutex_stack[u] = Held(scenario.steps[u])[pc[u]]
      BY <2>2, <3>2 DEF ReplayInv
    <3> QED BY <3>3, <3>4, NextHeld DEF Replays
  <2>3. Regular(scenario)' = Regular(scenario)
    BY <2>1 DEF Regular, Untimed, CondFree, WellTyped, ActionsOf
  <2> QED BY <2>1, <2>2, <2>3 DEF ReplayInv
<1>2. CASE UNCHANGED vars
  BY <1>2 DEF ReplayInv, Regular, Untimed, CondFree, WellTyped, ActionsOf,
              vars, schedVars, inheritVars
<1> QED BY <1>1, <1>2

LEMMA ReplayCorrect == Spec /\ FitsArrays(scenario) => []ReplayInv
<1>1. Init /\ TypeOK => ReplayInv
  <2>1. ASSUME Init, TypeOK, NEW u \in Thread
        PROVE  owned_mutex_stack[u] = Held(scenario.steps[u])[pc[u]]
    BY <2>1, NextHeld DEF Init, Reset
  <2> QED BY <2>1 DEF ReplayInv
<1>2. TypeOK /\ BlockedAreQueued /\ StacksMatchOwners /\ ExactInv /\ PendingInv /\ ReplayInv
        /\ [Next]_vars => ReplayInv'
  BY TrackStep
<1> QED BY <1>1, <1>2, TypeCorrect, SleepersAreQueued, OwnersMatchStacks, ExactCorrect,
           PendingCorrect, PTL DEF Spec

(* A thread holds what its program made it hold up to where it is, whoever *)
(* took it past its lock calls.                                            *)
THEOREM StacksReplay == Spec /\ FitsArrays(scenario) => []StacksReplayPrograms
<1>1. TypeOK /\ PendingInv /\ ReplayInv => StacksReplayPrograms
  <2> SUFFICES ASSUME TypeOK, PendingInv, ReplayInv, Regular(scenario), fail = "none",
                      NEW u \in Thread
               PROVE  owned_mutex_stack[u] = Held(scenario.steps[u])[Passed(u)]
    BY DEF StacksReplayPrograms
  <2>1. pc[u] \in Nat /\ StepCount(u) \in Nat /\ pc[u] <= StepCount(u)
    BY DEF TypeOK, ValidScenario, StepCount, PendingInv, Regular
  <2>2. Passed(u) = pc[u]
    BY <2>1 DEF Passed
  <2> QED BY <2>2 DEF ReplayInv
<1> QED BY <1>1, TypeCorrect, PendingCorrect, ReplayCorrect, PTL

-----------------------------------------------------------------------------
(* Threads that make no mistake *)

LEMMA DisciplinedIsRegular ==
  ASSUME Disciplined(scenario)
  PROVE  Regular(scenario)
  BY DEF Disciplined, MutexOnly, Regular, Untimed, CondFree, TimedTypes, CondTypes

LEMMA DisciplinedSteps ==
  ASSUME Typed, Disciplined(scenario), NEW t \in Thread, Step(t)
  PROVE  Lock(t) \/ Unlock(t) \/ Pause(t) \/ ThreadEnd(t)
<1>1. ASSUME NEW type, Doing(t, type)
      PROVE  type \in {"MUTEX_LOCK", "MUTEX_UNLOCK", "YIELD", "NOP"}
  BY <1>1, CurrentIsOfScenario DEF Disciplined, MutexOnly
<1>2. /\ ~Done(t) /\ ~TimedLock(t) /\ ~Wait(t) /\ ~TimedWait(t) /\ ~Signal(t)
      /\ ~WaitCond(t) /\ ~SignalCond(t) /\ ~Broadcast(t)
      /\ ~Post(t) /\ ~PostFront(t) /\ ~Fetch(t)
  BY <1>1 DEF Done, TimedLock, Wait, TimedWait, Signal, WaitCond, SignalCond, Broadcast,
              Post, PostFront, Fetch
<1>3. /\ ~SysLock(t) /\ ~SysUnlock(t) /\ ~IsrEnter(t) /\ ~IsrExit(t)
      /\ ~ObjectInit(t) /\ ~ObjectDestroy(t) /\ ~Call(t) /\ ~Return(t)
  <2>1. \A type \in {"SYS_LOCK", "SYS_UNLOCK", "ISR_ENTER", "ISR_EXIT", "OBJECT_INIT",
                    "OBJECT_DESTROY", "CALL", "RETURN"} : ~Doing(t, type)
    BY <1>1
  <2> QED BY <2>1 DEF SysLock, SysUnlock, IsrEnter, IsrExit, ObjectInit, ObjectDestroy,
                      Call, Return
<1>4. ~Unhandled(t) /\ ~LocalReject(t)
  <2>1. \A type \in {"COND_WAIT_TIMEOUT", "MB_POST_TIMEOUT", "MB_FETCH_TIMEOUT",
                    "SYS_UNLOCK", "ISR_ENTER", "ISR_EXIT", "OBJECT_DESTROY"} :
          ~Doing(t, type)
    BY <1>1
  <2> QED BY <2>1 DEF Unhandled, LocalReject
<1> QED BY <1>2, <1>3, <1>4 DEF Step

(* The next lock or unlock of a thread on its track is in order, and at    *)
(* its end it holds nothing                                                *)
LEMMA NextIsInOrder ==
  ASSUME Typed, StacksMatchOwners, Balanced(scenario), NEW u \in Thread, OnTrack(u),
         NEW r \in Resource
  PROVE  /\ About(u, "MUTEX_LOCK", r) => owner[r] # u
         /\ About(u, "MUTEX_UNLOCK", r) => owner[r] = u /\ OwnedTopIs(u, r)
         /\ pc[u] >= StepCount(u) => owner[r] # u
<1> DEFINE stack == owned_mutex_stack[u]
<1>1. /\ Len(scenario.steps[u]) \in Nat /\ StepCount(u) = Len(scenario.steps[u])
      /\ pc[u] \in Nat /\ stack \in Seq(Resource)
  BY DEF Typed, ValidScenario, SchedOK, ModelOK, InheritOK, StepCount
<1>2. owner[r] = u <=> \E k \in 1 .. Len(stack) : stack[k] = r
  BY DEF StacksMatchOwners
<1>3. ASSUME pc[u] < StepCount(u)
      PROVE  /\ Pending(u).type = "MUTEX_LOCK" => Pending(u).resource_id \notin Range(stack)
             /\ Pending(u).type = "MUTEX_UNLOCK" =>
                  stack # <<>> /\ stack[Len(stack)] = Pending(u).resource_id
  <2>1. PICK i \in 1 .. Len(scenario.steps[u]) : i = pc[u] + 1 /\ i - 1 = pc[u]
    BY <1>1, <1>3
  <2>2. Held(scenario.steps[u])[i - 1] = stack /\ scenario.steps[u][i] = Pending(u)
    BY <2>1 DEF OnTrack, Pending
  <2> QED BY <2>2 DEF Balanced
<1>4. \A k \in 1 .. Len(stack) : stack[k] \in Range(stack)
  BY <1>1 DEF Range
<1>5. About(u, "MUTEX_LOCK", r) => owner[r] # u
  BY <1>2, <1>3, <1>4 DEF About
<1>6. ASSUME About(u, "MUTEX_UNLOCK", r)
      PROVE  owner[r] = u /\ OwnedTopIs(u, r)
  <2>1. stack # <<>> /\ stack[Len(stack)] = r
    BY <1>3, <1>6 DEF About
  <2>2. Len(stack) \in 1 .. Len(stack)
    BY <1>1, <2>1
  <2> QED BY <1>2, <2>1, <2>2 DEF OwnedTopIs
<1>7. ASSUME pc[u] >= StepCount(u)
      PROVE  owner[r] # u
  <2>1. pc[u] = Len(scenario.steps[u])
    BY <1>1, <1>7 DEF OnTrack
  <2>2. stack = <<>>
    BY <2>1 DEF OnTrack, Balanced
  <2> QED BY <1>2, <2>2
<1> QED BY <1>5, <1>6, <1>7

(* There is room for a thread in a queue it is not in *)
LEMMA RoomInQueue ==
  ASSUME NEW q \in Seq(Thread), NoRepeats(q), NEW t \in Thread,
         \A k \in 1 .. Len(q) : q[k] # t
  PROVE  Len(q) < MaxWaiters
<1> DEFINE n == Len(q) + 1
           f == [k \in 1 .. n |-> IF k = n THEN t ELSE q[k]]
<1>1. n \in Nat /\ f \in [1 .. n -> Thread]
  OBVIOUS
<1>2. \A j, k \in 1 .. n : f[j] = f[k] => j = k
  <2> SUFFICES ASSUME NEW j \in 1 .. n, NEW k \in 1 .. n, f[j] = f[k] PROVE j = k
    OBVIOUS
  <2>1. CASE j = n \/ k = n
    BY <2>1
  <2>2. CASE j # n /\ k # n
    BY <2>2 DEF NoRepeats
  <2> QED BY <2>1, <2>2
<1>3. f \in Injection(1 .. n, Thread)
  <2> HIDE DEF n, f
  <2> QED BY <1>1, <1>2 DEF Injection, IsInjective
<1>4. /\ IsFiniteSet(Thread) /\ Cardinality(Thread) = NThreads
      /\ IsFiniteSet(1 .. n) /\ Cardinality(1 .. n) = n
  BY <1>1, FS_Interval, SizeAssumption DEF Thread
<1>5. n <= NThreads
  <2> HIDE DEF n, f
  <2>1. Cardinality(1 .. n) <= Cardinality(Thread)
    BY <1>3, <1>4, FS_Injection
  <2> QED BY <1>4, <2>1
<1> QED BY <1>5, SizeAssumption

LEMMA CalmLock ==
  ASSUME Typed, Settled, StacksMatchOwners, Disciplined(scenario), Calm,
         NEW t \in Thread, OnTrack(t), state[t] = "READY", Lock(t)
  PROVE  /\ Target(t) \in OfType("MUTEX")
         /\ LockAcquire(t, Target(t)) \/ LockBlock(t, Target(t), 0)
<1> DEFINE r == Target(t)
<1>1. r \in OfType("MUTEX") /\ About(t, "MUTEX_LOCK", r)
  BY TypedCalls, DoingIsAbout DEF Disciplined, Lock, Settled
<1> HIDE DEF r
<1>2. owner[r] # t
  BY <1>1, NextIsInOrder DEF OfType, Disciplined
<1>3. Len(waiters[r]) < MaxWaiters
  <2>1. waiters[r] \in Seq(Thread) /\ NoRepeats(waiters[r])
    BY <1>1 DEF Typed, ModelOK, ObjectOK, OfType, Settled, ExactQueue
  <2>2. \A k \in 1 .. Len(waiters[r]) : waiters[r][k] # t
    BY <1>1 DEF OfType, Settled, ExactQueue, WaitsIn, BlockedStates
  <2> QED BY <2>1, <2>2, RoomInQueue
<1>4. Len(waiters[r]) \in Nat
  BY <1>1 DEF Typed, ModelOK, ObjectOK, OfType
<1>5. LockFault(t, r) = "none"
  BY <1>1, <1>2, <1>3, <1>4, SizeAssumption DEF LockFault, Calm, OfType
<1> QED BY <1>1, <1>5 DEF Lock, MutexLock, LockReject, Reject, r

LEMMA CalmUnlock ==
  ASSUME Typed, Settled, StacksMatchOwners, Disciplined(scenario), Calm,
         NEW t \in Thread, OnTrack(t), state[t] = "READY", Unlock(t)
  PROVE  /\ Target(t) \in OfType("MUTEX")
         /\ UnlockHandoff(t, Target(t)) \/ UnlockFree(t, Target(t))
<1> DEFINE r == Target(t)
<1>1. r \in OfType("MUTEX") /\ About(t, "MUTEX_UNLOCK", r)
  BY TypedCalls, DoingIsAbout DEF Disciplined, Unlock, Settled
<1> HIDE DEF r
<1>2. UnlockFault(t, r) = "none"
  BY <1>1, NextIsInOrder DEF UnlockFault, Calm, OfType, Disciplined
<1> QED BY <1>1, <1>2 DEF Unlock, MutexUnlock, UnlockReject, Reject, r

(* What a step leaves as it is, or moves one way only *)
StaysCalm ==
  /\ UNCHANGED <<fail, count, alive, ctxVars, stack_depth>>
  /\ \A r \in Resource \ OfType("MUTEX") : waiters'[r] = waiters[r]
  /\ \A u \in Thread : /\ pc'[u] >= pc[u]
                       /\ state'[u] = "DONE" => state[u] = "DONE" \/ pc[u] >= StepCount(u)

LEMMA CalmStep ==
  ASSUME Typed, Settled, StacksMatchOwners, Disciplined(scenario), Calm,
         \A u \in Thread : OnTrack(u), NEW t \in Thread, Step(t)
  PROVE  StaysCalm
<1>1. /\ SchedOK /\ NoTimers /\ state[t] = "READY"
      /\ TickedState = state /\ TickedPc = pc
  BY StepIsAwake, TimeStandsStill DEF Typed, Settled
<1>2. waiters \in [Resource -> Seq(Thread)]
  BY DEF Typed, ModelOK, ObjectOK
<1>3. ASSUME Advance(t)
      PROVE  \A u \in Thread : pc'[u] >= pc[u] /\ state'[u] = state[u]
  BY <1>1, <1>3 DEF Advance, SchedOK
<1>4. CASE Lock(t)
  <2>1. PICK r \in OfType("MUTEX") : LockAcquire(t, r) \/ LockBlock(t, r, 0)
    BY <1>1, <1>4, CalmLock
  <2>2. CASE LockAcquire(t, r)
    BY <1>3, <1>4, <2>2 DEF LockAcquire, Lock, ModelStep, StaysCalm, stackVars
  <2>3. CASE LockBlock(t, r, 0)
    <3>1. \A u \in Thread : pc'[u] >= pc[u] /\ (state'[u] = "DONE" => state[u] = "DONE")
      BY <1>1, <2>3 DEF LockBlock, Block, SchedOK
    <3>2. \A q \in Resource \ OfType("MUTEX") : waiters'[q] = waiters[q]
      BY <1>2, <2>1, <2>3 DEF LockBlock
    <3> QED BY <1>4, <2>3, <3>1, <3>2 DEF LockBlock, Lock, ModelStep, StaysCalm, stackVars
  <2> QED BY <2>1, <2>2, <2>3
<1>5. CASE Unlock(t)
  <2>1. PICK r \in OfType("MUTEX") : UnlockHandoff(t, r) \/ UnlockFree(t, r)
    BY <1>1, <1>5, CalmUnlock
  <2>2. CASE UnlockFree(t, r)
    BY <1>3, <1>5, <2>2 DEF UnlockFree, Unlock, ModelStep, StaysCalm, stackVars
  <2>3. CASE UnlockHandoff(t, r)
    <3>1. PICK i \in 1 .. Len(waiters[r]) :
            /\ waiters' = [waiters EXCEPT ![r] = WaiterRemove(@, i)]
            /\ WakeAndAdvance(t, {waiters[r][i]}, 1)
      BY <2>3 DEF UnlockHandoff
    <3>2. \A u \in Thread : pc'[u] >= pc[u] /\ (state'[u] = "DONE" => state[u] = "DONE")
      BY <1>1, <3>1 DEF WakeAndAdvance, SchedOK
    <3>3. \A q \in Resource \ OfType("MUTEX") : waiters'[q] = waiters[q]
      BY <1>2, <2>1, <3>1
    <3> QED BY <1>5, <2>3, <3>2, <3>3 DEF UnlockHandoff, Unlock, ModelStep, StaysCalm, stackVars
  <2> QED BY <2>1, <2>2, <2>3
<1>6. CASE Pause(t)
  BY <1>3, <1>6 DEF Pause, ModelUnchanged, modelVars, objectVars, stackVars, StaysCalm
<1>7. CASE ThreadEnd(t)
  <2>1. \A u \in Thread : /\ pc'[u] >= pc[u]
                          /\ state'[u] = "DONE" => state[u] = "DONE" \/ pc[u] >= StepCount(u)
    BY <1>1, <1>7 DEF ThreadEnd, SchedOK
  <2> QED BY <1>7, <2>1 DEF ThreadEnd, ModelUnchanged, modelVars, objectVars, stackVars,
                            StaysCalm
<1> QED BY <1>4, <1>5, <1>6, <1>7, DisciplinedSteps

CalmInv == Disciplined(scenario) => Calm

(* What is known of a scenario without mistakes *)
LEMMA CalmMeans ==
  ASSUME TypeOK, BlockedAreQueued, ExactInv, OnMutexInv, InheritInv, PendingInv, ReplayInv,
         CalmInv, Disciplined(scenario)
  PROVE  /\ Typed /\ Settled /\ Monotone /\ Calm
         /\ \A u \in Thread : OnTrack(u) /\ (state[u] \in BlockedStates => SleepsOver(u))
<1>1. Regular(scenario)
  BY DisciplinedIsRegular
<1>2. Typed /\ Settled /\ Monotone
  BY <1>1, RegularIsSettled DEF InheritInv
<1>3. Calm /\ fail = "none"
  BY DEF CalmInv, Calm
<1> QED BY <1>1, <1>2, <1>3 DEF PendingInv, ReplayInv, OnTrack, Regular

LEMMA CalmInvStep ==
  ASSUME TypeOK, BlockedAreQueued, StacksMatchOwners, ExactInv, OnMutexInv, InheritInv,
         PendingInv, ReplayInv, CalmInv, [Next]_vars
  PROVE  CalmInv'
<1>1. CASE Next
  <2>1. scenario' = scenario
    BY <1>1, StepKeepsScenario DEF Next, Runnable
  <2>2. Disciplined(scenario)' = Disciplined(scenario)
    BY <2>1
  <2>3. ASSUME Disciplined(scenario)
        PROVE  Calm'
    <3>1. Calm /\ StaysCalm
      BY <1>1, <2>3, CalmMeans, CalmStep DEF Next, Runnable
    <3>2. \A u \in Thread : /\ pc[u] \in Nat /\ pc'[u] \in Nat /\ StepCount(u) \in Nat
                           /\ StepCount(u)' = StepCount(u)
      <4>1. TypeOK'
        BY TypeStep
      <4>2. pc' \in [Thread -> Nat]
        BY <4>1 DEF TypeOK
      <4> QED BY <2>1, <4>2 DEF StepCount, TypeOK, ValidScenario
    <3>3. \A u \in Thread : state'[u] = "DONE" => pc'[u] >= StepCount(u)'
      BY <3>1, <3>2 DEF Calm, StaysCalm
    <3>4. \A r \in Resource : ResType(r)' # "MUTEX" => waiters'[r] = <<>>
      BY <2>1, <3>1 DEF Calm, StaysCalm, OfType, ResType
    <3> QED BY <2>1, <3>1, <3>3, <3>4 DEF Calm, StaysCalm, ctxVars
  <2> QED BY <2>2, <2>3 DEF CalmInv
<1>2. CASE UNCHANGED vars
  <2>1. Calm' = Calm /\ Disciplined(scenario)' = Disciplined(scenario)
    BY <1>2 DEF Calm, StepCount, ResType, vars, schedVars, ctxVars, stackVars, objectVars
  <2> QED BY <2>1 DEF CalmInv
<1> QED BY <1>1, <1>2

LEMMA CalmCorrect == Spec /\ FitsArrays(scenario) => []CalmInv
<1>1. Init /\ TypeOK => CalmInv
  <2> SUFFICES ASSUME Init, TypeOK PROVE Calm
    BY DEF CalmInv
  <2> QED BY DEF Init, Reset, Calm
<1>2. TypeOK /\ BlockedAreQueued /\ StacksMatchOwners /\ ExactInv /\ OnMutexInv /\ InheritInv
        /\ PendingInv /\ ReplayInv /\ CalmInv /\ [Next]_vars => CalmInv'
  BY CalmInvStep
<1> QED BY <1>1, <1>2, TypeCorrect, SleepersAreQueued, OwnersMatchStacks, ExactCorrect,
           OnMutexCorrect, InheritCorrect, PendingCorrect, ReplayCorrect, PTL DEF Spec

(* All the invariants together, for a scenario without mistakes: its       *)
(* engine is orderly as long as all it does is run threads.                *)
Invariants ==
  /\ BlockedAreQueued /\ StacksMatchOwners /\ ExactInv /\ OnMutexInv /\ InheritInv
  /\ PendingInv /\ ReplayInv /\ CalmInv

LEMMA OrderlyMeans == TypeOK /\ Invariants /\ Disciplined(scenario) => Orderly
<1> SUFFICES ASSUME TypeOK, Invariants, Disciplined(scenario)
             PROVE  Orderly
  OBVIOUS
<1>1. /\ TypeOK /\ BlockedAreQueued /\ StacksMatchOwners /\ ExactInv /\ OnMutexInv
      /\ InheritInv /\ PendingInv /\ ReplayInv /\ CalmInv
  BY DEF Invariants
<1>2. /\ Settled /\ Monotone /\ Calm
      /\ \A u \in Thread : OnTrack(u) /\ (state[u] \in BlockedStates => SleepsOver(u))
  BY <1>1, CalmMeans
<1>3. \A u \in Thread : Witnessed(u)
  BY <1>1, DisciplinedIsRegular DEF InheritInv
<1> QED BY <1>1, <1>2, <1>3 DEF Orderly

LEMMA OrderlyParts ==
  ASSUME TypeOK, Disciplined(scenario), Orderly
  PROVE  Typed /\ Regular(scenario) /\ Invariants
<1>1. Typed /\ Regular(scenario)
  BY TypeOKParts, DisciplinedIsRegular DEF Typed
<1>2. BlockedAreQueued /\ StacksMatchOwners
  BY DEF Orderly, Settled
<1>3. ExactInv /\ OnMutexInv
  BY DEF Orderly, Settled, ExactInv, OnMutexInv
<1>4. InheritInv
  BY DEF Orderly, Settled, InheritInv
<1>5. PendingInv /\ ReplayInv
  BY DEF Orderly, OnTrack, PendingInv, ReplayInv
<1>6. CalmInv
  BY DEF Orderly, CalmInv
<1> QED BY <1>1, <1>2, <1>3, <1>4, <1>5, <1>6 DEF Invariants

LEMMA OrderlyMeansNext ==
  TypeOK' /\ Invariants' /\ Disciplined(scenario)' => Orderly'
  BY OrderlyMeans, PTL

LEMMA OrderlyStep ==
  ASSUME TypeOK, Disciplined(scenario), Orderly, [Next]_vars
  PROVE  Orderly'
<1>1. Invariants
  BY OrderlyParts
<1>2. /\ BlockedAreQueued /\ StacksMatchOwners /\ ExactInv /\ OnMutexInv /\ InheritInv
      /\ PendingInv /\ ReplayInv /\ CalmInv
  BY <1>1 DEF Invariants
<1>3. BlockedAreQueued' /\ StacksMatchOwners' /\ ExactInv' /\ OnMutexInv'
  BY <1>2, QueuedStep, MatchedStep, ExactStep, OnMutexStep
<1>4. InheritInv' /\ PendingInv'
  BY <1>2, InheritStep, PendingStep
<1>5. ReplayInv'
  BY <1>2, TrackStep
<1>6. CalmInv'
  BY <1>2, CalmInvStep
<1>7. Invariants'
  BY <1>3, <1>4, <1>5, <1>6 DEF Invariants
<1>8. TypeOK'
  BY TypeStep
<1>9. Disciplined(scenario)'
  <2>1. scenario' = scenario
    BY StepKeepsScenario DEF Next, Runnable, vars
  <2> QED BY <2>1
<1> QED BY <1>7, <1>8, <1>9, OrderlyMeansNext

LEMMA InitOrderly == Init /\ TypeOK /\ Disciplined(scenario) => Orderly
<1> SUFFICES ASSUME Init, TypeOK, Disciplined(scenario)
             PROVE  Orderly
  OBVIOUS
<1>1. /\ \A u \in Thread : /\ state[u] = "READY" /\ pc[u] = 0
                            /\ timeout_ticks[u] = NoTimeout
                            /\ owned_mutex_stack[u] = <<>>
                            /\ priority[u] = BasePriority(u)
      /\ \A r \in Resource : owner[r] = NoThread /\ waiters[r] = <<>>
  BY DEF Init, Reset, TypeOK, ValidScenario, BasePriority
<1>2. BlockedAreQueued /\ StacksMatchOwners
  BY <1>1 DEF BlockedAreQueued, BlockedStates, StacksMatchOwners, Thread, NoThread
<1>3. ExactInv /\ OnMutexInv
  BY <1>1, ExactInit DEF OnMutexInv, OnMutex
<1>4. InheritInv
  BY InheritInit, TypeOKParts
<1>5. PendingInv /\ ReplayInv
  <2>1. \A u \in Thread : StepCount(u) \in Nat
    BY DEF TypeOK, ValidScenario, StepCount
  <2> QED BY <1>1, <2>1, NextHeld DEF PendingInv, ReplayInv, BlockedStates
<1>6. CalmInv
  BY DEF Init, Reset, CalmInv, Calm
<1>7. Invariants
  BY <1>2, <1>3, <1>4, <1>5, <1>6 DEF Invariants
<1> QED BY <1>7, OrderlyMeans

LEMMA OrderlyCorrect == Spec /\ FitsArrays(scenario) => [](Disciplined(scenario) => Orderly)
<1>1. TypeOK /\ BlockedAreQueued /\ StacksMatchOwners /\ ExactInv /\ OnMutexInv /\ InheritInv
        /\ PendingInv /\ ReplayInv /\ CalmInv => (Disciplined(scenario) => Orderly)
  BY OrderlyMeans DEF Invariants
<1> QED BY <1>1, TypeCorrect, SleepersAreQueued, OwnersMatchStacks, ExactCorrect,
           OnMutexCorrect, InheritCorrect, PendingCorrect, ReplayCorrect, CalmCorrect, PTL

(* When threads that make no mistake stop, each one that sleeps waits for  *)
(* another that sleeps.                                                    *)
Stuck == {u \in Thread : state[u] \in BlockedStates}

LEMMA StuckBehindStuck ==
  ASSUME Typed, Settled, StacksMatchOwners, Disciplined(scenario), Calm, Runnable = {},
         \A v \in Thread : OnTrack(v) /\ (state[v] \in BlockedStates => SleepsOver(v)),
         NEW u \in Stuck
  PROVE  /\ blocked_on[u] \in OfType("MUTEX")
         /\ About(u, "MUTEX_LOCK", blocked_on[u])
         /\ \E v \in Stuck : owner[blocked_on[u]] = v /\ WaitsFor(u, v)
<1> DEFINE r == blocked_on[u]
<1>1. u \in Thread /\ state[u] \in BlockedStates /\ SleepsOver(u)
  BY DEF Stuck
<1>2. r \in Resource /\ u \in QueuedOn(r)
  BY <1>1 DEF Settled, BlockedAreQueued
<1>3. waiters[r] # <<>>
  BY <1>2 DEF QueuedOn
<1>4. r \in OfType("MUTEX")
  BY <1>2, <1>3 DEF Calm, OfType
<1>5. About(u, "MUTEX_LOCK", r)
  <2>1. WaitKind(Pending(u).type) = "MUTEX"
    BY <1>1, <1>4 DEF SleepsOver, OfType
  <2>2. Pending(u).type = "MUTEX_LOCK"
    BY <2>1 DEF WaitKind
  <2> QED BY <1>1, <2>2 DEF SleepsOver, About
<1> DEFINE v == owner[r]
<1>6. v \in Thread /\ v # u
  <2>1. v # NoThread
    BY <1>3, <1>4 DEF Settled, FreeMutexesIdle
  <2>2. v # u
    BY <1>1, <1>2, <1>5, NextIsInOrder DEF Disciplined
  <2> QED BY <1>2, <2>1, <2>2 DEF Typed, ModelOK, ObjectOK
<1>7. state[v] \in BlockedStates
  <2>1. state[v] # "READY"
    BY <1>6 DEF Runnable
  <2>2. state[v] # "DONE"
    BY <1>2, <1>6, NextIsInOrder DEF Calm, Disciplined
  <2>3. state[v] \in ThreadStates
    BY <1>6 DEF Typed, SchedOK
  <2> QED BY <2>1, <2>2, <2>3 DEF ThreadStates
<1>8. state[u] = "BLOCKED_MUTEX"
  BY <1>1, <1>4 DEF Settled, OffMutex, BlockedStates
<1>9. v \in Stuck /\ WaitsFor(u, v)
  BY <1>2, <1>6, <1>7, <1>8 DEF Stuck, WaitsFor
<1> QED BY <1>4, <1>5, <1>9

LEMMA DeadlockMeans ==
  ASSUME Typed, ~NoDeadlock, Calm
  PROVE  Runnable = {} /\ Stuck # {}
<1>1. PICK u \in Thread : state[u] # "DONE"
  BY DEF NoDeadlock, AllDone
<1>2. Runnable = {}
  BY DEF NoDeadlock
<1>3. state[u] \in BlockedStates
  BY <1>1, <1>2 DEF Runnable, Typed, SchedOK, ThreadStates
<1> QED BY <1>2, <1>3 DEF Stuck

LEMMA CircleToBlame ==
  ASSUME TypeOK, Disciplined(scenario) => Orderly
  PROVE  DeadlockIsCircular
<1> SUFFICES ASSUME Disciplined(scenario), ~NoDeadlock
             PROVE  ~NoCircularWait
  BY DEF DeadlockIsCircular
<1>1. /\ Typed /\ Settled /\ StacksMatchOwners /\ Calm
      /\ \A u \in Thread : OnTrack(u) /\ (state[u] \in BlockedStates => SleepsOver(u))
  BY TypeOKParts DEF Orderly, Typed
<1>2. Runnable = {} /\ Stuck # {}
  BY <1>1, DeadlockMeans
<1>3. Entangled(Stuck)
  BY <1>1, <1>2, StuckBehindStuck DEF Entangled
<1> QED BY <1>2, <1>3 DEF NoCircularWait, Stuck

(* The explorer finds a cycle to blame for every deadlock of threads that  *)
(* release what they lock.                                                 *)
THEOREM DeadlocksAreCircular == Spec /\ FitsArrays(scenario) => []DeadlockIsCircular
<1>1. TypeOK /\ (Disciplined(scenario) => Orderly) => DeadlockIsCircular
  BY CircleToBlame
<1> QED BY <1>1, TypeCorrect, OrderlyCorrect, PTL

(* A program that takes its mutexes in one order never deadlocks.          *)
OrderedNeverStuck == Disciplined(scenario) /\ Ordered(scenario) => NoDeadlock

(* Whoever is about to lock r holds lower mutexes only *)
LEMMA HoldsLower ==
  ASSUME Typed, StacksMatchOwners, Ordered(scenario), NEW u \in Thread, OnTrack(u),
         NEW r \in Resource, About(u, "MUTEX_LOCK", r), NEW m \in Resource, owner[m] = u
  PROVE  m < r
<1> DEFINE stack == owned_mutex_stack[u]
<1>1. PICK k \in 1 .. Len(stack) : stack[k] = m
  BY DEF StacksMatchOwners
<1>2. Len(scenario.steps[u]) \in Nat /\ pc[u] \in Nat
  BY DEF Typed, ValidScenario, SchedOK
<1>3. PICK i \in 1 .. Len(scenario.steps[u]) : i = pc[u] + 1 /\ i - 1 = pc[u]
  BY <1>2 DEF About, StepCount
<1>4. Held(scenario.steps[u])[i - 1] = stack /\ scenario.steps[u][i] = Pending(u)
  BY <1>3 DEF OnTrack, Pending
<1> QED BY <1>1, <1>4 DEF Ordered, About

LEMMA NeverStuck ==
  ASSUME TypeOK, Disciplined(scenario) => Orderly
  PROVE  OrderedNeverStuck
<1> SUFFICES ASSUME Disciplined(scenario), Ordered(scenario), ~NoDeadlock
             PROVE  FALSE
  BY DEF OrderedNeverStuck
<1>1. /\ Typed /\ Settled /\ StacksMatchOwners /\ Calm
      /\ \A u \in Thread : OnTrack(u) /\ (state[u] \in BlockedStates => SleepsOver(u))
  BY TypeOKParts DEF Orderly, Typed
<1>2. Runnable = {} /\ Stuck # {}
  BY <1>1, DeadlockMeans
<1>3. \A u \in Stuck : /\ blocked_on[u] \in OfType("MUTEX")
                       /\ About(u, "MUTEX_LOCK", blocked_on[u])
                       /\ \E v \in Stuck : owner[blocked_on[u]] = v
  BY <1>1, <1>2, StuckBehindStuck
<1> DEFINE Left == {NResources - blocked_on[u] : u \in Stuck}
<1>4. Left \in SUBSET Nat /\ Left # {}
  BY <1>2, <1>3, SizeAssumption DEF OfType, Resource
<1>5. PICK n \in Left : \A m \in Left : n <= m
  <2> HIDE DEF Left
  <2> QED BY <1>4, LeastNumber
<1>6. PICK u \in Stuck : n = NResources - blocked_on[u]
  BY <1>5
<1>7. PICK v \in Stuck : owner[blocked_on[u]] = v
  BY <1>3
<1>8. blocked_on[u] < blocked_on[v]
  BY <1>1, <1>3, <1>7, HoldsLower DEF OfType, Stuck
<1>9. NResources - blocked_on[u] <= NResources - blocked_on[v]
  BY <1>5, <1>6
<1> QED BY <1>3, <1>8, <1>9, SizeAssumption DEF OfType, Resource

(* Lock ordering prevents deadlock: the thread stuck on the last mutex     *)
(* anyone is stuck on waits for a thread stuck on a later one.             *)
THEOREM LockOrderSuffices == Spec /\ FitsArrays(scenario) => []OrderedNeverStuck
<1>1. TypeOK /\ (Disciplined(scenario) => Orderly) => OrderedNeverStuck
  BY NeverStuck
<1> QED BY <1>1, TypeCorrect, OrderlyCorrect, PTL

LEMMA NoAlarm ==
  ASSUME TypeOK, Disciplined(scenario) => Orderly
  PROVE  NoFalseAlarm
<1> SUFFICES ASSUME Disciplined(scenario),
                    \A r \in OfType("SEMAPHORE") : scenario.sem_init[r] >= 0
             PROVE  fail = "none" /\ CheckAll
  BY DEF NoFalseAlarm, Violation
<1>1. /\ Typed /\ Settled /\ StacksMatchOwners /\ Monotone /\ Calm
      /\ \A u \in Thread : OnTrack(u)
  BY TypeOKParts DEF Orderly, Typed
<1>2. \A r \in Resource : Len(waiters[r]) <= MaxWaiters /\ QueuedOn(r) \subseteq Thread
                          /\ owner[r] \in Thread \cup {NoThread}
  BY <1>1, QueuedAreThreads DEF Typed, ModelOK, ObjectOK
<1>3. MutexIntegrity
  <2>1. ASSUME NEW r \in OfType("MUTEX"), owner[r] # NoThread
        PROVE  state[owner[r]] # "DONE"
    BY <1>1, <1>2, <2>1, NextIsInOrder DEF OfType, Calm, Disciplined
  <2>2. \A r \in OfType("MUTEX") : \A w \in QueuedOn(r) : state[w] = "BLOCKED_MUTEX"
    BY <1>1, <1>2, MutexQueue DEF OfType
  <2>3. \A r \in OfType("MUTEX") : owner[r] = NoThread => waiters[r] = <<>>
    BY <1>1 DEF Settled, FreeMutexesIdle
  <2> QED BY <1>2, <2>1, <2>2, <2>3 DEF MutexIntegrity, OfType
<1>4. SemIntegrity
  <2>1. \A r \in OfType("SEMAPHORE") : /\ count[r] >= 0 /\ waiters[r] = <<>>
                                       /\ QueuedOn(r) = {} /\ Len(waiters[r]) <= MaxWaiters
    BY <1>1, <1>2 DEF Calm, OfType, QueuedOn
  <2> QED BY <2>1 DEF SemIntegrity
<1>5. OwnedMutexIntegrity
  BY <1>1 DEF OwnedMutexIntegrity, StacksMatchOwners, Typed, ModelOK, InheritOK
<1>6. NoPriorityInversion
  <2> SUFFICES ASSUME NEW r \in OfType("MUTEX"), owner[r] # NoThread,
                      NEW w \in QueuedOn(r)
               PROVE  priority[w] <= priority[owner[r]]
    BY DEF NoPriorityInversion
  <2>1. w \in Thread /\ owner[r] \in Thread
    BY <1>2 DEF OfType
  <2>2. owner[r] # w => WaitsFor(w, owner[r])
    BY <1>1, <2>1, WaitsForOwner
  <2>3. priority[w] \in Int
    BY <1>1, <2>1 DEF Typed, ModelOK, InheritOK
  <2> QED BY <1>1, <2>1, <2>2, <2>3 DEF Monotone
<1>7. ContextSafety /\ StackDepth
  BY <1>1 DEF ContextSafety, StackDepth, Calm, Typed, ValidScenario
<1> QED BY <1>1, <1>3, <1>4, <1>5, <1>6, <1>7 DEF CheckAll, Calm

(* The checks the explorer makes after every step never report a scenario  *)
(* without mistakes.                                                       *)
THEOREM AlarmsAreTrue == Spec /\ FitsArrays(scenario) => []NoFalseAlarm
<1>1. TypeOK /\ (Disciplined(scenario) => Orderly) => NoFalseAlarm
  BY NoAlarm
<1> QED BY <1>1, TypeCorrect, OrderlyCorrect, PTL
=============================================================================
