---------------------------- MODULE ChibiosModel ----------------------------
(***************************************************************************)
(* The ChibiOS primitives of chibios_model.c: mutexes with priority        *)
(* inheritance, semaphores, condition variables and mailboxes.             *)
(*                                                                         *)
(* Each operator is one call made by thread t from smash_execute_step.  It *)
(* says how the scheduling, inheritance, object and mailbox variables and  *)
(* fail change; the pc increment of the caller is part of it.  A call that *)
(* breaks a rule sets fail to the first check it does not pass.            *)
(***************************************************************************)
EXTENDS Kernel

modelVars == <<inheritVars, objectVars, mailboxVars>>

(* The threads in a wait queue *)
QueuedOn(r) == {waiters[r][i] : i \in 1 .. Len(waiters[r])}

(* waiter_remove: the last entry takes the place of the removed one *)
WaiterRemove_DropsLast(q, i) == SubSeq(q, 1, Len(q) - 1)
WaiterRemove_Keeps(q, i) == q
WaiterRemove(q, i) ==
  [k \in 1 .. Len(q) - 1 |-> IF k = i THEN q[Len(q)] ELSE q[k]]

(* The position the selection loops end at: the first of the waiters with  *)
(* the highest priority.                                                   *)
IsBest_Fifo(q, prio, i) == i = 1
IsBest(q, prio, i) ==
  /\ i \in 1 .. Len(q)
  /\ \A k \in 1 .. Len(q) : prio[q[k]] <= prio[q[i]]
  /\ \A k \in 1 .. i - 1 : prio[q[k]] < prio[q[i]]

(* owned_push drops the mutex when the stack is full *)
OwnedPush_AtBottom(s, r) == IF Len(s) < MaxOwned THEN <<r>> \o s ELSE s
OwnedPush(s, r) == IF Len(s) < MaxOwned THEN Append(s, r) ELSE s

(* owned_pop succeeds only on the top of the stack *)
OwnedTopIs(t, r) ==
  LET s == owned_mutex_stack[t] IN Len(s) > 0 /\ s[Len(s)] = r
OwnedPop(s) == SubSeq(s, 1, Len(s) - 1)

(* The call fails: it returns with engine->failed set *)
Reject(reason) ==
  /\ reason # "none"
  /\ fail' = reason
  /\ UNCHANGED modelVars

-----------------------------------------------------------------------------
(* Mutexes *)

(* The owner of the mutex u is blocked on: the next hop of the boost loop *)
NextOwner_OneHop(u) == NoThread
NextOwner(u) ==
  IF TickedState[u] = "BLOCKED_MUTEX" /\ TickedBlockedOn[u] \in Resource
  THEN owner[TickedBlockedOn[u]]
  ELSE NoThread

(* The threads the boost loop raises to p when it starts at thread first:  *)
(* the least set with first, and with the next hop of each of its members, *)
(* as long as these have a priority below p.                               *)
ClosedUnderBoost(B, first, p) ==
  \A u \in Thread :
    priority[u] < p /\ (u = first \/ \E v \in B : u = NextOwner(v)) => u \in B
Boosted(first, p) ==
  {u \in Thread : \A B \in SUBSET Thread :
                    ClosedUnderBoost(B, first, p) => u \in B}

LockFault(t, r) ==
  IF ~alive[r] THEN "use_after_free"
  ELSE IF exec_ctx[t] # "THREAD" THEN "context"
  ELSE IF owner[r] = t THEN "relock"
  ELSE IF owner[r] # NoThread /\ Len(waiters[r]) >= MaxWaiters
       THEN "queue_overflow"
  ELSE "none"

(* smash_mutex_lock: the mutex is free, *)
LockAcquire(t, r) ==
  /\ LockFault(t, r) = "none"
  /\ owner[r] = NoThread
  /\ owner' = [owner EXCEPT ![r] = t]
  /\ owned_mutex_stack' = [owned_mutex_stack EXCEPT ![t] = OwnedPush(@, r)]
  /\ Advance(t)
  /\ UNCHANGED <<priority, count, waiters, mailboxVars, fail>>

(* or t queues up and boosts the chain of owners it now waits for *)
LockBlock(t, r, ticks) ==
  /\ LockFault(t, r) = "none"
  /\ owner[r] # NoThread
  /\ waiters' = [waiters EXCEPT ![r] = Append(@, t)]
  /\ Block(t, r, "BLOCKED_MUTEX", ticks)
  /\ priority' = [u \in Thread |-> IF u \in Boosted(owner[r], priority[t])
                                   THEN priority[t] ELSE priority[u]]
  /\ UNCHANGED <<owned_mutex_stack, owner, count, mailboxVars, fail>>

LockReject(t, r) == Reject(LockFault(t, r)) /\ Stay

MutexLock_AlwaysTimed(t, r, ticks) ==
  LockAcquire(t, r) \/ LockReject(t, r)
    \/ LockBlock(t, r, IF ticks > 0 THEN ticks ELSE 3)
MutexLock(t, r, ticks) ==
  LockAcquire(t, r) \/ LockBlock(t, r, ticks) \/ LockReject(t, r)

UnlockFault_Lifeless(t, r) ==
  IF owner[r] # t THEN "not_owner"
  ELSE IF ~OwnedTopIs(t, r) THEN "lifo"
  ELSE "none"

UnlockFault(t, r) ==
  IF ~alive[r] THEN "use_after_free"
  ELSE IF owner[r] # t THEN "not_owner"
  ELSE IF ~OwnedTopIs(t, r) THEN "lifo"
  ELSE "none"

(* What recalc_priority takes the maximum of *)
PriorityClaims_WithReleased(t, released) ==
  {BasePriority(t)} \cup
  UNION {{priority[w] : w \in QueuedOn(m)} :
           m \in {q \in Resource : ResType(q) = "MUTEX" /\ owner[q] = t}}

PriorityClaims(t, released) ==
  {BasePriority(t)} \cup
  UNION {{priority[w] : w \in QueuedOn(m)} :
           m \in {q \in Resource : /\ q # released
                                   /\ ResType(q) = "MUTEX"
                                   /\ owner[q] = t}}
RecalcPriority(t, released) ==
  \E p \in PriorityClaims(t, released) :
    /\ \A q \in PriorityClaims(t, released) : q <= p
    /\ priority' = [priority EXCEPT ![t] = p]

(* smash_mutex_unlock: ownership goes straight to the best waiter, *)
UnlockHandoff_ForgetsWaiters(t, r) ==
  /\ UnlockFault(t, r) = "none"
  /\ RecalcPriority(t, r)
  /\ waiters[r] # <<>>
  /\ owner' = [owner EXCEPT ![r] = NoThread]
  /\ owned_mutex_stack' = [owned_mutex_stack EXCEPT ![t] = OwnedPop(@)]
  /\ Advance(t)
  /\ UNCHANGED <<count, waiters, mailboxVars, fail>>

UnlockHandoff(t, r) ==
  /\ UnlockFault(t, r) = "none"
  /\ RecalcPriority(t, r)
  /\ \E i \in 1 .. Len(waiters[r]) :
       LET w == waiters[r][i] IN
       /\ IsBest(waiters[r], priority', i)
       /\ waiters' = [waiters EXCEPT ![r] = WaiterRemove(@, i)]
       /\ owner' = [owner EXCEPT ![r] = w]
       /\ owned_mutex_stack' =
            [[owned_mutex_stack EXCEPT ![t] = OwnedPop(@)]
               EXCEPT ![w] = OwnedPush(@, r)]
       /\ WakeAndAdvance(t, {w}, 1)
  /\ UNCHANGED <<count, mailboxVars, fail>>

(* or nobody waits and the mutex is free again *)
UnlockFree(t, r) ==
  /\ UnlockFault(t, r) = "none"
  /\ RecalcPriority(t, r)
  /\ waiters[r] = <<>>
  /\ owner' = [owner EXCEPT ![r] = NoThread]
  /\ owned_mutex_stack' = [owned_mutex_stack EXCEPT ![t] = OwnedPop(@)]
  /\ Advance(t)
  /\ UNCHANGED <<count, waiters, mailboxVars, fail>>

(* the caller increments the pc even when the unlock is refused *)
UnlockReject(t, r) == Reject(UnlockFault(t, r)) /\ Advance(t)

MutexUnlock(t, r) ==
  UnlockHandoff(t, r) \/ UnlockFree(t, r) \/ UnlockReject(t, r)

-----------------------------------------------------------------------------
(* Semaphores *)

SemWaitFault(t, r) ==
  IF ~alive[r] THEN "use_after_free"
  ELSE IF exec_ctx[t] # "THREAD" THEN "context"
  ELSE IF count[r] <= 0 /\ Len(waiters[r]) >= MaxWaiters
       THEN "queue_overflow"
  ELSE "none"

(* smash_sem_wait *)
SemTake(t, r) ==
  /\ SemWaitFault(t, r) = "none"
  /\ count[r] > 0
  /\ count' = [count EXCEPT ![r] = @ - 1]
  /\ Advance(t)
  /\ UNCHANGED <<inheritVars, owner, waiters, mailboxVars, fail>>

SemBlock(t, r, ticks) ==
  /\ SemWaitFault(t, r) = "none"
  /\ count[r] <= 0
  /\ waiters' = [waiters EXCEPT ![r] = Append(@, t)]
  /\ Block(t, r, "BLOCKED_SEM", ticks)
  /\ UNCHANGED <<inheritVars, owner, count, mailboxVars, fail>>

SemWaitReject(t, r) == Reject(SemWaitFault(t, r)) /\ Stay

SemWait(t, r, ticks) ==
  SemTake(t, r) \/ SemBlock(t, r, ticks) \/ SemWaitReject(t, r)

(* smash_sem_signal: a waiter takes the signal without touching the count; *)
(* its second wake-up branch is dead code, the first one returns.          *)
SemWake_NoReturn(t, r) ==
  /\ alive[r]
  /\ \E i \in 1 .. Len(waiters[r]) :
       /\ IsBest(waiters[r], priority, i)
       /\ waiters' = [waiters EXCEPT ![r] = WaiterRemove(@, i)]
       /\ WakeAndAdvance(t, {waiters[r][i]}, 1)
  /\ count' = [count EXCEPT ![r] = @ + 1]
  /\ UNCHANGED <<inheritVars, owner, mailboxVars, fail>>

SemWake(t, r) ==
  /\ alive[r]
  /\ \E i \in 1 .. Len(waiters[r]) :
       /\ IsBest(waiters[r], priority, i)
       /\ waiters' = [waiters EXCEPT ![r] = WaiterRemove(@, i)]
       /\ WakeAndAdvance(t, {waiters[r][i]}, 1)
  /\ UNCHANGED <<inheritVars, owner, count, mailboxVars, fail>>

SemPost(t, r) ==
  /\ alive[r]
  /\ waiters[r] = <<>>
  /\ count' = [count EXCEPT ![r] = @ + 1]
  /\ Advance(t)
  /\ UNCHANGED <<inheritVars, owner, waiters, mailboxVars, fail>>

SemSignalReject(t, r) ==
  Reject(IF alive[r] THEN "none" ELSE "use_after_free") /\ Advance(t)

SemSignal(t, r) == SemWake(t, r) \/ SemPost(t, r) \/ SemSignalReject(t, r)

-----------------------------------------------------------------------------
(* Condition variables: none of the calls looks at alive or exec_ctx *)

CondWaitFault(t, c) ==
  LET m == scenario.associated_mutex[c] IN
  IF ResType(c) # "CONDVAR" THEN "not_condvar"
  ELSE IF m \notin Resource THEN "bad_associated_mutex"
  ELSE IF owner[m] # t THEN "cond_not_owner"
  ELSE IF ~OwnedTopIs(t, m) THEN "lifo"
  ELSE "none"

CondWaitReject(t, c) == Reject(CondWaitFault(t, c)) /\ Stay

(* smash_cond_wait: the mutex is set free, whoever queues for it; then the *)
(* thread blocks, unless the queue of the condition variable is full.      *)
CondRelease_NoPop(t, c) ==
  LET m == scenario.associated_mutex[c] IN
  /\ CondWaitFault(t, c) = "none"
  /\ owner' = [owner EXCEPT ![m] = NoThread]
  /\ UNCHANGED <<inheritVars, count, mailboxVars>>

CondRelease(t, c) ==
  LET m == scenario.associated_mutex[c] IN
  /\ CondWaitFault(t, c) = "none"
  /\ owner' = [owner EXCEPT ![m] = NoThread]
  /\ owned_mutex_stack' = [owned_mutex_stack EXCEPT ![t] = OwnedPop(@)]
  /\ UNCHANGED <<priority, count, mailboxVars>>

CondBlock(t, c) ==
  /\ CondRelease(t, c)
  /\ Len(waiters[c]) < MaxWaiters
  /\ waiters' = [waiters EXCEPT ![c] = Append(@, t)]
  /\ Block(t, c, "BLOCKED_MUTEX", 0)
  /\ UNCHANGED fail

CondOverflow(t, c) ==
  /\ CondRelease(t, c)
  /\ Len(waiters[c]) >= MaxWaiters
  /\ fail' = "queue_overflow"
  /\ Stay
  /\ UNCHANGED waiters

CondWait(t, c) == CondBlock(t, c) \/ CondOverflow(t, c) \/ CondWaitReject(t, c)

(* smash_cond_signal: the woken thread keeps its pc, so it will repeat its *)
(* wait; without a waiter the signal is lost.                              *)
CondWake(t, c) ==
  /\ ResType(c) = "CONDVAR"
  /\ \E i \in 1 .. Len(waiters[c]) :
       /\ IsBest(waiters[c], priority, i)
       /\ waiters' = [waiters EXCEPT ![c] = WaiterRemove(@, i)]
       /\ WakeAndAdvance(t, {waiters[c][i]}, 0)
  /\ UNCHANGED <<inheritVars, owner, count, mailboxVars, fail>>

CondLost(t, c) ==
  /\ ResType(c) = "CONDVAR"
  /\ waiters[c] = <<>>
  /\ Advance(t)
  /\ UNCHANGED <<modelVars, fail>>

CondSignalReject(t, c) ==
  Reject(IF ResType(c) = "CONDVAR" THEN "none" ELSE "not_condvar") /\ Advance(t)

CondSignal(t, c) == CondWake(t, c) \/ CondLost(t, c) \/ CondSignalReject(t, c)

(* smash_cond_broadcast *)
CondWakeAll(t, c) ==
  /\ ResType(c) = "CONDVAR"
  /\ waiters' = [waiters EXCEPT ![c] = <<>>]
  /\ WakeAndAdvance(t, QueuedOn(c), 0)
  /\ UNCHANGED <<inheritVars, owner, count, mailboxVars, fail>>

CondBroadcast(t, c) == CondWakeAll(t, c) \/ CondSignalReject(t, c)

-----------------------------------------------------------------------------
(* Mailboxes: a ring of mb_capacity slots.  Senders and receivers block in *)
(* the same queue, with the same state and no record of their message.     *)

MbFault(r, blocks) ==
  IF ResType(r) # "MAILBOX" THEN "not_mailbox"
  ELSE IF blocks /\ Len(waiters[r]) >= MaxWaiters THEN "queue_overflow"
  ELSE "none"

MbFull(r) == mb_count[r] >= scenario.mb_capacity[r]
MbEmpty(r) == mb_count[r] = 0

MbReject(r, blocks) == Reject(MbFault(r, blocks)) /\ Stay

MbBlock(t, r, blocks) ==
  /\ MbFault(r, blocks) = "none"
  /\ blocks
  /\ waiters' = [waiters EXCEPT ![r] = Append(@, t)]
  /\ Block(t, r, "BLOCKED_SEM", 0)
  /\ UNCHANGED <<inheritVars, owner, count, mailboxVars, fail>>

(* smash_mb_post; no waiting receiver is woken *)
MbAppend(t, r, msg) ==
  /\ MbFault(r, MbFull(r)) = "none"
  /\ ~MbFull(r)
  /\ mb_messages' = [mb_messages EXCEPT ![r][mb_tail[r]] = msg]
  /\ mb_tail' = [mb_tail EXCEPT ![r] = (@ + 1) % scenario.mb_capacity[r]]
  /\ mb_count' = [mb_count EXCEPT ![r] = @ + 1]
  /\ Advance(t)
  /\ UNCHANGED <<inheritVars, objectVars, mb_head, fail>>

MbPost(t, r, msg) ==
  MbAppend(t, r, msg) \/ MbBlock(t, r, MbFull(r)) \/ MbReject(r, MbFull(r))

(* smash_mb_post_front *)
MbPrepend_AtBack(t, r, msg) == MbAppend(t, r, msg)

MbPrepend(t, r, msg) ==
  LET cap == scenario.mb_capacity[r]
      h == (mb_head[r] - 1 + cap) % cap
  IN
  /\ MbFault(r, MbFull(r)) = "none"
  /\ ~MbFull(r)
  /\ mb_head' = [mb_head EXCEPT ![r] = h]
  /\ mb_messages' = [mb_messages EXCEPT ![r][h] = msg]
  /\ mb_count' = [mb_count EXCEPT ![r] = @ + 1]
  /\ Advance(t)
  /\ UNCHANGED <<inheritVars, objectVars, mb_tail, fail>>

MbPostFront(t, r, msg) ==
  MbPrepend(t, r, msg) \/ MbBlock(t, r, MbFull(r)) \/ MbReject(r, MbFull(r))

(* smash_mb_fetch: the message at the head, and the first thread in the    *)
(* queue, if any, is made runnable to repeat its call.                     *)
MbTake_WakesNobody(t, r) ==
  /\ MbFault(r, MbEmpty(r)) = "none"
  /\ ~MbEmpty(r)
  /\ mb_head' = [mb_head EXCEPT ![r] = (@ + 1) % scenario.mb_capacity[r]]
  /\ mb_count' = [mb_count EXCEPT ![r] = @ - 1]
  /\ Advance(t)
  /\ UNCHANGED <<inheritVars, objectVars, mb_messages, mb_tail, fail>>

MbTake(t, r) ==
  /\ MbFault(r, MbEmpty(r)) = "none"
  /\ ~MbEmpty(r)
  /\ mb_head' = [mb_head EXCEPT ![r] = (@ + 1) % scenario.mb_capacity[r]]
  /\ mb_count' = [mb_count EXCEPT ![r] = @ - 1]
  /\ waiters' = [waiters EXCEPT ![r] = IF @ = <<>> THEN @ ELSE WaiterRemove(@, 1)]
  /\ WakeAndAdvance(t, {waiters[r][i] : i \in {1} \cap (1 .. Len(waiters[r]))}, 0)
  /\ UNCHANGED <<inheritVars, owner, count, mb_messages, mb_tail, fail>>

MbFetch(t, r) == MbTake(t, r) \/ MbBlock(t, r, MbEmpty(r)) \/ MbReject(r, MbEmpty(r))
=============================================================================
