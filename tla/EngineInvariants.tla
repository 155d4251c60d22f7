-------------------------- MODULE EngineInvariants --------------------------
(***************************************************************************)
(* What keeps the properties of the engine true from step to step: the     *)
(* predicates its inductive invariants are made of.  SearchProofs says the *)
(* last of them, Orderly, of the engines that the explorer has saved too.  *)
(***************************************************************************)
EXTENDS EngineProperties

-----------------------------------------------------------------------------
(* Waiting *)

(* No timer runs *)
NoTimers == \A t \in Thread : timeout_ticks[t] = NoTimeout

NoRepeats(s) == \A j, k \in 1 .. Len(s) : s[j] = s[k] => j = k

(* u sleeps and waits for r, and a queue holds who waits there, once *)
WaitsIn(u, r) == state[u] \in BlockedStates /\ blocked_on[u] = r

ExactQueue(r) ==
  /\ \A k \in 1 .. Len(waiters[r]) : WaitsIn(waiters[r][k], r)
  /\ NoRepeats(waiters[r])

(* Who is blocked as on a mutex is blocked on a mutex, *)
OnMutex(u) == state[u] = "BLOCKED_MUTEX" => blocked_on[u] \in OfType("MUTEX")

(* and who is blocked as on a semaphore is not. *)
OffMutex(u) == state[u] = "BLOCKED_SEM" => blocked_on[u] \notin OfType("MUTEX")

(* Nobody waits for a mutex that is free *)
FreeMutexesIdle ==
  \A r \in OfType("MUTEX") : owner[r] = NoThread => waiters[r] = <<>>

Settled ==
  /\ NoTimers /\ BlockedAreQueued
  /\ \A r \in Resource : ExactQueue(r)
  /\ \A u \in Thread : OnMutex(u) /\ OffMutex(u)
  /\ FreeMutexesIdle

-----------------------------------------------------------------------------
(* Inheritance: priorities do not fall along the wait-for graph, and each  *)
(* is the base priority of someone                                         *)

Monotone ==
  /\ \A u \in Thread : BasePriority(u) <= priority[u]
  /\ \A v, w \in Thread : WaitsFor(v, w) => priority[v] <= priority[w]

Witnessed(t) == \E u \in Dependents(t) : priority[t] = BasePriority(u)

-----------------------------------------------------------------------------
(* Accounting *)

(* A sleeper sleeps in the action it has not got past *)
WaitKind(type) ==
  CASE type = "MUTEX_LOCK" -> "MUTEX"
    [] type = "SEM_WAIT" -> "SEMAPHORE"
    [] type = "COND_WAIT" -> "CONDVAR"
    [] type \in MailboxTypes -> "MAILBOX"
    [] OTHER -> "none"

SleepsOver(u) ==
  /\ pc[u] < StepCount(u)
  /\ Pending(u).resource_id = blocked_on[u]
  /\ WaitKind(Pending(u).type) = ResType(blocked_on[u])

(* What a thread is before, and what it holds there *)
OnTrack(u) ==
  pc[u] <= StepCount(u) /\ owned_mutex_stack[u] = Held(scenario.steps[u])[pc[u]]

(* Nothing goes wrong, and no thread does anything but lock and unlock *)
Calm ==
  /\ fail = "none"
  /\ count = scenario.sem_init
  /\ \A r \in Resource : alive[r] /\ (ResType(r) # "MUTEX" => waiters[r] = <<>>)
  /\ \A u \in Thread : /\ exec_ctx[u] = "THREAD" /\ sys_lock_depth[u] = 0
                       /\ isr_depth[u] = 0 /\ stack_depth[u] = 0
                       /\ state[u] = "DONE" => pc[u] >= StepCount(u)

(* All that is known of the engine while it runs threads that make no      *)
(* mistake                                                                 *)
Orderly ==
  /\ Settled /\ StacksMatchOwners
  /\ Monotone /\ \A u \in Thread : Witnessed(u)
  /\ \A u \in Thread : OnTrack(u) /\ (state[u] \in BlockedStates => SleepsOver(u))
  /\ Calm
=============================================================================
