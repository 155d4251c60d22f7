----------------------------- MODULE SpecChecks -----------------------------
(***************************************************************************)
(* The invariant checker (spec.c): what the explorer evaluates after every *)
(* executed step (smash_check_all) and when no thread is runnable.         *)
(* Each operator is TRUE when the code's check passes.  The range checks   *)
(* of the C arrays are part of TypeOK.                                     *)
(***************************************************************************)
EXTENDS Engine

OfType(type) == {r \in Resource : ResType(r) = type}

(* smash_check_no_deadlock *)
NoDeadlock == AllDone \/ Runnable # {}

(* smash_check_mutex_integrity *)
MutexIntegrity ==
  \A r \in OfType("MUTEX") :
    /\ owner[r] # NoThread => state[owner[r]] # "DONE"
    /\ owner[r] = NoThread => waiters[r] = <<>>
    /\ Len(waiters[r]) <= MaxWaiters
    /\ \A w \in QueuedOn(r) : state[w] = "BLOCKED_MUTEX"

(* smash_check_sem_integrity *)
SemIntegrity ==
  \A r \in OfType("SEMAPHORE") :
    /\ count[r] >= 0
    /\ Len(waiters[r]) <= MaxWaiters
    /\ count[r] > 0 => waiters[r] = <<>>
    /\ \A w \in QueuedOn(r) : state[w] = "BLOCKED_SEM"

(* smash_check_priority_inversion *)
NoPriorityInversion ==
  \A r \in OfType("MUTEX") :
    owner[r] # NoThread =>
      \A w \in QueuedOn(r) : priority[w] <= priority[owner[r]]

(* smash_check_owned_mutex_integrity *)
OwnedMutexIntegrity ==
  \A t \in Thread : \A k \in 1 .. Len(owned_mutex_stack[t]) :
    owner[owned_mutex_stack[t][k]] = t

(* The wait-for graph of smash_check_circular_wait.  A thread waits for at *)
(* most one other, so the graph has a cycle exactly when some nonempty set *)
(* of threads wait for each other.                                         *)
WaitsFor(t, u) ==
  /\ state[t] = "BLOCKED_MUTEX"
  /\ blocked_on[t] \in Resource
  /\ owner[blocked_on[t]] = u
  /\ u # t
Entangled(S) == \A t \in S : \E u \in S : WaitsFor(t, u)
NoCircularWait == \A S \in SUBSET Thread : Entangled(S) => S = {}

(* smash_check_context_safety and smash_check_stack_depth *)
ContextSafety ==
  \A t \in Thread : state[t] = "DONE" => sys_lock_depth[t] = 0 /\ isr_depth[t] = 0
StackDepth ==
  \A t \in Thread :
    scenario.stack_sizes[t] > 0 => stack_depth[t] <= scenario.stack_sizes[t]

(* smash_check_all: the graph checks are left out on purpose *)
CheckAll ==
  /\ MutexIntegrity
  /\ SemIntegrity
  /\ OwnedMutexIntegrity
  /\ NoPriorityInversion
  /\ ContextSafety
  /\ StackDepth

(* A step after which the explorer backs up instead of going on *)
Violation == fail # "none" \/ ~CheckAll
=============================================================================
