----------------------------- MODULE MCScenarios -----------------------------
(***************************************************************************)
(* How the MC modules write down scenarios (the SMASH_ACT macros and the   *)
(* designated initializers of the tests).                                  *)
(***************************************************************************)
EXTENDS EngineProperties

ActArg(type, r, arg) == [type |-> type, resource_id |-> r, arg |-> arg]
Act(type, r) == ActArg(type, r, 0)
Local(type) == Act(type, NoResource)

Lk(r) == Act("MUTEX_LOCK", r)
Ul(r) == Act("MUTEX_UNLOCK", r)
TimedLk(r, ticks) == ActArg("MUTEX_TIMED_LOCK", r, ticks)
SemW(r) == Act("SEM_WAIT", r)
SemS(r) == Act("SEM_SIGNAL", r)
TimedW(r, ticks) == ActArg("SEM_TIMED_WAIT", r, ticks)
Nop == Local("NOP")
Yield == Local("YIELD")

(* programs and priorities are sequences with one element for each thread, *)
(* types one for each resource; everything else is zero, as after memset   *)
Scenario(programs, priorities, types) ==
  [steps            |-> [t \in Thread |-> programs[t + 1]],
   priorities       |-> [t \in Thread |-> priorities[t + 1]],
   stack_sizes      |-> [t \in Thread |-> 0],
   res_types        |-> [r \in Resource |-> types[r + 1]],
   sem_init         |-> [r \in Resource |-> 0],
   associated_mutex |-> [r \in Resource |-> 0],
   mb_capacity      |-> [r \in Resource |-> 0]]

(* All ways to give the threads n shapes, up to the order of the threads:  *)
(* the engine treats them alike but for their priorities.                  *)
Assignments(n) ==
  {g \in [1 .. NThreads -> 1 .. n] :
     \A t, u \in 1 .. NThreads : t < u => g[t] <= g[u]}
Programs(shapes) == {[t \in 1 .. NThreads |-> shapes[g[t]]] : g \in Assignments(Len(shapes))}
=============================================================================
