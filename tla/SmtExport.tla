----------------------------- MODULE SmtExport -----------------------------
(***************************************************************************)
(* The formula that smash_smt_export (smt.c) writes for a scenario: a      *)
(* solver looks for an order of all its actions.  An action is an event    *)
(* <<t, i>>, the i-th action of thread t, and pos gives its place (the     *)
(* constant step_T<t>_<i-1> of the export).                                *)
(*                                                                         *)
(* The specification runs the engine in one of two ways: under any         *)
(* scheduler, noting the order in which actions are completed, or along an *)
(* order that satisfies the formula, as a solver's answer is replayed.     *)
(***************************************************************************)
EXTENDS Replay, SequencesExt

Event == UNION {{t} \X (1 .. StepCount(t)) : t \in Thread}
EventsOf(type) == {e \in Event : scenario.steps[e[1]][e[2]].type = type}
ResourceOf(e) == scenario.steps[e[1]][e[2]].resource_id

(* The first unlock of the mutex by the same thread after lock e, if any *)
MatchingUnlock_Last(e) ==
  {u \in EventsOf("MUTEX_UNLOCK") :
     /\ u[1] = e[1] /\ u[2] > e[2] /\ ResourceOf(u) = ResourceOf(e)
     /\ \A v \in EventsOf("MUTEX_UNLOCK") :
          v[1] = e[1] /\ ResourceOf(v) = ResourceOf(e) => v[2] <= u[2]}
MatchingUnlock(e) ==
  {u \in EventsOf("MUTEX_UNLOCK") :
     /\ u[1] = e[1] /\ u[2] > e[2] /\ ResourceOf(u) = ResourceOf(e)
     /\ \A v \in EventsOf("MUTEX_UNLOCK") :
          v[1] = e[1] /\ ResourceOf(v) = ResourceOf(e) /\ v[2] > e[2] => u[2] <= v[2]}

-----------------------------------------------------------------------------
(* The assertions *)

ProgramOrder(pos) ==
  \A e, f \in Event : e[1] = f[1] /\ e[2] + 1 = f[2] => pos[e] < pos[f]

Distinct(pos) == \A e, f \in Event : pos[e] = pos[f] => e = f

(* Sections of two threads on one mutex do not overlap.  A lock that is    *)
(* never followed by an unlock is left out.                                *)
MutexExclusivity(pos) ==
  \A e, f \in EventsOf("MUTEX_LOCK") :
    e[1] < f[1] /\ ResourceOf(e) = ResourceOf(f) =>
      \A u \in MatchingUnlock(e), v \in MatchingUnlock(f) :
        pos[u] < pos[f] \/ pos[v] < pos[e]

(* A wait on a semaphore that starts empty comes after some signal.  A     *)
(* wait that nobody ever signals is left out.                              *)
SemaphoreOrdering_AsComment(pos) == TRUE
SemaphoreOrdering(pos) ==
  \A w \in EventsOf("SEM_WAIT") :
    LET signals == {s \in EventsOf("SEM_SIGNAL") : ResourceOf(s) = ResourceOf(w)} IN
    scenario.sem_init[ResourceOf(w)] <= 0 /\ signals # {} =>
      \E s \in signals : pos[s] < pos[w]

Formula(pos) ==
  /\ \A e \in Event : pos[e] >= 0
  /\ ProgramOrder(pos)
  /\ Distinct(pos)
  /\ MutexExclusivity(pos)
  /\ SemaphoreOrdering(pos)

-----------------------------------------------------------------------------
VARIABLE order   \* the events completed so far
smtVars == <<vars, replayVars, order>>

Position(o) == [e \in Event |-> CHOOSE i \in 1 .. Len(o) : o[i] = e]

(* The events that a step completes: the action of the thread that took    *)
(* it, then the call of a sleeper it served                                *)
Completes(t) ==
  LET passed == {u \in Thread : pc'[u] > pc[u]}
      event(u) == <<u, pc[u] + 1>>
  IN order' = order \o [i \in 1 .. Cardinality(passed \cap {t}) |-> event(t)]
                    \o SetToSeq({event(u) : u \in passed \ {t}})

(* A model of the formula is fixed by the order of the threads in it: here *)
(* is one thread for each event, in a sequence, and the event it stands    *)
(* for.                                                                    *)
ThreadOrders ==
  {p \in [1 .. Cardinality(Event) -> Thread] :
     \A t \in Thread : Cardinality({i \in DOMAIN p : p[i] = t}) = StepCount(t)}
EventsAlong(p) ==
  [i \in DOMAIN p |-> <<p[i], Cardinality({j \in 1 .. i : p[j] = p[i]})>>]
Models == {p \in ThreadOrders : Formula(Position(EventsAlong(p)))}

(* Each thread's end, for which the formula has no event *)
Ends == [i \in 1 .. NThreads |-> i - 1]

(* The engine runs freely, *)
Free == plan = <<>>
RunFreely ==
  /\ Free
  /\ \E t \in Runnable : Step(t) /\ Completes(t)
  /\ UNCHANGED replayVars

(* or replays a model *)
RunModel ==
  /\ ~Free
  /\ Follow
  /\ Completes(plan[at])
RefuseModel ==
  /\ ~Free
  /\ GiveUp
  /\ UNCHANGED order

SmtInit ==
  /\ Init
  /\ plan \in {<<>>} \cup {p \o Ends : p \in Models}
  /\ at = 1
  /\ refused = FALSE
  /\ order = <<>>
SmtNext == RunFreely \/ RunModel \/ RefuseModel
SmtSpec == SmtInit /\ [][SmtNext]_smtVars
=============================================================================
