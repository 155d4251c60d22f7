--------------------------- MODULE SmtProperties ---------------------------
(***************************************************************************)
(* How the exported formula and the engine agree: which executions are     *)
(* models, and which models are executions.                                *)
(***************************************************************************)
EXTENDS SmtExport, EngineProperties

(* The formula knows nothing of calls that give up, of condition waits,    *)
(* which let go of a mutex, or of a thread that ends before its actions    *)
(* do: it asks for a place for those that are never executed, too.         *)
Exportable(s) ==
  Untimed(s) /\ CondFree(s) /\ WellTyped(s) /\ \A a \in ActionsOf(s) : a.type # "DONE"

(* The formula is not too strong: the order in which actions are completed *)
(* in an execution that runs to its end, whatever blocked and was handed   *)
(* over on the way, satisfies it.  So if it has no model, no schedule ends *)
(* well.                                                                   *)
ExecutionsAreModels ==
  Exportable(scenario) /\ Free /\ AllDone /\ fail = "none" => Formula(Position(order))

(* A wait needs a signal of its own, or a unit the semaphore starts with *)
Supplied(s) ==
  \A r \in Resource :
    LET waits == Cardinality({e \in EventsOf("SEM_WAIT") : ResourceOf(e) = r}) IN
    waits <= Max({1, s.sem_init[r]})

(* nothing signals a semaphore that is waited for: the formula says nothing *)
Signalled(s) ==
  \A a \in ActionsOf(s) :
    a.type = "SEM_WAIT" /\ s.sem_init[a.resource_id] <= 0 =>
      s.sem_init[a.resource_id] = 0
        /\ \E b \in ActionsOf(s) : b.type = "SEM_SIGNAL" /\ b.resource_id = a.resource_id

Lockstep(s) ==
  /\ \A a \in ActionsOf(s) :
       a.type \in {"MUTEX_LOCK", "MUTEX_UNLOCK", "SEM_WAIT", "SEM_SIGNAL", "NOP"}
  /\ WellTyped(s) /\ Balanced(s) /\ Supplied(s) /\ Signalled(s)

(* Nor is it too weak, where threads give back what they lock and no two   *)
(* waits compete for a signal: replayed on the engine, every model runs to *)
(* the end, in its own order, and no thread ever blocks.  A model is thus  *)
(* a schedule that ends well and shows no bug (see SmtClaims).             *)
ModelsAreExecutions ==
  Lockstep(scenario) /\ ~Free =>
    /\ fail = "none"
    /\ \A t \in Thread : ~Waiting(t)
    /\ order = SubSeq(EventsAlong(SubSeq(plan, 1, Len(plan) - NThreads)), 1, Len(order))
    /\ ReplayEnded => AllDone
=============================================================================
