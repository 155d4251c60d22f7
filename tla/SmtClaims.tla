------------------------------ MODULE SmtClaims ------------------------------
(***************************************************************************)
(* A statement that a document of the repository makes about the exported  *)
(* formula, and that the formula does not keep.                            *)
(***************************************************************************)
EXTENDS SmtProperties

(* Z3_WORKFLOW.md:143, "Z3 found a valid schedule (SAT) = bug exists!", of *)
(* the formula for ABBA, a model of which lines 85-95 read as the schedule *)
(* that deadlocks: an order that satisfies the formula leads into a bug.   *)
(* The model printed there is none, since its sections on M1 overlap.      *)
ModelsAreBugs == ~Free /\ ReplayEnded => fail # "none" \/ ~NoDeadlock
=============================================================================
