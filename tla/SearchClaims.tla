---------------------------- MODULE SearchClaims ----------------------------
(***************************************************************************)
(* Statements of the repository about the reductions of the search, which  *)
(* the search does not keep.  Each is checked by a run of MCSearchClaims   *)
(* whose counterexample shows a deadlock that the search does not report.  *)
(***************************************************************************)
EXTENDS ExplorerProperties

(* explorer.c:12, "Exploring only the persistent set is sound: any omitted *)
(* ordering is provably equivalent to one that is explored": of a search   *)
(* in which the sleep sets pruned nothing.                                 *)
PersistentSetsAreSound ==
  Exhaustive /\ config.enable_dpor /\ result.sleep_pruned = 0 => KnownIsFound

(* All actions name one resource, so no two of them are independent *)
OneResource(s) ==
  \E r \in Resource : \A a \in ActionsOf(s) : a.resource_id = r

(* ENHANCEMENT_SLEEP_SETS.md:151, "Sleep sets do not miss bugs": of a      *)
(* scenario in which nothing is left to the persistent sets to prune.      *)
SleepSetsMissNoBugs ==
  Exhaustive /\ config.enable_dpor /\ OneResource(scenario) => KnownIsFound

(* SAFETY_ANALYSIS.md:187, "No bugs missed due to caching": of a search    *)
(* without partial-order reduction.                                        *)
CachingMissesNoBugs ==
  Exhaustive /\ config.enable_state_caching /\ ~config.enable_dpor => KnownIsFound
=============================================================================
