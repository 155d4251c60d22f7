-------------------------------- MODULE MCSmt --------------------------------
(***************************************************************************)
(* Three threads on two mutexes and two semaphores, the first of which is  *)
(* empty at the start, the second not: every combination of the shapes     *)
(* below with eight actions at most.                                       *)
(***************************************************************************)
EXTENDS MCScenarios, SmtClaims

Shapes ==
  <<<<Lk(0), Lk(1), Ul(1), Ul(0)>>,
    <<Lk(1), Ul(1), Lk(1), Ul(1)>>,
    <<Lk(1), Lk(0), Ul(0), Ul(1)>>,
    <<SemW(2), Lk(0), Ul(0)>>,
    <<Lk(0), SemS(2), Ul(0)>>,
    <<SemW(3), SemS(2)>>,
    <<SemS(3), Lk(1)>>,
    <<>>>>

ShortPrograms ==
  {p \in Programs(Shapes) :
     MapThenSumSet(LAMBDA t : Len(p[t]), 1 .. NThreads) <= 8}

MCSmtScenarios ==
  {[Scenario(p, <<1, 2, 3>>, <<"MUTEX", "MUTEX", "SEMAPHORE", "SEMAPHORE">>) EXCEPT
      !.sem_init[3] = 1] : p \in ShortPrograms}

(* Z3_WORKFLOW.md and test_mutex_deadlock.c *)
AbbaDeadlock ==
  {Scenario(<<<<Lk(0), Lk(1), Ul(1), Ul(0)>>, <<Lk(1), Lk(0), Ul(0), Ul(1)>>>>,
            <<10, 10>>, <<"MUTEX", "MUTEX">>)}
=============================================================================
