----------------------------- MODULE MCDocClaims -----------------------------
(***************************************************************************)
(* The smallest scenarios that show each disagreement of DocClaims, some   *)
(* of them taken from the tests of the repository.                         *)
(***************************************************************************)
EXTENDS MCScenarios, DocClaims

(* test_timeout.c, scenario 1 *)
TimedLockTimesOut ==
  {Scenario(<<<<Lk(0), Yield, Yield, Yield, Yield, Ul(0)>>, <<TimedLk(0, 3), Yield>>>>,
            <<10, 10>>, <<"MUTEX", "SEMAPHORE">>)}

(* the timed lock is granted by a handoff, then the thread waits untimed *)
HandoffThenWait ==
  {Scenario(<<<<Lk(0), Ul(0), Nop, Nop>>, <<TimedLk(0, 3), SemW(1)>>>>,
            <<1, 1>>, <<"MUTEX", "SEMAPHORE">>)}

(* test_chibios_v2.c, basic_condvar *)
BasicCondvar ==
  {Scenario(<<<<Lk(0), Yield, Act("COND_SIGNAL", 1), Ul(0)>>,
              <<Lk(0), Act("COND_WAIT", 1), Ul(0)>>>>,
            <<10, 10>>, <<"MUTEX", "CONDVAR">>)}

(* a mailbox with one slot more than its array has entries, which          *)
(* smash_scenario_validate accepts                                         *)
OversizedMailbox ==
  {[Scenario(<<<<ActArg("MB_POST", 0, 1), ActArg("MB_POST", 0, 2), ActArg("MB_POST", 0, 3)>>,
               <<Act("MB_FETCH", 0)>>>>,
             <<10, 10>>, <<"MAILBOX", "MUTEX">>) EXCEPT !.mb_capacity[0] = MaxWaiters + 1]}
=============================================================================
