--------------------------- MODULE MCSearchClaims ---------------------------
(***************************************************************************)
(* The smallest scenarios that show each disagreement of SearchClaims,     *)
(* searched to the end.  Resources 0 and 1 are mutexes, 2 is a semaphore,  *)
(* 3 a mailbox with two slots.                                             *)
(***************************************************************************)
EXTENDS MCScenarios, SearchClaims

Of(programs) ==
  {[Scenario(programs, <<2, 3, 3>>, <<"MUTEX", "MUTEX", "SEMAPHORE", "MAILBOX">>)
      EXCEPT !.mb_capacity[3] = 2]}

(* The deadlock of test_mutex_deadlock.c, one step later for one thread:   *)
(* its first step is independent of the other thread's, the next is not.   *)
LateConflict ==
  Of(<<<<Lk(0), Lk(1), Ul(1), Ul(0)>>, <<Nop, Lk(1), Lk(0), Ul(0), Ul(1)>>>>)

(* test_chibios_v2.c, basic_mailbox *)
BasicMailbox ==
  Of(<<<<ActArg("MB_POST", 3, 1), ActArg("MB_POST", 3, 2)>>,
       <<Act("MB_FETCH", 3), Act("MB_FETCH", 3)>>>>)

(* Two ways to one snapshot that leave different timers behind *)
TwoTimers ==
  Of(<<<<Yield>>, <<TimedW(2, 3), Lk(0), Ul(0)>>, <<SemS(2), Nop>>>>)

Unlimited(dpor, caching) ==
  {[max_depth            |-> 13,
    max_interleavings    |-> 0,
    stop_on_first_bug    |-> FALSE,
    enable_dpor          |-> dpor,
    enable_state_caching |-> caching]}

WithDpor == Unlimited(TRUE, FALSE)
WithCaching == Unlimited(FALSE, TRUE)
=============================================================================
