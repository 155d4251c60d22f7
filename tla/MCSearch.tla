------------------------------ MODULE MCSearch ------------------------------
(***************************************************************************)
(* The search of small scenarios under every kind of configuration, and    *)
(* the minimization of what it reports.  Resources 0 and 1 are mutexes,    *)
(* 2 is a semaphore, 3 a mailbox with one slot.                            *)
(***************************************************************************)
EXTENDS MCScenarios, ExplorerProperties

(* Both nesting orders, waits and signals, posts, timed calls, a lock that *)
(* is never given back, a wrong unlock, and a thread that never ends       *)
Shapes ==
  <<<<Lk(0), Lk(1), Ul(1), Ul(0)>>,
    <<Lk(1), Lk(0), Ul(0), Ul(1)>>,
    <<SemS(2), Lk(1)>>,
    <<SemW(2), Nop, Ul(0)>>,
    <<TimedW(2, 1), TimedLk(1, 2)>>,
    <<ActArg("MB_POST", 3, 1), Act("MB_FETCH", 3)>>,
    <<Act("MB_POST_TIMEOUT", 3)>>>>

MCSearchScenarios ==
  {[Scenario(p, <<1, 2>>, <<"MUTEX", "MUTEX", "SEMAPHORE", "MAILBOX">>) EXCEPT
      !.mb_capacity[3] = 1] : p \in Programs(Shapes)}

Plain == [max_depth            |-> 11,
          max_interleavings    |-> 0,
          stop_on_first_bug    |-> FALSE,
          enable_dpor          |-> FALSE,
          enable_state_caching |-> FALSE]

MCSearchConfigs ==
  {Plain,
   [Plain EXCEPT !.stop_on_first_bug = TRUE],
   [Plain EXCEPT !.enable_state_caching = TRUE],
   [Plain EXCEPT !.enable_dpor = TRUE],
   [Plain EXCEPT !.enable_dpor = TRUE, !.enable_state_caching = TRUE,
                 !.stop_on_first_bug = TRUE],
   [Plain EXCEPT !.max_depth = 0, !.enable_dpor = TRUE],
   [Plain EXCEPT !.max_depth = 3, !.max_interleavings = 1],
   [Plain EXCEPT !.max_interleavings = 2, !.enable_state_caching = TRUE]}
=============================================================================
