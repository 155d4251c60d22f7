------------------------------ MODULE MCThreads ------------------------------
(***************************************************************************)
(* Three threads: on two mutexes and a semaphore or on a mailbox, where    *)
(* calls wait as long as it takes, and on a mutex and a semaphore, where   *)
(* they wait with a timer.  Every combination of the shapes of one kind.   *)
(***************************************************************************)
EXTENDS MCScenarios

(* Resources 0 and 1 are mutexes, 2 is a semaphore that starts at 0.       *)
(* Nested in both orders, nested around the semaphore, and the four        *)
(* mistakes: relock, unlock out of order or unowned, exit while holding.   *)
LockShapes ==
  <<<<Lk(0), Ul(0)>>,
    <<Lk(0), Lk(1), Ul(1), Ul(0)>>,
    <<Lk(1), Lk(0), Ul(0), Ul(1)>>,
    <<Lk(1), Ul(1), SemW(2)>>,
    <<SemS(2), Lk(0), SemW(2), Ul(0)>>,
    <<Lk(0), Lk(1), Ul(0), Lk(0)>>,
    <<Lk(1), SemS(2), Ul(0)>>,
    <<Lk(1), Yield, Lk(1)>>,
    <<Lk(1), Local("DONE")>>>>

Priorities == {<<1, 2, 3>>, <<1, 3, 2>>, <<2, 1, 3>>, <<3, 2, 1>>, <<2, 2, 1>>}

LockScenarios ==
  {Scenario(p, q, <<"MUTEX", "MUTEX", "SEMAPHORE">>) :
     p \in Programs(LockShapes), q \in Priorities}

(* Resource 0 is a mailbox of one to three slots: ordinary and urgent      *)
(* messages, senders blocked on a full and receivers on an empty mailbox.  *)
Send(x) == ActArg("MB_POST", 0, x)
SendUrgent(x) == ActArg("MB_POST_FRONT", 0, x)
Receive == Act("MB_FETCH", 0)

MailShapes ==
  <<<<Send(1), Send(2), Send(3), Send(4)>>,
    <<Send(5), Receive, SendUrgent(6), Send(7)>>,
    <<SendUrgent(8), SendUrgent(9), Receive, Receive>>,
    <<Receive, Receive, Receive>>>>

MailScenarios ==
  {[Scenario(p, <<1, 1, 2>>, <<"MAILBOX", "MUTEX", "MUTEX">>) EXCEPT
      !.mb_capacity[0] = cap] : p \in Programs(MailShapes), cap \in 1 .. 3}

(* Resource 0 is a mutex, 1 a semaphore: timers that expire before, with   *)
(* and after the call they race, stale queue entries woken from other      *)
(* waits, threads revived after their end.  The last shape never ends, so  *)
(* time never stops.                                                       *)
TimedShapes ==
  <<<<Lk(0), Yield, Ul(0)>>,
    <<TimedLk(0, 1), SemW(1), TimedLk(0, 2)>>,
    <<TimedLk(0, 2), Ul(0)>>,
    <<TimedW(1, 1), TimedW(1, 3), Lk(0)>>,
    <<SemS(1), TimedW(1, 2), SemS(1)>>,
    <<Lk(0), TimedW(1, 2), Ul(0), SemS(1)>>,
    <<Act("COND_WAIT_TIMEOUT", 1)>>>>

TimedScenarios ==
  {Scenario(p, q, <<"MUTEX", "SEMAPHORE", "MUTEX">>) :
     p \in Programs(TimedShapes), q \in {<<1, 2, 3>>, <<3, 1, 2>>}}

MCThreadsScenarios == LockScenarios \cup MailScenarios \cup TimedScenarios
=============================================================================
