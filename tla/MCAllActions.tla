----------------------------- MODULE MCAllActions -----------------------------
(***************************************************************************)
(* Every action type, used well and badly, by two threads: all pairs of    *)
(* the shapes below.  Resource 0 is a mutex, 1 a condition variable over   *)
(* it, 2 a mailbox with one slot, 3 a semaphore.  Timed waits that expire  *)
(* fill the two places of a wait queue, which nothing else can.            *)
(***************************************************************************)
EXTENDS MCScenarios

MutexShapes ==
  <<<<Lk(0), Lk(0)>>,
    <<Lk(0), Yield, Ul(0), Local("DONE")>>,
    <<TimedLk(0, 1), TimedLk(0, 0), TimedLk(0, 1), Lk(0), Ul(0)>>,
    <<Act("OBJECT_DESTROY", 0), Lk(0)>>,
    <<Lk(0), Act("OBJECT_DESTROY", 0), Act("OBJECT_INIT", 0), Ul(0)>>,
    <<Lk(0), Local("DONE")>>,
    <<Nop, Nop, Nop>>>>

SemShapes ==
  <<<<TimedW(3, 1), TimedW(3, 1), TimedW(3, 0), SemS(3)>>,
    <<SemS(3), SemW(3), SemW(3)>>,
    <<Act("OBJECT_DESTROY", 3), SemS(3)>>,
    <<SemW(3), Act("OBJECT_DESTROY", 3), Act("OBJECT_DESTROY", 3)>>>>

CondShapes ==
  <<<<Lk(0), Act("COND_WAIT", 1), Ul(0)>>,
    <<Lk(0), Act("COND_SIGNAL", 1), Act("COND_BROADCAST", 1), Ul(0)>>,
    <<TimedW(1, 1), TimedW(1, 1), Lk(0), Act("COND_WAIT", 1)>>,
    <<Act("COND_SIGNAL", 0)>>,
    <<Act("COND_BROADCAST", 3)>>>>

MailboxShapes ==
  <<<<ActArg("MB_POST", 2, 1), ActArg("MB_POST_FRONT", 2, 2), Act("MB_FETCH", 2)>>,
    <<Act("MB_FETCH", 2), ActArg("MB_POST", 2, 2)>>,
    <<TimedW(2, 1), TimedW(2, 1), Act("MB_FETCH", 2)>>,
    <<ActArg("MB_POST", 0, 1)>>,
    <<ActArg("MB_POST_FRONT", 0, 1)>>,
    <<ActArg("MB_FETCH", 0, 1)>>,
    <<Act("MB_POST_TIMEOUT", 2)>>>>

ContextShapes ==
  <<<<Local("SYS_LOCK"), Local("SYS_LOCK"), Local("SYS_UNLOCK"), SemW(3)>>,
    <<Local("SYS_LOCK"), Local("ISR_ENTER"), Local("SYS_UNLOCK"), Lk(0)>>,
    <<Local("SYS_LOCK"), Local("ISR_ENTER"), Local("ISR_EXIT"), Lk(0)>>,
    <<Local("ISR_ENTER"), Local("ISR_ENTER"), Local("ISR_EXIT"), SemW(3)>>,
    <<Local("ISR_ENTER"), Local("ISR_ENTER"), Local("ISR_ENTER")>>,
    <<Local("ISR_ENTER"), Local("ISR_EXIT"), Lk(0), Local("ISR_EXIT")>>,
    <<Lk(0), Ul(0), Local("SYS_UNLOCK")>>,
    <<ActArg("CALL", NoResource, 2), Local("RETURN"),
      ActArg("CALL", NoResource, 2), ActArg("RETURN", NoResource, 4), Lk(0)>>>>

Shapes == MutexShapes \o SemShapes \o CondShapes \o MailboxShapes \o ContextShapes

(* The second thread has a stack of two units, the first is not limited *)
MCAllActionsScenarios ==
  {[Scenario(p, q, <<"MUTEX", "CONDVAR", "MAILBOX", "SEMAPHORE">>) EXCEPT
      !.mb_capacity[2] = 1, !.stack_sizes[1] = 2] :
     p \in Programs(Shapes), q \in {<<1, 2>>, <<2, 1>>}}
=============================================================================
