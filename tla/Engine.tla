------------------------------- MODULE Engine -------------------------------
(***************************************************************************)
(* The execution engine (engine.c): one smash_execute_step of one runnable *)
(* thread is one step of the specification.  The scheduler is the          *)
(* environment: it may pick any thread that smash_collect_runnable         *)
(* returns, and stops once engine->failed is set.  A replay                *)
(* (smash_run_schedule) may pick any thread at all; it uses the same       *)
(* steps, and Refused.                                                     *)
(*                                                                         *)
(* Every action includes the timer tick at the head of the step: Stay,     *)
(* Advance, Block and WakeAndAdvance of Kernel apply it.                   *)
(***************************************************************************)
EXTENDS ChibiosModel

DefaultTicks == 10   \* of a timed call whose arg is not positive

StepCount(t) == Len(scenario.steps[t])
Current(t) == scenario.steps[t][TickedPc[t] + 1]

(* t is scheduled and, once the timers are counted down, it is ready *)
Scheduled(t) == fail = "none" /\ TickedState[t] = "READY"

(* and has an action of this type to execute *)
Doing(t, type) ==
  /\ Scheduled(t)
  /\ TickedPc[t] < StepCount(t)
  /\ Current(t).type = type

Target(t) == Current(t).resource_id
Ticks(t) == IF Current(t).arg > 0 THEN Current(t).arg ELSE DefaultTicks
Units(t) == IF Current(t).arg > 0 THEN Current(t).arg ELSE 1

(* The step touches none of the objects or of the inheritance state, *)
ModelUnchanged == UNCHANGED <<scenario, modelVars>>

(* or only these *)
ModelStep == UNCHANGED <<scenario, ctxVars, stackVars, alive>>

-----------------------------------------------------------------------------
(* The end of a thread *)

(* no action is left; nothing checks what the thread still owns *)
ThreadEnd(t) ==
  /\ Scheduled(t)
  /\ TickedPc[t] >= StepCount(t)
  /\ state' = [TickedState EXCEPT ![t] = "DONE"]
  /\ pc' = TickedPc
  /\ blocked_on' = TickedBlockedOn
  /\ timeout_ticks' = TickedTimeout
  /\ ModelUnchanged
  /\ UNCHANGED <<ctxVars, stackVars, alive, fail>>

(* ACT_DONE reports a mutex that is still owned, and exits all the same *)
Done(t) ==
  /\ Doing(t, "DONE")
  /\ state' = [TickedState EXCEPT ![t] = "DONE"]
  /\ pc' = TickedPc
  /\ blocked_on' = TickedBlockedOn
  /\ timeout_ticks' = TickedTimeout
  /\ fail' = IF owned_mutex_stack[t] # <<>> THEN "exit_holding" ELSE fail
  /\ ModelUnchanged
  /\ UNCHANGED <<ctxVars, stackVars, alive>>

-----------------------------------------------------------------------------
(* Calls of chibios_model.c *)

Lock(t) == Doing(t, "MUTEX_LOCK") /\ MutexLock(t, Target(t), 0) /\ ModelStep
TimedLock(t) ==
  Doing(t, "MUTEX_TIMED_LOCK") /\ MutexLock(t, Target(t), Ticks(t)) /\ ModelStep
Unlock(t) == Doing(t, "MUTEX_UNLOCK") /\ MutexUnlock(t, Target(t)) /\ ModelStep

Wait(t) == Doing(t, "SEM_WAIT") /\ SemWait(t, Target(t), 0) /\ ModelStep
TimedWait(t) ==
  Doing(t, "SEM_TIMED_WAIT") /\ SemWait(t, Target(t), Ticks(t)) /\ ModelStep
Signal(t) == Doing(t, "SEM_SIGNAL") /\ SemSignal(t, Target(t)) /\ ModelStep

WaitCond(t) == Doing(t, "COND_WAIT") /\ CondWait(t, Target(t)) /\ ModelStep
SignalCond(t) == Doing(t, "COND_SIGNAL") /\ CondSignal(t, Target(t)) /\ ModelStep
Broadcast(t) ==
  Doing(t, "COND_BROADCAST") /\ CondBroadcast(t, Target(t)) /\ ModelStep

Post(t) ==
  Doing(t, "MB_POST") /\ MbPost(t, Target(t), Current(t).arg) /\ ModelStep
PostFront(t) ==
  /\ Doing(t, "MB_POST_FRONT")
  /\ MbPostFront(t, Target(t), Current(t).arg)
  /\ ModelStep
Fetch(t) == Doing(t, "MB_FETCH") /\ MbFetch(t, Target(t)) /\ ModelStep

-----------------------------------------------------------------------------
(* Actions the engine executes itself.  A refused one returns early and    *)
(* leaves the pc; each Fault gives the reason, or "none".                  *)

Pause(t) ==
  /\ Doing(t, "YIELD") \/ Doing(t, "NOP")
  /\ Advance(t)
  /\ ModelUnchanged
  /\ UNCHANGED <<ctxVars, stackVars, alive, fail>>

(* The switch has no case for the timeout variants of the condition        *)
(* variable and mailbox calls: the step only lets time pass.               *)
Unhandled(t) ==
  /\ \E type \in {"COND_WAIT_TIMEOUT", "MB_POST_TIMEOUT", "MB_FETCH_TIMEOUT"} :
       Doing(t, type)
  /\ Stay
  /\ ModelUnchanged
  /\ UNCHANGED <<ctxVars, stackVars, alive, fail>>

LocalFault_UnlockUnchecked(t) ==
  CASE Current(t).type = "ISR_ENTER" /\ isr_depth[t] >= MaxIsrDepth -> "isr_nesting"
    [] Current(t).type = "OBJECT_DESTROY" /\ ~alive[Target(t)] -> "double_destroy"
    [] OTHER -> "none"

LocalFault(t) ==
  CASE Current(t).type = "SYS_UNLOCK" /\ sys_lock_depth[t] <= 0 -> "unbalanced"
    [] Current(t).type = "ISR_ENTER" /\ isr_depth[t] >= MaxIsrDepth -> "isr_nesting"
    [] Current(t).type = "ISR_EXIT" /\ isr_depth[t] <= 0 -> "unbalanced"
    [] Current(t).type = "OBJECT_DESTROY" /\ ~alive[Target(t)] -> "double_destroy"
    [] OTHER -> "none"

LocalReject(t) ==
  /\ \E type \in {"SYS_UNLOCK", "ISR_ENTER", "ISR_EXIT", "OBJECT_DESTROY"} :
       Doing(t, type)
  /\ LocalFault(t) # "none"
  /\ fail' = LocalFault(t)
  /\ Stay
  /\ ModelUnchanged
  /\ UNCHANGED <<ctxVars, stackVars, alive>>

(* The context the code restores when it leaves a critical section, or the *)
(* outermost interrupt: it looks at the lock depth only.                   *)
RestoredCtx_Always(depth) == "THREAD"
RestoredCtx(depth) == IF depth > 0 THEN "SYS_LOCK" ELSE "THREAD"

CtxStep(t) ==
  /\ Advance(t)
  /\ ModelUnchanged
  /\ UNCHANGED <<stackVars, alive, fail>>

SysLock(t) ==
  /\ Doing(t, "SYS_LOCK")
  /\ sys_lock_depth' = [sys_lock_depth EXCEPT ![t] = @ + 1]
  /\ exec_ctx' = [exec_ctx EXCEPT ![t] = "SYS_LOCK"]
  /\ UNCHANGED isr_depth
  /\ CtxStep(t)

SysUnlock(t) ==
  /\ Doing(t, "SYS_UNLOCK")
  /\ LocalFault(t) = "none"
  /\ sys_lock_depth' = [sys_lock_depth EXCEPT ![t] = @ - 1]
  /\ exec_ctx' = [exec_ctx EXCEPT ![t] = RestoredCtx(sys_lock_depth[t] - 1)]
  /\ UNCHANGED isr_depth
  /\ CtxStep(t)

IsrEnter(t) ==
  /\ Doing(t, "ISR_ENTER")
  /\ LocalFault(t) = "none"
  /\ isr_depth' = [isr_depth EXCEPT ![t] = @ + 1]
  /\ exec_ctx' = [exec_ctx EXCEPT ![t] = "ISR"]
  /\ UNCHANGED sys_lock_depth
  /\ CtxStep(t)

IsrExit(t) ==
  /\ Doing(t, "ISR_EXIT")
  /\ LocalFault(t) = "none"
  /\ isr_depth' = [isr_depth EXCEPT ![t] = @ - 1]
  /\ exec_ctx' = [exec_ctx EXCEPT ![t] =
                    IF isr_depth[t] = 1 THEN RestoredCtx(sys_lock_depth[t]) ELSE @]
  /\ UNCHANGED sys_lock_depth
  /\ CtxStep(t)

SetAlive(t, value) ==
  /\ alive' = [alive EXCEPT ![Target(t)] = value]
  /\ Advance(t)
  /\ ModelUnchanged
  /\ UNCHANGED <<ctxVars, stackVars, fail>>

(* neither looks at the owner or the wait queue of the object *)
ObjectInit(t) == Doing(t, "OBJECT_INIT") /\ SetAlive(t, TRUE)
ObjectDestroy(t) ==
  Doing(t, "OBJECT_DESTROY") /\ LocalFault(t) = "none" /\ SetAlive(t, FALSE)

(* An overflowing call has already taken its stack when it fails *)
Call(t) ==
  LET depth == stack_depth[t] + Units(t)
      limit == scenario.stack_sizes[t]
  IN
  /\ Doing(t, "CALL")
  /\ stack_depth' = [stack_depth EXCEPT ![t] = depth]
  /\ stack_watermark' =
       [stack_watermark EXCEPT ![t] = IF depth > @ THEN depth ELSE @]
  /\ IF limit > 0 /\ depth > limit
     THEN fail' = "stack_overflow" /\ Stay
     ELSE fail' = fail /\ Advance(t)
  /\ ModelUnchanged
  /\ UNCHANGED <<ctxVars, alive>>

Return(t) ==
  /\ Doing(t, "RETURN")
  /\ stack_depth' = [stack_depth EXCEPT ![t] = IF @ < Units(t) THEN 0 ELSE @ - Units(t)]
  /\ Advance(t)
  /\ ModelUnchanged
  /\ UNCHANGED <<stack_watermark, ctxVars, alive, fail>>

-----------------------------------------------------------------------------
(* smash_execute_step of thread t *)
Step(t) ==
  \/ ThreadEnd(t) \/ Done(t)
  \/ Lock(t) \/ TimedLock(t) \/ Unlock(t)
  \/ Wait(t) \/ TimedWait(t) \/ Signal(t)
  \/ WaitCond(t) \/ SignalCond(t) \/ Broadcast(t)
  \/ Post(t) \/ PostFront(t) \/ Fetch(t)
  \/ Pause(t) \/ Unhandled(t) \/ LocalReject(t)
  \/ SysLock(t) \/ SysUnlock(t) \/ IsrEnter(t) \/ IsrExit(t)
  \/ ObjectInit(t) \/ ObjectDestroy(t) \/ Call(t) \/ Return(t)

(* It returns early, after the timers, if t is blocked or done *)
Refused(t) ==
  /\ fail = "none"
  /\ TickedState[t] # "READY"
  /\ Stay
  /\ ModelUnchanged
  /\ UNCHANGED <<ctxVars, stackVars, alive, fail>>

Next == \E t \in Runnable : Step(t)

Spec == Init /\ [][Next]_vars

(* A driver keeps picking a runnable thread while there is one: a path of  *)
(* the explorer ends only when all threads are done, none is runnable, or  *)
(* a check failed.  It promises nothing to an individual thread.           *)
FairSpec == Spec /\ WF_vars(Next)
=============================================================================
