------------------------------ MODULE Process ------------------------------
(***************************************************************************)
(* The life of a process: creation, exit, wait, kill, sleep, alarm, pause  *)
(* and signals (kernel/sys_proc*.c, sys_thread*.c, sys_wakeup.c,           *)
(* sys_signal.c, and the fault handler of sys_main.c).                     *)
(*                                                                         *)
(* The memory a process owns is not here: kernel_spawn and                 *)
(* kernel_thread_create fail whenever malloc may fail, and module          *)
(* Resources adds to these same actions the blocks they take and release.  *)
(*                                                                         *)
(* A system call is taken by current_pid in user mode, and works on the    *)
(* table the clock has just updated, Entry.                                *)
(***************************************************************************)
EXTENDS Scheduler

CONSTANTS
    SleepTicks,  \* arguments of sleep()
    AlarmTicks,  \* arguments of alarm(); 0 cancels
    Signals      \* arguments of kill()

ASSUME ProcessAssumption ==
    /\ SleepTicks \subseteq Nat
    /\ AlarmTicks \subseteq Nat
    /\ Signals \subseteq Nat

(* Any slot, and one number beyond each end of the table. *)
PidArgument == -1 .. MAX_PROCESSES

Entry == TickUpdate(pcb)

-----------------------------------------------------------------------------
(* Termination: exit, thread_exit, kill(SIGKILL) and the fault handler. *)

(* Mutant: stops at the first process it wakes, as kernel_sem_unlock does. *)
WakeOneWaiter(t, dead) ==
    LET waiters == {p \in Pid : t[p].state = "WAITING" /\ t[p].waiting_for_pid = dead}
    IN  [p \in Pid |->
            IF p \in waiters /\ \A q \in waiters : p <= q
            THEN [t[p] EXCEPT !.state = "READY", !.waiting_for_pid = -1]
            ELSE t[p]]

WakeupWaiters(t, dead) ==
    [p \in Pid |->
        IF t[p].state = "WAITING" /\ t[p].waiting_for_pid = dead
        THEN [t[p] EXCEPT !.state = "READY", !.waiting_for_pid = -1]
        ELSE t[p]]

Terminated(t, p) ==
    WakeupWaiters([t EXCEPT ![p].state = "TERMINATED"], p)

Exit == UserMode /\ Schedule(Terminated(Entry, current_pid))

(* Only a thread may leave with thread_exit; for the others it returns -1. *)
ThreadExit ==
    /\ UserMode
    /\ \/ pcb[current_pid].is_thread /\ Schedule(Terminated(Entry, current_pid))
       \/ ~pcb[current_pid].is_thread /\ Resume(Entry)

(* The fault handler kills the culprit without advancing the clock. *)
Fault == UserMode /\ Schedule(Terminated(pcb, current_pid))

Alive(t, p) == p \in Pid /\ t[p].state # "TERMINATED"

(* kernel_kill() with a signal that is not SIGKILL: one slot, the last     *)
(* signal posted is the one pending.                                       *)
Posted(t, p, signal) ==
    [t EXCEPT ![p].pending_signal = signal,
              ![p].state = IF @ = "PAUSED" THEN "READY" ELSE @]

Kill(target, signal) ==
    /\ UserMode
    /\ \/ ~Alive(Entry, target) /\ Resume(Entry)
       \/ /\ Alive(Entry, target)
          /\ signal = SIGKILL
          /\ Schedule(Terminated(Entry, target))
       \/ /\ Alive(Entry, target)
          /\ signal # SIGKILL
          /\ Resume(Posted(Entry, target, signal))

-----------------------------------------------------------------------------
(* Waiting. *)

(* The table in which the caller sleeps in state s. *)
Stopped(t, s) == [t EXCEPT ![current_pid].state = s]

Wait(target) ==
    /\ UserMode
    /\ \/ /\ Alive(Entry, target)
          /\ Schedule([Stopped(Entry, "WAITING")
                         EXCEPT ![current_pid].waiting_for_pid = target])
       \/ ~Alive(Entry, target) /\ Resume(Entry)

Sleep(ticks) ==
    /\ UserMode
    /\ Schedule([Stopped(Entry, "SLEEPING")
                   EXCEPT ![current_pid].wakeup_tick = ticks])

Alarm(ticks) ==
    /\ UserMode
    /\ Resume([Entry EXCEPT ![current_pid].alarm_tick = ticks])

Pause == UserMode /\ Schedule(Stopped(Entry, "PAUSED"))

-----------------------------------------------------------------------------
(* Signals. *)

Signal(installed) ==
    /\ UserMode
    /\ Resume([Entry EXCEPT ![current_pid].signal_handler = installed])

(* Called by a handler when it is done; programs call it nowhere else. *)
Sigreturn ==
    /\ UserMode
    /\ pcb[current_pid].in_signal
    /\ Resume([Entry EXCEPT ![current_pid].in_signal = FALSE,
                            ![current_pid].pending_signal = 0])

-----------------------------------------------------------------------------
(* Creation: the first free slot, if the memory is there. *)

FreeSlots(t) == {p \in Pid : t[p].state = "TERMINATED"}

FreePid(t) == CHOOSE p \in FreeSlots(t) : \A q \in FreeSlots(t) : p <= q

(* kernel_spawn (is_thread = FALSE) and kernel_thread_create (TRUE). *)
Created(priority, is_thread) ==
    /\ FreeSlots(Entry) # {}
    /\ Resume([Entry EXCEPT ![FreePid(Entry)] = NewPCB(priority, is_thread)])

Spawn(priority, is_thread) ==
    /\ UserMode
    /\ \/ Created(priority, is_thread)
       \/ Resume(Entry)  \* no free slot, or malloc returned 0

-----------------------------------------------------------------------------
SchedulerStep == Timer \/ IdleTick

SystemCall ==
    \/ Yield
    \/ LightCall
    \/ Exit
    \/ ThreadExit
    \/ \E target \in PidArgument : Wait(target)
    \/ \E target \in PidArgument, signal \in Signals : Kill(target, signal)
    \/ \E ticks \in SleepTicks : Sleep(ticks)
    \/ \E ticks \in AlarmTicks : Alarm(ticks)
    \/ Pause
    \/ \E installed \in BOOLEAN : Signal(installed)
    \/ Sigreturn
    \/ \E priority \in Priorities, is_thread \in BOOLEAN :
           Spawn(priority, is_thread)

Next == SchedulerStep \/ SystemCall \/ Fault

Spec == SchedInit /\ [][Next]_schedVars

(* The timer keeps interrupting the running process, and the loop inside   *)
(* schedule() keeps turning.                                               *)
FairSpec == Spec /\ WF_schedVars(Timer) /\ WF_schedVars(IdleTick)

-----------------------------------------------------------------------------
(* The process table is well formed. *)
TypeOK == SchedTypeOK

(* Nobody waits for a process that is already gone: the death of a process *)
(* and the wakeup of those waiting for it are never separated, whichever   *)
(* of exit, thread_exit, kill or a fault ends it, and however its slot is  *)
(* reused afterwards.                                                      *)
NoStaleWaiter ==
    \A p \in Pid : pcb[p].state = "WAITING" => Alive(pcb, pcb[p].waiting_for_pid)

(* A READY process gets the CPU, unless somebody kills it first. *)
ReadyRuns ==
    \A p \in Pid :
        pcb[p].state = "READY" ~> pcb[p].state \in {"RUNNING", "TERMINATED"}

(* A process asleep wakes up, also when nobody else is left to run: time   *)
(* passes in every system call, in every timer interrupt and in schedule() *)
(* itself.                                                                 *)
SleepersWake == \A p \in Pid : pcb[p].state = "SLEEPING" ~> pcb[p].state # "SLEEPING"

(* The alarm of a process that can no longer cancel it, because it waits   *)
(* for another one or for a signal, rings as long as it waits.             *)
AlarmsRing ==
    \A p \in Pid :
        (pcb[p].state \in {"WAITING", "PAUSED"} /\ pcb[p].alarm_tick > 0)
        ~> (pcb[p].state \notin {"WAITING", "PAUSED"} \/ pcb[p].alarm_tick = 0)

(* A signal wakes a process in pause() (sys_sched_rr.c:82 "Sinais acordam  *)
(* processos em pause()"): a signal that becomes pending for a PAUSED      *)
(* process makes it leave PAUSED in the same step.                         *)
SignalWakesStep ==
    \A p \in Pid :
        (/\ pcb[p].state = "PAUSED"
         /\ pcb[p].pending_signal = 0 /\ pcb'[p].pending_signal > 0)
        => pcb'[p].state # "PAUSED"

SignalWakesPaused == [][SignalWakesStep]_schedVars

(* A handler learns which signal woke it (sys_signal.c:42 "Permite que o   *)
(* Handler saiba qual sinal o acordou"): the signal get_signal() reads     *)
(* does not change while the handler runs.                                 *)
HandlerSignalStep ==
    \A p \in Pid : (pcb[p].in_signal /\ pcb'[p].in_signal /\ Alive(pcb, p))
                   => pcb'[p].pending_signal = pcb[p].pending_signal

HandlerKnowsSignal == [][HandlerSignalStep]_schedVars
=============================================================================
