----------------------------- MODULE Scheduler -----------------------------
(***************************************************************************)
(* The process table, the clock and the scheduler of the CAFE OS kernel    *)
(* (kernel/sys_core.h, sys_tick.inc, sys_sched_rr.c, sys_sched_fp.c,       *)
(* sys_sched_dp.c, sys_signal_inject.inc, sys_main.c).                     *)
(*                                                                         *)
(* Every entry into the kernel disables interrupts (INT CLI_INT) and the   *)
(* machine has one CPU, so a handler is one atomic step.  Three things     *)
(* happen in it: the clock advances, the handler changes the table, and    *)
(* either the same process resumes or schedule() elects another.  The      *)
(* modules that extend this one add the system calls.                      *)
(*                                                                         *)
(* schedule() never leaves the kernel while nobody can run: it turns its   *)
(* own clock until somebody becomes READY.  That loop is mode "idle", one  *)
(* iteration per IdleTick; the CPU stopped by HALT_INT is mode "halt".     *)
(***************************************************************************)
EXTENDS Integers

CONSTANTS
    MAX_PROCESSES,  \* slots of the process table
    Policy,         \* the scheduler sys_main.c includes: "rr", "fp" or "dp"
    Priorities,     \* the priorities given to processes
    Overlays        \* how many programs boot_overlays() starts

SIGKILL == 9
SIGALRM == 14
OverlayPriority == 4  \* boot_overlays() starts every program with it

Pid == 0 .. MAX_PROCESSES - 1

ASSUME SchedulerAssumption ==
    /\ MAX_PROCESSES \in Nat \ {0}
    /\ Policy \in {"rr", "fp", "dp"}
    /\ Priorities \subseteq Int
    /\ OverlayPriority \in Priorities
    /\ Overlays \in 1 .. MAX_PROCESSES

State == {"READY", "RUNNING", "BLOCKED", "TERMINATED", "WAITING", "SLEEPING",
          "PAUSED", "WAITING_PIPE_READ", "WAITING_PIPE_WRITE"}

VARIABLES
    pcb,          \* the process table
    current_pid,  \* the slot curr_pcb points to
    mode          \* "user", "idle" (turning inside schedule()) or "halt"

schedVars == <<pcb, current_pid, mode>>

(***************************************************************************)
(* The fields of PCB_Struct that control depends on.  wakeup_tick and      *)
(* alarm_tick hold what is LEFT until the tick the code stores, so that    *)
(* time does not grow without bound: alarm_tick = 0 is "no alarm", and an  *)
(* alarm or a sleep that has 1 left is due at the next tick.               *)
(* signal_handler says whether a handler's address is installed.           *)
(***************************************************************************)
PCB == [state : State, priority : Priorities, age : Nat, is_thread : BOOLEAN,
        waiting_for_pid : Pid \cup {-1}, wakeup_tick : Nat, alarm_tick : Nat,
        pending_signal : Nat, signal_handler : BOOLEAN, in_signal : BOOLEAN]

NewPCB(priority, is_thread) ==
    [state |-> "READY", priority |-> priority, age |-> 0,
     is_thread |-> is_thread, waiting_for_pid |-> -1, wakeup_tick |-> 0,
     alarm_tick |-> 0, pending_signal |-> 0, signal_handler |-> FALSE,
     in_signal |-> FALSE]

(* A slot boot has marked free and no program was loaded into. *)
FreePCB == [NewPCB(OverlayPriority, FALSE) EXCEPT !.state = "TERMINATED"]

-----------------------------------------------------------------------------
(* The clock. *)

(* Mutant: the count runs on below zero. *)
OneLessUnbounded(n) == n - 1

OneLess(n) == IF n > 0 THEN n - 1 ELSE 0

Rouse(r) ==
    IF r.state # "SLEEPING" THEN r
    ELSE [r EXCEPT !.wakeup_tick = OneLess(@),
                   !.state = IF OneLess(r.wakeup_tick) = 0 THEN "READY" ELSE @]

AlarmDue(r) == r.alarm_tick = 1

RingAlarm(r) ==
    [r EXCEPT !.alarm_tick = OneLess(@),
              !.pending_signal = IF AlarmDue(r) THEN SIGALRM ELSE @]

(* kernel_tick_update(), run by the timer and by every system call.  It    *)
(* skips the free slots, whose alarm merely falls due (1 left).            *)
TickUpdate(t) ==
    [p \in Pid |->
        IF t[p].state = "TERMINATED"
        THEN [t[p] EXCEPT !.alarm_tick = IF @ > 1 THEN @ - 1 ELSE @]
        ELSE RingAlarm(Rouse(t[p]))]

(* Mutants: the loop of schedule() forgets those asleep, or the alarms.    *)
WarpWithoutSleepers(t) == [p \in Pid |-> RingAlarm(t[p])]
WarpWithoutAlarms(t) == [p \in Pid |-> Rouse(t[p])]

(* One turn of the clock inside schedule(): here an alarm also wakes the   *)
(* process it finds PAUSED, and the free slots are not skipped.            *)
WarpUpdate(t) ==
    [p \in Pid |->
        LET r == Rouse(t[p])
        IN  [RingAlarm(r) EXCEPT
               !.state = IF AlarmDue(r) /\ @ = "PAUSED" THEN "READY" ELSE @]]

-----------------------------------------------------------------------------
(* The election. *)

(* Places between c and p in the circular search that starts after c;      *)
(* c itself is examined last.                                              *)
Distance(c, p) == IF p > c THEN p - c ELSE p - c + MAX_PROCESSES

(* Mutant: the election ignores the age. *)
BasePriority(r) == r.priority

Effective(r) == r.priority + r.age

(* Only the aging scheduler touches age: one more for each READY process   *)
(* at each search.                                                         *)
Aged(t) ==
    [p \in Pid |-> IF Policy = "dp" /\ t[p].state = "READY"
                   THEN [t[p] EXCEPT !.age = @ + 1]
                   ELSE t[p]]

(* Mutant: the search stops before it comes back to the current process. *)
OtherReady(t) == {p \in Pid \ {current_pid} : t[p].state = "READY"}

(* The two priority searches start from -1 and compare with >. *)
Electable(t) ==
    {p \in Pid : /\ t[p].state = "READY"
                 /\ Policy # "rr" => Effective(t[p]) > -1}

(* Mutant: the search starts from slot 0. *)
LowestFirst(t, c, p, q) == p <= q

Beats(t, c, p, q) ==
    IF Policy = "rr"
    THEN Distance(c, p) <= Distance(c, q)
    ELSE \/ Effective(t[p]) > Effective(t[q])
         \/ Effective(t[p]) = Effective(t[q]) /\ p <= q

Elected(t, c) ==
    CHOOSE p \in Electable(t) : \A q \in Electable(t) : Beats(t, c, p, q)

-----------------------------------------------------------------------------
(* Leaving the kernel. *)

(* kernel_signal_inject(): the frame about to be restored is redirected to *)
(* the handler when a signal is pending and no handler is running.         *)
Inject(r) ==
    IF r.pending_signal > 0 /\ r.signal_handler
    THEN [r EXCEPT !.in_signal = TRUE]
    ELSE r

(* Mutant: the short way out of a system call skips the injection. *)
ResumeWithoutInject(t) == pcb' = t /\ UNCHANGED <<current_pid, mode>>

(* dispatcher_restore_context for the process that was already running. *)
Resume(t) ==
    /\ pcb' = [t EXCEPT ![current_pid] = Inject(@)]
    /\ UNCHANGED <<current_pid, mode>>

(* dispatcher_restore_context for the winner of the election. *)
Promote(t, p) ==
    /\ pcb' = [t EXCEPT ![p] = Inject([@ EXCEPT !.state = "RUNNING", !.age = 0])]
    /\ current_pid' = p
    /\ mode' = "user"

(* One pass of the search loop over table t.  (\E over a singleton, here   *)
(* and in Schedule, names a table once for all that is said about it.)     *)
Search(t) ==
  \E a \in {Aged(t)} :
    \/ /\ Electable(a) # {}
       /\ Promote(a, Elected(a, current_pid))
    \/ /\ Electable(a) = {}
       /\ pcb' = a
       /\ mode' = "idle"
       /\ UNCHANGED current_pid

(* Mutant: the process that loses the CPU keeps its state. *)
NotDemoted(t) == t

Demoted(t) ==
    IF t[current_pid].state = "RUNNING"
    THEN [t EXCEPT ![current_pid].state = "READY", ![current_pid].age = 0]
    ELSE t

NoneAlive(t) == \A p \in Pid : t[p].state = "TERMINATED"

(* schedule() *)
Schedule(t) ==
  \E d \in {Demoted(t)} :
    \/ ~NoneAlive(d) /\ Search(d)
    \/ /\ NoneAlive(d)
       /\ pcb' = d
       /\ mode' = "halt"
       /\ UNCHANGED current_pid

-----------------------------------------------------------------------------
(* os_boot: the overlays take the first slots and slot 0 gets the CPU. *)
SchedInit ==
    /\ pcb = [p \in Pid |->
                IF p = 0
                THEN [NewPCB(OverlayPriority, FALSE) EXCEPT !.state = "RUNNING"]
                ELSE IF p < Overlays THEN NewPCB(OverlayPriority, FALSE)
                                     ELSE FreePCB]
    /\ current_pid = 0
    /\ mode = "user"

(* A process runs, so an interrupt, a trap or a fault can be taken. *)
UserMode == mode = "user"

(* kernel_dispatcher: the hardware timer. *)
Timer == UserMode /\ Schedule(TickUpdate(pcb))

(* The next turn of schedule()'s loop when nobody was READY. *)
IdleTick == mode = "idle" /\ Search(WarpUpdate(pcb))

(* sys_yield (9): every system call first advances the clock. *)
Yield == UserMode /\ Schedule(TickUpdate(pcb))

(* The calls that change no table: print_char, read_char, get_signal, the  *)
(* network calls, and ids the dispatcher does not know.                    *)
LightCall == UserMode /\ Resume(TickUpdate(pcb))

(* The variables have the types the comments above give them. *)
SchedTypeOK ==
    /\ pcb \in [Pid -> PCB]
    /\ current_pid \in Pid
    /\ mode \in {"user", "idle", "halt"}

-----------------------------------------------------------------------------
(* What every system built on this scheduler keeps. *)

(* The CPU belongs to exactly one process, the one current_pid names, and  *)
(* to nobody while the kernel turns or is halted: every path out of the    *)
(* kernel goes through the promotion of schedule() or leaves the caller    *)
(* RUNNING.                                                                *)
OneRunning ==
    \A p \in Pid : (pcb[p].state = "RUNNING") <=> (mode = "user" /\ p = current_pid)

(* The kernel turns idle only while no process that its policy can elect   *)
(* is READY and at least one process is alive; it halts only when all are  *)
(* gone.                                                                   *)
WorkConserving ==
    /\ mode = "idle" => /\ ~NoneAlive(pcb)
                        /\ \A p \in Pid : pcb[p].state = "READY"
                             => Policy # "rr" /\ ~(Effective(pcb[p]) > -1)
    /\ mode = "halt" => NoneAlive(pcb)

(* A process never executes its main program with a deliverable signal     *)
(* pending: every return to user mode passes through kernel_signal_inject, *)
(* also after a system call in which the process signals itself or its own *)
(* alarm rings.                                                            *)
DeliveredOnReturn ==
    mode = "user" =>
        LET r == pcb[current_pid]
        IN  r.pending_signal > 0 /\ r.signal_handler => r.in_signal

(* Round-Robin passes a READY process over at most once per other slot:    *)
(* when the CPU changes hands, every process READY before and after is     *)
(* strictly nearer to the head of the circular search.                     *)
RoundRobinStep ==
    \A p \in Pid :
        (/\ Policy = "rr"
         /\ pcb[p].state = "READY" /\ pcb'[p].state = "READY"
         /\ current_pid' # current_pid /\ p # current_pid)
        => Distance(current_pid', p) < Distance(current_pid, p)

RoundRobinProgress == [][RoundRobinStep]_schedVars

(* With aging, a READY process that loses an election gains on the winner: *)
(* its age never exceeds the spread of the priorities by more than the     *)
(* number of processes, so nobody starves.                                 *)
AgeBounded ==
    Policy = "dp" =>
        \A p \in Pid, hi \in Priorities, lo \in Priorities :
            (\A q \in Priorities : lo <= q /\ q <= hi)
            => pcb[p].age <= hi - lo + MAX_PROCESSES
=============================================================================
