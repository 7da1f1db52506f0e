--------------------------- MODULE DynamicOverlay ---------------------------
(***************************************************************************)
(* Programs loaded from the disk at run time (kernel_fs_exec and the       *)
(* collection of kernel/sys_fs.c, kernel_spawn_overlay of                  *)
(* sys_overlay_shared.c).  There is one window for their image.  It is     *)
(* loaded again only when kernel_fs_dyn_gc finds that no live process has  *)
(* code or data in it: not only the process exec created, but its clones   *)
(* and threads, which may outlive it.                                      *)
(***************************************************************************)
EXTENDS Process

CONSTANTS
    FS_DYN_SLOT_WORDS,  \* words of the window
    DiskResults,        \* what the disk may say it has loaded, in words
    HeaderWords         \* the header in front of the code of an image

ASSUME DynamicOverlayAssumption ==
    /\ HeaderWords \in Nat
    /\ FS_DYN_SLOT_WORDS \in Nat
    /\ DiskResults \subseteq Int
    /\ \A size \in DiskResults : size > 0 => size > HeaderWords  \* there is code

VARIABLES
    fs_dyn_slot_used, fs_dyn_slot_size,
    in_window,  \* the slots whose cs points into the window
    fs_dyn_slot_pid,  \* the process the last exec created; the code never reads it
    loads,      \* 0 or 1: which of two successive images the window holds
    runs        \* for each slot, the image its code was loaded with

overlayVars == <<fs_dyn_slot_used, fs_dyn_slot_size, fs_dyn_slot_pid, in_window,
                 loads, runs>>

OverlayInit ==
    /\ fs_dyn_slot_used = FALSE
    /\ fs_dyn_slot_size = 0
    /\ in_window = {}
    /\ fs_dyn_slot_pid = -1
    /\ loads = 0
    /\ runs = [p \in Pid |-> 0]

-----------------------------------------------------------------------------
(* Mutant: only the process that exec created is looked at. *)
UsesSlotItself(t, p) == p = fs_dyn_slot_pid /\ t[p].state # "TERMINATED"

(* kernel_fs_dyn_pcb_uses_slot: its code begins inside the image. *)
UsesSlot(t, p) ==
    /\ t[p].state # "TERMINATED"
    /\ p \in in_window /\ HeaderWords < fs_dyn_slot_size

(* kernel_fs_dyn_gc: is the window used once it has been called? *)
UsedAfterGc(t) == fs_dyn_slot_used /\ \E p \in Pid : UsesSlot(t, p)

(* The window is refused (-6), nothing else changes. *)
ExecRefused ==
    /\ UsedAfterGc(Entry)
    /\ Resume(Entry)
    /\ UNCHANGED overlayVars

(* The image has been loaded, and something is wrong: the disk reports an  *)
(* error or a size that does not fit (-101.., -2, -3), the image is none   *)
(* (-4, -5), or no process can be made of it (-8).                         *)
ExecFails ==
    /\ ~UsedAfterGc(Entry)
    /\ Resume(Entry)
    /\ loads' \in {loads, 1 - loads}
    /\ fs_dyn_slot_used' = FALSE
    /\ fs_dyn_slot_size' = 0
    /\ fs_dyn_slot_pid' = IF fs_dyn_slot_used THEN -1 ELSE fs_dyn_slot_pid
    /\ UNCHANGED <<in_window, runs>>

(* The new process is READY and its creator yields. *)
ExecSucceeds(priority, size) ==
    /\ ~UsedAfterGc(Entry)
    /\ 0 < size /\ size <= FS_DYN_SLOT_WORDS
    /\ FreeSlots(Entry) # {}
    /\ Schedule([Entry EXCEPT ![FreePid(Entry)] = NewPCB(priority, FALSE)])
    /\ fs_dyn_slot_used' = TRUE
    /\ fs_dyn_slot_size' = size
    /\ loads' = 1 - loads
    /\ in_window' = in_window \cup {FreePid(Entry)}
    /\ fs_dyn_slot_pid' = FreePid(Entry)
    /\ runs' = [runs EXCEPT ![FreePid(Entry)] = loads']

(* kernel_fs_exec() *)
FsExec(priority) ==
    /\ UserMode
    /\ \/ ExecRefused
       \/ ExecFails
       \/ \E size \in DiskResults : ExecSucceeds(priority, size)

-----------------------------------------------------------------------------
(* kernel_spawn and kernel_thread_create: a child runs its creator's code. *)
SpawnSameCode(priority, is_thread) ==
    /\ UserMode
    /\ UNCHANGED <<fs_dyn_slot_used, fs_dyn_slot_size, fs_dyn_slot_pid, loads>>
    /\ \/ /\ Created(priority, is_thread)
          /\ in_window' = IF current_pid \in in_window
                          THEN in_window \cup {FreePid(Entry)}
                          ELSE in_window \ {FreePid(Entry)}
          /\ runs' = [runs EXCEPT ![FreePid(Entry)] = runs[current_pid]]
       \/ /\ Resume(Entry)
          /\ UNCHANGED <<in_window, runs>>

(* The calls that load no program and create no process. *)
SameCode ==
    \/ SchedulerStep
    \/ Yield
    \/ LightCall
    \/ Exit
    \/ ThreadExit
    \/ Fault
    \/ \E target \in PidArgument : Wait(target)
    \/ \E target \in PidArgument, signal \in Signals : Kill(target, signal)
    \/ \E ticks \in SleepTicks : Sleep(ticks)
    \/ \E ticks \in AlarmTicks : Alarm(ticks)
    \/ Pause
    \/ \E installed \in BOOLEAN : Signal(installed)
    \/ Sigreturn

OverlayNext ==
    \/ \E priority \in Priorities : FsExec(priority)
    \/ \E priority \in Priorities, is_thread \in BOOLEAN :
           SpawnSameCode(priority, is_thread)
    \/ SameCode /\ UNCHANGED overlayVars

OverlaySpec ==
    SchedInit /\ OverlayInit /\ [][OverlayNext]_<<schedVars, overlayVars>>

-----------------------------------------------------------------------------
RunsInWindow(p) == p \in in_window /\ pcb[p].state # "TERMINATED"

(* No program is overwritten while a process runs it: the image in the     *)
(* window is the one its live processes were started from, whichever of    *)
(* them ended first, whose slots were reused, and however many exec calls  *)
(* were refused or failed meanwhile.                                       *)
WindowStable ==
    \A p \in Pid : RunsInWindow(p) => fs_dyn_slot_used /\ runs[p] = loads
=============================================================================
