----------------------------- MODULE Resources -----------------------------
(***************************************************************************)
(* The memory processes own, added to the actions of Process:              *)
(* kernel_spawn and kernel_thread_create take blocks of the heap,          *)
(* kernel_release_process_resources gives them back whichever way a        *)
(* process ends, and shared segments (kernel/sys_shm.c) are never given    *)
(* back.                                                                   *)
(*                                                                         *)
(* malloc() is used through what Allocator promises: it returns a block    *)
(* that is not in use, or 0.  A block is one of Blocks, whatever words it  *)
(* has.                                                                    *)
(***************************************************************************)
EXTENDS Process, FiniteSets

CONSTANTS
    Blocks,       \* blocks the heap can have in use at once
    Null,         \* the pointer 0
    Image,        \* stands for a data area inside an overlay, not in the heap
    Keys,         \* keys of shared segments
    SHM_ENTRIES   \* entries of shm_keys and shm_addrs

ASSUME ResourcesAssumption ==
    /\ Null \notin Blocks
    /\ Image \notin Blocks
    /\ Image # Null
    /\ SHM_ENTRIES \in Nat

VARIABLES
    own,     \* mem_base, data_is_heap and stack_mem of the process table
    in_use,  \* blocks malloc() has given out and free() has not taken back
    shm      \* the segments: for each key in use, its block

memoryVars == <<own, in_use, shm>>

Owned == [mem_base : Blocks \cup {Image, Null}, data_is_heap : BOOLEAN,
          stack_mem : Blocks \cup {Null}]

Nothing == [mem_base |-> Null, data_is_heap |-> FALSE, stack_mem |-> Null]

(* boot_overlays(): a stack for each overlay, whose data is in its image.  *)
ResourcesInit ==
    /\ SchedInit
    /\ \E stack \in [0 .. Overlays - 1 -> Blocks] :
         /\ \A p, q \in 0 .. Overlays - 1 : p # q => stack[p] # stack[q]
         /\ own = [p \in Pid |->
                     IF p < Overlays
                     THEN [mem_base |-> Image, data_is_heap |-> FALSE,
                           stack_mem |-> stack[p]]
                     ELSE Nothing]
         /\ in_use = {stack[p] : p \in 0 .. Overlays - 1}
    /\ shm = [key \in {} |-> Null]

-----------------------------------------------------------------------------
(* The end of a process. *)

(* Mutant: the data is released without asking who else uses it.           *)
NeverShared(t, pid) == FALSE

(* kernel_data_is_shared_elsewhere: a live process of table t other than   *)
(* pid has the same data.                                                  *)
SharedElsewhere(t, pid) ==
    \E p \in Pid \ {pid} :
        t[p].state # "TERMINATED" /\ own[p].mem_base = own[pid].mem_base

(* Mutant: only the stack is given back.                                   *)
FreedStackOnly(t, pid) == {own[pid].stack_mem} \ {Null}

(* The blocks kernel_release_process_resources hands to free(). *)
Freed(t, pid) ==
    ({own[pid].stack_mem} \ {Null})
    \cup {b \in {own[pid].mem_base} \ {Null} :
            own[pid].data_is_heap /\ ~SharedElsewhere(t, pid)}

(* kernel_release_process_resources, called while the table is t. *)
ReleaseResources(t, pid) ==
    /\ in_use' = in_use \ Freed(t, pid)
    /\ own' = [own EXCEPT ![pid] = Nothing]
    /\ UNCHANGED shm

KeepResources == UNCHANGED memoryVars

ExitReleasing == Exit /\ ReleaseResources(Entry, current_pid)

ThreadExitReleasing ==
    /\ ThreadExit
    /\ IF pcb[current_pid].is_thread THEN ReleaseResources(Entry, current_pid)
                                     ELSE KeepResources

FaultReleasing == Fault /\ ReleaseResources(pcb, current_pid)

KillReleasing(target, signal) ==
    /\ Kill(target, signal)
    /\ IF signal = SIGKILL /\ Alive(Entry, target)
       THEN ReleaseResources(Entry, target)
       ELSE KeepResources

-----------------------------------------------------------------------------
(* The creation of a process. *)

(* No free slot, or malloc returned 0; the block the first malloc of       *)
(* kernel_spawn gave, if any, has been given back.                         *)
NotCreated == UserMode /\ Resume(Entry) /\ KeepResources

(* kernel_spawn: the child has a copy of its creator's data. *)
SpawnProcess(priority) ==
    \/ NotCreated
    \/ /\ UserMode
       /\ Created(priority, FALSE)
       /\ \E data, stack \in Blocks \ in_use :
            /\ data # stack
            /\ in_use' = in_use \cup {data, stack}
            /\ own' = [own EXCEPT ![FreePid(Entry)] =
                         [mem_base |-> data, data_is_heap |-> TRUE,
                          stack_mem |-> stack]]
       /\ UNCHANGED shm

(* kernel_thread_create: the thread shares its creator's data. *)
CreateThread(priority) ==
    \/ NotCreated
    \/ /\ UserMode
       /\ Created(priority, TRUE)
       /\ \E stack \in Blocks \ in_use :
            /\ in_use' = in_use \cup {stack}
            /\ own' = [own EXCEPT ![FreePid(Entry)] =
                         [own[current_pid] EXCEPT !.stack_mem = stack]]
       /\ UNCHANGED shm

-----------------------------------------------------------------------------
(* kernel_shmget(): the segment of the key, a new one when the key is new  *)
(* and the table has room.                                                 *)
Shmget(key) ==
    /\ UserMode
    /\ Resume(Entry)
    /\ UNCHANGED own
    /\ \/ UNCHANGED <<in_use, shm>>  \* known, or no entry, or malloc returned 0
       \/ /\ key \notin DOMAIN shm
          /\ Cardinality(DOMAIN shm) < SHM_ENTRIES
          /\ \E block \in Blocks \ in_use :
               /\ in_use' = in_use \cup {block}
               /\ shm' = [k \in DOMAIN shm \cup {key} |->
                            IF k = key THEN block ELSE shm[k]]

(* The calls that neither create nor end a process. *)
OtherCall ==
    \/ Yield
    \/ LightCall
    \/ \E target \in PidArgument : Wait(target)
    \/ \E ticks \in SleepTicks : Sleep(ticks)
    \/ \E ticks \in AlarmTicks : Alarm(ticks)
    \/ Pause
    \/ \E installed \in BOOLEAN : Signal(installed)
    \/ Sigreturn

ResourcesNext ==
    \/ ExitReleasing
    \/ ThreadExitReleasing
    \/ FaultReleasing
    \/ \E target \in PidArgument, signal \in Signals : KillReleasing(target, signal)
    \/ \E priority \in Priorities : SpawnProcess(priority) \/ CreateThread(priority)
    \/ \E key \in Keys : Shmget(key)
    \/ (SchedulerStep \/ OtherCall) /\ KeepResources

ResourcesSpec == ResourcesInit /\ [][ResourcesNext]_<<schedVars, memoryVars>>

-----------------------------------------------------------------------------
Live == {p \in Pid : pcb[p].state # "TERMINATED"}

Segments == {shm[key] : key \in DOMAIN shm}

(* The blocks a process has a right to: its stack and its data. *)
Holds(p) == {own[p].stack_mem} \cup {b \in {own[p].mem_base} : own[p].data_is_heap}

(* The memory variables have their types, and a free slot owns nothing.    *)
ResourcesTypeOK ==
    /\ own \in [Pid -> Owned]
    /\ in_use \subseteq Blocks
    /\ DOMAIN shm \subseteq Keys
    /\ \A p \in Pid \ Live : own[p] = Nothing

(* No use after free and no double free: whatever a live process or a      *)
(* shared segment uses is still allocated.  In particular the data of a    *)
(* process outlives it as long as one of its threads lives.                *)
NothingFreedInUse ==
    /\ \A p \in Live : Holds(p) \subseteq in_use
    /\ Segments \subseteq in_use

(* Nobody writes on another's memory: a stack belongs to one process and   *)
(* is nobody's data, and a segment is neither.                             *)
StacksPrivate ==
    \A p \in Live :
        /\ own[p].stack_mem \notin Segments
        /\ own[p].mem_base \notin Segments
        /\ \A q \in Live :
             /\ p # q => own[p].stack_mem # own[q].stack_mem
             /\ own[p].stack_mem # own[q].mem_base

(* The two together: no process can write on memory that is not its own.   *)
MemorySafe == NothingFreedInUse /\ StacksPrivate

(* No leak: a block still allocated is used by a live process or is a      *)
(* shared segment, in whatever order a process and its threads end.        *)
NothingLeaks == in_use = (UNION {Holds(p) : p \in Live}) \cup Segments
=============================================================================
