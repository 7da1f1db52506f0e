------------------------------- MODULE Pipe -------------------------------
(***************************************************************************)
(* The kernel pipe (kernel/sys_pipe.c): one ring of PIPE_SIZE words for    *)
(* the whole system.  A process that finds the ring full or empty waits,   *)
(* and the library (user/usr_pipe.c) repeats the call when it runs again,  *)
(* so a call that fails leaves no trace but the waiting.                   *)
(*                                                                         *)
(* Any process makes any of the two calls at any time, which covers the    *)
(* loops of the library and programs that call the kernel directly.        *)
(***************************************************************************)
EXTENDS Process, Sequences

CONSTANTS
    PIPE_SIZE,  \* words in the ring
    Values      \* what is written; -1 means "empty" to a reader

ASSUME PipeAssumption ==
    /\ PIPE_SIZE \in Nat \ {0}
    /\ Values \subseteq Int \ {-1}

VARIABLES
    pipe_buffer, pipe_head, pipe_tail, pipe_count,
    delivered  \* the value the last read_pipe() that succeeded returned

pipeVars == <<pipe_buffer, pipe_head, pipe_tail, pipe_count, delivered>>

Index == 0 .. PIPE_SIZE - 1

PipeInit ==
    /\ SchedInit
    /\ pipe_buffer = [i \in Index |-> 0]
    /\ pipe_head = 0
    /\ pipe_tail = 0
    /\ pipe_count = 0
    /\ delivered = -1

Advance(i) == IF i + 1 = PIPE_SIZE THEN 0 ELSE i + 1

(* Mutant: only the first process is woken, and it may be the wrong one.   *)
WokenFirst(t, s) ==
    [p \in Pid |-> IF t[p].state = s /\ \A q \in Pid : t[q].state = s => p <= q
                   THEN [t[p] EXCEPT !.state = "READY"] ELSE t[p]]

(* Every process waiting in state s, because the first to run may take the *)
(* only value, or the only place, there is.                                *)
Woken(t, s) ==
    [p \in Pid |-> IF t[p].state = s THEN [t[p] EXCEPT !.state = "READY"]
                                     ELSE t[p]]

WritePipe(val) ==
    /\ UserMode
    /\ \/ /\ pipe_count = PIPE_SIZE
          /\ Schedule(Stopped(Entry, "WAITING_PIPE_WRITE"))
          /\ UNCHANGED pipeVars
       \/ /\ pipe_count # PIPE_SIZE
          /\ pipe_buffer' = [pipe_buffer EXCEPT ![pipe_head] = val]
          /\ pipe_head' = Advance(pipe_head)
          /\ pipe_count' = pipe_count + 1
          /\ Resume(Woken(Entry, "WAITING_PIPE_READ"))
          /\ UNCHANGED <<pipe_tail, delivered>>

(* Mutant: the last place written is read, as in a stack. *)
ReadPipeNewest ==
    /\ UserMode
    /\ \/ /\ pipe_count = 0
          /\ Schedule(Stopped(Entry, "WAITING_PIPE_READ"))
          /\ UNCHANGED pipeVars
       \/ /\ pipe_count # 0
          /\ LET last == IF pipe_head = 0 THEN PIPE_SIZE - 1 ELSE pipe_head - 1
             IN  delivered' = pipe_buffer[last] /\ pipe_head' = last
          /\ pipe_count' = pipe_count - 1
          /\ Resume(Woken(Entry, "WAITING_PIPE_WRITE"))
          /\ UNCHANGED <<pipe_buffer, pipe_tail>>

ReadPipe ==
    /\ UserMode
    /\ \/ /\ pipe_count = 0
          /\ Schedule(Stopped(Entry, "WAITING_PIPE_READ"))
          /\ UNCHANGED pipeVars
       \/ /\ pipe_count # 0
          /\ delivered' = pipe_buffer[pipe_tail]
          /\ pipe_tail' = Advance(pipe_tail)
          /\ pipe_count' = pipe_count - 1
          /\ Resume(Woken(Entry, "WAITING_PIPE_WRITE"))
          /\ UNCHANGED <<pipe_buffer, pipe_head>>

PipeNext ==
    \/ \E val \in Values : WritePipe(val)
    \/ ReadPipe
    \/ Next /\ UNCHANGED pipeVars

PipeSpec == PipeInit /\ [][PipeNext]_<<schedVars, pipeVars>>

-----------------------------------------------------------------------------
(* The ring is well formed: the two ends and the count never disagree.     *)
PipeTypeOK ==
    /\ TypeOK
    /\ pipe_buffer \in [Index -> Values \cup {0}]
    /\ pipe_head \in Index
    /\ pipe_tail \in Index
    /\ pipe_count \in 0 .. PIPE_SIZE
    /\ pipe_head = (pipe_tail + pipe_count) % PIPE_SIZE
    /\ delivered \in Values \cup {-1}

(* What the ring stores, oldest first. *)
Contents ==
    [i \in 1 .. pipe_count |-> pipe_buffer[(pipe_tail + i - 1) % PIPE_SIZE]]

(* The ring is a bounded FIFO channel: whoever writes and reads, in any    *)
(* order and across any switches, every value whose write succeeded is     *)
(* read once, in the order of the writes, and no read returns anything     *)
(* else.                                                                   *)
AsChannel == INSTANCE Channel
               WITH queue <- Contents, delivered <- delivered, Capacity <- PIPE_SIZE

IsChannel == AsChannel!ChannelSpec

(* No wakeup of the pipe is lost: a process waits for data only while the  *)
(* ring is empty and for room only while it is full.  All waiting must be  *)
(* woken, not one, and the caller must sleep in the same trap that finds   *)
(* the ring unusable.  In particular readers and writers never wait at the *)
(* same time.                                                              *)
NobodyMissesPipe ==
    \A p \in Pid :
        /\ pcb[p].state = "WAITING_PIPE_READ" => pipe_count = 0
        /\ pcb[p].state = "WAITING_PIPE_WRITE" => pipe_count = PIPE_SIZE
=============================================================================
