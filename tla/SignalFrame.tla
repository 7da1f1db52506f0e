---------------------------- MODULE SignalFrame ----------------------------
(***************************************************************************)
(* What one process sees of the kernel: its registers, the frame the       *)
(* kernel pushes on its stack at every trap, the delivery of a signal,     *)
(* which redirects that frame to the handler, and sigreturn, which is to   *)
(* undo it (kernel/sys_main.c, sys_signal_inject.inc, sys_signal.c).       *)
(*                                                                         *)
(* A trap is two steps, because other processes may run between the push   *)
(* and the pop, and post a signal meanwhile.  The frame is the 11 words    *)
(* from the stack pointer up.  The handler starts with the stack pointer   *)
(* just above them, so what it pushes overwrites them, the last first, and *)
(* its own traps have their frame further down.                            *)
(*                                                                         *)
(* A word is only told by whose it is: <<register, n>> is the content of a *)
(* register of the main program after n steps.                             *)
(***************************************************************************)
EXTENDS Sequences, Integers, Functions

CONSTANT Steps  \* the steps of the main program that are told apart

ASSUME StepsAssumption == Steps \in Nat

(* The temporaries of the compiler, saved with flags and pc.  PushOrder:   *)
(* INT pushes pc and flags, the trap pushes the rest (the stack grows      *)
(* downwards).  The other orders are from the top of the stack.            *)
PushOrder == <<"pc", "flags", "ptr", "idx", "lhs", "val", "left_cond", "left",
               "right", "arr_base", "step">>

(* Mutant: two words are popped in the order in which they were pushed.    *)
PopOrderSwapped == <<"arr_base", "step", "right", "left", "left_cond", "val",
                     "lhs", "idx", "ptr", "flags", "pc">>

PopOrder == <<"step", "arr_base", "right", "left", "left_cond", "val", "lhs",
              "idx", "ptr", "flags", "pc">>

(* Mutant: the words the kernel saved before arr_base and step existed.    *)
InjectOrderWithoutStep == <<"right", "left", "left_cond", "val", "lhs", "idx",
                            "ptr", "flags", "pc", "arr_base", "step">>

InjectOrder == <<"step", "arr_base", "right", "left", "left_cond", "val", "lhs",
                 "idx", "ptr", "flags", "pc">>

SigreturnOrder == <<"ptr", "idx", "lhs", "val", "left_cond", "left", "right",
                    "flags", "pc">>

Register == Range(PushOrder)
Offset == 1 .. Len(PushOrder)

VARIABLES
    regs,        \* registers and temporaries of the process
    ac,          \* the accumulator, in the CPU or in the PCB
    frame,       \* the words of its stack a frame takes, for the main
                 \* program and for the handler
    trapped,     \* it is in the kernel or has lost the CPU
    installed,   \* signal() has been called
    pending,     \* a signal is pending
    in_signal,
    saved,       \* the fields sig_saved_* and saved_pc, by register
    saved_ac,
    interrupted  \* what the main program had in regs and ac when redirected

signalVars == <<pending, in_signal, saved, saved_ac, interrupted>>

frameVars == <<regs, ac, frame, trapped, installed, signalVars>>

Code == {"main", "handler"}

Executing == IF in_signal THEN "handler" ELSE "main"

Main(n) == [r \in Register |-> <<r, n>>]

(* What a new process is to start with: its entry point, the flags that    *)
(* enable interrupts, and zeros.                                           *)
Created == [r \in Register |->
              IF r \in {"pc", "flags"} THEN <<r, 0>> ELSE <<"zero", 0>>]

(* kernel_build_initial_frame(), from the top of the stack: the entry      *)
(* point is the word pushed first.                                         *)
InitialFrame == [i \in Offset |->
                   CASE i = 11 -> <<"pc", 0>>
                     [] i = 10 -> <<"flags", 0>>
                     [] OTHER -> <<"zero", 0>>]

(* The process has been created and has not had the CPU. *)
FrameInit ==
    /\ regs = Created
    /\ ac = <<"zero", 0>>
    /\ frame = [who \in Code |-> InitialFrame]
    /\ trapped = TRUE
    /\ installed = FALSE
    /\ pending = FALSE
    /\ in_signal = FALSE
    /\ saved = Created
    /\ saved_ac = <<"zero", 0>>
    /\ interrupted = [regs |-> Created, ac |-> <<"zero", 0>>]

-----------------------------------------------------------------------------
(* The main program computes; pc says how far it is. *)
MainRuns ==
    /\ ~trapped /\ ~in_signal
    /\ \E n \in 1 .. Steps : regs' = Main(n) /\ ac' = <<"ac", n>>
    /\ UNCHANGED <<frame, trapped, installed, signalVars>>

(* The handler uses the registers and pushes on the stack. *)
HandlerRuns ==
    /\ ~trapped /\ in_signal
    /\ regs' = [r \in Register |-> <<r, -1>>]
    /\ ac' = <<"ac", -1>>
    /\ \E lowest \in Offset :
         frame' = [frame EXCEPT !["main"] =
                     [i \in Offset |-> IF i >= lowest THEN <<"handler", i>> ELSE @[i]]]
    /\ UNCHANGED <<trapped, installed, signalVars>>

(* A timer interrupt, or a system call, which may return a result or       *)
(* install the handler: the words go down from the last of the frame.      *)
Trap ==
    /\ ~trapped
    /\ frame' = [frame EXCEPT ![Executing] =
                    [i \in Offset |-> regs[PushOrder[Len(PushOrder) + 1 - i]]]]
    /\ ac' \in {ac, <<"result", 0>>}
    /\ trapped' = TRUE
    /\ installed' \in {installed, TRUE}
    /\ UNCHANGED <<regs, signalVars>>

(* Another process, or the clock, posts a signal. *)
Post ==
    /\ pending' = TRUE
    /\ UNCHANGED <<regs, ac, frame, trapped, installed, in_signal, saved, saved_ac,
                   interrupted>>

(* The end of dispatcher_restore_context: what the process will run with.  *)
Popped(f) == [r \in Register |-> f[CHOOSE i \in Offset : PopOrder[i] = r]]

(* Mutant: a signal is delivered to a handler that is running. *)
DeliverNested ==
    /\ trapped /\ pending /\ installed
    /\ saved' = [r \in Register |->
                    frame[Executing][CHOOSE i \in Offset : InjectOrder[i] = r]]
    /\ saved_ac' = ac
    /\ frame' = [frame EXCEPT ![Executing][11] = <<"signal_handler", 0>>]
    /\ regs' = Popped(frame'[Executing])
    /\ in_signal' = TRUE
    /\ trapped' = FALSE
    /\ interrupted' = IF in_signal THEN interrupted ELSE [regs |-> regs, ac |-> ac]
    /\ UNCHANGED <<ac, installed, pending>>

(* kernel_signal_inject() when a signal is to be delivered, and the pop.   *)
Deliver ==
    /\ trapped /\ pending /\ installed /\ ~in_signal
    /\ saved' = [r \in Register |->
                    frame["main"][CHOOSE i \in Offset : InjectOrder[i] = r]]
    /\ saved_ac' = ac
    /\ frame' = [frame EXCEPT !["main"][11] = <<"signal_handler", 0>>]
    /\ regs' = Popped(frame'["main"])
    /\ in_signal' = TRUE
    /\ trapped' = FALSE
    /\ interrupted' = [regs |-> regs, ac |-> ac]
    /\ UNCHANGED <<ac, installed, pending>>

(* The pop when there is no signal to deliver, or its handler is already   *)
(* running.                                                                *)
Restore ==
    /\ trapped
    /\ pending /\ installed => in_signal
    /\ regs' = Popped(frame[Executing])
    /\ trapped' = FALSE
    /\ UNCHANGED <<ac, frame, installed, signalVars>>

(* The handler's sigreturn(): the return address, pc and flags of that     *)
(* call and the temporaries have overwritten the frame; the saved words go *)
(* where it was, and it is popped.                                         *)
Sigreturn ==
    /\ ~trapped /\ in_signal
    /\ in_signal' = FALSE
    /\ pending' = FALSE
    /\ ac' = saved_ac
    /\ frame' = [frame EXCEPT !["main"] =
                    [i \in Offset |-> IF i <= Len(SigreturnOrder)
                                      THEN saved[SigreturnOrder[i]]
                                      ELSE <<"handler", i>>]]
    /\ regs' = Popped(frame'["main"])
    /\ UNCHANGED <<trapped, installed, saved, saved_ac, interrupted>>

FrameNext ==
    \/ MainRuns
    \/ HandlerRuns
    \/ Trap
    \/ Post
    \/ Deliver
    \/ Restore
    \/ Sigreturn

FrameSpec == FrameInit /\ [][FrameNext]_frameVars

-----------------------------------------------------------------------------
(* While a handler runs, the kernel keeps everything the main program had  *)
(* when it was redirected: the order in which kernel_signal_inject reads   *)
(* the frame is the order in which the trap pushed it.                     *)
SavedIsInterrupted ==
    in_signal => saved = interrupted.regs /\ saved_ac = interrupted.ac

(* Losing the CPU is invisible: a process that no signal reaches comes     *)
(* back from any trap with the registers it had, and the one a signal      *)
(* reaches differs only in pc, which is the handler's.                     *)
TrapStep ==
    trapped /\ ~trapped' =>
        \A r \in Register : (r = "pc" /\ in_signal') \/ regs'[r] = regs[r]

TrapTransparent == [][TrapStep]_frameVars

(* sigreturn "retorna do handler" (README.md:1104): the main program goes  *)
(* on where the signal interrupted it, with the registers it had.          *)
SigreturnStep ==
    in_signal /\ ~in_signal' => [regs |-> regs', ac |-> ac'] = interrupted

SigreturnReturns == [][SigreturnStep]_frameVars
=============================================================================
