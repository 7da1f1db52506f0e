------------------------------ MODULE Mailbox ------------------------------
(***************************************************************************)
(* The mailboxes (kernel/sys_msg.c): one word for each slot of the process *)
(* table, 0 when empty.  No call waits.  A box belongs to the slot, not to *)
(* the process in it: the end of a process leaves its letter in the box,   *)
(* and a letter to a free slot is accepted.                                *)
(***************************************************************************)
EXTENDS Process, Sequences

CONSTANT Letters  \* what is sent; 0 means "empty", so it is no letter

ASSUME MailboxAssumption == Letters \subseteq Int \ {0, -1}

VARIABLES
    ipc_mailbox,
    received  \* for each slot, what the last msg_recv() that found a letter returned

mailboxVars == <<ipc_mailbox, received>>

MailboxInit ==
    /\ ipc_mailbox = [p \in Pid |-> 0]
    /\ received = [p \in Pid |-> -1]

(* Mutant: the letter in the box is overwritten. *)
MsgSendAnyway(target, msg) ==
    /\ UserMode
    /\ Resume(Entry)
    /\ target \in Pid
    /\ ipc_mailbox' = [ipc_mailbox EXCEPT ![target] = msg]
    /\ UNCHANGED received

(* kernel_msg_send() returns 1 in the first case, 0 in the other. *)
MsgSend(target, msg) ==
    /\ UserMode
    /\ Resume(Entry)
    /\ UNCHANGED received
    /\ \/ /\ target \in Pid
          /\ ipc_mailbox[target] = 0
          /\ ipc_mailbox' = [ipc_mailbox EXCEPT ![target] = msg]
       \/ /\ target \in Pid => ipc_mailbox[target] # 0
          /\ UNCHANGED ipc_mailbox

(* kernel_msg_recv() *)
MsgRecv ==
    /\ UserMode
    /\ Resume(Entry)
    /\ \/ /\ ipc_mailbox[current_pid] # 0
          /\ received' = [received EXCEPT ![current_pid] = ipc_mailbox[current_pid]]
          /\ ipc_mailbox' = [ipc_mailbox EXCEPT ![current_pid] = 0]
       \/ /\ ipc_mailbox[current_pid] = 0
          /\ UNCHANGED mailboxVars

MailboxNext ==
    \/ \E target \in PidArgument, msg \in Letters : MsgSend(target, msg)
    \/ MsgRecv
    \/ Next /\ UNCHANGED mailboxVars

MailboxSpec ==
    SchedInit /\ MailboxInit /\ [][MailboxNext]_<<schedVars, mailboxVars>>

-----------------------------------------------------------------------------
(* Each box is a channel for one letter: a letter accepted is delivered    *)
(* once, to the slot it was addressed to, before the next is accepted,     *)
(* whoever sends, whoever dies and however the CPU changes hands between   *)
(* the two calls.                                                          *)
Letter(p) == IF ipc_mailbox[p] = 0 THEN <<>> ELSE <<ipc_mailbox[p]>>

Box(p) == INSTANCE Channel WITH queue <- Letter(p), delivered <- received[p],
                                Capacity <- 1, Values <- Letters

BoxesAreChannels ==
    /\ \A p \in Pid : Box(p)!ChannelInit
    /\ [][\A p \in Pid : [Box(p)!ChannelNext]_<<Letter(p), received[p]>>]_mailboxVars
=============================================================================
