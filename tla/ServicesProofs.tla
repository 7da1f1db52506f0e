-------------------------- MODULE ServicesProofs --------------------------
(***************************************************************************)
(* The services of the kernel that hang on the slots of the process table: *)
(* the mailboxes, the banks of the devices and the window of the programs  *)
(* loaded at run time.  What they need of the table (who is born, that     *)
(* nobody is born otherwise) is proved in ProcessProofs.                   *)
(***************************************************************************)
EXTENDS Mailbox, Devices, Launcher, ProcessProofs

(* Every step of the process table, a stuttering one too, keeps it whole.  *)
LEMMA TableInv ==
    ASSUME Inv, Next \/ UNCHANGED schedVars
    PROVE  Inv'
<1>1. CASE Next
  BY <1>1, NextInv DEF Kept
<1>2. CASE UNCHANGED schedVars
  BY <1>2 DEF schedVars, Inv, SchedInv, SchedTypeOK, OneRunning, WorkConserving,
     Effective, NoneAlive, DeliveredOnReturn, NoStaleWaiter, Alive
<1> QED BY <1>1, <1>2

-----------------------------------------------------------------------------
(* The mailboxes. *)

MailboxInv ==
    /\ Inv
    /\ ipc_mailbox \in [Pid -> Letters \cup {0}]
    /\ received \in [Pid -> Letters \cup {-1}]

BoxesStep == \A p \in Pid : [Box(p)!ChannelNext]_<<Letter(p), received[p]>>

(* A letter is put in an empty box, and nothing else moves. *)
LEMMA SendStep ==
    ASSUME MailboxInv, NEW target \in Pid, NEW msg \in Letters,
           ipc_mailbox[target] = 0, received' = received,
           ipc_mailbox' = [ipc_mailbox EXCEPT ![target] = msg]
    PROVE  BoxesStep
<1> SUFFICES ASSUME NEW p \in Pid
             PROVE  [Box(p)!ChannelNext]_<<Letter(p), received[p]>>
  BY DEF BoxesStep
<1>1. CASE p = target
  <2>1. msg # 0
    BY MailboxAssumption
  <2>2. ipc_mailbox'[p] = msg
    BY <1>1 DEF MailboxInv
  <2>3. Letter(p) = <<>> /\ Letter(p)' = <<msg>>
    BY <1>1, <2>1, <2>2 DEF Letter
  <2>4. Len(Letter(p)) < 1 /\ Letter(p)' = Append(Letter(p), msg)
    BY <2>3
  <2>5. Box(p)!Write(msg)
    BY <2>4 DEF Box!Write
  <2> QED BY <2>5 DEF Box!ChannelNext
<1>2. CASE p # target
  <2>1. ipc_mailbox'[p] = ipc_mailbox[p]
    BY <1>2 DEF MailboxInv
  <2> QED BY <2>1 DEF Letter
<1> QED BY <1>1, <1>2

(* A letter is taken out of its box by the owner of the slot. *)
LEMMA RecvStep ==
    ASSUME MailboxInv, NEW c \in Pid, ipc_mailbox[c] # 0,
           received' = [received EXCEPT ![c] = ipc_mailbox[c]],
           ipc_mailbox' = [ipc_mailbox EXCEPT ![c] = 0]
    PROVE  BoxesStep
<1> SUFFICES ASSUME NEW p \in Pid
             PROVE  [Box(p)!ChannelNext]_<<Letter(p), received[p]>>
  BY DEF BoxesStep
<1>1. CASE p = c
  <2>1. ipc_mailbox'[p] = 0 /\ received'[p] = ipc_mailbox[p]
    BY <1>1 DEF MailboxInv
  <2>2. Letter(p) = <<ipc_mailbox[p]>> /\ Letter(p)' = <<>>
    BY <1>1, <2>1 DEF Letter
  <2>3. /\ Letter(p) # <<>>
        /\ Head(Letter(p)) = ipc_mailbox[p]
        /\ Tail(Letter(p)) = <<>>
    BY <2>2
  <2>4. Box(p)!Read
    BY <2>1, <2>2, <2>3 DEF Box!Read
  <2> QED BY <2>4 DEF Box!ChannelNext
<1>2. CASE p # c
  <2>1. ipc_mailbox'[p] = ipc_mailbox[p] /\ received'[p] = received[p]
    BY <1>2 DEF MailboxInv
  <2> QED BY <2>1 DEF Letter
<1> QED BY <1>1, <1>2

LEMMA MailboxNextInv ==
    ASSUME MailboxInv, [MailboxNext]_<<schedVars, mailboxVars>>
    PROVE  MailboxInv' /\ [BoxesStep]_mailboxVars
<1>1. Inv /\ current_pid \in Pid
  BY DEF MailboxInv, Inv, SchedInv, SchedTypeOK
<1>2. CASE UNCHANGED <<schedVars, mailboxVars>>
  BY <1>1, <1>2, TableInv DEF MailboxInv, mailboxVars
<1>3. CASE Next /\ UNCHANGED mailboxVars
  BY <1>1, <1>3, TableInv DEF MailboxInv, mailboxVars
<1>4. ASSUME NEW target \in PidArgument, NEW msg \in Letters, MsgSend(target, msg)
      PROVE  MailboxInv' /\ [BoxesStep]_mailboxVars
  <2>1. Inv'
    BY <1>1, <1>4, PlainCall DEF MsgSend
  <2>2. CASE UNCHANGED mailboxVars
    BY <2>1, <2>2 DEF MailboxInv, mailboxVars
  <2>3. ASSUME target \in Pid, ipc_mailbox[target] = 0, received' = received,
               ipc_mailbox' = [ipc_mailbox EXCEPT ![target] = msg]
        PROVE  MailboxInv' /\ BoxesStep
    BY <2>1, <2>3, SendStep DEF MailboxInv
  <2> QED BY <1>4, <2>2, <2>3 DEF MsgSend, mailboxVars
<1>5. CASE MsgRecv
  <2>1. Inv'
    BY <1>1, <1>5, PlainCall DEF MsgRecv
  <2>2. CASE UNCHANGED mailboxVars
    BY <2>1, <2>2 DEF MailboxInv, mailboxVars
  <2>3. ASSUME ipc_mailbox[current_pid] # 0,
               received' = [received EXCEPT ![current_pid] = ipc_mailbox[current_pid]],
               ipc_mailbox' = [ipc_mailbox EXCEPT ![current_pid] = 0]
        PROVE  MailboxInv' /\ BoxesStep
    BY <1>1, <2>1, <2>3, RecvStep DEF MailboxInv
  <2> QED BY <1>5, <2>2, <2>3 DEF MsgRecv
<1> QED BY <1>2, <1>3, <1>4, <1>5 DEF MailboxNext

(* The mailbox of every slot implements a channel for one letter, for any  *)
(* number of slots, any letters and whatever the processes do besides.     *)
THEOREM MailboxesAreChannels == MailboxSpec => BoxesAreChannels
<1>1. SchedInit /\ MailboxInit => MailboxInv
  BY InitInv DEF MailboxInit, MailboxInv
<1>2. MailboxInit => \A p \in Pid : Box(p)!ChannelInit
  BY DEF MailboxInit, Box!ChannelInit, Letter
<1>3. MailboxInv /\ [MailboxNext]_<<schedVars, mailboxVars>>
      => MailboxInv' /\ [BoxesStep]_mailboxVars
  BY MailboxNextInv
<1>4. BoxesAreChannels <=> /\ \A p \in Pid : Box(p)!ChannelInit
                           /\ [][BoxesStep]_mailboxVars
  BY DEF BoxesAreChannels, BoxesStep
<1> QED BY <1>1, <1>2, <1>3, <1>4, PTL DEF MailboxSpec

-----------------------------------------------------------------------------
(* The devices. *)

(* A call fills what its command reads: the arguments of the registers, or *)
(* the FIFO, and never the result.                                         *)
LEMMA CallsFill ==
    ASSUME NEW c \in Calls
    PROVE  /\ c.device \in Device
           /\ c.path \in Seq(Number)
           /\ Words(c) \in Nat
           /\ c.path # <<>> => Words(c) = 1 + Len(c.path) /\ Reads(c.command) = {"TX"}
           /\ c.path = <<>> =>
                /\ Words(c) = Len(c.order)
                /\ \A n \in 1 .. Words(c) : c.order[n] \notin {"TX", "RESULT"}
                /\ \A m, n \in 1 .. Words(c) : c.order[m] = c.order[n] => m = n
                /\ \A r \in Reads(c.command) : \E n \in 1 .. Words(c) : r = c.order[n]
                /\ \A n \in 1 .. Words(c) : c.order[n] \in Register(c.device)
           /\ "RESULT" \in Register(c.device)
           /\ c.path # <<>> => "TX" \in Register(c.device)
<1>1. c.path \in Seq(Number) /\ IsLibraryCall(c)
  BY DevicesAssumption
<1>2. CASE \E s, ip, port \in Number, command \in {"connect", "bind", "sendto"} :
               c = Configured(command, s, ip, port)
  BY <1>1, <1>2 DEF Configured, Reads, Words, Register, Device
<1>3. CASE \E s, backlog \in Number : c = Listening(s, backlog)
  BY <1>1, <1>3 DEF Listening, Reads, Words, Register, Device
<1>4. CASE \E s \in Number, command \in {"accept", "recvfrom", "poll", "net_close"} :
               c = Selecting(command, s)
  BY <1>1, <1>4 DEF Selecting, Reads, Words, Register, Device
<1>5. CASE c = TakingSocket
  BY <1>1, <1>5 DEF TakingSocket, Reads, Words, Register, Device
<1>6. CASE /\ c.path # <<>>
           /\ \E command \in {"open", "exists", "delete"} : c = Naming(command, c.path)
  <2>1. PICK command \in {"open", "exists", "delete"} : c = Naming(command, c.path)
    BY <1>6
  <2>2. c.device = "disk" /\ c.command = command
    BY <2>1 DEF Naming
  <2>3. Reads(c.command) = {"TX"}
    BY <2>2 DEF Reads
  <2> QED BY <1>1, <1>6, <2>2, <2>3 DEF Words, Register, Device
<1>7. CASE \E fd \in Number, command \in {"read_byte", "fs_close"} : c = Reading(command, fd)
  BY <1>1, <1>7 DEF Reading, Reads, Words, Register, Device
<1>8. CASE \E fd, value \in Number : c = Writing(fd, value)
  BY <1>1, <1>8 DEF Writing, Reads, Words, Register, Device
<1> QED BY <1>1, <1>2, <1>3, <1>4, <1>5, <1>6, <1>7, <1>8 DEF IsLibraryCall

(* What a call has put into the registers by its n-th word. *)
Filled(c, n, registers) ==
    /\ c.path = <<>> =>
         \A m \in 1 .. Words(c) : m < n => registers[c.order[m]] = c.args[c.order[m]]
    /\ c.path # <<>> /\ n \in 2 .. Words(c) + 1 => registers.TX = SubSeq(c.path, 1, n - 2)

Held(c, n, answer, registers) ==
    /\ c \in Calls
    /\ n \in 1 .. Words(c) + 2
    /\ n <= Words(c) + 1 => Filled(c, n, registers)
    /\ n = Words(c) + 2 => registers.RESULT = answer

CallHeld(p) == Held(call[p].of, call[p].at, call[p].answer, bank[call[p].of.device][p])

Banks ==
    /\ DOMAIN selected = Device
    /\ DOMAIN bank = Device
    /\ \A d \in Device : DOMAIN bank[d] = Pid
    /\ \A d \in Device, p \in Pid : DOMAIN bank[d][p] = Register(d)

DevicesInv ==
    /\ Inv
    /\ Banks
    /\ DOMAIN call = Pid
    /\ \A p \in Pid : call[p].at # 0 => CallHeld(p)

(* A word goes to the bank of its process, and no other bank changes. *)
LEMMA WordForwarded ==
    ASSUME DevicesInv, NEW d \in Device, NEW registers, DOMAIN registers = Register(d),
           Forward(d, registers)
    PROVE  /\ Inv' /\ Banks'
           /\ current_pid \in Pid
           /\ selected'[d] = current_pid
           /\ bank'[d][current_pid] = registers
           /\ \A e \in Device, p \in Pid : p # current_pid => bank'[e][p] = bank[e][p]
<1>1. current_pid \in Pid
  BY DEF DevicesInv, Inv, SchedInv, SchedTypeOK
<1>2. Inv'
  BY PlainCall DEF DevicesInv, Forward
<1>3. /\ selected' = [selected EXCEPT ![d] = current_pid]
      /\ bank' = [bank EXCEPT ![d][current_pid] = registers]
  BY DEF Forward, Context
<1>4. Banks
  BY DEF DevicesInv
<1>5. Banks'
  BY <1>1, <1>3, <1>4 DEF Banks
<1> QED BY <1>1, <1>2, <1>3, <1>4, <1>5 DEF Banks

(* The invariant after a word, by what its process then holds. *)
LEMMA WordKeeps ==
    ASSUME DevicesInv, NEW d \in Device, NEW registers, DOMAIN registers = Register(d),
           Forward(d, registers), NEW after, call' = [call EXCEPT ![current_pid] = after],
           after.at # 0 => /\ after.of.device = d
                           /\ Held(after.of, after.at, after.answer, registers)
    PROVE  DevicesInv'
<1>1. /\ Inv' /\ Banks' /\ current_pid \in Pid
      /\ bank'[d][current_pid] = registers
      /\ \A e \in Device, p \in Pid : p # current_pid => bank'[e][p] = bank[e][p]
  BY WordForwarded
<1>2. DOMAIN call' = Pid
  BY DEF DevicesInv
<1>3. ASSUME NEW p \in Pid, call'[p].at # 0
      PROVE  CallHeld(p)'
  <2>1. CASE p = current_pid
    <3>1. call'[p] = after
      BY <2>1 DEF DevicesInv
    <3>2. bank'[call'[p].of.device][p] = registers
      BY <1>1, <1>3, <2>1, <3>1
    <3> QED BY <1>3, <3>1, <3>2 DEF CallHeld, Held, Filled
  <2>2. CASE p # current_pid
    <3>1. call'[p] = call[p]
      BY <2>2 DEF DevicesInv
    <3>2. CallHeld(p)
      BY <1>3, <3>1 DEF DevicesInv
    <3>3. call[p].of.device \in Device
      BY <3>2, CallsFill DEF CallHeld, Held
    <3>4. bank'[call[p].of.device][p] = bank[call[p].of.device][p]
      BY <1>1, <2>2, <3>3
    <3> QED BY <3>1, <3>2, <3>4 DEF CallHeld, Held, Filled
  <2> QED BY <2>1, <2>2
<1> QED BY <1>1, <1>2, <1>3 DEF DevicesInv

(* What CallsAsMade says of the step of one process. *)
CallStepOf(p) ==
    pcb[p].state # "TERMINATED" /\ call[p].at > 0 =>
        /\ (call[p].at = Words(call[p].of) + 1 /\ call'[p].at = Words(call[p].of) + 2)
           => \A r \in Reads(call[p].of.command) :
                 bank[call[p].of.device][selected'[call[p].of.device]][r]
                    = Argument(call[p].of, r)
        /\ (call[p].at = Words(call[p].of) + 2 /\ call'[p].at = 0)
           => bank[call[p].of.device][selected'[call[p].of.device]].RESULT = call[p].answer

(* It says nothing of a process whose call stays where it is. *)
LEMMA CallStays ==
    ASSUME DevicesInv, NEW p \in Pid, call'[p] = call[p]
    PROVE  CallStepOf(p)
<1> SUFFICES ASSUME call[p].at > 0 PROVE CallStepOf(p)
  BY DEF CallStepOf
<1>1. call[p].of \in Calls /\ call[p].at \in 1 .. Words(call[p].of) + 2
  BY DEF DevicesInv, CallHeld, Held
<1>2. Words(call[p].of) \in Nat
  BY <1>1, CallsFill
<1> QED BY <1>1, <1>2 DEF CallStepOf

(* What the caller holds when it is in a call. *)
LEMMA CallerHolds ==
    ASSUME DevicesInv, call[current_pid].at > 0
    PROVE  /\ current_pid \in Pid
           /\ Held(call[current_pid].of, call[current_pid].at, call[current_pid].answer,
                   bank[call[current_pid].of.device][current_pid])
           /\ DOMAIN bank[call[current_pid].of.device][current_pid]
                = Register(call[current_pid].of.device)
<1>1. current_pid \in Pid
  BY DEF DevicesInv, Inv, SchedInv, SchedTypeOK
<1>2. CallHeld(current_pid)
  BY <1>1 DEF DevicesInv
<1>3. call[current_pid].of.device \in Device
  BY <1>2, CallsFill DEF CallHeld, Held
<1> QED BY <1>1, <1>2, <1>3 DEF CallHeld, DevicesInv, Banks

(* One more word fills what one more word should. *)
LEMMA RegisterFilled ==
    ASSUME NEW c \in Calls, NEW n \in 1 .. Words(c), NEW registers, c.path = <<>>,
           DOMAIN registers = Register(c.device), Filled(c, n, registers)
    PROVE  Filled(c, n + 1, [registers EXCEPT ![c.order[n]] = c.args[c.order[n]]])
<1> DEFINE after == [registers EXCEPT ![c.order[n]] = c.args[c.order[n]]]
<1>1. /\ Words(c) \in Nat
      /\ \A m \in 1 .. Words(c) : c.order[m] \in Register(c.device)
      /\ \A m \in 1 .. Words(c) : c.order[m] = c.order[n] => m = n
  BY CallsFill
<1>2. after[c.order[n]] = c.args[c.order[n]]
  BY <1>1
<1>3. \A m \in 1 .. Words(c) : m # n => after[c.order[m]] = registers[c.order[m]]
  BY <1>1
<1> HIDE DEF after
<1>4. \A m \in 1 .. Words(c) : m < n + 1 => after[c.order[m]] = c.args[c.order[m]]
  BY <1>1, <1>2, <1>3 DEF Filled
<1>5. Filled(c, n + 1, after)
  BY <1>4 DEF Filled
<1> QED BY <1>5 DEF after

LEMMA PathFilled ==
    ASSUME NEW c \in Calls, NEW n \in 1 .. Words(c), NEW registers, c.path # <<>>,
           DOMAIN registers = Register(c.device), Filled(c, n, registers)
    PROVE  /\ n = 1 => Filled(c, n + 1, [registers EXCEPT !.TX = Cleared(@)])
           /\ n > 1 => Filled(c, n + 1, [registers EXCEPT !.TX = Append(@, c.path[n - 1])])
<1>1. /\ c.path \in Seq(Number)
      /\ Words(c) = 1 + Len(c.path)
      /\ "TX" \in DOMAIN registers
  BY CallsFill
<1>2. ASSUME n = 1
      PROVE  Filled(c, n + 1, [registers EXCEPT !.TX = Cleared(@)])
  <2>1. [registers EXCEPT !.TX = Cleared(@)].TX = <<>>
    BY <1>1 DEF Cleared
  <2>2. SubSeq(c.path, 1, 0) = <<>>
    BY <1>1
  <2>3. n + 1 = 2 /\ (n + 1) - 2 = 0
    BY <1>2
  <2>4. [registers EXCEPT !.TX = Cleared(@)].TX = SubSeq(c.path, 1, (n + 1) - 2)
    BY <2>1, <2>2, <2>3
  <2> QED BY <2>4 DEF Filled
<1>3. ASSUME n > 1
      PROVE  Filled(c, n + 1, [registers EXCEPT !.TX = Append(@, c.path[n - 1])])
  <2>1. n \in 2 .. Words(c) + 1 /\ n - 2 \in 0 .. Len(c.path) - 1
    BY <1>1, <1>3
  <2>2. registers.TX = SubSeq(c.path, 1, n - 2)
    BY <2>1 DEF Filled
  <2>3. Append(SubSeq(c.path, 1, n - 2), c.path[n - 1]) = SubSeq(c.path, 1, n - 1)
    BY <1>1, <2>1
  <2>4. [registers EXCEPT !.TX = Append(@, c.path[n - 1])].TX = SubSeq(c.path, 1, n - 1)
    BY <1>1, <2>2, <2>3
  <2>5. (n + 1) - 2 = n - 1
    BY <1>1, <2>1
  <2> QED BY <2>4, <2>5 DEF Filled
<1> QED BY <1>2, <1>3

LEMMA DevicesNextInv ==
    ASSUME DevicesInv, DevicesNext
    PROVE  DevicesInv' /\ \A p \in Pid : CallStepOf(p)
<1> DEFINE c == call[current_pid].of
           n == call[current_pid].at
           registers == bank[c.device][current_pid]
<1>0. current_pid \in Pid /\ DOMAIN call = Pid
  BY DEF DevicesInv, Inv, SchedInv, SchedTypeOK
<1>a. ASSUME NEW after, call' = [call EXCEPT ![current_pid] = after]
      PROVE  /\ call'[current_pid] = after
             /\ \A p \in Pid \ {current_pid} : CallStepOf(p)
  BY <1>0, <1>a, CallStays
<1>1. ASSUME NEW d \in Calls, Begin(d)
      PROVE  DevicesInv' /\ \A p \in Pid : CallStepOf(p)
  <2> DEFINE after == [of |-> d, at |-> 1, answer |-> 0]
  <2>1. call' = [call EXCEPT ![current_pid] = after] /\ n = 0
    BY <1>1 DEF Begin
  <2>2. Inv' /\ Banks' /\ UNCHANGED bank
    <3>1. UNCHANGED <<schedVars, selected, bank>>
      BY <1>1 DEF Begin
    <3> QED BY <3>1, TableInv DEF DevicesInv, Banks
  <2>3. Held(d, 1, 0, bank[d.device][current_pid])
    BY CallsFill DEF Held, Filled
  <2>4. \A p \in Pid : call'[p].at # 0 => CallHeld(p)'
    <3> SUFFICES ASSUME NEW p \in Pid, call'[p].at # 0 PROVE CallHeld(p)'
      OBVIOUS
    <3>1. CASE p = current_pid
      <4>1. call'[p].of = d /\ call'[p].at = 1 /\ call'[p].answer = 0
        BY <1>0, <2>1, <3>1
      <4> QED BY <2>2, <2>3, <3>1, <4>1 DEF CallHeld
    <3>2. CASE p # current_pid
      <4>1. call'[p] = call[p]
        BY <1>0, <2>1, <3>2
      <4> QED BY <2>2, <4>1 DEF DevicesInv, CallHeld
    <3> QED BY <3>1, <3>2
  <2>5. CallStepOf(current_pid)
    BY <2>1 DEF CallStepOf
  <2> QED BY <1>0, <1>a, <2>1, <2>2, <2>4, <2>5 DEF DevicesInv
<1>2. CASE Word
  <2>0. n > 0 /\ n <= Words(c)
    BY <1>2 DEF Word
  <2>1. Held(c, n, call[current_pid].answer, registers) /\ DOMAIN registers = Register(c.device)
    BY <2>0, CallerHolds
  <2>2. c \in Calls /\ c.device \in Device /\ Words(c) \in Nat /\ n \in 1 .. Words(c)
    BY <2>0, <2>1, CallsFill DEF Held
  <2>3. Filled(c, n, registers)
    BY <2>1, <2>2 DEF Held
  <2> DEFINE after == [of |-> c, at |-> n + 1, answer |-> 0]
  <2>4. PICK filled : /\ Forward(c.device, filled)
                      /\ Filled(c, n + 1, filled)
                      /\ DOMAIN filled = Register(c.device)
    <3>1. CASE c.path = <<>>
      <4> DEFINE filled == [registers EXCEPT ![c.order[n]] = c.args[c.order[n]]]
      <4>1. Forward(c.device, filled)
        BY <1>2, <3>1 DEF Word, Context
      <4>2. Filled(c, n + 1, filled)
        BY <2>1, <2>2, <2>3, <3>1, RegisterFilled
      <4>3. DOMAIN filled = Register(c.device)
        BY <2>1
      <4> QED BY <4>1, <4>2, <4>3
    <3>2. CASE c.path # <<>> /\ n = 1
      <4> DEFINE filled == [registers EXCEPT !.TX = Cleared(@)]
      <4>1. Forward(c.device, filled)
        BY <1>2, <3>2, SMTT(30) DEF Word, Context
      <4>2. Filled(c, n + 1, filled)
        BY <2>1, <2>2, <2>3, <3>2, PathFilled
      <4>3. DOMAIN filled = Register(c.device)
        BY <2>1
      <4> QED BY <4>1, <4>2, <4>3
    <3>3. CASE c.path # <<>> /\ n > 1
      <4> DEFINE filled == [registers EXCEPT !.TX = Append(@, c.path[n - 1])]
      <4>0. n # 1
        BY <3>3
      <4>1. Forward(c.device, filled)
        BY <1>2, <3>3, <4>0, Zenon DEF Word, Context
      <4>2. Filled(c, n + 1, filled)
        BY <2>1, <2>2, <2>3, <3>3, PathFilled
      <4>3. DOMAIN filled = Register(c.device)
        BY <2>1
      <4> QED BY <4>1, <4>2, <4>3
    <3> QED BY <2>2, <3>1, <3>2, <3>3
  <2>5. call' = [call EXCEPT ![current_pid] = after]
    BY <1>2, <1>0 DEF Word, Proceed
  <2>6. Held(c, n + 1, 0, filled)
    BY <2>2, <2>4 DEF Held
  <2>7. DevicesInv'
    BY <2>2, <2>4, <2>5, <2>6, WordKeeps
  <2>8. CallStepOf(current_pid)
    BY <2>2 DEF CallStepOf
  <2> QED BY <1>0, <1>a, <2>5, <2>7, <2>8
<1>3. CASE Command
  <2>0. n > 0 /\ n = Words(c) + 1
    BY <1>3 DEF Command
  <2>1. Held(c, n, call[current_pid].answer, registers) /\ DOMAIN registers = Register(c.device)
    BY <2>0, CallerHolds
  <2>2. c \in Calls /\ c.device \in Device /\ Words(c) \in Nat
    BY <2>1, CallsFill DEF Held
  <2>3. Filled(c, Words(c) + 1, registers)
    BY <2>0, <2>1, <2>2 DEF Held
  <2>4. PICK answer \in Number :
            /\ Forward(c.device, [registers EXCEPT !.RESULT = answer])
            /\ call' = [call EXCEPT ![current_pid] = [of |-> c, at |-> Words(c) + 2, answer |-> answer]]
    BY <1>3, <1>0 DEF Command, Context, Proceed
  <2> DEFINE filled == [registers EXCEPT !.RESULT = answer]
             after == [of |-> c, at |-> Words(c) + 2, answer |-> answer]
  <2>5. DOMAIN filled = Register(c.device) /\ filled.RESULT = answer
    BY <2>1, <2>2, CallsFill
  <2>6. Held(c, Words(c) + 2, answer, filled)
    BY <2>2, <2>5 DEF Held
  <2>7. DevicesInv'
    <3> HIDE DEF filled
    <3>1. Forward(c.device, filled)
      BY <2>4 DEF filled
    <3> QED BY <2>2, <2>4, <2>5, <2>6, <3>1, WordKeeps
  <2>8. selected'[c.device] = current_pid
    BY <2>2, <2>4, <2>5, WordForwarded
  <2>9. ASSUME NEW r \in Reads(c.command)
        PROVE  registers[r] = Argument(c, r)
    <3>1. CASE c.path = <<>>
      <4>1. PICK m \in 1 .. Words(c) : r = c.order[m]
        BY <2>2, <3>1, CallsFill
      <4>2. r # "TX"
        BY <2>2, <3>1, <4>1, CallsFill
      <4> QED BY <2>2, <2>3, <3>1, <4>1, <4>2 DEF Filled, Argument
    <3>2. CASE c.path # <<>>
      <4>0. Reads(c.command) = {"TX"} /\ Words(c) = 1 + Len(c.path) /\ c.path \in Seq(Number)
        BY <2>2, <3>2, CallsFill
      <4>1. r = "TX" /\ Words(c) = 1 + Len(c.path) /\ c.path \in Seq(Number)
        BY <2>9, <4>0
      <4>2. registers.TX = SubSeq(c.path, 1, Len(c.path))
        BY <2>3, <3>2, <4>1 DEF Filled
      <4>3. SubSeq(c.path, 1, Len(c.path)) = c.path
        BY <4>1
      <4> QED BY <4>1, <4>2, <4>3 DEF Argument
    <3> QED BY <3>1, <3>2
  <2>10. CallStepOf(current_pid)
    BY <2>0, <2>2, <2>8, <2>9 DEF CallStepOf
  <2> QED BY <1>0, <1>a, <2>4, <2>7, <2>10
<1>4. CASE Result
  <2>0. n > 0 /\ n = Words(c) + 2
    BY <1>4 DEF Result
  <2>1. Held(c, n, call[current_pid].answer, registers) /\ DOMAIN registers = Register(c.device)
    BY <2>0, CallerHolds
  <2>2. c \in Calls /\ c.device \in Device /\ Words(c) \in Nat
    BY <2>1, CallsFill DEF Held
  <2>3. registers.RESULT = call[current_pid].answer
    BY <2>0, <2>1 DEF Held
  <2>4. /\ Forward(c.device, registers)
        /\ call' = [call EXCEPT ![current_pid] = NoCall]
    BY <1>4 DEF Result, Context
  <2>5. DevicesInv'
    <3>1. NoCall.at = 0
      BY DEF NoCall
    <3> QED BY <2>1, <2>2, <2>4, <3>1, WordKeeps
  <2>6. selected'[c.device] = current_pid
    BY <2>1, <2>2, <2>4, WordForwarded
  <2>7. CallStepOf(current_pid)
    BY <2>0, <2>2, <2>3, <2>6 DEF CallStepOf
  <2> QED BY <1>0, <1>a, <2>4, <2>5, <2>7
<1>5. CASE Elsewhere
  <2>1. Next /\ UNCHANGED <<selected, bank>>
    BY <1>5 DEF Elsewhere, Next
  <2>2. call' = [p \in Pid |-> IF Newborn(p) THEN NoCall ELSE call[p]]
    BY <1>5 DEF Elsewhere
  <2>3. Inv' /\ Banks'
    BY <2>1, TableInv DEF DevicesInv, Banks
  <2>4. ASSUME NEW p \in Pid
        PROVE  (call'[p].at # 0 => CallHeld(p)') /\ CallStepOf(p)
    <3>1. CASE Newborn(p)
      BY <2>2, <3>1 DEF Newborn, NoCall, CallStepOf
    <3>2. CASE ~Newborn(p)
      <4>1. call'[p] = call[p]
        BY <2>2, <3>2
      <4> QED BY <2>1, <4>1, CallStays DEF DevicesInv, CallHeld
    <3> QED BY <3>1, <3>2
  <2> QED BY <2>2, <2>3, <2>4 DEF DevicesInv
<1> QED BY <1>1, <1>2, <1>3, <1>4, <1>5 DEF DevicesNext

(* What a device carries out is the call a program made, for any number of *)
(* processes and calls with any arguments and paths, wherever the CPU      *)
(* changes hands, whoever is killed between two words, and whatever the    *)
(* last owner of the slot left in the bank.                                *)
THEOREM DevicesCallsAsMade == DevicesSpec => CallsAsMade
<1>1. SchedInit /\ DevicesInit => DevicesInv
  <2>1. DevicesInit => Banks
    BY DEF DevicesInit, Banks
  <2>2. DevicesInit => DOMAIN call = Pid /\ \A p \in Pid : call[p].at = 0
    BY DEF DevicesInit, NoCall
  <2> QED BY <2>1, <2>2, InitInv DEF DevicesInv
<1>2. DevicesInv /\ [DevicesNext]_<<schedVars, deviceVars>>
      => DevicesInv' /\ [CallStep]_deviceVars
  <2> SUFFICES ASSUME DevicesInv, [DevicesNext]_<<schedVars, deviceVars>>
               PROVE  DevicesInv' /\ [CallStep]_deviceVars
    OBVIOUS
  <2>1. CASE DevicesNext
    BY <2>1, DevicesNextInv DEF CallStep, CallStepOf
  <2>2. CASE UNCHANGED <<schedVars, deviceVars>>
    BY <2>2, TableInv DEF deviceVars, DevicesInv, Banks, CallHeld
  <2> QED BY <2>1, <2>2
<1>3. CallsAsMade <=> [][CallStep]_deviceVars
  BY DEF CallsAsMade
<1> QED BY <1>1, <1>2, <1>3, PTL DEF DevicesSpec

-----------------------------------------------------------------------------
(* The window of the programs loaded at run time. *)

(* While a live process has its code in the window it is marked as used,   *)
(* is loaded with that code, and is recognised as used by kernel_fs_dyn_gc *)
(* since an image that was accepted is longer than its header.             *)
OverlayInv ==
    /\ Inv
    /\ runs \in [Pid -> {0, 1}] /\ loads \in {0, 1}
    /\ fs_dyn_slot_size \in Int
    /\ fs_dyn_slot_used => HeaderWords < fs_dyn_slot_size
    /\ WindowStable

(* Nobody is born. *)
LEMMA SameCodeTable ==
    ASSUME Inv, SameCode
    PROVE  /\ Inv'
           /\ \A p \in Pid : pcb'[p].state # "TERMINATED" => pcb[p].state # "TERMINATED"
<1>1. CASE Timer \/ Yield \/ LightCall
  BY <1>1, SchedulerCalls DEF Kept, NobodyEnds, Alike
<1>2. CASE IdleTick
  BY <1>2, IdleTickInv DEF Kept, NobodyEnds, Alike
<1>3. CASE Exit \/ ThreadExit \/ Fault
  <2>1. Inv' /\ (Without(pcb', current_pid) \/ NobodyEnds)
    BY <1>3, TerminatingCalls DEF Kept
  <2> QED BY <2>1 DEF Without, NobodyEnds, Alike
<1>4. CASE \E target \in PidArgument : Wait(target)
  BY <1>4, WaitInv DEF Kept, NobodyEnds, Alike
<1>5. CASE \E target \in PidArgument, signal \in Signals : Kill(target, signal)
  <2>1. PICK target \in PidArgument, signal \in Signals : Kill(target, signal)
    BY <1>5
  <2>2. Inv' /\ (Without(pcb', target) \/ NobodyEnds)
    BY <2>1, KillInv, ProcessAssumption DEF Kept
  <2> QED BY <2>2 DEF Without, NobodyEnds, Alike
<1>6. CASE Pause \/ \E ticks \in SleepTicks : Sleep(ticks)
  BY <1>6, StoppingCalls, ProcessAssumption DEF Kept, NobodyEnds, Alike
<1>7. CASE \/ \E ticks \in AlarmTicks : Alarm(ticks)
           \/ \E installed \in BOOLEAN : Signal(installed)
           \/ Sigreturn
  BY <1>7, SelfCalls, ProcessAssumption DEF Kept, NobodyEnds, Alike
<1> QED BY <1>1, <1>2, <1>3, <1>4, <1>5, <1>6, <1>7 DEF SameCode, SchedulerStep

(* A call that changes nobody's record but the clock's. *)
LEMMA PlainOverlayCall ==
    ASSUME Inv, UserMode, Resume(Entry)
    PROVE  Inv' /\ \A p \in Pid : pcb'[p].state = "TERMINATED" <=> pcb[p].state = "TERMINATED"
<1>1. mode = "user" /\ Handled(Entry) /\ Fresh(Entry) /\ Alike(Entry)
      /\ Entry[current_pid].state = "RUNNING"
  BY EntryTable DEF UserMode
<1> QED BY <1>1, LeavingKernel DEF NobodyEnds, Alike

(* The new process of exec is READY and nobody else is touched. *)
LEMMA ExecBorn ==
    ASSUME Inv, UserMode, NEW priority \in Priorities, FreeSlots(Entry) # {},
           Schedule([Entry EXCEPT ![FreePid(Entry)] = NewPCB(priority, FALSE)])
    PROVE  Inv' /\ Born(FreePid(Entry)) /\ WaitersStay(pcb')
<1> DEFINE f == FreePid(Entry)
           n == NewPCB(priority, FALSE)
<1>1. /\ mode = "user" /\ Handled(Entry) /\ Alike(Entry)
      /\ f \in Pid /\ Entry[f].state = "TERMINATED"
  BY EntryTable, FreePidFree DEF UserMode
<1>2. n \in PCB /\ n.state = "READY"
  BY DEF NewPCB, PCB, State
<1>3. Schedule([Entry EXCEPT ![f] = n])
  OBVIOUS
<1> HIDE DEF n, f
<1>4. Inv' /\ OnlyCpuMoved([Entry EXCEPT ![f] = n]) /\ WaitersStay(pcb')
  BY <1>1, <1>2, <1>3, OneRecordCall DEF Parked
<1>5. Born(f)
  BY <1>1, <1>2, <1>4 DEF OnlyCpuMoved, Handled, Tables, Alike, Born
<1> QED BY <1>4, <1>5 DEF f

LEMMA FsExecInv ==
    ASSUME OverlayInv, NEW priority \in Priorities, FsExec(priority)
    PROVE  OverlayInv'
<1>1. Inv /\ UserMode /\ Alike(Entry)
  BY EntryTable DEF OverlayInv, FsExec, UserMode
<1>2. ASSUME ~UsedAfterGc(Entry), NEW p \in Pid
      PROVE  ~RunsInWindow(p)
  BY <1>1, <1>2 DEF UsedAfterGc, UsesSlot, RunsInWindow, OverlayInv, WindowStable, Alike
<1>3. CASE ExecRefused
  <2>1. /\ Inv'
        /\ \A p \in Pid : pcb'[p].state = "TERMINATED" <=> pcb[p].state = "TERMINATED"
    BY <1>1, <1>3, PlainOverlayCall DEF ExecRefused
  <2> QED BY <1>3, <2>1 DEF ExecRefused, overlayVars, OverlayInv, WindowStable, RunsInWindow
<1>4. CASE ExecFails
  <2>1. /\ Inv'
        /\ \A p \in Pid : pcb'[p].state = "TERMINATED" <=> pcb[p].state = "TERMINATED"
    BY <1>1, <1>4, PlainOverlayCall DEF ExecFails
  <2>2. /\ fs_dyn_slot_used' = FALSE /\ fs_dyn_slot_size' = 0
        /\ in_window' = in_window /\ runs' = runs /\ loads' \in {loads, 1 - loads}
    BY <1>4 DEF ExecFails
  <2>3. \A p \in Pid : ~RunsInWindow(p)'
    BY <1>2, <1>4, <2>1, <2>2 DEF ExecFails, RunsInWindow
  <2> QED BY <2>1, <2>2, <2>3 DEF OverlayInv, WindowStable
<1>5. ASSUME NEW size \in DiskResults, ExecSucceeds(priority, size)
      PROVE  OverlayInv'
  <2> DEFINE f == FreePid(Entry)
  <2>1. Inv' /\ Born(f)
    BY <1>1, <1>5, ExecBorn DEF ExecSucceeds
  <2>2. /\ fs_dyn_slot_used' = TRUE /\ fs_dyn_slot_size' = size
        /\ loads' = 1 - loads /\ in_window' = in_window \cup {f}
        /\ runs' = [runs EXCEPT ![f] = loads']
        /\ ~UsedAfterGc(Entry) /\ 0 < size
    BY <1>5 DEF ExecSucceeds
  <2>3. size \in Int /\ HeaderWords < size
    BY <2>2, DynamicOverlayAssumption
  <2> HIDE DEF f
  <2>4. loads' \in {0, 1} /\ runs' \in [Pid -> {0, 1}] /\ runs'[f] = loads'
    BY <2>1, <2>2 DEF OverlayInv, Born
  <2>5. \A p \in Pid : RunsInWindow(p)' => p = f
    BY <1>2, <2>1, <2>2 DEF RunsInWindow, Born
  <2> QED BY <2>1, <2>2, <2>3, <2>4, <2>5 DEF OverlayInv, WindowStable
<1> QED BY <1>3, <1>4, <1>5 DEF FsExec

LEMMA SpawnSameCodeInv ==
    ASSUME OverlayInv, NEW priority \in Priorities, NEW is_thread \in BOOLEAN,
           SpawnSameCode(priority, is_thread)
    PROVE  OverlayInv'
<1>1. /\ Inv /\ UserMode /\ current_pid \in Pid
      /\ pcb[current_pid].state # "TERMINATED"
  BY DEF OverlayInv, SpawnSameCode, UserMode, Inv, SchedInv, SchedTypeOK, OneRunning
<1>2. UNCHANGED <<fs_dyn_slot_used, fs_dyn_slot_size, loads>>
  BY DEF SpawnSameCode
<1>3. CASE Resume(Entry) /\ UNCHANGED <<in_window, runs>>
  <2>1. /\ Inv'
        /\ \A p \in Pid : pcb'[p].state = "TERMINATED" <=> pcb[p].state = "TERMINATED"
    BY <1>1, <1>3, PlainOverlayCall
  <2> QED BY <1>2, <1>3, <2>1 DEF OverlayInv, WindowStable, RunsInWindow
<1>4. ASSUME Created(priority, is_thread),
             in_window' = IF current_pid \in in_window
                          THEN in_window \cup {FreePid(Entry)}
                          ELSE in_window \ {FreePid(Entry)},
             runs' = [runs EXCEPT ![FreePid(Entry)] = runs[current_pid]]
      PROVE  OverlayInv'
  <2> DEFINE f == FreePid(Entry)
  <2>1. Inv' /\ Born(f)
    BY <1>1, <1>4, SpawnInv DEF Spawn, Kept
  <2>2. /\ in_window' = IF current_pid \in in_window THEN in_window \cup {f}
                                                   ELSE in_window \ {f}
        /\ runs' = [runs EXCEPT ![f] = runs[current_pid]]
    BY <1>4
  <2> HIDE DEF f
  <2>3. /\ runs' \in [Pid -> {0, 1}] /\ runs'[f] = runs[current_pid]
        /\ \A p \in Pid \ {f} : runs'[p] = runs[p]
    BY <1>1, <2>1, <2>2 DEF OverlayInv, Born
  <2>4. ASSUME NEW p \in Pid, RunsInWindow(p)'
        PROVE  fs_dyn_slot_used /\ runs'[p] = loads
    <3>1. CASE p = f
      <4>1. RunsInWindow(current_pid)
        BY <1>1, <2>2, <2>4, <3>1 DEF RunsInWindow
      <4> QED BY <1>1, <2>3, <3>1, <4>1 DEF OverlayInv, WindowStable
    <3>2. CASE p # f
      <4>1. RunsInWindow(p)
        BY <2>1, <2>2, <2>4, <3>2 DEF RunsInWindow, Born
      <4> QED BY <2>3, <3>2, <4>1 DEF OverlayInv, WindowStable
    <3> QED BY <3>1, <3>2
  <2> QED BY <1>2, <2>1, <2>3, <2>4 DEF OverlayInv, WindowStable
<1> QED BY <1>3, <1>4 DEF SpawnSameCode

LEMMA OverlayNextInv ==
    ASSUME OverlayInv, [OverlayNext]_<<schedVars, overlayVars>>
    PROVE  OverlayInv'
<1>1. CASE UNCHANGED <<schedVars, overlayVars>>
  <2>1. Inv'
    BY <1>1, TableInv DEF OverlayInv
  <2> QED BY <1>1, <2>1
          DEF OverlayInv, WindowStable, RunsInWindow, schedVars, overlayVars
<1>2. CASE SameCode /\ UNCHANGED overlayVars
  <2>1. /\ Inv'
        /\ \A p \in Pid : pcb'[p].state # "TERMINATED" => pcb[p].state # "TERMINATED"
    BY <1>2, SameCodeTable DEF OverlayInv
  <2> QED BY <1>2, <2>1 DEF OverlayInv, WindowStable, RunsInWindow, overlayVars
<1> QED BY <1>1, <1>2, FsExecInv, SpawnSameCodeInv DEF OverlayNext

(* No program is overwritten while a process or thread runs it, for any    *)
(* number of slots, any sizes the disk reports, and any order of exec,     *)
(* spawn and death.                                                        *)
THEOREM OverlayWindowStable == OverlaySpec => []WindowStable
<1>1. SchedInit /\ OverlayInit => OverlayInv
  BY InitInv DEF OverlayInit, OverlayInv, WindowStable, RunsInWindow
<1>2. OverlayInv /\ [OverlayNext]_<<schedVars, overlayVars>> => OverlayInv'
  BY OverlayNextInv
<1>3. OverlayInv => WindowStable
  BY DEF OverlayInv
<1> QED BY <1>1, <1>2, <1>3, PTL DEF OverlaySpec

-----------------------------------------------------------------------------
(* The launcher. *)

(* While the child it has loaded lives, the launcher is on its way to wait *)
(* for it or waits: so it is WAITING whenever it is back at its menu.      *)
LauncherInv ==
    /\ Inv
    /\ sh_at \in {"menu", "wait", "gone"}
    /\ child_lives \in BOOLEAN
    /\ sh_at # "gone" => pcb[Shell].state # "TERMINATED"
    /\ child_lives => Alive(pcb, sh_pid)
    /\ sh_at = "menu" /\ child_lives
         => pcb[Shell].state = "WAITING" /\ pcb[Shell].waiting_for_pid = sh_pid

(* Programs may be loaded and born meanwhile: those who wait still do.     *)
LEMMA OverlayTable ==
    ASSUME Inv, OverlayNext
    PROVE  Inv' /\ WaitersStay(pcb')
<1>1. ASSUME UserMode, Resume(Entry)
      PROVE  Inv' /\ WaitersStay(pcb')
  <2>1. /\ Handled(Entry) /\ Fresh(Entry) /\ WaitersStay(Entry)
        /\ Entry[current_pid].state = "RUNNING" /\ mode = "user"
    BY <1>1, EntryTable DEF UserMode
  <2> QED BY <1>1, <2>1, LeavingKernel
<1>2. ASSUME NEW priority \in Priorities, FsExec(priority)
      PROVE  Inv' /\ WaitersStay(pcb')
  <2>1. CASE Resume(Entry)
    BY <1>1, <1>2, <2>1 DEF FsExec
  <2>2. ASSUME NEW size \in DiskResults, ExecSucceeds(priority, size)
        PROVE  Inv' /\ WaitersStay(pcb')
    BY <1>2, <2>2, ExecBorn DEF ExecSucceeds, FsExec
  <2> QED BY <1>2, <2>1, <2>2 DEF FsExec, ExecRefused, ExecFails
<1>3. ASSUME NEW priority \in Priorities, NEW is_thread \in BOOLEAN,
             SpawnSameCode(priority, is_thread)
      PROVE  Inv' /\ WaitersStay(pcb')
  <2>1. Spawn(priority, is_thread)
    BY <1>3 DEF SpawnSameCode, Spawn
  <2> QED BY <2>1, SpawnInv DEF Kept
<1>4. CASE SameCode
  <2>1. Next
    BY <1>4 DEF SameCode, Next, SystemCall
  <2> QED BY <2>1, NextInv DEF Kept
<1> QED BY <1>2, <1>3, <1>4 DEF OverlayNext

(* The launcher that waits for a live process stays WAITING for it.        *)
LEMMA WaitParks ==
    ASSUME Inv, NEW target, Wait(target), Alive(pcb, target)
    PROVE  /\ Inv' /\ NobodyEnds
           /\ pcb'[current_pid].state = "WAITING"
           /\ pcb'[current_pid].waiting_for_pid = target
<1> DEFINE r == [Entry[current_pid] EXCEPT !.state = "WAITING",
                                           !.waiting_for_pid = target]
           u == [Entry EXCEPT ![current_pid] = r]
<1>1. mode = "user" /\ current_pid \in Pid /\ Inv' /\ NobodyEnds
  BY WaitInv DEF Wait, UserMode, Inv, SchedInv, SchedTypeOK, Kept
<1>2. Handled(Entry) /\ Alike(Entry)
  BY <1>1, EntryTable
<1>3. Alive(Entry, target)
  BY <1>2 DEF Alike, Alive
<1>4. r \in PCB /\ r.state = "WAITING" /\ r.waiting_for_pid = target
  <2>1. Entry[current_pid] \in PCB
    BY <1>1, <1>2 DEF Handled, Tables
  <2>2. "WAITING" \in State /\ target \in Pid
    BY <1>3 DEF Alive, State
  <2> QED BY <2>1, <2>2 DEF PCB
<1>5. [Stopped(Entry, "WAITING") EXCEPT ![current_pid].waiting_for_pid = target] = u
  BY <1>1, <1>2 DEF Stopped, Handled, Tables
<1>6. Schedule(u)
  BY <1>3, <1>5 DEF Wait
<1>7. u[current_pid] = r
  BY <1>1, <1>2 DEF Handled, Tables
<1> HIDE DEF r
<1>8. OnlyCpuMoved(u)
  BY <1>1, <1>3, <1>4, <1>6, OneRecordCall
<1> HIDE DEF u
<1> QED BY <1>1, <1>4, <1>7, <1>8 DEF OnlyCpuMoved

LEMMA LauncherNextInv ==
    ASSUME LauncherInv, [LauncherNext]_<<schedVars, overlayVars, launcherVars>>
    PROVE  LauncherInv'
<1>1. Inv /\ Shell \in Pid
  BY SchedulerAssumption DEF LauncherInv, Shell, Pid
<1>2. ShellRuns => pcb[Shell].state = "RUNNING" /\ current_pid = Shell /\ mode = "user"
  BY <1>1 DEF ShellRuns, UserMode, Inv, SchedInv, OneRunning
<1>3. ShellRuns /\ sh_at = "menu" => child_lives = FALSE
  BY <1>2 DEF LauncherInv
<1>4. CASE UNCHANGED <<schedVars, overlayVars, launcherVars>>
  <2>1. Inv'
    BY <1>1, <1>4, TableInv
  <2> QED BY <1>4, <2>1 DEF LauncherInv, schedVars, launcherVars, Alive
<1>5. CASE ShellMenu
  <2>1. Inv' /\ NobodyEnds
    BY <1>1, <1>5, SchedulerCalls DEF ShellMenu, Kept
  <2> QED BY <1>1, <1>2, <1>3, <1>5, <2>1
          DEF ShellMenu, LauncherInv, launcherVars, NobodyEnds, Alike
<1>6. CASE ShellExec
  <2>1. CASE Resume(Entry) /\ UNCHANGED launcherVars
    <3>1. /\ Inv'
          /\ \A p \in Pid : pcb'[p].state = "TERMINATED" <=> pcb[p].state = "TERMINATED"
      BY <1>1, <1>6, <2>1, PlainOverlayCall DEF ShellExec, ShellRuns
    <3> QED BY <1>1, <1>2, <1>3, <1>6, <2>1, <3>1
            DEF ShellExec, LauncherInv, launcherVars
  <2>2. ASSUME NEW size \in DiskResults, ExecSucceeds(OverlayPriority, size),
               sh_pid' = FreePid(Entry), sh_at' = "wait", child_lives' = TRUE
        PROVE  LauncherInv'
    <3>1. OverlayPriority \in Priorities
      BY SchedulerAssumption
    <3>2. Inv' /\ Born(FreePid(Entry))
      BY <1>1, <1>6, <2>2, <3>1, ExecBorn DEF ExecSucceeds, ShellExec, ShellRuns
    <3> QED BY <1>1, <1>2, <1>6, <2>2, <3>2
            DEF LauncherInv, Born, Alive, ShellExec
  <2> QED BY <1>6, <2>1, <2>2 DEF ShellExec, ExecRefused, ExecFails
<1>7. CASE ShellWait
  <2>1. Wait(sh_pid) /\ sh_at' = "menu" /\ UNCHANGED <<sh_pid, child_lives>>
    BY <1>7 DEF ShellWait
  <2>2. Inv' /\ NobodyEnds
    BY <1>1, <2>1, WaitInv DEF Kept
  <2>3. CASE ~child_lives
    BY <1>1, <1>2, <1>7, <2>1, <2>2, <2>3
       DEF LauncherInv, NobodyEnds, Alike, ShellWait
  <2>4. CASE child_lives
    <3>1. Alive(pcb, sh_pid)
      BY <2>4 DEF LauncherInv
    <3>2. /\ pcb'[Shell].state = "WAITING"
          /\ pcb'[Shell].waiting_for_pid = sh_pid
      BY <1>1, <1>2, <1>7, <2>1, <3>1, WaitParks DEF ShellWait
    <3> QED BY <2>1, <2>2, <2>4, <3>1, <3>2
            DEF LauncherInv, NobodyEnds, Alike, Alive
  <2> QED BY <2>3, <2>4 DEF LauncherInv
<1>8. CASE Others
  <2>1. Inv' /\ (~ShellRuns => WaitersStay(pcb'))
    <3>1. CASE ShellRuns
      <4>1. Next
        BY <1>8, <3>1 DEF Others, Next, SchedulerStep
      <4> QED BY <1>1, <3>1, <4>1, NextInv DEF Kept
    <3>2. CASE ~ShellRuns
      BY <1>1, <1>8, <3>2, OverlayTable DEF Others
    <3> QED BY <3>1, <3>2
  <2>2. /\ child_lives' = (child_lives /\ Alive(pcb', sh_pid))
        /\ sh_at' = IF pcb'[Shell].state = "TERMINATED" THEN "gone" ELSE sh_at
        /\ sh_pid' = sh_pid
    BY <1>8 DEF Others
  <2>3. ASSUME sh_at' = "menu", child_lives'
        PROVE  pcb'[Shell].state = "WAITING" /\ pcb'[Shell].waiting_for_pid = sh_pid
    <3>1. /\ sh_at = "menu" /\ child_lives /\ pcb'[Shell].state # "TERMINATED"
          /\ Alive(pcb', sh_pid)
      BY <2>2, <2>3
    <3>2. /\ pcb[Shell].state = "WAITING" /\ pcb[Shell].waiting_for_pid = sh_pid
          /\ ~ShellRuns
      BY <1>3, <3>1 DEF LauncherInv
    <3> QED BY <1>1, <2>1, <3>1, <3>2 DEF WaitersStay, Alive
  <2>4. /\ sh_at' \in {"menu", "wait", "gone"} /\ child_lives' \in BOOLEAN
        /\ sh_at' # "gone" => pcb'[Shell].state # "TERMINATED"
        /\ child_lives' => Alive(pcb', sh_pid')
    BY <2>2 DEF LauncherInv
  <2> QED BY <2>1, <2>2, <2>3, <2>4 DEF LauncherInv
<1> QED BY <1>4, <1>5, <1>6, <1>7, <1>8 DEF LauncherNext

(* The launcher is back in its menu only when the program it loaded has    *)
(* ended, however many processes there are, whoever loads and kills, and   *)
(* whatever is born in the slot of the dead.                               *)
THEOREM LauncherMenuAfterChild == LauncherSpec => []MenuAfterChild
<1>1. SchedInit /\ OverlayInit /\ LauncherInit => LauncherInv
  <2> SUFFICES ASSUME SchedInit, LauncherInit PROVE LauncherInv
    OBVIOUS
  <2>1. Inv
    BY InitInv
  <2>2. pcb[0].state = "RUNNING"
    BY <2>1, SchedulerAssumption
       DEF SchedInit, Inv, SchedInv, OneRunning, Pid
  <2> QED BY <2>1, <2>2 DEF LauncherInit, LauncherInv, Shell
<1>2. /\ LauncherInv
      /\ [LauncherNext]_<<schedVars, overlayVars, launcherVars>>
      => LauncherInv'
  BY LauncherNextInv
<1>3. LauncherInv => MenuAfterChild
  <2> SUFFICES ASSUME LauncherInv, ShellRuns, sh_at = "menu", child_lives
               PROVE  FALSE
    BY DEF MenuAfterChild, LauncherInv
  <2>1. Shell \in Pid
    BY SchedulerAssumption DEF Shell, Pid
  <2> QED BY <2>1 DEF LauncherInv, Inv, SchedInv, OneRunning, ShellRuns, UserMode
<1> QED BY <1>1, <1>2, <1>3, PTL DEF LauncherSpec
=============================================================================
