------------------------------ MODULE Devices ------------------------------
(***************************************************************************)
(* The drivers of the network and of the disk (kernel/sys_net.c, and       *)
(* kernel_fs_out and kernel_fs_in of sys_fs.c), and how the library uses   *)
(* them (user/usr_net_core.c, usr_net_tcp.c, usr_net_udp.c, usr_fs.c).  A  *)
(* device holds a bank of registers for each pid, and the kernel selects   *)
(* the bank of the caller before every word.                               *)
(*                                                                         *)
(* A library call is several words, and each is a system call: it fills    *)
(* registers (or sends a path letter by letter), gives a command, and      *)
(* reads the result.  Between two words others run, use the device, kill   *)
(* the caller in the middle of its call, and take its slot; nobody clears  *)
(* a bank, so the next owner of a slot begins with what it finds there.    *)
(*                                                                         *)
(* A word out of the driver's range returns -1 and is not forwarded: it is *)
(* a LightCall.  The halves of addresses and results are one register.     *)
(* Bound: one thread of a program uses the devices, no signal handler does *)
(* (no program of apps/ or cov/ has either).                               *)
(***************************************************************************)
EXTENDS Process, Sequences

CONSTANTS
    Number,      \* socket numbers, descriptors, addresses, bytes
    Calls,       \* the calls programs make
    DeviceCalls  \* Bound: how many calls are begun in a behaviour

Device == {"net", "disk"}

Register(d) ==
    IF d = "net" THEN {"SOCKET", "IP", "PORT", "BACKLOG", "RESULT"}
                 ELSE {"ARG0", "ARG1", "TX", "RESULT"}

(* What the device reads when it is given a command. *)
Reads(command) ==
    CASE command \in {"connect", "bind", "sendto"} -> {"SOCKET", "IP", "PORT"}
      [] command = "listen" -> {"SOCKET", "BACKLOG"}
      [] command \in {"accept", "recvfrom", "poll", "net_close"} -> {"SOCKET"}
      [] command = "socket" -> {}
      [] command \in {"open", "exists", "delete"} -> {"TX"}
      [] command \in {"read_byte", "fs_close"} -> {"ARG0"}
      [] command = "write_byte" -> {"ARG0", "ARG1"}

-----------------------------------------------------------------------------
(* The library.  A call fills the registers of order with its args, or     *)
(* empties the FIFO TX and sends its path, before it gives its command.    *)

(* net_connect_ipv4(), net_bind_ipv4(), net_udp_bind_ipv4(),               *)
(* net_udp_sendto_ipv4(): net_configure_ipv4() and the command.            *)
Configured(command, s, ip, port) ==
    [device |-> "net", command |-> command, path |-> <<>>,
     order |-> <<"SOCKET", "IP", "PORT">>, args |-> [SOCKET |-> s, IP |-> ip, PORT |-> port]]

(* net_listen_socket() *)
Listening(s, backlog) ==
    [device |-> "net", command |-> "listen", path |-> <<>>,
     order |-> <<"SOCKET", "BACKLOG">>, args |-> [SOCKET |-> s, BACKLOG |-> backlog]]

(* net_accept(), net_udp_recvfrom(), net_close_socket(), one turn of the   *)
(* wait functions: net_select_socket() and the command.                    *)
Selecting(command, s) ==
    [device |-> "net", command |-> command, path |-> <<>>,
     order |-> <<"SOCKET">>, args |-> [SOCKET |-> s]]

(* net_socket_tcp(), net_udp_socket() *)
TakingSocket ==
    [device |-> "net", command |-> "socket", path |-> <<>>, order |-> <<>>, args |-> <<>>]

(* fs_open_read(), fs_open_write(), fs_exists(), ...: fs_clear_tx(),       *)
(* fs_send_text() and the command.  The 0 that ends a path is a letter.    *)
Naming(command, path) ==
    [device |-> "disk", command |-> command, path |-> path, order |-> <<>>, args |-> <<>>]

(* fs_read_byte(), fs_close() *)
Reading(command, fd) ==
    [device |-> "disk", command |-> command, path |-> <<>>,
     order |-> <<"ARG0">>, args |-> [ARG0 |-> fd]]

(* fs_write_byte() *)
Writing(fd, value) ==
    [device |-> "disk", command |-> "write_byte", path |-> <<>>,
     order |-> <<"ARG0", "ARG1">>, args |-> [ARG0 |-> fd, ARG1 |-> value]]

IsLibraryCall(c) ==
    \/ \E s, ip, port \in Number, command \in {"connect", "bind", "sendto"} :
           c = Configured(command, s, ip, port)
    \/ \E s, backlog \in Number : c = Listening(s, backlog)
    \/ \E s \in Number, command \in {"accept", "recvfrom", "poll", "net_close"} :
           c = Selecting(command, s)
    \/ c = TakingSocket
    \/ /\ c.path # <<>>
       /\ \E command \in {"open", "exists", "delete"} : c = Naming(command, c.path)
    \/ \E fd \in Number, command \in {"read_byte", "fs_close"} : c = Reading(command, fd)
    \/ \E fd, value \in Number : c = Writing(fd, value)

ASSUME DevicesAssumption ==
    /\ \A c \in Calls : IsLibraryCall(c) /\ c.path \in Seq(Number)
    /\ DeviceCalls \in Nat

(* Words sent before the command: clear and letters, or registers. *)
Words(c) == IF c.path # <<>> THEN 1 + Len(c.path) ELSE Len(c.order)

-----------------------------------------------------------------------------
VARIABLES
    selected,  \* of the device: the bank selected
    bank,      \* of the device: the registers of each pid
    call,      \* for each pid: the call, its next word, what the device answered
    begun      \* how many of DeviceCalls have begun

deviceVars == <<selected, bank, call, begun>>

NoCall == [of |-> <<>>, at |-> 0, answer |-> 0]

DevicesInit ==
    /\ selected = [d \in Device |-> 0]
    /\ bank = [d \in Device |-> [p \in Pid |->
                 [r \in Register(d) |-> IF r = "TX" THEN <<>> ELSE 0]]]
    /\ call = [p \in Pid |-> NoCall]
    /\ begun = 0

(* Mutant: the bank is not selected before the word. *)
ContextLeftAlone(d) == selected[d]

(* kernel_net_select_context(), kernel_fs_select_context() *)
Context(d) == current_pid

-----------------------------------------------------------------------------
(* A program begins a call; that is no trap. *)
Begin(c) ==
    /\ UserMode
    /\ ~pcb[current_pid].in_signal
    /\ call[current_pid].at = 0
    /\ begun < DeviceCalls /\ begun' = begun + 1
    /\ call' = [call EXCEPT ![current_pid] = [of |-> c, at |-> 1, answer |-> 0]]
    /\ UNCHANGED <<schedVars, selected, bank>>

(* kernel_net_out(), kernel_net_in(), kernel_fs_out(), kernel_fs_in(): the *)
(* bank is selected, then the word, which leaves it as registers.          *)
Forward(d, registers) ==
    /\ UserMode
    /\ ~pcb[current_pid].in_signal
    /\ Resume(Entry)
    /\ selected' = [selected EXCEPT ![d] = Context(d)]
    /\ bank' = [bank EXCEPT ![d][Context(d)] = registers]
    /\ UNCHANGED begun

Proceed(n, answer) ==
    call' = [call EXCEPT ![current_pid] = [of |-> @.of, at |-> n, answer |-> answer]]

(* fs_clear_tx() *)
Cleared(tx) == <<>>

(* The next word of the caller's call, which fills a register or the FIFO. *)
Word ==
    LET c == call[current_pid].of
        n == call[current_pid].at
        registers == bank[c.device][Context(c.device)]
    IN  /\ n > 0
        /\ n <= Words(c)
        /\ \/ /\ c.path = <<>>
              /\ Forward(c.device, [registers EXCEPT ![c.order[n]] = c.args[c.order[n]]])
           \/ /\ c.path # <<>> /\ n = 1
              /\ Forward(c.device, [registers EXCEPT !.TX = Cleared(@)])
           \/ /\ c.path # <<>> /\ n > 1
              /\ Forward(c.device, [registers EXCEPT !.TX = Append(@, c.path[n - 1])])
        /\ Proceed(n + 1, 0)

(* The command; the device answers what it likes. *)
Command ==
    LET c == call[current_pid].of
        registers == bank[c.device][Context(c.device)]
    IN  /\ call[current_pid].at > 0
        /\ call[current_pid].at = Words(c) + 1
        /\ \E answer \in Number :
             /\ Forward(c.device, [registers EXCEPT !.RESULT = answer])
             /\ Proceed(Words(c) + 2, answer)

(* net_result(), fs_result(), net_status(), with which the call returns.   *)
(* RESULT stands for all that is read; connect and net_close read nothing, *)
(* which is one word less of those here.                                   *)
Result ==
    LET c == call[current_pid].of
    IN  /\ call[current_pid].at > 0
        /\ call[current_pid].at = Words(c) + 2
        /\ Forward(c.device, bank[c.device][Context(c.device)])
        /\ call' = [call EXCEPT ![current_pid] = NoCall]

(* What happens besides: a program makes other system calls between its    *)
(* library calls, and its handler whenever it runs.  A process that is     *)
(* born has no call, whatever the last owner of its slot was doing.        *)
Newborn(p) == pcb[p].state = "TERMINATED" /\ pcb'[p].state # "TERMINATED"

Elsewhere ==
    /\ \/ SchedulerStep
       \/ Fault
       \/ SystemCall /\ (call[current_pid].at = 0 \/ pcb[current_pid].in_signal)
    /\ call' = [p \in Pid |-> IF Newborn(p) THEN NoCall ELSE call[p]]
    /\ UNCHANGED <<selected, bank, begun>>

DevicesNext ==
    \/ \E c \in Calls : Begin(c)
    \/ Word
    \/ Command
    \/ Result
    \/ Elsewhere

DevicesSpec ==
    SchedInit /\ DevicesInit /\ [][DevicesNext]_<<schedVars, deviceVars>>

-----------------------------------------------------------------------------
(* "Cada processo enxerga seu proprio contexto de controle" (README.md:465)*)
(* although a call is several traps: when a process gives its command, the *)
(* registers the device reads are the arguments of that very call, and the *)
(* path all of its path and nothing else; and the result it then takes is  *)
(* the answer to its own command.  Whoever ran or used the device between  *)
(* the words, was killed in the middle of a call or left a slot, its bank  *)
(* and half a path to this process.                                        *)
Argument(c, r) == IF r = "TX" THEN c.path ELSE c.args[r]

CallStep ==
    \A p \in Pid :
        LET c == call[p].of
            seen == bank[c.device][selected'[c.device]]
        IN  pcb[p].state # "TERMINATED" /\ call[p].at > 0 =>
                /\ (call[p].at = Words(c) + 1 /\ call'[p].at = Words(c) + 2)
                   => \A r \in Reads(c.command) : seen[r] = Argument(c, r)
                /\ (call[p].at = Words(c) + 2 /\ call'[p].at = 0)
                   => seen.RESULT = call[p].answer

CallsAsMade == [][CallStep]_deviceVars
=============================================================================
