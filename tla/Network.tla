------------------------------ MODULE Network ------------------------------
(***************************************************************************)
(* The network device as one program sees it (devices/network/network.py,  *)
(* not in the repository, modelled from its use), and the library that     *)
(* drives it (user/usr_net_core.c).                                        *)
(*                                                                         *)
(* The bank of registers belongs to the program (README.md:450; module     *)
(* Devices), so nothing but the network itself happens between the words   *)
(* of one call: a call that asks for nothing the network changes is one    *)
(* step.  What the network does between calls are the actions at the end.  *)
(* The device may refuse a command; each refusal and each broken           *)
(* connection spends one of MAX_FAULTS.                                    *)
(***************************************************************************)
EXTENDS UserProgram, Integers, Sequences

CONSTANTS
    Socket,      \* the numbers of the device's sockets
    TextLength,  \* Bound: bytes each side puts on a connection
    Polls,       \* max_polls: how often the wait functions look
    MAX_FAULTS   \* Bound: refusals and broken connections in a behaviour

ASSUME NetworkAssumption ==
    /\ Socket \subseteq Nat
    /\ TextLength \in Nat /\ Polls \in Nat \ {0} /\ MAX_FAULTS \in Nat

VARIABLES
    sockets,  \* the device's sockets
    bank,     \* the program's registers: SOCKET, RESULT, ERROR, IP
    polls,    \* i of the wait functions
    faults    \* how many of MAX_FAULTS have happened

deviceState == <<sockets, bank, faults>>

(* A socket: its state, its two FIFOs, whether a send command has been     *)
(* given, and what the peer has put on the connection and taken from it.   *)
Fresh(state) == [state |-> state, rx |-> <<>>, tx |-> <<>>, sending |-> FALSE,
                 put |-> <<>>, taken |-> <<>>]

Free == {s \in Socket : sockets[s].state = "free"}
Open == Socket \ Free

NetworkInit ==
    /\ sockets = [s \in Socket |-> Fresh("free")]
    /\ bank \in [socket : {0}, result : {0}, error : {FALSE}, ip : {0}]
    /\ polls = 0
    /\ faults = 0

Fault == faults < MAX_FAULTS /\ faults' = faults + 1

(* The device does as told, or refuses. *)
Outcome(ok) == IF ok THEN UNCHANGED faults ELSE Fault

-----------------------------------------------------------------------------
(* The library. *)

(* net_socket_tcp(), net_udp_socket(): the number of a new socket, or -1. *)
NetSocket(s) ==
    /\ s \in Free \/ s = -1
    /\ bank' = [bank EXCEPT !.result = s, !.error = s = -1]
    /\ sockets' = [t \in Socket |-> IF t = s THEN Fresh("open") ELSE sockets[t]]
    /\ Outcome(s # -1 \/ Free = {})

(* net_configure_ipv4() and a command on that socket that changes its      *)
(* state; the functions return -1 if net_has_error(), else net_result().   *)
NetConfigured(s, ip, state, ok) ==
    /\ bank' = [socket |-> s, ip |-> ip, error |-> ~ok,
                result |-> IF ok THEN 0 ELSE -1]
    /\ sockets' = IF ok THEN [sockets EXCEPT ![s].state = state] ELSE sockets
    /\ Outcome(ok)

(* net_select_socket() and net_poll(): what net_status() then tells.       *)
Polled(s) == [bank EXCEPT !.socket = s, !.error = sockets[s].state = "error"]

(* net_recv_byte() followed by net_send_byte() of what it returned. *)
Echoed(s) == [sockets EXCEPT ![s].rx = Tail(@), ![s].tx = Append(@, Head(sockets[s].rx))]

(* net_close_socket() *)
NetClose(s) ==
    /\ bank' = [bank EXCEPT !.socket = s]
    /\ sockets' = [sockets EXCEPT ![s] = Fresh("free")]
    /\ UNCHANGED faults

-----------------------------------------------------------------------------
(* The network, between the calls. *)

PeerConnects(s) ==
    /\ sockets[s].state = "connecting"
    /\ sockets' = [sockets EXCEPT ![s].state = "connected"]
    /\ UNCHANGED faults

PeerPuts(s) ==
    /\ sockets[s].state = "connected"
    /\ Len(sockets[s].put) < TextLength
    /\ LET byte == Len(sockets[s].put) + 1
       IN  sockets' = [sockets EXCEPT ![s].rx = Append(@, byte), ![s].put = Append(@, byte)]
    /\ UNCHANGED faults

PeerTakes(s) ==
    /\ sockets[s].state = "connected"
    /\ sockets[s].sending /\ sockets[s].tx # <<>>
    /\ sockets' = [sockets EXCEPT ![s].taken = Append(@, Head(sockets[s].tx)),
                                  ![s].tx = Tail(@)]
    /\ UNCHANGED faults

PeerCloses(s) ==
    /\ sockets[s].state = "connected"
    /\ sockets' = [sockets EXCEPT ![s].state = "closed"]
    /\ UNCHANGED faults

Breaks(s) ==
    /\ sockets[s].state \in {"connecting", "connected"}
    /\ sockets' = [sockets EXCEPT ![s].state = "error"]
    /\ Fault
=============================================================================
