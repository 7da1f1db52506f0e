------------------------------- MODULE NetUdp -------------------------------
(***************************************************************************)
(* The UDP library (user/usr_net_udp.c) and the programs that use it: the  *)
(* server that echoes datagrams (apps/app_net_udp_server.c, "udp_server")  *)
(* and the client (apps/app_net_udp_client.c, "udp_client").               *)
(*                                                                         *)
(* The register of the address is the sender's after recvfrom and the      *)
(* destination's before sendto.  A byte of the datagram of host h is       *)
(* <<h, i>>.  The datagrams of a socket are kept by the device (inbox) and *)
(* arrive in any order, or never; one is lost by not being put.            *)
(***************************************************************************)
EXTENDS Network

CONSTANTS
    Host,      \* the other machines
    Datagrams  \* Bound: datagrams put on the network in a behaviour

ASSUME UdpAssumption == Host \subseteq Nat \ {0} /\ Datagrams \in Nat

VARIABLES
    inbox,  \* datagrams the device holds for the program
    sent,   \* the last datagram the program has sent
    left,   \* how many more the network may bring
    udp_socket, udp_size, udp_index, udp_sender

udpVars == <<inbox, sent, left, udp_socket, udp_size, udp_index, udp_sender>>

udpAll == <<app, pc, deviceState, polls, udpVars>>

Bytes(host, size) == [i \in 1 .. size |-> <<host, i>>]

UdpInit ==
    /\ inbox = {}
    /\ sent = [to |-> 0, bytes |-> <<>>]
    /\ left = Datagrams
    /\ udp_socket = -1
    /\ udp_size = 0
    /\ udp_index = 0
    /\ udp_sender = 0

-----------------------------------------------------------------------------
(* The library. *)

(* net_udp_sendto_ipv4(): the bytes accumulated in the FIFO leave as one   *)
(* datagram, or the device refuses it.                                     *)
SendTo(to, ok) ==
    /\ bank' = [socket |-> udp_socket, ip |-> to, error |-> ~ok, result |-> IF ok THEN 0 ELSE -1]
    /\ sockets' = [sockets EXCEPT ![udp_socket].tx = <<>>]
    /\ sent' = IF ok THEN [to |-> to, bytes |-> sockets[udp_socket].tx] ELSE sent
    /\ Outcome(ok)

(* net_udp_recvfrom(), and net_has_error() after it: the next datagram is  *)
(* moved to the FIFO and its sender to the register; or -1, because there  *)
(* is none yet or because of an error.                                     *)
ReceiveFrom ==
    \/ \E d \in inbox :
         /\ inbox' = inbox \ {d}
         /\ sockets' = [sockets EXCEPT ![udp_socket].rx = @ \o Bytes(d.from, d.size)]
         /\ bank' = [socket |-> udp_socket, ip |-> d.from, error |-> FALSE, result |-> d.size]
         /\ UNCHANGED faults
    \/ \E error \in BOOLEAN :
         /\ inbox = {} \/ error
         /\ bank' = [bank EXCEPT !.socket = udp_socket, !.error = error, !.result = -1]
         /\ Outcome(~error)
         /\ UNCHANGED <<inbox, sockets>>

-----------------------------------------------------------------------------
(* Both programs begin by taking a socket and end by giving it back. *)
TakeUdpSocket(next) ==
    /\ At("socket")
    /\ \E s \in Free \cup {-1} :
         NetSocket(s) /\ udp_socket' = s /\ Goto(IF s < 0 THEN "exit" ELSE next)
    /\ UNCHANGED <<polls, inbox, sent, left, udp_size, udp_index, udp_sender>>

CloseUdpSocket ==
    /\ At("close")
    /\ NetClose(udp_socket) /\ Goto("exit")
    /\ UNCHANGED <<polls, udpVars>>

-----------------------------------------------------------------------------
(* app_net_udp_server.c *)

UdpBind ==
    /\ At("bind")
    /\ \E ok \in BOOLEAN :
         NetConfigured(udp_socket, 0, "open", ok) /\ Goto(IF ok THEN "receive" ELSE "close")
    /\ UNCHANGED <<polls, udpVars>>

(* The sender is saved before the register is used for the destination.    *)
UdpServerReceive ==
    /\ At("receive")
    /\ ReceiveFrom
    /\ udp_size' = bank'.result
    /\ IF udp_size' < 0
       THEN /\ Goto(IF bank'.error THEN "close" ELSE "receive")
            /\ UNCHANGED <<udp_index, udp_sender>>
       ELSE /\ udp_sender' = bank'.ip
            /\ udp_index' = 0
            /\ Goto("echo")
    /\ UNCHANGED <<polls, sent, left, udp_socket>>

UdpEcho ==
    /\ At("echo") /\ udp_index < udp_size
    /\ sockets' = Echoed(udp_socket)
    /\ udp_index' = udp_index + 1
    /\ UNCHANGED pc
    /\ UNCHANGED <<bank, faults, polls, inbox, sent, left, udp_socket, udp_size, udp_sender>>

(* Mutant: the loop over the bytes stops one early. *)
UdpReplyEarly ==
    /\ At("echo") /\ udp_index + 1 >= udp_size
    /\ \E ok \in BOOLEAN : SendTo(udp_sender, ok)
    /\ Goto("receive")
    /\ UNCHANGED <<polls, inbox, left, udp_socket, udp_size, udp_index, udp_sender>>

(* What sendto returns is not looked at. *)
UdpReply ==
    /\ At("echo") /\ udp_index >= udp_size
    /\ \E ok \in BOOLEAN : SendTo(udp_sender, ok)
    /\ Goto("receive")
    /\ UNCHANGED <<polls, inbox, left, udp_socket, udp_size, udp_index, udp_sender>>

UdpServer ==
    \/ TakeUdpSocket("bind")
    \/ UdpBind
    \/ UdpServerReceive
    \/ UdpEcho
    \/ UdpReply
    \/ CloseUdpSocket

-----------------------------------------------------------------------------
(* app_net_udp_client.c; its text has TextLength bytes, its host is 0.     *)
UdpClient ==
    \/ TakeUdpSocket("send_text")
    \/ /\ At("send_text")
       /\ sockets' = [sockets EXCEPT ![udp_socket].tx = Bytes(0, TextLength)]
       /\ bank' = [bank EXCEPT !.socket = udp_socket]
       /\ Goto("send")
       /\ UNCHANGED <<faults, polls, udpVars>>
    \/ /\ At("send")
       /\ \E ok \in BOOLEAN, server \in Host :
            SendTo(server, ok) /\ Goto(IF ok THEN "receive" ELSE "close")
       /\ UNCHANGED <<polls, inbox, left, udp_socket, udp_size, udp_index, udp_sender>>
    \/ /\ At("receive")
       /\ ReceiveFrom
       /\ udp_size' = bank'.result
       /\ udp_index' = 0
       /\ Goto(IF udp_size' >= 0 THEN "read" ELSE IF bank'.error THEN "close" ELSE "receive")
       /\ UNCHANGED <<polls, sent, left, udp_socket, udp_sender>>
    \/ /\ At("read")
       /\ \/ /\ udp_index < udp_size
             /\ sockets' = [sockets EXCEPT ![udp_socket].rx = Tail(@)]
             /\ udp_index' = udp_index + 1
             /\ UNCHANGED pc
          \/ udp_index >= udp_size /\ Goto("close") /\ UNCHANGED <<sockets, udp_index>>
       /\ UNCHANGED <<bank, faults, polls, inbox, sent, left, udp_socket, udp_size, udp_sender>>
    \/ CloseUdpSocket

-----------------------------------------------------------------------------
(* A datagram of any size arrives, the empty one included. *)
DatagramArrives ==
    /\ left > 0 /\ left' = left - 1
    /\ udp_socket \in Open
    /\ \E host \in Host, size \in 0 .. TextLength :
         inbox' = inbox \cup {[from |-> host, size |-> size]}
    /\ UNCHANGED <<app, pc, deviceState, polls, sent, udp_socket, udp_size, udp_index, udp_sender>>

UdpNext ==
    \/ app = "udp_server" /\ UdpServer /\ UNCHANGED app
    \/ app = "udp_client" /\ UdpClient /\ UNCHANGED app
    \/ DatagramArrives

UdpSpec ==
    /\ app \in {"udp_server", "udp_client"} /\ pc = "socket"
    /\ NetworkInit /\ UdpInit
    /\ [][UdpNext]_udpAll

-----------------------------------------------------------------------------
(* "Para UDP, trate cada datagrama como uma unidade" (README.md:1146): a   *)
(* reply of the server is one whole datagram, to the host that sent it,    *)
(* with no byte of another one, whatever was refused before.               *)
ReplyToSender ==
    app = "udp_server" /\ sent.to # 0 =>
        /\ \A i \in DOMAIN sent.bytes : sent.bytes[i] = <<sent.to, i>>
        /\ pc = "receive" /\ ~bank.error /\ udp_size >= 0 => Len(sent.bytes) = udp_size

(* Whatever is refused, the UDP programs have closed their socket when     *)
(* they have ended.                                                        *)
UdpClosed == app \in {"udp_server", "udp_client"} /\ pc = "exit" => Open = {}
=============================================================================
