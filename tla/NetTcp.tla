------------------------------- MODULE NetTcp -------------------------------
(***************************************************************************)
(* The TCP library (user/usr_net_tcp.c) and the programs that use it:      *)
(* the server that serves for ever (apps/app_net_server_loop.c, "loop"),   *)
(* the one that serves once (apps/app_net_server.c, "once") and the client *)
(* (apps/app_net_client.c, and app_net_echo.c and app_net_client_host.c,   *)
(* which differ in the address, "client").                                 *)
(*                                                                         *)
(* What is printed is left out, and with it the semaphore around the       *)
(* printing: sem_lock() returns sooner or later (module Sync).             *)
(***************************************************************************)
EXTENDS Network

CONSTANT TX_WAIT  \* polls before the answer is given up (100)

ASSUME TcpAssumption == TX_WAIT \in Nat \ {0}

VARIABLES server_socket, client_socket, available, tx_wait

tcpVars == <<server_socket, client_socket, available, tx_wait>>

tcpAll == <<app, pc, deviceState, polls, tcpVars>>

TcpInit ==
    /\ server_socket = -1
    /\ client_socket = -1
    /\ available = 0
    /\ tx_wait = 0

-----------------------------------------------------------------------------
(* net_wait_rx_socket(s, max_polls): one turn of its loop.  It returns 1,  *)
(* -1 or, when it has looked often enough, 0, and the program goes on at   *)
(* the place given for that.                                               *)
WaitRx(s, onData, onError, onNothing) ==
    /\ bank' = Polled(s)
    /\ UNCHANGED <<sockets, faults, server_socket, client_socket, tx_wait>>
    /\ \/ /\ sockets[s].rx # <<>>
          /\ available' = 1 /\ polls' = 0 /\ Goto(onData)
       \/ /\ sockets[s].rx = <<>> /\ sockets[s].state = "error"
          /\ available' = -1 /\ polls' = 0 /\ Goto(onError)
       \/ /\ sockets[s].rx = <<>> /\ sockets[s].state # "error"
          /\ available' = 0
          /\ \/ polls + 1 < Polls /\ polls' = polls + 1 /\ UNCHANGED pc
             \/ polls + 1 = Polls /\ polls' = 0 /\ Goto(onNothing)

(* net_accept(server_socket), and net_has_error() after it: a connection,  *)
(* nothing yet (-1, would block), or a listener that fails (-1, error).    *)
NetAccept(c, error) ==
    /\ c \in Free \cup {-1}
    /\ error => c = -1
    /\ bank' = [bank EXCEPT !.socket = server_socket, !.result = c, !.error = error]
    /\ sockets' = [t \in Socket |-> IF t = c THEN Fresh("connected") ELSE sockets[t]]
    /\ Outcome(~error)

-----------------------------------------------------------------------------
(* app_net_server_loop.c *)

LoopSocket ==
    /\ At("socket")
    /\ \E s \in Free \cup {-1} :
         /\ NetSocket(s)
         /\ server_socket' = s
         /\ Goto(IF s < 0 THEN "socket" ELSE "bind")
    /\ UNCHANGED <<polls, client_socket, available, tx_wait>>

(* Bind, then listen; a refusal is followed by closing and starting over.  *)
LoopConfigure(place, state, next) ==
    /\ At(place)
    /\ \E ok \in BOOLEAN :
         /\ NetConfigured(server_socket, 0, state, ok)
         /\ Goto(IF ok THEN next ELSE "restart")
    /\ UNCHANGED <<polls, tcpVars>>

LoopAccept ==
    /\ At("accept")
    /\ \E c \in Free \cup {-1}, error \in BOOLEAN :
         /\ NetAccept(c, error)
         /\ client_socket' = IF error THEN 0 ELSE c
         /\ Goto(IF c >= 0 THEN "wait_rx" ELSE IF error THEN "restart" ELSE "accept")
    /\ UNCHANGED <<polls, server_socket, available, tx_wait>>

LoopWaitRx == At("wait_rx") /\ WaitRx(client_socket, "echo", "close", "state")

(* Mutant: only a connection in error ends the wait. *)
LoopStateErrorOnly ==
    /\ At("state")
    /\ bank' = [bank EXCEPT !.socket = client_socket]
    /\ Goto(IF sockets[client_socket].state = "error" THEN "close" ELSE "wait_rx")
    /\ UNCHANGED <<sockets, faults, polls, tcpVars>>

(* Nothing has come: has the client gone (state 6) or failed (7)? *)
LoopState ==
    /\ At("state")
    /\ bank' = [bank EXCEPT !.socket = client_socket]
    /\ Goto(IF sockets[client_socket].state \in {"closed", "error"} THEN "close"
                                                                    ELSE "wait_rx")
    /\ UNCHANGED <<sockets, faults, polls, tcpVars>>

(* One turn of the loop that echoes while something is there, and the      *)
(* request to send that follows it.                                        *)
LoopEcho ==
    /\ At("echo")
    /\ UNCHANGED <<faults, polls, server_socket, client_socket, available>>
    /\ bank' = [bank EXCEPT !.socket = client_socket]
    /\ \/ /\ sockets[client_socket].rx # <<>>
          /\ sockets' = Echoed(client_socket)
          /\ UNCHANGED <<pc, tx_wait>>
       \/ /\ sockets[client_socket].rx = <<>>
          /\ sockets' = [sockets EXCEPT ![client_socket].sending = TRUE]
          /\ tx_wait' = 0
          /\ Goto("drain")

(* Mutant: the answer is not waited for. *)
LoopDrainNot ==
    /\ At("drain")
    /\ Goto("close")
    /\ UNCHANGED <<deviceState, polls, tcpVars>>

(* The wait for the answer to leave, which clears it (net_clear_tx) after  *)
(* TX_WAIT polls.                                                          *)
LoopDrain ==
    /\ At("drain")
    /\ UNCHANGED <<faults, polls, server_socket, client_socket, available>>
    /\ \/ /\ sockets[client_socket].tx = <<>>
          /\ Goto("close")
          /\ UNCHANGED <<sockets, bank, tx_wait>>
       \/ /\ sockets[client_socket].tx # <<>>
          /\ bank' = Polled(client_socket)
          /\ tx_wait' = tx_wait + 1
          /\ sockets' = IF tx_wait' >= TX_WAIT
                        THEN [sockets EXCEPT ![client_socket].tx = <<>>] ELSE sockets
          /\ UNCHANGED pc

LoopClose ==
    /\ At("close")
    /\ NetClose(client_socket)
    /\ client_socket' = -1
    /\ Goto("accept")
    /\ UNCHANGED <<polls, server_socket, available, tx_wait>>

LoopRestart ==
    /\ At("restart")
    /\ NetClose(server_socket)
    /\ server_socket' = -1
    /\ Goto("socket")
    /\ UNCHANGED <<polls, client_socket, available, tx_wait>>

Loop ==
    \/ LoopSocket
    \/ LoopConfigure("bind", "bound", "listen")
    \/ LoopConfigure("listen", "listening", "accept")
    \/ LoopAccept
    \/ LoopWaitRx
    \/ LoopState
    \/ LoopEcho
    \/ LoopDrain
    \/ LoopClose
    \/ LoopRestart

-----------------------------------------------------------------------------
(* app_net_server.c: every failure ends it, one client is served. *)
Once ==
    \/ /\ At("socket")
       /\ \E s \in Free \cup {-1} :
            NetSocket(s) /\ server_socket' = s /\ Goto(IF s < 0 THEN "exit" ELSE "bind")
       /\ UNCHANGED <<polls, client_socket, available, tx_wait>>
    \/ \E step \in {<<"bind", "bound", "listen">>, <<"listen", "listening", "accept">>},
          ok \in BOOLEAN :
         /\ At(step[1])
         /\ NetConfigured(server_socket, 0, step[2], ok)
         /\ Goto(IF ok THEN step[3] ELSE "exit")
         /\ UNCHANGED <<polls, tcpVars>>
    \/ /\ At("accept")
       /\ \E c \in Free \cup {-1}, error \in BOOLEAN :
            /\ NetAccept(c, error)
            /\ client_socket' = IF error THEN 0 ELSE c
            /\ Goto(IF error THEN "exit" ELSE IF c < 0 THEN "accept" ELSE "wait_rx")
       /\ UNCHANGED <<polls, server_socket, available, tx_wait>>
    \/ At("wait_rx") /\ WaitRx(client_socket, "echo", "close", "wait_rx")
    \/ /\ At("echo")
       /\ UNCHANGED <<faults, polls, tcpVars>>
       /\ bank' = [bank EXCEPT !.socket = client_socket]
       /\ \/ /\ sockets[client_socket].rx # <<>>
             /\ sockets' = Echoed(client_socket)
             /\ UNCHANGED pc
          \/ /\ sockets[client_socket].rx = <<>>
             /\ sockets' = [sockets EXCEPT ![client_socket].sending = TRUE]
             /\ Goto("close")
    \/ /\ At("close")
       /\ NetClose(client_socket) /\ Goto("close_server")
       /\ UNCHANGED <<polls, tcpVars>>
    \/ /\ At("close_server")
       /\ NetClose(server_socket) /\ Goto("exit")
       /\ UNCHANGED <<polls, tcpVars>>

-----------------------------------------------------------------------------
(* app_net_client.c *)

(* net_wait_connected_socket(): one turn of its loop. *)
WaitConnected(s) ==
    /\ bank' = Polled(s)
    /\ UNCHANGED <<sockets, faults, tcpVars>>
    /\ \/ sockets[s].state = "connected" /\ polls' = 0 /\ Goto("send_text")
       \/ sockets[s].state = "error" /\ polls' = 0 /\ Goto("exit")
       \/ /\ sockets[s].state \notin {"connected", "error"}
          /\ \/ polls + 1 < Polls /\ polls' = polls + 1 /\ UNCHANGED pc
             \/ polls + 1 = Polls /\ polls' = 0 /\ Goto("exit")

(* Mutant: the wait for the answer starts again when it has run out. *)
WaitAnswerAgain == At("wait_rx") /\ WaitRx(client_socket, "read", "close", "wait_rx")

(* Mutant: a client that has had no answer ends without the close. *)
WaitAnswerUnclosed == At("wait_rx") /\ WaitRx(client_socket, "read", "close", "exit")

WaitAnswer == At("wait_rx") /\ WaitRx(client_socket, "read", "close", "close")

(* client_socket is the variable the program calls socket_id. *)
Client ==
    \/ /\ At("socket")
       /\ \E s \in Free \cup {-1} :
            NetSocket(s) /\ client_socket' = s /\ Goto(IF s < 0 THEN "exit" ELSE "connect")
       /\ UNCHANGED <<polls, server_socket, available, tx_wait>>
    \/ /\ At("connect")
       /\ NetConfigured(client_socket, 1, "connecting", TRUE)
       /\ Goto("wait_connected")
       /\ UNCHANGED <<polls, tcpVars>>
    \/ At("wait_connected") /\ WaitConnected(client_socket)
    \/ /\ At("send_text")
       /\ bank' = [bank EXCEPT !.socket = client_socket]
       /\ sockets' = [sockets EXCEPT ![client_socket].tx = [i \in 1 .. TextLength |-> i],
                                     ![client_socket].sending = TRUE]
       /\ Goto("wait_rx")
       /\ UNCHANGED <<faults, polls, tcpVars>>
    \/ WaitAnswer
    \/ /\ At("read")
       /\ bank' = [bank EXCEPT !.socket = client_socket]
       /\ \/ /\ sockets[client_socket].rx # <<>>
             /\ sockets' = [sockets EXCEPT ![client_socket].rx = Tail(@)]
             /\ UNCHANGED pc
          \/ /\ sockets[client_socket].rx = <<>>
             /\ Goto("close") /\ UNCHANGED sockets
       /\ UNCHANGED <<faults, polls, tcpVars>>
    \/ /\ At("close")
       /\ NetClose(client_socket) /\ Goto("exit")
       /\ UNCHANGED <<polls, tcpVars>>

-----------------------------------------------------------------------------
Program ==
    /\ UNCHANGED app
    /\ \/ app = "loop" /\ Loop
       \/ app = "once" /\ Once
       \/ app = "client" /\ Client

Peer ==
    /\ \E s \in Socket : PeerConnects(s) \/ PeerPuts(s) \/ PeerTakes(s) \/ PeerCloses(s)
                         \/ Breaks(s)
    /\ UNCHANGED <<app, pc, bank, polls, tcpVars>>

TcpNext == Program \/ Peer

(* A program begins by taking a socket. *)
TcpSpec ==
    /\ app \in {"loop", "once", "client"} /\ pc = "socket"
    /\ NetworkInit /\ TcpInit
    /\ [][TcpNext]_tcpAll

(* The program keeps running, and a peer does not keep a connection open   *)
(* for ever (the servers have no limit for a client that is silent).       *)
TcpFairness ==
    /\ WF_tcpAll(Program)
    /\ \A s \in Socket :
         WF_tcpAll(PeerCloses(s) /\ UNCHANGED <<app, pc, bank, polls, tcpVars>>)

-----------------------------------------------------------------------------
(* What the program has closed, whatever is refused and wherever a         *)
(* connection breaks.  The server that serves for ever holds no socket     *)
(* when it asks for a listener and none but the listener when it asks for  *)
(* a client.  A client that ends has closed its socket, unless it was      *)
(* never connected: then it ends with it open (app_net_client.c:52-54),    *)
(* and nothing was sent on it.  The server that serves once ends with all  *)
(* closed when it has had a client's bytes or failure (available), and     *)
(* otherwise with no more than the listener open, whose bind, listen or    *)
(* accept was refused (app_net_server.c:28-55).                            *)
TcpClosed ==
    /\ app = "loop" /\ pc = "socket" => Open = {}
    /\ app = "loop" /\ pc = "accept" => Open \subseteq {server_socket}
    /\ app = "client" /\ pc = "exit" =>
           Open \subseteq {client_socket} /\ \A s \in Open : ~sockets[s].sending
    /\ app = "once" /\ pc = "exit" =>
           Open \subseteq {server_socket} /\ (available # 0 => Open = {})

(* "O servidor nunca encerra voluntariamente. Se o listener falhar, ele e  *)
(* fechado e recriado" (app_net_server_loop.c:80): from wherever it is,    *)
(* the server comes back to accept clients, also when the one it serves    *)
(* goes away silently, fails or does not take its answer.                  *)
ServerReturns == app = "loop" ~> pc = "accept"

(* When the server has found something to read, it closes the connection   *)
(* only when the client has taken the echo of all that was read, in order, *)
(* or has had TX_WAIT polls to do so (app_net_server_loop.c:206).  What    *)
(* comes after the last look, before the client closes, is not read.       *)
EchoedStep ==
    (app = "loop" /\ pc = "close" /\ pc' = "accept" /\ available = 1)
    => LET c == sockets[client_socket]
           read == Len(c.put) - Len(c.rx)
       IN  /\ \A i \in DOMAIN c.taken : c.taken[i] = c.put[i]
           /\ Len(c.taken) = read \/ tx_wait >= TX_WAIT

EchoedBeforeClose == [][EchoedStep]_tcpAll

(* The client ends, whatever becomes of its connection and its answer:     *)
(* every wait of the library gives up.                                     *)
ClientEnds == app = "client" ~> pc = "exit"
=============================================================================
