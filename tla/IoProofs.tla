------------------------------ MODULE IoProofs ------------------------------
(***************************************************************************)
(* The programs that drive the devices: what the TCP and UDP programs do   *)
(* with their sockets, the disk tools and the editor with their files, and *)
(* the shells with their line.  Each invariant is one of its program's     *)
(* specification; the last theorems put them together.                     *)
(***************************************************************************)
EXTENDS MCIo, SequenceTheorems, WellFoundedInduction, TLAPS

SocketState ==
    {"free", "open", "bound", "listening", "connecting", "connected", "closed", "error"}

(* The sockets of a device whose FIFOs hold members of B. *)
SocketOf(B) ==
    [state : SocketState, rx : Seq(B), tx : Seq(B), sending : BOOLEAN, put : Seq(B), taken : Seq(B)]

Sockets(B) == sockets \in [Socket -> SocketOf(B)]

LEMMA NoneIsNoSocket == -1 \notin Socket
BY NetworkAssumption

LEMMA FreshSocket ==
    ASSUME NEW B
    PROVE  /\ Fresh("free") \in SocketOf(B)
           /\ Fresh("open") \in SocketOf(B)
           /\ Fresh("connected") \in SocketOf(B)
           /\ Fresh("free").state = "free"
BY DEF Fresh, SocketOf, SocketState

(* At the start all sockets are free. *)
LEMMA NoSocketYet ==
    ASSUME NEW B, NetworkInit
    PROVE  Sockets(B) /\ Open = {}
<1>1. Fresh("free") \in SocketOf(B) /\ Fresh("free").state = "free"
  BY FreshSocket
<1>2. sockets = [s \in Socket |-> Fresh("free")]
  BY DEF NetworkInit
<1> QED BY <1>1, <1>2 DEF Sockets, Open, Free

(* What each call of the library leaves open. *)
LEMMA SocketTaken ==
    ASSUME NEW B, Sockets(B), NEW s, NetSocket(s)
    PROVE  Sockets(B)' /\ Open' \subseteq Open \cup {s}
<1>0. sockets' = [t \in Socket |-> IF t = s THEN Fresh("open") ELSE sockets[t]]
  BY DEF NetSocket
<1>1. Sockets(B)'
  BY <1>0, FreshSocket DEF Sockets
<1>2. Open' \subseteq Open \cup {s}
  BY <1>0 DEF Open, Free
<1> QED BY <1>1, <1>2

LEMMA SocketConfigured ==
    ASSUME NEW B, Sockets(B), NEW s, NEW ip, NEW state \in SocketState, NEW ok,
           NetConfigured(s, ip, state, ok)
    PROVE  Sockets(B)' /\ Open' \subseteq Open \cup {s}
<1>1. Sockets(B)'
  BY DEF NetConfigured, Sockets, SocketOf
<1>2. Open' \subseteq Open \cup {s}
  BY <1>1 DEF NetConfigured, Sockets, Open, Free
<1> QED BY <1>1, <1>2

LEMMA SocketAccepted ==
    ASSUME NEW B, Sockets(B), NEW c, NEW error, NetAccept(c, error)
    PROVE  Sockets(B)' /\ Open' \subseteq Open \cup {c}
<1>0. sockets' = [t \in Socket |-> IF t = c THEN Fresh("connected") ELSE sockets[t]]
  BY DEF NetAccept
<1>1. Sockets(B)'
  BY <1>0, FreshSocket DEF Sockets
<1>2. Open' \subseteq Open \cup {c}
  BY <1>0 DEF Open, Free
<1> QED BY <1>1, <1>2

LEMMA SocketClosed ==
    ASSUME NEW B, Sockets(B), NEW s, NetClose(s)
    PROVE  Sockets(B)' /\ Open' \subseteq Open \ {s}
<1>0. sockets' = [sockets EXCEPT ![s] = Fresh("free")]
  BY DEF NetClose
<1>1. Fresh("free") \in SocketOf(B) /\ Fresh("free").state = "free"
  BY FreshSocket
<1>2. Sockets(B)'
  BY <1>0, <1>1 DEF Sockets
<1>3. Open' \subseteq Open \ {s}
  BY <1>0, <1>1 DEF Sockets, Open, Free
<1> QED BY <1>2, <1>3

(* What moves bytes opens nothing and closes nothing. *)
LEMMA SocketMoved ==
    ASSUME \A s \in Socket : sockets'[s].state = "free" <=> sockets[s].state = "free"
    PROVE  Open' = Open
BY DEF Open, Free

LEMMA SocketEchoed ==
    ASSUME NEW B, Sockets(B), NEW s, sockets[s].rx # <<>>, sockets' = Echoed(s)
    PROVE  Sockets(B)' /\ Open' = Open
<1>1. Sockets(B)'
  <2> SUFFICES ASSUME s \in Socket PROVE Sockets(B)'
    BY DEF Echoed, Sockets
  <2>1. /\ sockets[s].rx \in Seq(B) /\ sockets[s].tx \in Seq(B)
        /\ Head(sockets[s].rx) \in B /\ Tail(sockets[s].rx) \in Seq(B)
    BY DEF Sockets, SocketOf
  <2>2. Append(sockets[s].tx, Head(sockets[s].rx)) \in Seq(B)
    BY <2>1
  <2> QED BY <2>1, <2>2 DEF Echoed, Sockets, SocketOf
<1>2. \A t \in Socket : sockets'[t].state = sockets[t].state
  BY DEF Echoed, Sockets, SocketOf
<1> QED BY <1>1, <1>2, SocketMoved

(* Nor does the other end, or the network. *)
LEMMA PeerMoved ==
    ASSUME Sockets(Nat), NEW s \in Socket,
           \/ PeerConnects(s) \/ PeerPuts(s) \/ PeerTakes(s) \/ PeerCloses(s) \/ Breaks(s)
    PROVE  Sockets(Nat)' /\ Open' = Open
<1>1. ASSUME NEW state \in SocketState, state # "free", sockets[s].state # "free",
             sockets' = [sockets EXCEPT ![s].state = state]
      PROVE  Sockets(Nat)' /\ Open' = Open
  <2>1. Sockets(Nat)'
    BY <1>1 DEF Sockets, SocketOf
  <2>2. \A t \in Socket : sockets'[t].state = "free" <=> sockets[t].state = "free"
    BY <1>1 DEF Sockets, SocketOf
  <2> QED BY <2>1, <2>2, SocketMoved
<1>2. CASE PeerPuts(s)
  <2>1. sockets[s].rx \in Seq(Nat) /\ sockets[s].put \in Seq(Nat)
    BY DEF Sockets, SocketOf
  <2> DEFINE byte == Len(sockets[s].put) + 1
  <2>2. byte \in Nat
    BY <2>1
  <2> HIDE DEF byte
  <2>3. sockets' = [sockets EXCEPT ![s].rx = Append(@, byte), ![s].put = Append(@, byte)]
    BY <1>2 DEF PeerPuts, byte
  <2>4. Append(sockets[s].rx, byte) \in Seq(Nat) /\ Append(sockets[s].put, byte) \in Seq(Nat)
    BY <2>1, <2>2
  <2>5. Sockets(Nat)'
    BY <2>3, <2>4 DEF Sockets, SocketOf
  <2>6. \A t \in Socket : sockets'[t].state = "free" <=> sockets[t].state = "free"
    BY <2>3 DEF Sockets, SocketOf
  <2> QED BY <2>5, <2>6, SocketMoved
<1>3. CASE PeerTakes(s)
  <2>1. /\ sockets[s].tx \in Seq(Nat) /\ sockets[s].taken \in Seq(Nat)
        /\ sockets[s].tx # <<>>
    BY <1>3 DEF PeerTakes, Sockets, SocketOf
  <2>2. /\ Tail(sockets[s].tx) \in Seq(Nat)
        /\ Append(sockets[s].taken, Head(sockets[s].tx)) \in Seq(Nat)
    BY <2>1
  <2>3. sockets' = [sockets EXCEPT ![s].taken = Append(@, Head(sockets[s].tx)),
                                   ![s].tx = Tail(@)]
    BY <1>3 DEF PeerTakes
  <2>4. Sockets(Nat)'
    BY <2>2, <2>3 DEF Sockets, SocketOf
  <2>5. \A t \in Socket : sockets'[t].state = "free" <=> sockets[t].state = "free"
    BY <2>3 DEF Sockets, SocketOf
  <2> QED BY <2>4, <2>5, SocketMoved
<1>4. CASE PeerConnects(s)
  BY <1>1, <1>4 DEF PeerConnects, SocketState
<1>5. CASE PeerCloses(s)
  BY <1>1, <1>5 DEF PeerCloses, SocketState
<1>6. CASE Breaks(s)
  BY <1>1, <1>6 DEF Breaks, SocketState
<1> QED BY <1>2, <1>3, <1>4, <1>5, <1>6

-----------------------------------------------------------------------------
(* The TCP programs keep each open socket in a variable. *)

HeldTcp ==
    IF pc = "socket" THEN {}
    ELSE IF pc \in {"bind", "listen", "accept", "restart"} /\ app # "client" THEN {server_socket}
    ELSE {server_socket, client_socket}

TcpInv ==
    /\ app \in TcpApps
    /\ Sockets(Nat)
    /\ Open \subseteq HeldTcp

(* A step that leaves open what was open, and forgets none of it. *)
LEMMA HeldStill ==
    ASSUME TcpInv, Sockets(Nat)', UNCHANGED app, Open' \subseteq Open,
           UNCHANGED <<server_socket, client_socket>>,
           pc \notin {"socket", "bind", "listen", "accept", "restart"} =>
               pc' \notin {"socket", "bind", "listen", "accept", "restart"},
           pc = "socket" \/ pc' # "socket"
    PROVE  TcpInv'
<1>1. HeldTcp \subseteq HeldTcp'
  BY DEF HeldTcp
<1> QED BY <1>1 DEF TcpInv

LEMMA SocketsSame ==
    ASSUME NEW B, Sockets(B), UNCHANGED sockets
    PROVE  Sockets(B)' /\ Open' = Open
BY DEF Sockets, Open, Free

(* Waiting for something to read moves nothing. *)
LEMMA WaitHolds ==
    ASSUME TcpInv, UNCHANGED app, pc = "wait_rx",
           NEW onData, NEW onError, NEW onNothing, WaitRx(client_socket, onData, onError, onNothing),
           {onData, onError, onNothing} \subseteq {"echo", "read", "state", "close", "wait_rx"}
    PROVE  TcpInv'
<1>1. Sockets(Nat)' /\ Open' = Open
  BY SocketsSame DEF WaitRx, TcpInv
<1>2. pc' \in {"echo", "read", "state", "close", "wait_rx"}
  BY DEF WaitRx, Goto
<1>3. UNCHANGED <<server_socket, client_socket>>
  BY DEF WaitRx
<1> QED BY <1>1, <1>2, <1>3, HeldStill

LEMMA LoopHolds ==
    ASSUME TcpInv, app = "loop", UNCHANGED app, Loop
    PROVE  TcpInv'
<1> USE DEF At, Goto
<1>0. Sockets(Nat) /\ app' \in TcpApps
  BY DEF TcpInv
<1>1. CASE LoopSocket
  <2>1. PICK s \in Free \cup {-1} : /\ NetSocket(s) /\ server_socket' = s
                                    /\ pc' = IF s < 0 THEN "socket" ELSE "bind"
    BY <1>1 DEF LoopSocket
  <2>2. Sockets(Nat)' /\ Open' \subseteq Open \cup {s}
    BY <1>0, <2>1, SocketTaken
  <2>3. Open = {}
    BY <1>1 DEF LoopSocket, TcpInv, HeldTcp
  <2>4. CASE s = -1
    BY <1>0, <2>1, <2>2, <2>3, <2>4, NoneIsNoSocket DEF TcpInv, HeldTcp, Open
  <2>5. CASE s # -1
    <3>1. s \in Nat
      BY <2>1, <2>5, NetworkAssumption DEF Free
    <3> QED BY <1>0, <2>1, <2>2, <2>3, <3>1 DEF TcpInv, HeldTcp
  <2> QED BY <2>4, <2>5
<1>2. ASSUME NEW place \in {"bind", "listen"}, NEW state \in SocketState,
             NEW next \in {"listen", "accept"}, LoopConfigure(place, state, next)
      PROVE  TcpInv'
  <2>1. PICK ok \in BOOLEAN : /\ NetConfigured(server_socket, 0, state, ok)
                              /\ pc' = IF ok THEN next ELSE "restart"
    BY <1>2 DEF LoopConfigure
  <2>2. Sockets(Nat)' /\ Open' \subseteq Open \cup {server_socket}
    BY <1>0, <2>1, SocketConfigured
  <2>3. pc = place /\ UNCHANGED <<server_socket, client_socket>>
    BY <1>2 DEF LoopConfigure, tcpVars
  <2>4. Open \subseteq {server_socket} /\ pc' \in {"listen", "accept", "restart"}
    BY <2>1, <2>3 DEF TcpInv, HeldTcp
  <2> QED BY <1>0, <2>2, <2>3, <2>4 DEF TcpInv, HeldTcp
<1>3. CASE LoopAccept
  <2>1. PICK c \in Free \cup {-1}, error \in BOOLEAN :
             /\ NetAccept(c, error)
             /\ client_socket' = IF error THEN 0 ELSE c
             /\ pc' = IF c >= 0 THEN "wait_rx" ELSE IF error THEN "restart" ELSE "accept"
    BY <1>3 DEF LoopAccept
  <2>2. Sockets(Nat)' /\ Open' \subseteq Open \cup {c}
    BY <1>0, <2>1, SocketAccepted
  <2>3. Open \subseteq {server_socket} /\ UNCHANGED server_socket
    BY <1>3 DEF LoopAccept, TcpInv, HeldTcp
  <2>4. CASE c = -1
    <3>1. Open' \subseteq {server_socket}
      BY <2>2, <2>3, <2>4, NoneIsNoSocket DEF Open
    <3>2. pc' \in {"restart", "accept"}
      BY <2>1, <2>4
    <3> QED BY <1>0, <2>2, <2>3, <3>1, <3>2 DEF TcpInv, HeldTcp
  <2>5. CASE c # -1
    <3>1. c \in Nat /\ ~error
      BY <2>1, <2>5, NetworkAssumption DEF Free, NetAccept
    <3>2. pc' = "wait_rx" /\ client_socket' = c
      BY <2>1, <3>1
    <3> QED BY <1>0, <2>2, <2>3, <3>2 DEF TcpInv, HeldTcp
  <2> QED BY <2>4, <2>5
<1>4. CASE LoopWaitRx
  BY <1>4, WaitHolds DEF LoopWaitRx
<1>5. CASE LoopState
  <2>1. Sockets(Nat)' /\ Open' = Open
    BY <1>0, <1>5, SocketsSame DEF LoopState
  <2>2. pc = "state" /\ pc' \in {"close", "wait_rx"} /\ UNCHANGED <<server_socket, client_socket>>
    BY <1>5 DEF LoopState, tcpVars
  <2> QED BY <2>1, <2>2, HeldStill
<1>6. CASE LoopEcho
  <2>1. /\ pc = "echo" /\ pc' \in {"echo", "drain"}
        /\ UNCHANGED <<server_socket, client_socket>>
    BY <1>6 DEF LoopEcho
  <2>2. Sockets(Nat)' /\ Open' = Open
    <3>1. CASE sockets' = [sockets EXCEPT ![client_socket].sending = TRUE]
      <4>1. Sockets(Nat)'
        BY <1>0, <3>1 DEF Sockets, SocketOf
      <4>2. \A t \in Socket : sockets'[t].state = "free" <=> sockets[t].state = "free"
        BY <1>0, <3>1 DEF Sockets, SocketOf
      <4> QED BY <4>1, <4>2, SocketMoved
    <3>2. CASE sockets[client_socket].rx # <<>> /\ sockets' = Echoed(client_socket)
      BY <1>0, <3>2, SocketEchoed
    <3> QED BY <1>6, <3>1, <3>2 DEF LoopEcho
  <2> QED BY <2>1, <2>2, HeldStill
<1>7. CASE LoopDrain
  <2>1. /\ pc = "drain" /\ pc' \in {"drain", "close"}
        /\ UNCHANGED <<server_socket, client_socket>>
    BY <1>7 DEF LoopDrain
  <2>2. Sockets(Nat)' /\ Open' = Open
    <3>1. CASE sockets' = [sockets EXCEPT ![client_socket].tx = <<>>]
      <4>0. <<>> \in Seq(Nat)
        OBVIOUS
      <4>1. Sockets(Nat)'
        <5>1. CASE client_socket \in Socket
          <6>1. [sockets[client_socket] EXCEPT !.tx = <<>>] \in SocketOf(Nat)
            BY <1>0, <4>0, <5>1 DEF Sockets, SocketOf
          <6> QED BY <1>0, <3>1, <6>1 DEF Sockets
        <5>2. CASE client_socket \notin Socket
          BY <1>0, <3>1, <5>2 DEF Sockets
        <5> QED BY <5>1, <5>2
      <4>2. \A t \in Socket : sockets'[t].state = "free" <=> sockets[t].state = "free"
        BY <1>0, <3>1 DEF Sockets, SocketOf
      <4> QED BY <4>1, <4>2, SocketMoved
    <3>2. CASE UNCHANGED sockets
      BY <1>0, <3>2, SocketsSame
    <3> QED BY <1>7, <3>1, <3>2 DEF LoopDrain
  <2> QED BY <2>1, <2>2, HeldStill
<1>8. CASE LoopClose
  <2>1. Sockets(Nat)' /\ Open' \subseteq Open \ {client_socket}
    BY <1>0, <1>8, SocketClosed DEF LoopClose
  <2>2. pc = "close" /\ pc' = "accept" /\ UNCHANGED server_socket
    BY <1>8 DEF LoopClose
  <2> QED BY <1>0, <2>1, <2>2 DEF TcpInv, HeldTcp
<1>9. CASE LoopRestart
  <2>1. Sockets(Nat)' /\ Open' \subseteq Open \ {server_socket}
    BY <1>0, <1>9, SocketClosed DEF LoopRestart
  <2>2. pc = "restart" /\ pc' = "socket"
    BY <1>9 DEF LoopRestart
  <2> QED BY <1>0, <2>1, <2>2 DEF TcpInv, HeldTcp
<1> QED
  BY <1>1, <1>2, <1>3, <1>4, <1>5, <1>6, <1>7, <1>8, <1>9 DEF Loop, SocketState

LEMMA OnceHolds ==
    ASSUME TcpInv, app = "once", UNCHANGED app, Once
    PROVE  TcpInv'
<1> USE DEF At, Goto
<1>0. Sockets(Nat) /\ app' \in TcpApps
  BY DEF TcpInv
<1>1. ASSUME pc = "socket", NEW s \in Free \cup {-1}, NetSocket(s), server_socket' = s,
             pc' = IF s < 0 THEN "exit" ELSE "bind"
      PROVE  TcpInv'
  <2>1. Sockets(Nat)' /\ Open' \subseteq {s}
    BY <1>0, <1>1, SocketTaken DEF TcpInv, HeldTcp
  <2>2. pc' \in {"exit", "bind"}
    BY <1>1
  <2> QED BY <1>0, <1>1, <2>1, <2>2 DEF TcpInv, HeldTcp
<1>2. ASSUME NEW place \in {"bind", "listen"}, NEW state \in SocketState, NEW ok \in BOOLEAN,
             pc = place, NetConfigured(server_socket, 0, state, ok),
             pc' \in {"listen", "accept", "exit"}, UNCHANGED <<server_socket, client_socket>>
      PROVE  TcpInv'
  <2>1. Sockets(Nat)' /\ Open' \subseteq {server_socket}
    BY <1>0, <1>2, SocketConfigured DEF TcpInv, HeldTcp
  <2> QED BY <1>0, <1>2, <2>1 DEF TcpInv, HeldTcp
<1>3. ASSUME pc = "accept", NEW c \in Free \cup {-1}, NEW error \in BOOLEAN,
             NetAccept(c, error), client_socket' = IF error THEN 0 ELSE c,
             pc' = IF error THEN "exit" ELSE IF c < 0 THEN "accept" ELSE "wait_rx",
             UNCHANGED server_socket
      PROVE  TcpInv'
  <2>1. Sockets(Nat)' /\ Open' \subseteq {server_socket, c}
    BY <1>0, <1>3, SocketAccepted DEF TcpInv, HeldTcp
  <2>2. CASE c = -1
    <3>1. Open' \subseteq {server_socket} /\ pc' # "socket"
      BY <1>3, <2>1, <2>2, NoneIsNoSocket DEF Open
    <3> QED BY <1>0, <1>3, <2>1, <3>1 DEF TcpInv, HeldTcp
  <2>3. CASE c # -1
    <3>1. c \in Nat /\ ~error
      BY <1>3, <2>3, NetworkAssumption DEF Free, NetAccept
    <3>2. pc' = "wait_rx" /\ client_socket' = c
      BY <1>3, <3>1
    <3> QED BY <1>0, <1>3, <2>1, <3>2 DEF TcpInv, HeldTcp
  <2> QED BY <2>2, <2>3
<1>4. CASE pc = "wait_rx" /\ WaitRx(client_socket, "echo", "close", "wait_rx")
  BY <1>4, WaitHolds
<1>5. ASSUME pc = "echo", UNCHANGED tcpVars,
             \/ /\ sockets[client_socket].rx # <<>>
                /\ sockets' = Echoed(client_socket)
                /\ UNCHANGED pc
             \/ /\ sockets[client_socket].rx = <<>>
                /\ sockets' = [sockets EXCEPT ![client_socket].sending = TRUE]
                /\ pc' = "close"
      PROVE  TcpInv'
  <2>1. /\ pc' \in {"echo", "close"}
        /\ UNCHANGED <<server_socket, client_socket>>
    BY <1>5 DEF tcpVars
  <2>2. Sockets(Nat)' /\ Open' = Open
    <3>1. CASE sockets' = [sockets EXCEPT ![client_socket].sending = TRUE]
      <4>1. Sockets(Nat)'
        BY <1>0, <3>1 DEF Sockets, SocketOf
      <4>2. \A t \in Socket : sockets'[t].state = "free" <=> sockets[t].state = "free"
        BY <1>0, <3>1 DEF Sockets, SocketOf
      <4> QED BY <4>1, <4>2, SocketMoved
    <3>2. CASE sockets[client_socket].rx # <<>> /\ sockets' = Echoed(client_socket)
      BY <1>0, <3>2, SocketEchoed
    <3> QED BY <1>5, <3>1, <3>2
  <2> QED BY <1>5, <2>1, <2>2, HeldStill
<1>6. ASSUME NEW s \in {server_socket, client_socket}, NetClose(s), UNCHANGED tcpVars,
             pc \in {"close", "close_server"}, pc' \in {"close_server", "exit"}
      PROVE  TcpInv'
  <2>1. Sockets(Nat)' /\ Open' \subseteq Open
    BY <1>0, <1>6, SocketClosed
  <2> QED BY <1>6, <2>1, HeldStill DEF tcpVars
<1>7. CASE \E step \in {<<"bind", "bound", "listen">>, <<"listen", "listening", "accept">>},
              ok \in BOOLEAN :
             /\ pc = step[1]
             /\ NetConfigured(server_socket, 0, step[2], ok)
             /\ pc' = IF ok THEN step[3] ELSE "exit"
             /\ UNCHANGED <<polls, tcpVars>>
  <2>1. PICK step \in {<<"bind", "bound", "listen">>, <<"listen", "listening", "accept">>},
              ok \in BOOLEAN :
             /\ pc = step[1]
             /\ NetConfigured(server_socket, 0, step[2], ok)
             /\ pc' = IF ok THEN step[3] ELSE "exit"
             /\ UNCHANGED <<polls, tcpVars>>
    BY <1>7
  <2>2. /\ step[1] \in {"bind", "listen"} /\ step[2] \in SocketState
        /\ step[3] \in {"listen", "accept"}
    BY DEF SocketState
  <2> QED BY <1>2, <2>1, <2>2 DEF tcpVars
<1> QED
  BY <1>1, <1>3, <1>4, <1>5, <1>6, <1>7 DEF Once

LEMMA ClientHolds ==
    ASSUME TcpInv, app = "client", UNCHANGED app, Client
    PROVE  TcpInv'
<1> USE DEF At, Goto
<1>0. Sockets(Nat) /\ app' = "client" /\ app' \in TcpApps
  BY DEF TcpInv
<1>a. pc # "socket" => Open \subseteq {server_socket, client_socket}
  BY DEF TcpInv, HeldTcp
(* Whatever is done with the socket, it stays in its variable. *)
<1>b. ASSUME Sockets(Nat)', pc # "socket", pc' # "socket",
             Open' \subseteq Open \cup {client_socket},
             UNCHANGED <<server_socket, client_socket>>
      PROVE  TcpInv'
  BY <1>0, <1>a, <1>b DEF TcpInv, HeldTcp
<1>1. ASSUME pc = "socket", NEW s \in Free \cup {-1}, NetSocket(s), client_socket' = s,
             pc' = IF s < 0 THEN "exit" ELSE "connect"
      PROVE  TcpInv'
  <2>1. Sockets(Nat)' /\ Open' \subseteq {s}
    BY <1>0, <1>1, SocketTaken DEF TcpInv, HeldTcp
  <2>2. pc' # "socket"
    BY <1>1
  <2> QED BY <1>0, <1>1, <2>1, <2>2 DEF TcpInv, HeldTcp
<1>2. ASSUME pc = "connect", NetConfigured(client_socket, 1, "connecting", TRUE),
             pc' = "wait_connected", UNCHANGED tcpVars
      PROVE  TcpInv'
  <2>1. Sockets(Nat)' /\ Open' \subseteq Open \cup {client_socket}
    BY <1>0, <1>2, SocketConfigured DEF SocketState
  <2> QED BY <1>2, <1>b, <2>1 DEF tcpVars
<1>3. CASE pc = "wait_connected" /\ WaitConnected(client_socket)
  <2>1. Sockets(Nat)' /\ Open' = Open
    BY <1>0, <1>3, SocketsSame DEF WaitConnected
  <2>2. pc' # "socket"
    BY <1>3 DEF WaitConnected
  <2> QED BY <1>3, <1>b, <2>1, <2>2 DEF WaitConnected, tcpVars
<1>4. ASSUME pc = "send_text", pc' = "wait_rx", UNCHANGED tcpVars,
             sockets' = [sockets EXCEPT ![client_socket].tx = [i \in 1 .. TextLength |-> i],
                                        ![client_socket].sending = TRUE]
      PROVE  TcpInv'
  <2> DEFINE bytes == [i \in 1 .. TextLength |-> i]
  <2>1. bytes \in Seq(Nat)
    BY NetworkAssumption
  <2> HIDE DEF bytes
  <2>2. sockets' = [sockets EXCEPT ![client_socket].tx = bytes, ![client_socket].sending = TRUE]
    BY <1>4 DEF bytes
  <2>3. Sockets(Nat)'
    BY <1>0, <2>1, <2>2 DEF Sockets, SocketOf
  <2>4. \A t \in Socket : sockets'[t].state = "free" <=> sockets[t].state = "free"
    BY <1>0, <2>2 DEF Sockets, SocketOf
  <2>5. Open' = Open
    BY <2>4, SocketMoved
  <2> QED BY <1>4, <1>b, <2>3, <2>5 DEF tcpVars
<1>5. CASE WaitAnswer
  BY <1>5, WaitHolds DEF WaitAnswer
<1>6. ASSUME pc = "read", pc' \in {"read", "close"}, UNCHANGED tcpVars,
             \/ /\ sockets[client_socket].rx # <<>>
                /\ sockets' = [sockets EXCEPT ![client_socket].rx = Tail(@)]
             \/ UNCHANGED sockets
      PROVE  TcpInv'
  <2>1. Sockets(Nat)' /\ Open' = Open
    <3>1. CASE /\ sockets[client_socket].rx # <<>>
               /\ sockets' = [sockets EXCEPT ![client_socket].rx = Tail(@)]
      <4>1. client_socket \in Socket => Tail(sockets[client_socket].rx) \in Seq(Nat)
        BY <1>0, <3>1 DEF Sockets, SocketOf
      <4>2. Sockets(Nat)'
        BY <1>0, <3>1, <4>1 DEF Sockets, SocketOf
      <4>3. \A t \in Socket : sockets'[t].state = "free" <=> sockets[t].state = "free"
        BY <1>0, <3>1 DEF Sockets, SocketOf
      <4> QED BY <4>2, <4>3, SocketMoved
    <3>2. CASE UNCHANGED sockets
      BY <1>0, <3>2, SocketsSame
    <3> QED BY <1>6, <3>1, <3>2
  <2> QED BY <1>6, <1>b, <2>1 DEF tcpVars
<1>7. ASSUME pc = "close", NetClose(client_socket), pc' = "exit", UNCHANGED tcpVars
      PROVE  TcpInv'
  <2>1. Sockets(Nat)' /\ Open' \subseteq Open
    BY <1>0, <1>7, SocketClosed
  <2> QED BY <1>7, <1>b, <2>1 DEF tcpVars
<1> QED
  BY <1>1, <1>2, <1>3, <1>4, <1>5, <1>6, <1>7 DEF Client

LEMMA TcpHolds ==
    ASSUME TcpInv, [TcpNext]_tcpAll
    PROVE  TcpInv'
<1>1. CASE Program
  BY <1>1, LoopHolds, OnceHolds, ClientHolds DEF Program
<1>2. CASE Peer
  <2>1. PICK s \in Socket : PeerConnects(s) \/ PeerPuts(s) \/ PeerTakes(s) \/ PeerCloses(s)
                            \/ Breaks(s)
    BY <1>2 DEF Peer
  <2>2. Sockets(Nat)' /\ Open' = Open
    BY <2>1, PeerMoved DEF TcpInv
  <2>3. UNCHANGED <<app, pc, server_socket, client_socket>>
    BY <1>2 DEF Peer, tcpVars
  <2> QED BY <2>2, <2>3, HeldStill
<1>3. CASE UNCHANGED tcpAll
  <2>1. Sockets(Nat)' /\ Open' = Open
    BY <1>3, SocketsSame DEF tcpAll, deviceState, TcpInv
  <2>2. UNCHANGED <<app, pc, server_socket, client_socket>>
    BY <1>3 DEF tcpAll, tcpVars
  <2> QED BY <2>1, <2>2, HeldStill
<1> QED BY <1>1, <1>2, <1>3 DEF TcpNext

(* What the program has left open, at the places where TcpInv does not say *)
(* it: before it has sent anything a client has sent on no socket, and a   *)
(* server that serves once has closed its client before its listener.      *)
TcpLeft ==
    /\ app = "client" => server_socket = -1
    /\ (app = "client" /\ pc \in {"connect", "wait_connected", "exit"}) =>
           \A s \in Socket : s \in Open \cup {client_socket} => ~sockets[s].sending
    /\ (app = "once" /\ pc \in {"socket", "bind", "listen", "accept"}) => available = 0
    /\ (app = "once" /\ pc \in {"close_server", "exit"}) => Open \subseteq {server_socket}
    /\ (app = "once" /\ pc = "exit" /\ available # 0) => Open = {}

(* Neither the other end nor the network sends for the program. *)
LEMMA PeerSendsNot ==
    ASSUME Sockets(Nat), NEW s \in Socket,
           \/ PeerConnects(s) \/ PeerPuts(s) \/ PeerTakes(s) \/ PeerCloses(s) \/ Breaks(s)
    PROVE  \A t \in Socket : sockets'[t].sending = sockets[t].sending
<1>1. CASE PeerPuts(s)
  BY <1>1 DEF PeerPuts, Sockets, SocketOf
<1>2. CASE PeerTakes(s)
  BY <1>2 DEF PeerTakes, Sockets, SocketOf
<1>3. ASSUME NEW state, sockets' = [sockets EXCEPT ![s].state = state]
      PROVE  \A t \in Socket : sockets'[t].sending = sockets[t].sending
  BY <1>3 DEF Sockets, SocketOf
<1>4. CASE PeerConnects(s)
  BY <1>3, <1>4 DEF PeerConnects
<1>5. CASE PeerCloses(s)
  BY <1>3, <1>5 DEF PeerCloses
<1>6. CASE Breaks(s)
  BY <1>3, <1>6 DEF Breaks
<1> QED BY <1>1, <1>2, <1>4, <1>5, <1>6

(* Nothing of it changes where nothing is opened, closed or sent. *)
LEMMA LeftStill ==
    ASSUME TcpLeft, Open' = Open, UNCHANGED <<app, pc, tcpVars>>,
           \A t \in Socket : sockets'[t].sending = sockets[t].sending
    PROVE  TcpLeft'
BY DEF TcpLeft, tcpVars

LEMMA OnceLeft ==
    ASSUME TcpInv, TcpInv', TcpLeft, app = "once", UNCHANGED app, Once
    PROVE  TcpLeft'
<1> USE DEF At, Goto
<1>0. Sockets(Nat)
  BY DEF TcpInv
(* From a refusal the program goes to its end with no bytes had. *)
<1>a. ASSUME pc \in {"socket", "bind", "listen", "accept"}, UNCHANGED available,
             pc' \in {"exit", "bind", "listen", "accept", "wait_rx"},
             pc' = "exit" => Open' \subseteq {server_socket'}
      PROVE  TcpLeft'
  BY <1>a DEF TcpLeft
<1>1. ASSUME pc = "socket", NEW s \in Free \cup {-1}, NetSocket(s), server_socket' = s,
             pc' = IF s < 0 THEN "exit" ELSE "bind", UNCHANGED available
      PROVE  TcpLeft'
  <2>1. Open' \subseteq {s}
    BY <1>0, <1>1, SocketTaken DEF TcpInv, HeldTcp
  <2>2. pc' \in {"exit", "bind"}
    BY <1>1
  <2> QED BY <1>1, <1>a, <2>1, <2>2
<1>2. CASE \E step \in {<<"bind", "bound", "listen">>, <<"listen", "listening", "accept">>},
              ok \in BOOLEAN :
             /\ pc = step[1]
             /\ NetConfigured(server_socket, 0, step[2], ok)
             /\ pc' = IF ok THEN step[3] ELSE "exit"
             /\ UNCHANGED <<polls, tcpVars>>
  <2>1. PICK step \in {<<"bind", "bound", "listen">>, <<"listen", "listening", "accept">>},
              ok \in BOOLEAN :
             /\ pc = step[1]
             /\ NetConfigured(server_socket, 0, step[2], ok)
             /\ pc' = IF ok THEN step[3] ELSE "exit"
             /\ UNCHANGED <<polls, tcpVars>>
    BY <1>2
  <2>2. /\ step[1] \in {"bind", "listen"} /\ step[2] \in SocketState
        /\ step[3] \in {"listen", "accept"}
    BY DEF SocketState
  <2>3. /\ pc \in {"bind", "listen"} /\ pc' \in {"listen", "accept", "exit"}
        /\ UNCHANGED <<server_socket, available>>
    BY <2>1, <2>2 DEF tcpVars
  <2>4. Open' \subseteq Open \cup {server_socket}
    BY <1>0, <2>1, <2>2, SocketConfigured
  <2>5. Open' \subseteq {server_socket'}
    BY <2>3, <2>4 DEF TcpInv, HeldTcp
  <2> QED BY <1>a, <2>3, <2>5
<1>3. ASSUME pc = "accept", NEW c \in Free \cup {-1}, NEW error \in BOOLEAN,
             NetAccept(c, error),
             pc' = IF error THEN "exit" ELSE IF c < 0 THEN "accept" ELSE "wait_rx",
             UNCHANGED <<server_socket, available>>
      PROVE  TcpLeft'
  <2>1. Open' \subseteq {server_socket, c}
    BY <1>0, <1>3, SocketAccepted DEF TcpInv, HeldTcp
  <2>2. error => c = -1
    BY <1>3 DEF NetAccept
  <2>3. error => Open' \subseteq {server_socket'}
    BY <1>3, <2>1, <2>2, NoneIsNoSocket DEF Open
  <2>4. pc' \in {"exit", "accept", "wait_rx"} /\ (pc' = "exit" => error)
    BY <1>3
  <2> QED BY <1>3, <1>a, <2>3, <2>4
(* Elsewhere it stays away from the end and from the beginning. *)
<1>b. ASSUME pc' \in {"wait_rx", "echo", "close"}
      PROVE  TcpLeft'
  BY <1>b DEF TcpLeft
<1>4. CASE pc = "wait_rx" /\ WaitRx(client_socket, "echo", "close", "wait_rx")
  <2>1. pc' \in {"wait_rx", "echo", "close"}
    BY <1>4 DEF WaitRx
  <2> QED BY <1>b, <2>1
<1>5. CASE pc = "echo" /\ (UNCHANGED pc \/ pc' = "close")
  BY <1>5, <1>b
<1>6. ASSUME pc = "close", NetClose(client_socket), pc' = "close_server", UNCHANGED tcpVars
      PROVE  TcpLeft'
  <2>1. Open' \subseteq Open \ {client_socket}
    BY <1>0, <1>6, SocketClosed
  <2>2. Open \subseteq {server_socket, client_socket}
    BY <1>6 DEF TcpInv, HeldTcp
  <2> QED BY <1>6, <2>1, <2>2 DEF TcpLeft, tcpVars
<1>7. ASSUME pc = "close_server", NetClose(server_socket), pc' = "exit", UNCHANGED tcpVars
      PROVE  TcpLeft'
  <2>1. Open' \subseteq Open \ {server_socket}
    BY <1>0, <1>7, SocketClosed
  <2>2. Open \subseteq {server_socket}
    BY <1>7 DEF TcpLeft
  <2> QED BY <1>7, <2>1, <2>2 DEF TcpLeft
<1> QED
  BY <1>1, <1>2, <1>3, <1>4, <1>5, <1>6, <1>7 DEF Once

LEMMA ClientLeft ==
    ASSUME TcpInv, TcpInv', TcpLeft, app = "client", UNCHANGED app, Client
    PROVE  TcpLeft'
<1> USE DEF At, Goto
<1>0. Sockets(Nat) /\ app' = "client"
  BY DEF TcpInv
<1>1. server_socket' = -1
  BY <1>0 DEF TcpLeft, Client, WaitAnswer, WaitRx, WaitConnected, tcpVars
<1> DEFINE Unsent == \A t \in Socket : t \in Open \cup {client_socket} => ~sockets[t].sending
<1>2. SUFFICES ASSUME pc' \in {"connect", "wait_connected", "exit"} PROVE Unsent'
  BY <1>0, <1>1 DEF TcpLeft
<1>3. ASSUME pc = "socket", NEW s \in Free \cup {-1}, NetSocket(s), client_socket' = s
      PROVE  Unsent'
  <2>1. Open' \subseteq {s}
    BY <1>0, <1>3, SocketTaken DEF TcpInv, HeldTcp
  <2>2. s \in Socket => sockets'[s] = Fresh("open")
    BY <1>3 DEF NetSocket
  <2>3. ~Fresh("open").sending
    BY DEF Fresh
  <2> QED BY <1>3, <2>1, <2>2, <2>3
<1>4. ASSUME pc = "connect", NetConfigured(client_socket, 1, "connecting", TRUE),
             UNCHANGED client_socket
      PROVE  Unsent'
  <2>1. sockets' = [sockets EXCEPT ![client_socket].state = "connecting"]
    BY <1>4 DEF NetConfigured
  <2>2. \A t \in Socket : sockets'[t].sending = sockets[t].sending
    BY <1>0, <2>1 DEF Sockets, SocketOf
  <2>3. Open' \subseteq Open \cup {client_socket}
    BY <1>0, <1>4, SocketConfigured DEF SocketState
  <2>4. app = "client" /\ pc \in {"connect", "wait_connected", "exit"} => Unsent
    BY DEF TcpLeft
  <2> QED BY <1>4, <2>2, <2>3, <2>4
<1>5. CASE pc = "wait_connected" /\ WaitConnected(client_socket)
  <2>1. UNCHANGED <<sockets, client_socket>>
    BY <1>5 DEF WaitConnected, tcpVars
  <2>2. Open' = Open
    BY <1>0, <2>1, SocketsSame
  <2> QED BY <1>5, <2>1, <2>2 DEF TcpLeft
<1>6. ASSUME pc = "close", NetClose(client_socket), UNCHANGED client_socket
      PROVE  Unsent'
  <2>1. Open' \subseteq Open \ {client_socket}
    BY <1>0, <1>6, SocketClosed
  <2>2. Open \subseteq {-1, client_socket} /\ Open \subseteq Socket
    BY <1>6 DEF TcpInv, HeldTcp, TcpLeft, Open
  <2>3. Open' = {}
    BY <2>1, <2>2, NoneIsNoSocket
  <2>4. client_socket \in Socket => ~sockets'[client_socket].sending
    BY <1>0, <1>6 DEF NetClose, Fresh, Sockets
  <2> QED BY <1>6, <2>3, <2>4
<1>7. CASE pc = "send_text" /\ pc' = "wait_rx"
  BY <1>2, <1>7
<1>8. CASE WaitAnswer
  BY <1>2, <1>8 DEF WaitAnswer, WaitRx
<1>9. CASE pc = "read" /\ (UNCHANGED pc \/ pc' = "close")
  BY <1>2, <1>9
<1> QED
  BY <1>3, <1>4, <1>5, <1>6, <1>7, <1>8, <1>9 DEF Client, tcpVars

LEMMA TcpLeftHolds ==
    ASSUME TcpInv, TcpLeft, [TcpNext]_tcpAll
    PROVE  TcpInv' /\ TcpLeft'
<1>0. TcpInv'
  BY TcpHolds
<1>1. CASE Program
  <2>1. UNCHANGED app
    BY <1>1 DEF Program
  <2>2. CASE app = "loop"
    <3>1. app' # "client" /\ app' # "once"
      BY <2>1, <2>2
    <3> QED BY <1>0, <3>1 DEF TcpLeft
  <2>3. CASE app = "once" /\ Once
    BY <1>0, <2>1, <2>3, OnceLeft
  <2>4. CASE app = "client" /\ Client
    BY <1>0, <2>1, <2>4, ClientLeft
  <2> QED BY <1>0, <1>1, <2>2, <2>3, <2>4 DEF Program
<1>2. CASE Peer
  <2>1. PICK s \in Socket : PeerConnects(s) \/ PeerPuts(s) \/ PeerTakes(s) \/ PeerCloses(s)
                            \/ Breaks(s)
    BY <1>2 DEF Peer
  <2>2. Open' = Open /\ \A t \in Socket : sockets'[t].sending = sockets[t].sending
    BY <2>1, PeerMoved, PeerSendsNot DEF TcpInv
  <2>3. UNCHANGED <<app, pc, tcpVars>>
    BY <1>2 DEF Peer
  <2> QED BY <1>0, <2>2, <2>3, LeftStill
<1>3. CASE UNCHANGED tcpAll
  <2>1. UNCHANGED sockets
    BY <1>3 DEF tcpAll, deviceState
  <2>2. Open' = Open
    BY <2>1, SocketsSame DEF TcpInv
  <2>3. UNCHANGED <<app, pc, tcpVars>>
    BY <1>3 DEF tcpAll
  <2> QED BY <1>0, <2>1, <2>2, <2>3, LeftStill
<1> QED BY <1>1, <1>2, <1>3 DEF TcpNext

LEMMA TcpLeftStarts ==
    ASSUME app \in TcpApps, NetworkInit, TcpInit, pc = "socket"
    PROVE  TcpInv /\ TcpLeft
BY NoSocketYet DEF TcpInv, TcpApps, TcpInit, TcpLeft

LEMMA TcpLeftCloses ==
    ASSUME TcpInv, TcpLeft
    PROVE  TcpClosed
<1>1. Open \subseteq Socket /\ -1 \notin Socket
  BY NoneIsNoSocket DEF Open
<1> QED BY <1>1 DEF TcpInv, TcpLeft, HeldTcp, TcpClosed

(* Whatever is refused and wherever a connection breaks: the server that   *)
(* serves for ever keeps no socket from one client, or one listener, to    *)
(* the next; a client that ends has closed its socket unless it was never  *)
(* connected; and the server that serves once has closed both of its own   *)
(* unless the device refused its bind, listen or accept.                   *)
THEOREM TcpSocketClosed == TcpSpec => []TcpClosed
<1>1. ASSUME app \in {"loop", "once", "client"}, pc = "socket", NetworkInit, TcpInit
      PROVE  TcpInv /\ TcpLeft
  BY <1>1, TcpLeftStarts DEF TcpApps
<1>2. TcpInv /\ TcpLeft => TcpClosed
  BY TcpLeftCloses
<1>3. TcpInv /\ TcpLeft /\ [TcpNext]_tcpAll => TcpInv' /\ TcpLeft'
  BY TcpLeftHolds
<1> QED BY <1>1, <1>2, <1>3, PTL DEF TcpSpec

-----------------------------------------------------------------------------
(* What the server that serves for ever does with the bytes of a client:   *)
(* those taken back, those on their way and those not yet read are, in     *)
(* this order, those the client has put, with a gap only where the answer  *)
(* was given up.                                                           *)

IsStream(taken, tx, rx, put) ==
    /\ Len(taken) + Len(tx) + Len(rx) <= Len(put)
    /\ \A i \in 1 .. Len(taken) : taken[i] = put[i]
    /\ \A i \in 1 .. Len(tx) : tx[i] = put[Len(taken) + i]
    /\ \A i \in 1 .. Len(rx) : rx[i] = put[Len(put) - Len(rx) + i]

NoGap(taken, tx, rx, put) == Len(taken) + Len(tx) + Len(rx) = Len(put)

(* The sequences as functions: what the calls do to them. *)
Lengths(taken, tx, rx, put) ==
    Len(taken) \in Nat /\ Len(tx) \in Nat /\ Len(rx) \in Nat /\ Len(put) \in Nat

Appended(s, t, last) ==
    Len(t) = Len(s) + 1 /\ (\A i \in 1 .. Len(s) : t[i] = s[i]) /\ t[Len(s) + 1] = last

Shifted(s, t) ==
    Len(s) >= 1 /\ Len(t) = Len(s) - 1 /\ \A i \in 1 .. Len(t) : t[i] = s[i + 1]

LEMMA AppendedIs ==
    ASSUME NEW s \in Seq(Nat), NEW last \in Nat
    PROVE  Appended(s, Append(s, last), last)
BY DEF Appended

LEMMA ShiftedIs ==
    ASSUME NEW s \in Seq(Nat), s # <<>>
    PROVE  Shifted(s, Tail(s)) /\ Head(s) = s[1] /\ Head(s) \in Nat
BY DEF Shifted

LEMMA StreamEchoed ==
    ASSUME NEW taken, NEW tx, NEW rx, NEW put, NEW more, NEW rest, Lengths(taken, tx, rx, put),
           IsStream(taken, tx, rx, put), NoGap(taken, tx, rx, put),
           Appended(tx, more, rx[1]), Shifted(rx, rest)
    PROVE  IsStream(taken, more, rest, put) /\ NoGap(taken, more, rest, put)
<1>0. Len(more) = Len(tx) + 1 /\ Len(rest) = Len(rx) - 1 /\ Len(rx) >= 1
  BY DEF Appended, Shifted
<1>1. NoGap(taken, more, rest, put)
  BY <1>0 DEF NoGap, Lengths
<1>2. rx[1] = put[Len(taken) + (Len(tx) + 1)]
  <2>1. Len(put) - Len(rx) + 1 = Len(taken) + (Len(tx) + 1) /\ 1 \in 1 .. Len(rx)
    BY <1>0 DEF NoGap, Lengths
  <2> QED BY <2>1 DEF IsStream
<1>3. \A i \in 1 .. Len(more) : more[i] = put[Len(taken) + i]
  <2> TAKE i \in 1 .. Len(more)
  <2>1. CASE i = Len(tx) + 1
    BY <1>2, <2>1 DEF Appended
  <2>2. CASE i \in 1 .. Len(tx)
    BY <2>2 DEF Appended, IsStream
  <2> QED BY <1>0, <2>1, <2>2 DEF Lengths
<1> USE DEF Lengths, Shifted, Appended
<1>4. \A i \in 1 .. Len(rest) : rest[i] = put[Len(put) - Len(rest) + i]
  <2> TAKE i \in 1 .. Len(rest)
  <2>1. i + 1 \in 1 .. Len(rx) /\ Len(put) - Len(rx) + (i + 1) = Len(put) - Len(rest) + i
    OBVIOUS
  <2> QED BY <2>1 DEF IsStream
<1> QED BY <1>1, <1>3, <1>4 DEF IsStream, NoGap

LEMMA StreamPut ==
    ASSUME NEW taken, NEW tx, NEW rx, NEW put, NEW more, NEW byte, NEW longer,
           Lengths(taken, tx, rx, put), IsStream(taken, tx, rx, put),
           Appended(rx, more, byte), Appended(put, longer, byte)
    PROVE  /\ IsStream(taken, tx, more, longer)
           /\ NoGap(taken, tx, rx, put) => NoGap(taken, tx, more, longer)
<1> USE DEF Lengths, Appended
<1>1. NoGap(taken, tx, rx, put) => NoGap(taken, tx, more, longer)
  BY DEF NoGap
<1>2. \A i \in 1 .. Len(more) : more[i] = longer[Len(longer) - Len(more) + i]
  <2> TAKE i \in 1 .. Len(more)
  <2>1. Len(longer) - Len(more) + i = Len(put) - Len(rx) + i
    OBVIOUS
  <2>2. CASE i = Len(rx) + 1
    BY <2>1, <2>2
  <2>3. CASE i \in 1 .. Len(rx)
    <3>1. Len(put) - Len(rx) + i \in 1 .. Len(put)
      BY <2>3 DEF IsStream
    <3>2. longer[Len(put) - Len(rx) + i] = put[Len(put) - Len(rx) + i]
      BY <3>1
    <3> QED BY <2>1, <2>3, <3>2 DEF IsStream
  <2> QED BY <2>2, <2>3, SMTT(30)
<1>3. \A i \in 1 .. Len(taken) : taken[i] = longer[i]
  <2> TAKE i \in 1 .. Len(taken)
  <2>1. i \in 1 .. Len(put)
    BY DEF IsStream
  <2> QED BY <2>1 DEF IsStream
<1>4. \A i \in 1 .. Len(tx) : tx[i] = longer[Len(taken) + i]
  <2> TAKE i \in 1 .. Len(tx)
  <2>1. Len(taken) + i \in 1 .. Len(put)
    BY DEF IsStream
  <2> QED BY <2>1 DEF IsStream
<1>5. Len(taken) + Len(tx) + Len(more) <= Len(longer)
  BY DEF IsStream
<1> QED BY <1>1, <1>2, <1>3, <1>4, <1>5 DEF IsStream

LEMMA StreamTaken ==
    ASSUME NEW taken, NEW tx, NEW rx, NEW put, NEW more, NEW rest, Lengths(taken, tx, rx, put),
           IsStream(taken, tx, rx, put),
           Appended(taken, more, tx[1]), Shifted(tx, rest)
    PROVE  /\ IsStream(more, rest, rx, put)
           /\ NoGap(taken, tx, rx, put) => NoGap(more, rest, rx, put)
<1>0. Len(more) = Len(taken) + 1 /\ Len(rest) = Len(tx) - 1
  BY DEF Appended, Shifted
<1>1. NoGap(taken, tx, rx, put) => NoGap(more, rest, rx, put)
  BY <1>0 DEF NoGap, Lengths
<1> USE DEF Lengths, Shifted, Appended
<1>2. tx[1] = put[Len(taken) + 1]
  <2>1. 1 \in 1 .. Len(tx) /\ \A i \in 1 .. Len(tx) : tx[i] = put[Len(taken) + i]
    BY DEF IsStream
  <2> QED BY ONLY <2>1
<1>3. \A i \in 1 .. Len(more) : more[i] = put[i]
  BY <1>2, SMTT(30) DEF IsStream
<1>4. \A i \in 1 .. Len(rest) : rest[i] = put[Len(more) + i]
  <2> TAKE i \in 1 .. Len(rest)
  <2>1. i + 1 \in 1 .. Len(tx) /\ Len(taken) + (i + 1) = Len(more) + i
    OBVIOUS
  <2> QED BY <2>1 DEF IsStream
<1>5. Len(more) + Len(rest) + Len(rx) <= Len(put)
  BY DEF IsStream
<1> QED BY <1>1, <1>3, <1>4, <1>5 DEF IsStream

LEMMA StreamGivenUp ==
    ASSUME NEW taken, NEW tx, NEW rx, NEW put, Lengths(taken, tx, rx, put),
           IsStream(taken, tx, rx, put)
    PROVE  IsStream(taken, <<>>, rx, put)
BY DEF IsStream, Lengths

(* When nothing is on its way, what was taken back is what was read. *)
AllTaken(taken, rx, put) == Len(taken) = Len(put) - Len(rx)

LEMMA StreamDrained ==
    ASSUME NEW taken, NEW tx, NEW rx, NEW put, Lengths(taken, tx, rx, put),
           NoGap(taken, tx, rx, put), tx = <<>>
    PROVE  AllTaken(taken, rx, put)
BY DEF Lengths, NoGap, AllTaken

Whole(c) == IsStream(c.taken, c.tx, c.rx, c.put)

AllEchoed(c) == NoGap(c.taken, c.tx, c.rx, c.put)

Serving == {"wait_rx", "state", "echo", "drain", "close"}

(* The gap comes with the last poll for the answer, and stays behind it.   *)
ServedInv(c) ==
    /\ Whole(c)
    /\ pc \in {"wait_rx", "state", "echo"} => AllEchoed(c)
    /\ pc = "state" => available = 0
    /\ pc = "drain" => AllEchoed(c) \/ (c.tx = <<>> /\ tx_wait >= TX_WAIT)
    /\ pc = "close" /\ available = 1 => c.tx = <<>> /\ (AllEchoed(c) \/ tx_wait >= TX_WAIT)

EchoInv ==
    app = "loop" /\ pc \in Serving =>
        client_socket \in Socket /\ ServedInv(sockets[client_socket])

LEMMA ClientFifos ==
    ASSUME Sockets(Nat), NEW s \in Socket
    PROVE  /\ sockets[s].taken \in Seq(Nat) /\ sockets[s].tx \in Seq(Nat)
           /\ sockets[s].rx \in Seq(Nat) /\ sockets[s].put \in Seq(Nat)
           /\ Lengths(sockets[s].taken, sockets[s].tx, sockets[s].rx, sockets[s].put)
<1>1. /\ sockets[s].taken \in Seq(Nat) /\ sockets[s].tx \in Seq(Nat)
      /\ sockets[s].rx \in Seq(Nat) /\ sockets[s].put \in Seq(Nat)
  BY DEF Sockets, SocketOf
<1> QED BY <1>1 DEF Lengths

(* The other end, while a client is served. *)
LEMMA PeerServed ==
    ASSUME Sockets(Nat), NEW s \in Socket, NEW c \in Socket, ServedInv(sockets[c]),
           \/ PeerConnects(s) \/ PeerPuts(s) \/ PeerTakes(s) \/ PeerCloses(s) \/ Breaks(s),
           UNCHANGED <<pc, available, tx_wait>>
    PROVE  ServedInv(sockets[c])'
<1> DEFINE old == sockets[c]
           new == sockets'[c]
<1>0. /\ old.taken \in Seq(Nat) /\ old.tx \in Seq(Nat) /\ old.rx \in Seq(Nat)
      /\ old.put \in Seq(Nat) /\ Lengths(old.taken, old.tx, old.rx, old.put)
  BY ClientFifos
<1>1. CASE /\ new.taken = old.taken /\ new.tx = old.tx
           /\ new.rx = old.rx /\ new.put = old.put
  BY <1>1 DEF ServedInv, Whole, AllEchoed
<1>2. ASSUME NEW state, sockets' = [sockets EXCEPT ![s].state = state]
      PROVE  /\ new.taken = old.taken /\ new.tx = old.tx
             /\ new.rx = old.rx /\ new.put = old.put
  BY <1>2 DEF Sockets, SocketOf
<1>3. CASE PeerPuts(s) /\ c = s
  <2> DEFINE byte == Len(old.put) + 1
  <2>1. byte \in Nat
    BY <1>0 DEF Lengths
  <2>2. /\ new.taken = old.taken /\ new.tx = old.tx
        /\ new.rx = Append(old.rx, byte) /\ new.put = Append(old.put, byte)
    BY <1>3 DEF PeerPuts, Sockets, SocketOf
  <2> HIDE DEF byte
  <2>3. Appended(old.rx, new.rx, byte) /\ Appended(old.put, new.put, byte)
    BY <1>0, <2>1, <2>2, AppendedIs
  <2>4. Whole(new) /\ (AllEchoed(old) => AllEchoed(new))
    BY <1>0, <2>2, <2>3, StreamPut DEF ServedInv, Whole, AllEchoed
  <2> QED BY <2>2, <2>4 DEF ServedInv, Whole, AllEchoed
<1>4. CASE PeerTakes(s) /\ c = s
  <2>1. old.tx # <<>>
    BY <1>4 DEF PeerTakes
  <2>2. /\ new.taken = Append(old.taken, Head(old.tx)) /\ new.tx = Tail(old.tx)
        /\ new.rx = old.rx /\ new.put = old.put
    BY <1>4 DEF PeerTakes, Sockets, SocketOf
  <2>3. Shifted(old.tx, new.tx) /\ Appended(old.taken, new.taken, old.tx[1])
    BY <1>0, <2>1, <2>2, AppendedIs, ShiftedIs
  <2>4. Whole(new) /\ (AllEchoed(old) => AllEchoed(new))
    BY <1>0, <2>2, <2>3, StreamTaken DEF ServedInv, Whole, AllEchoed
  <2> QED BY <2>1, <2>4 DEF ServedInv
<1>5. CASE (PeerPuts(s) \/ PeerTakes(s)) /\ c # s
  BY <1>1, <1>5 DEF PeerPuts, PeerTakes, Sockets
<1>6. CASE PeerConnects(s) \/ PeerCloses(s) \/ Breaks(s)
  BY <1>1, <1>2, <1>6 DEF PeerConnects, PeerCloses, Breaks
<1> QED BY <1>3, <1>4, <1>5, <1>6

LEMMA LoopServes ==
    ASSUME TcpInv, EchoInv, app = "loop", UNCHANGED app, Loop
    PROVE  EchoInv'
<1> USE DEF At, Goto
<1>0. Sockets(Nat)
  BY DEF TcpInv
<1>a. ASSUME pc' \notin Serving PROVE EchoInv'
  BY <1>a DEF EchoInv
<1>b. ASSUME pc \in Serving PROVE client_socket \in Socket /\ ServedInv(sockets[client_socket])
  BY <1>b DEF EchoInv
<1> DEFINE old == sockets[client_socket]
           new == sockets'[client_socket]
<1>c. ASSUME pc \in Serving
      PROVE  /\ old.taken \in Seq(Nat) /\ old.tx \in Seq(Nat) /\ old.rx \in Seq(Nat)
             /\ old.put \in Seq(Nat) /\ Lengths(old.taken, old.tx, old.rx, old.put)
  BY <1>0, <1>b, <1>c, ClientFifos
<1>1. CASE LoopSocket
  BY <1>1, <1>a DEF LoopSocket, Serving
<1>2. CASE LoopConfigure("bind", "bound", "listen")
  BY <1>2, <1>a DEF LoopConfigure, Serving
<1>3. CASE LoopConfigure("listen", "listening", "accept")
  BY <1>3, <1>a DEF LoopConfigure, Serving
<1>4. CASE LoopAccept
  <2>1. PICK c \in Free \cup {-1}, error \in BOOLEAN :
             /\ NetAccept(c, error)
             /\ client_socket' = IF error THEN 0 ELSE c
             /\ pc' = IF c >= 0 THEN "wait_rx" ELSE IF error THEN "restart" ELSE "accept"
    BY <1>4 DEF LoopAccept
  <2>2. CASE c = -1
    BY <1>a, <2>1, <2>2 DEF Serving
  <2>3. CASE c # -1
    <3>1. c \in Socket /\ ~error
      BY <2>1, <2>3 DEF Free, NetAccept
    <3>2. c \in Nat
      BY <3>1, NetworkAssumption
    <3>3. pc' = "wait_rx" /\ client_socket' = c /\ sockets'[c] = Fresh("connected")
      BY <2>1, <3>1, <3>2 DEF NetAccept
    <3>4. Whole(sockets'[c]) /\ AllEchoed(sockets'[c])
      BY <3>3 DEF Fresh, Whole, IsStream, AllEchoed, NoGap
    <3> QED BY <3>1, <3>3, <3>4 DEF EchoInv, ServedInv
  <2> QED BY <2>2, <2>3
<1>5. CASE LoopWaitRx
  <2>1. /\ pc = "wait_rx" /\ UNCHANGED <<sockets, client_socket>>
        /\ \/ pc' = "echo" /\ available' = 1
           \/ pc' = "close" /\ available' = -1
           \/ pc' \in {"state", "wait_rx"} /\ available' = 0
    BY <1>5 DEF LoopWaitRx, WaitRx
  <2>2. client_socket \in Socket /\ Whole(old) /\ AllEchoed(old)
    BY <1>b, <2>1 DEF ServedInv, Serving
  <2> QED BY <2>1, <2>2 DEF EchoInv, ServedInv
<1>6. CASE LoopState
  <2>1. /\ pc = "state" /\ UNCHANGED <<sockets, client_socket, available>>
        /\ pc' \in {"close", "wait_rx"}
    BY <1>6 DEF LoopState, tcpVars
  <2>2. client_socket \in Socket /\ Whole(old) /\ AllEchoed(old) /\ available = 0
    BY <1>b, <2>1 DEF ServedInv, Serving
  <2> QED BY <2>1, <2>2 DEF EchoInv, ServedInv
<1>7. CASE LoopEcho
  <2>1. pc = "echo" /\ UNCHANGED client_socket
    BY <1>7 DEF LoopEcho
  <2>2. client_socket \in Socket /\ Whole(old) /\ AllEchoed(old)
    BY <1>b, <2>1 DEF ServedInv, Serving
  <2>3. CASE old.rx # <<>> /\ sockets' = Echoed(client_socket) /\ UNCHANGED pc
    <3>1. /\ new.taken = old.taken /\ new.put = old.put
          /\ new.tx = Append(old.tx, Head(old.rx)) /\ new.rx = Tail(old.rx)
      BY <1>0, <2>2, <2>3 DEF Echoed, Sockets, SocketOf
    <3>2. /\ old.tx \in Seq(Nat) /\ old.rx \in Seq(Nat)
          /\ Lengths(old.taken, old.tx, old.rx, old.put)
      BY <1>c, <2>1 DEF Serving
    <3>3. Shifted(old.rx, new.rx) /\ Appended(old.tx, new.tx, old.rx[1])
      BY <2>3, <3>1, <3>2, AppendedIs, ShiftedIs
    <3>4. Whole(new) /\ AllEchoed(new)
      BY <2>2, <3>1, <3>2, <3>3, StreamEchoed DEF Whole, AllEchoed
    <3> QED BY <2>1, <2>2, <2>3, <3>4 DEF EchoInv, ServedInv
  <2>4. CASE sockets' = [sockets EXCEPT ![client_socket].sending = TRUE] /\ pc' = "drain"
    <3>1. /\ new.taken = old.taken /\ new.put = old.put
          /\ new.tx = old.tx /\ new.rx = old.rx
      BY <1>0, <2>2, <2>4 DEF Sockets, SocketOf
    <3>2. Whole(new) /\ AllEchoed(new)
      BY <2>2, <3>1 DEF Whole, AllEchoed
    <3> QED BY <2>1, <2>2, <2>4, <3>2 DEF EchoInv, ServedInv
  <2> QED BY <1>7, <2>3, <2>4 DEF LoopEcho
<1>8. CASE LoopDrain
  <2>1. pc = "drain" /\ UNCHANGED <<client_socket, available>>
    BY <1>8 DEF LoopDrain
  <2>2. /\ client_socket \in Socket /\ Whole(old)
        /\ AllEchoed(old) \/ (old.tx = <<>> /\ tx_wait >= TX_WAIT)
    BY <1>b, <2>1 DEF ServedInv, Serving
  <2>3. CASE old.tx = <<>> /\ pc' = "close" /\ UNCHANGED <<sockets, tx_wait>>
    BY <2>1, <2>2, <2>3 DEF EchoInv, ServedInv
  <2>4. CASE /\ old.tx # <<>> /\ UNCHANGED pc
             /\ sockets' = IF tx_wait' >= TX_WAIT
                           THEN [sockets EXCEPT ![client_socket].tx = <<>>] ELSE sockets
    <3>1. AllEchoed(old)
      BY <2>2, <2>4
    <3>2. CASE tx_wait' >= TX_WAIT
      <4>1. /\ new.taken = old.taken /\ new.put = old.put
            /\ new.tx = <<>> /\ new.rx = old.rx
        BY <1>0, <2>2, <2>4, <3>2 DEF Sockets, SocketOf
      <4>2. Lengths(old.taken, old.tx, old.rx, old.put)
        BY <1>c, <2>1 DEF Serving
      <4>3. Whole(new)
        BY <2>2, <4>1, <4>2, StreamGivenUp DEF Whole
      <4> QED BY <2>1, <2>2, <2>4, <3>2, <4>1, <4>3 DEF EchoInv, ServedInv
    <3>3. CASE ~(tx_wait' >= TX_WAIT)
      BY <2>1, <2>2, <2>4, <3>1, <3>3 DEF EchoInv, ServedInv
    <3> QED BY <3>2, <3>3
  <2> QED BY <1>8, <2>3, <2>4 DEF LoopDrain
<1>9. CASE LoopClose
  BY <1>9, <1>a DEF LoopClose, Serving
<1>10. CASE LoopRestart
  BY <1>10, <1>a DEF LoopRestart, Serving
<1> QED
  BY <1>1, <1>2, <1>3, <1>4, <1>5, <1>6, <1>7, <1>8, <1>9, <1>10 DEF Loop

LEMMA EchoHolds ==
    ASSUME TcpInv, EchoInv, [TcpNext]_tcpAll
    PROVE  EchoInv'
<1>1. CASE Program
  <2>1. UNCHANGED app
    BY <1>1 DEF Program
  <2>2. CASE app = "loop"
    BY <1>1, <2>1, <2>2, LoopServes DEF Program
  <2> QED BY <2>1, <2>2 DEF EchoInv
<1>2. CASE Peer
  <2>1. PICK s \in Socket : PeerConnects(s) \/ PeerPuts(s) \/ PeerTakes(s) \/ PeerCloses(s)
                            \/ Breaks(s)
    BY <1>2 DEF Peer
  <2>2. UNCHANGED <<app, pc, client_socket, available, tx_wait>>
    BY <1>2 DEF Peer, tcpVars
  <2>3. CASE app = "loop" /\ pc \in Serving
    <3>1. client_socket \in Socket /\ ServedInv(sockets[client_socket]) /\ Sockets(Nat)
      BY <2>3 DEF EchoInv, TcpInv
    <3>2. PICK c \in Socket : c = client_socket
      BY <3>1
    <3>3. ServedInv(sockets[c])'
      BY <2>1, <2>2, <3>1, <3>2, PeerServed
    <3>4. client_socket' = c
      BY <2>2, <3>2
    <3> QED BY <2>2, <3>3, <3>4 DEF EchoInv, ServedInv
  <2> QED BY <2>2, <2>3 DEF EchoInv
<1>3. CASE UNCHANGED tcpAll
  BY <1>3 DEF tcpAll, deviceState, tcpVars, EchoInv, ServedInv
<1> QED BY <1>1, <1>2, <1>3 DEF TcpNext

(* When the server has found something to read, it closes the connection   *)
(* only when the client has taken the echo of all that was read, in order, *)
(* or has had TX_WAIT polls to do so.                                      *)
THEOREM TcpEchoedBeforeClose == TcpSpec => EchoedBeforeClose
<1>1. ASSUME app \in {"loop", "once", "client"}, pc = "socket", NetworkInit
      PROVE  TcpInv /\ EchoInv
  BY <1>1, NoSocketYet DEF TcpInv, TcpApps, EchoInv, Serving
<1>2. ASSUME TcpInv, EchoInv PROVE EchoedStep
  <2> SUFFICES ASSUME app = "loop", pc = "close", available = 1 PROVE EchoedStep
    BY DEF EchoedStep
  <2> DEFINE c == sockets[client_socket]
  <2>1. /\ client_socket \in Socket /\ Whole(c) /\ c.tx = <<>>
        /\ AllEchoed(c) \/ tx_wait >= TX_WAIT
    BY <1>2 DEF EchoInv, ServedInv, Serving
  <2>2. Lengths(c.taken, c.tx, c.rx, c.put)
    BY <1>2, <2>1, ClientFifos DEF TcpInv
  <2>a. c.taken \in Seq(Nat)
    BY <1>2, <2>1, ClientFifos DEF TcpInv
  <2>3. DOMAIN c.taken = 1 .. Len(c.taken)
    BY <2>a
  <2> HIDE DEF c
  <2>4. \A i \in DOMAIN c.taken : c.taken[i] = c.put[i]
    BY <2>1, <2>3 DEF Whole, IsStream
  <2>5. Len(c.taken) = Len(c.put) - Len(c.rx) \/ tx_wait >= TX_WAIT
    <3>1. ASSUME NoGap(c.taken, c.tx, c.rx, c.put) PROVE AllTaken(c.taken, c.rx, c.put)
      BY <2>1, <2>2, <3>1, StreamDrained
    <3> QED BY <2>1, <3>1 DEF AllEchoed, AllTaken
  <2> QED BY <2>4, <2>5 DEF EchoedStep, c
<1>3. ASSUME TcpInv, EchoInv, [TcpNext]_tcpAll
      PROVE  TcpInv' /\ EchoInv' /\ [EchoedStep]_tcpAll
  BY <1>2, <1>3, TcpHolds, EchoHolds
<1> QED BY <1>1, <1>3, PTL DEF TcpSpec, EchoedBeforeClose

-----------------------------------------------------------------------------
(* The UDP programs close their socket before they end. *)

UdpByte == Nat \X Nat

Registers == [socket : Int, result : Int, error : BOOLEAN, ip : Int]

HeldUdp == IF pc \in {"socket", "exit"} THEN {} ELSE {udp_socket}

(* What is yet to be read of a datagram is in the FIFO. *)
UdpInv ==
    /\ app \in UdpApps
    /\ Sockets(UdpByte) /\ bank \in Registers
    /\ inbox \subseteq [from : Host, size : 0 .. TextLength]
    /\ udp_size \in -1 .. TextLength /\ udp_index \in Nat /\ udp_sender \in Nat
    /\ pc \notin {"socket", "exit"} => udp_socket \in Socket
    /\ pc \in {"read", "echo"} => udp_size - udp_index <= Len(sockets[udp_socket].rx)
    /\ Open \subseteq HeldUdp

LEMMA BytesOf ==
    ASSUME NEW host \in Nat, NEW size \in Nat
    PROVE  Bytes(host, size) \in Seq(UdpByte) /\ Len(Bytes(host, size)) = size
<1>1. \A i \in 1 .. size : <<host, i>> \in UdpByte
  BY DEF UdpByte
<1> QED BY <1>1 DEF Bytes

LEMMA FifoGrows ==
    ASSUME NEW s \in Seq(UdpByte), NEW t \in Seq(UdpByte)
    PROVE  Len(t) <= Len(s \o t)
OBVIOUS

(* A step that keeps the socket, or has closed it and ends. *)
LEMMA UdpHeldStill ==
    ASSUME UdpInv, UNCHANGED app, Sockets(UdpByte)', bank' \in Registers,
           inbox' \subseteq [from : Host, size : 0 .. TextLength],
           udp_size' \in -1 .. TextLength, udp_index' \in Nat, udp_sender' \in Nat,
           UNCHANGED udp_socket, pc \notin {"socket", "exit"}, pc' # "socket",
           Open' \subseteq Open,
           pc' = "exit" => udp_socket \notin Open',
           pc' \in {"read", "echo"} => udp_size' - udp_index' <= Len(sockets'[udp_socket].rx)
    PROVE  UdpInv'
<1>1. Open' \subseteq HeldUdp'
  BY DEF UdpInv, HeldUdp
<1> QED BY <1>1 DEF UdpInv

LEMMA UdpTaken ==
    ASSUME UdpInv, UNCHANGED app, NEW next, TakeUdpSocket(next), next \notin {"socket", "exit", "read", "echo"}
    PROVE  UdpInv'
<1>1. PICK s \in Free \cup {-1} : /\ NetSocket(s) /\ udp_socket' = s
                                  /\ pc' = IF s < 0 THEN "exit" ELSE next
  BY DEF TakeUdpSocket, Goto
<1>2. Open = {} /\ Sockets(UdpByte)
  BY DEF TakeUdpSocket, At, UdpInv, HeldUdp
<1>3. Sockets(UdpByte)' /\ Open' \subseteq {s}
  BY <1>1, <1>2, SocketTaken
<1>4. UNCHANGED <<inbox, udp_size, udp_index, udp_sender>> /\ bank' \in Registers
  <2>1. s \in Int
    <3>1. s \in Socket \/ s = -1
      BY <1>1 DEF Free
    <3>2. CASE s \in Socket
      BY <3>2, NetworkAssumption
    <3> QED BY <3>1, <3>2
  <2>2. bank' = [bank EXCEPT !.result = s, !.error = s = -1]
    BY <1>1 DEF NetSocket
  <2> QED BY <2>1, <2>2 DEF TakeUdpSocket, UdpInv, Registers
<1>5. CASE s = -1
  <2>1. Open' = {} /\ pc' = "exit"
    BY <1>1, <1>3, <1>5, NoneIsNoSocket DEF Open
  <2> QED BY <1>3, <1>4, <2>1 DEF UdpInv, HeldUdp
<1>6. CASE s # -1
  <2>1. s \in Socket /\ s \in Nat
    BY <1>1, <1>6, NetworkAssumption DEF Free
  <2>2. pc' = next /\ udp_socket' = s
    BY <1>1, <2>1
  <2> QED BY <1>3, <1>4, <2>1, <2>2 DEF UdpInv, HeldUdp
<1> QED BY <1>5, <1>6

LEMMA UdpReleased ==
    ASSUME UdpInv, UNCHANGED app, CloseUdpSocket
    PROVE  UdpInv'
<1>1. Sockets(UdpByte)' /\ Open' \subseteq Open \ {udp_socket}
  BY SocketClosed DEF CloseUdpSocket, UdpInv
<1>2. pc = "close" /\ pc' = "exit" /\ UNCHANGED udpVars
  BY DEF CloseUdpSocket, At, Goto
<1>3. bank' \in Registers
  <2>1. udp_socket \in Socket /\ bank \in Registers
    BY <1>2 DEF UdpInv
  <2>2. udp_socket \in Int
    BY <2>1, NetworkAssumption
  <2> QED BY <2>1, <2>2 DEF CloseUdpSocket, NetClose, Registers
<1> QED BY <1>1, <1>2, <1>3, UdpHeldStill DEF udpVars, UdpInv

(* What recvfrom gives: a datagram in the FIFO, or nothing.                *)
LEMMA DatagramReceived ==
    ASSUME UdpInv, pc \notin {"socket", "exit"}, ReceiveFrom
    PROVE  /\ Sockets(UdpByte)' /\ Open' = Open /\ bank' \in Registers
           /\ inbox' \subseteq inbox
           /\ bank'.result \in -1 .. TextLength
           /\ bank'.result >= 0 =>
                /\ bank'.ip \in Host
                /\ sockets'[udp_socket].rx = sockets[udp_socket].rx \o Bytes(bank'.ip, bank'.result)
                /\ sockets'[udp_socket].tx = sockets[udp_socket].tx
           /\ bank'.result < 0 => UNCHANGED sockets
<1>a. udp_socket \in Socket /\ Sockets(UdpByte) /\ bank \in Registers
  BY DEF UdpInv
<1>0. udp_socket \in Socket /\ udp_socket \in Int /\ Sockets(UdpByte) /\ bank \in Registers
  BY <1>a, NetworkAssumption
<1>1. ASSUME NEW d \in inbox, inbox' = inbox \ {d},
             sockets' = [sockets EXCEPT ![udp_socket].rx = @ \o Bytes(d.from, d.size)],
             bank' = [socket |-> udp_socket, ip |-> d.from, error |-> FALSE, result |-> d.size]
      PROVE  /\ Sockets(UdpByte)' /\ Open' = Open /\ bank' \in Registers
             /\ inbox' \subseteq inbox
             /\ bank'.result \in 0 .. TextLength /\ bank'.ip \in Host
             /\ sockets'[udp_socket].rx = sockets[udp_socket].rx \o Bytes(bank'.ip, bank'.result)
             /\ sockets'[udp_socket].tx = sockets[udp_socket].tx
  <2>1. d.from \in Host /\ d.from \in Nat /\ d.size \in 0 .. TextLength /\ d.size \in Nat
    BY <1>1, UdpAssumption, NetworkAssumption DEF UdpInv
  <2>2. Bytes(d.from, d.size) \in Seq(UdpByte)
    BY <2>1, BytesOf
  <2>3. sockets[udp_socket].rx \in Seq(UdpByte)
    BY <1>0 DEF Sockets, SocketOf
  <2>4. sockets[udp_socket].rx \o Bytes(d.from, d.size) \in Seq(UdpByte)
    BY <2>2, <2>3
  <2>5. Sockets(UdpByte)'
    BY <1>0, <1>1, <2>4 DEF Sockets, SocketOf
  <2>6. \A t \in Socket : sockets'[t].state = "free" <=> sockets[t].state = "free"
    BY <1>0, <1>1 DEF Sockets, SocketOf
  <2>7. /\ sockets'[udp_socket].rx = sockets[udp_socket].rx \o Bytes(d.from, d.size)
        /\ sockets'[udp_socket].tx = sockets[udp_socket].tx
    BY <1>0, <1>1 DEF Sockets, SocketOf
  <2>8. bank'.result = d.size /\ bank'.ip = d.from /\ bank' \in Registers
    BY <1>0, <1>1, <2>1 DEF Registers
  <2>9. Open' = Open
    BY <2>6, SocketMoved
  <2> QED BY <1>1, <2>1, <2>5, <2>7, <2>8, <2>9
<1>2. ASSUME NEW error \in BOOLEAN, UNCHANGED <<inbox, sockets>>,
             bank' = [bank EXCEPT !.socket = udp_socket, !.error = error, !.result = -1]
      PROVE  /\ Sockets(UdpByte)' /\ Open' = Open /\ bank' \in Registers
             /\ bank'.result = -1
  <2>a. /\ bank' = [socket |-> udp_socket, result |-> -1, error |-> error, ip |-> bank.ip]
        /\ bank.ip \in Int
    BY <1>0, <1>2 DEF Registers
  <2>1. bank' \in Registers /\ bank'.result = -1
    BY <1>0, <2>a DEF Registers
  <2>2. Sockets(UdpByte)' /\ Open' = Open
    BY <1>0, <1>2, SocketsSame
  <2> QED BY <2>1, <2>2
<1>3. CASE \E d \in inbox :
             /\ inbox' = inbox \ {d}
             /\ sockets' = [sockets EXCEPT ![udp_socket].rx = @ \o Bytes(d.from, d.size)]
             /\ bank' = [socket |-> udp_socket, ip |-> d.from, error |-> FALSE, result |-> d.size]
  <2>1. PICK d \in inbox :
             /\ inbox' = inbox \ {d}
             /\ sockets' = [sockets EXCEPT ![udp_socket].rx = @ \o Bytes(d.from, d.size)]
             /\ bank' = [socket |-> udp_socket, ip |-> d.from, error |-> FALSE, result |-> d.size]
    BY <1>3
  <2>2. bank'.result \in 0 .. TextLength
    BY <1>1, <2>1
  <2>3. bank'.result \in -1 .. TextLength /\ ~(bank'.result < 0)
    BY <2>2, NetworkAssumption
  <2> QED BY <1>1, <2>1, <2>3
<1>4. CASE \E error \in BOOLEAN :
             /\ UNCHANGED <<inbox, sockets>>
             /\ bank' = [bank EXCEPT !.socket = udp_socket, !.error = error, !.result = -1]
  <2>1. bank'.result = -1 /\ Sockets(UdpByte)' /\ Open' = Open /\ bank' \in Registers
    BY <1>2, <1>4
  <2>2. bank'.result \in -1 .. TextLength /\ ~(bank'.result >= 0)
    BY <2>1, NetworkAssumption
  <2> QED BY <1>4, <2>1, <2>2
<1>5. CASE \E error \in BOOLEAN :
             /\ inbox = {} \/ error
             /\ bank' = [bank EXCEPT !.socket = udp_socket, !.error = error, !.result = -1]
             /\ Outcome(~error)
             /\ UNCHANGED <<inbox, sockets>>
  BY <1>4, <1>5
<1> QED BY <1>3, <1>5 DEF ReceiveFrom

(* sendto empties the FIFO of what is to be sent. *)
LEMMA DatagramSent ==
    ASSUME UdpInv, pc \notin {"socket", "exit"}, NEW to \in Int, NEW ok \in BOOLEAN, SendTo(to, ok)
    PROVE  /\ Sockets(UdpByte)' /\ Open' = Open /\ bank' \in Registers
           /\ sockets'[udp_socket].tx = <<>>
           /\ sockets'[udp_socket].rx = sockets[udp_socket].rx
<1>1. udp_socket \in Socket /\ Sockets(UdpByte)
  BY DEF UdpInv
<1>2. udp_socket \in Int
  BY <1>1, NetworkAssumption
<1>3. bank' \in Registers
  BY <1>2 DEF SendTo, Registers
<1>4. sockets' = [sockets EXCEPT ![udp_socket].tx = <<>>]
  BY DEF SendTo
<1>a. <<>> \in Seq(UdpByte)
  OBVIOUS
<1>5. [sockets[udp_socket] EXCEPT !.tx = <<>>] \in SocketOf(UdpByte)
  BY <1>1, <1>a DEF Sockets, SocketOf
<1>6. Sockets(UdpByte)'
  BY <1>1, <1>4, <1>5 DEF Sockets
<1>7. \A t \in Socket : sockets'[t].state = "free" <=> sockets[t].state = "free"
  BY <1>1, <1>4 DEF Sockets, SocketOf
<1>8. /\ sockets'[udp_socket].tx = <<>>
      /\ sockets'[udp_socket].rx = sockets[udp_socket].rx
  BY <1>1, <1>4 DEF Sockets, SocketOf
<1> QED BY <1>3, <1>6, <1>7, <1>8, SocketMoved

LEMMA UdpServerHolds ==
    ASSUME UdpInv, UNCHANGED app, UdpServer
    PROVE  UdpInv'
<1> USE DEF At, Goto
<1>0. Sockets(UdpByte) /\ bank \in Registers
  BY DEF UdpInv
<1>1. CASE TakeUdpSocket("bind")
  BY <1>1, UdpTaken
<1>2. CASE UdpBind
  <2>1. PICK ok \in BOOLEAN : /\ NetConfigured(udp_socket, 0, "open", ok)
                              /\ pc' = IF ok THEN "receive" ELSE "close"
    BY <1>2 DEF UdpBind
  <2>2. pc = "bind" /\ UNCHANGED udpVars
    BY <1>2 DEF UdpBind
  <2>3. udp_socket \in Socket /\ Open \subseteq {udp_socket}
    BY <2>2 DEF UdpInv, HeldUdp
  <2>4. Sockets(UdpByte)' /\ Open' \subseteq {udp_socket}
    BY <1>0, <2>1, <2>3, SocketConfigured DEF SocketState
  <2>5. udp_socket \in Int
    BY <2>3, NetworkAssumption
  <2>6. bank' \in Registers
    BY <2>1, <2>5 DEF NetConfigured, Registers
  <2>7. pc' \in {"receive", "close"}
    BY <2>1
  <2> QED BY <2>2, <2>3, <2>4, <2>6, <2>7 DEF UdpInv, HeldUdp, udpVars
<1>3. CASE UdpServerReceive
  <2>1. /\ pc = "receive" /\ ReceiveFrom
        /\ udp_size' = bank'.result /\ UNCHANGED udp_socket
    BY <1>3 DEF UdpServerReceive
  <2>2. /\ Sockets(UdpByte)' /\ Open' = Open /\ bank' \in Registers
        /\ inbox' \subseteq [from : Host, size : 0 .. TextLength]
        /\ udp_size' \in -1 .. TextLength
    BY <2>1, DatagramReceived DEF UdpInv
  <2>3. CASE udp_size' < 0
    <3>1. pc' \in {"close", "receive"} /\ udp_index' \in Nat /\ udp_sender' \in Nat
      BY <1>3, <2>3 DEF UdpServerReceive, UdpInv
    <3> QED BY <2>1, <2>2, <3>1, UdpHeldStill
  <2>4. CASE ~(udp_size' < 0)
    <3>1. pc' = "echo" /\ udp_index' = 0 /\ udp_sender' = bank'.ip
      BY <1>3, <2>4 DEF UdpServerReceive
    <3>a. udp_size' \in Nat /\ bank'.result >= 0
      BY <2>1, <2>2, <2>4, NetworkAssumption
    <3>2. /\ sockets'[udp_socket].rx = sockets[udp_socket].rx \o Bytes(bank'.ip, udp_size')
          /\ bank'.ip \in Host
      BY <2>1, <3>a, DatagramReceived
    <3>3. bank'.ip \in Nat /\ udp_size' \in Nat
      BY <3>2, <3>a, UdpAssumption
    <3>b. udp_socket \in Socket
      BY <2>1 DEF UdpInv
    <3>4. sockets[udp_socket].rx \in Seq(UdpByte)
      BY <1>0, <3>b DEF Sockets, SocketOf
    <3>c. /\ Bytes(bank'.ip, udp_size') \in Seq(UdpByte)
          /\ Len(Bytes(bank'.ip, udp_size')) = udp_size'
      BY <3>3, BytesOf
    <3>5. udp_size' <= Len(sockets'[udp_socket].rx)
      BY <3>2, <3>3, <3>4, <3>c, FifoGrows
    <3>6. udp_size' - udp_index' <= Len(sockets'[udp_socket].rx)
      BY <3>1, <3>3, <3>5
    <3> QED BY <2>1, <2>2, <3>1, <3>3, <3>6, UdpHeldStill
  <2> QED BY <2>3, <2>4
<1>4. CASE UdpEcho
  <2>1. /\ pc = "echo" /\ udp_index < udp_size /\ sockets' = Echoed(udp_socket)
        /\ udp_index' = udp_index + 1 /\ UNCHANGED <<pc, bank, inbox, udp_socket, udp_size,
                                                     udp_sender>>
    BY <1>4 DEF UdpEcho
  <2>a. /\ udp_socket \in Socket
        /\ udp_size - udp_index <= Len(sockets[udp_socket].rx)
        /\ udp_size \in -1 .. TextLength /\ udp_index \in Nat
    BY <2>1 DEF UdpInv
  <2>2. /\ udp_socket \in Socket /\ sockets[udp_socket].rx \in Seq(UdpByte)
        /\ udp_size - udp_index <= Len(sockets[udp_socket].rx)
        /\ udp_size \in Int /\ udp_index \in Nat
    BY <1>0, <2>a, NetworkAssumption DEF Sockets, SocketOf
  <2>3. sockets[udp_socket].rx # <<>>
    BY <2>1, <2>2
  <2>4. Sockets(UdpByte)' /\ Open' = Open
    BY <1>0, <2>1, <2>3, SocketEchoed
  <2>5. sockets'[udp_socket].rx = Tail(sockets[udp_socket].rx)
    BY <1>0, <2>1, <2>2 DEF Echoed, Sockets, SocketOf
  <2>6. udp_size' - udp_index' <= Len(sockets'[udp_socket].rx)
    BY <2>1, <2>2, <2>3, <2>5
  <2> QED BY <1>0, <2>1, <2>4, <2>6, UdpHeldStill DEF UdpInv
<1>5. CASE UdpReply
  <2>1. PICK ok \in BOOLEAN : SendTo(udp_sender, ok)
    BY <1>5 DEF UdpReply
  <2>2. pc = "echo" /\ pc' = "receive" /\ UNCHANGED <<inbox, udp_socket, udp_size, udp_index,
                                              udp_sender>>
    BY <1>5 DEF UdpReply
  <2>3. Sockets(UdpByte)' /\ Open' = Open /\ bank' \in Registers
    BY <2>1, <2>2, DatagramSent DEF UdpInv
  <2> QED BY <2>2, <2>3, UdpHeldStill DEF UdpInv
<1>6. CASE CloseUdpSocket
  BY <1>6, UdpReleased
<1> QED BY <1>1, <1>2, <1>3, <1>4, <1>5, <1>6 DEF UdpServer

LEMMA UdpClientHolds ==
    ASSUME UdpInv, UNCHANGED app, UdpClient
    PROVE  UdpInv'
<1> USE DEF At, Goto
<1>0. Sockets(UdpByte) /\ bank \in Registers
  BY DEF UdpInv
<1>1. CASE TakeUdpSocket("send_text")
  BY <1>1, UdpTaken
<1>2. ASSUME pc = "send_text", pc' = "send", UNCHANGED udpVars,
             sockets' = [sockets EXCEPT ![udp_socket].tx = Bytes(0, TextLength)],
             bank' = [bank EXCEPT !.socket = udp_socket]
      PROVE  UdpInv'
  <2>1. Bytes(0, TextLength) \in Seq(UdpByte)
    BY BytesOf, NetworkAssumption
  <2>2. udp_socket \in Socket
    BY <1>2 DEF UdpInv
  <2>3. udp_socket \in Int
    BY <2>2, NetworkAssumption
  <2>4. bank' \in Registers
    BY <1>0, <1>2, <2>3 DEF Registers
  <2>5. Sockets(UdpByte)'
    BY <1>0, <1>2, <2>1, <2>2 DEF Sockets, SocketOf
  <2>6. \A t \in Socket : sockets'[t].state = "free" <=> sockets[t].state = "free"
    BY <1>0, <1>2 DEF Sockets, SocketOf
  <2>7. Open' = Open
    BY <2>6, SocketMoved
  <2> QED BY <1>2, <2>4, <2>5, <2>7, UdpHeldStill DEF udpVars, UdpInv
<1>3. CASE /\ pc = "send"
           /\ \E ok \in BOOLEAN, server \in Host :
                SendTo(server, ok) /\ pc' = IF ok THEN "receive" ELSE "close"
           /\ UNCHANGED <<polls, inbox, left, udp_socket, udp_size, udp_index, udp_sender>>
  <2>1. PICK ok \in BOOLEAN, server \in Host :
           SendTo(server, ok) /\ pc' = IF ok THEN "receive" ELSE "close"
    BY <1>3
  <2>2. server \in Int
    BY UdpAssumption
  <2>3. Sockets(UdpByte)' /\ Open' = Open /\ bank' \in Registers
    BY <1>3, <2>1, <2>2, DatagramSent
  <2>4. pc' \in {"receive", "close"}
    BY <2>1
  <2> QED BY <1>3, <2>3, <2>4, UdpHeldStill DEF UdpInv
<1>4. CASE /\ pc = "receive" /\ ReceiveFrom
           /\ udp_size' = bank'.result /\ udp_index' = 0
           /\ pc' = IF udp_size' >= 0 THEN "read" ELSE IF bank'.error THEN "close" ELSE "receive"
           /\ UNCHANGED <<polls, sent, left, udp_socket, udp_sender>>
  <2>1. /\ Sockets(UdpByte)' /\ Open' = Open /\ bank' \in Registers
        /\ inbox' \subseteq [from : Host, size : 0 .. TextLength]
        /\ udp_size' \in -1 .. TextLength
    BY <1>4, DatagramReceived DEF UdpInv
  <2>2. CASE udp_size' < 0
    <3>1. ~(udp_size' >= 0)
      BY <2>1, <2>2, NetworkAssumption
    <3>2. pc' \in {"close", "receive"}
      BY <1>4, <3>1
    <3> QED BY <1>4, <2>1, <3>2, UdpHeldStill DEF UdpInv
  <2>3. CASE ~(udp_size' < 0)
    <3>a. udp_size' \in Nat /\ bank'.result >= 0
      BY <1>4, <2>1, <2>3, NetworkAssumption
    <3>1. pc' = "read"
      BY <1>4, <3>a
    <3>2. /\ sockets'[udp_socket].rx = sockets[udp_socket].rx \o Bytes(bank'.ip, udp_size')
          /\ bank'.ip \in Host
      BY <1>4, <3>a, DatagramReceived
    <3>3. bank'.ip \in Nat
      BY <3>2, UdpAssumption
    <3>4. udp_socket \in Socket
      BY <1>4 DEF UdpInv
    <3>5. sockets[udp_socket].rx \in Seq(UdpByte)
      BY <1>0, <3>4 DEF Sockets, SocketOf
    <3>6. /\ Bytes(bank'.ip, udp_size') \in Seq(UdpByte)
          /\ Len(Bytes(bank'.ip, udp_size')) = udp_size'
      BY <3>3, <3>a, BytesOf
    <3>7. udp_size' <= Len(sockets'[udp_socket].rx)
      BY <3>2, <3>a, <3>5, <3>6, FifoGrows
    <3>8. udp_size' - udp_index' <= Len(sockets'[udp_socket].rx)
      BY <1>4, <3>a, <3>7
    <3> QED BY <1>4, <2>1, <3>1, <3>8, UdpHeldStill DEF UdpInv
  <2> QED BY <2>2, <2>3
<1>5. CASE /\ pc = "read" /\ udp_index < udp_size
           /\ sockets' = [sockets EXCEPT ![udp_socket].rx = Tail(@)]
           /\ udp_index' = udp_index + 1
           /\ UNCHANGED <<pc, bank, inbox, udp_socket, udp_size, udp_sender>>
  <2>1. /\ udp_socket \in Socket
        /\ udp_size - udp_index <= Len(sockets[udp_socket].rx)
        /\ udp_size \in -1 .. TextLength /\ udp_index \in Nat
    BY <1>5 DEF UdpInv
  <2>2. sockets[udp_socket].rx \in Seq(UdpByte) /\ udp_size \in Int
    BY <1>0, <2>1, NetworkAssumption DEF Sockets, SocketOf
  <2>3. sockets[udp_socket].rx # <<>>
    BY <1>5, <2>1, <2>2
  <2>4. /\ Tail(sockets[udp_socket].rx) \in Seq(UdpByte)
        /\ Len(Tail(sockets[udp_socket].rx)) = Len(sockets[udp_socket].rx) - 1
    BY <2>2, <2>3
  <2>5. Sockets(UdpByte)'
    BY <1>0, <1>5, <2>1, <2>4 DEF Sockets, SocketOf
  <2>6. \A t \in Socket : sockets'[t].state = "free" <=> sockets[t].state = "free"
    BY <1>0, <1>5 DEF Sockets, SocketOf
  <2>7. Open' = Open
    BY <2>6, SocketMoved
  <2>8. sockets'[udp_socket].rx = Tail(sockets[udp_socket].rx)
    BY <1>0, <1>5, <2>1 DEF Sockets, SocketOf
  <2>9. udp_size' - udp_index' <= Len(sockets'[udp_socket].rx)
    BY <1>5, <2>1, <2>2, <2>4, <2>8
  <2> QED BY <1>0, <1>5, <2>1, <2>5, <2>7, <2>9, UdpHeldStill DEF UdpInv
<1>6. CASE /\ pc = "read" /\ pc' = "close" /\ UNCHANGED <<sockets, udp_index>>
           /\ UNCHANGED <<bank, inbox, udp_socket, udp_size, udp_sender>>
  <2>1. Sockets(UdpByte)' /\ Open' = Open
    BY <1>0, <1>6, SocketsSame
  <2> QED BY <1>0, <1>6, <2>1, UdpHeldStill DEF UdpInv
<1>7. CASE CloseUdpSocket
  BY <1>7, UdpReleased
<1> QED BY <1>1, <1>2, <1>3, <1>4, <1>5, <1>6, <1>7 DEF UdpClient

LEMMA UdpHolds ==
    ASSUME UdpInv, [UdpNext]_udpAll
    PROVE  UdpInv'
<1>0. Sockets(UdpByte)
  BY DEF UdpInv
<1>1. CASE UdpServer /\ UNCHANGED app
  BY <1>1, UdpServerHolds
<1>2. CASE UdpClient /\ UNCHANGED app
  BY <1>2, UdpClientHolds
<1>3. CASE DatagramArrives
  <2>1. PICK host \in Host, size \in 0 .. TextLength :
          inbox' = inbox \cup {[from |-> host, size |-> size]}
    BY <1>3 DEF DatagramArrives
  <2>2. inbox' \subseteq [from : Host, size : 0 .. TextLength]
    BY <2>1 DEF UdpInv
  <2>3. Sockets(UdpByte)' /\ Open' = Open
    BY <1>0, <1>3, SocketsSame DEF DatagramArrives, deviceState
  <2>4. UNCHANGED <<app, pc, sockets, bank, udp_socket, udp_size, udp_index, udp_sender>>
    BY <1>3 DEF DatagramArrives, deviceState
  <2> QED BY <2>2, <2>3, <2>4 DEF UdpInv, HeldUdp
<1>4. CASE UNCHANGED udpAll
  <2>1. Sockets(UdpByte)' /\ Open' = Open
    BY <1>0, <1>4, SocketsSame DEF udpAll, deviceState
  <2>2. UNCHANGED <<app, pc, sockets, bank, inbox, udp_socket, udp_size, udp_index, udp_sender>>
    BY <1>4 DEF udpAll, deviceState, udpVars
  <2> QED BY <2>1, <2>2 DEF UdpInv, HeldUdp
<1> QED BY <1>1, <1>2, <1>3, <1>4 DEF UdpNext

LEMMA UdpStarts ==
    ASSUME app \in UdpApps, pc = "socket", NetworkInit, UdpInit
    PROVE  UdpInv
<1>1. Sockets(UdpByte) /\ Open = {}
  BY NoSocketYet
<1>2. bank \in Registers
  <2>1. bank \in [socket : {0}, result : {0}, error : {FALSE}, ip : {0}]
    BY DEF NetworkInit
  <2>2. bank = [socket |-> 0, result |-> 0, error |-> FALSE, ip |-> 0]
    BY <2>1
  <2> QED BY <2>2 DEF Registers
<1>3. udp_size \in -1 .. TextLength /\ udp_index \in Nat /\ udp_sender \in Nat
  BY NetworkAssumption DEF UdpInit
<1> QED BY <1>1, <1>2, <1>3 DEF UdpInv, UdpInit, HeldUdp

(* Whatever is refused, the UDP programs have closed their socket when     *)
(* they have ended.                                                        *)
THEOREM UdpSocketClosed == UdpSpec => []UdpClosed
<1>1. UdpInv => UdpClosed
  BY DEF UdpInv, HeldUdp, UdpClosed
<1> QED BY <1>1, UdpStarts, UdpHolds, PTL DEF UdpSpec, UdpApps

-----------------------------------------------------------------------------
(* What the server echoes: the bytes of the datagram up to udp_index are   *)
(* in the FIFO of what is to be sent, the rest in the one of what has come, *)
(* and between two datagrams both are empty.                               *)

Rest(host, index, size) == [k \in 1 .. size - index |-> <<host, index + k>>]

Echoing(c) ==
    /\ udp_sender \in Host /\ udp_index \in 0 .. udp_size
    /\ c.tx = Bytes(udp_sender, udp_index)
    /\ c.rx = Rest(udp_sender, udp_index, udp_size)

ReplyInv ==
    app = "udp_server" =>
        /\ pc \in {"socket", "bind"} => sent.to = 0
        /\ pc \in {"bind", "receive"} =>
             sockets[udp_socket].rx = <<>> /\ sockets[udp_socket].tx = <<>>
        /\ pc = "echo" => Echoing(sockets[udp_socket])
        /\ ReplyToSender

LEMMA RestStarts ==
    ASSUME NEW host \in Nat, NEW size \in Nat
    PROVE  /\ Bytes(host, 0) = <<>> /\ <<>> \o Bytes(host, size) = Rest(host, 0, size)
           /\ Rest(host, size, size) = <<>>
<1>1. Bytes(host, size) = Rest(host, 0, size)
  BY DEF Bytes, Rest
<1>2. Bytes(host, size) \in Seq(UdpByte)
  BY BytesOf
<1>3. Bytes(host, 0) = <<>> /\ Rest(host, size, size) = <<>>
  BY DEF Bytes, Rest
<1> QED BY <1>1, <1>2, <1>3

LEMMA RestMoves ==
    ASSUME NEW host \in Nat, NEW size \in Nat, NEW index \in Nat, index < size
    PROVE  /\ Rest(host, index, size) # <<>>
           /\ Tail(Rest(host, index, size)) = Rest(host, index + 1, size)
           /\ Append(Bytes(host, index), Head(Rest(host, index, size))) = Bytes(host, index + 1)
<1> DEFINE rest == Rest(host, index, size)
<1>0. \A k \in 1 .. size - index : <<host, index + k>> \in UdpByte
  BY DEF UdpByte
<1>1. rest \in Seq(UdpByte) /\ Len(rest) = size - index
  BY <1>0 DEF Rest
<1>2. \A k \in 1 .. size - index : rest[k] = <<host, index + k>>
  BY DEF Rest
<1> HIDE DEF rest
<1>3. rest # <<>> /\ Head(rest) = <<host, index + 1>>
  BY <1>1, <1>2
<1>4. Tail(rest) = [k \in 1 .. size - (index + 1) |-> <<host, (index + 1) + k>>]
  <2>1. Tail(rest) \in Seq(UdpByte) /\ Len(Tail(rest)) = size - (index + 1)
    BY <1>1, <1>3
  <2>2. \A k \in 1 .. size - (index + 1) : Tail(rest)[k] = <<host, (index + 1) + k>>
    <3> TAKE k \in 1 .. size - (index + 1)
    <3>1. Tail(rest)[k] = rest[k + 1]
      BY <1>1, <1>3, <2>1
    <3>2. k + 1 \in 1 .. size - index /\ index + (k + 1) = (index + 1) + k
      OBVIOUS
    <3> QED BY <1>2, <3>1, <3>2
  <2> DEFINE t == [k \in 1 .. size - (index + 1) |-> <<host, (index + 1) + k>>]
  <2>3. /\ t \in Seq(UdpByte) /\ Len(t) = size - (index + 1)
        /\ \A k \in 1 .. size - (index + 1) : t[k] = <<host, (index + 1) + k>>
    <3>1. \A k \in 1 .. size - (index + 1) : <<host, (index + 1) + k>> \in UdpByte
      BY DEF UdpByte
    <3> QED BY <3>1
  <2> HIDE DEF t
  <2>4. Tail(rest) = t
    BY <2>1, <2>2, <2>3, SeqEqual
  <2> QED BY <2>4 DEF t
<1>5. Append(Bytes(host, index), <<host, index + 1>>) = Bytes(host, index + 1)
  <2> DEFINE b == Bytes(host, index)
             more == Append(b, <<host, index + 1>>)
             t == Bytes(host, index + 1)
  <2>1. b \in Seq(UdpByte) /\ Len(b) = index /\ t \in Seq(UdpByte) /\ Len(t) = index + 1
    BY BytesOf
  <2>2. /\ \A k \in 1 .. index : b[k] = <<host, k>>
        /\ \A k \in 1 .. index + 1 : t[k] = <<host, k>>
    BY DEF Bytes
  <2>3. <<host, index + 1>> \in UdpByte
    BY DEF UdpByte
  <2> HIDE DEF b, t
  <2>4. /\ more \in Seq(UdpByte) /\ Len(more) = index + 1
        /\ more[index + 1] = <<host, index + 1>>
        /\ \A k \in 1 .. index : more[k] = b[k]
    BY <2>1, <2>3
  <2> HIDE DEF more
  <2>5. \A k \in 1 .. index + 1 : more[k] = t[k]
    <3> TAKE k \in 1 .. index + 1
    <3>1. CASE k = index + 1
      BY <2>2, <2>4, <3>1
    <3>2. CASE k \in 1 .. index
      BY <2>2, <2>4, <3>2
    <3> QED BY <3>1, <3>2
  <2>6. more = t
    BY <2>1, <2>4, <2>5, SeqEqual
  <2> QED BY <2>6 DEF more, b, t
<1> QED BY <1>3, <1>4, <1>5 DEF rest, Rest

LEMMA ReplyHolds ==
    ASSUME UdpInv, ReplyInv, app = "udp_server", UNCHANGED app, UdpServer
    PROVE  ReplyInv'
<1> USE DEF At, Goto
<1>0. Sockets(UdpByte)
  BY DEF UdpInv
<1> DEFINE old == sockets[udp_socket]
           new == sockets'[udp_socket]
           Addressed == sent.to # 0 => \A i \in DOMAIN sent.bytes : sent.bytes[i] = <<sent.to, i>>
<1>a. Addressed
  BY DEF ReplyInv, ReplyToSender
<1>b. ASSUME UNCHANGED sent, pc' # "receive" PROVE ReplyToSender'
  BY <1>a, <1>b DEF ReplyToSender
<1>1. CASE TakeUdpSocket("bind")
  <2>1. PICK s \in Free \cup {-1} : /\ NetSocket(s) /\ udp_socket' = s
                                    /\ pc' = IF s < 0 THEN "exit" ELSE "bind"
    BY <1>1 DEF TakeUdpSocket
  <2>2. UNCHANGED sent /\ sent.to = 0
    BY <1>1 DEF TakeUdpSocket, ReplyInv
  <2>3. CASE s = -1
    BY <1>b, <2>1, <2>2, <2>3 DEF ReplyInv
  <2>4. CASE s # -1
    <3>1. s \in Socket /\ s \in Nat
      BY <2>1, <2>4, NetworkAssumption DEF Free
    <3>2. pc' = "bind" /\ udp_socket' = s /\ sockets'[s] = Fresh("open")
      BY <2>1, <3>1 DEF NetSocket
    <3>3. sockets'[udp_socket'].rx = <<>> /\ sockets'[udp_socket'].tx = <<>>
      BY <3>2 DEF Fresh
    <3> QED BY <1>b, <2>2, <3>2, <3>3 DEF ReplyInv
  <2> QED BY <2>3, <2>4
<1>2. CASE UdpBind
  <2>1. PICK ok \in BOOLEAN : /\ NetConfigured(udp_socket, 0, "open", ok)
                              /\ pc' = IF ok THEN "receive" ELSE "close"
    BY <1>2 DEF UdpBind
  <2>2. pc = "bind" /\ UNCHANGED <<sent, udp_socket>>
    BY <1>2 DEF UdpBind, udpVars
  <2>3. old.rx = <<>> /\ old.tx = <<>> /\ sent.to = 0 /\ udp_socket \in Socket
    BY <2>2 DEF ReplyInv, UdpInv
  <2>4. new.rx = old.rx /\ new.tx = old.tx
    BY <1>0, <2>1, <2>3 DEF NetConfigured, Sockets, SocketOf
  <2>5. pc' \in {"receive", "close"}
    BY <2>1
  <2> QED BY <2>2, <2>3, <2>4, <2>5 DEF ReplyInv, ReplyToSender
<1>3. CASE UdpServerReceive
  <2>1. /\ pc = "receive" /\ ReceiveFrom
        /\ udp_size' = bank'.result /\ UNCHANGED <<sent, udp_socket>>
    BY <1>3 DEF UdpServerReceive
  <2>2. udp_size' \in -1 .. TextLength
    BY <2>1, DatagramReceived
  <2>3. old.rx = <<>> /\ old.tx = <<>>
    BY <2>1 DEF ReplyInv
  <2>4. CASE udp_size' < 0
    <3>1. pc' \in {"close", "receive"} /\ UNCHANGED sockets
      BY <1>3, <2>1, <2>4, DatagramReceived DEF UdpServerReceive
    <3>2. ~(udp_size' >= 0)
      BY <2>2, <2>4, NetworkAssumption
    <3>3. ReplyToSender'
      BY <1>a, <2>1, <3>2 DEF ReplyToSender
    <3> QED BY <2>1, <2>3, <3>1, <3>3 DEF ReplyInv
  <2>5. CASE ~(udp_size' < 0)
    <3>1. pc' = "echo" /\ udp_index' = 0 /\ udp_sender' = bank'.ip
      BY <1>3, <2>5 DEF UdpServerReceive
    <3>2. udp_size' \in Nat /\ bank'.result >= 0
      BY <2>1, <2>2, <2>5, NetworkAssumption
    <3>3. /\ new.rx = old.rx \o Bytes(bank'.ip, udp_size') /\ new.tx = old.tx
          /\ bank'.ip \in Host
      BY <2>1, <3>2, DatagramReceived
    <3>4. bank'.ip \in Nat
      BY <3>3, UdpAssumption
    <3>5. new.rx = Rest(udp_sender', udp_index', udp_size') /\ new.tx = Bytes(udp_sender', udp_index')
      BY <2>3, <3>1, <3>2, <3>3, <3>4, RestStarts
    <3>6. udp_sender' \in Host /\ udp_index' \in 0 .. udp_size'
      BY <3>1, <3>2, <3>3
    <3> QED BY <1>b, <2>1, <3>1, <3>5, <3>6 DEF ReplyInv, Echoing
  <2> QED BY <2>4, <2>5
<1>4. CASE UdpEcho
  <2>1. /\ pc = "echo" /\ udp_index < udp_size /\ sockets' = Echoed(udp_socket)
        /\ udp_index' = udp_index + 1
        /\ UNCHANGED <<pc, sent, udp_socket, udp_size, udp_sender>>
    BY <1>4 DEF UdpEcho
  <2>2. udp_socket \in Socket /\ Echoing(old) /\ udp_size \in -1 .. TextLength
    BY <2>1 DEF UdpInv, ReplyInv
  <2>3. udp_sender \in Nat /\ udp_index \in Nat /\ udp_size \in Nat
    BY <2>1, <2>2, UdpAssumption, NetworkAssumption DEF Echoing
  <2>4. new.rx = Tail(old.rx) /\ new.tx = Append(old.tx, Head(old.rx))
    BY <1>0, <2>1, <2>2 DEF Echoed, Sockets, SocketOf
  <2>5. new.rx = Rest(udp_sender, udp_index + 1, udp_size) /\ new.tx = Bytes(udp_sender, udp_index + 1)
    <3>1. /\ Tail(Rest(udp_sender, udp_index, udp_size)) = Rest(udp_sender, udp_index + 1, udp_size)
          /\ Append(Bytes(udp_sender, udp_index), Head(Rest(udp_sender, udp_index, udp_size)))
                = Bytes(udp_sender, udp_index + 1)
      BY <2>1, <2>3, RestMoves
    <3>2. old.rx = Rest(udp_sender, udp_index, udp_size) /\ old.tx = Bytes(udp_sender, udp_index)
      BY <2>2 DEF Echoing
    <3> QED BY <2>4, <3>1, <3>2
  <2>6. udp_index + 1 \in 0 .. udp_size
    BY <2>1, <2>3
  <2> QED BY <1>b, <2>1, <2>2, <2>5, <2>6 DEF ReplyInv, Echoing
<1>5. CASE UdpReply
  <2>1. /\ pc = "echo" /\ pc' = "receive" /\ udp_index >= udp_size
        /\ UNCHANGED <<udp_socket, udp_size, udp_index, udp_sender>>
    BY <1>5 DEF UdpReply
  <2>2. PICK ok \in BOOLEAN : SendTo(udp_sender, ok)
    BY <1>5 DEF UdpReply
  <2>3. Echoing(old) /\ udp_size \in -1 .. TextLength /\ udp_index \in Nat
    BY <2>1 DEF ReplyInv, UdpInv
  <2>4. udp_sender \in Nat /\ udp_sender # 0 /\ udp_index = udp_size /\ udp_size \in Nat
    BY <2>1, <2>3, UdpAssumption, NetworkAssumption DEF Echoing
  <2>5. new.tx = <<>> /\ new.rx = <<>>
    <3>1. new.tx = <<>> /\ new.rx = old.rx
      BY <2>1, <2>2, <2>4, DatagramSent
    <3> QED BY <2>3, <2>4, <3>1, RestStarts DEF Echoing
  <2>6. CASE ok
    <3>1. sent' = [to |-> udp_sender, bytes |-> Bytes(udp_sender, udp_size)]
      BY <2>2, <2>3, <2>4, <2>6 DEF SendTo, Echoing
    <3>2. sent'.to = udp_sender /\ sent'.bytes = Bytes(udp_sender, udp_size)
      BY <3>1
    <3>3. \A i \in DOMAIN Bytes(udp_sender, udp_size) : Bytes(udp_sender, udp_size)[i] = <<udp_sender, i>>
      BY DEF Bytes
    <3>4. Len(Bytes(udp_sender, udp_size)) = udp_size
      BY <2>4, BytesOf
    <3>5. ReplyToSender'
      BY <2>1, <3>2, <3>3, <3>4 DEF ReplyToSender
    <3> QED BY <2>1, <2>5, <3>5 DEF ReplyInv
  <2>7. CASE ~ok
    <3>1. UNCHANGED sent /\ bank'.error = TRUE
      BY <2>2, <2>7 DEF SendTo
    <3>2. ReplyToSender'
      BY <1>a, <3>1 DEF ReplyToSender
    <3> QED BY <2>1, <2>5, <3>2 DEF ReplyInv
  <2> QED BY <2>6, <2>7
<1>6. CASE CloseUdpSocket
  <2>1. pc' = "exit" /\ UNCHANGED sent
    BY <1>6 DEF CloseUdpSocket, udpVars
  <2> QED BY <1>b, <2>1 DEF ReplyInv
<1> QED BY <1>1, <1>2, <1>3, <1>4, <1>5, <1>6 DEF UdpServer

LEMMA ReplyStep ==
    ASSUME UdpInv, ReplyInv, [UdpNext]_udpAll
    PROVE  ReplyInv'
<1>1. CASE app = "udp_server" /\ UdpServer /\ UNCHANGED app
  BY <1>1, ReplyHolds
<1>2. CASE app = "udp_client" /\ UNCHANGED app
  BY <1>2 DEF ReplyInv
<1>3. CASE DatagramArrives
  BY <1>3 DEF DatagramArrives, deviceState, ReplyInv, ReplyToSender, Echoing
<1>4. CASE UNCHANGED udpAll
  BY <1>4 DEF udpAll, deviceState, udpVars, ReplyInv, ReplyToSender, Echoing
<1> QED BY <1>1, <1>2, <1>3, <1>4 DEF UdpNext

LEMMA ReplyStarts ==
    ASSUME pc = "socket", UdpInit
    PROVE  ReplyInv
BY DEF UdpInit, ReplyInv, ReplyToSender

(* A reply of the server is one whole datagram, to the host that sent it,  *)
(* with no byte of another one, whatever was refused before.               *)
THEOREM UdpReplyToSender == UdpSpec => []ReplyToSender
<1>1. UdpInv /\ ReplyInv => ReplyToSender
  <2>1. CASE app = "udp_server"
    BY <2>1 DEF ReplyInv
  <2> QED BY <2>1 DEF ReplyToSender
<1> QED BY <1>1, UdpStarts, UdpHolds, ReplyStarts, ReplyStep, PTL DEF UdpSpec, UdpApps

-----------------------------------------------------------------------------
(* The descriptors of the disk. *)

Descriptors ==
    fds = [fd \in Fd |-> [mode |-> fds[fd].mode, name |-> fds[fd].name, at |-> fds[fd].at]]

OpenFds == Fd \ ClosedFds

LEMMA NothingOpenYet ==
    ASSUME DiskInit
    PROVE  Descriptors /\ OpenFds = {}
BY DEF DiskInit, Closed, Descriptors, OpenFds, ClosedFds

LEMMA FdsSame ==
    ASSUME Descriptors, UNCHANGED fds
    PROVE  Descriptors' /\ OpenFds' = OpenFds
BY DEF Descriptors, OpenFds, ClosedFds

(* A descriptor is opened that was closed, or nothing happens. *)
LEMMA FdOpened ==
    ASSUME Descriptors, NEW name, FsOpenRead(name) \/ FsOpenWrite(name)
    PROVE  /\ Descriptors'
           /\ fs_error' = FS_OK => OpenFds' \subseteq OpenFds \cup {fs_result'}
           /\ fs_error' # FS_OK => OpenFds' = OpenFds
<1>1. ASSUME NEW fd \in ClosedFds, NEW mode,
             fds' = [fds EXCEPT ![fd] = [mode |-> mode, name |-> name, at |-> 0]],
             fs_result' = fd, fs_error' = FS_OK
      PROVE  Descriptors' /\ OpenFds' \subseteq OpenFds \cup {fs_result'}
  <2>1. Descriptors'
    BY <1>1 DEF Descriptors
  <2>2. OpenFds' \subseteq OpenFds \cup {fd}
    BY <1>1 DEF Descriptors, OpenFds, ClosedFds
  <2> QED BY <1>1, <2>1, <2>2
<1>2. CASE UNCHANGED fds /\ fs_error' # FS_OK
  BY <1>2, FdsSame
<1>3. CASE FsOpenRead(name)
  BY <1>1, <1>2, <1>3 DEF FsOpenRead, Accept, Answer, Refuse, FS_OK, FS_ERR
<1>4. CASE FsOpenWrite(name)
  <2>1. CASE \E fd \in ClosedFds :
               /\ fds' = [fds EXCEPT ![fd] = [mode |-> "write", name |-> name, at |-> 0]]
               /\ Accept(fd)
    BY <1>1, <2>1 DEF Accept, Answer
  <2>2. CASE Refuse("open_write") /\ UNCHANGED fds
    BY <1>2, <2>2 DEF Answer, Refuse, FS_OK, FS_ERR
  <2> QED BY <1>4, <2>1, <2>2 DEF FsOpenWrite
<1> QED BY <1>3, <1>4

LEMMA FdRead ==
    ASSUME Descriptors, NEW fd, FsReadByte(fd)
    PROVE  Descriptors' /\ OpenFds' = OpenFds
<1>1. ASSUME NEW at, fds' = [fds EXCEPT ![fd].at = at]
      PROVE  Descriptors' /\ OpenFds' = OpenFds
  <2> DEFINE new(o) == [mode |-> fds[o].mode, name |-> fds[o].name,
                        at |-> IF o = fd THEN at ELSE fds[o].at]
  <2>a. \A other \in Fd : fds'[other] = new(other)
    <3> TAKE other \in Fd
    <3>1. fds[other] = [mode |-> fds[other].mode, name |-> fds[other].name, at |-> fds[other].at]
      BY DEF Descriptors
    <3>2. fds'[other] = IF other = fd THEN [fds[other] EXCEPT !.at = at] ELSE fds[other]
      BY <1>1 DEF Descriptors
    <3> QED BY <3>1, <3>2
  <2>b. fds' = [other \in Fd |-> fds'[other]]
    BY <1>1 DEF Descriptors
  <2>1. Descriptors'
    BY <2>a, <2>b DEF Descriptors
  <2>2. \A other \in Fd : fds'[other].mode = fds[other].mode
    BY <1>1 DEF Descriptors
  <2> QED BY <2>1, <2>2 DEF OpenFds, ClosedFds
<1>2. CASE UNCHANGED fds
  BY <1>2, FdsSame
<1> QED BY <1>1, <1>2 DEF FsReadByte

LEMMA FdClosed ==
    ASSUME Descriptors, NEW fd, FsClose(fd)
    PROVE  Descriptors' /\ OpenFds' = OpenFds \ {fd}
<1>1. fds' = [fds EXCEPT ![fd] = Closed]
  BY DEF FsClose
<1>2. Descriptors'
  BY <1>1 DEF Descriptors, Closed
<1>3. OpenFds' = OpenFds \ {fd}
  BY <1>1 DEF Descriptors, Closed, OpenFds, ClosedFds
<1> QED BY <1>2, <1>3

LEMMA NameRead ==
    ASSUME NEW limit, NEW wanted, NEW next, ReadName(limit, wanted, next)
    PROVE  pc = "name" /\ pc' \in {"name", "exit", next} /\ UNCHANGED diskVars
BY DEF ReadName, At, Goto

(* What is open is in the variable that is closed later. *)
HeldByTool ==
    IF pc \in {"open_dst", "give_up", "write_text", "first_byte", "show"} THEN {src}
    ELSE IF pc \in {"read", "write", "close_src"} THEN {src, dst}
    ELSE IF pc = "close_dst" THEN {dst}
    ELSE {}

ToolFds == Descriptors /\ OpenFds \subseteq HeldByTool

LEMMA ToolFdsStay ==
    ASSUME ToolFds, UNCHANGED fds, HeldByTool \subseteq HeldByTool'
    PROVE  ToolFds'
BY FdsSame DEF ToolFds

LEMMA ToolFdsOpened ==
    ASSUME ToolFds, NEW name, FsOpenRead(name) \/ FsOpenWrite(name),
           HeldByTool \subseteq HeldByTool',
           fs_error' = FS_OK => fs_result' \in HeldByTool'
    PROVE  ToolFds'
BY FdOpened DEF ToolFds

LEMMA TransferFds ==
    ASSUME ToolFds, Transfer
    PROVE  ToolFds'
<1> USE DEF At, Goto
<1>1. CASE MountThen("open_src")
  BY <1>1, ToolFdsStay DEF MountThen, FsMount, HeldByTool
<1>2. CASE OpenSource
  <2>1. HeldByTool = {} /\ (fs_error' = FS_OK => fs_result' \in HeldByTool')
    BY <1>2 DEF OpenSource, HeldByTool
  <2> QED BY <1>2, <2>1, ToolFdsOpened DEF OpenSource
<1>3. CASE OpenDestination
  <2>1. /\ HeldByTool = {src} /\ {src} \subseteq HeldByTool'
        /\ fs_error' = FS_OK => fs_result' \in HeldByTool'
    BY <1>3 DEF OpenDestination, HeldByTool
  <2> QED BY <1>3, <2>1, ToolFdsOpened DEF OpenDestination
<1>4. CASE GiveUp
  BY <1>4, FdClosed DEF GiveUp, ToolFds, HeldByTool
<1>5. CASE TransferRead
  <2>1. Descriptors' /\ OpenFds' = OpenFds
    BY <1>5, FdRead DEF TransferRead, ToolFds
  <2>2. HeldByTool' = HeldByTool
    BY <1>5 DEF TransferRead, HeldByTool
  <2> QED BY <2>1, <2>2 DEF ToolFds
<1>6. CASE TransferWrite
  BY <1>6, ToolFdsStay DEF TransferWrite, FsWriteByte, HeldByTool
<1>7. CASE CloseBoth
  <2>1. CASE pc = "close_src" /\ FsClose(src) /\ pc' = "close_dst"
    BY <1>7, <2>1, FdClosed DEF CloseBoth, toolVars, ToolFds, HeldByTool
  <2>2. CASE pc = "close_dst" /\ FsClose(dst) /\ pc' = "finish"
    BY <2>2, FdClosed DEF ToolFds, HeldByTool
  <2> QED BY <1>7, <2>1, <2>2 DEF CloseBoth
<1> QED BY <1>1, <1>2, <1>3, <1>4, <1>5, <1>6, <1>7 DEF Transfer

LEMMA FinishFds ==
    ASSUME ToolFds, pc \in {"finish", "delete"}, UNCHANGED fds
    PROVE  ToolFds'
<1>1. HeldByTool = {}
  BY DEF HeldByTool
<1> QED BY <1>1, ToolFdsStay

LEMMA NamesFds ==
    ASSUME ToolFds, NEW limit, NEW wanted, ReadName(limit, wanted, "mount")
    PROVE  ToolFds'
<1>1. HeldByTool = {} /\ UNCHANGED fds
  BY NameRead DEF HeldByTool, diskVars
<1> QED BY <1>1, ToolFdsStay

LEMMA DemoFds ==
    ASSUME ToolFds, Demo
    PROVE  ToolFds'
<1> USE DEF At, Goto
<1>1. CASE pc = "mount" /\ FsMount
  BY <1>1, ToolFdsStay DEF FsMount, HeldByTool
<1>2. CASE pc = "mkdir" /\ FsMkdir
  BY <1>2, ToolFdsStay DEF FsMkdir, HeldByTool
<1>3. ASSUME NEW place \in {"open_write", "open_read"}, NEW next \in {"write_text", "first_byte"},
             pc = place, FsOpenWrite(DemoFile) \/ FsOpenRead(DemoFile),
             src' = fs_result', pc' = IF fs_error' = FS_OK THEN next ELSE "exit"
      PROVE  ToolFds'
  <2>1. HeldByTool = {}
    BY <1>3 DEF HeldByTool
  <2>2. fs_error' = FS_OK => fs_result' \in HeldByTool'
    BY <1>3 DEF HeldByTool
  <2> QED BY <1>3, <2>1, <2>2, ToolFdsOpened
<1>4. CASE pc = "write_text" /\ UNCHANGED <<pc, src, dst>> /\ UNCHANGED fds
  BY <1>4, ToolFdsStay DEF HeldByTool
<1>5. CASE /\ pc \in {"write_text", "show"} /\ FsClose(src) /\ pc' \in {"open_read", "exit"}
  BY <1>5, FdClosed DEF ToolFds, HeldByTool
<1>6. CASE /\ pc \in {"first_byte", "show"} /\ FsReadByte(src) /\ pc' = "show"
           /\ UNCHANGED <<src, dst>>
  <2>1. Descriptors' /\ OpenFds' = OpenFds
    BY <1>6, FdRead DEF ToolFds
  <2>2. HeldByTool' = HeldByTool
    BY <1>6 DEF HeldByTool
  <2> QED BY <2>1, <2>2 DEF ToolFds
<1>7. CASE \E open \in {<<"open_write", "write_text">>, <<"open_read", "first_byte">>} :
         /\ At(open[1])
         /\ IF open[1] = "open_write" THEN FsOpenWrite(DemoFile) ELSE FsOpenRead(DemoFile)
         /\ src' = fs_result'
         /\ value' = 1
         /\ Goto(IF fs_error' = FS_OK THEN open[2] ELSE "exit")
         /\ UNCHANGED <<nameVars, dst, err, out, says, before>>
  BY <1>3, <1>7
<1>8. CASE /\ pc = "write_text"
           /\ IF value <= Len(Text)
              THEN FsWriteByte(src, Text[value]) /\ value' = value + 1 /\ UNCHANGED pc
              ELSE FsClose(src) /\ Goto("open_read") /\ UNCHANGED value
           /\ UNCHANGED <<nameVars, src, dst, err, out, says, before>>
  BY <1>4, <1>5, <1>8 DEF FsWriteByte
<1>9. CASE /\ pc = "show"
           /\ IF fs_error # FS_ERR_EOF
              THEN FsReadByte(src) /\ out' = Append(out, fs_result) /\ UNCHANGED pc
              ELSE FsClose(src) /\ Goto("exit") /\ UNCHANGED out
           /\ UNCHANGED <<nameVars, src, dst, value, err, says, before>>
  BY <1>5, <1>6, <1>9
<1>10. CASE pc = "first_byte" /\ FsReadByte(src) /\ pc' = "show" /\ UNCHANGED <<nameVars, toolVars>>
  BY <1>6, <1>10 DEF toolVars
<1> QED BY <1>1, <1>2, <1>7, <1>8, <1>9, <1>10 DEF Demo

LEMMA ToolFdsHold ==
    ASSUME ToolFds, [ToolNext]_toolAll
    PROVE  ToolFds'
<1> USE DEF At, Goto
<1>1. CASE Move
  <2>1. CASE MoveNames /\ UNCHANGED toolVars
    BY <2>1, NamesFds DEF MoveNames
  <2>2. CASE Transfer
    BY <2>2, TransferFds
  <2>3. CASE pc = "finish" /\ (FsDelete(names[1]) \/ FsDelete(names[2]))
    BY <2>3, FinishFds DEF FsDelete
  <2> QED BY <1>1, <2>1, <2>2, <2>3 DEF Move
<1>2. CASE Copy
  <2>1. CASE CopyNames /\ UNCHANGED toolVars
    BY <2>1, NamesFds DEF CopyNames
  <2>2. CASE Transfer
    BY <2>2, TransferFds
  <2>3. CASE pc = "finish" /\ (UNCHANGED diskVars \/ FsDelete(names[2]))
    BY <2>3, FinishFds DEF FsDelete, diskVars
  <2> QED BY <1>2, <2>1, <2>2, <2>3 DEF Copy
<1>3. CASE RemoveFile
  <2>1. CASE RemoveName /\ UNCHANGED toolVars
    BY <2>1, NamesFds DEF RemoveName
  <2>2. CASE MountThen("delete")
    BY <2>2, ToolFdsStay DEF MountThen, FsMount, HeldByTool
  <2>3. CASE pc = "delete" /\ FsDelete(names[1])
    BY <2>3, FinishFds DEF FsDelete
  <2> QED BY <1>3, <2>1, <2>2, <2>3 DEF RemoveFile
<1>4. CASE Cat
  <2>1. CASE CatName /\ UNCHANGED toolVars
    BY <2>1, NamesFds DEF CatName
  <2>2. CASE MountThen("read_all")
    BY <2>2, ToolFdsStay DEF MountThen, FsMount, HeldByTool
  <2>3. CASE pc = "read_all" /\ FsReadAll(names[1])
    BY <2>3, ToolFdsStay DEF FsReadAll, HeldByTool
  <2>4. CASE PrintRx("exit")
    BY <2>4, ToolFdsStay DEF PrintRx, HeldByTool
  <2> QED BY <1>4, <2>1, <2>2, <2>3, <2>4 DEF Cat
<1>5. CASE Demo
  BY <1>5, DemoFds
<1>6. CASE UNCHANGED toolAll
  BY <1>6, ToolFdsStay DEF toolAll, diskVars, toolVars, HeldByTool
<1> QED BY <1>1, <1>2, <1>3, <1>4, <1>5, <1>6 DEF ToolNext

LEMMA ToolFdsStart ==
    ASSUME DiskInit
    PROVE  ToolFds
BY NothingOpenYet DEF ToolFds

LEMMA ToolFdsEnd == ToolFds => DescriptorsClosed
BY DEF ToolFds, HeldByTool, OpenFds, ClosedFds, DescriptorsClosed

(* On every path, refusals included, each program has closed the           *)
(* descriptors it opened when it ends.                                     *)
THEOREM ToolsDescriptorsClosed == ToolSpec => []DescriptorsClosed
BY ToolFdsStart, ToolFdsHold, ToolFdsEnd, PTL DEF ToolSpec

HeldByEditor == IF pc \in {"edit", "flush"} THEN {ed_fd} ELSE {}

EditorFds == Descriptors /\ OpenFds \subseteq HeldByEditor

LEMMA EditorFdsStay ==
    ASSUME EditorFds, UNCHANGED fds, HeldByEditor \subseteq HeldByEditor'
    PROVE  EditorFds'
BY FdsSame DEF EditorFds

LEMMA EditorFdsHold ==
    ASSUME EditorFds, [EditorNext]_editorAll
    PROVE  EditorFds'
<1> USE DEF At, Goto
<1>1. CASE EditorName
  <2>1. HeldByEditor = {} /\ UNCHANGED fds
    BY <1>1, NameRead DEF EditorName, HeldByEditor, diskVars
  <2> QED BY <2>1, EditorFdsStay
<1>2. CASE EditorOpen
  <2>1. CASE pc = "mount" /\ FsMount
    BY <2>1, EditorFdsStay DEF FsMount, HeldByEditor
  <2>2. CASE pc = "mkdir" /\ FsMkdir
    BY <2>2, EditorFdsStay DEF FsMkdir, HeldByEditor
  <2>3. CASE /\ pc = "open" /\ FsOpenWrite(names[1]) /\ ed_fd' = fs_result'
             /\ pc' = IF fs_error' = FS_OK THEN "edit" ELSE "exit"
    BY <2>3, FdOpened DEF EditorFds, HeldByEditor
  <2> QED BY <1>2, <2>1, <2>2, <2>3 DEF EditorOpen
<1>3. CASE Edit
  <2>1. UNCHANGED <<fds, ed_fd>> /\ pc = "edit" /\ pc' \in {"edit", "flush"}
    BY <1>3 DEF Edit, diskVars
  <2> QED BY <2>1, EditorFdsStay DEF HeldByEditor
<1>4. CASE Flush
  <2>1. UNCHANGED <<fds, ed_fd>> /\ pc = "flush" /\ pc' \in {"edit", "flush"}
    BY <1>4 DEF Flush, FsWriteByte, diskVars
  <2> QED BY <2>1, EditorFdsStay DEF HeldByEditor
<1>5. CASE EditorClose
  BY <1>5, FdClosed DEF EditorClose, EditorFds, HeldByEditor
<1>6. CASE UNCHANGED editorAll
  BY <1>6, EditorFdsStay DEF editorAll, diskVars, editorVars, HeldByEditor
<1> QED BY <1>1, <1>2, <1>3, <1>4, <1>5, <1>6 DEF EditorNext

(* And so has the editor. *)
THEOREM EditorDescriptorsClosed == EditorSpec => []DescriptorsClosed
<1>1. DiskInit => EditorFds
  BY NothingOpenYet DEF EditorFds
<1>2. EditorFds => DescriptorsClosed
  BY DEF EditorFds, HeldByEditor, OpenFds, ClosedFds, DescriptorsClosed
<1> QED BY <1>1, <1>2, EditorFdsHold, PTL DEF EditorSpec

-----------------------------------------------------------------------------
(* Moving and copying: until the destination opens, no file has changed;   *)
(* then the destination holds what was read of the source, up to the place *)
(* of the descriptor, and all of it when the end was met.                  *)

Subject == Len(names) = 2 /\ names[1] # names[2] /\ names[1] \in DOMAIN before

Content == before[names[1]]

Preparing == {"name", "mount", "open_src", "open_dst", "give_up"}

Transferring == {"read", "write", "close_src", "close_dst", "finish"}

SourceAt(k) == src \in Fd /\ fds[src] = [mode |-> "read", name |-> names[1], at |-> k]

DestinationOpen == dst \in Fd /\ fds[dst] = [mode |-> "write", name |-> names[2], at |-> 0]

Copied(k) == Holds(names[2], SubSeq(Content, 1, k))

Moving ==
    /\ Holds(names[1], Content) /\ says # "OK"
    /\ pc = "read" => DestinationOpen /\ \E k \in 0 .. Len(Content) : SourceAt(k) /\ Copied(k)
    /\ pc = "write" =>
         /\ DestinationOpen
         /\ \E k \in 1 .. Len(Content) : SourceAt(k) /\ value = Content[k] /\ Copied(k - 1)
    /\ pc \in {"close_src", "close_dst", "finish"} /\ err = FS_ERR_EOF =>
         Holds(names[2], Content)

Transferred ==
    /\ pc \in Preparing => files = before /\ says # "OK"
    /\ pc = "open_dst" => SourceAt(0)
    /\ pc \in Transferring /\ Subject => Moving
    /\ TransferSafe

TransferInv ==
    /\ ToolFds /\ before \in FileSystem
    /\ app \in {"move", "copy"} /\ "close" \notin refused => Transferred

LEMMA FileContent ==
    ASSUME before \in FileSystem, Subject
    PROVE  Content \in Seq(Nat)
BY DEF FileSystem, Subject, Content

LEMMA ContentRead ==
    ASSUME before \in FileSystem, Subject
    PROVE  /\ SubSeq(Content, 1, 0) = <<>> /\ SubSeq(Content, 1, Len(Content)) = Content
           /\ \A k \in 1 .. Len(Content) :
                Append(SubSeq(Content, 1, k - 1), Content[k]) = SubSeq(Content, 1, k)
<1>1. Content \in Seq(Nat)
  BY FileContent
<1>2. SubSeq(Content, 1, 0) = <<>>
  BY SubSeqEmpty
<1>3. SubSeq(Content, 1, Len(Content)) = Content
  BY <1>1, SubSeqFull
<1>4. ASSUME NEW k \in 1 .. Len(Content)
      PROVE  Append(SubSeq(Content, 1, k - 1), Content[k]) = SubSeq(Content, 1, k)
  <2>1. 1 \in 1 .. Len(Content) /\ k \in 1 .. Len(Content) /\ k \in Int
    BY <1>1
  <2>2. SubSeq(Content, 1, k) = SubSeq(Content, 1, k - 1) \o <<Content[k]>>
    BY <1>1, <2>1, SubSeqRecursiveSecond
  <2>3. Content[k] \in Nat /\ \A i \in 1 .. k - 1 : Content[i] \in Nat
    BY <1>1
  <2>4. SubSeq(Content, 1, k - 1) \in Seq(Nat)
    BY <2>1, <2>3, SubSeqProperties
  <2>5. Append(SubSeq(Content, 1, k - 1), Content[k]) = SubSeq(Content, 1, k - 1) \o <<Content[k]>>
    BY <2>3, <2>4, AppendIsConcat
  <2> QED BY <2>2, <2>5
<1> QED BY <1>2, <1>3, <1>4

LEMMA SameNames ==
    ASSUME UNCHANGED <<names, before>>
    PROVE  (Subject' <=> Subject) /\ Content' = Content
BY DEF Subject, Content

(* A step that moves no byte of a file and says nothing good. *)
LEMMA PreparingStep ==
    ASSUME Transferred, pc \in Preparing, UNCHANGED <<files, before>>, says' \in {says, "?"},
           pc' \in Preparing \cup {"exit"}, pc' = "open_dst" => SourceAt(0)'
    PROVE  Transferred'
<1>1. files = before /\ says # "OK"
  BY DEF Transferred
<1>2. files' = before' /\ says' # "OK"
  BY <1>1
<1>3. TransferSafe'
  BY <1>2 DEF TransferSafe, Holds
<1>4. pc' \notin Transferring
  BY DEF Preparing, Transferring
<1> QED BY <1>2, <1>3, <1>4 DEF Transferred

LEMMA OpenSourceHolds ==
    ASSUME ToolFds, Transferred, OpenSource
    PROVE  Transferred'
<1>1. pc = "open_src" /\ UNCHANGED <<files, before, names>> /\ says' \in {says, "?"}
  BY DEF OpenSource, FsOpenRead, At, nameVars, Say
<1>2. CASE fs_error' = FS_OK
  <2>1. src' = fs_result' /\ pc' = "open_dst"
    BY <1>2 DEF OpenSource, Goto
  <2>2. PICK fd \in ClosedFds :
          /\ fds' = [fds EXCEPT ![fd] = [mode |-> "read", name |-> names[1], at |-> 0]]
          /\ fs_result' = fd
    BY <1>2 DEF OpenSource, FsOpenRead, Accept, Answer, Refuse, FS_OK, FS_ERR
  <2>3. SourceAt(0)'
    BY <1>1, <2>1, <2>2 DEF SourceAt, ToolFds, Descriptors, ClosedFds
  <2> QED BY <1>1, <2>1, <2>3, PreparingStep DEF Preparing
<1>3. CASE fs_error' # FS_OK
  <2>1. pc' = "exit"
    BY <1>3 DEF OpenSource, Goto
  <2> QED BY <1>1, <2>1, PreparingStep DEF Preparing
<1> QED BY <1>2, <1>3

LEMMA OpenDestinationHolds ==
    ASSUME ToolFds, before \in FileSystem, Transferred, OpenDestination
    PROVE  Transferred'
<1>1. /\ pc = "open_dst" /\ UNCHANGED <<before, names, src>> /\ files = before /\ says # "OK"
      /\ SourceAt(0)
  BY DEF OpenDestination, At, nameVars, Transferred, Preparing
<1>2. CASE fs_error' = FS_OK
  <2>1. dst' = fs_result' /\ pc' = "read" /\ UNCHANGED says
    BY <1>2 DEF OpenDestination, Goto
  <2>2. PICK fd \in ClosedFds :
          /\ fds' = [fds EXCEPT ![fd] = [mode |-> "write", name |-> names[2], at |-> 0]]
          /\ files' = With(names[2], <<>>)
          /\ fs_result' = fd
    BY <1>2 DEF OpenDestination, FsOpenWrite, Accept, Answer, Refuse, FS_OK, FS_ERR
  <2>3. fd # src /\ fd \in Fd
    BY <1>1 DEF SourceAt, ClosedFds
  <2>4. SourceAt(0)' /\ DestinationOpen'
    BY <1>1, <2>1, <2>2, <2>3 DEF SourceAt, DestinationOpen, ToolFds, Descriptors
  <2>5. ASSUME Subject PROVE Moving'
    <3>1. Holds(names[1], Content)
      BY <1>1, <2>5 DEF Subject, Holds, Content
    <3>2. Holds(names[1], Content)'
      BY <1>1, <2>2, <2>5, <3>1, SameNames DEF Holds, With, Subject
    <3>3. Holds(names[2], <<>>)'
      BY <1>1, <2>2 DEF Holds, With
    <3>4. Copied(0)'
      BY <1>1, <2>5, <3>3, ContentRead, SameNames DEF Copied
    <3>5. Content' \in Seq(Nat)
      BY <1>1, <2>5, FileContent, SameNames
    <3>6. 0 \in 0 .. Len(Content')
      BY <3>5
    <3> QED BY <1>1, <2>1, <2>4, <3>2, <3>4, <3>6, SameNames DEF Moving
  <2>6. TransferSafe'
    BY <1>1, <2>1, <2>5, SameNames DEF Moving, TransferSafe, Subject, Content
  <2> QED BY <1>1, <2>1, <2>5, <2>6, SameNames DEF Transferred, Preparing
<1>3. CASE fs_error' # FS_OK
  <2>1. pc' = "give_up" /\ says' = "?" /\ UNCHANGED files
    BY <1>3 DEF OpenDestination, Goto, Say, FsOpenWrite, Accept, Answer
  <2> QED BY <1>1, <2>1, PreparingStep DEF Preparing
<1> QED BY <1>2, <1>3

LEMMA GiveUpHolds ==
    ASSUME Transferred, GiveUp, "close" \notin refused'
    PROVE  Transferred'
<1>1. UNCHANGED files
  BY DEF GiveUp, FsClose, Refuse
<1>2. pc = "give_up" /\ pc' = "exit" /\ UNCHANGED <<before, says>>
  BY DEF GiveUp, At, Goto, toolVars
<1> QED BY <1>1, <1>2, PreparingStep DEF Preparing

(* While bytes are moved the source is there. *)
LEMMA MovingStep ==
    ASSUME UNCHANGED <<names, before>>, pc' \in Transferring, Subject => Moving'
    PROVE  Transferred'
<1>1. Subject' => Holds(names[1], Content)' /\ says' # "OK"
  BY SameNames DEF Moving
<1>2. TransferSafe'
  BY <1>1 DEF TransferSafe, Subject, Content
<1>3. pc' \notin Preparing
  BY DEF Preparing, Transferring
<1> QED BY <1>2, <1>3, SameNames DEF Transferred, Preparing

LEMMA TransferReadHolds ==
    ASSUME ToolFds, before \in FileSystem, Transferred, TransferRead
    PROVE  Transferred'
<1>1. pc = "read" /\ UNCHANGED <<names, before, files, src, dst, says>>
  BY DEF TransferRead, FsReadByte, At, nameVars
<1>2. pc' = (IF err' = FS_OK THEN "write" ELSE "close_src") /\ value' = fs_result' /\ err' = fs_error'
  BY DEF TransferRead, Goto
<1>3. pc' \in Transferring
  BY <1>2 DEF Transferring
<1>4. ASSUME Subject PROVE Moving'
  <2>1. /\ Holds(names[1], Content) /\ says # "OK" /\ DestinationOpen
        /\ \E k \in 0 .. Len(Content) : SourceAt(k) /\ Copied(k)
    BY <1>1, <1>4 DEF Transferred, Moving, Transferring
  <2>2. PICK k \in 0 .. Len(Content) : SourceAt(k) /\ Copied(k)
    BY <2>1
  <2>3. src # dst /\ src \in Fd /\ dst \in Fd
    BY <2>1, <2>2 DEF SourceAt, DestinationOpen
  <2>4. Len(Content) \in Nat /\ k \in Nat /\ k <= Len(Content)
    BY <1>4, FileContent
  <2>5. files[fds[src].name] = Content /\ fds[src].at = k
    BY <2>1, <2>2 DEF SourceAt, Holds
  <2>6. Holds(names[1], Content)' /\ Copied(k)' /\ says' # "OK"
    BY <1>1, <2>1, <2>2, SameNames DEF Holds, Copied
  <2>7. CASE /\ k + 1 <= Len(Content)
             /\ fds' = [fds EXCEPT ![src].at = k + 1]
             /\ Accept(Content[k + 1])
    <3>1. SourceAt(k + 1)' /\ DestinationOpen'
      BY <1>1, <2>1, <2>2, <2>3, <2>7 DEF SourceAt, DestinationOpen, ToolFds, Descriptors
    <3>2. value' = Content[k + 1] /\ pc' = "write"
      BY <1>2, <2>7 DEF Accept, Answer, FS_OK
    <3>3. k + 1 \in 1 .. Len(Content) /\ (k + 1) - 1 = k
      BY <2>4, <2>7
    <3>4. k + 1 \in 1 .. Len(Content') /\ value' = Content'[k + 1] /\ Copied((k + 1) - 1)'
      BY <1>1, <2>6, <3>2, <3>3, SameNames
    <3> QED BY <2>6, <3>1, <3>2, <3>4 DEF Moving
  <2>8. CASE k + 1 > Len(Content) /\ Answer(-1, FS_ERR_EOF)
    <3>1. k = Len(Content)
      BY <2>4, <2>8
    <3>2. Holds(names[2], Content)'
      BY <1>1, <1>4, <2>6, <3>1, ContentRead, SameNames DEF Copied
    <3>3. pc' = "close_src"
      BY <1>2, <2>8 DEF Answer, FS_OK, FS_ERR_EOF
    <3> QED BY <2>6, <3>2, <3>3 DEF Moving
  <2>9. CASE Refuse("read")
    <3>1. pc' = "close_src" /\ err' # FS_ERR_EOF
      BY <1>2, <2>9 DEF Refuse, Answer, FS_OK, FS_ERR, FS_ERR_EOF
    <3> QED BY <2>6, <3>1 DEF Moving
  <2> QED BY <2>5, <2>7, <2>8, <2>9 DEF TransferRead, FsReadByte
<1> QED BY <1>1, <1>3, <1>4, MovingStep

LEMMA TransferWriteHolds ==
    ASSUME before \in FileSystem, Transferred, TransferWrite
    PROVE  Transferred'
<1>1. pc = "write" /\ UNCHANGED <<names, before, fds, src, dst, says>>
  BY DEF TransferWrite, FsWriteByte, At, nameVars
<1>2. pc' = (IF err' = FS_OK THEN "read" ELSE "close_src") /\ err' = fs_error'
  BY DEF TransferWrite, Goto
<1>3. pc' \in Transferring
  BY <1>2 DEF Transferring
<1>4. ASSUME Subject PROVE Moving'
  <2>1. /\ Holds(names[1], Content) /\ says # "OK" /\ DestinationOpen
        /\ \E k \in 1 .. Len(Content) : SourceAt(k) /\ value = Content[k] /\ Copied(k - 1)
    BY <1>1, <1>4 DEF Transferred, Moving, Transferring
  <2>2. PICK k \in 1 .. Len(Content) : SourceAt(k) /\ value = Content[k] /\ Copied(k - 1)
    BY <2>1
  <2>3. SourceAt(k)' /\ DestinationOpen' /\ says' # "OK"
    BY <1>1, <2>1, <2>2 DEF SourceAt, DestinationOpen
  <2>4. Holds(names[2], SubSeq(Content, 1, k - 1)) /\ fds[dst].name = names[2]
    BY <2>1, <2>2 DEF Copied, DestinationOpen
  <2>5. CASE files' = [files EXCEPT ![names[2]] = Append(@, value)] /\ Accept(1)
    <3>1. Holds(names[1], Content)'
      BY <1>1, <1>4, <2>1, <2>5, SameNames DEF Holds, Subject
    <3>2. Holds(names[2], SubSeq(Content, 1, k))'
      BY <1>1, <1>4, <2>2, <2>4, <2>5, ContentRead, SameNames DEF Holds
    <3>3. pc' = "read"
      BY <1>2, <2>5 DEF Accept, Answer
    <3>4. k \in 0 .. Len(Content)
      BY <1>4, FileContent
    <3>5. k \in 0 .. Len(Content') /\ Copied(k)'
      BY <1>1, <3>2, <3>4, SameNames DEF Copied
    <3> QED BY <2>3, <3>1, <3>3, <3>5 DEF Moving
  <2>6. CASE Refuse("write") /\ UNCHANGED files
    <3>1. pc' = "close_src" /\ err' # FS_ERR_EOF
      BY <1>2, <2>6 DEF Refuse, Answer, FS_OK, FS_ERR, FS_ERR_EOF
    <3>2. Holds(names[1], Content)'
      BY <1>1, <2>1, <2>6, SameNames DEF Holds
    <3> QED BY <2>3, <3>1, <3>2 DEF Moving
  <2> QED BY <2>4, <2>5, <2>6 DEF TransferWrite, FsWriteByte
<1> QED BY <1>1, <1>3, <1>4, MovingStep

LEMMA CloseBothHolds ==
    ASSUME Transferred, CloseBoth, "close" \notin refused'
    PROVE  Transferred'
<1>1. UNCHANGED files
  BY DEF CloseBoth, FsClose, Refuse
<1>2. /\ pc \in {"close_src", "close_dst"} /\ pc' \in {"close_dst", "finish"}
      /\ UNCHANGED <<names, before, err, says>>
  BY DEF CloseBoth, At, Goto, nameVars, toolVars
<1>3. ASSUME Subject PROVE Moving'
  BY <1>1, <1>2, <1>3, SameNames DEF Transferred, Transferring, Moving, Holds
<1> QED BY <1>2, <1>3, MovingStep DEF Transferring

(* Ending: only what the end of the transfer leaves matters.               *)
LEMMA LastStep ==
    ASSUME pc' = "exit", UNCHANGED <<names, before>>, Subject => TransferSafe'
    PROVE  Transferred'
<1>1. TransferSafe'
  BY SameNames DEF TransferSafe, Subject
<1> QED BY <1>1 DEF Transferred, Preparing, Transferring

LEMMA MoveFinishes ==
    ASSUME before \in FileSystem, Transferred, At("finish"), Goto("exit"), UNCHANGED <<names, before>>,
           app' = "move",
           IF err = FS_ERR_EOF
           THEN FsDelete(names[1]) /\ Say(IF fs_error' = FS_OK THEN "OK" ELSE "?")
           ELSE FsDelete(names[2]) /\ Say("?")
    PROVE  Transferred'
<1>1. pc = "finish" /\ pc' = "exit"
  BY DEF At, Goto
<1>2. ASSUME Subject PROVE TransferSafe'
  <2>1. Holds(names[1], Content) /\ (err = FS_ERR_EOF => Holds(names[2], Content))
    BY <1>1, <1>2 DEF Transferred, Transferring, Moving
  <2>2. CASE err = FS_ERR_EOF
    <3>1. Holds(names[2], Content)'
      BY <1>2, <2>1, <2>2, SameNames DEF FsDelete, Holds, Subject
    <3> QED BY <3>1 DEF TransferSafe, Content
  <2>3. CASE err # FS_ERR_EOF
    <3>1. Holds(names[1], Content)' /\ says' = "?"
      BY <1>2, <2>1, <2>3, SameNames DEF FsDelete, Holds, Subject, Say
    <3> QED BY <3>1 DEF TransferSafe, Content
  <2> QED BY <2>2, <2>3
<1> QED BY <1>1, <1>2, LastStep

LEMMA CopyFinishes ==
    ASSUME before \in FileSystem, Transferred, At("finish"), Goto("exit"), UNCHANGED <<names, before>>,
           IF err = FS_ERR_EOF
           THEN UNCHANGED diskVars /\ Say("OK")
           ELSE FsDelete(names[2]) /\ Say("?")
    PROVE  Transferred'
<1>1. pc = "finish" /\ pc' = "exit"
  BY DEF At, Goto
<1>2. ASSUME Subject PROVE TransferSafe'
  <2>1. Holds(names[1], Content) /\ (err = FS_ERR_EOF => Holds(names[2], Content))
    BY <1>1, <1>2 DEF Transferred, Transferring, Moving
  <2>2. CASE err = FS_ERR_EOF
    <3>1. Holds(names[1], Content)' /\ Holds(names[2], Content)'
      BY <2>1, <2>2, SameNames DEF Holds, diskVars
    <3> QED BY <3>1 DEF TransferSafe, Content
  <2>3. CASE err # FS_ERR_EOF
    <3>1. Holds(names[1], Content)' /\ says' = "?"
      BY <1>2, <2>1, <2>3, SameNames DEF FsDelete, Holds, Subject, Say
    <3> QED BY <3>1 DEF TransferSafe, Content
  <2> QED BY <2>2, <2>3
<1> QED BY <1>1, <1>2, LastStep

(* A refusal is never forgotten.                                           *)
LEMMA RefusedGrows ==
    ASSUME Move \/ Copy, "close" \notin refused'
    PROVE  "close" \notin refused
<1>1. CASE ReadName(23, 2, "mount")
  BY <1>1 DEF ReadName, diskVars
<1>2. CASE Transfer
  BY <1>2 DEF Transfer, MountThen, FsMount, OpenSource, FsOpenRead, OpenDestination, FsOpenWrite,
              GiveUp, FsClose, TransferRead, FsReadByte, TransferWrite, FsWriteByte, CloseBoth,
              Accept, Refuse
<1>3. ASSUME NEW name, FsDelete(name) PROVE "close" \notin refused
  BY <1>3 DEF FsDelete, Accept, Refuse
<1> QED BY <1>1, <1>2, <1>3 DEF Move, Copy, MoveNames, CopyNames, diskVars

LEMMA NamingHolds ==
    ASSUME Transferred, ReadName(23, 2, "mount"), UNCHANGED toolVars
    PROVE  Transferred'
<1>1. /\ pc = "name" /\ pc' \in {"name", "mount", "exit"}
      /\ UNCHANGED <<files, before, says>>
  BY DEF ReadName, At, Goto, diskVars, toolVars
<1> QED BY <1>1, PreparingStep DEF Preparing

LEMMA TransferHolds ==
    ASSUME ToolFds, before \in FileSystem, Transferred, Transfer, "close" \notin refused'
    PROVE  Transferred'
<1>1. CASE MountThen("open_src")
  <2>1. pc = "mount" /\ pc' = "open_src" /\ UNCHANGED <<files, before, says>>
    BY <1>1 DEF MountThen, FsMount, At, Goto, toolVars
  <2> QED BY <2>1, PreparingStep DEF Preparing
<1> QED BY <1>1, OpenSourceHolds, OpenDestinationHolds, GiveUpHolds, TransferReadHolds,
           TransferWriteHolds, CloseBothHolds DEF Transfer

LEMMA BeforeKept ==
    ASSUME [ToolNext]_toolAll
    PROVE  UNCHANGED <<app, before>>
<1>1. CASE ToolNext
  <2> USE <1>1
  <2>1. CASE Move
    BY <2>1 DEF ToolNext, Move, Transfer, MountThen, OpenSource, OpenDestination, GiveUp,
                TransferRead, TransferWrite, CloseBoth, toolVars
  <2>2. CASE Copy
    BY <2>2 DEF ToolNext, Copy, Transfer, MountThen, OpenSource, OpenDestination, GiveUp,
                TransferRead, TransferWrite, CloseBoth, toolVars
  <2>3. CASE RemoveFile
    BY <2>3 DEF ToolNext, RemoveFile, MountThen, toolVars
  <2>4. CASE Cat
    BY <2>4 DEF ToolNext, Cat, MountThen, PrintRx, toolVars
  <2>5. CASE Demo
    BY <2>5 DEF ToolNext, Demo, toolVars
  <2> QED BY <2>1, <2>2, <2>3, <2>4, <2>5 DEF ToolNext
<1>2. CASE UNCHANGED toolAll
  BY <1>2 DEF toolAll, toolVars
<1> QED BY <1>1, <1>2

LEMMA TransferInvHolds ==
    ASSUME TransferInv, [ToolNext]_toolAll
    PROVE  TransferInv'
<1>1. ToolFds' /\ UNCHANGED <<app, before>>
  BY ToolFdsHold, BeforeKept DEF TransferInv
<1>2. ASSUME app \in {"move", "copy"}, "close" \notin refused' PROVE Transferred'
  <2>1. CASE ToolNext
    <3>1. (app = "move" /\ Move) \/ (app = "copy" /\ Copy)
      BY <1>2, <2>1 DEF ToolNext
    <3>2. ToolFds /\ before \in FileSystem /\ Transferred
      BY <1>2, <3>1, RefusedGrows DEF TransferInv
    <3>3. CASE app = "move" /\ Move
      <4>1. CASE ReadName(23, 2, "mount") /\ UNCHANGED toolVars
        BY <3>2, <4>1, NamingHolds
      <4>2. CASE Transfer
        BY <1>2, <3>2, <4>2, TransferHolds
      <4>3. CASE ~ Transfer /\ ~ (ReadName(23, 2, "mount") /\ UNCHANGED toolVars)
        <5>1. UNCHANGED <<names, before>>
          BY <1>1, <3>3, <4>3 DEF Move, MoveNames, nameVars
        <5> QED BY <1>1, <3>2, <3>3, <4>3, <5>1, MoveFinishes DEF Move, MoveNames
      <4> QED BY <4>1, <4>2, <4>3
    <3>4. CASE app = "copy" /\ Copy
      <4>1. CASE ReadName(23, 2, "mount") /\ UNCHANGED toolVars
        BY <3>2, <4>1, NamingHolds
      <4>2. CASE Transfer
        BY <1>2, <3>2, <4>2, TransferHolds
      <4>3. CASE ~ Transfer /\ ~ (ReadName(23, 2, "mount") /\ UNCHANGED toolVars)
        <5>1. UNCHANGED <<names, before>>
          BY <1>1, <3>4, <4>3 DEF Copy, CopyNames, nameVars
        <5> QED BY <3>2, <3>4, <4>3, <5>1, CopyFinishes DEF Copy, CopyNames
      <4> QED BY <4>1, <4>2, <4>3
    <3> QED BY <3>1, <3>3, <3>4
  <2>2. CASE UNCHANGED toolAll
    <3>1. UNCHANGED <<app, pc, files, fds, refused, names, src, dst, value, err, says, before>>
      BY <2>2 DEF toolAll, diskVars, nameVars, toolVars
    <3>2. Transferred
      BY <1>2, <3>1 DEF TransferInv
    <3> QED BY <3>1, <3>2 DEF Transferred, Moving, SourceAt, DestinationOpen, Copied, Holds,
                              Subject, Content, TransferSafe
  <2> QED BY <2>1, <2>2
<1>3. before' \in FileSystem
  BY <1>1 DEF TransferInv, FileSystem
<1> QED BY <1>1, <1>2, <1>3 DEF TransferInv

LEMMA TransferStarts ==
    ASSUME pc = IF app = "demo" THEN "mount" ELSE "name", files \in FileSystem, DiskInit, NameInit, ToolInit
    PROVE  TransferInv
<1>1. ToolFds
  BY ToolFdsStart
<1>2. before \in FileSystem /\ files = before /\ says # "OK" /\ pc \in {"mount", "name"}
  BY DEF ToolInit
<1>3. TransferSafe
  BY <1>2 DEF TransferSafe, Holds
<1>4. Transferred
  BY <1>2, <1>3 DEF Transferred, Transferring, Preparing
<1> QED BY <1>1, <1>2, <1>4 DEF TransferInv

LEMMA TransferGuards == TransferInv => TransferSafe
<1>1. CASE app \in {"move", "copy"} /\ "close" \notin refused
  BY <1>1 DEF TransferInv, Transferred
<1>2. CASE ~ (app \in {"move", "copy"} /\ "close" \notin refused)
  BY <1>2 DEF TransferSafe
<1> QED BY <1>1, <1>2

(* Whatever the disk refuses, except a close, no file is lost or cut by    *)
(* moving or copying it to another name, and "OK" means it is there.       *)
THEOREM ToolsTransferSafe == ToolSpec => []TransferSafe
BY TransferStarts, TransferInvHolds, TransferGuards, PTL DEF ToolSpec

-----------------------------------------------------------------------------
(* The editor: what was written and what is still to be written of the     *)
(* line make the text.                                                     *)

LineLeft == ed_line \o (IF ed_newline THEN <<CR, LF>> ELSE <<>>)

Saved == files[names[1]]

WritesFile ==
    /\ ed_fd \in Fd /\ fds[ed_fd].name = names[1]
    /\ names[1] \in DOMAIN files /\ Saved \in Seq(Nat)

EditorTypes ==
    /\ ed_line \in Seq(Nat) /\ keys \in Nat /\ ed_i \in Nat /\ ed_newline \in BOOLEAN
    /\ pc \in {"edit", "flush"} => WritesFile

Faithful ==
    /\ text \in Seq(Nat)
    /\ pc \notin {"edit", "flush", "exit"} => ed_line = <<>> /\ text = <<>> /\ ~ed_done
    /\ pc = "edit" => Saved \o ed_line = text /\ (ed_done => ed_line = <<>>)
    /\ pc = "flush" =>
         /\ ed_i \in 0 .. Len(LineLeft)
         /\ Saved \o SubSeq(LineLeft, ed_i + 1, Len(LineLeft)) = text

EditorInv ==
    /\ EditorFds /\ EditorTypes
    /\ pc # "exit" => ed_says # "SALVO"
    /\ refused = {} => Faithful
    /\ EditorSaves

LEMMA LastWritten ==
    ASSUME NEW f \in Seq(Nat), NEW x \in Nat, NEW l \in Seq(Nat)
    PROVE  /\ f \o Append(l, x) = Append(f \o l, x)
           /\ Append(f, x) \o l = f \o (<<x>> \o l)
<1>1. <<x>> \in Seq(Nat) /\ f \o l \in Seq(Nat)
  BY ConcatProperties
<1>2. Append(l, x) = l \o <<x>> /\ Append(f \o l, x) = (f \o l) \o <<x>> /\ Append(f, x) = f \o <<x>>
  BY <1>1, AppendIsConcat
<1>3. f \o (l \o <<x>>) = (f \o l) \o <<x>>
  BY <1>1, ConcatAssociative
<1>4. (f \o <<x>>) \o l = f \o (<<x>> \o l)
  BY <1>1, ConcatAssociative
<1> QED BY ONLY <1>2, <1>3, <1>4

LEMMA NextByte ==
    ASSUME NEW r \in Seq(Nat), NEW i \in Nat, i < Len(r)
    PROVE  r[i + 1] \in Nat /\ i + 1 \in 1 .. Len(r) /\ i + 1 \in 0 .. Len(r)
<1>1. Len(r) \in Nat /\ \A k \in 1 .. Len(r) : r[k] \in Nat
  BY ElementOfSeq, LenProperties
<1> QED BY ONLY <1>1, i < Len(r), i \in Nat

LEMMA NextWritten ==
    ASSUME NEW f \in Seq(Nat), NEW r \in Seq(Nat), NEW i \in 0 .. Len(r)
    PROVE  /\ i < Len(r) => /\ r[i + 1] \in Nat
                            /\ Append(f, r[i + 1]) \o SubSeq(r, (i + 1) + 1, Len(r))
                               = f \o SubSeq(r, i + 1, Len(r))
           /\ ~(i < Len(r)) => f \o SubSeq(r, i + 1, Len(r)) = f
<1>1. Len(r) \in Nat /\ i \in Nat /\ i <= Len(r)
  OBVIOUS
<1>2. ASSUME i < Len(r)
      PROVE  /\ r[i + 1] \in Nat
             /\ Append(f, r[i + 1]) \o SubSeq(r, (i + 1) + 1, Len(r)) = f \o SubSeq(r, i + 1, Len(r))
  <2>0. i + 1 \in 1 .. Len(r) /\ Len(r) \in (i + 1) .. Len(r)
    BY <1>1, <1>2
  <2> \A k \in 1 .. Len(r) : r[k] \in Nat
    BY ElementOfSeq
  <2>1. i + 1 \in 1 .. Len(r) /\ Len(r) \in (i + 1) .. Len(r) /\ r[i + 1] \in Nat
    BY <2>0
  <2>2. SubSeq(r, i + 1, Len(r)) = <<r[i + 1]>> \o SubSeq(r, (i + 1) + 1, Len(r))
    BY <2>1, SubSeqRecursiveFirst
  <2>3. \A j \in (i + 1) + 1 .. Len(r) : r[j] \in Nat
    BY <1>1
  <2>4. (i + 1) + 1 \in Int /\ Len(r) \in Int
    BY <1>1
  <2>5. SubSeq(r, (i + 1) + 1, Len(r)) \in Seq(Nat)
    BY <2>3, <2>4, SubSeqProperties
  <2>6. Append(f, r[i + 1]) \o SubSeq(r, (i + 1) + 1, Len(r))
        = f \o (<<r[i + 1]>> \o SubSeq(r, (i + 1) + 1, Len(r)))
    BY <2>1, <2>5, LastWritten
  <2> QED BY ONLY <2>1, <2>2, <2>6
<1>3. ASSUME ~(i < Len(r)) PROVE f \o SubSeq(r, i + 1, Len(r)) = f
  <2>1. i + 1 \in Int /\ Len(r) \in Int /\ Len(r) < i + 1
    BY <1>1, <1>3
  <2>2. SubSeq(r, i + 1, Len(r)) = <<>>
    BY <2>1, SubSeqEmpty
  <2> QED BY <2>2, ConcatEmptySeq
<1> QED BY <1>2, <1>3

LEMMA FrontIs ==
    ASSUME NEW s \in Seq(Nat), s # <<>>
    PROVE  /\ Front(s) \in Seq(Nat) /\ Len(Front(s)) = Len(s) - 1
           /\ \A i \in 1 .. Len(s) - 1 : Front(s)[i] = s[i]
<1> DEFINE m == Len(s)
<1>1. m \in Nat /\ m # 0
  BY EmptySeq
<1>2. \A i \in 1 .. m : s[i] \in Nat
  BY ElementOfSeq
<1> HIDE DEF m
<1>3. 1 \in Int /\ m - 1 \in Int /\ \A i \in 1 .. m - 1 : s[i] \in Nat
  BY <1>1, <1>2
<1> DEFINE t == SubSeq(s, 1, m - 1)
<1>4. /\ t \in Seq(Nat)
      /\ Len(t) = IF 1 <= m - 1 THEN (m - 1) - 1 + 1 ELSE 0
      /\ \A i \in 1 .. (m - 1) - 1 + 1 : t[i] = s[1 + i - 1]
  BY <1>3, SubSeqProperties
<1> HIDE DEF t
<1>5. Len(t) = m - 1 /\ \A i \in 1 .. m - 1 : t[i] = s[i]
  <2>1. (IF 1 <= m - 1 THEN (m - 1) - 1 + 1 ELSE 0) = m - 1 /\ (m - 1) - 1 + 1 = m - 1
    BY <1>1
  <2>2. \A i \in 1 .. m - 1 : 1 + i - 1 = i
    BY <1>1
  <2> QED BY <1>4, <2>1, <2>2
<1> QED BY <1>4, <1>5 DEF Front, t, m

LEMMA LastErased ==
    ASSUME NEW f \in Seq(Nat), NEW l \in Seq(Nat), l # <<>>
    PROVE  /\ Front(l) \in Seq(Nat) /\ Front(f \o l) \in Seq(Nat)
           /\ f \o Front(l) = Front(f \o l)
<1> DEFINE t == f \o l  m == Len(f)  k == Len(l)  g == Front(l)  u == f \o g  v == Front(t)
<1>1. /\ t \in Seq(Nat) /\ Len(t) = m + k
      /\ \A i \in 1 .. m + k : t[i] = IF i <= m THEN f[i] ELSE l[i - m]
  BY ConcatProperties
<1>2. m \in Nat /\ k \in Nat /\ k # 0
  BY EmptySeq
<1>3. t # <<>>
  BY <1>1, <1>2, EmptySeq
<1>4. g \in Seq(Nat) /\ Len(g) = k - 1 /\ \A i \in 1 .. k - 1 : g[i] = l[i]
  BY FrontIs
<1>5. v \in Seq(Nat) /\ Len(v) = Len(t) - 1 /\ \A i \in 1 .. Len(t) - 1 : v[i] = t[i]
  BY <1>1, <1>3, FrontIs
<1>6. /\ u \in Seq(Nat) /\ Len(u) = m + Len(g)
      /\ \A i \in 1 .. m + Len(g) : u[i] = IF i <= m THEN f[i] ELSE g[i - m]
  BY <1>4, ConcatProperties
<1> HIDE DEF t, m, k, g, u, v
<1>7. Len(u) = Len(v)
  BY <1>1, <1>2, <1>4, <1>5, <1>6
<1>8. ASSUME NEW i \in 1 .. Len(u) PROVE u[i] = v[i]
  <2>1. i \in 1 .. m + k /\ i \in 1 .. m + Len(g) /\ i \in 1 .. Len(t) - 1
    BY <1>1, <1>2, <1>4, <1>6
  <2>2. ~(i <= m) => i - m \in 1 .. k - 1
    BY <1>1, <1>2, <2>1
  <2> QED BY <1>1, <1>4, <1>5, <1>6, <2>1, <2>2
<1>9. u = v
  BY <1>5, <1>6, <1>7, <1>8, SeqEqual
<1> QED BY <1>4, <1>5, <1>9 DEF t, g, u, v

LEMMA LineEnds ==
    ASSUME NEW f \in Seq(Nat), NEW l \in Seq(Nat), NEW r \in Seq(Nat)
    PROVE  /\ l \o r \in Seq(Nat) /\ 0 \in 0 .. Len(l \o r)
           /\ f \o SubSeq(l \o r, 0 + 1, Len(l \o r)) = (f \o l) \o r
           /\ f \o l \in Seq(Nat)
<1>1. l \o r \in Seq(Nat)
  BY ConcatProperties
<1>2. SubSeq(l \o r, 1, Len(l \o r)) = l \o r
  BY <1>1, SubSeqFull
<1>3. f \o (l \o r) = (f \o l) \o r
  BY ONLY f \in Seq(Nat), l \in Seq(Nat), r \in Seq(Nat), ConcatAssociative, SMTT(30)
<1>4. 0 + 1 = 1
  OBVIOUS
<1>5. f \o l \in Seq(Nat)
  BY ConcatProperties
<1>6. 0 \in 0 .. Len(l \o r)
  <2>1. Len(l \o r) \in Nat
    BY <1>1, LenProperties
  <2> QED BY ONLY <2>1
<1> QED BY ONLY <1>1, <1>2, <1>3, <1>4, <1>5, <1>6

LEMMA EditorNames ==
    ASSUME EditorInv, EditorName, EditorFds'
    PROVE  EditorInv'
<1>1. /\ pc = "name" /\ pc' \in {"name", "mount", "exit"}
      /\ UNCHANGED <<refused, editorVars>>
  BY DEF EditorName, ReadName, At, Goto, diskVars
<1>2. ed_says # "SALVO"
  BY <1>1 DEF EditorInv
<1>3. EditorTypes'
  BY <1>1 DEF EditorInv, EditorTypes, editorVars
<1>4. refused' = {} => Faithful'
  BY <1>1 DEF EditorInv, Faithful, editorVars
<1> QED BY <1>1, <1>2, <1>3, <1>4 DEF EditorInv, EditorSaves, editorVars

LEMMA EditorOpens ==
    ASSUME EditorInv, EditorOpen, EditorFds'
    PROVE  EditorInv'
<1>1. /\ pc \in {"mount", "mkdir", "open"} /\ ed_says # "SALVO"
      /\ UNCHANGED <<names, ed_line, ed_i, ed_newline, ed_done, text, keys>>
  BY DEF EditorOpen, At, nameVars, EditorInv
<1>2. refused' = {} => ed_line = <<>> /\ text = <<>> /\ ~ed_done
  BY <1>1 DEF EditorInv, Faithful, EditorOpen, FsMount, FsMkdir, FsOpenWrite, Accept, Refuse
<1>3. ed_line' \in Seq(Nat) /\ keys' \in Nat /\ ed_i' \in Nat /\ ed_newline' \in BOOLEAN
  BY <1>1 DEF EditorInv, EditorTypes
<1>4. CASE pc' \in {"mkdir", "open", "exit"} /\ ed_says' \in {ed_says, "ERRO"}
  <2>1. EditorTypes'
    BY <1>3, <1>4 DEF EditorTypes
  <2>2. refused' = {} => Faithful'
    BY <1>1, <1>2, <1>4 DEF Faithful
  <2> QED BY <1>1, <1>4, <2>1, <2>2 DEF EditorInv, EditorSaves
<1>5. CASE /\ pc' = "edit" /\ UNCHANGED ed_says /\ ed_fd' = fs_result'
           /\ fs_error' = FS_OK /\ FsOpenWrite(names[1])
  <2>1. PICK fd \in ClosedFds :
          /\ fds' = [fds EXCEPT ![fd] = [mode |-> "write", name |-> names[1], at |-> 0]]
          /\ files' = With(names[1], <<>>)
          /\ fs_result' = fd
    BY <1>5 DEF FsOpenWrite, Accept, Answer, Refuse, FS_OK, FS_ERR
  <2>2. <<>> \in Seq(Nat)
    OBVIOUS
  <2>3. Saved' = <<>> /\ WritesFile'
    BY <1>1, <1>5, <2>1, <2>2 DEF WritesFile, Saved, With, ClosedFds, EditorInv, EditorFds, Descriptors
  <2>4. EditorTypes'
    BY <1>3, <1>5, <2>3 DEF EditorTypes
  <2>5. <<>> \o <<>> = <<>>
    BY <2>2, ConcatEmptySeq
  <2>6. refused' = {} => Faithful'
    BY <1>1, <1>2, <1>5, <2>3, <2>5 DEF Faithful
  <2> QED BY <1>1, <1>5, <2>4, <2>6 DEF EditorInv, EditorSaves
<1> QED BY <1>4, <1>5 DEF EditorOpen, At, Goto

LEMMA EditorEdits ==
    ASSUME EditorInv, Edit, EditorFds'
    PROVE  EditorInv'
<1>1. /\ pc = "edit" /\ ~ed_done /\ keys' = keys + 1
      /\ UNCHANGED <<files, fds, refused, names, ed_fd, ed_says>>
  BY DEF Edit, At, diskVars, nameVars
<1>2. /\ ed_line \in Seq(Nat) /\ keys \in Nat /\ ed_i \in Nat /\ ed_newline \in BOOLEAN
      /\ WritesFile /\ Saved \in Seq(Nat) /\ ed_says # "SALVO"
  BY <1>1 DEF EditorInv, EditorTypes, WritesFile
<1>3. WritesFile' /\ Saved' = Saved /\ keys' \in Nat /\ 100 + keys \in Nat
  BY <1>1, <1>2 DEF WritesFile, Saved
<1>4. refused' = {} => text \in Seq(Nat) /\ Saved \o ed_line = text
  BY <1>1 DEF EditorInv, Faithful
<1>5. CASE /\ ed_line' = Append(ed_line, 100 + keys) /\ text' = Append(text, 100 + keys)
           /\ UNCHANGED <<pc, ed_i, ed_newline, ed_done>>
  <2>1. ed_line' \in Seq(Nat)
    BY <1>2, <1>3, <1>5, AppendProperties
  <2>2. Saved \o Append(ed_line, 100 + keys) = Append(Saved \o ed_line, 100 + keys)
    BY <1>2, <1>3, LastWritten
  <2>3. refused' = {} => text' \in Seq(Nat)
    BY <1>3, <1>4, <1>5, AppendProperties
  <2>4. EditorTypes'
    BY <1>1, <1>2, <1>3, <1>5, <2>1 DEF EditorTypes
  <2>5. refused' = {} => Faithful'
    BY <1>1, <1>3, <1>4, <1>5, <2>2, <2>3 DEF Faithful
  <2> QED BY <1>1, <1>2, <2>4, <2>5 DEF EditorInv, EditorSaves
<1>6. CASE /\ ed_line # <<>> /\ ed_line' = Front(ed_line) /\ text' = Front(text)
           /\ UNCHANGED <<pc, ed_i, ed_newline, ed_done>>
  <2>1. ed_line' \in Seq(Nat)
    BY <1>2, <1>6, LastErased
  <2>2. Front(Saved \o ed_line) \in Seq(Nat) /\ Saved \o Front(ed_line) = Front(Saved \o ed_line)
    BY <1>2, <1>6, LastErased
  <2>3. EditorTypes'
    BY <1>1, <1>2, <1>3, <1>6, <2>1 DEF EditorTypes
  <2>4. refused' = {} => Faithful'
    BY <1>1, <1>3, <1>4, <1>6, <2>2 DEF Faithful
  <2> QED BY <1>1, <1>2, <2>3, <2>4 DEF EditorInv, EditorSaves
<1>7. CASE /\ ed_i' = 0 /\ ed_newline' = TRUE /\ text' = text \o <<CR, LF>> /\ pc' = "flush"
           /\ UNCHANGED ed_line
  <2> DEFINE end == <<CR, LF>>
  <2>3. end \in Seq(Nat)
    BY DEF CR, LF
  <2>1. end \in Seq(Nat) /\ LineLeft' = ed_line \o end
    BY <1>7, <2>3 DEF LineLeft
  <2>0. text' = text \o end
    BY ONLY <1>7
  <2> HIDE DEF end
  <2>2. /\ 0 \in 0 .. Len(ed_line \o end)
        /\ Saved \o SubSeq(ed_line \o end, 0 + 1, Len(ed_line \o end)) = (Saved \o ed_line) \o end
    <3>1. ed_line \in Seq(Nat) /\ Saved \in Seq(Nat)
      BY ONLY <1>2
    <3> QED BY ONLY <2>3, <3>1, LineEnds, ZenonT(60)
  <2>6. EditorTypes'
    BY <1>1, <1>2, <1>3, <1>7 DEF EditorTypes
  <2>4. refused' = {} => text' \in Seq(Nat)
    BY <1>4, <2>0, <2>1, ConcatProperties
  <2>5. refused' = {} => Faithful'
    BY <1>1, <1>3, <1>4, <1>7, <2>0, <2>1, <2>2, <2>4 DEF Faithful
  <2> QED BY <1>1, <1>2, <1>7, <2>5, <2>6 DEF EditorInv, EditorSaves
<1>8. CASE /\ ed_i' = 0 /\ ed_newline' = FALSE /\ ed_done' = TRUE /\ pc' = "flush"
           /\ UNCHANGED <<ed_line, text>>
  <2>1. <<>> \in Seq(Nat) /\ LineLeft' = ed_line \o <<>>
    BY <1>8 DEF LineLeft
  <2>2. /\ 0 \in 0 .. Len(ed_line \o <<>>)
        /\ Saved \o SubSeq(ed_line \o <<>>, 0 + 1, Len(ed_line \o <<>>)) = (Saved \o ed_line) \o <<>>
        /\ Saved \o ed_line \in Seq(Nat)
    BY <1>2, <2>1, LineEnds
  <2>3. (Saved \o ed_line) \o <<>> = Saved \o ed_line
    BY <2>2, ConcatEmptySeq
  <2>4. EditorTypes'
    BY <1>1, <1>2, <1>3, <1>8 DEF EditorTypes
  <2>5. refused' = {} => Faithful'
    BY <1>1, <1>3, <1>4, <1>8, <2>1, <2>2, <2>3 DEF Faithful
  <2> QED BY <1>1, <1>2, <1>8, <2>4, <2>5 DEF EditorInv, EditorSaves
<1> QED BY <1>1, <1>5, <1>6, <1>7, <1>8 DEF Edit, Goto

LEMMA EditorFlushes ==
    ASSUME EditorInv, Flush, EditorFds'
    PROVE  EditorInv'
<1>1. /\ pc = "flush" /\ ed_says # "SALVO"
      /\ UNCHANGED <<fds, names, ed_newline, ed_fd, text, keys>>
  BY DEF Flush, At, nameVars, diskVars, FsWriteByte, EditorInv
<1>2. /\ ed_line \in Seq(Nat) /\ keys \in Nat /\ ed_i \in Nat /\ ed_newline \in BOOLEAN
      /\ WritesFile /\ Saved \in Seq(Nat) /\ fds[ed_fd].name = names[1]
  BY <1>1 DEF EditorInv, EditorTypes, WritesFile
<1>3. LineLeft \in Seq(Nat)
  <2>1. (IF ed_newline THEN <<CR, LF>> ELSE <<>>) \in Seq(Nat)
    BY <1>2 DEF CR, LF
  <2> QED BY <1>2, <2>1, ConcatProperties DEF LineLeft
<1>4. refused = {} => /\ text \in Seq(Nat) /\ ed_i \in 0 .. Len(LineLeft)
                      /\ Saved \o SubSeq(LineLeft, ed_i + 1, Len(LineLeft)) = text
  BY <1>1 DEF EditorInv, Faithful
<1>5. CASE ed_i < Len(LineLeft)
  <2>1. /\ FsWriteByte(ed_fd, LineLeft[ed_i + 1]) /\ ed_i' = ed_i + 1 /\ UNCHANGED ed_line
        /\ IF fs_error' = FS_OK
           THEN UNCHANGED <<pc, ed_done, ed_says>>
           ELSE pc' = "edit" /\ ed_done' = TRUE /\ ed_says' = "ERRO"
    BY <1>5 DEF Flush, LineLeft, Goto
  <2>2. CASE /\ files' = [files EXCEPT ![names[1]] = Append(@, LineLeft[ed_i + 1])]
             /\ Accept(1)
    <3>1. Saved' = Append(Saved, LineLeft[ed_i + 1]) /\ UNCHANGED <<refused, pc, ed_done, ed_says>>
      BY <1>1, <1>2, <2>1, <2>2 DEF Saved, WritesFile, Accept, Answer, FS_OK
    <3>2. LineLeft' = LineLeft
      BY <1>1, <2>1 DEF LineLeft
    <3>3. LineLeft[ed_i + 1] \in Nat
      BY <1>2, <1>3, <1>5, NextByte
    <3>4. Saved' \in Seq(Nat)
      BY <1>2, <3>1, <3>3, AppendProperties
    <3>5. WritesFile' /\ EditorTypes'
      BY <1>1, <1>2, <2>1, <2>2, <3>4 DEF WritesFile, EditorTypes
    <3>6. ASSUME refused' = {} PROVE Faithful'
      <4>1. ed_i \in 0 .. Len(LineLeft) /\ Saved \o SubSeq(LineLeft, ed_i + 1, Len(LineLeft)) = text /\ text \in Seq(Nat)
        BY <1>4, <3>1, <3>6
      <4>2. Append(Saved, LineLeft[ed_i + 1]) \o SubSeq(LineLeft, (ed_i + 1) + 1, Len(LineLeft))
            = Saved \o SubSeq(LineLeft, ed_i + 1, Len(LineLeft))
        BY <1>2, <1>3, <1>5, <4>1, NextWritten
      <4>3. ed_i + 1 \in 0 .. Len(LineLeft)
        BY <1>2, <1>3, <1>5, NextByte
      <4>4. Saved' \o SubSeq(LineLeft', ed_i' + 1, Len(LineLeft')) = text' /\ ed_i' \in 0 .. Len(LineLeft')
        BY <1>1, <2>1, <3>1, <3>2, <4>1, <4>2, <4>3
      <4> QED BY <1>1, <3>1, <4>1, <4>4 DEF Faithful
    <3> QED BY <1>1, <3>1, <3>5, <3>6 DEF EditorInv, EditorSaves
  <2>3. CASE Refuse("write") /\ UNCHANGED files
    <3>1. pc' = "edit" /\ refused' # {} /\ ed_says' = "ERRO"
      BY <2>1, <2>3 DEF Refuse, Answer, FS_OK, FS_ERR
    <3>2. EditorTypes'
      BY <1>1, <1>2, <2>1, <2>3 DEF EditorTypes, WritesFile, Saved
    <3> QED BY <3>1, <3>2 DEF EditorInv, EditorSaves
  <2> QED BY <1>2, <2>1, <2>2, <2>3 DEF FsWriteByte
<1>6. CASE ~(ed_i < Len(LineLeft))
  <2>1. /\ ed_line' = <<>> /\ pc' = "edit"
        /\ UNCHANGED <<files, refused, ed_i, ed_done, ed_says>>
    BY <1>6 DEF Flush, LineLeft, Goto, diskVars
  <2>2. Saved' = Saved /\ EditorTypes'
    BY <1>1, <1>2, <2>1 DEF EditorTypes, WritesFile, Saved
  <2>3. ASSUME refused' = {} PROVE Faithful'
    <3>1. /\ ed_i \in 0 .. Len(LineLeft) /\ Saved \o SubSeq(LineLeft, ed_i + 1, Len(LineLeft)) = text
          /\ text \in Seq(Nat)
      BY <1>4, <2>1, <2>3
    <3>2. Saved \o SubSeq(LineLeft, ed_i + 1, Len(LineLeft)) = Saved
      BY <1>2, <1>3, <1>6, <3>1, NextWritten
    <3>3. Saved \o <<>> = Saved
      BY <1>2, ConcatEmptySeq
    <3> QED BY <1>1, <2>1, <2>2, <3>1, <3>2, <3>3 DEF Faithful
  <2> QED BY <1>1, <2>1, <2>2, <2>3 DEF EditorInv, EditorSaves
<1> QED BY <1>5, <1>6

LEMMA EditorCloses ==
    ASSUME EditorInv, EditorClose, EditorFds'
    PROVE  EditorInv'
<1>1. /\ pc = "edit" /\ ed_done /\ pc' = "exit" /\ UNCHANGED <<names, ed_line, ed_i, ed_newline, text, keys>>
  BY DEF EditorClose, At, Goto, nameVars
<1>2. EditorTypes'
  BY <1>1 DEF EditorInv, EditorTypes
<1>3. ASSUME refused' = {} PROVE Saved' = text /\ text \in Seq(Nat)
  <2>1. UNCHANGED <<refused, files>>
    BY <1>3 DEF EditorClose, FsClose, Accept, Refuse
  <2>2. Saved \o ed_line = text /\ ed_line = <<>> /\ text \in Seq(Nat) /\ Saved \in Seq(Nat)
    BY <1>1, <1>3, <2>1 DEF EditorInv, Faithful, EditorTypes, WritesFile
  <2>3. Saved \o <<>> = Saved
    BY <2>2, ConcatEmptySeq
  <2> QED BY <1>1, <2>1, <2>2, <2>3 DEF Saved
<1>4. (refused' = {} => Faithful') /\ EditorSaves'
  BY <1>1, <1>3 DEF Faithful, EditorSaves, Saved
<1> QED BY <1>1, <1>2, <1>4 DEF EditorInv

LEMMA EditorInvHolds ==
    ASSUME EditorInv, [EditorNext]_editorAll
    PROVE  EditorInv'
<1>1. EditorFds'
  BY EditorFdsHold DEF EditorInv
<1>2. CASE UNCHANGED editorAll
  BY <1>1, <1>2 DEF editorAll, diskVars, nameVars, editorVars, EditorInv, EditorTypes, WritesFile,
                    Faithful, Saved, LineLeft, EditorSaves
<1> QED BY <1>1, <1>2, EditorNames, EditorOpens, EditorEdits, EditorFlushes, EditorCloses DEF EditorNext

LEMMA EditorStarts ==
    ASSUME pc = "name", DiskInit, EditorInit
    PROVE  EditorInv
<1>1. EditorFds /\ <<>> \in Seq(Nat)
  BY NothingOpenYet DEF EditorFds
<1>2. EditorTypes /\ Faithful /\ EditorSaves /\ ed_says # "SALVO"
  BY <1>1 DEF EditorInit, EditorTypes, Faithful, EditorSaves
<1> QED BY <1>1, <1>2 DEF EditorInv

(* When the disk refuses nothing, a saved file has what the user typed,    *)
(* with what was erased left out, each line once and in order.             *)
THEOREM EditorSavesText == EditorSpec => []EditorSaves
<1>1. EditorInv => EditorSaves
  BY DEF EditorInv
<1> QED BY <1>1, EditorStarts, EditorInvHolds, PTL DEF EditorSpec

-----------------------------------------------------------------------------
(* The shells: the array holds the text on the screen and then a zero,     *)
(* whatever lies behind it.                                                *)

(* A text as the array has it: letters, then a zero. *)
Row(l, txt, size) ==
    /\ size \in 0 .. SHELL_MAX_LINE
    /\ \A i \in 1 .. size : l[i - 1] = txt[i] /\ txt[i] \in 32 .. 126
    /\ l[size] = 0

(* The characters of a text after the first from, up to place to. *)
Between(txt, from, to) == SubSeq(txt, from + 1, to)

ShellLine ==
    /\ line \in [0 .. SHELL_MAX_LINE -> Nat]
    /\ typed \in Seq(Nat) /\ line_len = Len(typed)
    /\ Row(line, typed, line_len)

LineInv == ShellLine /\ AnswersLine

LEMMA LeastOf ==
    ASSUME NEW T, T \subseteq Nat, T # {}
    PROVE  \E m \in T : \A k \in T : m <= k
<1> DEFINE R == OpToRel(<, Nat)
<1>1. IsWellFoundedOn(R, Nat)
  BY NatLessThanWellFounded
<1> HIDE DEF R
<1>2. PICK m \in T : \A k \in T : <<k, m>> \notin R
  BY <1>1, WFMin
<1>3. ASSUME NEW k \in T PROVE m <= k
  <2>1. <<k, m>> \in Nat \X Nat /\ ~(k < m)
    BY <1>2, <1>3 DEF R, OpToRel
  <2>2. k \in Nat /\ m \in Nat
    OBVIOUS
  <2> QED BY <2>1, <2>2
<1> QED BY <1>3

(* A place before the zero, with none of the codes up to it, is the first. *)
LEMMA FirstFound ==
    ASSUME NEW l, NEW pos \in Nat, NEW codes, NEW e \in Nat,
           pos <= e, e <= SHELL_MAX_LINE, l[e] \in codes,
           \A j \in pos .. e - 1 : l[j] \notin codes
    PROVE  FirstOf(l, pos, codes) = e
<1> DEFINE P(i) == l[i] \in codes /\ \A j \in pos .. i - 1 : l[j] \notin codes
<1>1. SHELL_MAX_LINE \in Nat
  BY LineShellAssumption
<1>2. e \in pos .. SHELL_MAX_LINE /\ P(e)
  BY <1>1
<1>3. ASSUME NEW i \in pos .. SHELL_MAX_LINE, P(i) PROVE i = e
  <2>1. ~(i < e)
    BY <1>1, <1>3
  <2>2. ~(e < i)
    BY <1>1, <1>3
  <2> QED BY <1>1, <2>1, <2>2
<1> HIDE DEF P
<1>4. (CHOOSE i \in pos .. SHELL_MAX_LINE : P(i)) = e
  BY <1>2, <1>3
<1> QED BY <1>4 DEF FirstOf, P

LEMMA EndFound ==
    ASSUME NEW l, NEW txt, NEW size, Row(l, txt, size), NEW pos \in 0 .. size
    PROVE  FirstOf(l, pos, {0}) = size
<1>1. size \in Nat /\ pos \in Nat /\ pos <= size /\ size <= SHELL_MAX_LINE /\ l[size] \in {0}
  BY LineShellAssumption DEF Row
<1>2. ASSUME NEW j \in pos .. size - 1 PROVE l[j] \notin {0}
  <2>1. j + 1 \in 1 .. size /\ (j + 1) - 1 = j
    BY <1>1
  <2>2. l[j] = txt[j + 1] /\ txt[j + 1] \in 32 .. 126
    BY <2>1 DEF Row
  <2> QED BY <2>2
<1> QED BY <1>1, <1>2, FirstFound

LEMMA SliceIs ==
    ASSUME NEW l, NEW txt, NEW size, Row(l, txt, size), NEW pos, pos \in 0 .. size, NEW end, end \in pos .. size
    PROVE  Slice(l, pos, end) = Between(txt, pos, end) /\ Slice(l, pos, end) \in Seq(Nat)
<1> DEFINE s == Slice(l, pos, end)  t == SubSeq(txt, pos + 1, end)  m == end - pos
<1>1. size \in Nat /\ pos \in Nat /\ end \in Nat /\ pos <= end /\ end <= size /\ m \in Nat
  BY LineShellAssumption DEF Row
<1>2. ASSUME NEW k \in 1 .. m
      PROVE  l[pos + k - 1] = txt[pos + k] /\ txt[pos + k] \in Nat
  <2>1. pos + k \in 1 .. size /\ (pos + k) - 1 = pos + k - 1
    BY <1>1
  <2>2. l[(pos + k) - 1] = txt[pos + k] /\ txt[pos + k] \in 32 .. 126
    BY <2>1 DEF Row
  <2> QED BY <2>1, <2>2
<1>3. s = [k \in 1 .. m |-> l[pos + k - 1]]
  BY DEF Slice
<1>4. s \in [1 .. m -> Nat]
  BY <1>2, <1>3
<1>5. s \in Seq(Nat) /\ Len(s) = m
  BY <1>1, <1>4, SeqDef
<1>6. \A i \in pos + 1 .. end : txt[i] \in Nat
  <2>1. ASSUME NEW i \in pos + 1 .. end PROVE txt[i] \in Nat
    <3>1. i - pos \in 1 .. m /\ pos + (i - pos) = i
      BY <1>1
    <3> QED BY <1>2, <3>1
  <2> QED BY <2>1
<1>7. pos + 1 \in Int /\ end \in Int
  BY <1>1
<1>8. /\ t \in Seq(Nat) /\ Len(t) = IF pos + 1 <= end THEN end - (pos + 1) + 1 ELSE 0
      /\ \A i \in 1 .. end - (pos + 1) + 1 : t[i] = txt[(pos + 1) + i - 1]
  BY <1>6, <1>7, SubSeqProperties
<1> HIDE DEF s, t
<1>9. Len(t) = m
  BY <1>1, <1>8
<1>10. ASSUME NEW k \in 1 .. m PROVE s[k] = t[k]
  <2>1. k \in 1 .. end - (pos + 1) + 1 /\ (pos + 1) + k - 1 = pos + k
    BY <1>1
  <2> QED BY <1>2, <1>3, <1>8, <2>1
<1>11. s = t
  BY <1>5, <1>8, <1>9, <1>10, SeqEqual
<1> QED BY <1>5, <1>11 DEF s, t, Between

LEMMA PrintsFrom ==
    ASSUME NEW l, NEW txt, NEW size, Row(l, txt, size), NEW pos \in 0 .. size
    PROVE  sh_print_from(l, pos) = Between(txt, pos, size)
<1>1. size \in pos .. size
  BY LineShellAssumption DEF Row
<1>2. FirstOf(l, pos, {0}) = size
  BY EndFound
<1>3. Slice(l, pos, size) = Between(txt, pos, size)
  BY <1>1, SliceIs
<1> QED BY <1>2, <1>3 DEF sh_print_from

LEMMA RowLength ==
    ASSUME NEW l, NEW txt, NEW size, Row(l, txt, size)
    PROVE  /\ size \in Nat /\ size <= SHELL_MAX_LINE /\ l[size] = 0
           /\ \A i \in 0 .. size - 1 : l[i] = txt[i + 1] /\ l[i] # 0
           /\ \A i \in 1 .. size : l[i - 1] = txt[i] /\ txt[i] \in 32 .. 126
<1>1. size \in Nat /\ size <= SHELL_MAX_LINE
  BY LineShellAssumption DEF Row
<1>2. ASSUME NEW i \in 0 .. size - 1 PROVE l[i] = txt[i + 1] /\ l[i] # 0
  <2>1. i + 1 \in 1 .. size /\ (i + 1) - 1 = i
    BY <1>1
  <2>2. l[(i + 1) - 1] = txt[i + 1] /\ txt[i + 1] \in 32 .. 126
    BY <2>1 DEF Row
  <2> QED BY <2>1, <2>2
<1> QED BY <1>1, <1>2 DEF Row

(* Comparing with the array up to the zero is comparing with the text.     *)
LEMMA StartsWith ==
    ASSUME NEW l, NEW txt, NEW size, Row(l, txt, size),
           NEW w, Len(w) \in Nat, \A k \in 1 .. Len(w) : w[k] \in 32 .. 126
    PROVE  sh_startswith(l, w) <=> (Len(w) <= size /\ \A k \in 1 .. Len(w) : txt[k] = w[k])
<1> DEFINE m == Len(w)
<1>1. m \in Nat /\ \A k \in 1 .. m : w[k] \in 32 .. 126
  OBVIOUS
<1> HIDE DEF m
<1>2. ASSUME m <= SHELL_MAX_LINE, \A k \in 1 .. m : l[k - 1] = w[k]
      PROVE  m <= size /\ \A k \in 1 .. m : txt[k] = w[k]
  <2>1. m <= size
    <3>1. SUFFICES ASSUME size < m PROVE FALSE
      BY <1>1, RowLength
    <3>2. size + 1 \in 1 .. m /\ (size + 1) - 1 = size
      BY <1>1, <3>1, RowLength
    <3>3. l[(size + 1) - 1] = w[size + 1] /\ w[size + 1] \in 32 .. 126
      BY <1>1, <1>2, <3>2
    <3>4. l[size] \in 32 .. 126
      BY <3>2, <3>3
    <3>5. l[size] = 0
      BY RowLength
    <3> QED BY ONLY <3>4, <3>5
  <2>2. \A k \in 1 .. m : k \in 1 .. size
    BY <1>1, <2>1, RowLength
  <2> QED BY <1>2, <2>1, <2>2, RowLength
<1>3. ASSUME m <= size, \A k \in 1 .. m : txt[k] = w[k]
      PROVE  m <= SHELL_MAX_LINE /\ \A k \in 1 .. m : l[k - 1] = w[k]
  <2>1. m <= SHELL_MAX_LINE
    BY <1>1, <1>3, LineShellAssumption, RowLength
  <2>2. \A k \in 1 .. m : k \in 1 .. size
    BY <1>1, <1>3, RowLength
  <2> QED BY <1>3, <2>1, <2>2, RowLength
<1> QED BY <1>2, <1>3 DEF sh_startswith, m

LEMMA SameText ==
    ASSUME NEW l, NEW txt \in Seq(Nat), Row(l, txt, Len(txt)),
           NEW w \in Seq(Nat), \A k \in 1 .. Len(w) : w[k] \in 32 .. 126
    PROVE  sh_streq(l, w) <=> txt = w
<1> DEFINE m == Len(w)  size == Len(txt)
<1>1. m \in Nat /\ Row(l, txt, size)
  BY LenProperties
<1>2. sh_startswith(l, w) <=> (m <= size /\ \A k \in 1 .. m : txt[k] = w[k])
  BY <1>1, StartsWith
<1>3. ASSUME sh_startswith(l, w), l[m] = 0 PROVE txt = w
  <2> HIDE DEF m, size
  <2>1. m <= size /\ \A k \in 1 .. m : txt[k] = w[k]
    BY <1>2, <1>3
  <2>2. ~(m < size)
    BY <1>1, <1>3, RowLength
  <2>3. size = m
    BY <1>1, <2>1, <2>2, RowLength
  <2>4. Len(txt) = Len(w) /\ \A k \in 1 .. Len(txt) : txt[k] = w[k]
    BY <2>1, <2>3 DEF m, size
  <2> QED BY <2>4, SeqEqual
<1>4. ASSUME txt = w PROVE sh_startswith(l, w) /\ l[m] = 0
  <2>1. m = size
    BY <1>4
  <2> HIDE DEF m, size
  <2>2. m <= size /\ l[m] = 0
    BY <1>1, <2>1, RowLength
  <2> QED BY <1>2, <1>4, <2>2
<1> QED BY <1>3, <1>4 DEF sh_streq

LEMMA PrefixIs ==
    ASSUME NEW txt \in Seq(Nat), NEW w \in Seq(Nat)
    PROVE  IsPrefix(w, txt) <=> (Len(w) <= Len(txt) /\ \A k \in 1 .. Len(w) : txt[k] = w[k])
<1> DEFINE m == Len(w)  a == SubSeq(w, 1, m)  b == SubSeq(txt, 1, m)
<1>1. m \in Nat /\ Len(txt) \in Nat
  BY LenProperties
<1>2. a = w
  BY SubSeqFull
<1>3. ASSUME m <= Len(txt)
      PROVE  b \in Seq(Nat) /\ Len(b) = m /\ \A k \in 1 .. m : b[k] = txt[k]
  <2>1. \A k \in 1 .. Len(txt) : txt[k] \in Nat
    BY ElementOfSeq
  <2> HIDE DEF m
  <2>2. 1 \in Int /\ m \in Int /\ \A k \in 1 .. m : txt[k] \in Nat
    BY <1>1, <1>3, <2>1
  <2>3. /\ SubSeq(txt, 1, m) \in Seq(Nat)
        /\ Len(SubSeq(txt, 1, m)) = IF 1 <= m THEN m - 1 + 1 ELSE 0
        /\ \A k \in 1 .. m - 1 + 1 : SubSeq(txt, 1, m)[k] = txt[1 + k - 1]
    BY <2>2, SubSeqProperties
  <2> HIDE DEF b
  <2>4. b \in Seq(Nat) /\ Len(b) = (IF 1 <= m THEN m - 1 + 1 ELSE 0)
        /\ \A k \in 1 .. m - 1 + 1 : b[k] = txt[1 + k - 1]
    BY ONLY <2>3 DEF b
  <2>5. (IF 1 <= m THEN m - 1 + 1 ELSE 0) = m /\ m - 1 + 1 = m /\ \A k \in 1 .. m : 1 + k - 1 = k
    BY ONLY <1>1
  <2> QED BY ONLY <2>4, <2>5
<1> HIDE DEF a, b
<1>4. m <= Len(txt) => (a = b <=> \A k \in 1 .. m : txt[k] = w[k])
  <2> SUFFICES ASSUME m <= Len(txt) PROVE a = b <=> \A k \in 1 .. m : txt[k] = w[k]
    OBVIOUS
  <2>1. b \in Seq(Nat) /\ Len(b) = m /\ \A k \in 1 .. m : b[k] = txt[k]
    BY <1>3
  <2>2. ASSUME \A k \in 1 .. m : txt[k] = w[k] PROVE w = b
    <3>1. Len(w) = Len(b) /\ \A k \in 1 .. Len(w) : w[k] = b[k]
      BY <2>1, <2>2
    <3> QED BY <2>1, <3>1, SeqEqual
  <2>3. ASSUME w = b PROVE \A k \in 1 .. m : txt[k] = w[k]
    BY <2>1, <2>3
  <2> QED BY <1>2, <2>2, <2>3
<1> QED BY <1>4 DEF IsPrefix, a, b

(* The first word of a text, and where the array has its end.              *)
FirstEnd(txt, e) ==
    /\ e \in 0 .. Len(txt) /\ \A j \in 1 .. e : txt[j] # Space
    /\ e = Len(txt) \/ txt[e + 1] = Space

LEMMA FirstEndIs ==
    ASSUME NEW txt \in Seq(Nat)
    PROVE  \E e \in Nat : FirstEnd(txt, e)
<1> DEFINE size == Len(txt)  ends == {k \in 1 .. size : txt[k] = Space}
<1>1. size \in Nat
  BY LenProperties
<1>2. CASE ends = {}
  <2>1. size \in 0 .. size /\ \A j \in 1 .. size : txt[j] # Space
    BY <1>1, <1>2
  <2>2. FirstEnd(txt, size)
    BY <2>1 DEF FirstEnd
  <2> QED BY <1>1, <2>2
<1>3. CASE ends # {}
  <2>1. ends \subseteq Nat
    OBVIOUS
  <2> HIDE DEF ends
  <2>2. PICK m \in ends : \A k \in ends : m <= k
    BY <1>3, <2>1, LeastOf
  <2>3. m \in 1 .. size /\ txt[m] = Space /\ \A k \in 1 .. size : txt[k] = Space => m <= k
    BY <2>2 DEF ends
  <2> HIDE DEF size
  <2>4. m - 1 \in 0 .. size /\ (m - 1) + 1 = m
    BY <1>1, <2>3
  <2>5. ASSUME NEW j \in 1 .. m - 1 PROVE txt[j] # Space
    <3>1. j \in 1 .. size /\ ~(m <= j)
      BY <1>1, <2>3
    <3> QED BY <2>3, <3>1
  <2>6. FirstEnd(txt, m - 1)
    BY <2>3, <2>4, <2>5 DEF FirstEnd, size
  <2>7. m - 1 \in Nat
    BY <1>1, <2>4
  <2> QED BY <2>6, <2>7
<1> QED BY <1>2, <1>3

LEMMA FirstWordIs ==
    ASSUME NEW txt \in Seq(Nat), NEW e, FirstEnd(txt, e)
    PROVE  /\ FirstWord(txt) = Between(txt, 0, e) /\ Between(txt, 0, e) \in Seq(Nat)
           /\ Len(Between(txt, 0, e)) = e
<1> DEFINE size == Len(txt)  ends == {k \in 1 .. size : txt[k] = Space}
<1>1. size \in Nat /\ e \in Nat /\ e <= size
  BY LenProperties DEF FirstEnd
<1>2. \A k \in 1 .. size : txt[k] \in Nat
  BY ElementOfSeq
<1>3. SubSeq(txt, 1, size) = txt
  BY SubSeqFull
<1> HIDE DEF size
<1>4. \A j \in 1 .. e : j \in 1 .. size /\ txt[j] \in Nat
  BY <1>1, <1>2
<1>5. (\A j \in 1 .. e : txt[j] # Space) /\ (e = size \/ txt[e + 1] = Space)
  BY DEF FirstEnd, size
<1> DEFINE u == SubSeq(txt, 1, e)
<1>8. u \in Seq(Nat) /\ Len(u) = e
  <2>1. 1 \in Int /\ e \in Int /\ \A i \in 1 .. e : txt[i] \in Nat
    BY <1>1, <1>4
  <2>2. SubSeq(txt, 1, e) \in Seq(Nat) /\ Len(SubSeq(txt, 1, e)) = IF 1 <= e THEN e - 1 + 1 ELSE 0
    BY <2>1, SubSeqProperties
  <2> HIDE DEF u
  <2>3. u \in Seq(Nat) /\ Len(u) = IF 1 <= e THEN e - 1 + 1 ELSE 0
    BY ONLY <2>2 DEF u
  <2>4. (IF 1 <= e THEN e - 1 + 1 ELSE 0) = e
    BY ONLY <1>1
  <2> QED BY ONLY <2>3, <2>4
<1>9. Between(txt, 0, e) = u
  BY DEF Between
<1> HIDE DEF u
<1>6. CASE ends = {}
  <2>1. e = size
    <3>1. SUFFICES ASSUME e # size PROVE FALSE
      OBVIOUS
    <3>2. e + 1 \in 1 .. size /\ txt[e + 1] = Space
      BY <1>1, <1>5, <3>1
    <3> QED BY <1>6, <3>2
  <2>2. FirstWord(txt) = txt
    BY <1>6 DEF FirstWord, size
  <2>3. FirstWord(txt) = u
    BY <1>3, <2>1, <2>2 DEF u
  <2> QED BY <1>8, <1>9, <2>3
<1>7. CASE ends # {}
  <2>1. e + 1 \in ends /\ \A k \in ends : e + 1 <= k
    <3>1. PICK k \in ends : TRUE
      BY <1>7
    <3>2. ASSUME NEW j \in ends PROVE j >= e + 1
      <4>1. j \in Nat /\ j \in 1 .. size /\ txt[j] = Space
        BY <1>1
      <4> QED BY <1>1, <1>5, <4>1
    <3>3. e # size
      BY <1>1, <3>1, <3>2
    <3>4. e + 1 \in ends
      BY <1>1, <1>5, <3>3
    <3>5. \A j \in ends : j \in Nat
      BY <1>1
    <3> QED BY <1>1, <3>2, <3>4, <3>5
  <2> DEFINE P(k) == \A j \in ends : k <= j
  <2>2. \A k \in ends : P(k) => k = e + 1
    BY <1>1, <2>1
  <2>3. (CHOOSE k \in ends : P(k)) = e + 1
    BY <2>1, <2>2
  <2>4. FirstWord(txt) = SubSeq(txt, 1, (e + 1) - 1)
    BY <1>7, <2>3, Zenon DEF FirstWord, size
  <2>5. (e + 1) - 1 = e
    BY <1>1
  <2>6. FirstWord(txt) = u
    BY ONLY <2>4, <2>5 DEF u
  <2> QED BY <1>8, <1>9, <2>6
<1> QED BY <1>6, <1>7

LEMMA FirstSlice ==
    ASSUME NEW l, NEW txt, NEW size, Row(l, txt, size), NEW e \in 0 .. size
    PROVE  Slice(l, 0, e) = Between(txt, 0, e)
<1>1. PICK pos \in 0 .. size : pos = 0
  BY RowLength
<1>2. e \in pos .. size
  BY <1>1
<1>3. Slice(l, pos, e) = Between(txt, pos, e)
  BY <1>2, SliceIs
<1> QED BY <1>1, <1>3

LEMMA WordEndIs ==
    ASSUME NEW l, NEW txt, Len(txt) \in Nat, Row(l, txt, Len(txt)), NEW e, FirstEnd(txt, e)
    PROVE  /\ WordEnd(l) = e /\ Slice(l, 0, e) = Between(txt, 0, e)
           /\ IF l[e] = Space THEN e + 1 \in 0 .. Len(txt) ELSE e = Len(txt)
<1> DEFINE size == Len(txt)
<1>1. Row(l, txt, size) /\ size \in Nat
  OBVIOUS
<1>2. /\ e \in 0 .. size /\ \A j \in 1 .. e : txt[j] # Space
      /\ e = size \/ txt[e + 1] = Space
  BY DEF FirstEnd
<1> HIDE DEF size
<1>3. e \in Nat /\ 0 <= e /\ e <= SHELL_MAX_LINE /\ 0 \in Nat
  BY <1>1, <1>2, LineShellAssumption, RowLength
<1>4. l[e] \in {0, Space} /\ (IF l[e] = Space THEN e + 1 \in 0 .. size ELSE e = size)
  <2>1. CASE e = size
    <3>1. l[e] = 0
      BY <1>1, <2>1, RowLength
    <3> QED BY <2>1, <3>1 DEF Space
  <2>2. CASE e # size
    <3>1. e \in 0 .. size - 1 /\ e + 1 \in 0 .. size /\ txt[e + 1] = Space
      BY <1>1, <1>2, <2>2
    <3>2. l[e] = txt[e + 1]
      BY <1>1, <3>1, RowLength
    <3> QED BY <3>1, <3>2
  <2> QED BY <2>1, <2>2
<1>5. ASSUME NEW j \in 0 .. e - 1 PROVE l[j] \notin {0, Space}
  <2>1. j \in 0 .. size - 1 /\ j + 1 \in 1 .. e
    BY <1>1, <1>2
  <2> QED BY <1>1, <1>2, <2>1, RowLength
<1>6. FirstOf(l, 0, {0, Space}) = e
  BY <1>3, <1>4, <1>5, FirstFound
<1>7. 0 \in 0 .. size /\ e \in 0 .. size
  BY <1>1, <1>2
<1>8. Slice(l, 0, e) = Between(txt, 0, e)
  BY <1>1, <1>7, FirstSlice
<1> QED BY <1>4, <1>6, <1>8 DEF WordEnd, size

Answers(reply, txt) ==
    IF Meaning(txt) = {} THEN reply = Reply(Unknown, txt) ELSE reply \in Meaning(txt)

LEMMA Answered ==
    ASSUME NEW txt, NEW w \in Words \cup {EchoWord}, Names(w, txt)
    PROVE  Answers(Reply(w, IF w = EchoWord THEN After(FirstWord(txt), txt) ELSE Silent), txt)
BY DEF Answers, Meaning

LEMMA NotKnown ==
    ASSUME NEW txt, \A w \in Words \cup {EchoWord} : ~ Names(w, txt)
    PROVE  Answers(Reply(Unknown, txt), txt)
BY DEF Answers, Meaning

LEMMA RowZero ==
    ASSUME NEW txt \in Seq(Nat)
    PROVE  0 \in 0 .. Len(txt)
<1>1. Len(txt) \in Nat
  BY LenProperties
<1> QED BY ONLY <1>1

LEMMA WholeText ==
    ASSUME NEW txt \in Seq(Nat)
    PROVE  Between(txt, 0, Len(txt)) = txt
<1>1. SubSeq(txt, 1, Len(txt)) = txt
  BY SubSeqFull
<1> QED BY <1>1 DEF Between

(* What an echo prints: the text after the first word and its space.       *)
LEMMA EchoPrints ==
    ASSUME NEW l, NEW txt \in Seq(Nat), Row(l, txt, Len(txt)), NEW e, FirstEnd(txt, e)
    PROVE  /\ e + 1 \in 0 .. Len(txt) => sh_print_from(l, e + 1) = After(FirstWord(txt), txt)
           /\ e = Len(txt) => sh_print_from(l, e) = After(FirstWord(txt), txt)
<1> DEFINE size == Len(txt)  w == FirstWord(txt)
<1>1. size \in Nat /\ e \in Nat /\ Row(l, txt, size)
  BY LenProperties DEF FirstEnd
<1>2. Len(w) = e
  BY FirstWordIs
<1> HIDE DEF w, size
<1>3. ASSUME e + 1 \in 0 .. size PROVE sh_print_from(l, e + 1) = After(w, txt)
  <2>1. sh_print_from(l, e + 1) = Between(txt, e + 1, size)
    BY <1>1, <1>3, PrintsFrom
  <2>2. (e + 1) + 1 = Len(w) + 2
    BY <1>1, <1>2
  <2>3. Between(txt, e + 1, size) = SubSeq(txt, (e + 1) + 1, size)
    BY DEF Between
  <2>4. After(w, txt) = SubSeq(txt, Len(w) + 2, size)
    BY DEF After, size
  <2> QED BY <2>1, <2>2, <2>3, <2>4, Zenon
<1>4. ASSUME e = size PROVE sh_print_from(l, e) = After(w, txt)
  <2>1. sh_print_from(l, e) = Between(txt, e, size)
    BY <1>1, <1>4, PrintsFrom
  <2>2. e + 1 \in Int /\ size \in Int /\ size < e + 1 /\ Len(w) + 2 \in Int /\ size < Len(w) + 2
    BY <1>1, <1>2, <1>4
  <2>3. SubSeq(txt, e + 1, size) = <<>> /\ SubSeq(txt, Len(w) + 2, size) = <<>>
    BY <2>2, SubSeqEmpty
  <2> QED BY <2>1, <2>3, Zenon DEF Between, After, size
<1> QED BY <1>3, <1>4 DEF w, size

LEMMA Letter == \A c \in 33 .. 126 : c # Space /\ c \in 32 .. 126
BY DEF Space

(* The shell that compares letter by letter.                               *)
LEMMA ShellAnswers ==
    ASSUME app = "shell", NEW l, NEW txt \in Seq(Nat), Row(l, txt, Len(txt))
    PROVE  Answers(sh_handle_command(l), txt)
<1>1. ASSUME NEW w \in Words \cup {EchoWord}
      PROVE  w \in Seq(Nat) /\ Len(w) \in Nat /\ \A k \in 1 .. Len(w) : w[k] \in 33 .. 126
  <2>1. w \in Seq(33 .. 126)
    BY LineShellAssumption
  <2>2. w \in Seq(Nat)
    <3>1. 33 .. 126 \subseteq Nat
      OBVIOUS
    <3>2. Seq(33 .. 126) \subseteq Seq(Nat)
      BY <3>1, SeqMonotonic
    <3> QED BY <2>1, <3>2, Zenon
  <2> QED BY <2>1, <2>2, ElementOfSeq, LenProperties
<1>2. \A w \in Words : Names(w, txt) <=> txt = w
  BY LineShellAssumption DEF Names
<1>3. \A w \in Words : sh_streq(l, w) <=> txt = w
  <2> TAKE w \in Words
  <2>1. w \in Seq(Nat) /\ \A k \in 1 .. Len(w) : w[k] \in 32 .. 126
    BY <1>1
  <2> QED BY <2>1, SameText
<1> DEFINE v == Append(EchoWord, Space)  m == Len(EchoWord)
<1>4. /\ v \in Seq(Nat) /\ Len(v) = m + 1 /\ m \in Nat
      /\ \A k \in 1 .. m : v[k] = EchoWord[k] /\ EchoWord[k] \in 33 .. 126
      /\ v[m + 1] = Space
  <2>1. EchoWord \in Seq(Nat) /\ Space \in Nat
    BY <1>1 DEF Space
  <2> QED BY <1>1, <2>1, AppendProperties
<1>5. Names(EchoWord, txt) <=> IsPrefix(v, txt)
  BY DEF Names
<1> HIDE DEF v, m
<1>6. Len(v) \in Nat /\ \A k \in 1 .. Len(v) : v[k] \in 32 .. 126
  <2>1. ASSUME NEW k \in 1 .. m + 1 PROVE v[k] \in 32 .. 126
    <3>1. CASE k = m + 1
      <4>1. v[k] = 32
        BY ONLY <1>4, <3>1 DEF Space
      <4> QED BY ONLY <4>1
    <3>2. CASE k # m + 1
      <4>1. k \in 1 .. m
        BY <1>4, <3>2
      <4>2. v[k] \in 33 .. 126
        BY <1>4, <4>1
      <4> QED BY <4>2, Letter, Zenon
    <3> QED BY <3>1, <3>2
  <2> QED BY <1>4, <2>1
<1>7. sh_startswith(l, v) <=> IsPrefix(v, txt)
  <2>1. sh_startswith(l, v) <=> (Len(v) <= Len(txt) /\ \A k \in 1 .. Len(v) : txt[k] = v[k])
    BY <1>6, StartsWith
  <2>2. IsPrefix(v, txt) <=> (Len(v) <= Len(txt) /\ \A k \in 1 .. Len(v) : txt[k] = v[k])
    BY <1>4, PrefixIs
  <2> QED BY <2>1, <2>2
<1>8. CASE \E w \in Words : sh_streq(l, w)
  <2> DEFINE w == CHOOSE u \in Words : sh_streq(l, u)
  <2>1. w \in Words /\ sh_streq(l, w)
    BY <1>8
  <2> HIDE DEF w
  <2>2. w \in Words \cup {EchoWord} /\ w # EchoWord /\ Names(w, txt)
    BY <1>2, <1>3, <2>1, LineShellAssumption
  <2>3. sh_handle_command(l) = Reply(w, Silent)
    BY <1>8 DEF sh_handle_command, w
  <2>4. Answers(Reply(w, IF w = EchoWord THEN After(FirstWord(txt), txt) ELSE Silent), txt)
    BY <2>2, Answered
  <2> QED BY <2>2, <2>3, <2>4
<1>9. CASE ~(\E w \in Words : sh_streq(l, w)) /\ sh_startswith(l, v)
  <2>1. m + 1 <= Len(txt) /\ \A k \in 1 .. m + 1 : txt[k] = v[k]
    BY <1>4, <1>7, <1>9, PrefixIs
  <2>2. FirstEnd(txt, m)
    <3>1. Len(txt) \in Nat
      BY LenProperties
    <3> DEFINE size == Len(txt)
    <3> HIDE DEF size
    <3>2. size \in Nat /\ m + 1 <= size
      BY ONLY <2>1, <3>1 DEF size
    <3>3. m \in 0 .. size /\ m + 1 \in 1 .. m + 1 /\ \A j \in 1 .. m : j \in 1 .. m + 1
      BY ONLY <1>4, <3>2
    <3>4. ASSUME NEW j \in 1 .. m PROVE txt[j] # Space
      <4>1. txt[j] = EchoWord[j] /\ EchoWord[j] \in 33 .. 126
        BY <1>4, <2>1, <3>3
      <4>2. txt[j] \in 33 .. 126
        BY <4>1
      <4> QED BY <4>2, Letter, Zenon
    <3> QED BY <1>4, <2>1, <3>3, <3>4 DEF FirstEnd, size
  <2>3. m + 1 \in 0 .. Len(txt)
    <3>1. Len(txt) \in Nat
      BY LenProperties
    <3> QED BY ONLY <1>4, <2>1, <3>1
  <2>4. sh_print_from(l, m + 1) = After(FirstWord(txt), txt)
    BY <2>2, <2>3, EchoPrints
  <2>5. sh_handle_command(l) = Reply(EchoWord, After(FirstWord(txt), txt))
    BY <1>9, <2>4 DEF sh_handle_command, v, m
  <2>6. Names(EchoWord, txt)
    BY <1>5, <1>7, <1>9
  <2>7. Answers(Reply(EchoWord, IF EchoWord = EchoWord THEN After(FirstWord(txt), txt) ELSE Silent), txt)
    BY <2>6, Answered
  <2> QED BY <2>5, <2>7
<1>10. CASE ~(\E w \in Words : sh_streq(l, w)) /\ ~ sh_startswith(l, v)
  <2>1. \A w \in Words \cup {EchoWord} : ~ Names(w, txt)
    BY <1>2, <1>3, <1>5, <1>7, <1>10
  <2>2. sh_print_from(l, 0) = txt
    <3>1. 0 \in 0 .. Len(txt)
      BY RowZero
    <3> QED BY <3>1, PrintsFrom, WholeText
  <2>3. sh_handle_command(l) = Reply(Unknown, txt)
    BY <1>10, <2>2 DEF sh_handle_command, v
  <2> QED BY <2>1, <2>3, NotKnown
<1> QED BY <1>8, <1>9, <1>10

(* The shell that compares hashes: the hash is that of the first word.     *)
LEMMA ShowcaseAnswers ==
    ASSUME app = "showcase", NEW l, NEW txt \in Seq(Nat), Row(l, txt, Len(txt))
    PROVE  Answers(command(l), txt)
<1>1. PICK e \in Nat : FirstEnd(txt, e)
  BY FirstEndIs
<1>2. /\ WordEnd(l) = e /\ Slice(l, 0, WordEnd(l)) = FirstWord(txt)
      /\ IF l[e] = Space THEN e + 1 \in 0 .. Len(txt) ELSE e = Len(txt)
  <2>1. Len(txt) \in Nat
    BY LenProperties
  <2> QED BY <1>1, <2>1, WordEndIs, FirstWordIs
<1> DEFINE h == Hash(FirstWord(txt))
<1>3. \A w \in Words \cup {EchoWord} : Names(w, txt) <=> Hash(w) = h
  BY DEF Names
<1>4. sh_print_from(l, ArgumentAt(l)) = After(FirstWord(txt), txt)
  <2>1. CASE l[e] = Space
    <3>1. ArgumentAt(l) = e + 1 /\ e + 1 \in 0 .. Len(txt)
      BY <1>2, <2>1 DEF ArgumentAt
    <3> QED BY <1>1, <3>1, EchoPrints, SMTT(30)
  <2>2. CASE l[e] # Space
    <3>1. ArgumentAt(l) = e /\ e = Len(txt)
      BY <1>2, <2>2 DEF ArgumentAt
    <3> QED BY <1>1, <3>1, EchoPrints
  <2> QED BY <2>1, <2>2
<1>5. command(l) = IF \E w \in Words : Hash(w) = h
                   THEN Reply(CHOOSE w \in Words : Hash(w) = h, Silent)
                   ELSE IF Hash(EchoWord) = h
                   THEN Reply(EchoWord, After(FirstWord(txt), txt))
                   ELSE Reply(Unknown, sh_print_from(l, 0))
  BY <1>2, <1>4 DEF command
<1> HIDE DEF h
<1>6. CASE \E w \in Words : Hash(w) = h
  <2> DEFINE w == CHOOSE u \in Words : Hash(u) = h
  <2>1. w \in Words /\ Hash(w) = h
    BY <1>6
  <2>2. command(l) = Reply(w, Silent)
    BY <1>5, <1>6
  <2> HIDE DEF w
  <2>3. w \in Words \cup {EchoWord} /\ w # EchoWord /\ Names(w, txt)
    BY <1>3, <2>1, LineShellAssumption
  <2>4. Answers(Reply(w, IF w = EchoWord THEN After(FirstWord(txt), txt) ELSE Silent), txt)
    BY <2>3, Answered
  <2> QED BY <2>2, <2>3, <2>4
<1>7. CASE ~(\E w \in Words : Hash(w) = h) /\ Hash(EchoWord) = h
  <2>1. Names(EchoWord, txt) /\ command(l) = Reply(EchoWord, After(FirstWord(txt), txt))
    BY <1>3, <1>5, <1>7
  <2>2. Answers(Reply(EchoWord, IF EchoWord = EchoWord THEN After(FirstWord(txt), txt) ELSE Silent), txt)
    BY <2>1, Answered
  <2> QED BY <2>1, <2>2
<1>8. CASE ~(\E w \in Words : Hash(w) = h) /\ Hash(EchoWord) # h
  <2>1. \A w \in Words \cup {EchoWord} : ~ Names(w, txt)
    BY <1>3, <1>8
  <2>2. sh_print_from(l, 0) = txt
    <3>1. 0 \in 0 .. Len(txt)
      BY RowZero
    <3> QED BY <3>1, PrintsFrom, WholeText
  <2>3. command(l) = Reply(Unknown, txt)
    BY <1>5, <1>8, <2>2
  <2> QED BY <2>1, <2>3, NotKnown
<1> QED BY <1>6, <1>7, <1>8

-----------------------------------------------------------------------------
LEMMA RowGrows ==
    ASSUME NEW l \in [0 .. SHELL_MAX_LINE -> Nat], NEW txt, NEW size, Row(l, txt, size),
           size < SHELL_MAX_LINE, NEW c \in 32 .. 126, NEW more,
           \A i \in 1 .. size : more[i] = txt[i], more[size + 1] = c,
           NEW k, k = [l EXCEPT ![size] = c, ![size + 1] = 0]
    PROVE  k \in [0 .. SHELL_MAX_LINE -> Nat] /\ Row(k, more, size + 1)
<1>0. \A i \in 1 .. size : l[i - 1] = txt[i] /\ txt[i] \in 32 .. 126
  BY RowLength
<1>1. /\ size \in Nat /\ SHELL_MAX_LINE \in Nat /\ c \in Nat
      /\ size \in 0 .. SHELL_MAX_LINE /\ size + 1 \in 0 .. SHELL_MAX_LINE
  BY LineShellAssumption, RowLength
<1>2. /\ k \in [0 .. SHELL_MAX_LINE -> Nat]
      /\ k[size + 1] = 0 /\ k[size] = c
      /\ \A j \in 0 .. SHELL_MAX_LINE : j # size /\ j # size + 1 => k[j] = l[j]
  BY <1>1
<1>3. ASSUME NEW i \in 1 .. size + 1 PROVE k[i - 1] = more[i] /\ more[i] \in 32 .. 126
  <2>1. CASE i = size + 1
    <3>1. i - 1 = size
      BY <1>1, <2>1
    <3> QED BY <1>2, <2>1, <3>1
  <2>2. CASE i # size + 1
    <3>1. i \in 1 .. size /\ i - 1 \in 0 .. SHELL_MAX_LINE /\ i - 1 # size /\ i - 1 # size + 1
      BY <1>1, <2>2
    <3> QED BY <1>0, <1>2, <3>1
  <2> QED BY <2>1, <2>2
<1> QED BY <1>1, <1>2, <1>3 DEF Row

LEMMA RowShrinks ==
    ASSUME NEW l \in [0 .. SHELL_MAX_LINE -> Nat], NEW txt, NEW size, Row(l, txt, size),
           size > 0, NEW less, \A i \in 1 .. size - 1 : less[i] = txt[i],
           NEW k, k = [l EXCEPT ![size - 1] = 0]
    PROVE  k \in [0 .. SHELL_MAX_LINE -> Nat] /\ Row(k, less, size - 1)
<1>0. \A i \in 1 .. size : l[i - 1] = txt[i] /\ txt[i] \in 32 .. 126
  BY RowLength
<1>1. size \in Nat /\ SHELL_MAX_LINE \in Nat /\ size - 1 \in 0 .. SHELL_MAX_LINE
  BY LineShellAssumption, RowLength
<1>2. /\ k \in [0 .. SHELL_MAX_LINE -> Nat] /\ k[size - 1] = 0
      /\ \A j \in 0 .. SHELL_MAX_LINE : j # size - 1 => k[j] = l[j]
  BY <1>1
<1>3. ASSUME NEW i \in 1 .. size - 1 PROVE k[i - 1] = less[i] /\ less[i] \in 32 .. 126
  <2>1. i \in 1 .. size /\ i - 1 \in 0 .. SHELL_MAX_LINE /\ i - 1 # size - 1
    BY <1>1
  <2> QED BY <1>0, <1>2, <2>1
<1> QED BY <1>1, <1>2, <1>3 DEF Row

LEMMA RowEnded ==
    ASSUME NEW l \in [0 .. SHELL_MAX_LINE -> Nat], NEW txt, NEW size, Row(l, txt, size)
    PROVE  [l EXCEPT ![size] = 0] = l
<1>1. size \in 0 .. SHELL_MAX_LINE /\ l[size] = 0
  BY DEF Row
<1> QED BY <1>1

LEMMA RowEmpty ==
    ASSUME NEW l \in [0 .. SHELL_MAX_LINE -> Nat]
    PROVE  [l EXCEPT ![0] = 0] \in [0 .. SHELL_MAX_LINE -> Nat] /\ Row([l EXCEPT ![0] = 0], <<>>, 0)
<1>1. 0 \in 0 .. SHELL_MAX_LINE
  BY LineShellAssumption
<1> QED BY <1>1 DEF Row

LEMMA NewAnswer ==
    ASSUME NEW r, NEW txt, Answers(r, txt), answer' = r, asked' = txt, UNCHANGED app
    PROVE  AnswersLine'
BY DEF Answers, AnswersLine, Meaning, Names

LEMMA AnswerKept ==
    ASSUME AnswersLine, UNCHANGED <<app, asked, answer>>
    PROVE  AnswersLine'
BY DEF AnswersLine, Meaning, Names

LEMMA LineEnded ==
    ASSUME LineInv, NEW reply, EndLine(reply, Ended(line)), Answers(reply, typed)
    PROVE  LineInv'
<1>1. Ended(line) = line /\ line \in [0 .. SHELL_MAX_LINE -> Nat]
  BY RowEnded DEF LineInv, ShellLine, Ended
<1>2. line' = [line EXCEPT ![0] = 0] /\ line_len' = 0 /\ typed' = <<>> /\ UNCHANGED app
  BY <1>1 DEF EndLine, NextLine
<1>3. line' \in [0 .. SHELL_MAX_LINE -> Nat] /\ Row(line', <<>>, 0)
  BY <1>1, <1>2, RowEmpty
<1>4. <<>> \in Seq(Nat) /\ Len(<<>>) = 0
  BY EmptySeq
<1>5. ShellLine'
  BY <1>2, <1>3, <1>4 DEF ShellLine
<1>6. CASE UNCHANGED <<asked, answer>>
  BY <1>2, <1>5, <1>6, AnswerKept DEF LineInv
<1>7. CASE answer' = reply /\ asked' = typed
  <2>1. PICK txt : txt = typed
    OBVIOUS
  <2>2. AnswersLine'
    BY <1>2, <1>7, <2>1, NewAnswer
  <2> QED BY <1>5, <2>2 DEF LineInv
<1> QED BY <1>6, <1>7 DEF EndLine

LEMMA LineHolds ==
    ASSUME LineInv, [ShellNext]_shellAll
    PROVE  LineInv'
<1>1. /\ line \in [0 .. SHELL_MAX_LINE -> Nat] /\ typed \in Seq(Nat)
      /\ line_len = Len(typed) /\ Row(line, typed, line_len)
  BY DEF LineInv, ShellLine
<1>2. ASSUME NEW c \in Letters, sh_accept_char(c) PROVE LineInv'
  <2>1. /\ line_len < SHELL_MAX_LINE /\ line_len' = line_len + 1 /\ typed' = Append(typed, c)
        /\ line' = [line EXCEPT ![line_len] = c, ![line_len + 1] = 0]
        /\ UNCHANGED <<app, asked, answer>>
    BY <1>2 DEF sh_accept_char
  <2>2. c \in 32 .. 126 /\ c \in Nat
    BY LineShellAssumption
  <2>3. /\ typed' \in Seq(Nat) /\ Len(typed') = line_len + 1
        /\ (\A i \in 1 .. line_len : typed'[i] = typed[i]) /\ typed'[line_len + 1] = c
    BY <1>1, <2>1, <2>2, AppendProperties
  <2>4. line' \in [0 .. SHELL_MAX_LINE -> Nat] /\ Row(line', typed', line_len + 1)
    <3>1. line \in [0 .. SHELL_MAX_LINE -> Nat] /\ Row(line, typed, line_len)
      BY <1>1
    <3>2. /\ \A i \in 1 .. line_len : typed'[i] = typed[i]
          /\ typed'[line_len + 1] = c
      BY <2>3
    <3> QED BY ONLY <2>1, <2>2, <3>1, <3>2, RowGrows
  <2>5. ShellLine'
    BY <2>1, <2>3, <2>4 DEF ShellLine
  <2> QED BY <2>1, <2>5, AnswerKept DEF LineInv
<1>3. CASE sh_backspace
  <2>1. /\ line_len > 0 /\ line_len' = line_len - 1 /\ typed' = Front(typed)
        /\ line' = [line EXCEPT ![line_len - 1] = 0]
        /\ UNCHANGED <<app, asked, answer>>
    BY <1>3 DEF sh_backspace
  <2>2. typed # <<>>
    BY <1>1, <2>1, EmptySeq
  <2>3. /\ typed' \in Seq(Nat) /\ Len(typed') = line_len - 1
        /\ \A i \in 1 .. line_len - 1 : typed'[i] = typed[i]
    BY <1>1, <2>1, <2>2, FrontIs
  <2>4. line' \in [0 .. SHELL_MAX_LINE -> Nat] /\ Row(line', typed', line_len - 1)
    BY <1>1, <2>1, <2>3, RowShrinks
  <2>5. ShellLine'
    BY <2>1, <2>3, <2>4 DEF ShellLine
  <2> QED BY <2>1, <2>5, AnswerKept DEF LineInv
<1>4. Ended(line) = line
  BY <1>1, RowEnded DEF Ended
<1>5. CASE Shell
  <2>1. app = "shell" /\ EndLine(sh_handle_command(line), Ended(line))
    BY <1>4, <1>5 DEF Shell
  <2>2. Answers(sh_handle_command(line), typed)
    BY <1>1, <2>1, ShellAnswers
  <2> QED BY <2>1, <2>2, LineEnded
<1>6. CASE Showcase
  <2>1. app = "showcase" /\ EndLine(command(line), Ended(line))
    BY <1>4, <1>6 DEF Showcase
  <2>2. Answers(command(line), typed)
    BY <1>1, <2>1, ShowcaseAnswers
  <2> QED BY <2>1, <2>2, LineEnded
<1>7. CASE UNCHANGED shellAll
  <2>1. UNCHANGED <<app, line, line_len, typed, asked, answer>>
    BY <1>7 DEF shellAll, shellVars
  <2>2. ShellLine'
    BY <1>1, <2>1 DEF ShellLine
  <2> QED BY <2>1, <2>2, AnswerKept DEF LineInv
<1> QED BY <1>2, <1>3, <1>5, <1>6, <1>7 DEF ShellNext

LEMMA LineStarts == ShellInit => LineInv
<1> SUFFICES ASSUME ShellInit PROVE LineInv
  OBVIOUS
<1>1. 0 \in 0 .. SHELL_MAX_LINE
  BY LineShellAssumption
<1>2. <<>> \in Seq(Nat) /\ Len(<<>>) = 0
  BY EmptySeq
<1> QED BY <1>1, <1>2 DEF ShellInit, LineInv, ShellLine, Row, AnswersLine

(* Whatever earlier lines have left in the array, a line is answered for   *)
(* what the user typed and did not erase.                                  *)
THEOREM ShellAnswersLine == ShellSpec => []AnswersLine
<1>1. LineInv => AnswersLine
  BY DEF LineInv
<1> QED BY <1>1, LineStarts, LineHolds, PTL DEF ShellSpec

-----------------------------------------------------------------------------
(* All the programs in one behaviour: each step is one of its program.     *)

SocketsInv == (TcpInv /\ TcpLeft) \/ UdpInv \/ app \notin NetApps

LEMMA SocketsInvHolds ==
    ASSUME SocketsInv, [MCNext]_ioVars
    PROVE  SocketsInv'
<1> USE DEF TcpApps, UdpApps, NetApps, ToolApps, ShellApps
<1>1. CASE TcpInv /\ TcpLeft
  <2>1. app \in TcpApps
    BY <1>1 DEF TcpInv
  <2>2. [TcpNext]_tcpAll
    BY <2>1 DEF MCNext, ioVars, tcpAll
  <2> QED BY <1>1, <2>2, TcpLeftHolds DEF SocketsInv
<1>2. CASE UdpInv
  <2>1. app \in UdpApps
    BY <1>2 DEF UdpInv
  <2>2. [UdpNext]_udpAll
    BY <2>1 DEF MCNext, ioVars, udpAll
  <2> QED BY <1>2, <2>2, UdpHolds DEF SocketsInv
<1>3. CASE app \notin NetApps
  <2>1. ToolNext \/ EditorNext \/ ShellNext \/ UNCHANGED app
    BY <1>3 DEF MCNext, ioVars
  <2>2. UNCHANGED app
    BY <2>1 DEF ToolNext, EditorNext, ShellNext, sh_accept_char, sh_backspace, Shell, Showcase,
                EndLine
  <2> QED BY <1>3, <2>2 DEF SocketsInv
<1> QED BY <1>1, <1>2, <1>3 DEF SocketsInv

(* Whichever program runs, what it leaves open of the device's sockets is  *)
(* what TcpClosed and UdpClosed allow.                                     *)
THEOREM SocketsStayClosed == MCSpec => []SocketsClosed
<1>1. MCInit => SocketsInv
  <2> SUFFICES ASSUME MCInit PROVE SocketsInv
    OBVIOUS
  <2>1. CASE app \in TcpApps
    <3>1. TcpInv /\ TcpLeft
      BY <2>1, TcpLeftStarts DEF MCInit, NetApps
    <3> QED BY <3>1 DEF SocketsInv
  <2>2. CASE app \in UdpApps
    <3>1. UdpInv
      BY <2>2, UdpStarts DEF MCInit, NetApps
    <3> QED BY <3>1 DEF SocketsInv
  <2> QED BY <2>1, <2>2 DEF SocketsInv, NetApps
<1>2. SocketsInv => SocketsClosed
  <2>1. TcpInv /\ TcpLeft => TcpClosed /\ UdpClosed
    BY TcpLeftCloses DEF TcpInv, TcpApps, UdpClosed
  <2>2. UdpInv \/ app \notin NetApps => TcpClosed /\ UdpClosed
    BY DEF UdpInv, HeldUdp, TcpClosed, UdpClosed, NetApps, TcpApps, UdpApps
  <2> QED BY <2>1, <2>2 DEF SocketsInv, SocketsClosed
<1> QED BY <1>1, <1>2, SocketsInvHolds, PTL DEF MCSpec

=============================================================================
