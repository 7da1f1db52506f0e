-------------------------------- MODULE MCIo --------------------------------
(* Model checking the programs that drive the devices, NetTcp, NetUdp,     *)
(* DiskTools, Editor and LineShell, in one run: a behaviour is of one      *)
(* program and the device it uses.                                         *)
EXTENDS NetTcp, NetUdp, DiskTools, Editor, LineShell

CONSTANT Apps  \* the programs

tcpPart == <<deviceState, polls, tcpVars>>
udpPart == <<deviceState, polls, udpVars>>
ioVars == <<app, pc, deviceState, polls, tcpVars, udpVars, diskVars, nameVars, toolVars,
            editorVars, shellVars>>

TcpApps == {"loop", "once", "client"}
UdpApps == {"udp_server", "udp_client"}
ToolApps == {"move", "copy", "remove", "cat", "demo"}
ShellApps == {"shell", "showcase"}
NetApps == TcpApps \cup UdpApps

MCContents == {<<1>>, <<1, 2>>}
MCText == <<1, 2>>

(* The words ps (a command), u (exit) and o (echo); ou has the hash of ps. *)
MCWords == {<<112, 115>>, <<117>>}
MCEcho == <<111>>
MCExit == <<117>>

(* The disk holds any files; only the programs that copy begin with both.  *)
MCFiles ==
    {f \in UNION {[some -> MCContents] : some \in SUBSET Name} :
        Name \subseteq DOMAIN f => app \in {"move", "copy"}}

MCInit ==
    /\ app \in Apps
    /\ pc = IF app \in NetApps THEN "socket"
            ELSE IF app \in ShellApps THEN "read"
            ELSE IF app = "demo" THEN "mount" ELSE "name"
    /\ NetworkInit /\ TcpInit /\ UdpInit
    /\ files \in (IF app \in NetApps \cup ShellApps THEN {<<>>} ELSE MCFiles)
    /\ DiskInit /\ NameInit /\ ToolInit /\ EditorInit /\ ShellInit

MCNext ==
    \/ /\ app \in TcpApps /\ TcpNext
       /\ UNCHANGED <<udpVars, diskVars, nameVars, toolVars, editorVars, shellVars>>
    \/ /\ app \in UdpApps /\ UdpNext
       /\ UNCHANGED <<tcpVars, diskVars, nameVars, toolVars, editorVars, shellVars>>
    \/ /\ app \in ToolApps /\ ToolNext
       /\ UNCHANGED <<deviceState, polls, tcpVars, udpVars, editorVars, shellVars>>
    \/ /\ app = "editor" /\ EditorNext
       /\ UNCHANGED <<deviceState, polls, tcpVars, udpVars, toolVars, shellVars>>
    \/ /\ app \in ShellApps /\ ShellNext
       /\ UNCHANGED <<deviceState, polls, tcpVars, udpVars, diskVars, nameVars, toolVars,
                      editorVars>>

MCSpec == MCInit /\ [][MCNext]_ioVars /\ TcpFairness

(* What the network programs have closed, each as its module says: the     *)
(* TCP programs all but a socket whose set-up was refused, the UDP         *)
(* programs all.                                                           *)
SocketsClosed == TcpClosed /\ UdpClosed
=============================================================================
