------------------------------- MODULE MCIpc -------------------------------
(* Model checking the services of the kernel in one run: they share the    *)
(* process table and nothing else, and a behaviour is of one of them.      *)
EXTENDS Sync, Pipe, Mailbox, Devices, Launcher

CONSTANT Services

MCPriorities == {OverlayPriority}
MCDiskResults == {-1, 0, 7, 9}

(* Bound: a call of each kind with arguments that differ.  *)
MCCalls ==
    {Configured("bind", 1, 2, 2), Listening(2, 1), Selecting("accept", 1), TakingSocket,
     Naming("open", <<1, 2>>), Reading("read_byte", 1), Writing(2, 1)}

VARIABLE service  \* Bound: the programs use one service in a behaviour

loaderVars == <<overlayVars, launcherVars>>
ipcVars == <<schedVars, syncVars, pipeVars, mailboxVars, deviceVars, loaderVars, service>>

MCInit ==
    /\ service \in Services
    /\ SyncInit /\ PipeInit /\ MailboxInit /\ DevicesInit /\ OverlayInit /\ LauncherInit

MCNext ==
    /\ UNCHANGED service
    /\ \/ /\ service = "sync" /\ SyncNext
          /\ UNCHANGED <<pipeVars, mailboxVars, deviceVars, loaderVars>>
       \/ /\ service = "pipe" /\ PipeNext
          /\ UNCHANGED <<syncVars, mailboxVars, deviceVars, loaderVars>>
       \/ /\ service = "mailbox" /\ MailboxNext
          /\ UNCHANGED <<syncVars, pipeVars, deviceVars, loaderVars>>
       \/ /\ service = "devices" /\ DevicesNext
          /\ UNCHANGED <<syncVars, pipeVars, mailboxVars, loaderVars>>
       \/ /\ service = "overlay" /\ OverlayNext
          /\ UNCHANGED <<syncVars, pipeVars, mailboxVars, deviceVars, launcherVars>>
       \/ /\ service = "launcher" /\ LauncherNext
          /\ UNCHANGED <<syncVars, pipeVars, mailboxVars, deviceVars>>

MCSpec == MCInit /\ [][MCNext]_ipcVars

(* Bound: handlers are left to the runs of Process; only users of the lock *)
(* sleep, of the lock and the ring pause, and threads, and waiting, are    *)
(* where it matters who outlives whom.  Of three processes that create and *)
(* kill each other two make calls to the devices.                          *)
PlainProcesses ==
    \A p \in Pid :
        /\ ~pcb[p].signal_handler
        /\ pcb[p].state = "PAUSED" => service \in {"sync", "pipe"}
        /\ pcb[p].is_thread => service = "overlay"
        /\ pcb[p].state = "WAITING" => service \notin {"mailbox", "devices"}
        /\ pcb[p].state = "SLEEPING" => service = "sync"
        /\ p > 1 => call[p] = NoCall
=============================================================================
