------------------------------ MODULE Launcher ------------------------------
(***************************************************************************)
(* A resident program that loads others and waits for them: the shell      *)
(* (apps/app_fs_shell.c) and the menu (apps/app_fs_launcher.c), over       *)
(* kernel_fs_exec and kernel_wait.  It is the process of slot 0, and the   *)
(* processes around it, its children included, do what they like.          *)
(*                                                                         *)
(* Two system calls separate the birth of the child from the wait for it:  *)
(* by then it may have ended, and its slot may have another owner.         *)
(***************************************************************************)
EXTENDS DynamicOverlay

VARIABLES
    sh_at,       \* "menu"; "wait" when a child is about to be waited for;
                 \* "gone" when the launcher has been killed
    sh_pid,      \* what fs_exec returned
    child_lives  \* the child has not ended since

launcherVars == <<sh_at, sh_pid, child_lives>>

LauncherInit ==
    /\ sh_at = "menu"
    /\ sh_pid = -1
    /\ child_lives = FALSE

Shell == 0
ShellRuns == UserMode /\ current_pid = Shell /\ sh_at # "gone"

(* The keyboard is read and the menu or the prompt printed. *)
ShellMenu ==
    /\ ShellRuns /\ sh_at = "menu"
    /\ LightCall \/ Yield
    /\ UNCHANGED <<overlayVars, launcherVars>>

(* fs_exec(path, 4): what was typed may name no program. *)
ShellExec ==
    /\ ShellRuns /\ sh_at = "menu"
    /\ \/ /\ ExecRefused \/ ExecFails
          /\ UNCHANGED launcherVars
       \/ \E size \in DiskResults :
            /\ ExecSucceeds(OverlayPriority, size)
            /\ sh_pid' = FreePid(Entry)
            /\ sh_at' = "wait"
            /\ child_lives' = TRUE

(* Mutant: the program does not wait. *)
ShellWaitNot ==
    /\ ShellRuns /\ sh_at = "wait"
    /\ Yield
    /\ sh_at' = "menu"
    /\ UNCHANGED <<overlayVars, sh_pid, child_lives>>

ShellWait ==
    /\ ShellRuns /\ sh_at = "wait"
    /\ Wait(sh_pid)
    /\ sh_at' = "menu"
    /\ UNCHANGED <<overlayVars, sh_pid, child_lives>>

(* The others, and the timer.  A child that ends is not alive any more,    *)
(* whoever gets its slot.                                                  *)
Others ==
    /\ ShellRuns => (Timer \/ Fault) /\ UNCHANGED overlayVars
    /\ ~ShellRuns => OverlayNext
    /\ child_lives' = (child_lives /\ Alive(pcb', sh_pid))
    /\ sh_at' = IF pcb'[Shell].state = "TERMINATED" THEN "gone" ELSE sh_at
    /\ UNCHANGED sh_pid

LauncherNext == ShellMenu \/ ShellExec \/ ShellWait \/ Others

LauncherSpec ==
    /\ SchedInit /\ OverlayInit /\ LauncherInit
    /\ [][LauncherNext]_<<schedVars, overlayVars, launcherVars>>

-----------------------------------------------------------------------------
(* "Espera o programa carregado terminar antes de redesenhar o menu"       *)
(* (app_fs_launcher.c:139): the launcher has the CPU in its menu only when *)
(* the program it has loaded has ended, whatever becomes of the slot of    *)
(* that program, and whoever else loads, kills or waits.                   *)
MenuAfterChild == ShellRuns /\ sh_at = "menu" => ~child_lives
=============================================================================
