------------------------------- MODULE Sync -------------------------------
(***************************************************************************)
(* The kernel semaphore and the mutex (kernel/sys_sem.c, sys_mutex.c) and  *)
(* the programs that use them through user/usr_sync.c.                     *)
(*                                                                         *)
(* SEM_STATE and MUTEX_STATE do not say who holds the lock, and nothing    *)
(* releases a lock whose holder ends.  What the programs are doing is      *)
(* therefore part of the model: inside[l] is the set of processes that     *)
(* have obtained lock l and not released it, abandoned[l] says that one of *)
(* them ended there.  Programs are disciplined: they release what they     *)
(* hold and nothing else, and do not lock twice.                           *)
(***************************************************************************)
EXTENDS Process

VARIABLES
    SEM_STATE, MUTEX_STATE,  \* 0 free, 1 taken
    inside, abandoned

syncVars == <<SEM_STATE, MUTEX_STATE, inside, abandoned>>

Lock == {"sem", "mutex"}

SyncInit ==
    /\ SchedInit
    /\ SEM_STATE = 0
    /\ MUTEX_STATE = 0
    /\ inside = [l \in Lock |-> {}]
    /\ abandoned = [l \in Lock |-> FALSE]

Enter(l, p) == inside' = [inside EXCEPT ![l] = @ \cup {p}] /\ UNCHANGED abandoned

Leave(l, p) == inside' = [inside EXCEPT ![l] = @ \ {p}] /\ UNCHANGED abandoned

Blocked(t) == {p \in Pid : t[p].state = "BLOCKED"}

SemLock ==
    /\ UserMode
    /\ current_pid \notin inside["sem"]
    /\ \/ /\ SEM_STATE = 0
          /\ SEM_STATE' = 1
          /\ Resume(Entry)
          /\ Enter("sem", current_pid)
       \/ /\ SEM_STATE # 0
          /\ Schedule(Stopped(Entry, "BLOCKED"))
          /\ UNCHANGED <<SEM_STATE, inside, abandoned>>
    /\ UNCHANGED MUTEX_STATE

(* Mutant: the semaphore is freed although it was handed over. *)
SemUnlockAlwaysFrees ==
    /\ UserMode
    /\ current_pid \in inside["sem"]
    /\ SEM_STATE' = 0
    /\ \/ /\ Blocked(Entry) = {}
          /\ Resume(Entry)
          /\ Leave("sem", current_pid)
       \/ \E p \in Blocked(Entry) :
            /\ \A q \in Blocked(Entry) : p <= q
            /\ Resume([Entry EXCEPT ![p].state = "READY"])
            /\ inside' = [inside EXCEPT !["sem"] = (@ \ {current_pid}) \cup {p}]
            /\ UNCHANGED abandoned
    /\ UNCHANGED MUTEX_STATE

(* Mutant: the semaphore is freed and nobody is woken. *)
SemUnlockWakesNobody ==
    /\ UserMode
    /\ current_pid \in inside["sem"]
    /\ SEM_STATE' = 0
    /\ Resume(Entry)
    /\ Leave("sem", current_pid)
    /\ UNCHANGED MUTEX_STATE

(* The semaphore goes to the first BLOCKED slot without becoming free: the *)
(* process woken returns from sem_lock as its new holder.                  *)
SemUnlock ==
    /\ UserMode
    /\ current_pid \in inside["sem"]
    /\ \/ /\ Blocked(Entry) = {}
          /\ SEM_STATE' = 0
          /\ Resume(Entry)
          /\ Leave("sem", current_pid)
       \/ \E p \in Blocked(Entry) :
            /\ \A q \in Blocked(Entry) : p <= q
            /\ Resume([Entry EXCEPT ![p].state = "READY"])
            /\ inside' = [inside EXCEPT !["sem"] = (@ \ {current_pid}) \cup {p}]
            /\ UNCHANGED <<SEM_STATE, abandoned>>
    /\ UNCHANGED MUTEX_STATE

(* Mutant: the test and the assignment of the lock are swapped. *)
MutexTrylockUntested ==
    /\ UserMode
    /\ current_pid \notin inside["mutex"]
    /\ Resume(Entry)
    /\ MUTEX_STATE' = 1
    /\ Enter("mutex", current_pid)
    /\ UNCHANGED SEM_STATE

(* mutex_lock() repeats this call, with a yield() after each failure. *)
MutexTrylock ==
    /\ UserMode
    /\ current_pid \notin inside["mutex"]
    /\ Resume(Entry)
    /\ \/ /\ MUTEX_STATE = 0
          /\ MUTEX_STATE' = 1
          /\ Enter("mutex", current_pid)
       \/ /\ MUTEX_STATE # 0
          /\ UNCHANGED <<MUTEX_STATE, inside, abandoned>>
    /\ UNCHANGED SEM_STATE

MutexUnlock ==
    /\ UserMode
    /\ current_pid \in inside["mutex"]
    /\ Resume(Entry)
    /\ MUTEX_STATE' = 0
    /\ Leave("mutex", current_pid)
    /\ UNCHANGED SEM_STATE

(* Every step of Process; a process that ends in it leaves its locks taken. *)
Ended == {p \in Pid : pcb[p].state # "TERMINATED" /\ pcb'[p].state = "TERMINATED"}

ProcessStep ==
    /\ Next
    /\ inside' = [l \in Lock |-> inside[l] \ Ended]
    /\ abandoned' = [l \in Lock |-> abandoned[l] \/ inside[l] \cap Ended # {}]
    /\ UNCHANGED <<SEM_STATE, MUTEX_STATE>>

SyncNext ==
    \/ SemLock
    \/ SemUnlock
    \/ MutexTrylock
    \/ MutexUnlock
    \/ ProcessStep

SyncSpec == SyncInit /\ [][SyncNext]_<<schedVars, syncVars>>

-----------------------------------------------------------------------------
SyncTypeOK ==
    /\ TypeOK
    /\ SEM_STATE \in {0, 1}
    /\ MUTEX_STATE \in {0, 1}
    /\ inside \in [Lock -> SUBSET Pid]
    /\ abandoned \in [Lock -> BOOLEAN]

Taken(l) == IF l = "sem" THEN SEM_STATE = 1 ELSE MUTEX_STATE = 1

(* Two processes never hold the same lock, whichever way the semaphore is  *)
(* handed over and whoever is killed meanwhile; and once a holder has      *)
(* ended inside, nobody enters again.                                      *)
MutualExclusion ==
    \A l \in Lock :
        /\ \A p, q \in inside[l] : p = q
        /\ abandoned[l] => inside[l] = {}

(* A lock is taken exactly while some process is inside or ended inside:   *)
(* the flag without an owner in the kernel agrees with what the programs   *)
(* believe.                                                                *)
LocksAgree == \A l \in Lock : Taken(l) <=> inside[l] # {} \/ abandoned[l]

(* No wakeup is lost: nobody is BLOCKED while the semaphore is free, and   *)
(* the process it was handed to is not BLOCKED.                            *)
NoLostWakeup ==
    \A p \in Pid : pcb[p].state = "BLOCKED"
                   => SEM_STATE = 1 /\ p \notin inside["sem"]
=============================================================================
