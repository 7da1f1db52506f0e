----------------------------- MODULE ThreadLock -----------------------------
(***************************************************************************)
(* The threads of one program (user/usr_thread.c) that use the mutex       *)
(* through user/usr_sync.c.                                                *)
(*                                                                         *)
(* A wrapper of the user library is three steps, and the timer may come    *)
(* between any two: the trap leaves its result in the accumulator, which   *)
(* is saved with the process; STA copies it to sys_ret_val, one word of    *)
(* the data the threads share; the return reads it back from there.        *)
(* Sync models the same calls made by processes, whose data is their own.  *)
(***************************************************************************)
EXTENDS Process

VARIABLES
    MUTEX_STATE,  \* 0 free, 1 taken
    sys_ret_val,  \* the word all the wrappers of the program go through
    acc,          \* the accumulator of each process
    at            \* where it is: "out", "store", "load", "again" or "inside"

threadVars == <<MUTEX_STATE, sys_ret_val, acc, at>>

Main == 0

ThreadsInit ==
    /\ SchedInit
    /\ MUTEX_STATE = 0
    /\ sys_ret_val = 0
    /\ acc = [p \in Pid |-> 0]
    /\ at = [p \in Pid |-> "out"]

IsAt(place) == UserMode /\ at[current_pid] = place
MoveTo(place) == at' = [at EXCEPT ![current_pid] = place]

(* A trap whose result is to be stored. *)
Result(value) ==
    /\ acc' = [acc EXCEPT ![current_pid] = value]
    /\ MoveTo("store")
    /\ UNCHANGED sys_ret_val

(* main() creates threads, of which each is at its first instruction. *)
ThreadCreate ==
    /\ IsAt("out") /\ current_pid = Main
    /\ \/ Created(OverlayPriority, TRUE) /\ Result(FreePid(Entry))
       \/ FreeSlots(Entry) = {} /\ Resume(Entry) /\ Result(-1)
    /\ UNCHANGED MUTEX_STATE

(* sys_mutex_trylock() up to the end of the trap. *)
Trylock ==
    /\ IsAt("out") /\ current_pid # Main
    /\ Resume(Entry)
    /\ Result(IF MUTEX_STATE = 0 THEN 1 ELSE 0)
    /\ MUTEX_STATE' = 1

(* STA sys_ret_val. *)
Store ==
    /\ IsAt("store")
    /\ sys_ret_val' = acc[current_pid]
    /\ MoveTo("load")
    /\ UNCHANGED <<schedVars, MUTEX_STATE, acc>>

(* return sys_ret_val, and the test of mutex_lock(). *)
Load ==
    /\ IsAt("load")
    /\ acc' = [acc EXCEPT ![current_pid] = sys_ret_val]
    /\ MoveTo(IF current_pid = Main THEN "out"
              ELSE IF sys_ret_val # 0 THEN "inside" ELSE "again")
    /\ UNCHANGED <<schedVars, MUTEX_STATE, sys_ret_val>>

(* The yield() of mutex_lock(). *)
LockAgain ==
    /\ IsAt("again")
    /\ Yield
    /\ MoveTo("out")
    /\ UNCHANGED <<MUTEX_STATE, sys_ret_val, acc>>

MutexUnlock ==
    /\ IsAt("inside")
    /\ Resume(Entry)
    /\ MUTEX_STATE' = 0
    /\ MoveTo("out")
    /\ UNCHANGED <<sys_ret_val, acc>>

(* wait(t1), with the identifier the wrapper returned; main() has created  *)
(* a thread before.                                                        *)
JoinThread ==
    /\ IsAt("out") /\ current_pid = Main
    /\ FreeSlots(Entry) # Pid \ {Main}
    /\ Wait(acc[Main])
    /\ UNCHANGED threadVars

ThreadsNext ==
    \/ ThreadCreate
    \/ Trylock
    \/ Store
    \/ Load
    \/ LockAgain
    \/ MutexUnlock
    \/ JoinThread
    \/ SchedulerStep /\ UNCHANGED threadVars

ThreadsSpec == ThreadsInit /\ [][ThreadsNext]_<<schedVars, threadVars>>

-----------------------------------------------------------------------------
(* "Proteja dados compartilhados com semaforos ou mutexes" (README.md:389, *)
(* of threads; protect shared data with semaphores or mutexes): between    *)
(* mutex_lock() and mutex_unlock() there is one thread at a time.          *)
OneThreadInside ==
    \A p, q \in Pid : at[p] = "inside" /\ at[q] = "inside" => p = q
=============================================================================
