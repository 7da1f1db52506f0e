--------------------------- MODULE BlockingProofs ---------------------------
(***************************************************************************)
(* The calls of the kernel that put a process to sleep until another one   *)
(* wakes it: the semaphore and the mutex, which keep their users apart,    *)
(* and the pipe, which implements a bounded first-in first-out channel;    *)
(* neither loses a wakeup.  For every number of processes, every policy    *)
(* and every size of the ring.                                             *)
(***************************************************************************)
EXTENDS Sync, Pipe, ProcessProofs, SequenceTheorems

(* The locks.  The inductive invariant is the one of Process with the      *)
(* three properties of Sync: none of them is inductive alone.  Whoever     *)
(* enters a free lock needs LocksAgree to know that it is empty; whoever   *)
(* receives the semaphore needs NoLostWakeup to know that it was not       *)
(* inside already; and NoLostWakeup needs that no call of Process, exit    *)
(* and kill included, puts anybody in BLOCKED (NobodyParks).               *)
SyncInv ==
    /\ Inv
    /\ SyncTypeOK
    /\ MutualExclusion
    /\ LocksAgree
    /\ NoLostWakeup

-----------------------------------------------------------------------------
LEMMA SemLockInv ==
    ASSUME SyncInv, SemLock
    PROVE  SyncInv'
<1>1. /\ UserMode /\ current_pid \in Pid /\ "sem" \in Lock /\ "mutex" \in Lock
      /\ Inv
  BY DEF SyncInv, SemLock, Inv, SchedInv, SchedTypeOK, Lock
<1>2. CASE /\ SEM_STATE = 0 /\ SEM_STATE' = 1 /\ Resume(Entry)
           /\ Enter("sem", current_pid) /\ UNCHANGED MUTEX_STATE
  <2>1. Inv' /\ NobodyParks
    BY <1>1, <1>2, PlainCall
  <2>2. \A p \in Pid : pcb'[p].state # "BLOCKED"
    BY <1>2, <2>1 DEF SyncInv, NoLostWakeup, NobodyParks, Unparked, Parked
  <2>3. inside["sem"] = {} /\ ~abandoned["sem"]
    BY <1>1, <1>2 DEF SyncInv, LocksAgree, Taken
  <2>4. /\ inside' = [inside EXCEPT !["sem"] = {current_pid}]
        /\ abandoned' = abandoned
    BY <1>2, <2>3 DEF Enter, SyncInv, SyncTypeOK
  <2>5. SyncTypeOK'
    BY <1>1, <1>2, <2>1, <2>4 DEF SyncInv, SyncTypeOK, TypeOK, Inv, SchedInv
  <2>6. MutualExclusion'
    BY <1>1, <2>3, <2>4 DEF SyncInv, SyncTypeOK, MutualExclusion, Lock
  <2>7. LocksAgree'
    BY <1>1, <1>2, <2>4 DEF SyncInv, SyncTypeOK, LocksAgree, Taken, Lock
  <2> QED BY <2>1, <2>2, <2>5, <2>6, <2>7 DEF SyncInv, NoLostWakeup
<1>3. CASE /\ SEM_STATE # 0 /\ Schedule(Stopped(Entry, "BLOCKED"))
           /\ UNCHANGED <<SEM_STATE, inside, abandoned, MUTEX_STATE>>
  <2>1. /\ Inv'
        /\ \A p \in Pid : pcb'[p].state \in Parked
                          => p = current_pid \/ pcb[p].state = pcb'[p].state
    BY <1>1, <1>3, ParkingCall DEF Parked
  <2>2. current_pid \notin inside["sem"] /\ SEM_STATE = 1
    BY <1>3 DEF SemLock, SyncInv, SyncTypeOK
  <2>3. NoLostWakeup'
    BY <1>3, <2>1, <2>2 DEF SyncInv, NoLostWakeup, Parked
  <2>4. SyncTypeOK'
    BY <1>3, <2>1 DEF SyncInv, SyncTypeOK, TypeOK, Inv, SchedInv
  <2>5. MutualExclusion' /\ LocksAgree'
    BY <1>3 DEF SyncInv, MutualExclusion, LocksAgree, Taken
  <2> QED BY <2>1, <2>3, <2>4, <2>5 DEF SyncInv
<1> QED BY <1>2, <1>3 DEF SemLock

LEMMA SemUnlockInv ==
    ASSUME SyncInv, SemUnlock
    PROVE  SyncInv'
<1>1. /\ UserMode /\ "sem" \in Lock /\ "mutex" \in Lock /\ Inv
      /\ current_pid \in inside["sem"] /\ UNCHANGED MUTEX_STATE
  BY DEF SyncInv, SemUnlock, Lock
<1>2. inside["sem"] = {current_pid} /\ ~abandoned["sem"] /\ SEM_STATE = 1
  BY <1>1 DEF SyncInv, MutualExclusion, LocksAgree, Taken
<1>3. CASE /\ Blocked(Entry) = {} /\ SEM_STATE' = 0 /\ Resume(Entry)
           /\ Leave("sem", current_pid)
  <2>1. Inv' /\ NobodyParks
    BY <1>1, <1>3, PlainCall
  <2>2. \A p \in Pid : pcb'[p].state # "BLOCKED"
    <3>1. Handled(Entry) /\ OnlyCpuMoved(Entry)
      BY <1>1, <1>3, EntryTable, LeavingKernel DEF UserMode
    <3> QED BY <1>3, <3>1 DEF Blocked, OnlyCpuMoved
  <2>3. inside' = [inside EXCEPT !["sem"] = {}] /\ abandoned' = abandoned
    BY <1>2, <1>3 DEF Leave
  <2>4. SyncTypeOK'
    BY <1>1, <1>3, <2>1, <2>3 DEF SyncInv, SyncTypeOK, TypeOK, Inv, SchedInv
  <2>5. MutualExclusion'
    BY <1>1, <2>3 DEF SyncInv, SyncTypeOK, MutualExclusion, Lock
  <2>6. LocksAgree'
    BY <1>1, <1>2, <1>3, <2>3 DEF SyncInv, SyncTypeOK, LocksAgree, Taken, Lock
  <2> QED BY <2>1, <2>2, <2>4, <2>5, <2>6 DEF SyncInv, NoLostWakeup
<1>4. ASSUME NEW p \in Blocked(Entry),
             Resume([Entry EXCEPT ![p].state = "READY"]),
             inside' = [inside EXCEPT !["sem"] = (@ \ {current_pid}) \cup {p}],
             UNCHANGED <<SEM_STATE, abandoned>>
      PROVE  SyncInv'
  <2>1. p \in Pid /\ Entry[p].state \in Parked
    BY <1>4 DEF Blocked, Parked
  <2>2. Inv' /\ NobodyParks /\ pcb'[p].state \notin Parked
    BY <1>1, <1>4, <2>1, WakingCall
  <2>3. inside' = [inside EXCEPT !["sem"] = {p}]
    BY <1>2, <1>4
  <2>4. NoLostWakeup'
    BY <1>1, <1>2, <1>4, <2>2, <2>3
       DEF SyncInv, SyncTypeOK, NoLostWakeup, NobodyParks, Unparked, Parked
  <2>5. SyncTypeOK'
    BY <1>1, <1>4, <2>1, <2>2, <2>3
       DEF SyncInv, SyncTypeOK, TypeOK, Inv, SchedInv
  <2>6. MutualExclusion'
    BY <1>1, <1>2, <1>4, <2>3 DEF SyncInv, SyncTypeOK, MutualExclusion, Lock
  <2>7. LocksAgree'
    BY <1>1, <1>2, <1>4, <2>3 DEF SyncInv, SyncTypeOK, LocksAgree, Taken, Lock
  <2> QED BY <2>2, <2>4, <2>5, <2>6, <2>7 DEF SyncInv
<1> QED BY <1>3, <1>4 DEF SemUnlock

LEMMA MutexInv ==
    ASSUME SyncInv, MutexTrylock \/ MutexUnlock
    PROVE  SyncInv'
<1>1. /\ UserMode /\ Resume(Entry) /\ UNCHANGED SEM_STATE /\ Inv
      /\ "sem" \in Lock /\ "mutex" \in Lock
      /\ current_pid \in Pid
  BY DEF SyncInv, MutexTrylock, MutexUnlock, Lock, Inv, SchedInv, SchedTypeOK
<1>2. Inv' /\ NobodyParks
  BY <1>1, PlainCall
<1>3. ASSUME inside'["sem"] = inside["sem"]
      PROVE  NoLostWakeup'
  BY <1>1, <1>2, <1>3
     DEF SyncInv, NoLostWakeup, NobodyParks, Unparked, Parked
<1>4. CASE /\ MUTEX_STATE = 0 /\ MUTEX_STATE' = 1 /\ Enter("mutex", current_pid)
  <2>1. inside["mutex"] = {} /\ ~abandoned["mutex"]
    BY <1>1, <1>4 DEF SyncInv, LocksAgree, Taken
  <2>2. /\ inside' = [inside EXCEPT !["mutex"] = {current_pid}]
        /\ abandoned' = abandoned
    BY <1>4, <2>1 DEF Enter
  <2>3. SyncTypeOK' /\ inside'["sem"] = inside["sem"]
    BY <1>1, <1>2, <1>4, <2>2 DEF SyncInv, SyncTypeOK, TypeOK, Inv, SchedInv
  <2>4. MutualExclusion'
    BY <1>1, <2>1, <2>2 DEF SyncInv, SyncTypeOK, MutualExclusion, Lock
  <2>5. LocksAgree'
    BY <1>1, <1>4, <2>2 DEF SyncInv, SyncTypeOK, LocksAgree, Taken, Lock
  <2> QED BY <1>2, <1>3, <2>3, <2>4, <2>5 DEF SyncInv
<1>5. CASE UNCHANGED <<MUTEX_STATE, inside, abandoned>>
  <2>1. SyncTypeOK' /\ MutualExclusion' /\ LocksAgree'
    BY <1>1, <1>2, <1>5 DEF SyncInv, SyncTypeOK, TypeOK, Inv, SchedInv,
       MutualExclusion, LocksAgree, Taken
  <2> QED BY <1>2, <1>3, <1>5, <2>1 DEF SyncInv
<1>6. CASE MutexUnlock
  <2>1. inside["mutex"] = {current_pid} /\ ~abandoned["mutex"]
    BY <1>1, <1>6 DEF SyncInv, MutualExclusion, MutexUnlock
  <2>2. /\ inside' = [inside EXCEPT !["mutex"] = {}]
        /\ abandoned' = abandoned /\ MUTEX_STATE' = 0
    BY <1>6, <2>1 DEF MutexUnlock, Leave
  <2>3. SyncTypeOK' /\ inside'["sem"] = inside["sem"]
    BY <1>1, <1>2, <2>2 DEF SyncInv, SyncTypeOK, TypeOK, Inv, SchedInv
  <2>4. MutualExclusion'
    BY <1>1, <2>1, <2>2 DEF SyncInv, SyncTypeOK, MutualExclusion, Lock
  <2>5. LocksAgree'
    BY <1>1, <2>1, <2>2 DEF SyncInv, SyncTypeOK, LocksAgree, Taken, Lock
  <2> QED BY <1>2, <1>3, <2>3, <2>4, <2>5 DEF SyncInv
<1> QED BY <1>4, <1>5, <1>6 DEF MutexTrylock

LEMMA ProcessStepInv ==
    ASSUME SyncInv, ProcessStep
    PROVE  SyncInv'
<1>1. /\ Next /\ Inv
      /\ inside' = [l \in Lock |-> inside[l] \ Ended]
      /\ abandoned' = [l \in Lock |-> abandoned[l] \/ inside[l] \cap Ended # {}]
      /\ UNCHANGED <<SEM_STATE, MUTEX_STATE>>
  BY DEF SyncInv, ProcessStep
<1>2. Inv' /\ NobodyParks
  BY <1>1, NextInv DEF Kept
<1> HIDE DEF Ended
<1>3. \A l \in Lock : /\ inside[l] \subseteq Pid /\ inside'[l] \subseteq inside[l]
                      /\ abandoned'[l] \in BOOLEAN
  BY <1>1 DEF SyncInv, SyncTypeOK
<1>4. SyncTypeOK'
  BY <1>1, <1>2, <1>3 DEF SyncInv, SyncTypeOK, TypeOK, Inv, SchedInv
<1>5. MutualExclusion'
  <2>1. ASSUME NEW l \in Lock
        PROVE  /\ \A p, q \in inside'[l] : p = q
               /\ abandoned'[l] => inside'[l] = {}
    <3>1. /\ \A p, q \in inside[l] : p = q
          /\ abandoned[l] => inside[l] = {}
      BY DEF SyncInv, MutualExclusion
    <3>2. /\ inside'[l] = inside[l] \ Ended
          /\ abandoned'[l] <=> abandoned[l] \/ inside[l] \cap Ended # {}
      BY <1>1
    <3> QED BY <3>1, <3>2
  <2> QED BY <2>1 DEF MutualExclusion
<1>6. LocksAgree'
  <2>1. ASSUME NEW l \in Lock
        PROVE  inside'[l] # {} \/ abandoned'[l] <=> inside[l] # {} \/ abandoned[l]
    BY <1>1, <1>3
  <2> QED BY <1>1, <2>1 DEF SyncInv, LocksAgree, Taken
<1>7. NoLostWakeup'
  BY <1>1, <1>2, <1>3
     DEF SyncInv, NoLostWakeup, NobodyParks, Unparked, Parked, Lock
<1> QED BY <1>2, <1>4, <1>5, <1>6, <1>7 DEF SyncInv

LEMMA SyncInitInv == SyncInit => SyncInv
<1> SUFFICES ASSUME SyncInit PROVE SyncInv
  OBVIOUS
<1>1. Inv
  BY InitInv DEF SyncInit
<1>2. \A p \in Pid : pcb[p].state # "BLOCKED"
  BY InitUnparked DEF SyncInit, Parked
<1> QED BY <1>1, <1>2 DEF SyncInit, SyncInv, SyncTypeOK, TypeOK, Inv, SchedInv,
        MutualExclusion, LocksAgree, Taken, NoLostWakeup, Lock

(* The strengthening holds in every state of the kernel with its locks.    *)
THEOREM SyncInvariant == SyncSpec => []SyncInv
<1>1. SyncInv /\ [SyncNext]_<<schedVars, syncVars>> => SyncInv'
  <2>1. CASE UNCHANGED <<schedVars, syncVars>>
    <3>1. ASSUME SyncInv PROVE Inv'
      BY <2>1, <3>1 DEF SyncInv, schedVars, Inv, SchedInv, SchedTypeOK,
         OneRunning, WorkConserving, Effective, NoneAlive, DeliveredOnReturn,
         NoStaleWaiter, Alive
    <3> QED BY <2>1, <3>1 DEF schedVars, syncVars, SyncInv, SyncTypeOK, TypeOK,
            Inv, SchedInv, MutualExclusion, LocksAgree, Taken, NoLostWakeup
  <2> QED BY <2>1, SemLockInv, SemUnlockInv, MutexInv, ProcessStepInv DEF SyncNext
<1> QED BY <1>1, SyncInitInv, PTL DEF SyncSpec

(* The locks, their users and those they abandoned have their types.        *)
THEOREM SyncTypes == SyncSpec => []SyncTypeOK
<1>1. SyncInv => SyncTypeOK
  BY DEF SyncInv
<1> QED BY <1>1, SyncInvariant, PTL

(* Two processes never hold the same lock, and nobody enters a lock whose  *)
(* holder ended inside.                                                    *)
THEOREM SyncMutualExclusion == SyncSpec => []MutualExclusion
<1>1. SyncInv => MutualExclusion
  BY DEF SyncInv
<1> QED BY <1>1, SyncInvariant, PTL

(* A lock is taken exactly while somebody is inside or ended inside.       *)
THEOREM SyncLocksAgree == SyncSpec => []LocksAgree
<1>1. SyncInv => LocksAgree
  BY DEF SyncInv
<1> QED BY <1>1, SyncInvariant, PTL

(* Nobody sleeps on a free semaphore. *)
THEOREM SyncNoLostWakeup == SyncSpec => []NoLostWakeup
<1>1. SyncInv => NoLostWakeup
  BY DEF SyncInv
<1> QED BY <1>1, SyncInvariant, PTL

-----------------------------------------------------------------------------
(* The pipe.  PipeTypeOK is not inductive: a value that is read comes from *)
(* the ring, where 0 marks the places nobody has written.  PipeInv adds    *)
(* that the places between the two ends hold written values.               *)
PipeInv ==
    /\ Inv
    /\ PipeTypeOK
    /\ \A i \in DOMAIN Contents : Contents[i] \in Values
    /\ NobodyMissesPipe

(* The ring, without the table. *)
RingOK ==
    /\ pipe_buffer \in [Index -> Values \cup {0}]
    /\ pipe_head \in Index
    /\ pipe_tail \in Index
    /\ pipe_count \in 0 .. PIPE_SIZE
    /\ pipe_head = (pipe_tail + pipe_count) % PIPE_SIZE
    /\ delivered \in Values \cup {-1}
    /\ Contents \in [1 .. pipe_count -> Values]

LEMMA PipeInvParts ==
    PipeInv <=> Inv /\ RingOK /\ NobodyMissesPipe
BY DEF PipeInv, PipeTypeOK, RingOK, Contents, TypeOK, Inv, SchedInv

(* How an index wraps: the arithmetic of the ring without a remainder.     *)
LEMMA Wrap ==
    ASSUME NEW i \in Index, NEW k \in 0 .. PIPE_SIZE
    PROVE  /\ (i + k) % PIPE_SIZE \in Index
           /\ (i + k) % PIPE_SIZE = IF i + k < PIPE_SIZE THEN i + k
                                                        ELSE i + k - PIPE_SIZE
<1>1. PIPE_SIZE \in Nat \ {0} /\ i \in 0 .. PIPE_SIZE - 1
  BY PipeAssumption DEF Index
<1> QED BY <1>1 DEF Index

(* What a call that succeeds does to the ring and to the queue it stores.  *)
LEMMA WriteRing ==
    ASSUME RingOK, NEW val \in Values, pipe_count # PIPE_SIZE,
           pipe_buffer' = [pipe_buffer EXCEPT ![pipe_head] = val],
           pipe_head' = Advance(pipe_head),
           pipe_count' = pipe_count + 1,
           UNCHANGED <<pipe_tail, delivered>>
    PROVE  RingOK' /\ AsChannel!Write(val)
<1>1. /\ PIPE_SIZE \in Nat \ {0} /\ pipe_count \in 0 .. PIPE_SIZE - 1
      /\ pipe_tail \in 0 .. PIPE_SIZE - 1 /\ pipe_head \in 0 .. PIPE_SIZE - 1
      /\ Index = 0 .. PIPE_SIZE - 1
  BY PipeAssumption DEF RingOK, Index
<1>2. pipe_head' = (pipe_tail' + pipe_count') % PIPE_SIZE /\ pipe_head' \in Index
  <2>1. pipe_head = IF pipe_tail + pipe_count < PIPE_SIZE
                    THEN pipe_tail + pipe_count
                    ELSE pipe_tail + pipe_count - PIPE_SIZE
    BY <1>1, Wrap DEF RingOK
  <2>2. (pipe_tail + (pipe_count + 1)) % PIPE_SIZE
          = IF pipe_tail + (pipe_count + 1) < PIPE_SIZE
            THEN pipe_tail + (pipe_count + 1)
            ELSE pipe_tail + (pipe_count + 1) - PIPE_SIZE
    <3>1. pipe_count + 1 \in 0 .. PIPE_SIZE /\ pipe_tail \in Index
      BY <1>1
    <3> QED BY <3>1, Wrap
  <2>3. pipe_head' \in Index /\ pipe_head' = (pipe_tail + (pipe_count + 1)) % PIPE_SIZE
    BY <1>1, <2>1, <2>2 DEF Advance
  <2> QED BY <2>3
<1>3. /\ pipe_buffer' \in [Index -> Values \cup {0}]
      /\ pipe_buffer'[(pipe_tail + pipe_count) % PIPE_SIZE] = val
  BY DEF RingOK
<1>4. ASSUME NEW k \in 0 .. pipe_count - 1
      PROVE  /\ (pipe_tail + k) % PIPE_SIZE \in Index
             /\ (pipe_tail + k) % PIPE_SIZE # pipe_head
  <2>1. pipe_head = IF pipe_tail + pipe_count < PIPE_SIZE
                    THEN pipe_tail + pipe_count
                    ELSE pipe_tail + pipe_count - PIPE_SIZE
    BY <1>1, Wrap DEF RingOK
  <2>2. /\ k \in 0 .. PIPE_SIZE /\ k < pipe_count
        /\ (pipe_tail + k) % PIPE_SIZE \in Index
        /\ (pipe_tail + k) % PIPE_SIZE
             = IF pipe_tail + k < PIPE_SIZE THEN pipe_tail + k
                                            ELSE pipe_tail + k - PIPE_SIZE
    BY <1>1, Wrap
  <2> QED BY <1>1, <2>1, <2>2
<1>5. ASSUME NEW i \in 1 .. pipe_count
      PROVE  Contents'[i] = Contents[i] /\ Contents[i] \in Values
  <2>1. pipe_buffer'[(pipe_tail + (i - 1)) % PIPE_SIZE]
          = pipe_buffer[(pipe_tail + (i - 1)) % PIPE_SIZE]
    <3> DEFINE place == (pipe_tail + (i - 1)) % PIPE_SIZE
    <3>1. i - 1 \in 0 .. pipe_count - 1
      BY <1>1
    <3>2. place \in Index /\ place # pipe_head
      BY <1>4, <3>1
    <3>3. pipe_buffer \in [Index -> Values \cup {0}]
      BY DEF RingOK
    <3> HIDE DEF place
    <3>4. pipe_buffer'[place] = pipe_buffer[place]
      BY <1>1, <3>2, <3>3
    <3> QED BY <3>4 DEF place
  <2>2. pipe_tail + i - 1 = pipe_tail + (i - 1)
    BY <1>1
  <2>3. /\ Contents[i] = pipe_buffer[(pipe_tail + i - 1) % PIPE_SIZE]
        /\ Contents'[i] = pipe_buffer'[(pipe_tail + i - 1) % PIPE_SIZE]
    BY <1>1 DEF Contents
  <2> QED BY <2>1, <2>2, <2>3 DEF RingOK
<1>6. Contents'[pipe_count + 1] = val
  <2>1. pipe_tail + (pipe_count + 1) - 1 = pipe_tail + pipe_count
    BY <1>1
  <2>2. Contents'[pipe_count + 1]
          = pipe_buffer'[(pipe_tail + (pipe_count + 1) - 1) % PIPE_SIZE]
    BY <1>1 DEF Contents
  <2> QED BY <1>3, <2>1, <2>2
<1>7. Contents' \in [1 .. pipe_count + 1 -> Values]
  <2>1. ASSUME NEW i \in 1 .. pipe_count + 1
        PROVE  Contents'[i] \in Values
    BY <1>1, <1>5, <1>6
  <2>2. Contents' = [i \in 1 .. pipe_count + 1 |-> Contents'[i]]
    BY DEF Contents
  <2> QED BY <2>1, <2>2
<1>8. RingOK'
  BY <1>1, <1>2, <1>3, <1>7 DEF RingOK
<1>9. Contents' = Append(Contents, val)
  <2>1. /\ Contents \in Seq(Values) /\ Len(Contents) = pipe_count
        /\ Contents' \in Seq(Values) /\ Len(Contents') = pipe_count + 1
    BY <1>1, <1>7 DEF RingOK
  <2>2. /\ Append(Contents, val) \in Seq(Values)
        /\ Len(Append(Contents, val)) = pipe_count + 1
        /\ \A i \in 1 .. pipe_count : Append(Contents, val)[i] = Contents[i]
        /\ Append(Contents, val)[pipe_count + 1] = val
    BY <2>1, AppendProperties
  <2>3. \A i \in 1 .. pipe_count + 1 : Contents'[i] = Append(Contents, val)[i]
    BY <1>1, <1>5, <1>6, <2>2
  <2> HIDE DEF Contents
  <2> QED BY <2>1, <2>2, <2>3, SeqEqual
<1>10. Len(Contents) < PIPE_SIZE
  BY <1>1 DEF RingOK
<1> QED BY <1>8, <1>9, <1>10 DEF AsChannel!Write

LEMMA ReadRing ==
    ASSUME RingOK, pipe_count # 0,
           delivered' = pipe_buffer[pipe_tail],
           pipe_tail' = Advance(pipe_tail),
           pipe_count' = pipe_count - 1,
           UNCHANGED <<pipe_buffer, pipe_head>>
    PROVE  RingOK' /\ AsChannel!Read
<1>1. /\ PIPE_SIZE \in Nat \ {0} /\ pipe_count \in 1 .. PIPE_SIZE
      /\ pipe_tail \in 0 .. PIPE_SIZE - 1 /\ pipe_head \in 0 .. PIPE_SIZE - 1
      /\ Index = 0 .. PIPE_SIZE - 1
  BY PipeAssumption DEF RingOK, Index
<1>2. /\ pipe_tail' \in Index
      /\ \A k \in 0 .. pipe_count - 1 :
            (pipe_tail' + k) % PIPE_SIZE = (pipe_tail + (k + 1)) % PIPE_SIZE
  <2>1. pipe_tail' \in Index
    BY <1>1 DEF Advance
  <2>2. ASSUME NEW k \in 0 .. pipe_count - 1
        PROVE  (pipe_tail' + k) % PIPE_SIZE = (pipe_tail + (k + 1)) % PIPE_SIZE
    <3>1. k \in 0 .. PIPE_SIZE /\ k + 1 \in 0 .. PIPE_SIZE
      BY <1>1
    <3>2. (pipe_tail' + k) % PIPE_SIZE
            = IF pipe_tail' + k < PIPE_SIZE THEN pipe_tail' + k
                                            ELSE pipe_tail' + k - PIPE_SIZE
      BY <2>1, <3>1, Wrap
    <3>3. (pipe_tail + (k + 1)) % PIPE_SIZE
            = IF pipe_tail + (k + 1) < PIPE_SIZE THEN pipe_tail + (k + 1)
                                         ELSE pipe_tail + (k + 1) - PIPE_SIZE
      BY <1>1, <3>1, Wrap
    <3> QED BY <1>1, <2>1, <3>1, <3>2, <3>3 DEF Advance
  <2> QED BY <2>1, <2>2
<1>3. pipe_head' = (pipe_tail' + pipe_count') % PIPE_SIZE
  BY <1>1, <1>2 DEF RingOK
<1>4. pipe_tail % PIPE_SIZE = pipe_tail /\ pipe_tail + 1 - 1 = pipe_tail
  BY <1>1
<1>5. delivered' = Contents[1] /\ Contents[1] \in Values
  BY <1>1, <1>4 DEF Contents, RingOK
<1>6. ASSUME NEW i \in 1 .. pipe_count - 1
      PROVE  Contents'[i] = Contents[i + 1] /\ Contents[i + 1] \in Values
  <2>1. /\ i - 1 \in 0 .. pipe_count - 1
        /\ pipe_tail' + i - 1 = pipe_tail' + (i - 1)
        /\ pipe_tail + (i + 1) - 1 = pipe_tail + ((i - 1) + 1)
        /\ i + 1 \in 1 .. pipe_count
    BY <1>1, <1>2
  <2>2. /\ Contents'[i] = pipe_buffer[(pipe_tail' + i - 1) % PIPE_SIZE]
        /\ Contents[i + 1] = pipe_buffer[(pipe_tail + (i + 1) - 1) % PIPE_SIZE]
    BY <1>1, <2>1 DEF Contents
  <2> QED BY <1>2, <2>1, <2>2 DEF RingOK
<1>7. Contents' \in [1 .. pipe_count - 1 -> Values]
  <2>1. Contents' = [i \in 1 .. pipe_count - 1 |-> Contents'[i]]
    BY DEF Contents
  <2> QED BY <1>6, <2>1
<1>8. RingOK'
  BY <1>1, <1>2, <1>3, <1>5, <1>7 DEF RingOK
<1>9. /\ Contents \in Seq(Values) /\ Len(Contents) = pipe_count
      /\ Contents' \in Seq(Values) /\ Len(Contents') = pipe_count - 1
  BY <1>1, <1>7 DEF RingOK
<1>10. Contents # <<>> /\ Head(Contents) = Contents[1]
  <2> HIDE DEF Contents
  <2> QED BY <1>1, <1>9
<1>11. Contents' = Tail(Contents)
  <2>1. /\ Tail(Contents) \in Seq(Values) /\ Len(Tail(Contents)) = pipe_count - 1
        /\ \A i \in 1 .. pipe_count - 1 : Tail(Contents)[i] = Contents[i + 1]
    BY <1>9, <1>10, HeadTailProperties
  <2> QED BY <1>6, <1>9, <2>1, SeqEqual
<1> QED BY <1>5, <1>8, <1>10, <1>11 DEF AsChannel!Read

-----------------------------------------------------------------------------
(* A call that succeeds wakes everybody who waits in state s.              *)
LEMMA WakingAll ==
    ASSUME Inv, UserMode, NEW s \in Parked, Resume(Woken(Entry, s))
    PROVE  /\ Inv' /\ NobodyParks
           /\ \A p \in Pid : pcb'[p].state # s
<1> DEFINE w == Woken(Entry, s)
<1>1. mode = "user" /\ current_pid \in Pid
  BY DEF UserMode, Inv, SchedInv, SchedTypeOK
<1>2. /\ Handled(Entry) /\ Fresh(Entry) /\ Unparked(Entry)
      /\ Entry[current_pid].state = "RUNNING"
  BY <1>1, EntryTable
<1>3. ASSUME NEW p \in Pid
      PROVE  /\ w[p] \in PCB
             /\ w[p].waiting_for_pid = Entry[p].waiting_for_pid
             /\ \/ w[p].state = Entry[p].state /\ w[p].state # s
                \/ Entry[p].state = s /\ w[p].state = "READY"
  <2>1. Entry[p] \in PCB
    BY <1>2 DEF Handled, Tables
  <2>2. CASE Entry[p].state = s
    BY <2>1, <2>2 DEF Woken, PCB, State
  <2>3. CASE Entry[p].state # s
    BY <2>1, <2>3 DEF Woken
  <2> QED BY <2>2, <2>3
<1>4. w \in Tables
  <2>1. w = [p \in Pid |-> w[p]]
    BY DEF Woken
  <2> HIDE DEF w
  <2> QED BY <1>3, <2>1 DEF Tables
<1> HIDE DEF w
<1>5. /\ Handled(w) /\ Fresh(w) /\ Unparked(w) /\ w[current_pid].state = "RUNNING"
      /\ \A p \in Pid : w[p].state # s
  BY <1>1, <1>2, <1>3, <1>4 DEF Handled, Fresh, Alive, Unparked, Parked
<1>6. Resume(w)
  BY DEF w
<1>7. Inv' /\ NobodyParks /\ OnlyCpuMoved(w)
  BY <1>1, <1>5, <1>6, LeavingKernel
<1> QED BY <1>5, <1>7 DEF OnlyCpuMoved, Parked

LEMMA WritePipeInv ==
    ASSUME PipeInv, NEW val \in Values, WritePipe(val)
    PROVE  PipeInv' /\ (AsChannel!Write(val) \/ UNCHANGED <<Contents, delivered>>)
<1>1. Inv /\ RingOK /\ NobodyMissesPipe /\ UserMode /\ PIPE_SIZE # 0
  BY PipeInvParts, PipeAssumption DEF WritePipe
<1>2. CASE /\ pipe_count = PIPE_SIZE
           /\ Schedule(Stopped(Entry, "WAITING_PIPE_WRITE"))
           /\ UNCHANGED pipeVars
  <2>1. /\ Inv'
        /\ \A p \in Pid : pcb'[p].state \in Parked
                          => p = current_pid \/ pcb[p].state = pcb'[p].state
        /\ pcb'[current_pid].state = "WAITING_PIPE_WRITE"
    BY <1>1, <1>2, ParkingCall DEF Parked
  <2>2. RingOK' /\ UNCHANGED <<Contents, delivered>>
    BY <1>1, <1>2 DEF RingOK, pipeVars, Contents
  <2>3. NobodyMissesPipe'
    BY <1>1, <1>2, <2>1 DEF NobodyMissesPipe, Parked, pipeVars
  <2> QED BY <2>1, <2>2, <2>3, PipeInvParts DEF PipeInv, PipeTypeOK, RingOK,
          Contents, TypeOK, Inv, SchedInv
<1>3. CASE /\ pipe_count # PIPE_SIZE
           /\ pipe_buffer' = [pipe_buffer EXCEPT ![pipe_head] = val]
           /\ pipe_head' = Advance(pipe_head)
           /\ pipe_count' = pipe_count + 1
           /\ Resume(Woken(Entry, "WAITING_PIPE_READ"))
           /\ UNCHANGED <<pipe_tail, delivered>>
  <2>1. RingOK' /\ AsChannel!Write(val)
    BY <1>1, <1>3, WriteRing
  <2>2. Inv' /\ NobodyParks /\ \A p \in Pid : pcb'[p].state # "WAITING_PIPE_READ"
    BY <1>1, <1>3, WakingAll DEF Parked
  <2>3. NobodyMissesPipe'
    BY <1>1, <1>3, <2>2 DEF NobodyMissesPipe, NobodyParks, Unparked, Parked
  <2> QED BY <2>1, <2>2, <2>3 DEF PipeInv, PipeTypeOK, RingOK,
          Contents, TypeOK, Inv, SchedInv
<1> QED BY <1>2, <1>3 DEF WritePipe

LEMMA ReadPipeInv ==
    ASSUME PipeInv, ReadPipe
    PROVE  PipeInv' /\ (AsChannel!Read \/ UNCHANGED <<Contents, delivered>>)
<1>1. Inv /\ RingOK /\ NobodyMissesPipe /\ UserMode /\ PIPE_SIZE # 0
  BY PipeInvParts, PipeAssumption DEF ReadPipe
<1>2. CASE /\ pipe_count = 0
           /\ Schedule(Stopped(Entry, "WAITING_PIPE_READ"))
           /\ UNCHANGED pipeVars
  <2>1. /\ Inv'
        /\ \A p \in Pid : pcb'[p].state \in Parked
                          => p = current_pid \/ pcb[p].state = pcb'[p].state
        /\ pcb'[current_pid].state = "WAITING_PIPE_READ"
    BY <1>1, <1>2, ParkingCall DEF Parked
  <2>2. RingOK' /\ UNCHANGED <<Contents, delivered>>
    BY <1>1, <1>2 DEF RingOK, pipeVars, Contents
  <2>3. NobodyMissesPipe'
    BY <1>1, <1>2, <2>1 DEF NobodyMissesPipe, Parked, pipeVars
  <2> QED BY <2>1, <2>2, <2>3 DEF PipeInv, PipeTypeOK, RingOK,
          Contents, TypeOK, Inv, SchedInv
<1>3. CASE /\ pipe_count # 0
           /\ delivered' = pipe_buffer[pipe_tail]
           /\ pipe_tail' = Advance(pipe_tail)
           /\ pipe_count' = pipe_count - 1
           /\ Resume(Woken(Entry, "WAITING_PIPE_WRITE"))
           /\ UNCHANGED <<pipe_buffer, pipe_head>>
  <2>1. RingOK' /\ AsChannel!Read
    BY <1>1, <1>3, ReadRing
  <2>2. Inv' /\ NobodyParks /\ \A p \in Pid : pcb'[p].state # "WAITING_PIPE_WRITE"
    BY <1>1, <1>3, WakingAll DEF Parked
  <2>3. NobodyMissesPipe'
    BY <1>1, <1>3, <2>2 DEF NobodyMissesPipe, NobodyParks, Unparked, Parked
  <2> QED BY <2>1, <2>2, <2>3 DEF PipeInv, PipeTypeOK, RingOK,
          Contents, TypeOK, Inv, SchedInv
<1> QED BY <1>2, <1>3 DEF ReadPipe

LEMMA OtherCallInv ==
    ASSUME PipeInv, Next, UNCHANGED pipeVars
    PROVE  PipeInv' /\ UNCHANGED <<Contents, delivered>>
<1>1. Inv' /\ NobodyParks
  BY NextInv, PipeInvParts DEF Kept
<1>2. NobodyMissesPipe'
  BY <1>1 DEF PipeInv, NobodyMissesPipe, NobodyParks, Unparked, Parked, pipeVars
<1> QED BY <1>1, <1>2 DEF PipeInv, PipeTypeOK, pipeVars, Contents, TypeOK,
        Inv, SchedInv

LEMMA PipeInitInv ==
    ASSUME PipeInit
    PROVE  PipeInv /\ AsChannel!ChannelInit
<1>1. Inv /\ \A p \in Pid : pcb[p].state \notin Parked
  BY InitInv, InitUnparked DEF PipeInit
<1>2. PIPE_SIZE \in Nat \ {0} /\ 0 \in Index
  BY PipeAssumption DEF Index
<1>3. pipe_head = (pipe_tail + pipe_count) % PIPE_SIZE
  BY <1>2, Wrap DEF PipeInit
<1>4. 1 .. pipe_count = {} /\ Contents = <<>>
  BY DEF PipeInit, Contents
<1>5. RingOK
  BY <1>2, <1>3, <1>4 DEF PipeInit, RingOK
<1>6. NobodyMissesPipe
  BY <1>1 DEF NobodyMissesPipe, Parked
<1> QED BY <1>1, <1>4, <1>5, <1>6, PipeInvParts DEF PipeInit, AsChannel!ChannelInit

LEMMA PipeNextInv ==
    ASSUME PipeInv, [PipeNext]_<<schedVars, pipeVars>>
    PROVE  PipeInv' /\ [AsChannel!ChannelNext]_<<Contents, delivered>>
<1>1. CASE UNCHANGED <<schedVars, pipeVars>>
  <2>1. Inv'
    BY <1>1 DEF PipeInv, schedVars, Inv, SchedInv, SchedTypeOK, OneRunning,
       WorkConserving, Effective, NoneAlive, DeliveredOnReturn, NoStaleWaiter,
       Alive
  <2> QED BY <1>1, <2>1 DEF schedVars, pipeVars, PipeInv, PipeTypeOK,
          NobodyMissesPipe, Contents, TypeOK, Inv, SchedInv
<1> QED BY <1>1, WritePipeInv, ReadPipeInv, OtherCallInv
        DEF PipeNext, AsChannel!ChannelNext

(* The strengthening holds in every state of the kernel with its pipe.     *)
THEOREM PipeInvariant == PipeSpec => []PipeInv
BY PipeInitInv, PipeNextInv, PTL DEF PipeSpec

(* Indices, count and ring have their types: nothing is written outside     *)
(* pipe_buffer.                                                             *)
THEOREM PipeTypes == PipeSpec => []PipeTypeOK
<1>1. PipeInv => PipeTypeOK
  BY DEF PipeInv
<1> QED BY <1>1, PipeInvariant, PTL

(* Nobody waits for data while there is some, or for room while there is.  *)
THEOREM PipeNobodyMisses == PipeSpec => []NobodyMissesPipe
<1>1. PipeInv => NobodyMissesPipe
  BY DEF PipeInv
<1> QED BY <1>1, PipeInvariant, PTL

(* The ring of any size is a bounded FIFO channel. *)
THEOREM PipeIsChannel == PipeSpec => IsChannel
<1>1. PipeInit => AsChannel!ChannelInit
  BY PipeInitInv
<1>2. PipeInv /\ [PipeNext]_<<schedVars, pipeVars>>
      => [AsChannel!ChannelNext]_<<Contents, delivered>>
  BY PipeNextInv
<1> QED BY <1>1, <1>2, PipeInvariant, PTL
        DEF PipeSpec, IsChannel, AsChannel!ChannelSpec
=============================================================================
