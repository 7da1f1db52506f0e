-------------------------- MODULE ResourcesProofs --------------------------
(***************************************************************************)
(* Resources implements Process, and no process is ever without its memory *)
(* or on another's: for every number of slots, heap, key and policy.       *)
(*                                                                         *)
(* The argument is about sets and not about the table: who is alive (L),   *)
(* what each owns (o), what is in use (u) and the segments (s).  A step    *)
(* takes somebody out of L, or puts somebody in, or adds a segment, or     *)
(* touches none of them; that it does so is what ProcessProofs says of the *)
(* calls (Without, Born, NobodyEnds).                                      *)
(***************************************************************************)
EXTENDS Resources, ProcessProofs

(* NothingFreedInUse, StacksPrivate and NothingLeaks, and what they need   *)
(* to be inductive: data is in the heap exactly when data_is_heap says so, *)
(* because the last who shares it decides by its own flag.                 *)
MemoryOK(o, u, s, L) ==
    /\ o \in [Pid -> Owned] /\ L \subseteq Pid /\ u \subseteq Blocks /\ s \subseteq u
    /\ \A p \in Pid \ L : o[p] = Nothing
    /\ \A p \in L : /\ o[p].stack_mem \in u \ s
                    /\ o[p].mem_base \in (u \ s) \cup {Image}
                    /\ o[p].data_is_heap <=> o[p].mem_base # Image
    /\ \A p, q \in L : /\ o[p].stack_mem # o[q].mem_base
                       /\ p # q => o[p].stack_mem # o[q].stack_mem
    /\ \A b \in u \ s : \E p \in L : b \in {o[p].stack_mem, o[p].mem_base}

ResourcesInv ==
    Inv /\ MemoryOK(own, in_use, Segments, Live) /\ DOMAIN shm \subseteq Keys

-----------------------------------------------------------------------------
(* The process d is gone: its stack is free, and its data if nobody else   *)
(* has it.                                                                 *)
LEMMA MemoryWithout ==
    ASSUME NEW o, NEW u, NEW s, NEW L, MemoryOK(o, u, s, L), NEW d \in L,
           NEW F,
           F = {o[d].stack_mem}
               \cup {b \in {o[d].mem_base} :
                       /\ o[d].data_is_heap
                       /\ ~\E p \in L \ {d} : o[p].mem_base = o[d].mem_base}
    PROVE  MemoryOK([o EXCEPT ![d] = Nothing], u \ F, s, L \ {d})
<1> DEFINE o2 == [o EXCEPT ![d] = Nothing]
           u2 == u \ F
           L2 == L \ {d}
<1>1. /\ o \in [Pid -> Owned] /\ L \subseteq Pid /\ u \subseteq Blocks
      /\ s \subseteq u /\ Nothing \in Owned
      /\ \A p \in Pid \ L : o[p] = Nothing
  BY DEF MemoryOK, Nothing, Owned
<1>2. /\ o2 \in [Pid -> Owned]
      /\ o2[d] = Nothing
      /\ \A p \in Pid \ {d} : o2[p] = o[p]
  BY <1>1
<1>3. /\ \A p \in L : /\ o[p].stack_mem \in u \ s
                      /\ o[p].mem_base \in (u \ s) \cup {Image}
                      /\ o[p].data_is_heap <=> o[p].mem_base # Image
      /\ \A p, q \in L : /\ o[p].stack_mem # o[q].mem_base
                         /\ p # q => o[p].stack_mem # o[q].stack_mem
      /\ \A b \in u \ s : \E p \in L : b \in {o[p].stack_mem, o[p].mem_base}
  BY DEF MemoryOK
<1>4. s \subseteq u2
  BY <1>1, <1>3, ResourcesAssumption
<1>5. ASSUME NEW p \in L2
      PROVE  /\ o2[p].stack_mem \in u2 \ s
             /\ o2[p].mem_base \in (u2 \ s) \cup {Image}
             /\ o2[p].data_is_heap <=> o2[p].mem_base # Image
  <2>1. p \in L /\ p # d /\ o2[p] = o[p]
    BY <1>1, <1>2
  <2>2. o[p].stack_mem \notin F
    BY <1>3, <2>1
  <2>3. o[p].mem_base \notin F
    BY <1>3, <2>1
  <2> QED BY <1>3, <2>1, <2>2, <2>3
<1>6. ASSUME NEW p \in L2, NEW q \in L2
      PROVE  /\ o2[p].stack_mem # o2[q].mem_base
             /\ p # q => o2[p].stack_mem # o2[q].stack_mem
  BY <1>1, <1>2, <1>3
<1>7. ASSUME NEW b \in u2 \ s
      PROVE  \E p \in L2 : b \in {o2[p].stack_mem, o2[p].mem_base}
  <2>1. PICK p \in L : b \in {o[p].stack_mem, o[p].mem_base}
    BY <1>3
  <2>2. CASE p # d
    BY <1>1, <1>2, <2>1, <2>2
  <2>3. CASE p = d
    <3>1. b = o[d].mem_base /\ b # Image
      BY <1>1, <2>1, <2>3, ResourcesAssumption
    <3>2. PICK q \in L \ {d} : o[q].mem_base = b
      BY <1>3, <3>1
    <3> QED BY <1>1, <1>2, <3>2
  <2> QED BY <2>2, <2>3
<1>8. \A p \in Pid \ L2 : o2[p] = Nothing
  BY <1>1, <1>2
<1> HIDE DEF o2, u2, L2
<1>9. L2 \subseteq Pid /\ u2 \subseteq Blocks
  BY <1>1 DEF L2, u2
<1>10. MemoryOK(o2, u2, s, L2)
  BY <1>2, <1>4, <1>5, <1>6, <1>7, <1>8, <1>9 DEF MemoryOK
<1> QED BY <1>10 DEF o2, u2, L2

(* The process f is there: its stack is new, its data is new or somebody's. *)
LEMMA MemoryWith ==
    ASSUME NEW o, NEW u, NEW s, NEW L, MemoryOK(o, u, s, L), NEW f \in Pid \ L,
           NEW r \in Owned, NEW data, data \subseteq Blocks \ u,
           r.stack_mem \in Blocks \ u, r.stack_mem \notin data,
           \/ data = {r.mem_base} /\ r.data_is_heap
           \/ /\ data = {}
              /\ \E c \in L : /\ r.mem_base = o[c].mem_base
                              /\ r.data_is_heap = o[c].data_is_heap
    PROVE  MemoryOK([o EXCEPT ![f] = r], u \cup data \cup {r.stack_mem}, s, L \cup {f})
<1> DEFINE o2 == [o EXCEPT ![f] = r]
           u2 == u \cup data \cup {r.stack_mem}
           L2 == L \cup {f}
<1>1. /\ o \in [Pid -> Owned] /\ L \subseteq Pid /\ u \subseteq Blocks
      /\ s \subseteq u
      /\ \A p \in Pid \ L : o[p] = Nothing
  BY DEF MemoryOK
<1>2. /\ o2 \in [Pid -> Owned]
      /\ o2[f] = r
      /\ \A p \in Pid \ {f} : o2[p] = o[p]
  BY <1>1
<1>3. /\ \A p \in L : /\ o[p].stack_mem \in u \ s
                      /\ o[p].mem_base \in (u \ s) \cup {Image}
                      /\ o[p].data_is_heap <=> o[p].mem_base # Image
      /\ \A p, q \in L : /\ o[p].stack_mem # o[q].mem_base
                         /\ p # q => o[p].stack_mem # o[q].stack_mem
      /\ \A b \in u \ s : \E p \in L : b \in {o[p].stack_mem, o[p].mem_base}
  BY DEF MemoryOK
<1>4. /\ r.stack_mem \in u2 \ s
      /\ r.mem_base \in (u2 \ s) \cup {Image}
      /\ r.data_is_heap <=> r.mem_base # Image
      /\ r.stack_mem # r.mem_base
      /\ data = {} \/ data = {r.mem_base}
  BY <1>1, <1>3, ResourcesAssumption
<1>5. \A p \in L : o2[p] = o[p] /\ p # f
  BY <1>1, <1>2
<1>6. \A p \in L : /\ r.stack_mem # o[p].stack_mem
                   /\ r.stack_mem # o[p].mem_base
                   /\ r.mem_base # o[p].stack_mem
  BY <1>1, <1>3, ResourcesAssumption
<1>7. ASSUME NEW b \in u2 \ s
      PROVE  \E p \in L2 : b \in {o2[p].stack_mem, o2[p].mem_base}
  <2>1. CASE b \in u
    BY <1>3, <1>5, <2>1
  <2>2. CASE b \notin u
    BY <1>2, <1>4, <2>2
  <2> QED BY <2>1, <2>2
<1>8. ASSUME NEW p \in L2
      PROVE  /\ o2[p].stack_mem \in u2 \ s
             /\ o2[p].mem_base \in (u2 \ s) \cup {Image}
             /\ o2[p].data_is_heap <=> o2[p].mem_base # Image
  BY <1>2, <1>3, <1>4, <1>5
<1>9. ASSUME NEW p \in L2, NEW q \in L2
      PROVE  /\ o2[p].stack_mem # o2[q].mem_base
             /\ p # q => o2[p].stack_mem # o2[q].stack_mem
  BY <1>2, <1>3, <1>4, <1>5, <1>6
<1>10. /\ L2 \subseteq Pid /\ u2 \subseteq Blocks /\ s \subseteq u2
       /\ \A p \in Pid \ L2 : o2[p] = Nothing
  BY <1>1, <1>2
<1> HIDE DEF o2, u2, L2
<1>11. MemoryOK(o2, u2, s, L2)
  BY <1>2, <1>7, <1>8, <1>9, <1>10 DEF MemoryOK
<1> QED BY <1>11 DEF o2, u2, L2

-----------------------------------------------------------------------------
(* What the calls do to the processes alive, as sets. *)
LEMMA LiveAfter ==
    /\ NobodyEnds => Live' = Live
    /\ \A d : Without(pcb', d) => Live' = Live \ {d}
    /\ \A f : Born(f) => f \in Pid \ Live /\ Live' = Live \cup {f}
BY DEF NobodyEnds, Alike, Without, Born, Live

(* The end of d, found alive in a table that has the same processes alive. *)
LEMMA ReleaseInv ==
    ASSUME ResourcesInv, NEW t, Alike(t), NEW d \in Live,
           Inv', Without(pcb', d), ReleaseResources(t, d)
    PROVE  ResourcesInv'
<1>1. MemoryOK(own, in_use, Segments, Live) /\ Live' = Live \ {d}
  BY LiveAfter DEF ResourcesInv
<1>2. /\ own' = [own EXCEPT ![d] = Nothing]
      /\ in_use' = in_use \ Freed(t, d)
      /\ shm' = shm
  BY DEF ReleaseResources
<1>3. /\ own[d].stack_mem # Null
      /\ own[d].mem_base # Null
  BY <1>1, ResourcesAssumption DEF MemoryOK
<1>4. SharedElsewhere(t, d) <=> \E p \in Live \ {d} : own[p].mem_base = own[d].mem_base
  BY DEF SharedElsewhere, Alike, Live
<1>5. Freed(t, d) = {own[d].stack_mem}
                    \cup {b \in {own[d].mem_base} :
                            /\ own[d].data_is_heap
                            /\ ~\E p \in Live \ {d} : own[p].mem_base = own[d].mem_base}
  BY <1>3, <1>4 DEF Freed
<1>6. MemoryOK(own', in_use', Segments, Live')
  BY <1>1, <1>2, <1>5, MemoryWithout
<1>7. Segments' = Segments
  BY <1>2 DEF Segments
<1> QED BY <1>2, <1>6, <1>7 DEF ResourcesInv

LEMMA KeepInv ==
    ASSUME ResourcesInv, Inv', NobodyEnds, KeepResources
    PROVE  ResourcesInv'
<1>1. own' = own /\ in_use' = in_use /\ shm' = shm /\ Live' = Live
  BY LiveAfter DEF KeepResources, memoryVars
<1>2. Segments' = Segments
  BY <1>1 DEF Segments
<1> QED BY <1>1, <1>2 DEF ResourcesInv

LEMMA NotCreatedInv ==
    ASSUME ResourcesInv, NotCreated
    PROVE  ResourcesInv'
<1>1. Inv /\ mode = "user" /\ Resume(Entry)
  BY DEF ResourcesInv, NotCreated, UserMode
<1>2. Inv' /\ NobodyEnds
  BY <1>1, EntryTable, LeavingKernel
<1> QED BY <1>2, KeepInv DEF NotCreated

(* Who runs is alive. *)
LEMMA CurrentLive ==
    ASSUME Inv, UserMode
    PROVE  current_pid \in Live
BY DEF Inv, SchedInv, SchedTypeOK, OneRunning, UserMode, Live

LEMMA EndingInv ==
    ASSUME ResourcesInv, ExitReleasing \/ ThreadExitReleasing \/ FaultReleasing
    PROVE  ResourcesInv'
<1>1. Inv /\ UserMode
  BY DEF ResourcesInv, ExitReleasing, ThreadExitReleasing, FaultReleasing, Exit,
     ThreadExit, Fault
<1>2. current_pid \in Live /\ Alike(Entry) /\ Alike(pcb)
  BY <1>1, CurrentLive, EntryTable DEF UserMode, Alike
<1>3. CASE ExitReleasing
  <2>1. Inv' /\ Without(pcb', current_pid)
    BY <1>1, <1>3, TerminatingCalls DEF ExitReleasing, Kept
  <2> QED BY <1>2, <1>3, <2>1, ReleaseInv DEF ExitReleasing
<1>4. CASE ThreadExitReleasing /\ pcb[current_pid].is_thread
  <2>1. Inv' /\ Without(pcb', current_pid)
    BY <1>1, <1>4, TerminatingCalls DEF ThreadExitReleasing, Kept
  <2> QED BY <1>2, <1>4, <2>1, ReleaseInv DEF ThreadExitReleasing
<1>5. CASE ThreadExitReleasing /\ ~pcb[current_pid].is_thread
  <2>1. Inv' /\ NobodyEnds
    BY <1>1, <1>5, TerminatingCalls DEF ThreadExitReleasing, Kept
  <2> QED BY <1>5, <2>1, KeepInv DEF ThreadExitReleasing
<1>6. CASE FaultReleasing
  <2>1. Inv' /\ Without(pcb', current_pid)
    BY <1>1, <1>6, TerminatingCalls DEF FaultReleasing, Kept
  <2> QED BY <1>2, <1>6, <2>1, ReleaseInv DEF FaultReleasing
<1> QED BY <1>3, <1>4, <1>5, <1>6

LEMMA KillReleasingInv ==
    ASSUME ResourcesInv, NEW target, NEW signal \in Signals,
           KillReleasing(target, signal)
    PROVE  ResourcesInv'
<1>1. Inv /\ mode = "user" /\ signal \in Nat /\ Kill(target, signal)
  BY ProcessAssumption DEF ResourcesInv, KillReleasing, Kill, UserMode
<1>2. /\ Inv'
      /\ IF signal = SIGKILL /\ Alive(Entry, target)
         THEN Without(pcb', target) ELSE NobodyEnds
  BY <1>1, KillInv DEF Kept
<1>3. CASE signal = SIGKILL /\ Alive(Entry, target)
  <2>1. Alike(Entry)
    BY <1>1, EntryTable
  <2>2. target \in Live
    BY <1>3, <2>1 DEF Alike, Alive, Live
  <2> QED BY <1>2, <1>3, <2>1, <2>2, ReleaseInv DEF KillReleasing
<1>4. CASE ~(signal = SIGKILL /\ Alive(Entry, target))
  BY <1>2, <1>4, KeepInv DEF KillReleasing
<1> QED BY <1>3, <1>4

LEMMA CreatingInv ==
    ASSUME ResourcesInv, NEW priority \in Priorities,
           SpawnProcess(priority) \/ CreateThread(priority)
    PROVE  ResourcesInv'
<1> DEFINE f == FreePid(Entry)
<1>1. Inv /\ MemoryOK(own, in_use, Segments, Live)
  BY DEF ResourcesInv
<1>2. CASE NotCreated
  BY <1>2, NotCreatedInv
<1>3. ASSUME NEW is_thread \in BOOLEAN, UserMode, Created(priority, is_thread)
      PROVE  /\ Inv' /\ f \in Pid \ Live /\ Live' = Live \cup {f}
             /\ current_pid \in Live
  <2>1. Inv' /\ Born(f)
    BY <1>1, <1>3, SpawnInv DEF Spawn, Kept
  <2> QED BY <1>1, <1>3, <2>1, LiveAfter, CurrentLive
<1>4. ASSUME UserMode, Created(priority, FALSE), NEW data \in Blocks \ in_use,
             NEW stack \in Blocks \ in_use, data # stack,
             in_use' = in_use \cup {data, stack},
             own' = [own EXCEPT ![f] = [mem_base |-> data, data_is_heap |-> TRUE,
                                        stack_mem |-> stack]],
             shm' = shm
      PROVE  ResourcesInv'
  <2> DEFINE r == [mem_base |-> data, data_is_heap |-> TRUE, stack_mem |-> stack]
  <2>1. /\ Inv' /\ f \in Pid \ Live /\ Live' = Live \cup {f}
    BY <1>3, <1>4
  <2>2. r \in Owned /\ r.mem_base = data /\ r.stack_mem = stack /\ r.data_is_heap
    BY DEF Owned
  <2>3. own' = [own EXCEPT ![f] = r] /\ in_use' = in_use \cup {data} \cup {r.stack_mem}
    BY <1>4
  <2>6. /\ r.stack_mem \in (Blocks \ in_use) \ {data}
        /\ {data} \subseteq Blocks \ in_use
        /\ r.data_is_heap /\ {data} = {r.mem_base}
    BY <1>4, <2>2
  <2> HIDE DEF r, f
  <2>7. MemoryOK([own EXCEPT ![f] = r], in_use \cup {data} \cup {r.stack_mem},
                 Segments, Live \cup {f})
    BY ONLY <1>1, <2>1, <2>2, <2>6, MemoryWith
  <2>4. MemoryOK(own', in_use', Segments, Live')
    BY <2>1, <2>3, <2>7
  <2>5. Segments' = Segments
    BY <1>4 DEF Segments
  <2> QED BY <1>4, <2>1, <2>4, <2>5 DEF ResourcesInv
<1>5. ASSUME UserMode, Created(priority, TRUE), NEW stack \in Blocks \ in_use,
             in_use' = in_use \cup {stack},
             own' = [own EXCEPT ![f] = [own[current_pid] EXCEPT !.stack_mem = stack]],
             shm' = shm
      PROVE  ResourcesInv'
  <2> DEFINE c == own[current_pid]
             r == [c EXCEPT !.stack_mem = stack]
  <2>1. /\ Inv' /\ f \in Pid \ Live /\ Live' = Live \cup {f} /\ current_pid \in Live
    BY <1>3, <1>5
  <2>2. c \in Owned
    BY <1>1, <2>1 DEF MemoryOK
  <2>3. /\ r \in Owned /\ r.stack_mem = stack
        /\ r.mem_base = c.mem_base /\ r.data_is_heap = c.data_is_heap
    BY <2>2 DEF Owned
  <2>4. own' = [own EXCEPT ![f] = r] /\ in_use' = in_use \cup {} \cup {r.stack_mem}
    BY <1>5, <2>3
  <2>7. r.stack_mem \in (Blocks \ in_use) \ {}
    BY <1>5, <2>3
  <2>8. \E q \in Live : /\ r.mem_base = own[q].mem_base
                        /\ r.data_is_heap = own[q].data_is_heap
    BY <2>1, <2>3
  <2> HIDE DEF r, f, c
  <2>9. MemoryOK([own EXCEPT ![f] = r], in_use \cup {} \cup {r.stack_mem},
                 Segments, Live \cup {f})
    BY ONLY <1>1, <2>1, <2>3, <2>7, <2>8, MemoryWith
  <2>5. MemoryOK(own', in_use', Segments, Live')
    BY <2>1, <2>4, <2>9
  <2>6. Segments' = Segments
    BY <1>5 DEF Segments
  <2> QED BY <1>5, <2>1, <2>5, <2>6 DEF ResourcesInv
<1> QED BY <1>2, <1>4, <1>5 DEF SpawnProcess, CreateThread

LEMMA ShmgetInv ==
    ASSUME ResourcesInv, NEW key \in Keys, Shmget(key)
    PROVE  ResourcesInv'
<1>1. Inv /\ mode = "user" /\ Resume(Entry) /\ own' = own
  BY DEF ResourcesInv, Shmget, UserMode
<1>2. Inv' /\ NobodyEnds /\ Live' = Live
  BY <1>1, EntryTable, LeavingKernel, LiveAfter
<1>3. CASE UNCHANGED <<in_use, shm>>
  BY <1>1, <1>2, <1>3, KeepInv DEF KeepResources, memoryVars
<1>4. ASSUME NEW block \in Blocks \ in_use, in_use' = in_use \cup {block},
             key \notin DOMAIN shm,
             shm' = [k \in DOMAIN shm \cup {key} |-> IF k = key THEN block ELSE shm[k]]
      PROVE  ResourcesInv'
  <2>1. Segments' = Segments \cup {block}
    BY <1>4 DEF Segments
  <2>2. DOMAIN shm' \subseteq Keys
    BY <1>4 DEF ResourcesInv
  <2>3. MemoryOK(own, in_use', Segments', Live)
    BY <1>4, <2>1 DEF MemoryOK, ResourcesInv
  <2> QED BY <1>1, <1>2, <2>2, <2>3 DEF ResourcesInv
<1> QED BY <1>3, <1>4 DEF Shmget

LEMMA OtherInv ==
    ASSUME ResourcesInv, SchedulerStep \/ OtherCall, KeepResources
    PROVE  ResourcesInv'
<1>1. Inv
  BY DEF ResourcesInv
<1>2. Inv' /\ NobodyEnds
  <2>1. CASE Timer \/ Yield \/ LightCall
    BY <1>1, <2>1, SchedulerCalls DEF Kept
  <2>2. CASE IdleTick
    BY <1>1, <2>2, IdleTickInv DEF Kept
  <2>3. CASE \E target \in PidArgument : Wait(target)
    BY <1>1, <2>3, WaitInv DEF Kept
  <2>4. CASE Pause \/ \E ticks \in SleepTicks : Sleep(ticks)
    BY <1>1, <2>4, StoppingCalls, ProcessAssumption DEF Kept
  <2>5. CASE \/ \E ticks \in AlarmTicks : Alarm(ticks)
             \/ \E installed \in BOOLEAN : Signal(installed)
             \/ Sigreturn
    BY <1>1, <2>5, SelfCalls, ProcessAssumption DEF Kept
  <2> QED BY <2>1, <2>2, <2>3, <2>4, <2>5 DEF SchedulerStep, OtherCall
<1> QED BY <1>2, KeepInv

LEMMA ResourcesInitInv == ResourcesInit => ResourcesInv
<1> SUFFICES ASSUME ResourcesInit PROVE ResourcesInv
  OBVIOUS
<1>1. Inv
  BY InitInv DEF ResourcesInit
<1>2. Live = 0 .. Overlays - 1
  <2> DEFINE new == NewPCB(OverlayPriority, FALSE)
             run == [new EXCEPT !.state = "RUNNING"]
  <2>1. /\ new.state = "READY" /\ run.state = "RUNNING"
        /\ FreePCB.state = "TERMINATED"
    BY DEF NewPCB, FreePCB
  <2> HIDE DEF new, run
  <2>2. pcb = [p \in Pid |-> IF p = 0 THEN run
                             ELSE IF p < Overlays THEN new ELSE FreePCB]
    BY DEF ResourcesInit, SchedInit, new, run
  <2>3. \A p \in Pid : p < Overlays \/ p = 0 <=> pcb[p].state # "TERMINATED"
    BY <2>1, <2>2
  <2>4. 0 .. Overlays - 1 = {p \in Pid : p < Overlays \/ p = 0}
    BY SchedulerAssumption DEF Pid
  <2> QED BY <2>3, <2>4 DEF Live
<1>3. PICK stack \in [0 .. Overlays - 1 -> Blocks] :
         /\ \A p, q \in 0 .. Overlays - 1 : p # q => stack[p] # stack[q]
         /\ own = [p \in Pid |->
                     IF p < Overlays
                     THEN [mem_base |-> Image, data_is_heap |-> FALSE,
                           stack_mem |-> stack[p]]
                     ELSE Nothing]
         /\ in_use = {stack[p] : p \in 0 .. Overlays - 1}
  BY DEF ResourcesInit
<1>4. /\ Live \subseteq Pid
      /\ \A p \in Pid : p \in Live <=> p < Overlays
  BY <1>2, SchedulerAssumption DEF Pid
<1>5. DOMAIN shm = {} /\ Segments = {}
  BY DEF ResourcesInit, Segments
<1>6. own \in [Pid -> Owned] /\ \A p \in Pid \ Live : own[p] = Nothing
  <2>1. Nothing \in Owned
    BY DEF Nothing, Owned
  <2>2. \A p \in Live : own[p] \in Owned
    BY <1>2, <1>3, <1>4 DEF Owned
  <2> QED BY <1>3, <1>4, <2>1, <2>2
<1>7. \A p \in Live : /\ own[p].stack_mem = stack[p]
                      /\ own[p].mem_base = Image
                      /\ own[p].data_is_heap = FALSE
                      /\ stack[p] \in in_use /\ stack[p] \in Blocks
  BY <1>2, <1>3, <1>4
<1>8. \A b \in in_use : \E p \in Live : b = own[p].stack_mem
  <2> TAKE b \in in_use
  <2>1. PICK p \in 0 .. Overlays - 1 : b = stack[p]
    BY <1>3
  <2>2. p \in Live
    BY <1>2
  <2> QED BY <1>7, <2>1, <2>2
<1>9. in_use \subseteq Blocks
  BY <1>3
<1>10. MemoryOK(own, in_use, Segments, Live)
  BY <1>2, <1>3, <1>4, <1>5, <1>6, <1>7, <1>8, <1>9, ResourcesAssumption DEF MemoryOK
<1> QED BY <1>1, <1>5, <1>10 DEF ResourcesInv

-----------------------------------------------------------------------------
(* The memory of the processes is in order in every reachable state. *)
THEOREM ResourcesInvariant == ResourcesSpec => []ResourcesInv
<1>1. ResourcesInv /\ [ResourcesNext]_<<schedVars, memoryVars>> => ResourcesInv'
  <2> SUFFICES ASSUME ResourcesInv, [ResourcesNext]_<<schedVars, memoryVars>>
               PROVE  ResourcesInv'
    OBVIOUS
  <2>1. CASE ResourcesNext
    BY <2>1, EndingInv, KillReleasingInv, CreatingInv, ShmgetInv, OtherInv
       DEF ResourcesNext
  <2>2. CASE UNCHANGED <<schedVars, memoryVars>>
    <3>1. Inv' /\ NobodyEnds
      BY <2>2 DEF ResourcesInv, schedVars, Inv, SchedInv, SchedTypeOK, OneRunning,
         WorkConserving, Effective, NoneAlive, DeliveredOnReturn, NoStaleWaiter,
         Alive, NobodyEnds, Alike
    <3> QED BY <2>2, <3>1, KeepInv DEF KeepResources
  <2> QED BY <2>1, <2>2
<1> QED BY <1>1, ResourcesInitInv, PTL DEF ResourcesSpec

(* The memory variables keep their types, and a free slot owns nothing. *)
THEOREM ResourcesTypes == ResourcesSpec => []ResourcesTypeOK
<1>1. ResourcesInv => ResourcesTypeOK
  BY DEF ResourcesInv, MemoryOK, ResourcesTypeOK
<1> QED BY <1>1, ResourcesInvariant, PTL

(* No use after free, no double free, and nobody's memory is another's:    *)
(* clones and threads that share data included, in whatever order they     *)
(* end.                                                                    *)
THEOREM ResourcesMemorySafe == ResourcesSpec => []MemorySafe
<1>1. ResourcesInv => MemorySafe
  <2> SUFFICES ASSUME ResourcesInv PROVE MemorySafe
    OBVIOUS
  <2>1. NothingFreedInUse
    BY DEF ResourcesInv, MemoryOK, NothingFreedInUse, Holds
  <2>2. StacksPrivate
    BY ResourcesAssumption DEF ResourcesInv, MemoryOK, StacksPrivate
  <2> QED BY <2>1, <2>2 DEF MemorySafe
<1> QED BY <1>1, ResourcesInvariant, PTL

(* What is allocated is always somebody's: nothing leaks. *)
THEOREM ResourcesNoLeak == ResourcesSpec => []NothingLeaks
<1>1. ResourcesInv => NothingLeaks
  <2> SUFFICES ASSUME ResourcesInv PROVE NothingLeaks
    OBVIOUS
  <2>1. \A b : b \in in_use => b \in Segments \/ \E p \in Live : b \in Holds(p)
    BY ResourcesAssumption DEF ResourcesInv, MemoryOK, Holds
  <2>2. \A p \in Live : Holds(p) \subseteq in_use
    BY DEF ResourcesInv, MemoryOK, Holds
  <2>3. Segments \subseteq in_use
    BY DEF ResourcesInv, MemoryOK
  <2> QED BY <2>1, <2>2, <2>3 DEF NothingLeaks
<1> QED BY <1>1, ResourcesInvariant, PTL

(* With its memory the system does nothing that Process does not allow: a  *)
(* refused block is a creation that fails, a segment is a call that        *)
(* touches no process.  All that is proved of Process holds of it.         *)
THEOREM ResourcesImplementsProcess == ResourcesSpec => Spec
<1>1. ResourcesInit => SchedInit
  BY DEF ResourcesInit
<1>2. ResourcesNext => Next
  <2> SUFFICES ASSUME ResourcesNext PROVE Next
    OBVIOUS
  <2>1. CASE ExitReleasing \/ ThreadExitReleasing \/ FaultReleasing
    BY <2>1 DEF ExitReleasing, ThreadExitReleasing, FaultReleasing, Next, SystemCall
  <2>2. CASE \E target \in PidArgument, signal \in Signals : KillReleasing(target, signal)
    BY <2>2 DEF KillReleasing, Next, SystemCall
  <2>3. CASE \E priority \in Priorities : SpawnProcess(priority) \/ CreateThread(priority)
    <3>1. PICK priority \in Priorities : SpawnProcess(priority) \/ CreateThread(priority)
      BY <2>3
    <3>2. Spawn(priority, FALSE) \/ Spawn(priority, TRUE)
      BY <3>1 DEF SpawnProcess, CreateThread, NotCreated, Spawn
    <3> QED BY <3>2 DEF Next, SystemCall
  <2>4. CASE \E key \in Keys : Shmget(key)
    BY <2>4 DEF Shmget, Entry, LightCall, Next, SystemCall
  <2>5. CASE SchedulerStep \/ OtherCall
    BY <2>5 DEF OtherCall, Next, SystemCall
  <2> QED BY <2>1, <2>2, <2>3, <2>4, <2>5 DEF ResourcesNext
<1>3. UNCHANGED <<schedVars, memoryVars>> => UNCHANGED schedVars
  OBVIOUS
<1> QED BY <1>1, <1>2, <1>3, PTL DEF ResourcesSpec, Spec
=============================================================================
