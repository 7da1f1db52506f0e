--------------------------- MODULE ProcessProofs ---------------------------
(***************************************************************************)
(* The safety of Process for every number of slots, every policy and all   *)
(* arguments of the system calls.                                          *)
(*                                                                         *)
(* The inductive invariant is the scheduler's (SchedInv) and NoStaleWaiter *)
(* together.  Every action builds one table, from Entry, and hands it to   *)
(* Schedule or to Resume; so each needs only this about its table: that    *)
(* nobody but the caller is RUNNING in it (Handled), nobody waits in it    *)
(* for the dead (Fresh) and nobody grew older in it (Rested).              *)
(***************************************************************************)
EXTENDS Process, SchedulerProofs

Inv == SchedInv /\ NoStaleWaiter

Fresh(t) == \A p \in Pid : t[p].state = "WAITING" => Alive(t, t[p].waiting_for_pid)

(* The states in which the calls of other modules make a process wait; no  *)
(* call of Process puts anybody in one of them.                            *)
Parked == {"BLOCKED", "WAITING_PIPE_READ", "WAITING_PIPE_WRITE"}

Unparked(t) == \A p \in Pid : t[p].state \in Parked => t[p].state = pcb[p].state

NobodyParks == Unparked(pcb')

(* Whoever waits goes on waiting for the same process, unless one of the   *)
(* two ends.                                                               *)
WaitersStay(t) ==
    \A p \in Pid :
        pcb[p].state = "WAITING" =>
            \/ /\ t[p].state = "WAITING"
               /\ t[p].waiting_for_pid = pcb[p].waiting_for_pid
            \/ t[p].state = "TERMINATED"
            \/ t[pcb[p].waiting_for_pid].state = "TERMINATED"

Kept == Inv' /\ RoundRobinStep /\ NobodyParks /\ AgesKept /\ WaitersStay(pcb')

(* The same processes are alive in table t as now, or all but d.           *)
Alike(t) ==
    \A p \in Pid : t[p].state = "TERMINATED" <=> pcb[p].state = "TERMINATED"

Without(t, d) ==
    \A p \in Pid : t[p].state = "TERMINATED"
                   <=> pcb[p].state = "TERMINATED" \/ p = d

NobodyEnds == Alike(pcb')

(* The free slot p is taken, and nothing else happens to anybody.          *)
Born(p) ==
    /\ p \in Pid
    /\ pcb[p].state = "TERMINATED"
    /\ \A q \in Pid : pcb'[q].state = "TERMINATED"
                      <=> pcb[q].state = "TERMINATED" /\ q # p

LEMMA LeavingKernel ==
    ASSUME Inv, NEW t, Handled(t), Fresh(t),
           \/ Schedule(t)
           \/ mode = "user" /\ t[current_pid].state = "RUNNING" /\ Resume(t)
    PROVE  /\ Inv' /\ RoundRobinStep /\ OnlyCpuMoved(t)
           /\ Unparked(t) => NobodyParks
           /\ Rested(pcb, t) => AgesKept
           /\ WaitersStay(t) => WaitersStay(pcb')
           /\ Alike(t) => NobodyEnds
           /\ \A d : Without(t, d) => Without(pcb', d)
<1>1. SchedInv' /\ OnlyCpuMoved(t) /\ RoundRobinStep
  <2>1. CASE Schedule(t)
    BY <2>1, ScheduleStep, ScheduleRoundRobin DEF Inv, SchedInv
  <2>2. CASE mode = "user" /\ t[current_pid].state = "RUNNING" /\ Resume(t)
    BY <2>2, ResumeStep DEF Inv, RoundRobinStep
  <2> QED BY <2>1, <2>2
<1>2. NoStaleWaiter'
  BY <1>1 DEF NoStaleWaiter, Fresh, Alive, OnlyCpuMoved
<1>3. Unparked(t) => NobodyParks
  BY <1>1 DEF NobodyParks, Unparked, Parked, OnlyCpuMoved
<1>4. \A p \in Pid : pcb'[p].state = "TERMINATED" <=> t[p].state = "TERMINATED"
  BY <1>1 DEF OnlyCpuMoved
<1>5. Alike(t) => NobodyEnds
  BY <1>4 DEF Alike, NobodyEnds
<1>6. \A d : Without(t, d) => Without(pcb', d)
  BY <1>4 DEF Without
<1>7. Rested(pcb, t) => AgesKept
  BY LeavingAging DEF Inv, SchedInv
<1>8. WaitersStay(t) => WaitersStay(pcb')
  BY <1>1 DEF WaitersStay, OnlyCpuMoved, Inv, NoStaleWaiter, Alive
<1> QED BY <1>1, <1>2, <1>3, <1>5, <1>6, <1>7, <1>8 DEF Inv

(* The clock leaves a table a handler can work on. *)
LEMMA EntryTable ==
    ASSUME Inv, mode = "user"
    PROVE  /\ Handled(Entry) /\ Fresh(Entry) /\ Unparked(Entry)
           /\ Alike(Entry) /\ Rested(pcb, Entry) /\ WaitersStay(Entry)
           /\ Entry[current_pid].state = "RUNNING"
<1>1. /\ pcb \in Tables
      /\ current_pid \in Pid
      /\ \A p \in Pid : pcb[p].state = "RUNNING" <=> p = current_pid
      /\ Fresh(pcb)
  BY DEF Inv, SchedInv, SchedTypeOK, OneRunning, NoStaleWaiter, Fresh, Tables
<1>2. Entry \in Tables /\ ClockStep(pcb, Entry) /\ Rested(pcb, Entry)
  BY <1>1, TickUpdateStep, ClockRested DEF Entry
<1> QED BY <1>1, <1>2 DEF Handled, Fresh, Alive, ClockStep, Unparked, Parked,
        Alike, WaitersStay

LEMMA TerminatedTable ==
    ASSUME NEW t, Handled(t), Fresh(t), NEW d \in Pid
    PROVE  /\ Handled(Terminated(t, d)) /\ Fresh(Terminated(t, d))
           /\ Unparked(t) => Unparked(Terminated(t, d))
           /\ Alike(t) => Without(Terminated(t, d), d)
           /\ Rested(pcb, t) => Rested(pcb, Terminated(t, d))
           /\ NoStaleWaiter /\ WaitersStay(t) => WaitersStay(Terminated(t, d))
<1> DEFINE u == [t EXCEPT ![d].state = "TERMINATED"]
           v == WakeupWaiters(u, d)
<1>1. /\ u \in Tables
      /\ u[d].state = "TERMINATED"
      /\ \A p \in Pid \ {d} : u[p] = t[p]
  <2>1. t \in Tables /\ t[d] \in PCB
    BY DEF Handled, Tables
  <2>2. [t[d] EXCEPT !.state = "TERMINATED"] \in PCB
    BY <2>1 DEF PCB, State
  <2> QED BY <2>1, <2>2 DEF Tables, PCB
<1> HIDE DEF u
<1>2. ASSUME NEW p \in Pid
      PROVE  /\ v[p] \in PCB
             /\ \/ v[p] = u[p]
                   /\ ~(u[p].state = "WAITING" /\ u[p].waiting_for_pid = d)
                \/ v[p].state = "READY" /\ u[p].state = "WAITING"
  <2>1. u[p] \in PCB
    BY <1>1 DEF Tables
  <2> QED BY <2>1 DEF WakeupWaiters, PCB, State
<1>3. v \in Tables
  BY <1>2 DEF WakeupWaiters, Tables
<1>4. Handled(v)
  BY <1>1, <1>2, <1>3 DEF Handled
<1>5. Fresh(v)
  <2> SUFFICES ASSUME NEW p \in Pid, v[p].state = "WAITING"
               PROVE  Alive(v, v[p].waiting_for_pid)
    BY DEF Fresh
  <2>1. v[p] = u[p] /\ u[p].waiting_for_pid # d
    BY <1>2
  <2>2. p # d /\ u[p] = t[p]
    BY <1>1, <2>1
  <2>3. t[p].waiting_for_pid \in Pid /\ t[t[p].waiting_for_pid].state # "TERMINATED"
    BY <2>1, <2>2 DEF Fresh, Alive
  <2>4. u[t[p].waiting_for_pid].state # "TERMINATED"
    BY <1>1, <2>1, <2>2, <2>3
  <2> QED BY <1>2, <2>1, <2>2, <2>3, <2>4 DEF Alive
<1>6. Unparked(t) => Unparked(v)
  BY <1>1, <1>2 DEF Unparked, Parked
<1>7. Alike(t) => Without(v, d)
  BY <1>1, <1>2 DEF Alike, Without
<1>8. Rested(pcb, t) => Rested(pcb, v)
  <2>1. Rested(t, u)
    <3>1. u[d].age = t[d].age /\ u[d].priority = t[d].priority
      BY DEF u, Handled, Tables, PCB
    <3> QED BY <1>1, <3>1 DEF Rested, Rest
  <2>2. Rested(u, v)
    <3> SUFFICES ASSUME NEW p \in Pid
                 PROVE  Rest(u[p], v[p])
      BY DEF Rested
    <3>1. CASE v[p] = u[p]
      BY <3>1 DEF Rest
    <3>2. CASE v[p] # u[p]
      <4>1. u[p] \in PCB
        BY <1>1 DEF Tables
      <4>2. v[p] = [u[p] EXCEPT !.state = "READY", !.waiting_for_pid = -1]
        BY <3>2 DEF WakeupWaiters
      <4>3. v[p].age = u[p].age /\ v[p].priority = u[p].priority
        BY <4>1, <4>2 DEF PCB
      <4> QED BY <1>2, <3>2, <4>3 DEF Rest, Idler
    <3> QED BY <3>1, <3>2
  <2> HIDE DEF v
  <2> QED BY <2>1, <2>2, RestedTrans
<1>9. NoStaleWaiter /\ WaitersStay(t) => WaitersStay(v)
  <2> SUFFICES ASSUME NoStaleWaiter, WaitersStay(t),
                      NEW p \in Pid, pcb[p].state = "WAITING"
               PROVE  \/ /\ v[p].state = "WAITING"
                         /\ v[p].waiting_for_pid = pcb[p].waiting_for_pid
                      \/ v[p].state = "TERMINATED"
                      \/ v[pcb[p].waiting_for_pid].state = "TERMINATED"
    BY DEF WaitersStay
  <2>1. pcb[p].waiting_for_pid \in Pid
    BY DEF NoStaleWaiter, Alive
  <2>2. \A q \in Pid : t[q].state = "TERMINATED" \/ q = d
                      => v[q].state = "TERMINATED"
    BY <1>1, <1>2
  <2>3. CASE p # d /\ pcb[p].waiting_for_pid # d /\ t[p].state = "WAITING"
             /\ t[p].waiting_for_pid = pcb[p].waiting_for_pid
    BY <1>1, <2>3 DEF WakeupWaiters
  <2> QED BY <2>1, <2>2, <2>3 DEF WaitersStay
<1> QED BY <1>4, <1>5, <1>6, <1>7, <1>8, <1>9 DEF Terminated, u

(* A record of the table replaced by one that does not wait, of a process  *)
(* that stays alive or comes alive, spoils nothing for the others.         *)
LEMMA UpdatedTable ==
    ASSUME NEW t, Handled(t), Fresh(t), NEW p \in Pid, NEW r \in PCB,
           r.state # "TERMINATED",
           r.state = "WAITING" => Alive(t, r.waiting_for_pid),
           r.state = "RUNNING" => p = current_pid
    PROVE  /\ Handled([t EXCEPT ![p] = r]) /\ Fresh([t EXCEPT ![p] = r])
           /\ Unparked(t) /\ (r.state \in Parked => r.state = t[p].state)
              => Unparked([t EXCEPT ![p] = r])
<1>1. Handled([t EXCEPT ![p] = r]) /\ Fresh([t EXCEPT ![p] = r])
  BY DEF Handled, Fresh, Alive, Tables
<1>2. Unparked(t) /\ (r.state \in Parked => r.state = t[p].state)
      => Unparked([t EXCEPT ![p] = r])
  BY DEF Handled, Tables, Unparked
<1> QED BY <1>1, <1>2

LEMMA InitInv == SchedInit => Inv
<1> SUFFICES ASSUME SchedInit PROVE Inv
  OBVIOUS
<1> DEFINE new == NewPCB(OverlayPriority, FALSE)
           run == [new EXCEPT !.state = "RUNNING"]
<1>1. /\ new \in PCB /\ new.state = "READY"
      /\ run \in PCB /\ run.state = "RUNNING" /\ run.pending_signal = 0
      /\ FreePCB \in PCB /\ FreePCB.state = "TERMINATED"
  BY SchedulerAssumption DEF NewPCB, FreePCB, PCB, State
<1> HIDE DEF new, run
<1>2. 0 \in Pid
  BY SchedulerAssumption DEF Pid
<1>3. /\ pcb = [p \in Pid |-> IF p = 0 THEN run
                           ELSE IF p < Overlays THEN new ELSE FreePCB]
      /\ current_pid = 0 /\ mode = "user"
  BY DEF SchedInit, new, run
<1>4. SchedTypeOK /\ OneRunning /\ NoStaleWaiter
  BY <1>1, <1>2, <1>3 DEF SchedTypeOK, OneRunning, NoStaleWaiter, Alive
<1>5. WorkConserving /\ DeliveredOnReturn
  BY <1>1, <1>2, <1>3 DEF WorkConserving, DeliveredOnReturn
<1> QED BY <1>4, <1>5 DEF Inv, SchedInv

LEMMA InitUnparked ==
    ASSUME SchedInit
    PROVE  \A p \in Pid : pcb[p].state \notin Parked
<1> DEFINE new == NewPCB(OverlayPriority, FALSE)
           run == [new EXCEPT !.state = "RUNNING"]
<1>1. /\ new.state = "READY" /\ run.state = "RUNNING"
      /\ FreePCB.state = "TERMINATED"
  BY DEF NewPCB, FreePCB
<1> HIDE DEF new, run
<1>2. pcb = [p \in Pid |-> IF p = 0 THEN run
                           ELSE IF p < Overlays THEN new ELSE FreePCB]
  BY DEF SchedInit, new, run
<1> QED BY <1>1, <1>2 DEF Parked

LEMMA IdleTickInv ==
    ASSUME Inv, IdleTick
    PROVE  Kept /\ NobodyEnds
<1> DEFINE w == WarpUpdate(pcb)
<1>1. /\ SchedTypeOK /\ pcb \in Tables /\ ~NoneAlive(pcb) /\ Fresh(pcb)
      /\ \A p \in Pid : pcb[p].state # "RUNNING"
  BY DEF Inv, SchedInv, SchedTypeOK, OneRunning, WorkConserving, NoStaleWaiter,
     Fresh, Tables, IdleTick
<1>2. w \in Tables /\ ClockStep(pcb, w) /\ Rested(pcb, w)
  BY <1>1, WarpUpdateStep, ClockRested
<1>3. /\ ~NoneAlive(w) /\ Fresh(w) /\ Handled(w) /\ Unparked(w) /\ Alike(w)
      /\ WaitersStay(w)
      /\ \A p \in Pid : w[p].state # "RUNNING"
  BY <1>1, <1>2 DEF ClockStep, NoneAlive, Fresh, Alive, Handled, Unparked, Parked,
     Alike, WaitersStay
<1> HIDE DEF w
<1>4. Demoted(w) = w
  BY <1>1, <1>3 DEF Demoted, SchedTypeOK
<1>5. Schedule(w)
  BY <1>3, <1>4 DEF IdleTick, Schedule, w
<1> QED BY <1>2, <1>3, <1>5, LeavingKernel DEF Kept

LEMMA FreePidFree ==
    ASSUME NEW t, FreeSlots(t) # {}
    PROVE  FreePid(t) \in Pid /\ t[FreePid(t)].state = "TERMINATED"
<1> DEFINE F == FreeSlots(t)
           R == {x \in Pid \X Pid : x[1] <= x[2]}
<1>1. F \subseteq Pid /\ IsFiniteSet(F)
  BY PidFinite, FS_Subset DEF FreeSlots
<1>2. \A p, q \in Pid : <<p, q>> \in R <=> p <= q
  OBVIOUS
<1>a. \A p, q, r \in Pid : /\ p <= q \/ q <= p
                           /\ p <= q /\ q <= r => p <= r
  BY PidFinite
<1>3. \A p, q \in F : <<p, q>> \in R \/ <<q, p>> \in R
  <2> HIDE DEF F, R
  <2> QED BY <1>1, <1>2, <1>a
<1>4. \A p, q, r \in F : <<p, q>> \in R /\ <<q, r>> \in R => <<p, r>> \in R
  <2> HIDE DEF F, R
  <2> QED BY <1>1, <1>2, <1>a
<1>5. \E p \in F : \A q \in F : <<p, q>> \in R
  <2> HIDE DEF F, R
  <2>1. F # {}
    BY DEF F
  <2> QED BY <1>1, <1>3, <1>4, <2>1, LeastElement
<1>6. \E p \in FreeSlots(t) : \A q \in FreeSlots(t) : p <= q
  BY <1>1, <1>2, <1>5
<1>7. FreePid(t) \in FreeSlots(t)
  BY <1>6 DEF FreePid
<1> QED BY <1>7 DEF FreeSlots

(* A system call that replaces one record of Entry and leaves the kernel.  *)
LEMMA OneRecordCall ==
    ASSUME Inv, mode = "user", NEW p \in Pid, NEW r \in PCB,
           r.state # "TERMINATED",
           r.state = "WAITING" => Alive(Entry, r.waiting_for_pid),
           r.state = "RUNNING" => p = current_pid,
           \/ Schedule([Entry EXCEPT ![p] = r])
           \/ /\ Resume([Entry EXCEPT ![p] = r])
              /\ p = current_pid => r.state = "RUNNING"
    PROVE  /\ Inv' /\ RoundRobinStep /\ OnlyCpuMoved([Entry EXCEPT ![p] = r])
           /\ (r.state \in Parked => r.state = Entry[p].state) => NobodyParks
           /\ Rest(Entry[p], r) => AgesKept
           /\ (Entry[p].state = "WAITING"
                => r.state = "WAITING" /\ r.waiting_for_pid = Entry[p].waiting_for_pid)
              => WaitersStay(pcb')
           /\ Entry[p].state # "TERMINATED" => NobodyEnds
<1> DEFINE u == [Entry EXCEPT ![p] = r]
<1>1. /\ Handled(Entry) /\ Fresh(Entry) /\ Unparked(Entry) /\ Alike(Entry)
      /\ Rested(pcb, Entry) /\ WaitersStay(Entry)
      /\ Entry[current_pid].state = "RUNNING"
  BY EntryTable
<1>2. /\ Handled(u) /\ Fresh(u)
      /\ (r.state \in Parked => r.state = Entry[p].state) => Unparked(u)
  BY <1>1, UpdatedTable
<1>3. (p = current_pid => r.state = "RUNNING") => u[current_pid].state = "RUNNING"
  BY <1>1 DEF Handled, Tables, Inv, SchedInv, SchedTypeOK
<1>a. Entry[p].state # "TERMINATED" => Alike(u)
  BY <1>1 DEF Handled, Tables, Alike
<1>b. Rest(Entry[p], r) => Rested(pcb, u)
  <2>1. ASSUME Rest(Entry[p], r)
        PROVE  Rested(Entry, u)
    BY <1>1, <2>1 DEF Handled, Tables, Rested, Rest
  <2> HIDE DEF u
  <2> QED BY <1>1, <2>1, RestedTrans
<1>c. ASSUME Entry[p].state = "WAITING"
             => r.state = "WAITING" /\ r.waiting_for_pid = Entry[p].waiting_for_pid
      PROVE  WaitersStay(u)
  <2> SUFFICES ASSUME NEW q \in Pid, pcb[q].state = "WAITING"
               PROVE  /\ u[q].state = "WAITING"
                      /\ u[q].waiting_for_pid = pcb[q].waiting_for_pid
    BY DEF WaitersStay
  <2>1. /\ Entry[q].state = "WAITING"
        /\ Entry[q].waiting_for_pid = pcb[q].waiting_for_pid
    BY <1>1 DEF WaitersStay, Alike, Inv, NoStaleWaiter, Alive
  <2> QED BY <1>1, <1>c, <2>1 DEF Handled, Tables
<1> HIDE DEF u
<1>4. Schedule(u) \/ (u[current_pid].state = "RUNNING" /\ Resume(u))
  BY <1>3 DEF u
<1>5. /\ Inv' /\ RoundRobinStep /\ OnlyCpuMoved(u)
      /\ Unparked(u) => NobodyParks
      /\ Rested(pcb, u) => AgesKept
      /\ WaitersStay(u) => WaitersStay(pcb')
      /\ Alike(u) => NobodyEnds
  BY <1>2, <1>4, LeavingKernel
<1> QED BY <1>2, <1>a, <1>b, <1>c, <1>5 DEF u

LEMMA SchedulerCalls ==
    ASSUME Inv, Timer \/ Yield \/ LightCall
    PROVE  Kept /\ NobodyEnds
<1>1. mode = "user" /\ (Schedule(Entry) \/ Resume(Entry))
  BY DEF Timer, Yield, LightCall, UserMode, Entry
<1> QED BY <1>1, EntryTable, LeavingKernel DEF Kept

LEMMA TerminatingCalls ==
    ASSUME Inv, Exit \/ ThreadExit \/ Fault
    PROVE  /\ Kept
           /\ Exit \/ Fault \/ pcb[current_pid].is_thread
              => Without(pcb', current_pid)
           /\ ThreadExit /\ ~pcb[current_pid].is_thread => NobodyEnds
<1>1. mode = "user" /\ current_pid \in Pid
  BY DEF Exit, ThreadExit, Fault, UserMode, Inv, SchedInv, SchedTypeOK
<1>2. /\ Handled(Entry) /\ Fresh(Entry) /\ Unparked(Entry) /\ Alike(Entry)
      /\ Rested(pcb, Entry) /\ WaitersStay(Entry)
      /\ Entry[current_pid].state = "RUNNING"
  BY <1>1, EntryTable
<1>3. ASSUME Schedule(Terminated(Entry, current_pid))
      PROVE  Kept /\ Without(pcb', current_pid)
  BY <1>1, <1>2, <1>3, TerminatedTable, LeavingKernel DEF Kept, Inv
<1>4. ASSUME Resume(Entry)
      PROVE  Kept /\ NobodyEnds
  BY <1>1, <1>2, <1>4, LeavingKernel DEF Kept
<1>5. ASSUME Schedule(Terminated(pcb, current_pid))
      PROVE  Kept /\ Without(pcb', current_pid)
  <2>1. /\ Handled(pcb) /\ Fresh(pcb) /\ Unparked(pcb) /\ Alike(pcb)
        /\ Rested(pcb, pcb) /\ WaitersStay(pcb) /\ NoStaleWaiter
    BY <1>1 DEF Inv, SchedInv, SchedTypeOK, OneRunning, NoStaleWaiter, Fresh,
       Handled, Tables, Unparked, Alike, Rested, Rest, WaitersStay
  <2> QED BY <1>1, <1>5, <2>1, TerminatedTable, LeavingKernel DEF Kept, Inv
<1> QED BY <1>3, <1>4, <1>5 DEF Exit, ThreadExit, Fault

LEMMA KillInv ==
    ASSUME Inv, NEW target, NEW signal \in Nat, Kill(target, signal)
    PROVE  /\ Kept
           /\ IF signal = SIGKILL /\ Alive(Entry, target)
              THEN Without(pcb', target) ELSE NobodyEnds
<1>1. mode = "user"
  BY DEF Kill, UserMode
<1>2. /\ Handled(Entry) /\ Fresh(Entry) /\ Unparked(Entry) /\ Alike(Entry)
      /\ Rested(pcb, Entry) /\ WaitersStay(Entry)
      /\ Entry[current_pid].state = "RUNNING"
  BY <1>1, EntryTable
<1>3. ASSUME Resume(Entry)
      PROVE  Kept /\ NobodyEnds
  BY <1>1, <1>2, <1>3, LeavingKernel DEF Kept
<1>4. ASSUME Alive(Entry, target), Schedule(Terminated(Entry, target))
      PROVE  Kept /\ Without(pcb', target)
  BY <1>2, <1>4, TerminatedTable, LeavingKernel DEF Kept, Inv, Alive
<1>5. ASSUME Alive(Entry, target), Resume(Posted(Entry, target, signal))
      PROVE  Kept /\ NobodyEnds
  <2> DEFINE r == [Entry[target] EXCEPT
                     !.pending_signal = signal,
                     !.state = IF @ = "PAUSED" THEN "READY" ELSE @]
  <2>1. /\ target \in Pid /\ Entry[target] \in PCB
        /\ Entry[target].state # "TERMINATED"
    BY <1>2, <1>5 DEF Alive, Handled, Tables
  <2>2. /\ r \in PCB
        /\ r.waiting_for_pid = Entry[target].waiting_for_pid
        /\ \/ r.state = Entry[target].state
           \/ r.state = "READY" /\ Entry[target].state = "PAUSED"
        /\ Rest(Entry[target], r)
    BY <2>1 DEF PCB, State, Rest, Idler
  <2>3. Posted(Entry, target, signal) = [Entry EXCEPT ![target] = r]
    BY DEF Posted
  <2> HIDE DEF r
  <2>4. /\ r.state = "WAITING" => Alive(Entry, r.waiting_for_pid)
        /\ r.state = "RUNNING" => target = current_pid
        /\ target = current_pid => r.state = "RUNNING"
        /\ r.state \in Parked => r.state = Entry[target].state
    BY <1>2, <2>1, <2>2 DEF Fresh, Handled, Parked
  <2>5. Resume([Entry EXCEPT ![target] = r])
    BY <1>5, <2>3
  <2> QED BY <1>1, <2>1, <2>2, <2>4, <2>5, OneRecordCall DEF Kept
<1> QED BY <1>3, <1>4, <1>5 DEF Kill

LEMMA WaitInv ==
    ASSUME Inv, NEW target, Wait(target)
    PROVE  Kept /\ NobodyEnds
<1> DEFINE c == Entry[current_pid]
           r == [c EXCEPT !.state = "WAITING", !.waiting_for_pid = target]
<1>1. mode = "user" /\ current_pid \in Pid
  BY DEF Wait, UserMode, Inv, SchedInv, SchedTypeOK
<1>2. /\ Handled(Entry) /\ Fresh(Entry) /\ Unparked(Entry) /\ Alike(Entry)
      /\ Rested(pcb, Entry) /\ WaitersStay(Entry)
      /\ c.state = "RUNNING" /\ c \in PCB
  BY <1>1, EntryTable DEF Handled, Tables
<1>3. CASE ~Alive(Entry, target) /\ Resume(Entry)
  BY <1>1, <1>2, <1>3, LeavingKernel DEF Kept
<1>4. CASE Alive(Entry, target) /\ Schedule([Entry EXCEPT ![current_pid] = r])
  <2>1. /\ r \in PCB /\ r.state = "WAITING" /\ r.waiting_for_pid = target
        /\ Rest(c, r)
    BY <1>2, <1>4 DEF Alive, PCB, State, Rest, Idler
  <2> HIDE DEF r
  <2> QED BY <1>1, <1>2, <1>4, <2>1, OneRecordCall DEF Parked, Kept
<1>5. [Stopped(Entry, "WAITING") EXCEPT ![current_pid].waiting_for_pid = target]
        = [Entry EXCEPT ![current_pid] = r]
  BY <1>1, <1>2 DEF Stopped, Handled, Tables
<1> QED BY <1>3, <1>4, <1>5 DEF Wait

LEMMA StoppingCalls ==
    ASSUME Inv, NEW ticks \in Nat, Sleep(ticks) \/ Pause
    PROVE  Kept /\ NobodyEnds
<1> DEFINE c == Entry[current_pid]
           asleep == [c EXCEPT !.state = "SLEEPING", !.wakeup_tick = ticks]
           paused == [c EXCEPT !.state = "PAUSED"]
<1>1. mode = "user" /\ current_pid \in Pid
  BY DEF Sleep, Pause, UserMode, Inv, SchedInv, SchedTypeOK
<1>2. Handled(Entry) /\ c \in PCB /\ c.state = "RUNNING"
  BY <1>1, EntryTable DEF Handled, Tables
<1>3. CASE Sleep(ticks)
  <2>1. asleep \in PCB /\ asleep.state = "SLEEPING" /\ Rest(c, asleep)
    BY <1>2 DEF PCB, State, Rest, Idler
  <2>2. [Stopped(Entry, "SLEEPING") EXCEPT ![current_pid].wakeup_tick = ticks]
          = [Entry EXCEPT ![current_pid] = asleep]
    BY <1>1, <1>2 DEF Stopped, Handled, Tables
  <2>3. Schedule([Entry EXCEPT ![current_pid] = asleep])
    BY <1>3, <2>2 DEF Sleep
  <2> HIDE DEF asleep
  <2> QED BY <1>1, <1>2, <2>1, <2>3, OneRecordCall DEF Parked, Kept
<1>4. CASE Pause
  <2>1. paused \in PCB /\ paused.state = "PAUSED" /\ Rest(c, paused)
    BY <1>2 DEF PCB, State, Rest, Idler
  <2>2. Schedule([Entry EXCEPT ![current_pid] = paused])
    BY <1>4 DEF Pause, Stopped
  <2> HIDE DEF paused
  <2> QED BY <1>1, <1>2, <2>1, <2>2, OneRecordCall DEF Parked, Kept
<1> QED BY <1>3, <1>4

LEMMA SelfCalls ==
    ASSUME Inv, NEW ticks \in Nat, NEW installed \in BOOLEAN,
           Alarm(ticks) \/ Signal(installed) \/ Sigreturn
    PROVE  Kept /\ NobodyEnds
<1> DEFINE c == Entry[current_pid]
           armed == [c EXCEPT !.alarm_tick = ticks]
           handler == [c EXCEPT !.signal_handler = installed]
           returned == [c EXCEPT !.in_signal = FALSE, !.pending_signal = 0]
<1>1. mode = "user" /\ current_pid \in Pid
  BY DEF Alarm, Signal, Sigreturn, UserMode, Inv, SchedInv, SchedTypeOK
<1>2. Handled(Entry) /\ c \in PCB /\ c.state = "RUNNING"
  BY <1>1, EntryTable DEF Handled, Tables
<1>3. ASSUME NEW r \in {armed, handler, returned},
             Resume([Entry EXCEPT ![current_pid] = r])
      PROVE  Kept /\ NobodyEnds
  <2>1. armed \in PCB /\ armed.state = "RUNNING" /\ Rest(c, armed)
    BY <1>2 DEF PCB, Rest, Idler
  <2>2. handler \in PCB /\ handler.state = "RUNNING" /\ Rest(c, handler)
    BY <1>2 DEF PCB, Rest, Idler
  <2>3. returned \in PCB /\ returned.state = "RUNNING" /\ Rest(c, returned)
    BY <1>2 DEF PCB, Rest, Idler
  <2> HIDE DEF armed, handler, returned
  <2>4. r \in PCB /\ r.state = "RUNNING" /\ Rest(c, r)
    BY <1>3, <2>1, <2>2, <2>3
  <2> QED BY <1>1, <1>2, <1>3, <2>4, OneRecordCall DEF Parked, Kept
<1>4. CASE Alarm(ticks)
  <2>1. Resume([Entry EXCEPT ![current_pid] = armed])
    BY <1>4 DEF Alarm
  <2> HIDE DEF armed, handler, returned
  <2> QED BY <1>3, <2>1
<1>5. CASE Signal(installed)
  <2>1. Resume([Entry EXCEPT ![current_pid] = handler])
    BY <1>5 DEF Signal
  <2> HIDE DEF armed, handler, returned
  <2> QED BY <1>3, <2>1
<1>6. CASE Sigreturn
  <2>1. [Entry EXCEPT ![current_pid].in_signal = FALSE,
                      ![current_pid].pending_signal = 0]
          = [Entry EXCEPT ![current_pid] = returned]
    BY <1>1, <1>2 DEF Handled, Tables
  <2>2. Resume([Entry EXCEPT ![current_pid] = returned])
    BY <1>6, <2>1 DEF Sigreturn
  <2> HIDE DEF armed, handler, returned
  <2> QED BY <1>3, <2>2
<1> QED BY <1>4, <1>5, <1>6

LEMMA SpawnInv ==
    ASSUME Inv, NEW priority \in Priorities, NEW is_thread \in BOOLEAN,
           Spawn(priority, is_thread)
    PROVE  /\ Kept
           /\ Resume(Entry) => NobodyEnds
           /\ Created(priority, is_thread) => Born(FreePid(Entry))
<1> DEFINE n == NewPCB(priority, is_thread)
<1>1. mode = "user"
  BY DEF Spawn, UserMode
<1>2. /\ Handled(Entry) /\ Fresh(Entry) /\ Unparked(Entry) /\ Alike(Entry)
      /\ Rested(pcb, Entry) /\ WaitersStay(Entry)
      /\ Entry[current_pid].state = "RUNNING"
  BY <1>1, EntryTable
<1>3. ASSUME Resume(Entry)
      PROVE  Kept /\ NobodyEnds
  BY <1>1, <1>2, <1>3, LeavingKernel DEF Kept
<1>4. ASSUME Created(priority, is_thread)
      PROVE  Kept /\ Born(FreePid(Entry))
  <2>1. /\ FreePid(Entry) \in Pid
        /\ FreePid(Entry) # current_pid
        /\ Entry[FreePid(Entry)].state = "TERMINATED"
    BY <1>2, <1>4, FreePidFree DEF Created
  <2>2. n \in PCB /\ n.state = "READY" /\ Rest(Entry[FreePid(Entry)], n)
    BY DEF NewPCB, PCB, State, Rest
  <2>3. Resume([Entry EXCEPT ![FreePid(Entry)] = n])
    BY <1>4 DEF Created
  <2> HIDE DEF n
  <2>4. Kept /\ OnlyCpuMoved([Entry EXCEPT ![FreePid(Entry)] = n])
    BY <1>1, <2>1, <2>2, <2>3, OneRecordCall DEF Parked, Kept
  <2>5. \A p \in Pid : pcb'[p].state = "TERMINATED"
                      <=> pcb[p].state = "TERMINATED" /\ p # FreePid(Entry)
    BY <1>2, <2>1, <2>2, <2>4 DEF OnlyCpuMoved, Handled, Tables, Alike
  <2>6. pcb[FreePid(Entry)].state = "TERMINATED"
    BY <1>2, <2>1 DEF Alike
  <2> QED BY <2>1, <2>4, <2>5, <2>6 DEF Born
<1> QED BY <1>3, <1>4 DEF Spawn

-----------------------------------------------------------------------------
LEMMA NextInv ==
    ASSUME Inv, Next
    PROVE  Kept
<1>1. CASE Timer \/ Yield \/ LightCall
  BY <1>1, SchedulerCalls
<1>2. CASE IdleTick
  BY <1>2, IdleTickInv
<1>3. CASE Exit \/ ThreadExit \/ Fault
  BY <1>3, TerminatingCalls
<1>4. CASE \E target \in PidArgument : Wait(target)
  BY <1>4, WaitInv
<1>5. CASE \E target \in PidArgument, signal \in Signals : Kill(target, signal)
  BY <1>5, KillInv, ProcessAssumption
<1>6. CASE Pause \/ \E ticks \in SleepTicks : Sleep(ticks)
  BY <1>6, StoppingCalls, ProcessAssumption
<1>7. CASE \/ \E ticks \in AlarmTicks : Alarm(ticks)
           \/ \E installed \in BOOLEAN : Signal(installed)
           \/ Sigreturn
  BY <1>7, SelfCalls, ProcessAssumption
<1>8. CASE \E priority \in Priorities, is_thread \in BOOLEAN :
               Spawn(priority, is_thread)
  BY <1>8, SpawnInv
<1> QED BY <1>1, <1>2, <1>3, <1>4, <1>5, <1>6, <1>7, <1>8
        DEF Next, SchedulerStep, SystemCall

-----------------------------------------------------------------------------
(* What the modules that add calls to Process need of such a call.         *)

(* A call that works on Entry and changes nothing of the table. *)
LEMMA PlainCall ==
    ASSUME Inv, UserMode, Resume(Entry)
    PROVE  Inv' /\ NobodyParks
<1>1. /\ Handled(Entry) /\ Fresh(Entry) /\ Unparked(Entry)
      /\ Entry[current_pid].state = "RUNNING" /\ mode = "user"
  BY EntryTable DEF UserMode
<1> QED BY <1>1, LeavingKernel DEF Kept

(* The caller sleeps in a state that only another call can end.            *)
LEMMA ParkingCall ==
    ASSUME Inv, UserMode, NEW s \in Parked, Schedule(Stopped(Entry, s))
    PROVE  /\ Inv'
           /\ \A p \in Pid : pcb'[p].state \in Parked
                             => p = current_pid \/ pcb[p].state = pcb'[p].state
           /\ pcb'[current_pid].state = s
<1> DEFINE r == [Entry[current_pid] EXCEPT !.state = s]
           u == [Entry EXCEPT ![current_pid] = r]
<1>1. mode = "user" /\ current_pid \in Pid
  BY DEF UserMode, Inv, SchedInv, SchedTypeOK
<1>2. Handled(Entry) /\ Unparked(Entry)
  BY <1>1, EntryTable
<1>3. r \in PCB /\ r.state = s
  BY <1>1, <1>2 DEF Handled, Tables, PCB, State, Parked
<1>4. Stopped(Entry, s) = u
  BY DEF Stopped
<1>5. \A p \in Pid : u[p] = IF p = current_pid THEN r ELSE Entry[p]
  BY <1>2 DEF Handled, Tables
<1> HIDE DEF r
<1>6. Inv' /\ OnlyCpuMoved(u)
  BY <1>1, <1>3, <1>4, OneRecordCall DEF Parked
<1> HIDE DEF u
<1>7. \A p \in Pid : pcb'[p].state \in Parked => pcb'[p].state = u[p].state
  BY <1>6 DEF OnlyCpuMoved, Parked
<1>8. pcb'[current_pid].state = s
  BY <1>1, <1>3, <1>5, <1>6 DEF OnlyCpuMoved, Parked
<1> QED BY <1>2, <1>5, <1>6, <1>7, <1>8 DEF Unparked

(* A sleeping process other than the caller is made READY.                 *)
LEMMA WakingCall ==
    ASSUME Inv, UserMode, NEW p \in Pid, Entry[p].state \in Parked,
           Resume([Entry EXCEPT ![p].state = "READY"])
    PROVE  Inv' /\ NobodyParks /\ pcb'[p].state \notin Parked
<1> DEFINE r == [Entry[p] EXCEPT !.state = "READY"]
           u == [Entry EXCEPT ![p] = r]
<1>1. mode = "user"
  BY DEF UserMode
<1>2. /\ Handled(Entry) /\ Unparked(Entry)
      /\ Entry[current_pid].state = "RUNNING"
  BY <1>1, EntryTable
<1>3. r \in PCB /\ r.state = "READY" /\ p # current_pid
  BY <1>2 DEF Handled, Tables, PCB, State, Parked
<1>4. [Entry EXCEPT ![p].state = "READY"] = u
  OBVIOUS
<1>5. u[p] = r
  BY <1>2 DEF Handled, Tables
<1> HIDE DEF r
<1>6. Inv' /\ NobodyParks /\ OnlyCpuMoved(u)
  BY <1>1, <1>3, <1>4, OneRecordCall DEF Parked
<1> QED BY <1>3, <1>5, <1>6 DEF OnlyCpuMoved, Parked

-----------------------------------------------------------------------------
(* The invariant holds in every reachable state.                           *)
THEOREM ProcessInvariant == Spec => []Inv
<1>1. SchedInit => Inv
  BY InitInv
<1>2. Inv /\ [Next]_schedVars => Inv'
  <2>1. CASE Next
    BY <2>1, NextInv DEF Kept
  <2>2. CASE UNCHANGED schedVars
    BY <2>2 DEF schedVars, Inv, SchedInv, SchedTypeOK, OneRunning,
       WorkConserving, Effective, NoneAlive, DeliveredOnReturn, NoStaleWaiter,
       Alive
  <2> QED BY <2>1, <2>2
<1> QED BY <1>1, <1>2, PTL DEF Spec

(* The process table stays well formed. *)
THEOREM ProcessTypeOK == Spec => []TypeOK
<1>1. Inv => TypeOK
  BY DEF Inv, SchedInv, TypeOK
<1> QED BY <1>1, ProcessInvariant, PTL

(* One process has the CPU in user mode, and none in the kernel's loop.    *)
THEOREM ProcessOneRunning == Spec => []OneRunning
<1>1. Inv => OneRunning
  BY DEF Inv, SchedInv
<1> QED BY <1>1, ProcessInvariant, PTL

(* Nobody ever waits for a process that has ended. *)
THEOREM ProcessNoStaleWaiter == Spec => []NoStaleWaiter
<1>1. Inv => NoStaleWaiter
  BY DEF Inv
<1> QED BY <1>1, ProcessInvariant, PTL

(* The CPU idles only when the policy can elect nobody, and halts only     *)
(* when everybody has ended.                                               *)
THEOREM ProcessWorkConserving == Spec => []WorkConserving
<1>1. Inv => WorkConserving
  BY DEF Inv, SchedInv
<1> QED BY <1>1, ProcessInvariant, PTL

(* Main-line code never runs over a deliverable signal. *)
THEOREM ProcessDelivered == Spec => []DeliveredOnReturn
<1>1. Inv => DeliveredOnReturn
  BY DEF Inv, SchedInv
<1> QED BY <1>1, ProcessInvariant, PTL

(* Nobody's age exceeds the spread of the priorities by more than the      *)
(* number of slots, whatever processes do and however many are born: the   *)
(* room above the highest priority shrinks by one process a level.         *)
AgeInv ==
    Policy = "dp" => \A hi \in Int : Ceiling(hi) => Aging(pcb, hi)

LEMMA InitAging == SchedInit => AgeInv
<1> SUFFICES ASSUME SchedInit, NEW hi \in Int, Ceiling(hi)
             PROVE  Aging(pcb, hi)
  BY DEF AgeInv
<1>0. MAX_PROCESSES \in Nat /\ MAX_PROCESSES > 0
  BY SchedulerAssumption
<1>1. pcb \in Tables /\ \A p \in Pid : pcb[p].age = 0
  <2>1. pcb \in Tables
    BY InitInv DEF Inv, SchedInv, SchedTypeOK, Tables
  <2>2. ASSUME NEW p \in Pid PROVE pcb[p].age = 0
    BY DEF SchedInit, NewPCB, FreePCB
  <2> QED BY <2>1, <2>2
<1>2. \A p \in Pid : Effective(pcb[p]) \in Int /\ Effective(pcb[p]) <= hi
  BY <1>1, EffectiveInt DEF Ceiling
<1>3. ASSUME NEW k \in 1 .. MAX_PROCESSES
      PROVE  Cardinality(Late(pcb, hi, k)) <= MAX_PROCESSES - k
  <2>1. Late(pcb, hi, k) = {}
    BY <1>0, <1>2 DEF Late
  <2> QED BY <1>0, <2>1, FS_EmptySet
<1> QED BY <1>0, <1>1, <1>2, <1>3 DEF Aging

THEOREM ProcessAgeBounded == Spec => []AgeBounded
<1>1. SchedInit => AgeInv
  BY InitAging
<1>2. Inv /\ AgeInv /\ [Next]_schedVars => AgeInv'
  <2>1. ASSUME Inv, AgeInv, Next
        PROVE  AgeInv'
    BY <2>1, NextInv DEF Kept, AgesKept, AgeInv
  <2>2. ASSUME AgeInv, UNCHANGED schedVars
        PROVE  AgeInv'
    BY <2>2 DEF AgeInv, schedVars
  <2> QED BY <2>1, <2>2
<1>3. Inv /\ AgeInv => AgeBounded
  <2> SUFFICES ASSUME Inv, AgeInv, Policy = "dp",
                      NEW p \in Pid, NEW hi \in Priorities, NEW lo \in Priorities,
                      \A q \in Priorities : lo <= q /\ q <= hi
               PROVE  pcb[p].age <= hi - lo + MAX_PROCESSES
    BY DEF AgeBounded
  <2>1. hi \in Int /\ lo \in Int /\ MAX_PROCESSES \in Int
    <3>1. hi \in Int /\ lo \in Int
      BY SchedulerAssumption, Zenon
    <3> QED BY <3>1, SchedulerAssumption
  <2>2. Ceiling(hi)
    BY DEF Ceiling
  <2>3. Effective(pcb[p]) < hi + MAX_PROCESSES
    BY <2>1, <2>2 DEF AgeInv, Aging
  <2>4. /\ pcb[p].priority \in Priorities /\ pcb[p].priority \in Int
        /\ pcb[p].age \in Nat
        /\ Effective(pcb[p]) = pcb[p].priority + pcb[p].age
    BY EffectiveInt DEF Inv, SchedInv, SchedTypeOK, Tables
  <2>5. lo <= pcb[p].priority
    BY <2>4
  <2> QED BY <2>1, <2>3, <2>4, <2>5
<1> QED BY <1>1, <1>2, <1>3, ProcessInvariant, PTL DEF Spec

(* Under Round-Robin a READY process only ever gets nearer to the CPU.     *)
THEOREM ProcessRoundRobin == Spec => RoundRobinProgress
<1>1. Inv /\ [Next]_schedVars => [RoundRobinStep]_schedVars
  BY NextInv DEF Kept
<1> QED BY <1>1, ProcessInvariant, PTL DEF Spec, RoundRobinProgress
=============================================================================
