-------------------------- MODULE SchedulerProofs --------------------------
(***************************************************************************)
(* Facts about the scheduler that hold for every number of processes,      *)
(* every policy and all priorities.  The modules about the components      *)
(* built on Scheduler cite them: a handler hands schedule() or the         *)
(* restore path a table, and what follows from either is proved here once. *)
(***************************************************************************)
EXTENDS Scheduler, FiniteSetTheorems, WellFoundedInduction, TLAPS

(***************************************************************************)
(* A finite nonempty set with a total and transitive relation has a least  *)
(* element.                                                                *)
(***************************************************************************)
LEMMA LeastElement ==
    ASSUME NEW E, IsFiniteSet(E), E # {}, NEW R,
           \A p, q \in E : <<p, q>> \in R \/ <<q, p>> \in R,
           \A p, q, r \in E : <<p, q>> \in R /\ <<q, r>> \in R => <<p, r>> \in R
    PROVE  \E p \in E : \A q \in E : <<p, q>> \in R
<1> DEFINE Above(p) == {q \in E : <<p, q>> \notin R}
           T == {Above(p) : p \in E}
<1>1. T \subseteq FiniteSubsetsOf(E) /\ T # {}
  <2>1. ASSUME NEW p \in E PROVE Above(p) \in FiniteSubsetsOf(E)
    BY FS_Subset DEF FiniteSubsetsOf
  <2>2. PICK e : e \in E
    OBVIOUS
  <2>3. Above(e) \in T
    BY <2>2
  <2>4. \A p \in E : Above(p) \in FiniteSubsetsOf(E)
    BY <2>1
  <2>5. \A x \in T : x \in FiniteSubsetsOf(E)
    <3> HIDE DEF Above
    <3> QED BY <2>4
  <2> QED BY <2>3, <2>5
<1>2. PICK m \in T : \A y \in T : <<y, m>> \notin StrictSubsetOrdering(E)
  <2> HIDE DEF T
  <2> QED BY <1>1, FS_StrictSubsetOrderingWellFounded, WFMin
<1>3. PICK p \in E : m = Above(p)
  OBVIOUS
<1>4. SUFFICES ASSUME NEW q \in E, <<p, q>> \notin R
               PROVE  FALSE
  BY <1>3
<1>5. Above(q) \subseteq Above(p)
  BY <1>4
<1>6. q \in Above(p) /\ q \notin Above(q)
  BY <1>4
<1>7. <<Above(q), Above(p)>> \in StrictSubsetOrdering(E)
  BY <1>5, <1>6 DEF StrictSubsetOrdering
<1> QED BY <1>2, <1>3, <1>7

-----------------------------------------------------------------------------
Tables == [Pid -> PCB]

LEMMA OneLessNat == \A n \in Nat : OneLess(n) \in Nat
BY DEF OneLess

(* What a turn of the clock does to one record. *)
LEMMA RecordClock ==
    ASSUME NEW r \in PCB
    PROVE  /\ Rouse(r) \in PCB
           /\ RingAlarm(r) \in PCB
           /\ \/ Rouse(r).state = r.state
              \/ r.state = "SLEEPING" /\ Rouse(r).state = "READY"
           /\ RingAlarm(r).state = r.state
           /\ Rouse(r).waiting_for_pid = r.waiting_for_pid
           /\ RingAlarm(r).waiting_for_pid = r.waiting_for_pid
<1>1. Rouse(r) \in PCB
  BY OneLessNat DEF Rouse, PCB, State
<1>2. RingAlarm(r) \in PCB
  BY OneLessNat DEF RingAlarm, PCB, SIGALRM
<1> QED BY <1>1, <1>2 DEF Rouse, RingAlarm, PCB

(* The clock makes nobody RUNNING, revives nobody, kills nobody and touches *)
(* no wait.                                                                *)
ClockStep(t, u) ==
    \A p \in Pid :
        /\ u[p].waiting_for_pid = t[p].waiting_for_pid
        /\ \/ u[p].state = t[p].state
           \/ t[p].state \in {"SLEEPING", "PAUSED"} /\ u[p].state = "READY"

LEMMA TickUpdateStep ==
    ASSUME NEW t \in Tables
    PROVE  TickUpdate(t) \in Tables /\ ClockStep(t, TickUpdate(t))
<1> SUFFICES ASSUME NEW p \in Pid
             PROVE  /\ TickUpdate(t)[p] \in PCB
                    /\ TickUpdate(t)[p].waiting_for_pid = t[p].waiting_for_pid
                    /\ \/ TickUpdate(t)[p].state = t[p].state
                       \/ /\ t[p].state = "SLEEPING"
                          /\ TickUpdate(t)[p].state = "READY"
  BY DEF Tables, TickUpdate, ClockStep
<1>1. t[p] \in PCB
  BY DEF Tables
<1>2. CASE t[p].state = "TERMINATED"
  BY <1>1, <1>2 DEF TickUpdate, PCB
<1>3. CASE t[p].state # "TERMINATED"
  <2>1. TickUpdate(t)[p] = RingAlarm(Rouse(t[p]))
    BY <1>3 DEF TickUpdate
  <2> QED BY <1>1, <2>1, RecordClock
<1> QED BY <1>2, <1>3

LEMMA WarpUpdateStep ==
    ASSUME NEW t \in Tables
    PROVE  WarpUpdate(t) \in Tables /\ ClockStep(t, WarpUpdate(t))
<1> DEFINE r(p) == Rouse(t[p])
           w(p) == [RingAlarm(r(p)) EXCEPT
                      !.state = IF AlarmDue(r(p)) /\ @ = "PAUSED" THEN "READY" ELSE @]
<1> SUFFICES ASSUME NEW p \in Pid
             PROVE  /\ w(p) \in PCB
                    /\ w(p).waiting_for_pid = t[p].waiting_for_pid
                    /\ \/ w(p).state = t[p].state
                       \/ /\ t[p].state \in {"SLEEPING", "PAUSED"}
                          /\ w(p).state = "READY"
  BY DEF Tables, WarpUpdate, ClockStep
<1>1. t[p] \in PCB
  BY DEF Tables
<1>2. r(p) \in PCB /\ RingAlarm(r(p)) \in PCB
  BY <1>1, RecordClock
<1>3. /\ \/ RingAlarm(r(p)).state = t[p].state
         \/ t[p].state = "SLEEPING" /\ RingAlarm(r(p)).state = "READY"
      /\ RingAlarm(r(p)).waiting_for_pid = t[p].waiting_for_pid
  BY <1>1, <1>2, RecordClock
<1> HIDE DEF r
<1> QED BY <1>2, <1>3 DEF PCB, State

-----------------------------------------------------------------------------
(* The election. *)

LEMMA PidFinite == IsFiniteSet(Pid) /\ Pid \subseteq Int
BY FS_Interval, SchedulerAssumption DEF Pid

LEMMA AgedTable ==
    ASSUME NEW t \in Tables
    PROVE  /\ Aged(t) \in Tables
           /\ \A p \in Pid : /\ Aged(t)[p].state = t[p].state
                             /\ Aged(t)[p].waiting_for_pid = t[p].waiting_for_pid
           /\ NoneAlive(Aged(t)) <=> NoneAlive(t)
<1>1. ASSUME NEW p \in Pid
      PROVE  /\ Aged(t)[p] \in PCB
             /\ Aged(t)[p].state = t[p].state
             /\ Aged(t)[p].waiting_for_pid = t[p].waiting_for_pid
  BY DEF Aged, Tables, PCB
<1>2. Aged(t) \in Tables
  BY <1>1 DEF Aged, Tables
<1> QED BY <1>1, <1>2 DEF NoneAlive

(* Whatever the policy, the search has a winner when somebody can be       *)
(* elected, and the winner loses to nobody.                                *)
LEMMA ElectedWins ==
    ASSUME NEW t \in Tables, NEW c \in Pid, Electable(t) # {}
    PROVE  /\ Elected(t, c) \in Electable(t)
           /\ \A q \in Electable(t) : Beats(t, c, Elected(t, c), q)
<1> DEFINE E == Electable(t)
           R == {x \in Pid \X Pid : Beats(t, c, x[1], x[2])}
<1>1. E \subseteq Pid /\ IsFiniteSet(E)
  BY PidFinite, FS_Subset DEF Electable
<1>2. \A p \in Pid : Effective(t[p]) \in Int /\ Distance(c, p) \in Int
  <2>1. ASSUME NEW p \in Pid
        PROVE  t[p].priority \in Int /\ t[p].age \in Int
    <3>1. t[p].priority \in Priorities
      BY DEF Tables, PCB
    <3>2. t[p].age \in Nat
      BY DEF Tables, PCB
    <3>3. t[p].priority \in Int
      BY <3>1, SchedulerAssumption, Zenon
    <3> QED BY <3>2, <3>3
  <2> QED BY <2>1, PidFinite, SchedulerAssumption DEF Effective, Distance
<1>3. \A p, q \in Pid : <<p, q>> \in R <=> Beats(t, c, p, q)
  OBVIOUS
<1>4. \A p, q \in Pid : Beats(t, c, p, q) \/ Beats(t, c, q, p)
  <2> USE PidFinite, <1>2
  <2>1. CASE Policy = "rr"
    BY <2>1 DEF Beats
  <2>2. CASE Policy # "rr"
    BY <2>2 DEF Beats
  <2> QED BY <2>1, <2>2
<1>5. \A p, q, r \in Pid :
        Beats(t, c, p, q) /\ Beats(t, c, q, r) => Beats(t, c, p, r)
  <2> USE PidFinite, <1>2
  <2>1. CASE Policy = "rr"
    BY <2>1 DEF Beats
  <2>2. CASE Policy # "rr"
    BY <2>2 DEF Beats
  <2> QED BY <2>1, <2>2
<1>6. \E p \in E : \A q \in E : <<p, q>> \in R
  <2>1. \A p, q \in E : <<p, q>> \in R \/ <<q, p>> \in R
    BY <1>1, <1>3, <1>4
  <2>2. \A p, q, r \in E : <<p, q>> \in R /\ <<q, r>> \in R => <<p, r>> \in R
    BY <1>1, <1>3, <1>5
  <2> HIDE DEF E, R
  <2>3. E # {}
    BY DEF E
  <2> QED BY <1>1, <2>1, <2>2, <2>3, LeastElement
<1>7. \E p \in E : \A q \in E : Beats(t, c, p, q)
  BY <1>1, <1>3, <1>6
<1> QED BY <1>7 DEF Elected

-----------------------------------------------------------------------------
(* Leaving the kernel. *)

LEMMA InjectRecord ==
    ASSUME NEW r \in PCB
    PROVE  /\ Inject(r) \in PCB
           /\ Inject(r).state = r.state
           /\ Inject(r).waiting_for_pid = r.waiting_for_pid
           /\ Inject(r).pending_signal > 0 /\ Inject(r).signal_handler
              => Inject(r).in_signal
BY DEF Inject, PCB

(* A table a handler may leave behind: nobody but the caller is RUNNING.   *)
Handled(t) ==
    /\ t \in Tables
    /\ \A p \in Pid : t[p].state = "RUNNING" => p = current_pid

(* Between table t and the next state only the CPU changed hands.          *)
OnlyCpuMoved(t) ==
    \A p \in Pid :
        /\ pcb'[p].waiting_for_pid = t[p].waiting_for_pid
        /\ \/ pcb'[p].state = t[p].state
           \/ {pcb'[p].state, t[p].state} \subseteq {"READY", "RUNNING"}

SchedInv == SchedTypeOK /\ OneRunning /\ WorkConserving /\ DeliveredOnReturn

LEMMA ResumeStep ==
    ASSUME SchedInv, NEW t, Handled(t), t[current_pid].state = "RUNNING",
           mode = "user", Resume(t)
    PROVE  SchedInv' /\ OnlyCpuMoved(t) /\ current_pid' = current_pid
<1> USE DEF SchedInv, SchedTypeOK, Handled, Tables
<1>1. t[current_pid] \in PCB
  OBVIOUS
<1>2. /\ pcb' = [t EXCEPT ![current_pid] = Inject(t[current_pid])]
      /\ current_pid' = current_pid
      /\ mode' = mode
  BY DEF Resume
<1>3. /\ pcb' \in Tables
      /\ \A p \in Pid : /\ pcb'[p].state = t[p].state
                        /\ pcb'[p].waiting_for_pid = t[p].waiting_for_pid
  BY <1>1, <1>2, InjectRecord
<1>4. SchedTypeOK' /\ OneRunning' /\ WorkConserving'
  BY <1>2, <1>3 DEF OneRunning, WorkConserving
<1>5. DeliveredOnReturn'
  <2>1. pcb'[current_pid] = Inject(t[current_pid])
    BY <1>2
  <2> QED BY <1>1, <1>2, <2>1, InjectRecord DEF DeliveredOnReturn
<1> QED BY <1>2, <1>3, <1>4, <1>5 DEF OnlyCpuMoved

LEMMA PromoteStep ==
    ASSUME SchedTypeOK, NEW t \in Tables, NEW e \in Pid,
           \A p \in Pid : t[p].state # "RUNNING", t[e].state = "READY",
           Promote(t, e)
    PROVE  SchedInv' /\ OnlyCpuMoved(t)
<1> DEFINE w == [t[e] EXCEPT !.state = "RUNNING", !.age = 0]
<1>1. w \in PCB /\ w.state = "RUNNING" /\ w.waiting_for_pid = t[e].waiting_for_pid
  BY DEF Tables, PCB, State
<1>2. /\ pcb' = [t EXCEPT ![e] = Inject(w)]
      /\ current_pid' = e
      /\ mode' = "user"
  BY DEF Promote
<1> HIDE DEF w
<1>3. /\ Inject(w) \in PCB
      /\ Inject(w).state = "RUNNING"
      /\ Inject(w).waiting_for_pid = t[e].waiting_for_pid
  BY <1>1, InjectRecord
<1>4. /\ pcb' \in Tables
      /\ pcb'[e] = Inject(w)
      /\ \A p \in Pid \ {e} : pcb'[p] = t[p]
  BY <1>2, <1>3 DEF Tables
<1>5. SchedTypeOK' /\ OneRunning' /\ WorkConserving'
  BY <1>2, <1>3, <1>4 DEF SchedTypeOK, OneRunning, WorkConserving, Tables
<1>6. DeliveredOnReturn'
  BY <1>1, <1>2, <1>4, InjectRecord DEF DeliveredOnReturn
<1>7. OnlyCpuMoved(t)
  BY <1>3, <1>4 DEF OnlyCpuMoved
<1> QED BY <1>5, <1>6, <1>7 DEF SchedInv

LEMMA SearchStep ==
    ASSUME SchedTypeOK, NEW t \in Tables,
           \A p \in Pid : t[p].state # "RUNNING", ~NoneAlive(t), Search(t)
    PROVE  SchedInv' /\ OnlyCpuMoved(t)
<1> DEFINE a == Aged(t)
<1>1. /\ a \in Tables
      /\ ~NoneAlive(a)
      /\ \A p \in Pid : /\ a[p].state = t[p].state
                        /\ a[p].waiting_for_pid = t[p].waiting_for_pid
  BY AgedTable
<1>2. CASE Electable(a) # {} /\ Promote(a, Elected(a, current_pid))
  <2>1. Elected(a, current_pid) \in Electable(a)
    BY <1>1, <1>2, ElectedWins DEF SchedTypeOK
  <2>2. /\ Elected(a, current_pid) \in Pid
        /\ a[Elected(a, current_pid)].state = "READY"
    BY <2>1 DEF Electable
  <2> HIDE DEF a
  <2>3. SchedInv' /\ OnlyCpuMoved(a)
    BY <1>1, <1>2, <2>2, PromoteStep
  <2> QED BY <1>1, <2>3 DEF OnlyCpuMoved
<1>3. CASE /\ Electable(a) = {}
           /\ pcb' = a /\ mode' = "idle" /\ current_pid' = current_pid
  <2> HIDE DEF a
  <2>1. ASSUME NEW p \in Pid, a[p].state = "READY"
        PROVE  Policy # "rr" /\ ~(Effective(a[p]) > -1)
    BY <1>3, <2>1 DEF Electable
  <2>2. WorkConserving'
    BY <1>1, <1>3, <2>1 DEF WorkConserving, NoneAlive, Effective
  <2> QED BY <1>1, <1>3, <2>2 DEF SchedInv, SchedTypeOK, OneRunning,
          DeliveredOnReturn, OnlyCpuMoved, Tables
<1> QED BY <1>2, <1>3 DEF Search

LEMMA ScheduleStep ==
    ASSUME SchedTypeOK, NEW t, Handled(t), Schedule(t)
    PROVE  SchedInv' /\ OnlyCpuMoved(t)
<1> DEFINE d == Demoted(t)
<1>1. /\ d \in Tables
      /\ \A p \in Pid :
           /\ d[p].state # "RUNNING"
           /\ d[p].waiting_for_pid = t[p].waiting_for_pid
           /\ \/ d[p].state = t[p].state
              \/ d[p].state = "READY" /\ t[p].state = "RUNNING"
  <2> USE DEF Demoted, Handled, Tables, SchedTypeOK
  <2>1. CASE t[current_pid].state = "RUNNING"
    <3> DEFINE w == [t[current_pid] EXCEPT !.state = "READY", !.age = 0]
    <3>1. /\ w \in PCB /\ w.state = "READY"
          /\ w.waiting_for_pid = t[current_pid].waiting_for_pid
      <4>1. t[current_pid] \in PCB
        OBVIOUS
      <4> QED BY <4>1 DEF PCB, State
    <3>2. d = [t EXCEPT ![current_pid] = w]
      BY <2>1
    <3> HIDE DEF w
    <3> QED BY <2>1, <3>1, <3>2
  <2>2. CASE t[current_pid].state # "RUNNING"
    BY <2>2
  <2> QED BY <2>1, <2>2
<1> HIDE DEF d
<1>2. CASE ~NoneAlive(d) /\ Search(d)
  <2>1. SchedInv' /\ OnlyCpuMoved(d)
    BY <1>1, <1>2, SearchStep
  <2> QED BY <1>1, <2>1 DEF OnlyCpuMoved
<1>3. CASE NoneAlive(d) /\ pcb' = d /\ mode' = "halt" /\ current_pid' = current_pid
  BY <1>1, <1>3 DEF SchedInv, SchedTypeOK, OneRunning, WorkConserving, NoneAlive,
     DeliveredOnReturn, OnlyCpuMoved, Tables
<1> QED BY <1>2, <1>3 DEF Schedule, d

(* Whoever is READY when schedule() has chosen is nearer to the head of    *)
(* the circular search than before.                                        *)
LEMMA ScheduleRoundRobin ==
    ASSUME SchedTypeOK, NEW t, Handled(t), Schedule(t)
    PROVE  RoundRobinStep
<1> SUFFICES ASSUME NEW p \in Pid,
                    Policy = "rr", pcb'[p].state = "READY",
                    current_pid' # current_pid, p # current_pid
             PROVE  Distance(current_pid', p) < Distance(current_pid, p)
  BY DEF RoundRobinStep
<1> DEFINE a == Aged(Demoted(t))
           e == Elected(a, current_pid)
<1>1. Demoted(t) \in Tables
  <2> USE DEF Handled, Tables, SchedTypeOK
  <2>1. t[current_pid] \in PCB
    OBVIOUS
  <2>2. [t[current_pid] EXCEPT !.state = "READY", !.age = 0] \in PCB
    BY <2>1 DEF PCB, State
  <2> QED BY <2>2 DEF Demoted
<1>2. a \in Tables
  BY <1>1, AgedTable
<1>3. Electable(a) # {} /\ Promote(a, e)
  BY DEF Schedule, Search
<1>4. /\ e \in Electable(a)
      /\ \A q \in Electable(a) : Beats(a, current_pid, e, q)
  BY <1>2, <1>3, ElectedWins DEF SchedTypeOK
<1> HIDE DEF a, e
<1>5. current_pid' = e /\ p # e /\ p \in Electable(a)
  <2> DEFINE w == [a[e] EXCEPT !.state = "RUNNING", !.age = 0]
  <2>1. e \in Pid /\ a[e] \in PCB
    BY <1>2, <1>4 DEF Electable, Tables
  <2>2. w \in PCB /\ w.state = "RUNNING"
    BY <2>1 DEF PCB, State
  <2>3. pcb' = [a EXCEPT ![e] = Inject(w)] /\ current_pid' = e
    BY <1>3 DEF Promote
  <2> HIDE DEF w
  <2>4. Inject(w).state = "RUNNING"
    BY <2>2, InjectRecord
  <2>5. p # e /\ pcb'[p] = a[p]
    BY <1>2, <2>1, <2>3, <2>4 DEF Tables
  <2> QED BY <2>3, <2>5 DEF Electable
<1>6. Distance(current_pid, e) <= Distance(current_pid, p)
  BY <1>4, <1>5 DEF Beats
<1>7. e \in Pid /\ current_pid \in Pid /\ e # p /\ e # current_pid
  BY <1>4, <1>5 DEF Electable, SchedTypeOK
<1> QED BY <1>5, <1>6, <1>7, SchedulerAssumption DEF Distance, Pid

-----------------------------------------------------------------------------
(* Aging.  Above any ceiling hi of the priorities there is room for one    *)
(* process less at each level: at most MAX_PROCESSES - k of those READY    *)
(* have an effective priority of hi + k or more.  A search raises everyone *)
(* by one level and takes the highest away, so no level overflows, and     *)
(* level MAX_PROCESSES stays empty.                                        *)
Ceiling(hi) == \A q \in Priorities : q <= hi

Late(t, hi, k) == {p \in Pid : t[p].state = "READY" /\ hi + k <= Effective(t[p])}

Idler == {"READY", "TERMINATED"}

Aging(t, hi) ==
    /\ \A p \in Pid : t[p].state \notin Idler => t[p].age = 0
    /\ \A p \in Pid : Effective(t[p]) < hi + MAX_PROCESSES
    /\ \A k \in 1 .. MAX_PROCESSES :
           Cardinality(Late(t, hi, k)) <= MAX_PROCESSES - k

AgesKept ==
    Policy = "dp" =>
        \A hi \in Int : Ceiling(hi) /\ Aging(pcb, hi) => Aging(pcb', hi)

(* From record a to record b nobody got older, and nobody who had aged     *)
(* changed state unless he ended.                                          *)
Rest(a, b) ==
    \/ b.age = 0
    \/ /\ b.age = a.age /\ b.priority = a.priority
       /\ a.state \in Idler => b.state \in {a.state, "TERMINATED"}

Rested(t, u) == \A p \in Pid : Rest(t[p], u[p])

LEMMA RestedTrans ==
    ASSUME NEW t, NEW u, NEW v, Rested(t, u), Rested(u, v)
    PROVE  Rested(t, v)
BY DEF Rested, Rest, Idler

LEMMA EffectiveInt ==
    ASSUME NEW t \in Tables, NEW p \in Pid
    PROVE  /\ t[p].priority \in Priorities /\ t[p].priority \in Int
           /\ t[p].age \in Nat
           /\ Effective(t[p]) = t[p].priority + t[p].age
<1>1. t[p].priority \in Priorities /\ t[p].age \in Nat
  BY DEF Tables, PCB
<1>2. t[p].priority \in Int
  BY <1>1, SchedulerAssumption, Zenon
<1> QED BY <1>1, <1>2 DEF Effective

(* The processes counted are some of those in the table. *)
LEMMA LateCount ==
    ASSUME NEW t, NEW hi, NEW k
    PROVE  /\ Late(t, hi, k) \subseteq Pid /\ IsFiniteSet(Late(t, hi, k))
           /\ Cardinality(Late(t, hi, k)) \in Nat
           /\ Cardinality(Late(t, hi, k)) <= MAX_PROCESSES
<1>1. Late(t, hi, k) \subseteq Pid
  BY DEF Late
<1>2. IsFiniteSet(Pid) /\ Cardinality(Pid) = MAX_PROCESSES
  BY FS_Interval, SchedulerAssumption DEF Pid
<1> QED BY <1>1, <1>2, FS_Subset, FS_CardinalityType

(* Rest keeps the levels as full as they were, or emptier. *)
LEMMA RestedAging ==
    ASSUME NEW t \in Tables, NEW u \in Tables, Rested(t, u),
           NEW hi \in Int, Ceiling(hi), Aging(t, hi)
    PROVE  Aging(u, hi)
<1>0. MAX_PROCESSES \in Nat /\ MAX_PROCESSES > 0
  BY SchedulerAssumption
<1>1. ASSUME NEW p \in Pid, u[p].age # 0
      PROVE  /\ Effective(u[p]) = Effective(t[p])
             /\ t[p].state \in Idler
             /\ u[p].state \in {t[p].state, "TERMINATED"}
  BY <1>1, EffectiveInt DEF Rested, Rest, Aging
<1>2. ASSUME NEW p \in Pid, u[p].age = 0
      PROVE  Effective(u[p]) <= hi /\ Effective(u[p]) \in Int
  BY <1>2, EffectiveInt DEF Ceiling
<1>3. \A p \in Pid : u[p].state \notin Idler => u[p].age = 0
  BY <1>1 DEF Idler
<1>4. ASSUME NEW p \in Pid
      PROVE  Effective(u[p]) < hi + MAX_PROCESSES
  <2>1. CASE u[p].age = 0
    BY <1>0, <1>2, <2>1
  <2>2. CASE u[p].age # 0
    BY <1>1, <2>2 DEF Aging
  <2> QED BY <2>1, <2>2
<1>5. ASSUME NEW k \in 1 .. MAX_PROCESSES
      PROVE  Cardinality(Late(u, hi, k)) <= MAX_PROCESSES - k
  <2>1. k \in Int /\ k > 0
    BY <1>0
  <2>2. Late(u, hi, k) \subseteq Late(t, hi, k)
    <3> SUFFICES ASSUME NEW p \in Late(u, hi, k)
                 PROVE  p \in Late(t, hi, k)
      OBVIOUS
    <3>1. p \in Pid /\ u[p].state = "READY" /\ hi + k <= Effective(u[p])
      BY DEF Late
    <3>2. u[p].age # 0
      BY <1>2, <2>1, <3>1
    <3> QED BY <1>1, <3>1, <3>2 DEF Late
  <2>3. Cardinality(Late(u, hi, k)) <= Cardinality(Late(t, hi, k))
    BY <2>2, LateCount, FS_Subset
  <2> QED BY <1>0, <2>1, <2>3, LateCount DEF Aging
<1> QED BY <1>3, <1>4, <1>5 DEF Aging

LEMMA ClockRested ==
    ASSUME NEW t \in Tables
    PROVE  Rested(t, TickUpdate(t)) /\ Rested(t, WarpUpdate(t))
<1>1. ASSUME NEW r \in PCB
      PROVE  /\ Rouse(r).age = r.age /\ Rouse(r).priority = r.priority
             /\ RingAlarm(r).age = r.age /\ RingAlarm(r).priority = r.priority
  BY DEF Rouse, RingAlarm, PCB
<1>2. ASSUME NEW p \in Pid
      PROVE  /\ TickUpdate(t)[p].age = t[p].age
             /\ TickUpdate(t)[p].priority = t[p].priority
             /\ WarpUpdate(t)[p].age = t[p].age
             /\ WarpUpdate(t)[p].priority = t[p].priority
  <2>1. t[p] \in PCB /\ Rouse(t[p]) \in PCB /\ RingAlarm(Rouse(t[p])) \in PCB
    BY RecordClock DEF Tables
  <2>2. /\ RingAlarm(Rouse(t[p])).age = t[p].age
        /\ RingAlarm(Rouse(t[p])).priority = t[p].priority
    BY <1>1, <2>1
  <2>3. /\ TickUpdate(t)[p].age = t[p].age
        /\ TickUpdate(t)[p].priority = t[p].priority
    BY <2>1, <2>2 DEF TickUpdate, PCB
  <2>4. /\ WarpUpdate(t)[p].age = RingAlarm(Rouse(t[p])).age
        /\ WarpUpdate(t)[p].priority = RingAlarm(Rouse(t[p])).priority
    <3> DEFINE w == RingAlarm(Rouse(t[p]))
               s == IF AlarmDue(Rouse(t[p])) /\ w.state = "PAUSED"
                    THEN "READY" ELSE w.state
    <3>1. WarpUpdate(t)[p] = [w EXCEPT !.state = s]
      BY DEF WarpUpdate
    <3>2. w \in PCB
      BY <2>1
    <3> HIDE DEF w, s
    <3>3. [w EXCEPT !.state = s].age = w.age
          /\ [w EXCEPT !.state = s].priority = w.priority
      BY <3>2 DEF PCB
    <3> QED BY <3>1, <3>3 DEF w
  <2> QED BY <2>2, <2>3, <2>4
<1>3. \A p \in Pid : \/ TickUpdate(t)[p].state = t[p].state
                     \/ t[p].state \notin Idler
  BY TickUpdateStep DEF ClockStep, Idler
<1>4. \A p \in Pid : \/ WarpUpdate(t)[p].state = t[p].state
                     \/ t[p].state \notin Idler
  BY WarpUpdateStep DEF ClockStep, Idler
<1> QED BY <1>2, <1>3, <1>4 DEF Rested, Rest

(* Going back to the caller ages nobody. *)
LEMMA ResumeAging ==
    ASSUME SchedTypeOK, NEW t \in Tables, Resume(t)
    PROVE  Rested(t, pcb') /\ pcb' \in Tables
<1>1. current_pid \in Pid /\ t[current_pid] \in PCB
  BY DEF SchedTypeOK, Tables
<1>2. \A r \in PCB : /\ Inject(r) \in PCB /\ Inject(r).state = r.state
                     /\ Inject(r).age = r.age /\ Inject(r).priority = r.priority
  BY DEF Inject, PCB
<1>3. pcb' = [t EXCEPT ![current_pid] = Inject(t[current_pid])]
  BY DEF Resume
<1> QED BY <1>1, <1>2, <1>3 DEF Tables, Rested, Rest

(* One search lifts everybody by a level.                                  *)
LEMMA AgedLevels ==
    ASSUME NEW t \in Tables, NEW hi \in Int, Ceiling(hi), Aging(t, hi),
           Policy = "dp"
    PROVE  \A k \in 1 .. MAX_PROCESSES :
               Cardinality(Late(Aged(t), hi, k)) <= MAX_PROCESSES - k + 1
<1>0. MAX_PROCESSES \in Nat /\ MAX_PROCESSES > 0
  BY SchedulerAssumption
<1> SUFFICES ASSUME NEW k \in 1 .. MAX_PROCESSES
             PROVE  Cardinality(Late(Aged(t), hi, k)) <= MAX_PROCESSES - k + 1
  OBVIOUS
<1>1. CASE k = 1
  BY <1>0, <1>1, LateCount
<1>2. CASE k # 1
  <2>1. k - 1 \in 1 .. MAX_PROCESSES /\ k \in Int
    BY <1>0, <1>2
  <2>2. ASSUME NEW p \in Pid, t[p].state = "READY"
        PROVE  Effective(Aged(t)[p]) = Effective(t[p]) + 1
    <3>1. t[p] \in PCB /\ Aged(t)[p] = [t[p] EXCEPT !.age = @ + 1]
      BY <2>2 DEF Aged, Tables
    <3>2. Aged(t)[p].age = t[p].age + 1 /\ Aged(t)[p].priority = t[p].priority
      BY <3>1 DEF PCB
    <3> QED BY <3>2, EffectiveInt DEF Effective
  <2>3. Late(Aged(t), hi, k) \subseteq Late(t, hi, k - 1)
    <3> SUFFICES ASSUME NEW p \in Pid, Aged(t)[p].state = "READY",
                        hi + k <= Effective(Aged(t)[p])
                 PROVE  p \in Late(t, hi, k - 1)
      BY DEF Late
    <3>1. t[p].state = "READY"
      BY AgedTable
    <3>2. Effective(t[p]) \in Int
      BY EffectiveInt
    <3> QED BY <2>1, <2>2, <3>1, <3>2 DEF Late
  <2>4. Cardinality(Late(t, hi, k - 1)) <= MAX_PROCESSES - (k - 1)
    BY <2>1 DEF Aging
  <2>5. Cardinality(Late(Aged(t), hi, k)) <= Cardinality(Late(t, hi, k - 1))
    BY <2>3, LateCount, FS_Subset
  <2> QED BY <1>0, <2>1, <2>4, <2>5, LateCount
<1> QED BY <1>1, <1>2

(* ... and the winner, whom nobody exceeds, leaves every level he was on.  *)
LEMMA SearchAging ==
    ASSUME SchedTypeOK, NEW t \in Tables, Search(t), Policy = "dp",
           \A p \in Pid : t[p].state # "RUNNING",
           NEW hi \in Int, Ceiling(hi), Aging(t, hi)
    PROVE  Aging(pcb', hi)
<1> DEFINE a == Aged(t)
           e == Elected(a, current_pid)
<1>0. MAX_PROCESSES \in Nat /\ MAX_PROCESSES > 0 /\ hi >= 0
  BY SchedulerAssumption DEF Ceiling, OverlayPriority
<1>1. /\ a \in Tables
      /\ \A p \in Pid : a[p].state # "READY" => a[p] = t[p]
      /\ \A k \in 1 .. MAX_PROCESSES :
             Cardinality(Late(a, hi, k)) <= MAX_PROCESSES - k + 1
  BY AgedTable, AgedLevels DEF Aged
<1>2. \A p \in Pid : Effective(a[p]) \in Int
  BY <1>1, EffectiveInt
<1> HIDE DEF a
<1>3. \A k \in 1 .. MAX_PROCESSES : Late(a, hi, k) \subseteq Electable(a)
  BY <1>0, <1>2 DEF Late, Electable
<1>4. ASSUME NEW p \in Pid, a[p].state # "READY"
      PROVE  /\ Effective(a[p]) < hi + MAX_PROCESSES
             /\ a[p].state \notin Idler => a[p].age = 0
  <2>1. a[p] = t[p]
    BY <1>1, <1>4
  <2> QED BY <2>1 DEF Aging
(* Both ends of the search leave everybody as in a, or RUNNING afresh.     *)
<1>5. SUFFICES
        /\ \A p \in Pid : \/ pcb'[p] = a[p]
                          \/ /\ pcb'[p].state = "RUNNING" /\ pcb'[p].age = 0
                             /\ Effective(pcb'[p]) <= hi
                             /\ Effective(pcb'[p]) \in Int
        /\ \A k \in 1 .. MAX_PROCESSES :
               Cardinality(Late(pcb', hi, k)) <= MAX_PROCESSES - k
  <2>1. ASSUME NEW p \in Pid, pcb'[p].state \notin Idler, pcb'[p] = a[p]
        PROVE  pcb'[p].age = 0
    BY <1>4, <2>1 DEF Idler
  <2>2. \A p \in Pid : pcb'[p].state \notin Idler => pcb'[p].age = 0
    BY <1>5, <2>1
  <2>3. Late(pcb', hi, MAX_PROCESSES) = {}
    <3>1. Cardinality(Late(pcb', hi, MAX_PROCESSES)) <= 0
      BY <1>0, <1>5
    <3>2. Cardinality(Late(pcb', hi, MAX_PROCESSES)) = 0
      BY <3>1, LateCount
    <3> QED BY <3>2, LateCount, FS_EmptySet
  <2>4. ASSUME NEW p \in Pid
        PROVE  Effective(pcb'[p]) < hi + MAX_PROCESSES
    <3>1. CASE pcb'[p] # a[p]
      BY <1>0, <1>5, <3>1
    <3>2. CASE pcb'[p] = a[p] /\ a[p].state = "READY"
      BY <1>0, <1>2, <2>3, <3>2 DEF Late
    <3>3. CASE pcb'[p] = a[p] /\ a[p].state # "READY"
      BY <1>4, <3>3
    <3> QED BY <3>1, <3>2, <3>3
  <2> QED BY <1>5, <2>2, <2>4 DEF Aging
<1>6. CASE Electable(a) # {} /\ Promote(a, e)
  <2> DEFINE w == [a[e] EXCEPT !.state = "RUNNING", !.age = 0]
  <2>1. /\ e \in Electable(a)
        /\ \A q \in Electable(a) : Beats(a, current_pid, e, q)
    BY <1>1, <1>6, ElectedWins DEF SchedTypeOK
  <2>2. e \in Pid /\ a[e] \in PCB
    BY <1>1, <2>1 DEF Electable, Tables
  <2>3. /\ w \in PCB /\ w.state = "RUNNING" /\ w.age = 0
        /\ w.priority = a[e].priority
    BY <2>2 DEF PCB, State
  <2>4. pcb' = [a EXCEPT ![e] = Inject(w)]
    BY <1>6 DEF Promote
  <2> HIDE DEF w, e
  <2>5. /\ Inject(w).state = "RUNNING" /\ Inject(w).age = 0
        /\ Inject(w).priority = a[e].priority
    BY <2>3 DEF Inject, PCB
  <2>6. /\ pcb'[e] = Inject(w)
        /\ \A p \in Pid \ {e} : pcb'[p] = a[p]
    BY <1>1, <2>2, <2>4 DEF Tables
  <2>7. Effective(Inject(w)) <= hi /\ Effective(Inject(w)) \in Int
    BY <1>1, <2>2, <2>5, EffectiveInt DEF Ceiling, Effective
  <2>8. ASSUME NEW k \in 1 .. MAX_PROCESSES
        PROVE  Cardinality(Late(pcb', hi, k)) <= MAX_PROCESSES - k
    <3>1. Late(pcb', hi, k) \subseteq Late(a, hi, k) \ {e}
      BY <2>5, <2>6 DEF Late
    <3>2. CASE Late(a, hi, k) = {}
      <4>1. Late(pcb', hi, k) = {}
        BY <3>1, <3>2
      <4> QED BY <1>0, <4>1, FS_EmptySet
    <3>3. CASE Late(a, hi, k) # {}
      <4>1. PICK p \in Pid : /\ p \in Late(a, hi, k) /\ p \in Electable(a)
                             /\ hi + k <= Effective(a[p])
        BY <1>3, <3>3 DEF Late
      <4>2. Effective(a[p]) <= Effective(a[e])
        BY <1>2, <2>1, <2>2, <4>1 DEF Beats
      <4>3. e \in Late(a, hi, k)
        BY <1>2, <2>1, <2>2, <4>1, <4>2 DEF Late, Electable
      <4>4. /\ IsFiniteSet(Late(a, hi, k) \ {e})
            /\ Cardinality(Late(a, hi, k) \ {e}) = Cardinality(Late(a, hi, k)) - 1
        BY <4>3, LateCount, FS_RemoveElement
      <4>5. Cardinality(Late(pcb', hi, k)) <= Cardinality(Late(a, hi, k)) - 1
        BY <3>1, <4>4, FS_Subset
      <4>6. Cardinality(Late(a, hi, k)) <= MAX_PROCESSES - k + 1
        BY <1>1
      <4> QED BY <1>0, <4>5, <4>6, LateCount
    <3> QED BY <3>2, <3>3
  <2> QED BY <2>5, <2>6, <2>7, <2>8
<1>7. CASE Electable(a) = {} /\ pcb' = a
  <2>1. ASSUME NEW k \in 1 .. MAX_PROCESSES
        PROVE  Cardinality(Late(a, hi, k)) <= MAX_PROCESSES - k
    <3>1. Late(a, hi, k) = {}
      BY <1>3, <1>7
    <3> QED BY <1>0, <3>1, FS_EmptySet
  <2> QED BY <1>7, <2>1
<1> QED BY <1>6, <1>7 DEF Search, a, e

LEMMA ScheduleAging ==
    ASSUME SchedTypeOK, NEW t, Handled(t), Schedule(t), Policy = "dp",
           NEW hi \in Int, Ceiling(hi), Aging(t, hi)
    PROVE  Aging(pcb', hi)
<1> DEFINE d == Demoted(t)
<1>1. /\ d \in Tables /\ Rested(t, d)
      /\ \A p \in Pid : d[p].state # "RUNNING"
  <2> USE DEF Demoted, Handled, Tables, SchedTypeOK
  <2>1. CASE t[current_pid].state = "RUNNING"
    <3> DEFINE w == [t[current_pid] EXCEPT !.state = "READY", !.age = 0]
    <3>1. w \in PCB /\ w.state = "READY" /\ w.age = 0
      <4>1. t[current_pid] \in PCB
        OBVIOUS
      <4> QED BY <4>1 DEF PCB, State
    <3>2. d = [t EXCEPT ![current_pid] = w]
      BY <2>1
    <3> HIDE DEF w
    <3> QED BY <2>1, <3>1, <3>2 DEF Rested, Rest
  <2>2. CASE t[current_pid].state # "RUNNING"
    BY <2>2 DEF Rested, Rest
  <2> QED BY <2>1, <2>2
<1> HIDE DEF d
<1>2. Aging(d, hi)
  BY <1>1, RestedAging DEF Handled
<1>3. CASE Search(d)
  BY <1>1, <1>2, <1>3, SearchAging
<1>4. CASE pcb' = d
  BY <1>2, <1>4
<1> QED BY <1>3, <1>4 DEF Schedule, d

(* What is left to a call: the table it hands on is a rested one.          *)
LEMMA LeavingAging ==
    ASSUME SchedTypeOK, NEW t, Handled(t), Rested(pcb, t),
           Schedule(t) \/ Resume(t)
    PROVE  AgesKept
<1> SUFFICES ASSUME Policy = "dp", NEW hi \in Int, Ceiling(hi), Aging(pcb, hi)
             PROVE  Aging(pcb', hi)
  BY DEF AgesKept
<1>1. t \in Tables /\ pcb \in Tables
  BY DEF Handled, SchedTypeOK, Tables
<1>2. Aging(t, hi)
  BY <1>1, RestedAging
<1> QED BY <1>1, <1>2, ResumeAging, RestedAging, ScheduleAging
=============================================================================
