------------------------- MODULE StandaloneProofs -------------------------
(***************************************************************************)
(* The parts that talk to nobody else: the frame of one process, what      *)
(* malloc() promises, and two of the games.                                *)
(***************************************************************************)
EXTENDS SignalFrame, NeonCycles, Invaders, Allocator, FiniteSetTheorems,
        WellFoundedInduction, TLAPS

(* The kernel pushes, reads and pops the words of a frame in one order:    *)
(* each register is at one offset, which is the same for the three.        *)
LEMMA FrameOrders ==
    /\ Len(PushOrder) = 11 /\ Offset = 1 .. 11
    /\ PopOrder[11] = "pc"
    /\ \A i \in Offset : /\ PopOrder[i] \in Register
                         /\ PushOrder[12 - i] = PopOrder[i]
                         /\ InjectOrder[i] = PopOrder[i]
    /\ \A r \in Register : \E i \in Offset : PopOrder[i] = r
<1>1. Len(PushOrder) = 11 /\ DOMAIN PushOrder = 1 .. 11
  BY DEF PushOrder
<1>2. Offset = 1 .. 11 /\ Register = {PushOrder[i] : i \in 1 .. 11}
  BY <1>1 DEF Offset, Register, Range
<1>3. \A i \in 1 .. 11 : PushOrder[12 - i] = PopOrder[i] /\ InjectOrder[i] = PopOrder[i]
  BY DEF PushOrder, PopOrder, InjectOrder
<1>4. \A i \in 1 .. 11 : 12 - i \in 1 .. 11 /\ 12 - (12 - i) = i
  OBVIOUS
<1>5. PopOrder[11] = "pc"
  BY DEF PopOrder
<1> QED BY <1>1, <1>2, <1>3, <1>4, <1>5

Pushed(f) == \A i \in Offset : f[i] = regs[PushOrder[Len(PushOrder) + 1 - i]]

FrameInv ==
    /\ frame = [who \in Code |-> [i \in Offset |-> frame[who][i]]]
    /\ regs = [r \in Register |-> regs[r]]
    /\ in_signal \in BOOLEAN
    /\ trapped => Pushed(frame[Executing])
    /\ SavedIsInterrupted

(* What is popped from a frame as it was pushed is what was pushed, and so *)
(* is what kernel_signal_inject saves of it.                               *)
LEMMA PoppedIsPushed ==
    ASSUME FrameInv, NEW f, Pushed(f)
    PROVE  /\ \A r \in Register : Popped(f)[r] = regs[r]
           /\ [r \in Register |-> f[CHOOSE i \in Offset : InjectOrder[i] = r]] = regs
<1>1. ASSUME NEW r \in Register
      PROVE  /\ f[CHOOSE i \in Offset : PopOrder[i] = r] = regs[r]
             /\ f[CHOOSE i \in Offset : InjectOrder[i] = r] = regs[r]
  <2>1. \A i \in Offset : PopOrder[i] = r => f[i] = regs[r]
    BY FrameOrders DEF Pushed
  <2>2. \E i \in Offset : PopOrder[i] = r
    BY <1>1, FrameOrders
  <2>3. \A i \in Offset : InjectOrder[i] = r <=> PopOrder[i] = r
    BY FrameOrders
  <2> DEFINE at1 == CHOOSE i \in Offset : PopOrder[i] = r
             at2 == CHOOSE i \in Offset : InjectOrder[i] = r
  <2>4. at1 \in Offset /\ PopOrder[at1] = r
    BY <2>2
  <2>5. at2 \in Offset /\ InjectOrder[at2] = r
    BY <2>2, <2>3
  <2> QED BY <2>1, <2>3, <2>4, <2>5
<1> QED BY <1>1 DEF Popped, FrameInv

(* The frame of a process whose signal is delivered, popped: only the pc   *)
(* is another one.                                                         *)
LEMMA PoppedRedirected ==
    ASSUME FrameInv, NEW f, f = [i \in Offset |-> f[i]], Pushed(f), NEW word
    PROVE  \A r \in Register : r # "pc" => Popped([f EXCEPT ![11] = word])[r] = regs[r]
<1> SUFFICES ASSUME NEW r \in Register, r # "pc"
             PROVE  Popped([f EXCEPT ![11] = word])[r] = regs[r]
  OBVIOUS
<1> DEFINE i == CHOOSE k \in Offset : PopOrder[k] = r
<1>1. \E k \in Offset : PopOrder[k] = r
  BY FrameOrders
<1>2. i \in Offset /\ PopOrder[i] = r
  BY <1>1
<1>3. i # 11
  BY <1>2, FrameOrders
<1>4. f[i] = regs[r]
  BY <1>2, FrameOrders DEF Pushed
<1> HIDE DEF i
<1>5. [f EXCEPT ![11] = word][i] = f[i]
  BY <1>2, <1>3
<1> QED BY <1>4, <1>5 DEF Popped, i

LEMMA FrameNextInv ==
    ASSUME FrameInv, [FrameNext]_frameVars
    PROVE  FrameInv' /\ TrapStep
<1>0. Executing \in Code
  BY DEF Executing, Code
<1>1. CASE UNCHANGED frameVars
  BY <1>1 DEF frameVars, signalVars, FrameInv, TrapStep, Pushed, Executing,
     SavedIsInterrupted
<1>2. CASE MainRuns
  <2>1. regs' = [r \in Register |-> regs'[r]]
    BY <1>2 DEF MainRuns, Main
  <2> QED BY <1>2, <2>1 DEF MainRuns, signalVars, FrameInv, TrapStep, SavedIsInterrupted
<1>3. CASE HandlerRuns
  <2>1. regs' = [r \in Register |-> regs'[r]]
    BY <1>3 DEF HandlerRuns
  <2>2. frame' = [who \in Code |-> [i \in Offset |-> frame'[who][i]]]
    BY <1>3 DEF HandlerRuns, FrameInv, Code
  <2> QED BY <1>3, <2>1, <2>2
          DEF HandlerRuns, signalVars, FrameInv, TrapStep, SavedIsInterrupted
<1>4. CASE Trap
  <2> DEFINE pushed == [i \in Offset |-> regs[PushOrder[Len(PushOrder) + 1 - i]]]
  <2>1. /\ frame' = [frame EXCEPT ![Executing] = pushed]
        /\ Executing' = Executing /\ regs' = regs /\ trapped' = TRUE /\ ~trapped
    BY <1>4 DEF Trap, Executing, signalVars
  <2>2. frame'[Executing] = pushed
    BY <1>0, <2>1 DEF FrameInv
  <2>3. Pushed(frame[Executing])'
    BY <2>1, <2>2 DEF Pushed
  <2>4. frame' = [who \in Code |-> [i \in Offset |-> frame'[who][i]]]
    BY <2>1 DEF FrameInv
  <2> QED BY <1>4, <2>1, <2>3, <2>4
          DEF Trap, signalVars, FrameInv, TrapStep, SavedIsInterrupted
<1>5. CASE Post
  BY <1>5 DEF Post, FrameInv, TrapStep, Pushed, Executing, SavedIsInterrupted
<1>6. CASE Deliver
  <2> DEFINE f == frame["main"]
  <2>1. /\ Executing = "main" /\ ~in_signal /\ Pushed(f)
        /\ f = [i \in Offset |-> f[i]]
    BY <1>6 DEF Deliver, Executing, FrameInv, Code
  <2>2. /\ saved' = regs /\ saved_ac' = ac
        /\ interrupted' = [regs |-> regs, ac |-> ac]
    <3>1. [r \in Register |-> f[CHOOSE i \in Offset : InjectOrder[i] = r]] = regs
      BY <2>1, PoppedIsPushed
    <3> QED BY <1>6, <3>1 DEF Deliver
  <2>3. /\ frame' = [frame EXCEPT !["main"][11] = <<"signal_handler", 0>>]
        /\ frame'["main"] = [f EXCEPT ![11] = <<"signal_handler", 0>>]
        /\ regs' = Popped(frame'["main"]) /\ in_signal' = TRUE /\ trapped' = FALSE
    BY <1>6 DEF Deliver, FrameInv, Code
  <2>4. frame' = [who \in Code |-> [i \in Offset |-> frame'[who][i]]]
    BY <2>3 DEF FrameInv, Code
  <2>5. regs' = [r \in Register |-> regs'[r]]
    BY <2>3 DEF Popped
  <2>6. TrapStep
    BY <2>1, <2>3, PoppedRedirected DEF TrapStep
  <2> QED BY <2>2, <2>3, <2>4, <2>5, <2>6 DEF FrameInv, SavedIsInterrupted
<1>7. CASE Restore
  <2>1. /\ regs' = Popped(frame[Executing]) /\ trapped /\ trapped' = FALSE
        /\ UNCHANGED <<frame, in_signal, saved, saved_ac, interrupted>>
    BY <1>7 DEF Restore, signalVars
  <2>2. \A r \in Register : regs'[r] = regs[r]
    BY <2>1, PoppedIsPushed DEF FrameInv
  <2>3. regs' = [r \in Register |-> regs'[r]]
    BY <2>1 DEF Popped
  <2> QED BY <2>1, <2>2, <2>3 DEF FrameInv, TrapStep, SavedIsInterrupted
<1>8. CASE Sigreturn
  <2>1. regs' = [r \in Register |-> regs'[r]]
    BY <1>8 DEF Sigreturn, Popped
  <2>2. frame' = [who \in Code |-> [i \in Offset |-> frame'[who][i]]]
    BY <1>8 DEF Sigreturn, FrameInv, Code
  <2> QED BY <1>8, <2>1, <2>2 DEF Sigreturn, FrameInv, TrapStep, SavedIsInterrupted
<1> QED BY <1>1, <1>2, <1>3, <1>4, <1>5, <1>6, <1>7, <1>8 DEF FrameNext

LEMMA FrameInitInv == FrameInit => FrameInv
<1> SUFFICES ASSUME FrameInit PROVE FrameInv
  OBVIOUS
<1>1. \A who \in Code : frame[who] = InitialFrame
  BY DEF FrameInit
<1>2. Pushed(InitialFrame)
  <2>1. \A i \in 1 .. 11 : Created[PopOrder[i]] = InitialFrame[i]
    BY FrameOrders DEF PopOrder, Created, InitialFrame
  <2> QED BY <2>1, FrameOrders DEF FrameInit, Pushed
<1>3. Executing \in Code
  BY DEF Executing, Code
<1> QED BY <1>1, <1>2, <1>3
        DEF FrameInit, FrameInv, InitialFrame, Created, SavedIsInterrupted

(* While a handler runs the kernel keeps all that the main program had     *)
(* when it was redirected, however many traps, signals and steps there are *)
(* in between.                                                             *)
THEOREM FrameSavedIsInterrupted == FrameSpec => []SavedIsInterrupted
<1>1. FrameInv /\ [FrameNext]_frameVars => FrameInv'
  BY FrameNextInv
<1>2. FrameInv => SavedIsInterrupted
  BY DEF FrameInv
<1> QED BY <1>1, <1>2, FrameInitInv, PTL DEF FrameSpec

(* A trap is invisible to the process that takes it, but for a signal that *)
(* redirects it.                                                           *)
THEOREM FrameTrapTransparent == FrameSpec => TrapTransparent
<1>1. FrameInv /\ [FrameNext]_frameVars => FrameInv' /\ [TrapStep]_frameVars
  BY FrameNextInv
<1> QED BY <1>1, FrameInitInv, PTL DEF FrameSpec, TrapTransparent

-----------------------------------------------------------------------------
(* Neon Cycles. *)

(* During a round both heads stand on marked cells. *)
NeonInv == at = "frame" => p \in trail /\ a \in trail

TrailsStep ==
    at = "frame" => /\ p' # p => p' \in Arena \ trail /\ p' # a'
                    /\ a' # a => a' \in Arena \ trail

LEMMA NeonNextInv ==
    ASSUME NeonInv, [NeonNext]_neonVars
    PROVE  NeonInv' /\ [TrailsStep]_neonVars
<1>1. CASE UNCHANGED neonVars
  BY <1>1 DEF neonVars, NeonInv
<1>2. CASE reset_round
  BY <1>2 DEF reset_round, NeonInv, TrailsStep
<1>3. ASSUME NEW key \in NeonKeys, play_round(key)
      PROVE  NeonInv' /\ TrailsStep
  <2> DEFINE pn == step_from(p, input(key))
             an == ai(Mind(key)).cell
  <2>1. at = "frame" /\ p \in trail /\ a \in trail
    BY <1>3 DEF play_round, NeonInv
  <2>2. \/ Crashed
        \/ ~blocked(pn) /\ SectorWon(pn)
        \/ ~blocked(pn) /\ ~Frontal(pn, an) /\ ~blocked(an) /\ RideOn(pn, an)
    BY <1>3 DEF play_round
  <2> HIDE DEF pn, an
  <2>3. CASE Crashed
    BY <2>3 DEF Crashed, NeonInv, TrailsStep
  <2>4. CASE ~blocked(pn) /\ SectorWon(pn)
    BY <2>1, <2>4 DEF blocked, SectorWon, NeonInv, TrailsStep
  <2>5. CASE ~blocked(pn) /\ ~Frontal(pn, an) /\ ~blocked(an) /\ RideOn(pn, an)
    BY <2>5 DEF blocked, Frontal, RideOn, NeonInv, TrailsStep
  <2> QED BY <2>2, <2>3, <2>4, <2>5
<1>4. CASE Quit
  BY <1>4 DEF Quit, NeonInv, TrailsStep
<1> QED BY <1>1, <1>2, <1>3, <1>4 DEF NeonNext

(* In an arena of any size, whatever the keys and whatever the rival's     *)
(* mind, no cell is ever entered twice and the heads never meet.           *)
THEOREM NeonTrailsDisjoint == NeonSpec => TrailsDisjoint
<1>1. NeonInit => NeonInv
  BY DEF NeonInit, NeonInv
<1>2. NeonInv /\ [NeonNext]_neonVars => NeonInv' /\ [TrailsStep]_neonVars
  BY NeonNextInv
<1>3. TrailsDisjoint <=> [][TrailsStep]_neonVars
  BY DEF TrailsDisjoint, TrailsStep
<1> QED BY <1>1, <1>2, <1>3, PTL DEF NeonSpec

Back(d) == IF d < DOWN THEN d + 2 ELSE d - 2

(* During a round the rival cannot ride back: the cell behind it is one    *)
(* that it came from, unless it has not moved, and then the way ahead is   *)
(* free.                                                                   *)
WonInv ==
    /\ score \in Nat /\ level \in Nat
    /\ at = "frame" =>
          /\ a \in Arena /\ ad \in Directions
          /\ blocked(step_from(a, Back(ad))) \/ ~blocked(step_from(a, ad))

(* The rival looks ahead and to both sides before it runs into a trail.    *)
LEMMA AllSidesTried ==
    ASSUME NEW key, a \in Arena, ad \in Directions, blocked(ai(Mind(key)).cell)
    PROVE  /\ blocked(step_from(a, ad))
           /\ \A d \in Directions : blocked(step_from(a, d)) \/ d = Back(ad)
<1> DEFINE m == Mind(key)
           one == FirstSide(m)
           two == OtherSide(one)
<1> HIDE DEF m
<1>1. /\ one \in Directions /\ two \in Directions
      /\ \A d \in Directions : d \in {ad, one, two, Back(ad)}
  BY DEF FirstSide, OtherSide, Back, Directions, UP, RIGHT, DOWN, LEFT
<1> HIDE DEF one, two
<1>2. ai(m) \in {Heading(ad), Heading(one), Heading(two), [Heading(two) EXCEPT !.dir = ad]}
      /\ (blocked(ai(m).cell) =>
              /\ blocked(Heading(ad).cell) /\ blocked(Heading(one).cell)
              /\ blocked(Heading(two).cell))
  BY DEF ai, Heading, one, two
<1>3. \A d : Heading(d).cell = step_from(a, d)
  BY DEF Heading
<1> QED BY <1>1, <1>2, <1>3 DEF m

(* Where the rival goes and what it calls its direction agree. *)
LEMMA HeadingKept ==
    ASSUME NEW key, a \in Arena, ad \in Directions, ~blocked(ai(Mind(key)).cell)
    PROVE  /\ ai(Mind(key)).dir \in Directions
           /\ ai(Mind(key)).cell = step_from(a, ai(Mind(key)).dir)
           /\ step_from(ai(Mind(key)).cell, Back(ai(Mind(key)).dir)) = a
<1> DEFINE m == Mind(key)
           one == FirstSide(m)
           two == OtherSide(one)
<1> HIDE DEF m
<1>1. one \in Directions /\ two \in Directions
  BY DEF FirstSide, OtherSide, Directions, UP, RIGHT, DOWN, LEFT
<1> HIDE DEF one, two
<1>2. PICK d \in Directions : ai(m) = Heading(d)
  <2>1. blocked(Heading(ad).cell) /\ blocked(Heading(one).cell) /\ blocked(Heading(two).cell)
        => ai(m).cell = Heading(two).cell
    BY DEF ai, Heading, one, two
  <2>2. ~(blocked(Heading(ad).cell) /\ blocked(Heading(one).cell) /\ blocked(Heading(two).cell))
        => ai(m) \in {Heading(ad), Heading(one), Heading(two)}
    BY DEF ai, one, two
  <2> QED BY <1>1, <2>1, <2>2 DEF m
<1>3. a \in Int \X Int
  BY NeonAssumption DEF Arena
<1>4. ai(m).dir = d /\ ai(m).cell = step_from(a, d)
  BY <1>2 DEF Heading
<1>5. step_from(step_from(a, d), Back(d)) = a
  BY <1>3 DEF step_from, Back, Directions, UP, RIGHT, DOWN, LEFT
<1> QED BY <1>4, <1>5 DEF m

WonStep ==
    score' > score => /\ \A d \in Directions : blocked(step_from(a, d))
                      /\ p' \notin trail

LEMMA WonNextInv ==
    ASSUME WonInv, NeonInv, [NeonNext]_neonVars
    PROVE  WonInv' /\ [WonStep]_neonVars
<1>1. CASE UNCHANGED neonVars
  BY <1>1 DEF neonVars, WonInv, blocked
<1>2. CASE reset_round
  <2>1. a' \in Arena /\ ad' \in Directions /\ at' = "frame"
    BY <1>2, NeonAssumption DEF reset_round, Arena, Directions, UP, LEFT
  <2>2. step_from(a', ad') \in Arena \ trail'
    <3>1. step_from(RivalStart, LEFT) = <<RivalStart[1] - 1, RivalStart[2]>>
      BY DEF step_from, UP, RIGHT, DOWN, LEFT
    <3>2. <<RivalStart[1] - 1, RivalStart[2]>> # RivalStart
      BY NeonAssumption
    <3> QED BY <1>2, <3>1, <3>2, NeonAssumption DEF reset_round, Arena
  <2>3. WonInv'
    BY <1>2, <2>1, <2>2 DEF WonInv, blocked, reset_round
  <2> QED BY <1>2, <2>3 DEF reset_round, WonStep, WonInv
<1>3. ASSUME NEW key \in NeonKeys, play_round(key)
      PROVE  WonInv' /\ WonStep
  <2> DEFINE pn == step_from(p, input(key))
             an == ai(Mind(key)).cell
  <2>1. /\ at = "frame" /\ a \in trail /\ a \in Arena /\ ad \in Directions
        /\ blocked(step_from(a, Back(ad))) \/ ~blocked(step_from(a, ad))
        /\ score \in Nat /\ level \in Nat
    BY <1>3 DEF play_round, NeonInv, WonInv
  <2>2. ad' = ai(Mind(key)).dir
    BY <1>3 DEF play_round
  <2>3. \/ Crashed
        \/ ~blocked(pn) /\ blocked(an) /\ SectorWon(pn)
        \/ ~blocked(an) /\ RideOn(pn, an)
    BY <1>3 DEF play_round
  <2> HIDE DEF pn, an
  <2>4. CASE Crashed
    BY <2>1, <2>4 DEF Crashed, WonInv, WonStep
  <2>5. CASE ~blocked(pn) /\ blocked(an) /\ SectorWon(pn)
    <3>1. \A d \in Directions : blocked(step_from(a, d))
      BY <2>1, <2>5, AllSidesTried DEF an
    <3>2. p' \notin trail
      BY <2>5 DEF SectorWon, blocked
    <3>3. at' = "round" /\ score' \in Nat /\ level' \in Nat
      BY <2>1, <2>5 DEF SectorWon
    <3> QED BY <3>1, <3>2, <3>3 DEF WonInv, WonStep
  <2>6. CASE ~blocked(an) /\ RideOn(pn, an)
    <3>1. an \in Arena /\ ad' \in Directions /\ step_from(an, Back(ad')) = a
      BY <2>1, <2>2, <2>6, HeadingKept DEF an, blocked
    <3>2. a' = an /\ trail \subseteq trail' /\ score' = score /\ level' = level
      BY <2>6 DEF RideOn
    <3>3. step_from(a, Back(ad))' \in trail'
      BY <2>1, <3>1, <3>2 DEF step_from, Back
    <3> QED BY <2>1, <3>1, <3>2 DEF WonInv, WonStep, blocked
  <2> QED BY <2>3, <2>4, <2>5, <2>6
<1>4. CASE Quit
  BY <1>4 DEF Quit, WonInv, WonStep
<1> QED BY <1>1, <1>2, <1>3, <1>4 DEF NeonNext

(* A crash of both is never a sector won, and a rival that crashed had no  *)
(* way out, in an arena of any size in which it starts with a free cell    *)
(* ahead.                                                                  *)
THEOREM NeonWonFairly == NeonSpec => WonFairly
<1>1. NeonInit => NeonInv /\ WonInv
  BY DEF NeonInit, NeonInv, WonInv
<1>2. NeonInv /\ WonInv /\ [NeonNext]_neonVars => (NeonInv /\ WonInv)' /\ [WonStep]_neonVars
  BY NeonNextInv, WonNextInv
<1>3. WonFairly <=> [][WonStep]_neonVars
  BY DEF WonFairly, WonStep
<1> QED BY <1>1, <1>2, <1>3, PTL DEF NeonSpec

-----------------------------------------------------------------------------
(* Invaders.  Each part of a frame is a function of the globals, so that   *)
(* the argument is about one value of them, g.                             *)

Missing(g, row) == {e \in Enemies \ g.enemies : e[1] = row}

Hits(g) == 15 * Cardinality(Missing(g, 0)) + 10 * Cardinality(Missing(g, 1))
           + 5 * Cardinality(Missing(g, 2))

Scored(g) ==
    /\ {"enemies", "score", "wave"} \subseteq DOMAIN g
    /\ g = [field \in DOMAIN g |-> g[field]]
    /\ g.enemies \subseteq Enemies /\ g.score \in Int /\ g.wave \in Int
    /\ g.score = 30 * ENEMY_COLS * (g.wave - 1) + Hits(g)

(* What else may change. *)
SameScore(g, h) ==
    /\ DOMAIN h = DOMAIN g /\ h = [field \in DOMAIN h |-> h[field]]
    /\ h.enemies = g.enemies /\ h.score = g.score /\ h.wave = g.wave

LEMMA SameScoreScored ==
    ASSUME NEW g, NEW h, Scored(g), SameScore(g, h) PROVE Scored(h)
BY DEF Scored, SameScore, Hits, Missing

(* A row of the grid is finite and has ENEMY_COLS places. *)
LEMMA GridRows ==
    ASSUME NEW row \in Rows3
    PROVE  /\ IsFiniteSet({e \in Enemies : e[1] = row})
           /\ Cardinality({e \in Enemies : e[1] = row}) = ENEMY_COLS
<1>1. ENEMY_COLS \in Nat \ {0}
  BY InvadersAssumption
<1>2. IsFiniteSet(Cols) /\ Cardinality(Cols) = ENEMY_COLS
  BY <1>1, FS_Interval DEF Cols
<1>3. IsFiniteSet({row}) /\ Cardinality({row}) = 1
  BY FS_Singleton
<1> DEFINE line == {e \in Enemies : e[1] = row}
<1>4. line = {row} \X Cols
  BY DEF Enemies
<1>5. /\ IsFiniteSet({row} \X Cols)
      /\ Cardinality({row} \X Cols) = 1 * ENEMY_COLS
  BY <1>2, <1>3, FS_Product
<1> HIDE DEF line
<1>6. IsFiniteSet(line) /\ Cardinality(line) = ENEMY_COLS
  BY <1>1, <1>4, <1>5
<1> QED BY <1>6 DEF line

LEMMA MissingFinite ==
    ASSUME NEW g, NEW row \in Rows3
    PROVE  IsFiniteSet(Missing(g, row)) /\ Cardinality(Missing(g, row)) \in Nat
<1>1. Missing(g, row) \subseteq {e \in Enemies : e[1] = row}
  BY DEF Missing
<1> QED BY <1>1, GridRows, FS_Subset, FS_CardinalityType

(* The shot hits an enemy that is there. *)
LEMMA HitIsTouched ==
    ASSUME NEW g, Scored(g), NEW x, NEW y, Touches(g, x, y)
    PROVE  Hit(g, x, y) \in g.enemies
<1> DEFINE touched == {e \in g.enemies : Near(x, ColX(g, e[2])) /\ y = RowY(g, e[1])}
           R == LexPairOrdering(OpToRel(<, Nat), OpToRel(<, Nat), Nat, Nat)
<1>1. touched # {} /\ touched \subseteq g.enemies
  BY DEF Touches
<1>2. touched \subseteq Nat \X Nat
  <2>1. Enemies \subseteq Nat \X Nat
    BY InvadersAssumption DEF Enemies, Rows3, ENEMY_ROWS, Cols
  <2> QED BY <1>1, <2>1 DEF Scored
<1>3. IsWellFoundedOn(R, Nat \X Nat)
  BY NatLessThanWellFounded, WFLexPairOrdering
<1> HIDE DEF touched, R
<1>4. PICK e \in touched : \A f \in touched : <<f, e>> \notin R
  BY <1>1, <1>2, <1>3, WFMin
<1>5. \A f \in touched : e[1] < f[1] \/ (e[1] = f[1] /\ e[2] <= f[2])
  <2> TAKE f \in touched
  <2>1. /\ e \in Nat \X Nat /\ f \in Nat \X Nat
        /\ <<f, e>> \notin R
    BY <1>2, <1>4
  <2>2. /\ ~(f[1] < e[1])
        /\ ~(f[1] = e[1] /\ f[2] < e[2])
    BY <2>1 DEF R, LexPairOrdering, OpToRel
  <2> QED BY <2>1, <2>2
<1>6. Hit(g, x, y) \in touched
  BY <1>4, <1>5 DEF Hit, touched
<1> QED BY <1>1, <1>6

(* One enemy is taken out of the grid and scored. *)
LEMMA EnemyScored ==
    ASSUME NEW g, NEW h, Scored(g), NEW e \in g.enemies,
           DOMAIN h = DOMAIN g, h = [field \in DOMAIN h |-> h[field]],
           h.enemies = g.enemies \ {e}, h.wave = g.wave,
           h.score = g.score + Worth(e[1])
    PROVE  Scored(h)
<1>1. e \in Enemies /\ e[1] \in {0, 1, 2}
  BY DEF Scored, Enemies, Rows3, ENEMY_ROWS
<1>2. \A row \in Rows3 : Missing(h, row) = IF row = e[1] THEN Missing(g, row) \cup {e}
                                                         ELSE Missing(g, row)
  BY <1>1 DEF Missing
<1>3. \A row \in Rows3 : e \notin Missing(g, row)
  BY DEF Missing
<1>4. \A row \in Rows3 :
         /\ Cardinality(Missing(g, row)) \in Nat
         /\ Cardinality(Missing(h, row)) = Cardinality(Missing(g, row))
                                           + (IF row = e[1] THEN 1 ELSE 0)
  <2> TAKE row \in Rows3
  <2>1. IsFiniteSet(Missing(g, row)) /\ Cardinality(Missing(g, row)) \in Nat
    BY MissingFinite
  <2>2. Cardinality(Missing(g, row) \cup {e}) = Cardinality(Missing(g, row)) + 1
    BY <1>3, <2>1, FS_AddElement
  <2>3. CASE row = e[1]
    <3>1. Missing(h, row) = Missing(g, row) \cup {e}
      BY <1>2, <2>3
    <3>2. Cardinality(Missing(h, row)) = Cardinality(Missing(g, row)) + 1
      BY <2>2, <3>1
    <3> QED BY <2>1, <2>3, <3>2
  <2>4. CASE row # e[1]
    <3>1. Missing(h, row) = Missing(g, row)
      BY <1>2, <2>4
    <3>2. Cardinality(Missing(h, row)) = Cardinality(Missing(g, row)) + 0
      BY <2>1, <3>1
    <3> QED BY <2>1, <2>4, <3>2
  <2> QED BY <2>3, <2>4
<1>5. Rows3 = {0, 1, 2}
  BY DEF Rows3, ENEMY_ROWS
<1>6. Hits(h) = Hits(g) + Worth(e[1]) /\ Worth(e[1]) \in Int
  BY <1>1, <1>4, <1>5 DEF Hits, Worth
<1>7. Hits(g) \in Int /\ 30 * ENEMY_COLS * (g.wave - 1) \in Int
  BY <1>4, <1>5, InvadersAssumption DEF Hits, Scored
<1>8. h.score = 30 * ENEMY_COLS * (h.wave - 1) + Hits(h)
  BY <1>6, <1>7 DEF Scored
<1> QED BY <1>6, <1>8 DEF Scored

(* The grid is full again and the wave is the next: what was missing is    *)
(* the whole of the wave before.                                           *)
LEMMA WaveScored ==
    ASSUME NEW g, NEW h, Scored(g), g.enemies = {},
           DOMAIN h = DOMAIN g, h = [field \in DOMAIN h |-> h[field]],
           h.enemies = Enemies, h.wave = g.wave + 1, h.score = g.score
    PROVE  Scored(h)
<1>1. Rows3 = {0, 1, 2} /\ ENEMY_COLS \in Int
  BY InvadersAssumption DEF Rows3, ENEMY_ROWS
<1>2. \A row \in Rows3 : Missing(g, row) = {e \in Enemies : e[1] = row}
  BY DEF Missing
<1>3. \A row \in Rows3 : Cardinality(Missing(g, row)) = ENEMY_COLS
  BY <1>2, GridRows
<1>4. Hits(g) = 30 * ENEMY_COLS
  BY <1>1, <1>3 DEF Hits
<1>5. \A row \in Rows3 : Missing(h, row) = {}
  BY DEF Missing
<1>6. Hits(h) = 0
  <2>1. Cardinality({}) = 0
    BY FS_EmptySet
  <2>2. \A row \in Rows3 : Cardinality(Missing(h, row)) = 0
    BY <1>5, <2>1
  <2> QED BY <1>1, <2>2 DEF Hits
<1>7. \A c, w \in Int : 30 * c * (w - 1) + 30 * c = 30 * c * ((w + 1) - 1) + 0
  OBVIOUS
<1>8. h.score = 30 * ENEMY_COLS * (h.wave - 1) + Hits(h)
  BY <1>1, <1>4, <1>6, <1>7 DEF Scored
<1> QED BY <1>8 DEF Scored

LEMMA WaveReset ==
    ASSUME NEW g, {"enemies", "score", "wave"} \subseteq DOMAIN g,
           g = [field \in DOMAIN g |-> g[field]]
    PROVE  /\ DOMAIN reset_wave(g) = DOMAIN g
           /\ reset_wave(g) = [field \in DOMAIN reset_wave(g) |-> reset_wave(g)[field]]
           /\ reset_wave(g).enemies = Enemies
           /\ reset_wave(g).wave = g.wave /\ reset_wave(g).score = g.score
BY DEF reset_wave

LEMMA ShotScored == ASSUME NEW g, Scored(g) PROVE Scored(update_player_shot(g))
<1> DEFINE y == g.shot.y - 1
           up == [g EXCEPT !.shot.y = y]
           enemy == Hit(g, g.shot.x, y)
           struck == [g EXCEPT !.enemies = @ \ {enemy}, !.shot = NoShot,
                               !.score = @ + Worth(enemy[1])]
<1>1. Scored(up)
  <2>1. SameScore(g, up)
    BY DEF Scored, SameScore
  <2> QED BY <2>1, SameScoreScored
<1>2. Scored([up EXCEPT !.shot = NoShot])
  <2>1. SameScore(g, [up EXCEPT !.shot = NoShot])
    BY DEF Scored, SameScore
  <2> QED BY <2>1, SameScoreScored
<1>3. ASSUME Touches(g, g.shot.x, y) PROVE Scored(struck)
  <2>1. enemy \in g.enemies
    BY <1>3, HitIsTouched
  <2> HIDE DEF enemy
  <2>2. /\ DOMAIN struck = DOMAIN g
        /\ struck = [field \in DOMAIN struck |-> struck[field]]
        /\ struck.enemies = g.enemies \ {enemy} /\ struck.wave = g.wave
        /\ struck.score = g.score + Worth(enemy[1])
    BY DEF Scored
  <2> HIDE DEF struck
  <2> QED BY <2>1, <2>2, EnemyScored
<1>4. update_player_shot(g) \in {g, [up EXCEPT !.shot = NoShot], up}
      \/ (Touches(g, g.shot.x, y) /\ update_player_shot(g) = struck)
  BY DEF update_player_shot
<1> HIDE DEF up, struck, y
<1> QED BY <1>1, <1>2, <1>3, <1>4

(* The rest of a frame does not touch the score. *)
LEMMA QuietParts ==
    ASSUME NEW g, Scored(g)
    PROVE  /\ Scored(update_enemy_shot(g))
           /\ Scored(update_enemies(g))
           /\ \A col \in Cols : Scored(EnemyFires(g, col))
           /\ \A key \in InvaderKeys : Scored(InvaderKey(g, key))
<1>1. Scored(update_enemy_shot(g))
  <2> DEFINE y == g.enemy_shot.y + 1
             away == [g EXCEPT !.enemy_shot = NoShot]
             down == [g EXCEPT !.enemy_shot.y = y]
  <2>1. SameScore(g, g) /\ SameScore(g, away) /\ SameScore(g, down)
    BY DEF Scored, SameScore
  <2>2. SameScore(g, lose_life(g))
    BY DEF Scored, SameScore, lose_life
  <2>3. update_enemy_shot(g) \in {g, away, lose_life(g), down}
    BY DEF update_enemy_shot
  <2> HIDE DEF away, down
  <2> QED BY <2>1, <2>2, <2>3, SameScoreScored
<1>2. Scored(update_enemies(g))
  <2>1. SameScore(g, Walk(g))
    BY DEF Scored, SameScore, Walk
  <2>2. Scored(Walk(g))
    BY <2>1, SameScoreScored
  <2>3. SameScore(Walk(g), [Walk(g) EXCEPT !.enemy_tick = 0,
            !.state = IF Walk(g).enemy_y + 4 >= PLAYER_Y - 1 THEN 1 ELSE @])
    BY <2>2 DEF Scored, SameScore
  <2>4. SameScore(g, [g EXCEPT !.enemy_tick = @ + 1])
    BY DEF Scored, SameScore
  <2> QED BY <2>2, <2>3, <2>4, SameScoreScored DEF update_enemies
<1>3. ASSUME NEW col \in Cols PROVE Scored(EnemyFires(g, col))
  <2>1. SameScore(g, EnemyFires(g, col))
    BY DEF Scored, SameScore, EnemyFires
  <2> QED BY <2>1, SameScoreScored
<1>4. ASSUME NEW key \in InvaderKeys PROVE Scored(InvaderKey(g, key))
  <2>1. SameScore(g, InvaderKey(g, key))
    BY DEF Scored, SameScore, InvaderKey, fire_player
  <2> QED BY <2>1, SameScoreScored
<1> QED BY <1>1, <1>2, <1>3, <1>4

LEMMA WaveClearedScored == ASSUME NEW g, Scored(g) PROVE Scored(WaveCleared(g))
<1> DEFINE next == [g EXCEPT !.wave = @ + 1]
           won == [g EXCEPT !.state = 2]
<1>1. Scored(won)
  <2>1. SameScore(g, won)
    BY DEF Scored, SameScore
  <2> QED BY <2>1, SameScoreScored
<1>2. ASSUME g.enemies = {} PROVE Scored(reset_wave(next))
  <2>1. /\ DOMAIN next = DOMAIN g /\ next = [field \in DOMAIN next |-> next[field]]
        /\ next.wave = g.wave + 1 /\ next.score = g.score
        /\ {"enemies", "score", "wave"} \subseteq DOMAIN next
    BY DEF Scored
  <2> HIDE DEF next
  <2>2. /\ DOMAIN reset_wave(next) = DOMAIN g
        /\ reset_wave(next) = [field \in DOMAIN reset_wave(next) |-> reset_wave(next)[field]]
        /\ reset_wave(next).enemies = Enemies
        /\ reset_wave(next).wave = g.wave + 1 /\ reset_wave(next).score = g.score
    BY <2>1, WaveReset
  <2> QED BY <1>2, <2>2, WaveScored
<1>3. \/ WaveCleared(g) \in {g, won}
      \/ g.enemies = {} /\ WaveCleared(g) = reset_wave(next)
  BY DEF WaveCleared
<1> HIDE DEF won, next
<1> QED BY <1>1, <1>2, <1>3

LEMMA NewGameScored == Scored(new_game)
<1> DEFINE g == [enemies |-> {}, gridX |-> 0, enemy_y |-> 0, enemy_dir |-> 1,
                 enemy_tick |-> 0, enemy_fire_tick |-> 0, enemy_period |-> 0,
                 shot |-> NoShot, enemy_shot |-> NoShot, player_x |-> 0,
                 score |-> 0, wave |-> 1, lives |-> LIVES_AT_START, state |-> 0,
                 quit |-> FALSE]
           h == reset_wave(g)
<1>1. /\ {"enemies", "score", "wave"} \subseteq DOMAIN g
      /\ g = [field \in DOMAIN g |-> g[field]] /\ g.wave = 1 /\ g.score = 0
  OBVIOUS
<1>2. new_game = h
  BY DEF new_game
<1> HIDE DEF g
<1>3. /\ DOMAIN h = DOMAIN g /\ h = [field \in DOMAIN h |-> h[field]]
      /\ h.enemies = Enemies /\ h.wave = 1 /\ h.score = 0
  BY <1>1, WaveReset
<1> HIDE DEF h
<1>4. Missing(h, 0) = {} /\ Missing(h, 1) = {} /\ Missing(h, 2) = {}
  BY <1>3 DEF Missing
<1>5. Hits(h) = 0
  BY <1>4, FS_EmptySet DEF Hits
<1>6. 30 * ENEMY_COLS * (1 - 1) + 0 = 0
  BY InvadersAssumption
<1> QED BY <1>1, <1>2, <1>3, <1>5, <1>6 DEF Scored

LEMMA InvadersNextInv ==
    ASSUME Scored(invaders), [InvadersNext]_invadersVars
    PROVE  Scored(invaders)'
<1>1. CASE UNCHANGED invadersVars
  BY <1>1 DEF invadersVars, Scored, Hits, Missing
<1>2. CASE InvadersTitle
  <2>1. invaders' = new_game
    BY <1>2 DEF InvadersTitle
  <2> QED BY <2>1, NewGameScored DEF Scored, Hits, Missing
<1>3. CASE InvadersMove
  <2>1. PICK col \in Cols :
          invaders' = WaveCleared(EnemyFires(update_enemies(update_enemy_shot(
                                      update_player_shot(invaders))), col))
    BY <1>3 DEF InvadersMove
  <2> DEFINE g1 == update_player_shot(invaders)
             g2 == update_enemy_shot(g1)
             g3 == update_enemies(g2)
             g4 == EnemyFires(g3, col)
  <2>2. Scored(g1)
    BY ShotScored
  <2> HIDE DEF g1
  <2>3. Scored(g2)
    BY <2>2, QuietParts
  <2> HIDE DEF g2
  <2>4. Scored(g3)
    BY <2>3, QuietParts
  <2> HIDE DEF g3
  <2>5. Scored(g4)
    BY <2>4, QuietParts
  <2> HIDE DEF g4
  <2>6. Scored(WaveCleared(g4))
    BY <2>5, WaveClearedScored
  <2>7. invaders' = WaveCleared(g4)
    BY <2>1 DEF g1, g2, g3, g4
  <2> QED BY <2>6, <2>7 DEF Scored, Hits, Missing
<1>4. ASSUME NEW key \in InvaderKeys, InvadersInput(key)
      PROVE  Scored(invaders)'
  <2>1. invaders' = InvaderKey(invaders, key)
    BY <1>4 DEF InvadersInput
  <2>2. Scored(InvaderKey(invaders, key))
    BY QuietParts
  <2> QED BY <2>1, <2>2 DEF Scored, Hits, Missing
<1>5. ASSUME NEW key \in InvaderKeys, InvadersPause(key)
      PROVE  Scored(invaders)'
  <2>1. invaders' = [invaders EXCEPT !.quit = (key = "quit")]
    BY <1>5 DEF InvadersPause
  <2>2. SameScore(invaders, invaders')
    BY <2>1 DEF Scored, SameScore
  <2> QED BY <2>2 DEF SameScore, Scored, Hits, Missing
<1>6. ASSUME NEW key \in InvaderKeys, InvadersEnd(key)
      PROVE  Scored(invaders)'
  BY <1>6 DEF InvadersEnd, Scored, Hits, Missing
<1> QED BY <1>1, <1>2, <1>3, <1>4, <1>5, <1>6 DEF InvadersNext

(* Every enemy is scored once, for grids of any width, in games of any     *)
(* number of waves and lives.                                              *)
THEOREM InvadersScoreAccounts == InvadersSpec => []ScoreAccounts
<1>1. InvadersInit => Scored(invaders)
  BY NewGameScored DEF InvadersInit
<1>2. Scored(invaders) /\ [InvadersNext]_invadersVars => Scored(invaders)'
  BY InvadersNextInv
<1>3. Scored(invaders) => ScoreAccounts
  BY DEF Scored, ScoreAccounts, Hits, Missing
<1> QED BY <1>1, <1>2, <1>3, PTL DEF InvadersSpec

-----------------------------------------------------------------------------
(* Allocating a run of free words keeps the blocks apart: the new one has  *)
(* no word of the others because they are what Taken is made of.           *)
LEMMA AllocateDisjoint ==
    ASSUME NEW size \in Sizes, NEW ptr \in Words,
           NEW n \in size + Header .. size + Header + SlackMax,
           Sizes \subseteq Nat, Header \in Nat, SlackMax \in Nat,
           BlocksDisjoint, Allocate(size, ptr, n)
    PROVE  BlocksDisjoint'
<1> DEFINE new == [size |-> size, words |-> n]
<1>1. live' = [b \in DOMAIN live \cup {ptr} |-> IF b = ptr THEN new ELSE live[b]]
  BY DEF Allocate
<1>2. DOMAIN live' = DOMAIN live \cup {ptr}
  BY <1>1
<1>3. live'[ptr] = new
  BY <1>1
<1>4. Extent(ptr)' = Run(ptr, n)
  BY <1>3 DEF Extent, Run
<1>5. ASSUME NEW b \in DOMAIN live, b # ptr
      PROVE  live'[b] = live[b] /\ Extent(b)' = Extent(b) /\ Extent(b) \subseteq Taken
  <2>1. live'[b] = live[b]
    BY <1>1, <1>5
  <2>2. Extent(b)' = Extent(b)
    BY <2>1 DEF Extent, Run
  <2> QED BY <2>1, <2>2 DEF Taken
<1>6. Run(ptr, n) \subseteq Words /\ Run(ptr, n) \cap Taken = {}
  BY DEF Allocate
<1>7. n >= size + Header
  OBVIOUS
<1>8. \A b \in DOMAIN live' : Extent(b)' \subseteq Words
  BY <1>2, <1>4, <1>5, <1>6 DEF BlocksDisjoint
<1>9. \A b \in DOMAIN live' : live'[b].words >= live'[b].size + Header
  BY <1>2, <1>3, <1>5, <1>7 DEF BlocksDisjoint
<1>10. \A b, c \in DOMAIN live' : b # c => (Extent(b) \cap Extent(c))' = {}
  <2> SUFFICES ASSUME NEW b \in DOMAIN live', NEW c \in DOMAIN live', b # c
               PROVE  Extent(b)' \cap Extent(c)' = {}
    OBVIOUS
  <2>1. CASE b = ptr
    BY <2>1, <1>2, <1>4, <1>5, <1>6
  <2>2. CASE c = ptr
    BY <2>2, <1>2, <1>4, <1>5, <1>6
  <2>3. CASE b # ptr /\ c # ptr
    BY <2>3, <1>2, <1>5 DEF BlocksDisjoint
  <2> QED BY <2>1, <2>2, <2>3
<1> QED BY <1>8, <1>9, <1>10 DEF BlocksDisjoint

(* Blocks in use never overlap and always have the room that was asked,    *)
(* for any heap, any sizes and any choice of the words: what every user of *)
(* malloc() relies on.                                                     *)
THEOREM AllocatorKeepsApart ==
    ASSUME Sizes \subseteq Nat, Header \in Nat, SlackMax \in Nat
    PROVE  AllocatorSpec => []BlocksDisjoint
<1>1. AllocatorInit => BlocksDisjoint
  BY DEF AllocatorInit, BlocksDisjoint
<1>2. BlocksDisjoint /\ [AllocatorNext]_live => BlocksDisjoint'
  <2> SUFFICES ASSUME BlocksDisjoint, [AllocatorNext]_live PROVE BlocksDisjoint'
    OBVIOUS
  <2>1. CASE \E size \in Sizes, ptr \in Words :
               \E n \in size + Header .. size + Header + SlackMax :
                   Allocate(size, ptr, n)
    BY <2>1, AllocateDisjoint
  <2>2. ASSUME NEW ptr \in DOMAIN live, Release(ptr) PROVE BlocksDisjoint'
    <3>1. DOMAIN live' \subseteq DOMAIN live
      BY <2>2 DEF Release
    <3>2. \A b \in DOMAIN live' : live'[b] = live[b] /\ Extent(b)' = Extent(b)
      BY <2>2 DEF Release, Extent, Run
    <3> QED BY <3>1, <3>2 DEF BlocksDisjoint
  <2>3. CASE UNCHANGED live
    BY <2>3 DEF BlocksDisjoint, Extent, Run
  <2> QED BY <2>1, <2>2, <2>3 DEF AllocatorNext
<1> QED BY <1>1, <1>2, PTL DEF AllocatorSpec
=============================================================================
