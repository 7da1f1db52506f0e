----------------------------- MODULE NeonCycles -----------------------------
(* Cariri Neon Cycles, apps/app_cariri_neon_cycles.c: two cycles leave a    *)
(* trail in an arena; who enters a trail or the border has crashed.  The    *)
(* rival is driven by ai(), which keeps its state in the scratch global i.  *)
(* Drawing and delays are left out; none of them uses i during a round.     *)
EXTENDS Integers, FiniteSets

CONSTANTS ARENA_W, ARENA_H,         \* W = 38 and H = 22 in the program
          PlayerStart, RivalStart,  \* <<7, 11>> and <<30, 11>>
          NeonKeys,                 \* character codes, 0 for no key
          LIVES                     \* 3

ASSUME NeonAssumption ==
    /\ ARENA_W \in Nat \ {0} /\ ARENA_H \in Nat \ {0}
    /\ PlayerStart \in (0..ARENA_W - 1) \X (0..ARENA_H - 1)
    /\ RivalStart \in (0..ARENA_W - 1) \X (0..ARENA_H - 1)
    /\ PlayerStart # RivalStart
    \* The cell ahead of the rival, which starts to the left, is free.
    /\ <<RivalStart[1] - 1, RivalStart[2]>> \in (0..ARENA_W - 1) \X (0..ARENA_H - 1)
    /\ <<RivalStart[1] - 1, RivalStart[2]>> # PlayerStart
    /\ LIVES \in Nat \ {0} /\ NeonKeys \subseteq Nat

VARIABLES trail,           \* map: the cells that are marked
          p, pd, a, ad,    \* px, py and pd of the player; ax, ay and ad of the rival
          mind, frameNo,   \* i and frame, of which the code only uses the low bits
          score, level, lives,
          at               \* "round" (to be reset), "frame" or "done"

neonVars == <<trail, p, pd, a, ad, mind, frameNo, score, level, lives, at>>

UP == 0
RIGHT == 1
DOWN == 2
LEFT == 3
Directions == UP..LEFT
Arena == (0..ARENA_W - 1) \X (0..ARENA_H - 1)

blocked(c) == c \notin Arena \/ c \in trail

step_from(c, d) ==
    CASE d = UP -> <<c[1], c[2] - 1>>
      [] d = RIGHT -> <<c[1] + 1, c[2]>>
      [] d = DOWN -> <<c[1], c[2] + 1>>
      [] d = LEFT -> <<c[1] - 1, c[2]>>

\* input(): a cycle does not turn back; capitals count as small letters
input(key) ==
    LET low == IF key \in 65..90 THEN key + 32 ELSE key
    IN  CASE low = 119 /\ pd # DOWN -> UP
          [] low = 100 /\ pd # LEFT -> RIGHT
          [] low = 115 /\ pd # UP -> DOWN
          [] low = 97 /\ pd # RIGHT -> LEFT
          [] OTHER -> pd

-----------------------------------------------------------------------------
(* ai(): m is the new state of the rival's mind.  Before an obstacle it      *)
(* tries one side, then the other; on a free way it tries a side now and     *)
(* then.  The result is the direction it keeps and the cell it goes to.      *)
Mind(key) == (mind + key + frameNo + p[1] + a[2] + 3) % 8

FirstSide(m) ==
    IF m % 2 = 0 THEN (IF ad - 1 < 0 THEN LEFT ELSE ad - 1)
                 ELSE (IF ad + 1 > LEFT THEN UP ELSE ad + 1)

\* Mutant: the other side is taken for the way back.
OtherSideBack(v) == ad

OtherSide(v) == IF v + 2 > LEFT THEN v + 2 - 4 ELSE v + 2

Heading(d) == [dir |-> d, cell |-> step_from(a, d)]

ai(m) ==
    LET ahead == Heading(ad)
        first == Heading(FirstSide(m))
        other == Heading(OtherSide(FirstSide(m)))
    IN  CASE blocked(ahead.cell) /\ ~blocked(first.cell) -> first
          [] blocked(ahead.cell) /\ blocked(first.cell) ->
                 IF blocked(other.cell) THEN [other EXCEPT !.dir = ad] ELSE other
          [] OTHER ->
                 IF frameNo % 8 = 0 /\ m % 4 < 2 /\ ~blocked(first.cell)
                 THEN first ELSE ahead

\* Mutant: two heads may meet in one cell.
FrontalSwap(pn, an) == pn = a /\ an = p

\* Both want one cell, or change places
Frontal(pn, an) == pn = an \/ (pn = a /\ an = p)

-----------------------------------------------------------------------------
NeonInit ==
    /\ trail = {} /\ p = PlayerStart /\ a = RivalStart /\ pd = RIGHT /\ ad = LEFT
    /\ mind = 0 /\ frameNo = 1 /\ score = 0 /\ level = 1 /\ lives = LIVES /\ at = "round"

\* reset_round(): the frame number goes on, so the rounds differ
reset_round ==
    /\ at = "round"
    /\ trail' = {PlayerStart, RivalStart}
    /\ p' = PlayerStart /\ pd' = RIGHT
    /\ a' = RivalStart /\ ad' = LEFT
    /\ mind' = (frameNo + score + lives) % 8
    /\ at' = "frame"
    /\ UNCHANGED <<frameNo, score, level, lives>>

\* One frame of play_round(); the player's crash comes before the rival's
Crashed ==
    /\ IF lives - 1 <= 0
       THEN lives' = LIVES /\ score' = 0 /\ level' = 1
       ELSE lives' = lives - 1 /\ UNCHANGED <<score, level>>
    /\ at' = "round"
    /\ UNCHANGED <<trail, p, a, frameNo>>

SectorWon(pn) ==
    /\ score' = score + level
    /\ level' = IF level + 1 > 9 THEN 9 ELSE level + 1
    /\ p' = pn /\ trail' = trail \cup {pn}
    /\ at' = "round"
    /\ UNCHANGED <<a, frameNo, lives>>

RideOn(pn, an) ==
    /\ p' = pn /\ a' = an /\ trail' = trail \cup {pn, an}
    /\ frameNo' = (frameNo + 1) % 8
    /\ UNCHANGED <<score, level, lives, at>>

play_round(key) ==
    LET d == input(key)
        pn == step_from(p, d)
        m == Mind(key)
        rival == ai(m)
        an == rival.cell
    IN  /\ at = "frame" /\ key \notin {81, 113}
        /\ pd' = d /\ ad' = rival.dir /\ mind' = m
        /\ \/ (blocked(pn) \/ Frontal(pn, an)) /\ Crashed
           \/ ~blocked(pn) /\ ~Frontal(pn, an) /\ blocked(an) /\ SectorWon(pn)
           \/ ~blocked(pn) /\ ~Frontal(pn, an) /\ ~blocked(an) /\ RideOn(pn, an)

\* q or Q ends the program
Quit ==
    /\ at = "frame" /\ NeonKeys \cap {81, 113} # {}
    /\ at' = "done"
    /\ UNCHANGED <<trail, p, pd, a, ad, mind, frameNo, score, level, lives>>

NeonNext == reset_round \/ (\E key \in NeonKeys : play_round(key)) \/ Quit

NeonSpec == NeonInit /\ [][NeonNext]_neonVars

-----------------------------------------------------------------------------
(* Whoever rides on enters a cell that no trail marks, and not the one the   *)
(* other enters: the arena never holds two trails, or two heads, in a cell.  *)
(* The player's move is tested before the rival's is known.                  *)
TrailsDisjoint ==
    [][ at = "frame" =>
          /\ p' # p => p' \in Arena \ trail /\ p' # a'
          /\ a' # a => a' \in Arena \ trail ]_neonVars

(* "nao transformamos uma batida mutua em setor vencido" (line 516): a       *)
(* sector is won only when the rival had no free cell around it, but for the *)
(* one the player took in the same frame, and the player rides on.             *)
WonFairly ==
    [][ score' > score =>
          /\ \A d \in Directions : blocked(step_from(a, d))
          /\ p' \notin trail ]_neonVars
=============================================================================
