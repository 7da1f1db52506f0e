---------------------------- MODULE MCStandalone ----------------------------
(* Model checking, in one run, the parts that share no state with others:   *)
(* the kernel's heap, the frame of one process, and the games, each of which *)
(* is a program that nobody else talks to.  A behaviour is of one part.      *)
EXTENDS Heap, SignalFrame, Tetris, Domino, NeonCycles, Invaders

CONSTANT Parts

MCPlayerStart == <<1, 1>>
MCRivalStart == <<3, 1>>

VARIABLE part  \* Bound: the part the behaviour is of

standaloneVars ==
    <<heapVars, frameVars, tetrisVars, domino, neonVars, invadersVars, part>>

MCInit ==
    /\ part \in Parts
    /\ HeapInit /\ FrameInit /\ TetrisInit /\ DominoInit /\ NeonInit /\ InvadersInit

MCNext ==
    \/ /\ part = "heap" /\ HeapNext
       /\ UNCHANGED <<frameVars, tetrisVars, domino, neonVars, invadersVars, part>>
    \/ /\ part = "frame" /\ FrameNext
       /\ UNCHANGED <<heapVars, tetrisVars, domino, neonVars, invadersVars, part>>
    \/ /\ part = "tetris" /\ TetrisNext
       /\ UNCHANGED <<heapVars, frameVars, domino, neonVars, invadersVars, part>>
    \/ /\ part = "domino" /\ DominoNext
       /\ UNCHANGED <<heapVars, frameVars, tetrisVars, neonVars, invadersVars, part>>
    \/ /\ part = "neon" /\ NeonNext
       /\ UNCHANGED <<heapVars, frameVars, tetrisVars, domino, invadersVars, part>>
    \/ /\ part = "invaders" /\ InvadersNext
       /\ UNCHANGED <<heapVars, frameVars, tetrisVars, domino, neonVars, part>>

MCSpec == MCInit /\ [][MCNext]_standaloneVars

(* Bounds: two rows and two sectors are enough to see one follow another,   *)
(* and a piece of Tetris that sticks out of the well ends the behaviour.     *)
Bounded ==
    /\ tetris.lines <= 2 /\ PieceInside
    /\ domino.lines <= 2
    /\ score <= 1
=============================================================================
