------------------------------- MODULE Domino -------------------------------
(* The small falling-block game of cov/jogos/tetris.c: dominoes of two      *)
(* cells, lying or standing.                                                *)
EXTENDS Rows

CONSTANTS DOMINO_W, DOMINO_H, DOMINO_X,    \* W = 8, H = 14 and 3 in the program
          DROP_TICKS,                      \* 20
          DominoKeys                       \* what the player presses, "none" for nothing

ASSUME DominoAssumption ==
    /\ DOMINO_W \in Nat \ {0} /\ DOMINO_H \in Nat \ {0, 1}
    /\ DOMINO_X \in 0..DOMINO_W - 2 /\ DROP_TICKS \in Nat \ {0}

VARIABLE domino  \* the globals of the program

DominoColumns == 0..DOMINO_W - 1

\* The two cells of the piece: lying (rot = 0) or standing
DominoCells(px, py, rot) ==
    {<<px, py>>, IF rot = 0 THEN <<px + 1, py>> ELSE <<px, py + 1>>}

valid(d, nx, ny, nr) ==
    \A c \in DominoCells(nx, ny, nr) :
        c[1] \in DominoColumns /\ c[2] < DOMINO_H /\ c[1] \notin d.board[c[2]]

\* lock_piece(): the piece stays, the full rows go, the next piece starts
LockDomino(d) ==
    LET done == ClearRows(Place(d.board, DominoCells(d.x, d.y, d.rot)), DominoColumns)
        n == [board |-> done.rows, x |-> DOMINO_X, y |-> 0, rot |-> 0,
              tick |-> d.tick, over |-> d.over,
              score |-> d.score + 1 + 5 * done.count, lines |-> d.lines + done.count]
    IN  [n EXCEPT !.over = @ \/ ~valid(n, DOMINO_X, 0, 0)]

step_down(d) ==
    IF valid(d, d.x, d.y + 1, d.rot) THEN [d EXCEPT !.y = @ + 1] ELSE LockDomino(d)

Slide(d, dx) == IF valid(d, d.x + dx, d.y, d.rot) THEN [d EXCEPT !.x = @ + dx] ELSE d
\* Mutant: a turn is not tested.
TurnBlind(d) == [d EXCEPT !.rot = 1 - @]
Turn(d) == IF valid(d, d.x, d.y, 1 - d.rot) THEN [d EXCEPT !.rot = 1 - @] ELSE d
Fall(d) ==
    LET falls == {k \in 0..DOMINO_H : \A e \in 1..k : valid(d, d.x, d.y + e, d.rot)}
    IN  [d EXCEPT !.y = @ + (CHOOSE k \in falls : \A e \in falls : e <= k)]

DominoKey(d, key) ==
    CASE key = "left" -> Slide(d, -1)
      [] key = "right" -> Slide(d, 1)
      [] key = "turn" -> Turn(d)
      [] key = "down" -> [d EXCEPT !.tick = DROP_TICKS]
      [] key = "drop" -> LockDomino(Fall(d))
      [] key = "quit" -> [d EXCEPT !.over = TRUE]
      [] OTHER -> d

\* The end of the turn, in the turn that ended the game, too
DominoTick(d) ==
    IF d.tick + 1 >= DROP_TICKS
    THEN step_down([d EXCEPT !.tick = 0]) ELSE [d EXCEPT !.tick = @ + 1]

-----------------------------------------------------------------------------
DominoInit ==
    domino = [board |-> EmptyRows(DOMINO_H), x |-> DOMINO_X, y |-> 0, rot |-> 0,
              tick |-> 0, over |-> FALSE, score |-> 0, lines |-> 0]

\* One turn of main()
DominoNext ==
    /\ ~domino.over
    /\ \E key \in DominoKeys : domino' = DominoTick(DominoKey(domino, key))

DominoSpec == DominoInit /\ [][DominoNext]_domino

-----------------------------------------------------------------------------
(* The score is one for every piece and five for every row, so the cells in  *)
(* the well are twice the pieces less the rows taken away, no full row stays *)
(* and the piece that falls is clear of the others, as long as the game      *)
(* lasts: no cell is lost, doubled or left behind by rows that go together.  *)
DominoAccounts ==
    LET pieces == domino.score - 5 * domino.lines
    IN  ~domino.over =>
            /\ Cardinality(Occupied(domino.board)) + DOMINO_W * domino.lines = 2 * pieces
            /\ FullRows(domino.board, DominoColumns) = 0
            /\ valid(domino, domino.x, domino.y, domino.rot)
=============================================================================
