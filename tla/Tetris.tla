------------------------------- MODULE Tetris -------------------------------
(* Cariri Tetris, apps/app_cariri_tetris.c: the piece, the well, the score  *)
(* and the loop of the game.  What the game draws is left out, but for the  *)
(* global g_value, which drawing shares with the rotation of the piece.     *)
EXTENDS Rows

CONSTANTS BOARD_W, BOARD_H, SPAWN_X,       \* 10, 18 and 3 in the program
          FIRST_PERIOD, LEAST_PERIOD,      \* 20 and 5
          TetrisKeys                       \* what the player presses, "none" for nothing

ASSUME TetrisAssumption ==
    /\ BOARD_W \in Nat \ {0} /\ BOARD_H \in Nat \ {0} /\ SPAWN_X \in Nat
    /\ LEAST_PERIOD \in Nat \ {0} /\ FIRST_PERIOD >= LEAST_PERIOD

VARIABLES tetris,    \* the globals of the program
          tetrisAt   \* where main() is

tetrisVars == <<tetris, tetrisAt>>

BOARD_TOP == 3
BOARD_LEFT == 3
Columns == 0..BOARD_W - 1

\* I, O, T, S, Z, J, L, each with its four rotations
shape_masks == << 3840, 17476, 240, 8738,     1632, 1632, 1632, 1632,
                  1248, 17984, 3648, 9760,    1728, 17952, 1728, 17952,
                  3168, 9792, 3168, 9792,     3616, 8800, 2272, 25664,
                  3712, 25120, 736, 17504 >>

\* The cells of a piece, as the bits of its mask
Bits(type, rot) == {k \in 0..15 : (shape_masks[4 * type + rot + 1] \div 2^k) % 2 = 1}
Cell(k, px, py) == <<px + (k % 4), py + (k \div 4)>>
Cells(type, rot, px, py) == {Cell(k, px, py) : k \in Bits(type, rot)}

valid_position(t, rot, px, py) ==
    \A c \in Cells(t.type, rot, px, py) :
        /\ c[1] \in Columns /\ c[2] < BOARD_H
        /\ c[2] >= 0 => c[1] \notin t.board[c[2]]

(* What is drawn is left out, but a number of two digits leaves its tens in *)
(* g_value: ansi_number() is handed what g_value was before it.              *)
ansi_number(g_value, number) == IF number >= 10 THEN number \div 10 ELSE g_value
cursor_pos(g_value, row, col) == ansi_number(ansi_number(g_value, row), col)
draw_cell(g_value, c) ==
    cursor_pos(g_value, BOARD_TOP + c[2], BOARD_LEFT + 1 + 2 * c[1])

\* What draw_piece_at() leaves in g_value when it erases the piece
DrawnOver(t, g_value) ==
    LET bits == SetToSortSeq(Bits(t.type, t.rot), <)
    IN  FoldLeft(draw_cell, g_value, [k \in DOMAIN bits |-> Cell(bits[k], t.x, t.y)])

-----------------------------------------------------------------------------
RandomNext(t) == (t.seed + 73 + t.score + t.lines) % 251

spawn_piece(t) ==
    LET seed == RandomNext(t)
        n == [t EXCEPT !.type = t.next, !.next = seed % 7, !.seed = seed,
                       !.rot = 0, !.x = SPAWN_X, !.y = 0]
    IN  [n EXCEPT !.over = @ \/ ~valid_position(n, 0, SPAWN_X, 0)]

lock_piece(t) == [t EXCEPT !.board = Place(@, Cells(t.type, t.rot, t.x, t.y))]

clear_complete_lines(t) ==
    LET done == ClearRows(t.board, Columns)
        faster == t.period - done.count
    IN  [t EXCEPT !.board = done.rows,
                  !.lines = @ + done.count,
                  !.score = @ + 3 * done.count,
                  !.period = CASE done.count = 0 -> @
                               [] faster < LEAST_PERIOD -> LEAST_PERIOD
                               [] OTHER -> faster]

move_piece(t, dx) ==
    IF valid_position(t, t.rot, t.x + dx, t.y) THEN [t EXCEPT !.x = @ + dx] ELSE t

rotate_piece(t) ==
    LET next == (t.rot + 1) % 4
    IN  IF valid_position(t, next, t.x, t.y)
        THEN [t EXCEPT !.rot = DrawnOver(t, next)] ELSE t

drop_one(t) ==
    IF valid_position(t, t.rot, t.x, t.y + 1)
    THEN [t EXCEPT !.y = @ + 1]
    ELSE spawn_piece(clear_complete_lines(lock_piece(t)))

hard_drop(t) ==
    LET falls == {d \in 0..BOARD_H : \A e \in 1..d : valid_position(t, t.rot, t.x, t.y + e)}
        rest == [t EXCEPT !.y = @ + (CHOOSE d \in falls : \A e \in falls : e <= d)]
    IN  spawn_piece(clear_complete_lines(lock_piece(rest)))

TetrisKey(t, key) ==
    CASE key = "left" -> move_piece(t, -1)
      [] key = "right" -> move_piece(t, 1)
      [] key = "turn" -> rotate_piece(t)
      [] key = "down" -> drop_one(t)
      [] key = "drop" -> hard_drop(t)
      [] key = "quit" -> [t EXCEPT !.quit = TRUE]
      [] OTHER -> t

reset_game ==
    LET fresh == [board |-> EmptyRows(BOARD_H), type |-> 0, rot |-> 0, x |-> 0, y |-> 0,
                  next |-> 0, seed |-> 17, score |-> 0, lines |-> 0, counter |-> 0,
                  period |-> FIRST_PERIOD, over |-> FALSE, quit |-> FALSE]
        seed == RandomNext(fresh)
    IN  spawn_piece([fresh EXCEPT !.seed = seed, !.next = seed % 7])

-----------------------------------------------------------------------------
TetrisInit == tetris = reset_game /\ tetrisAt = "title"

\* show_title(): any key starts
TetrisTitle ==
    /\ tetrisAt = "title"
    /\ tetris' = reset_game /\ tetrisAt' = "play"

\* One turn of play_game(): a key, then, unless it paused, the fall
TetrisInput(key) ==
    /\ tetrisAt = "play" /\ ~tetris.over /\ ~tetris.quit
    /\ tetris' = TetrisKey(tetris, key)
    /\ tetrisAt' = IF key = "pause" THEN "paused" ELSE "fall"

\* pause_game(): only p goes on, only q gives up
TetrisPause(key) ==
    /\ tetrisAt = "paused" /\ key \in {"pause", "quit"}
    /\ tetris' = [tetris EXCEPT !.quit = (key = "quit")]
    /\ tetrisAt' = "fall"

\* The fall runs in the turn in which the game ended or the player gave up, too
TetrisFall ==
    /\ tetrisAt = "fall"
    /\ tetris' = IF tetris.counter + 1 >= tetris.period
                 THEN drop_one([tetris EXCEPT !.counter = 0])
                 ELSE [tetris EXCEPT !.counter = @ + 1]
    /\ tetrisAt' = "play"

\* end_screen() and main(): r plays again, q ends
TetrisEnd(key) ==
    /\ tetrisAt = "play" /\ (tetris.over \/ tetris.quit)
    /\ tetrisAt' = IF tetris.quit \/ key = "quit" THEN "done" ELSE "title"
    /\ UNCHANGED tetris

TetrisNext ==
    \/ TetrisTitle
    \/ TetrisFall
    \/ \E key \in TetrisKeys : TetrisInput(key) \/ TetrisPause(key) \/ TetrisEnd(key)

TetrisSpec == TetrisInit /\ [][TetrisNext]_tetrisVars

-----------------------------------------------------------------------------
(* A step that changes the well puts the piece into it, where it stood or   *)
(* below, takes away every full row, several at once or next to each other  *)
(* too, keeps the others in their order, and counts each row once.  The     *)
(* loop of clear_complete_lines() and remove_row() share the counter g_i    *)
(* (the comment at line 555 tells of it).                                   *)
RowsCleared ==
    [][ tetris'.board # tetris.board /\ tetrisAt # "title" =>
        \E y \in tetris.y..tetris.y + BOARD_H :
            LET full == Place(tetris.board, Cells(tetris.type, tetris.rot, tetris.x, y))
            IN  /\ tetris'.board = Settled(full, Columns)
                /\ tetris'.lines = tetris.lines + FullRows(full, Columns)
                /\ tetris'.score - 3 * tetris'.lines = tetris.score - 3 * tetris.lines
      ]_tetrisVars

(* "quatro rotacoes por peca" (apps/app_cariri_tetris.c:69): a turn that the *)
(* next rotation fits leads to the next of the four rotations.  The code    *)
(* breaks it: it keeps the next rotation in g_value while it erases the      *)
(* piece, and erasing it writes g_value.                                     *)
FourTurns ==
    [][ /\ TetrisInput("turn")
        /\ valid_position(tetris, (tetris.rot + 1) % 4, tetris.x, tetris.y)
        => tetris'.rot = (tetris.rot + 1) % 4 ]_tetrisVars

(* A piece turned to a rotation nobody tested may stick out of the well, and *)
(* the program would then write around its board: such a behaviour is cut.   *)
PieceInside ==
    \A c \in Cells(tetris.type, tetris.rot, tetris.x, tetris.y) :
        c[1] \in Columns /\ c[2] \in 0..BOARD_H - 1
=============================================================================
