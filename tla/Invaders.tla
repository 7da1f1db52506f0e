------------------------------ MODULE Invaders ------------------------------
(* Cariri Invaders, apps/app_cariri_invaders.c: one shot of the player, one  *)
(* of the enemies, a grid that walks to the edges and down.  Drawing and     *)
(* delays are left out.  The column that fires, a function of random_seed    *)
(* and frame_counter in the code, is any column.                             *)
EXTENDS Integers, FiniteSets

CONSTANTS ENEMY_COLS, ENEMY_GAP, FIRST_COL,   \* 10, 6 and 10 in the program
          LEFT_EDGE, RIGHT_EDGE,              \* 5 and 75, where the grid turns
          PLAYER_LEFT, PLAYER_RIGHT,          \* 4 and 77, where the player stops
          PLAYER_X,                           \* 40, where the player starts
          FIELD_TOP, GRID_TOP, PLAYER_Y, FIELD_BOTTOM,   \* 2, 4, 21 and 23
          MAX_WAVE, LIVES_AT_START,           \* 5 and 3
          SLOWEST, FASTEST, FIRE_PERIOD,      \* 11, 4 and 18
          InvaderKeys                         \* what the player presses, "none" for nothing

ASSUME InvadersAssumption ==
    /\ ENEMY_COLS \in Nat \ {0} /\ ENEMY_GAP >= 3
    /\ PLAYER_X \in PLAYER_LEFT..PLAYER_RIGHT
    /\ FIELD_TOP < GRID_TOP /\ GRID_TOP < PLAYER_Y /\ PLAYER_Y < FIELD_BOTTOM
    /\ MAX_WAVE \in Nat \ {0} /\ LIVES_AT_START \in Nat \ {0}

VARIABLES invaders,    \* the globals of the program
          invadersAt   \* where main() is

invadersVars == <<invaders, invadersAt>>

ENEMY_ROWS == 3
Rows3 == 0..ENEMY_ROWS - 1
Cols == 0..ENEMY_COLS - 1
Enemies == Rows3 \X Cols
NoShot == [active |-> FALSE, x |-> 0, y |-> 0]
LastCol == ENEMY_COLS - 1

ColX(g, col) == g.gridX + ENEMY_GAP * col
RowY(g, row) == g.enemy_y + 2 * row
Near(x, y) == x \in y - 1..y + 1

\* What an enemy of a row is worth
Worth(row) == CASE row = 0 -> 15 [] row = 1 -> 10 [] OTHER -> 5

-----------------------------------------------------------------------------
reset_wave(g) ==
    [g EXCEPT !.enemies = Enemies, !.gridX = FIRST_COL, !.enemy_y = GRID_TOP,
              !.enemy_dir = 1, !.enemy_tick = 0, !.enemy_fire_tick = 0,
              !.enemy_period = IF SLOWEST - g.wave < FASTEST THEN FASTEST
                               ELSE SLOWEST - g.wave,
              !.shot = NoShot, !.enemy_shot = NoShot, !.player_x = PLAYER_X]

new_game ==
    reset_wave([enemies |-> {}, gridX |-> 0, enemy_y |-> 0, enemy_dir |-> 1,
                enemy_tick |-> 0, enemy_fire_tick |-> 0, enemy_period |-> 0,
                shot |-> NoShot, enemy_shot |-> NoShot, player_x |-> 0,
                score |-> 0, wave |-> 1, lives |-> LIVES_AT_START, state |-> 0, quit |-> FALSE])

fire_player(g) ==
    IF g.shot.active THEN g
    ELSE [g EXCEPT !.shot = [active |-> TRUE, x |-> g.player_x, y |-> PLAYER_Y - 1]]

InvaderKey(g, key) ==
    CASE key = "left" /\ g.player_x > PLAYER_LEFT -> [g EXCEPT !.player_x = @ - 1]
      [] key = "right" /\ g.player_x < PLAYER_RIGHT -> [g EXCEPT !.player_x = @ + 1]
      [] key = "fire" -> fire_player(g)
      [] key = "quit" -> [g EXCEPT !.quit = TRUE]
      [] OTHER -> g

\* The first enemy, row by row, that the shot touches
Hit(g, x, y) ==
    LET touched == {e \in g.enemies : Near(x, ColX(g, e[2])) /\ y = RowY(g, e[1])}
    IN  CHOOSE e \in touched :
            \A f \in touched : e[1] < f[1] \/ (e[1] = f[1] /\ e[2] <= f[2])

Touches(g, x, y) == \E e \in g.enemies : Near(x, ColX(g, e[2])) /\ y = RowY(g, e[1])

update_player_shot(g) ==
    LET y == g.shot.y - 1
        up == [g EXCEPT !.shot.y = y]
        enemy == Hit(g, g.shot.x, y)
    IN  CASE ~g.shot.active -> g
          [] g.shot.active /\ y <= FIELD_TOP -> [up EXCEPT !.shot = NoShot]
          [] g.shot.active /\ y > FIELD_TOP /\ Touches(g, g.shot.x, y) ->
                 [g EXCEPT !.enemies = @ \ {enemy}, !.shot = NoShot,
                           !.score = @ + Worth(enemy[1])]
          [] OTHER -> up

lose_life(g) ==
    [g EXCEPT !.lives = @ - 1, !.enemy_shot = NoShot, !.player_x = PLAYER_X,
              !.state = IF g.lives - 1 <= 0 THEN 1 ELSE @]

update_enemy_shot(g) ==
    LET y == g.enemy_shot.y + 1
    IN  CASE ~g.enemy_shot.active -> g
          [] g.enemy_shot.active /\ y >= FIELD_BOTTOM -> [g EXCEPT !.enemy_shot = NoShot]
          [] g.enemy_shot.active /\ y = PLAYER_Y /\ Near(g.enemy_shot.x, g.player_x) ->
                 lose_life(g)
          [] OTHER -> [g EXCEPT !.enemy_shot.y = y]

\* The edges are those of the outer columns, even when nobody lives in them
Walk(g) ==
    LET right == g.enemy_dir > 0
        turns == IF right THEN ColX(g, LastCol) >= RIGHT_EDGE ELSE ColX(g, 0) <= LEFT_EDGE
    IN  IF turns THEN [g EXCEPT !.enemy_dir = -@, !.enemy_y = @ + 1]
        ELSE [g EXCEPT !.gridX = @ + g.enemy_dir]

update_enemies(g) ==
    IF g.enemy_tick + 1 < g.enemy_period THEN [g EXCEPT !.enemy_tick = @ + 1]
    ELSE LET w == Walk(g)
         IN  [w EXCEPT !.enemy_tick = 0,
                       !.state = IF w.enemy_y + 4 >= PLAYER_Y - 1 THEN 1 ELSE @]

\* Any column fires, an empty one too
EnemyFires(g, col) ==
    IF g.enemy_fire_tick + 1 < FIRE_PERIOD THEN [g EXCEPT !.enemy_fire_tick = @ + 1]
    ELSE [g EXCEPT !.enemy_fire_tick = 0,
                   !.enemy_shot = IF @.active THEN @
                                  ELSE [active |-> TRUE, x |-> ColX(g, col), y |-> g.enemy_y + 5]]

\* Mutant: the wave ends without looking at the third row.
WaveClearedEarly(g) ==
    LET left == {e \in g.enemies : e[1] < 2}
    IN  CASE left # {} -> g
          [] left = {} /\ g.wave >= MAX_WAVE -> [g EXCEPT !.state = 2]
          [] OTHER -> reset_wave([g EXCEPT !.wave = @ + 1])

WaveCleared(g) ==
    CASE g.enemies # {} -> g
      [] g.enemies = {} /\ g.wave >= MAX_WAVE -> [g EXCEPT !.state = 2]
      [] OTHER -> reset_wave([g EXCEPT !.wave = @ + 1])

-----------------------------------------------------------------------------
InvadersInit == invaders = new_game /\ invadersAt = "title"

InvadersTitle ==
    /\ invadersAt = "title"
    /\ invaders' = new_game /\ invadersAt' = "play"

\* One frame of play_game(): a key, then, unless it paused, everything that moves
InvadersInput(key) ==
    /\ invadersAt = "play" /\ invaders.state = 0 /\ ~invaders.quit
    /\ invaders' = InvaderKey(invaders, key)
    /\ invadersAt' = IF key = "pause" THEN "paused" ELSE "move"

InvadersPause(key) ==
    /\ invadersAt = "paused" /\ key \in {"pause", "quit"}
    /\ invaders' = [invaders EXCEPT !.quit = (key = "quit")]
    /\ invadersAt' = "move"

InvadersMove ==
    /\ invadersAt = "move"
    /\ \E col \in Cols :
          LET moved == update_enemies(update_enemy_shot(update_player_shot(invaders)))
          IN  invaders' = WaveCleared(EnemyFires(moved, col))
    /\ invadersAt' = "play"

\* end_screen() and main(): r plays again, q ends
InvadersEnd(key) ==
    /\ invadersAt = "play" /\ (invaders.state # 0 \/ invaders.quit)
    /\ invadersAt' = IF invaders.quit \/ key = "quit" THEN "done" ELSE "title"
    /\ UNCHANGED invaders

InvadersNext ==
    \/ InvadersTitle
    \/ InvadersMove
    \/ \E key \in InvaderKeys : InvadersInput(key) \/ InvadersPause(key) \/ InvadersEnd(key)

InvadersSpec == InvadersInit /\ [][InvadersNext]_invadersVars

-----------------------------------------------------------------------------
(* Every enemy is scored once, at what its row is worth, and a wave ends     *)
(* only when the last one is: the score is that of the waves cleared and of  *)
(* the enemies missing from this one, whatever else happened in the frame    *)
(* of the hit (a life lost, the grid at the bottom, the wave reset).         *)
ScoreAccounts ==
    LET missing(row) == Cardinality({e \in Enemies \ invaders.enemies : e[1] = row})
        hits == 15 * missing(0) + 10 * missing(1) + 5 * missing(2)
    IN  invaders.score = 30 * ENEMY_COLS * (invaders.wave - 1) + hits
=============================================================================
