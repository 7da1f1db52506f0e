CONSTANTS
    Parts = {"tetris"}
    HEAP_START = 5
    HEAP_SIZE = 12
    Sizes = {1, 2, 4}
    Steps = 2
    BOARD_W = 6
    BOARD_H = 6
    SPAWN_X = 2
    FIRST_PERIOD = 2
    LEAST_PERIOD = 1
    TetrisKeys = {"none", "left", "right", "turn", "down", "drop", "pause", "quit"}
    DOMINO_W = 4
    DOMINO_H = 4
    DOMINO_X = 1
    DROP_TICKS = 2
    DominoKeys = {"none", "left", "right", "turn", "down", "drop", "quit"}
    ARENA_W = 5
    ARENA_H = 4
    PlayerStart <- MCPlayerStart
    RivalStart <- MCRivalStart
    NeonKeys = {0, 119, 68, 115, 97, 113}
    LIVES = 2
    ENEMY_COLS = 1
    ENEMY_GAP = 3
    FIRST_COL = 3
    LEFT_EDGE = 2
    RIGHT_EDGE = 4
    PLAYER_LEFT = 2
    PLAYER_RIGHT = 4
    PLAYER_X = 3
    FIELD_TOP = 1
    GRID_TOP = 2
    PLAYER_Y = 11
    FIELD_BOTTOM = 12
    MAX_WAVE = 2
    LIVES_AT_START = 2
    SLOWEST = 4
    FASTEST = 3
    FIRE_PERIOD = 4
    InvaderKeys = {"none", "left", "right", "fire", "pause", "quit"}
SPECIFICATION MCSpec
PROPERTY FourTurns
CONSTRAINT Bounded
CHECK_DEADLOCK FALSE
