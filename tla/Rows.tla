-------------------------------- MODULE Rows --------------------------------
(* The well of the falling-block games: a row is the set of its occupied  *)
(* columns, row 0 is the top.  Both games empty full rows with one loop,   *)
(* from the bottom up, that scans a height again after it took a row away. *)
EXTENDS Integers, FiniteSets, SequencesExt

EmptyRows(height) == [y \in 0..height - 1 |-> {}]

(* The cells <<x, y>> join the rows; what is above the top is not kept. *)
Place(b, cells) == [y \in DOMAIN b |-> b[y] \cup {c[1] : c \in {d \in cells : d[2] = y}}]

remove_row(b, row) ==
    [y \in DOMAIN b |-> CASE y = 0 -> {}
                          [] y \in 1..row -> b[y - 1]
                          [] OTHER -> b[y]]

(* Where the scan is: the heights it has still to look at, and the number  *)
(* of rows taken away so far.                                              *)
Scans(b, full) == [rows : [DOMAIN b -> SUBSET full], height : Nat, count : Nat]

FullRow(s, full) == s.rows[s.height - 1] = full

TakeRow(s) == [rows |-> remove_row(s.rows, s.height - 1), height |-> s.height,
               count |-> s.count + 1]

GoUp(s) == [s EXCEPT !.height = @ - 1]

(* Mutant: the height just emptied is not scanned again. *)
ClearRowsOnce(b, full) ==
    LET scan[s \in Scans(b, full)] ==
            IF s.height = 0 THEN s
            ELSE scan[IF FullRow(s, full) THEN GoUp(TakeRow(s)) ELSE GoUp(s)]
    IN  scan[[rows |-> b, height |-> Cardinality(DOMAIN b), count |-> 0]]

ClearRows(b, full) ==
    LET scan[s \in Scans(b, full)] ==
            IF s.height = 0 THEN s
            ELSE scan[IF FullRow(s, full) THEN TakeRow(s) ELSE GoUp(s)]
    IN  scan[[rows |-> b, height |-> Cardinality(DOMAIN b), count |-> 0]]

-----------------------------------------------------------------------------
(* What the loop is for, said without a loop: the rows that are not full,   *)
(* in their order, at the bottom, and empty rows above them.                *)
Kept(b, full) == {y \in DOMAIN b : b[y] # full}

Settles(b, full, y) == Cardinality(DOMAIN b) - Cardinality({z \in Kept(b, full) : z >= y})

Settled(b, full) ==
    [y \in DOMAIN b |-> UNION {b[z] : z \in {k \in Kept(b, full) : Settles(b, full, k) = y}}]

FullRows(b, full) == Cardinality({y \in DOMAIN b : b[y] = full})
Occupied(b) == UNION {{<<x, y>> : x \in b[y]} : y \in DOMAIN b}
=============================================================================
