---------------------------- MODULE MCResources ----------------------------
(* Model checking Resources, and with it Process: the sets and the symmetry *)
(* its .cfg uses.                                                           *)
EXTENDS Resources, TLC

CONSTANTS b1, b2, b3, b4

MCPriorities == {OverlayPriority}
MCBlocks == {b1, b2, b3, b4}

(* Blocks are only compared with each other. *)
Symmetry == Permutations(MCBlocks)
=============================================================================
