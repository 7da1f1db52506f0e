----------------------------- MODULE UserProgram -----------------------------
(***************************************************************************)
(* A program of one process, as the modules of the applications model it:  *)
(* pc is the library call it is about to make, or what it tests next.      *)
(***************************************************************************)

VARIABLES
    app,  \* which program it is
    pc    \* where it is

At(place) == pc = place
Goto(place) == pc' = place
=============================================================================
