----------------------------- MODULE Allocator -----------------------------
(***************************************************************************)
(* What malloc() and free() promise the kernel: each block in use has the  *)
(* words that were asked for, and no other block in use has any of them.   *)
(* Nothing is said of the free blocks or of which words are chosen.        *)
(***************************************************************************)
EXTENDS Integers

CONSTANTS
    Words,     \* the addresses of the heap: integers
    Sizes,     \* the arguments of malloc(): natural numbers
    Header,    \* words added to every block
    SlackMax   \* words a block may be given beyond what was asked

(* For each block in use, by its first word: what was asked, and how many  *)
(* words it has.                                                           *)
VARIABLE live

Run(a, n) == a .. a + n - 1

Extent(a) == Run(a, live[a].words)

Taken == UNION {Extent(a) : a \in DOMAIN live}

AllocatorInit == live = [a \in {} |-> 0]

Allocate(size, a, n) ==
    /\ live' = [b \in DOMAIN live \cup {a} |->
                    IF b = a THEN [size |-> size, words |-> n] ELSE live[b]]
    /\ Run(a, n) \subseteq Words \ Taken

Release(a) == live' = [b \in DOMAIN live \ {a} |-> live[b]]

AllocatorNext ==
    \/ \E size \in Sizes, a \in Words :
           \E n \in size + Header .. size + Header + SlackMax :
               Allocate(size, a, n)
    \/ \E a \in DOMAIN live : Release(a)

AllocatorSpec == AllocatorInit /\ [][AllocatorNext]_live

-----------------------------------------------------------------------------
(* Blocks in use lie inside the heap, have room for what was asked, and    *)
(* never overlap.                                                          *)
BlocksDisjoint ==
    /\ \A a \in DOMAIN live : Extent(a) \subseteq Words
    /\ \A a \in DOMAIN live : live[a].words >= live[a].size + Header
    /\ \A a, b \in DOMAIN live : a # b => Extent(a) \cap Extent(b) = {}
=============================================================================
