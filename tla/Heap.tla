-------------------------------- MODULE Heap --------------------------------
(***************************************************************************)
(* The kernel heap (kernel/sys_mem.c): first fit over blocks that lie one  *)
(* after the other in ram, each headed by two words, its size and 1 if it  *)
(* is free.  The heap holds nothing else, so the blocks are found by       *)
(* walking from HEAP_START and adding sizes; the loops of malloc() and     *)
(* kernel_defrag() are the recursive functions below.                      *)
(*                                                                         *)
(* The kernel's handlers are atomic, so a call of malloc() or free() is    *)
(* one step.  held is what the callers know: the pointers they were given  *)
(* and have not given back.  They write what they like in their blocks.    *)
(***************************************************************************)
EXTENDS Integers, Functions

CONSTANTS
    HEAP_START, HEAP_SIZE,
    Sizes  \* arguments of malloc()

ASSUME HeapAssumption ==
    /\ HEAP_START \in Nat \ {0}  \* 0 is the pointer that says "no memory"
    /\ HEAP_SIZE \in Nat /\ HEAP_SIZE > 2
    /\ Sizes \subseteq Nat

HEAP_END == HEAP_START + HEAP_SIZE

Address == HEAP_START .. HEAP_END - 1

VARIABLES
    ram,   \* the words of the heap
    held   \* for each pointer in use, the size asked for

heapVars == <<ram, held>>

HeapInit ==
    /\ ram = [a \in Address |->
                CASE a = HEAP_START -> HEAP_SIZE
                  [] a = HEAP_START + 1 -> 1
                  [] OTHER -> 0]
    /\ held = [ptr \in {} |-> 0]

-----------------------------------------------------------------------------
Places == {ptr \in Nat : ptr >= HEAP_START}

(* Mutant: the size asked for is compared with the block, header and all.  *)
FitsWithoutHeader(m, needed) ==
    LET walk[ptr \in Places] ==
            IF ptr >= HEAP_END THEN 0
            ELSE IF m[ptr + 1] = 1 /\ m[ptr] >= needed - 2 THEN ptr
                 ELSE walk[ptr + m[ptr]]
    IN  walk[HEAP_START]

(* The first free block that has the words needed, or 0. *)
FirstFit(m, needed) ==
    LET walk[ptr \in Places] ==
            IF ptr >= HEAP_END THEN 0
            ELSE IF m[ptr + 1] = 1 /\ m[ptr] >= needed THEN ptr
                 ELSE walk[ptr + m[ptr]]
    IN  walk[HEAP_START]

(* Mutant: the block is cut, but what is left of it gets no header of its  *)
(* own and belongs to nobody.                                              *)
SplitLosesRest(m, ptr, needed) ==
    LET remaining == m[ptr] - needed
    IN  IF remaining > 2
        THEN [m EXCEPT ![ptr] = needed, ![ptr + 1] = 0,
                       ![ptr + needed] = remaining, ![ptr + needed + 1] = 0]
        ELSE [m EXCEPT ![ptr + 1] = 0]

(* The block at ptr, marked as used and cut when more than a header is left. *)
Split(m, ptr, needed) ==
    LET remaining == m[ptr] - needed
    IN  IF remaining > 2
        THEN [m EXCEPT ![ptr] = needed, ![ptr + 1] = 0,
                       ![ptr + needed] = remaining, ![ptr + needed + 1] = 1]
        ELSE [m EXCEPT ![ptr + 1] = 0]

Malloc(size) ==
    LET ptr == FirstFit(ram, size + 2)
    IN  \/ /\ ptr # 0
           /\ ram' = Split(ram, ptr, size + 2)
           /\ held' = [h \in DOMAIN held \cup {ptr + 2} |-> IF h = ptr + 2 THEN size ELSE held[h]]
        \/ ptr = 0 /\ UNCHANGED heapVars  \* returns 0

(* A walk that rewrites the headers: the words so far, and where it stands. *)
Walks == [m : [Address -> Nat], ptr : Places]

next_ptr(w) == w.ptr + w.m[w.ptr]

TwoFree(w) ==
    w.m[w.ptr + 1] = 1 /\ next_ptr(w) < HEAP_END /\ w.m[next_ptr(w) + 1] = 1

Swallow(w) == [w EXCEPT !.m[w.ptr] = @ + w.m[next_ptr(w)]]

Advance(w) == [w EXCEPT !.ptr = next_ptr(w)]

(* Mutant: the walk leaves a block behind as soon as it has grown once.    *)
DefragPairs(m) ==
    LET walk[w \in Walks] ==
            IF w.ptr >= HEAP_END THEN w.m
            ELSE walk[IF TwoFree(w) THEN Advance(Swallow(w)) ELSE Advance(w)]
    IN  walk[[m |-> m, ptr |-> HEAP_START]]

(* kernel_defrag(): a free block swallows the free block after it, and     *)
(* stays where it is, for there may be a third.                            *)
Defrag(m) ==
    LET walk[w \in Walks] ==
            IF w.ptr >= HEAP_END THEN w.m
            ELSE walk[IF TwoFree(w) THEN Swallow(w) ELSE Advance(w)]
    IN  walk[[m |-> m, ptr |-> HEAP_START]]

(* free() of a pointer in use; free(0) does nothing. *)
Free(ptr) ==
    /\ ram' = Defrag([ram EXCEPT ![ptr - 1] = 1])
    /\ held' = Restrict(held, DOMAIN held \ {ptr})

(* The owner of a block fills it with 1, what the "free" mark looks like.  *)
Store(ptr) ==
    /\ ram' = [a \in Address |->
                  IF a \in ptr .. ptr - 3 + ram[ptr - 2] THEN 1 ELSE ram[a]]
    /\ UNCHANGED held

HeapNext ==
    \/ \E size \in Sizes : Malloc(size)
    \/ \E ptr \in DOMAIN held : Free(ptr)
    \/ \E ptr \in DOMAIN held : Store(ptr)

HeapSpec == HeapInit /\ [][HeapNext]_heapVars

-----------------------------------------------------------------------------
(* The headers the walk meets. *)
Headers ==
    LET met[a \in Address] ==
            a = HEAP_START \/ \E b \in HEAP_START .. a - 1 : b + ram[b] = a /\ met[b]
    IN  {a \in Address : met[a]}

(* The walk through the heap always works: every block is longer than its  *)
(* header or holds nothing, the last ends where the heap ends, and the     *)
(* blocks marked as used are those the callers hold.                       *)
HeapTiled ==
    /\ \A a \in Headers : ram[a] >= 2 /\ a + ram[a] <= HEAP_END
    /\ {a + 2 : a \in {b \in Headers : ram[b + 1] # 1}} = DOMAIN held

(* Nobody is refused memory that is there: when malloc() finds no block,   *)
(* no run of words outside the blocks in use is long enough.  It needs     *)
(* every free() to merge all the free neighbours, on both sides.           *)
Used == UNION {ptr - 2 .. ptr - 3 + ram[ptr - 2] : ptr \in DOMAIN held}

NoFalseOutOfMemory ==
    \A size \in Sizes, a \in Address :
        a .. a + size + 1 \subseteq Address \ Used
        => FirstFit(ram, size + 2) # 0

(* The heap is an allocator: every block given out is at least as long as  *)
(* was asked, lies in the heap and overlaps no block in use, and the       *)
(* header arithmetic of the other calls never changes its extent.          *)
AsAllocator == INSTANCE Allocator
                 WITH Words <- Address, Sizes <- Sizes, Header <- 2, SlackMax <- 2,
                      live <- [a \in {ptr - 2 : ptr \in DOMAIN held} |->
                                 [size |-> held[a + 2], words |-> ram[a]]]

IsAllocator == AsAllocator!AllocatorSpec
=============================================================================
