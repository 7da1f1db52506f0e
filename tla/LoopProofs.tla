----------------------------- MODULE LoopProofs -----------------------------
(***************************************************************************)
(* What is proved about loops: those of the kernel heap, for a heap of any *)
(* size and any requests, and the loop that empties the rows of the two    *)
(* falling-block games, for a well of any size.                            *)
(*   Heap: the blocks follow each other without a gap, no two neighbours   *)
(*   are free, and so it refuses only what does not fit and does what      *)
(*   Allocator says.                                                       *)
(*   Domino, Tetris: every full row goes, is counted once, and no cell is  *)
(*   lost or doubled.                                                      *)
(***************************************************************************)
EXTENDS Heap, Domino, Tetris, FiniteSetTheorems, WellFoundedInduction, TLAPS

(***************************************************************************)
(* The loops of this code, written as recursive functions: from a state    *)
(* where the loop stops it has the result out, from another the result of  *)
(* the next state.  Nothing says so far that such a function exists.  One  *)
(* that does gives each state what comes out of the states in Stop that    *)
(* every set closed under step must have.                                  *)
(***************************************************************************)
IsLoop(f, S, Stop, step, out) ==
    f = [s \in S |-> IF s \in Stop THEN out[s] ELSE f[step[s]]]

(* Every loop whose steps stay in S has such a function.                   *)
LEMMA LoopExists ==
    ASSUME NEW S, NEW Stop, NEW step, NEW out,
           \A s \in S \ Stop : step[s] \in S
    PROVE  \E f : IsLoop(f, S, Stop, step, out)
<1> DEFINE Closed(C) == \A c \in C \ Stop : step[c] \in C
           Ends(s) == {x \in S \cap Stop : \A C \in SUBSET S : s \in C /\ Closed(C) => x \in C}
           Pick(E) == CHOOSE x : x \in E
           f == [s \in S |-> out[Pick(Ends(s))]]
<1>1. ASSUME NEW s \in S \cap Stop PROVE Ends(s) = {s}
  <2>1. Closed({s}) /\ {s} \in SUBSET S
    OBVIOUS
  <2> QED BY <2>1
<1>2. ASSUME NEW s \in S \ Stop PROVE Ends(s) = Ends(step[s])
  <2>1. ASSUME NEW x \in Ends(step[s]) PROVE x \in Ends(s)
    OBVIOUS
  <2>2. ASSUME NEW x \in Ends(s) PROVE x \in Ends(step[s])
    <3> SUFFICES ASSUME NEW C \in SUBSET S, step[s] \in C, Closed(C) PROVE x \in C
      OBVIOUS
    <3>1. C \cup {s} \in SUBSET S /\ Closed(C \cup {s})
      OBVIOUS
    <3>2. x \in C \cup {s}
      BY <3>1
    <3> QED BY <3>2
  <2> QED BY <2>1, <2>2
<1>3. ASSUME NEW s \in S \cap Stop PROVE Pick(Ends(s)) = s
  BY <1>1
<1> HIDE DEF Ends, Pick
<1>4. f = [s \in S |-> IF s \in Stop THEN out[s] ELSE f[step[s]]]
  BY <1>2, <1>3
<1> QED BY <1>4 DEF IsLoop

(* A set of numbers has a least one.                                       *)
LEMMA LeastOf ==
    ASSUME NEW T, T \subseteq Nat, T # {}
    PROVE  \E m \in T : \A k \in T : m <= k
<1> DEFINE R == OpToRel(<, Nat)
<1>1. IsWellFoundedOn(R, Nat)
  BY NatLessThanWellFounded
<1> HIDE DEF R
<1>2. PICK m \in T : \A k \in T : <<k, m>> \notin R
  BY <1>1, WFMin
<1>3. ASSUME NEW k \in T PROVE m <= k
  <2>1. <<k, m>> \in Nat \X Nat /\ ~(k < m)
    BY <1>2, <1>3 DEF R, OpToRel
  <2>2. k \in Nat /\ m \in Nat
    OBVIOUS
  <2> QED BY <2>1, <2>2
<1> QED BY <1>3

(* What a step keeps is true where the loop stops, if it gets nearer to an *)
(* end by each step.                                                       *)
LEMMA LoopEnds ==
    ASSUME NEW S, NEW Stop, NEW step, NEW out, NEW f,
           IsLoop(f, S, Stop, step, out),
           NEW Inside, Inside \subseteq S, NEW left \in [Inside -> Nat],
           \A s \in Inside \ Stop : step[s] \in Inside /\ left[step[s]] < left[s],
           NEW s0 \in Inside
    PROVE  \E e \in Inside \cap Stop : f[s0] = out[e]
<1> DEFINE Bad == {s \in Inside : \A e \in Inside \cap Stop : f[s] # out[e]}
           T == {left[s] : s \in Bad}
<1> SUFFICES ASSUME Bad # {} PROVE FALSE
  OBVIOUS
<1>1. T \subseteq Nat /\ T # {}
  OBVIOUS
<1> HIDE DEF T
<1>2. PICK least \in T : \A k \in T : least <= k
  BY <1>1, LeastOf
<1>3. PICK s \in Bad : left[s] = least
  BY <1>2 DEF T
<1>4. s \in Inside /\ s \notin Stop /\ f[s] = f[step[s]]
  BY <1>3 DEF IsLoop
<1>5. step[s] \in Bad
  BY <1>3, <1>4
<1>6. left[step[s]] \in T /\ left[step[s]] < left[s] /\ left[step[s]] \in Nat /\ left[s] \in Nat
  BY <1>4, <1>5 DEF T
<1> QED BY <1>2, <1>3, <1>6

-----------------------------------------------------------------------------
(* The blocks of the heap m, by the set H of their headers.                *)
Tiling(m, H) ==
    /\ H \subseteq Address /\ HEAP_START \in H
    /\ \A h \in H : m[h] >= 2 /\ (h + m[h] \in H \/ h + m[h] = HEAP_END)
    /\ \A g, h \in H : g < h => g + m[g] <= h

IsFree(m, h) == m[h + 1] = 1

(* Where the heap is. *)
LEMMA Bounds ==
    /\ HEAP_START \in Nat /\ HEAP_SIZE \in Nat /\ HEAP_END \in Nat
    /\ HEAP_START > 0 /\ HEAP_SIZE > 2 /\ HEAP_START + 2 < HEAP_END
    /\ Address \subseteq Nat /\ Address \subseteq Places
    /\ \A a \in Address : HEAP_START <= a /\ a < HEAP_END
    /\ \A a \in Nat : HEAP_START <= a /\ a < HEAP_END => a \in Address
BY HeapAssumption DEF Address, HEAP_END, Places

(* The search of malloc() meets every block: it finds a free one that is   *)
(* long enough, or there is none.                                          *)
LEMMA FirstFitFinds ==
    ASSUME NEW m \in [Address -> Nat], NEW H, Tiling(m, H), NEW needed \in Nat
    PROVE  \/ FirstFit(m, needed) \in H /\ IsFree(m, FirstFit(m, needed))
                                     /\ m[FirstFit(m, needed)] >= needed
           \/ FirstFit(m, needed) = 0 /\ \A h \in H : IsFree(m, h) => m[h] < needed
<1> DEFINE Fits(h) == m[h + 1] = 1 /\ m[h] >= needed
           Stop == {p \in Places : p >= HEAP_END \/ Fits(p)}
           step == [p \in Places |-> p + m[p]]
           out == [p \in Places |-> IF p >= HEAP_END THEN 0 ELSE p]
           W(f) == f = [p \in Places |-> IF p >= HEAP_END THEN 0
                                          ELSE IF m[p + 1] = 1 /\ m[p] >= needed THEN p
                                          ELSE f[p + m[p]]]
           walk == CHOOSE f : W(f)
           L(f) == IsLoop(f, Places, Stop, step, out)
           Inside == {p \in H \cup {HEAP_END} : \A h \in H : h < p => ~Fits(h)}
           left == [p \in Inside |-> HEAP_END - p]
<1>1. FirstFit(m, needed) = walk[HEAP_START]
  BY DEF FirstFit
<1>0. \A h \in H : h \in Address /\ h \in Nat /\ h >= HEAP_START /\ h < HEAP_END /\ m[h] \in Nat
  BY Bounds DEF Tiling
<1>2. \A p \in Places \ Stop : step[p] \in Places
  <2> SUFFICES ASSUME NEW p \in Places, p < HEAP_END PROVE p + m[p] \in Places
    BY Bounds DEF Places
  <2>1. p \in Address /\ p \in Nat /\ p >= HEAP_START
    BY Bounds DEF Places
  <2>2. m[p] \in Nat
    BY <2>1
  <2> QED BY <2>1, <2>2, Bounds DEF Places
<1>3. \E f : L(f)
  <2> HIDE DEF Stop, step, out
  <2> QED BY <1>2, LoopExists
<1>4. ASSUME NEW f PROVE L(f) <=> W(f)
  <2>1. [p \in Places |-> IF p \in Stop THEN out[p] ELSE f[step[p]]]
        = [p \in Places |-> IF p >= HEAP_END THEN 0
                                          ELSE IF m[p + 1] = 1 /\ m[p] >= needed THEN p
                                          ELSE f[p + m[p]]]
    OBVIOUS
  <2> QED BY <2>1 DEF IsLoop
<1>5. L(walk)
  <2>1. \E f : W(f)
    BY <1>3, <1>4
  <2> HIDE DEF W, L
  <2> QED BY <2>1, <1>4
<1>6. Inside \subseteq Places
  BY <1>0, Bounds DEF Places
<1>7. left \in [Inside -> Nat]
  <2>1. \A p \in Inside : HEAP_END - p \in Nat
    BY <1>0, Bounds
  <2> HIDE DEF Inside
  <2> QED BY <2>1
<1>8. HEAP_START \in Inside
  BY Bounds DEF Tiling
<1>9. ASSUME NEW p \in Inside \ Stop
      PROVE  step[p] \in Inside /\ left[step[p]] < left[p]
  <2>1. p \in H /\ p < HEAP_END /\ ~Fits(p) /\ p \in Nat /\ p \in Places
    BY <1>6, Bounds DEF Tiling
  <2>2. /\ m[p] \in Nat /\ m[p] >= 2 /\ step[p] = p + m[p]
        /\ p + m[p] \in H \/ p + m[p] = HEAP_END
    BY <2>1 DEF Tiling
  <2>3. ASSUME NEW h \in H, h < p + m[p] PROVE ~Fits(h)
    <3>1. h <= p
      <4>1. h \in Nat
        BY Bounds DEF Tiling
      <4> QED BY <2>1, <2>2, <2>3, <4>1 DEF Tiling
    <3>2. h \in Nat
      BY Bounds DEF Tiling
    <3> QED BY <2>1, <3>1, <3>2
  <2>4. step[p] \in Inside
    BY <2>2, <2>3
  <2> HIDE DEF Fits
  <2> QED BY <2>1, <2>2, <2>4, Bounds
<1>10. PICK e \in Inside \cap Stop : walk[HEAP_START] = out[e]
  <2> HIDE DEF Inside, Stop, left, step, out, W, walk
  <2> QED BY <1>5, <1>6, <1>7, <1>8, <1>9, LoopEnds
<1>11. CASE e = HEAP_END
  <2>1. walk[HEAP_START] = 0
    BY <1>6, <1>10, <1>11, Bounds
  <2>2. \A h \in H : ~Fits(h) /\ h \in Address /\ m[h] \in Nat
    BY <1>10, <1>11, Bounds DEF Tiling
  <2> QED BY <1>1, <2>1, <2>2 DEF IsFree
<1>12. CASE e \in H
  <2>1. e < HEAP_END /\ e \in Nat /\ e \in Places
    BY <1>12, Bounds DEF Tiling
  <2>2. walk[HEAP_START] = e /\ Fits(e)
    BY <1>10, <2>1, Bounds
  <2> QED BY <1>1, <1>12, <2>2 DEF IsFree
<1> QED BY <1>10, <1>11, <1>12

(* A block and the next one, joined. *)
LEMMA Joined ==
    ASSUME NEW n \in [Address -> Nat], NEW G, Tiling(n, G), NEW g \in G, NEW k \in G, k = g + n[g],
           NEW r, r = [n EXCEPT ![g] = n[g] + n[k]]
    PROVE  r \in [Address -> Nat] /\ Tiling(r, G \ {k})
<1>1. \A h \in G : h \in Address /\ h \in Nat /\ n[h] \in Nat
  BY Bounds DEF Tiling
<1>2. r[g] = n[g] + n[k] /\ \A h \in G : h # g => r[h] = n[h]
  BY <1>1
<1>3. r \in [Address -> Nat]
  BY <1>1
<1>4. n[g] >= 2 /\ n[k] >= 2 /\ (k + n[k] \in G \/ k + n[k] = HEAP_END) /\ k > g /\ g + n[g] = k
  BY <1>1 DEF Tiling
<1>5. ASSUME NEW h \in G, h > g, h # k PROVE h > k /\ k + n[k] <= h /\ g + r[g] <= h
  <2>1. k <= h
    BY <1>4, <1>5 DEF Tiling
  <2>2. k < h
    BY <1>1, <1>5, <2>1
  <2>3. k + n[k] <= h
    BY <2>2 DEF Tiling
  <2> QED BY <1>1, <1>2, <1>4, <2>2, <2>3
<1>6. ASSUME NEW h \in G \ {k}
      PROVE  r[h] >= 2 /\ (h + r[h] \in G \ {k} \/ h + r[h] = HEAP_END)
  <2>1. CASE h = g
    BY <1>1, <1>2, <1>4, <2>1
  <2>2. CASE h < g
    <3>1. h + n[h] <= g
      BY <2>2 DEF Tiling
    <3>2. n[h] >= 2 /\ (h + n[h] \in G \/ h + n[h] = HEAP_END)
      BY DEF Tiling
    <3> QED BY <1>1, <1>2, <1>4, <2>2, <3>1, <3>2
  <2>3. CASE h > g
    <3>1. h > k
      BY <1>5, <1>6, <2>3
    <3>2. n[h] >= 2 /\ (h + n[h] \in G \/ h + n[h] = HEAP_END)
      BY DEF Tiling
    <3> QED BY <1>1, <1>2, <2>3, <3>1, <3>2
  <2> QED BY <1>1, <2>1, <2>2, <2>3
<1>7. ASSUME NEW a \in G \ {k}, NEW b \in G \ {k}, a < b PROVE a + r[a] <= b
  <2>1. CASE a = g
    BY <1>5, <1>7, <2>1
  <2>2. CASE a # g
    <3>1. a + n[a] <= b
      BY <1>7 DEF Tiling
    <3> QED BY <1>2, <2>2, <3>1
  <2> QED BY <2>1, <2>2
<1>8. HEAP_START \in G \ {k}
  <2>1. HEAP_START <= g
    BY <1>1, Bounds
  <2> QED BY <1>1, <1>4, <2>1, Bounds DEF Tiling
<1> QED BY <1>1, <1>3, <1>6, <1>7, <1>8 DEF Tiling

Merged(m, H, end) ==
    \A h \in H : h < end /\ IsFree(m, h) /\ h + m[h] \in H => ~IsFree(m, h + m[h])

(* What kernel_defrag() makes of the heap m. *)
Tidied(m, H, n, G) ==
    /\ n \in [Address -> Nat] /\ G \subseteq H /\ Tiling(n, G)
    /\ \A h \in H : n[h + 1] = m[h + 1]
    /\ \A h \in H : ~IsFree(m, h) => h \in G /\ n[h] = m[h]

(* The second word of a block is never the first of one. *)
LEMMA SecondWord ==
    ASSUME NEW m \in [Address -> Nat], NEW H, Tiling(m, H), NEW h \in H
    PROVE  /\ h + 1 \notin H /\ h + 1 \in Address /\ h \in Address
           /\ h \in Nat /\ m[h] \in Nat /\ h + m[h] <= HEAP_END
<1>1. h \in Address /\ h \in Nat /\ m[h] \in Nat /\ m[h] >= 2
  BY Bounds DEF Tiling
<1>2. ASSUME h + 1 \in H PROVE FALSE
  <2>1. h + m[h] <= h + 1
    BY <1>1, <1>2 DEF Tiling
  <2> QED BY <1>1, <2>1
<1>3. h + m[h] <= HEAP_END
  <2>1. h + m[h] \in Address \/ h + m[h] = HEAP_END
    BY DEF Tiling
  <2> QED BY <1>1, <2>1, Bounds
<1> QED BY <1>1, <1>2, <1>3, Bounds

(* The walk of kernel_defrag() ends, the blocks still tile the heap, those *)
(* in use are what they were, and no two neighbours are free.              *)
LEMMA DefragTidies ==
    ASSUME NEW m \in [Address -> Nat], NEW H, Tiling(m, H)
    PROVE  \E G \in SUBSET H : Tidied(m, H, Defrag(m), G) /\ Merged(Defrag(m), G, HEAP_END)
<1> DEFINE Stop == {w \in Walks : w.ptr >= HEAP_END}
           step == [w \in Walks |-> IF TwoFree(w) THEN Swallow(w) ELSE Advance(w)]
           out == [w \in Walks |-> w.m]
           W(f) == f = [w \in Walks |-> IF w.ptr >= HEAP_END THEN w.m
                          ELSE f[IF TwoFree(w) THEN Swallow(w) ELSE Advance(w)]]
           walk == CHOOSE f : W(f)
           L(f) == IsLoop(f, Walks, Stop, step, out)
           start == [m |-> m, ptr |-> HEAP_START]
           Good(w, G) == /\ Tidied(m, H, w.m, G) /\ w.ptr \in G \cup {HEAP_END}
                         /\ Merged(w.m, G, w.ptr)
           Inside == {w \in Walks : \E G \in SUBSET H : Good(w, G)}
           left == [w \in Inside |-> IF w.ptr >= HEAP_END THEN 0
                                     ELSE (HEAP_END - w.ptr) + (HEAP_END - next_ptr(w))]
<1>1. Defrag(m) = walk[start]
  BY DEF Defrag
<1>2. ASSUME NEW w \in Walks, w.ptr < HEAP_END
      PROVE  /\ w.ptr \in Address /\ w.ptr \in Nat /\ w.m \in [Address -> Nat]
             /\ next_ptr(w) \in Places /\ next_ptr(w) \in Nat
             /\ Advance(w) = [m |-> w.m, ptr |-> next_ptr(w)] /\ Advance(w) \in Walks
             /\ TwoFree(w) =>
                  /\ next_ptr(w) \in Address
                  /\ Swallow(w) = [m |-> [w.m EXCEPT ![w.ptr] = w.m[w.ptr] + w.m[next_ptr(w)]],
                                   ptr |-> w.ptr]
                  /\ Swallow(w) \in Walks
  <2>1. /\ w.ptr \in Nat /\ w.ptr >= HEAP_START /\ w.m \in [Address -> Nat]
        /\ w = [m |-> w.m, ptr |-> w.ptr]
    BY DEF Walks, Places
  <2>2. w.ptr \in Address /\ w.m[w.ptr] \in Nat
    BY <1>2, <2>1, Bounds
  <2>3. next_ptr(w) \in Places /\ next_ptr(w) \in Nat
    BY <2>1, <2>2, Bounds DEF next_ptr, Places
  <2>4. Advance(w) = [m |-> w.m, ptr |-> next_ptr(w)]
    BY <2>1 DEF Advance
  <2>5. Advance(w) \in Walks
    BY <2>1, <2>3, <2>4 DEF Walks
  <2>6. ASSUME TwoFree(w)
        PROVE  /\ next_ptr(w) \in Address
               /\ Swallow(w) = [m |-> [w.m EXCEPT ![w.ptr] = w.m[w.ptr] + w.m[next_ptr(w)]],
                                ptr |-> w.ptr]
               /\ Swallow(w) \in Walks
    <3>1. next_ptr(w) \in Address
      BY <2>3, <2>6, Bounds DEF TwoFree, Places
    <3>2. Swallow(w) = [m |-> [w.m EXCEPT ![w.ptr] = w.m[w.ptr] + w.m[next_ptr(w)]],
                                ptr |-> w.ptr]
      BY <2>1 DEF Swallow
    <3>3. [w.m EXCEPT ![w.ptr] = w.m[w.ptr] + w.m[next_ptr(w)]] \in [Address -> Nat]
      BY <2>1, <2>2, <3>1
    <3> QED BY <2>1, <3>1, <3>2, <3>3 DEF Walks
  <2> QED BY <2>1, <2>2, <2>3, <2>4, <2>5, <2>6
<1>3. ASSUME NEW w \in Walks \ Stop PROVE w.ptr < HEAP_END /\ step[w] \in Walks
  BY <1>2, <1>3, Bounds DEF Walks, Places
<1>4. L(walk)
  <2>1. \E f : L(f)
    <3> HIDE DEF Stop, step, out
    <3> QED BY <1>3, LoopExists
  <2>2. ASSUME NEW f PROVE L(f) <=> W(f)
    <3>1. [w \in Walks |-> IF w \in Stop THEN out[w] ELSE f[step[w]]]
          = [w \in Walks |-> IF w.ptr >= HEAP_END THEN w.m
                          ELSE f[IF TwoFree(w) THEN Swallow(w) ELSE Advance(w)]]
      OBVIOUS
    <3> QED BY <3>1 DEF IsLoop
  <2>3. \E f : W(f)
    BY <2>1, <2>2
  <2> HIDE DEF W, L
  <2> QED BY <2>2, <2>3
<1>5. start \in Inside
  <2>1. start \in Walks /\ start.m = m /\ start.ptr = HEAP_START
    BY Bounds DEF Walks, Places
  <2>2. Tidied(m, H, m, H)
    BY DEF Tidied
  <2>3. Merged(m, H, HEAP_START)
    BY Bounds DEF Merged, Tiling
  <2>4. Good(start, H)
    BY <2>1, <2>2, <2>3 DEF Tiling
  <2> HIDE DEF start, Good
  <2> QED BY <2>1, <2>4
<1> HIDE DEF start
<1>6. ASSUME NEW w \in Inside \ Stop, NEW G \in SUBSET H, Good(w, G)
      PROVE  /\ w.ptr \in G /\ w.ptr < HEAP_END /\ w \in Walks
             /\ next_ptr(w) = w.ptr + w.m[w.ptr] /\ next_ptr(w) > w.ptr
             /\ next_ptr(w) <= HEAP_END
             /\ next_ptr(w) \in G \cup {HEAP_END}
             /\ \A g \in G : g \in Nat /\ g \in Address /\ w.m[g] \in Nat /\ w.m[g] >= 2
  <2>1. w \in Walks /\ w.ptr < HEAP_END /\ w.ptr \in G
    BY <1>3, <1>6, Bounds
  <2>2. \A g \in G : g \in Nat /\ g \in Address /\ w.m[g] \in Nat /\ w.m[g] >= 2
    BY <1>6, Bounds DEF Tidied, Tiling
  <2>3. w.ptr + w.m[w.ptr] \in G \cup {HEAP_END}
    BY <1>6, <2>1 DEF Tidied, Tiling
  <2> QED BY <2>1, <2>2, <2>3, Bounds DEF next_ptr
(* A pair that is merged ... *)
<1>7. ASSUME NEW w \in Inside \ Stop, TwoFree(w)
      PROVE  step[w] \in Inside /\ left[step[w]] < left[w]
  <2>1. PICK G \in SUBSET H : Good(w, G)
    BY <1>7
  <2> DEFINE g == w.ptr
             k == next_ptr(w)
             r == [w.m EXCEPT ![g] = w.m[g] + w.m[k]]
             v == [m |-> r, ptr |-> g]
  <2>2. /\ g \in G /\ g < HEAP_END /\ w \in Walks /\ k = g + w.m[g] /\ k \in G /\ k > g
        /\ k < HEAP_END /\ g \in Nat /\ k \in Nat /\ w.m[k] \in Nat /\ w.m[k] >= 2
        /\ k + w.m[k] <= HEAP_END
    <3>1. k < HEAP_END
      BY <1>7 DEF TwoFree
    <3>2. k \in G
      BY <1>6, <1>7, <2>1, <3>1, Bounds
    <3>3. k + w.m[k] <= HEAP_END
      BY <2>1, <3>2, SecondWord DEF Tidied
    <3> QED BY <1>6, <1>7, <2>1, <3>1, <3>2, <3>3
  <2>3. step[w] = v /\ v \in Walks
    BY <1>2, <1>7, <2>2
  <2>4. r \in [Address -> Nat] /\ Tiling(r, G \ {k})
    <3>1. w.m \in [Address -> Nat] /\ Tiling(w.m, G)
      BY <2>1 DEF Tidied
    <3> HIDE DEF k, g
    <3> QED BY <2>2, <3>1, Joined
  <2>5. \A h \in H : r[h + 1] = w.m[h + 1]
    <3> SUFFICES ASSUME NEW h \in H PROVE r[h + 1] = w.m[h + 1]
      OBVIOUS
    <3>1. h + 1 \notin H /\ h + 1 \in Address
      BY SecondWord
    <3>2. h + 1 # g
      BY <2>2, <3>1
    <3>3. w.m \in [Address -> Nat]
      BY <2>1 DEF Tidied
    <3> QED BY <3>1, <3>2, <3>3
  <2>6. \A h \in G : h # g => r[h] = w.m[h]
    BY <2>1 DEF Tidied, Tiling
  <2>7. IsFree(m, g) /\ IsFree(m, k)
    BY <1>7, <2>1, <2>2 DEF TwoFree, IsFree, Tidied
  <2>8. Tidied(m, H, r, G \ {k})
    <3>1. ASSUME NEW h \in H, ~IsFree(m, h) PROVE h \in G \ {k} /\ r[h] = m[h]
      BY <2>1, <2>6, <2>7, <3>1 DEF Tidied
    <3> HIDE DEF r, g, k
    <3> QED BY <2>1, <2>4, <2>5, <3>1 DEF Tidied
  <2>9. Merged(r, G \ {k}, g)
    <3> SUFFICES ASSUME NEW h \in G \ {k}, h < g, IsFree(r, h), h + r[h] \in G \ {k}
                 PROVE  ~IsFree(r, h + r[h])
      BY DEF Merged
    <3>1. h \in Nat /\ h # g /\ r[h] = w.m[h] /\ h \in H
      BY <1>6, <1>7, <2>1, <2>2, <2>6
    <3>2. IsFree(w.m, h)
      BY <2>5, <3>1 DEF IsFree
    <3>3. ~IsFree(w.m, h + w.m[h])
      BY <2>1, <3>1, <3>2 DEF Merged
    <3>4. h + w.m[h] \in H
      BY <3>1
    <3> HIDE DEF r
    <3> QED BY <2>5, <3>1, <3>3, <3>4 DEF IsFree
  <2>10. Good(v, G \ {k})
    <3>1. v.m = r /\ v.ptr = g
      OBVIOUS
    <3> HIDE DEF v, r
    <3> QED BY <2>2, <2>8, <2>9, <3>1
  <2>11. v \in Inside
    <3> HIDE DEF Good, v, k, r
    <3> QED BY <2>3, <2>10
  <2>12. next_ptr(v) = k + w.m[k] /\ v.ptr = g
    <3>1. r[g] = w.m[g] + w.m[k]
      BY <1>2, <2>2, <1>6, <1>7, <2>1
    <3>2. next_ptr(v) = g + r[g]
      BY DEF next_ptr
    <3>3. v.ptr = g
      OBVIOUS
    <3>4. w.m[g] \in Nat /\ k = g + w.m[g] /\ g \in Nat /\ w.m[k] \in Nat
      BY <1>6, <1>7, <2>1, <2>2
    <3> HIDE DEF r, v, g, k
    <3> QED BY ONLY <3>1, <3>2, <3>3, <3>4
  <2>13. left[v] = (HEAP_END - g) + (HEAP_END - (k + w.m[k]))
    <3> HIDE DEF Inside, v, k, r
    <3> QED BY <2>2, <2>11, <2>12, Bounds
  <2>14. left[w] = (HEAP_END - g) + (HEAP_END - k)
    <3> HIDE DEF Inside, v, r
    <3> QED BY <1>7, <2>2, Bounds
  <2> HIDE DEF Inside, v, r, k, g, left
  <2> QED BY <2>2, <2>3, <2>11, <2>13, <2>14, Bounds
(* ... and a block passed. *)
<1>8. ASSUME NEW w \in Inside \ Stop, ~TwoFree(w)
      PROVE  step[w] \in Inside /\ left[step[w]] < left[w]
  <2>1. PICK G \in SUBSET H : Good(w, G)
    BY <1>8
  <2> DEFINE g == w.ptr
             k == next_ptr(w)
             v == [m |-> w.m, ptr |-> k]
  <2>2. /\ g \in G /\ g < HEAP_END /\ w \in Walks /\ k = g + w.m[g] /\ k > g
        /\ k <= HEAP_END /\ g \in Nat /\ k \in G \cup {HEAP_END} /\ k \in Nat
        /\ g \in H /\ \A h \in G : h \in Nat
    BY <1>6, <1>8, <2>1, Bounds
  <2>3. step[w] = v /\ v \in Walks
    BY <1>2, <1>8, <2>2
  <2>4. Merged(w.m, G, k)
    <3> SUFFICES ASSUME NEW h \in G, h < k, IsFree(w.m, h), h + w.m[h] \in G
                 PROVE  ~IsFree(w.m, h + w.m[h])
      BY DEF Merged
    <3>1. CASE h < g
      BY <2>1, <3>1 DEF Merged
    <3>2. CASE h = g
      <4>1. k \in G /\ k < HEAP_END
        BY <1>6, <1>8, <2>1, <2>2, <3>2, Bounds
      <4> QED BY <1>8, <2>2, <3>2, <4>1 DEF TwoFree, IsFree
    <3>3. CASE h > g
      <4>1. g + w.m[g] <= h
        BY <2>1, <2>2, <3>3 DEF Tidied, Tiling
      <4> QED BY <2>2, <4>1
    <3> QED BY <2>2, <3>1, <3>2, <3>3
  <2>5. Good(v, G)
    <3>1. v.m = w.m /\ v.ptr = k
      OBVIOUS
    <3> HIDE DEF v
    <3> QED BY <2>1, <2>2, <2>4, <3>1
  <2>6. v \in Inside
    <3> HIDE DEF Good, v, k
    <3> QED BY <2>3, <2>5
  <2>7. left[v] = IF k >= HEAP_END THEN 0 ELSE (HEAP_END - k) + (HEAP_END - next_ptr(v))
    <3>1. v.ptr = k
      OBVIOUS
    <3> HIDE DEF Inside, v, k
    <3> QED BY <2>6, <3>1
  <2>8. k < HEAP_END => next_ptr(v) \in Nat /\ next_ptr(v) > k /\ next_ptr(v) <= HEAP_END
    <3> SUFFICES ASSUME k < HEAP_END
                 PROVE next_ptr(v) \in Nat /\ next_ptr(v) > k /\ next_ptr(v) <= HEAP_END
      OBVIOUS
    <3>0. v.ptr = k
      OBVIOUS
    <3>1. v \in Inside \ Stop /\ v.ptr = k
      <4> HIDE DEF Inside, v, k
      <4> QED BY <2>2, <2>3, <2>6, <3>0, Bounds
    <3> HIDE DEF Inside, Stop, Good, v
    <3>2. next_ptr(v) > k /\ next_ptr(v) <= HEAP_END /\ next_ptr(v) \in G \cup {HEAP_END}
      BY <1>6, <2>5, <3>1
    <3> QED BY <2>2, <3>2, Bounds
  <2>9. left[w] = (HEAP_END - g) + (HEAP_END - k)
    <3> HIDE DEF Inside, v
    <3> QED BY <1>8, <2>2, Bounds
  <2> HIDE DEF Inside, v, k, g, left
  <2> QED BY <2>2, <2>3, <2>6, <2>7, <2>8, <2>9, Bounds
<1>9. left \in [Inside -> Nat]
  <2> SUFFICES ASSUME NEW w \in Inside, w.ptr < HEAP_END
               PROVE  (HEAP_END - w.ptr) + (HEAP_END - next_ptr(w)) \in Nat
    <3>1. \A w \in Inside : w.ptr \in Nat
      BY DEF Walks, Places
    <3> HIDE DEF Inside
    <3> QED BY <3>1, Bounds
  <2>1. w \in Walks /\ w \in Inside \ Stop /\ w.ptr \in Nat
    BY Bounds DEF Walks, Places
  <2>2. PICK G \in SUBSET H : Good(w, G)
    BY <2>1
  <2> HIDE DEF Inside, Stop, Good
  <2> QED BY <1>6, <2>1, <2>2, <1>2, Bounds
<1>10. PICK e \in Inside \cap Stop : walk[start] = out[e]
  <2>1. Inside \subseteq Walks
    OBVIOUS
  <2> HIDE DEF Inside, Stop, left, step, out, walk, W
  <2> QED BY <1>4, <1>5, <1>7, <1>8, <1>9, <2>1, LoopEnds
<1>11. PICK G \in SUBSET H : Good(e, G)
  BY <1>10
<1>12. e.ptr = HEAP_END /\ out[e] = e.m
  <2>1. e \in Walks /\ e.ptr >= HEAP_END
    BY <1>10
  <2>2. e.ptr \notin G
    <3>1. G \subseteq Address
      BY <1>11 DEF Tidied, Tiling
    <3>2. e.ptr \in Nat
      BY <2>1 DEF Walks, Places
    <3> QED BY <2>1, <3>1, <3>2, Bounds
  <2> QED BY <1>11, <2>1, <2>2
<1> HIDE DEF walk
<1> QED BY <1>1, <1>10, <1>11, <1>12

(* Every word is in a block, and every header but the first ends one.      *)
LEMMA Covered ==
    ASSUME NEW m \in [Address -> Nat], NEW H, Tiling(m, H), NEW a \in Address
    PROVE  \E h \in H : h <= a /\ a < h + m[h]
<1> DEFINE T == {a - h : h \in {g \in H : g <= a}}
<1>0. a \in Nat /\ HEAP_START <= a /\ a < HEAP_END /\ \A h \in H : h \in Nat /\ m[h] \in Nat
  BY Bounds, SecondWord
<1>1. T \subseteq Nat /\ T # {}
  <2>1. HEAP_START \in H /\ a - HEAP_START \in T
    BY <1>0 DEF Tiling
  <2> QED BY <1>0, <2>1
<1> HIDE DEF T
<1>2. PICK least \in T : \A k \in T : least <= k
  BY <1>1, LeastOf
<1>3. PICK h \in H : h <= a /\ least = a - h
  BY <1>2 DEF T
<1>4. m[h] >= 2 /\ (h + m[h] \in H \/ h + m[h] = HEAP_END)
  BY DEF Tiling
<1>5. ASSUME h + m[h] <= a PROVE FALSE
  <2>1. h + m[h] \in H
    BY <1>0, <1>4, <1>5, Bounds
  <2>2. a - (h + m[h]) \in T
    BY <1>5, <2>1 DEF T
  <2>3. a - h <= a - (h + m[h])
    BY <1>2, <1>3, <2>2
  <2> QED BY <1>0, <1>4, <2>3
<1> QED BY <1>0, <1>3, <1>5

(* A block that is not the first is where another one ends.                *)
LEMMA Preceded ==
    ASSUME NEW m \in [Address -> Nat], NEW H, Tiling(m, H), NEW a \in H, a # HEAP_START
    PROVE  \E h \in H : h + m[h] = a /\ h \in HEAP_START .. a - 1
<1>1. a \in Nat /\ a - 1 \in Address /\ a \in Address /\ HEAP_START \in Nat
  BY Bounds DEF Tiling
<1>2. PICK h \in H : h <= a - 1 /\ a - 1 < h + m[h]
  BY <1>1, Covered
<1>3. h \in Nat /\ m[h] \in Nat /\ h >= HEAP_START
  BY SecondWord, Bounds
<1>4. h + m[h] <= a
  <2>1. h < a
    BY <1>1, <1>2, <1>3
  <2> QED BY <2>1 DEF Tiling
<1> QED BY <1>1, <1>2, <1>3, <1>4

(* The headers that the walk meets are those of the tiling.                *)
LEMMA HeadersAre ==
    ASSUME ram \in [Address -> Nat], NEW H, Tiling(ram, H)
    PROVE  Headers = H
<1> DEFINE Entry(f, a) == a = HEAP_START \/ \E b \in HEAP_START .. a - 1 : b + ram[b] = a /\ f[b]
           W(f) == f = [a \in Address |->
                          a = HEAP_START \/ \E b \in HEAP_START .. a - 1 : b + ram[b] = a /\ f[b]]
           met == CHOOSE f : W(f)
           known == [a \in Address |-> a \in H]
<1>1. Headers = {a \in Address : met[a]}
  BY DEF Headers
<1>2. \A a \in Address : a \in Nat /\ HEAP_START <= a /\ a < HEAP_END
  BY Bounds
<1>3. \A h \in H : h \in Address /\ ram[h] \in Nat
  BY SecondWord
<1>4. ASSUME NEW a \in Address, NEW f, \A b \in Address : b < a => (f[b] <=> b \in H)
      PROVE  a \in H <=> Entry(f, a)
  <2>1. ASSUME a \in H, a # HEAP_START
        PROVE  \E b \in HEAP_START .. a - 1 : b + ram[b] = a /\ f[b]
    <3>1. PICK b \in H : b + ram[b] = a /\ b \in HEAP_START .. a - 1
      BY <2>1, Preceded
    <3>2. b \in Address /\ b < a
      BY <1>2, <1>3, <3>1
    <3> QED BY <1>4, <3>1, <3>2
  <2>2. ASSUME NEW b \in HEAP_START .. a - 1, b + ram[b] = a, f[b] PROVE a \in H
    <3>1. b \in Address /\ b < a
      BY <1>2, Bounds
    <3>2. b \in H
      BY <1>4, <2>2, <3>1
    <3>3. a # HEAP_END
      BY <1>2, Bounds
    <3> QED BY <2>2, <3>2, <3>3 DEF Tiling
  <2>3. HEAP_START \in H
    BY DEF Tiling
  <2> QED BY <2>1, <2>2, <2>3
<1>5. W(known)
  <2>1. \A a \in Address : known[a] = Entry(known, a)
    <3> SUFFICES ASSUME NEW a \in Address PROVE known[a] = Entry(known, a)
      OBVIOUS
    <3>1. \A b \in Address : known[b] = (b \in H)
      OBVIOUS
    <3>2. a \in H <=> Entry(known, a)
      <4> HIDE DEF Entry, known
      <4> QED BY <1>4, <3>1
    <3>3. (a \in H) = Entry(known, a)
      <4> HIDE DEF known
      <4> QED BY <3>2
    <3> HIDE DEF Entry, known
    <3> QED BY <3>1, <3>3
  <2> QED BY <2>1
<1>6. W(met)
  <2>1. \E f : W(f)
    BY <1>5
  <2> HIDE DEF W
  <2> QED BY <2>1
<1> HIDE DEF met
<1> DEFINE Wrong == {a \in Address : ~(met[a] <=> a \in H)}
<1>7. Wrong = {}
  <2> SUFFICES ASSUME Wrong # {} PROVE FALSE
    OBVIOUS
  <2>1. PICK a \in Wrong : \A b \in Wrong : a <= b
    <3>1. Wrong \subseteq Nat
      BY <1>2
    <3> HIDE DEF Wrong
    <3> QED BY <3>1, LeastOf
  <2>2. \A b \in Address : b < a => (met[b] <=> b \in H)
    BY <1>2, <2>1
  <2>3. a \in Address /\ (a \in H <=> Entry(met, a))
    <3>1. a \in Address
      OBVIOUS
    <3> HIDE DEF Entry, Wrong
    <3> QED BY <1>4, <2>2, <3>1
  <2>4. met[a] <=> Entry(met, a)
    BY <1>6, <2>3
  <2> QED BY <2>1, <2>3, <2>4
<1> QED BY <1>1, <1>3, <1>7

-----------------------------------------------------------------------------
UsedIn(m, H) == {h \in H : ~IsFree(m, h)}

(* The heap m serves those who hold hd: no two free blocks touch.          *)
Serves(m, hd, H) ==
    /\ Tiling(m, H) /\ Merged(m, H, HEAP_END)
    /\ DOMAIN hd = {h + 2 : h \in UsedIn(m, H)}
    /\ \A h \in UsedIn(m, H) :
          hd[h + 2] \in Nat /\ hd[h + 2] + 2 <= m[h] /\ m[h] <= hd[h + 2] + 4

(* Where another block is. *)
LEMMA Apart ==
    ASSUME NEW m \in [Address -> Nat], NEW H, Tiling(m, H), NEW g \in H, NEW h \in H, g # h
    PROVE  h + m[h] <= g \/ g + m[g] <= h
<1>1. g \in Nat /\ h \in Nat
  BY SecondWord
<1> QED BY <1>1 DEF Tiling

(* Words that are changed inside one block, behind its header.             *)
LEMMA InsideChanged ==
    ASSUME NEW m \in [Address -> Nat], NEW H, Tiling(m, H), NEW g \in H,
           NEW n \in [Address -> Nat],
           \A a \in Address : a < g \/ g + m[g] <= a => n[a] = m[a]
    PROVE  \A h \in H : h # g => /\ n[h] = m[h] /\ n[h + 1] = m[h + 1]
                                 /\ (IsFree(n, h) <=> IsFree(m, h))
<1> SUFFICES ASSUME NEW h \in H, h # g PROVE n[h] = m[h] /\ n[h + 1] = m[h + 1]
  BY DEF IsFree
<1>1. /\ h \in Nat /\ h \in Address /\ h + 1 \in Address /\ m[h] \in Nat
      /\ g \in Nat /\ m[g] \in Nat /\ m[h] >= 2
  BY SecondWord DEF Tiling
<1>2. h + m[h] <= g \/ g + m[g] <= h
  BY Apart
<1>3. h + 1 < g \/ g + m[g] <= h
  BY <1>1, <1>2
<1> QED BY <1>1, <1>3

GivenOut(hd, p, size) ==
    [h \in DOMAIN hd \cup {p + 2} |-> IF h = p + 2 THEN size ELSE hd[h]]

GivenBack(m, p) == [m EXCEPT ![p + 1] = 1]

(* The block at p, in use, the rest cut off or not.                        *)
LEMMA SplitServes ==
    ASSUME NEW m \in [Address -> Nat], NEW hd, NEW H, Serves(m, hd, H),
           NEW p \in H, IsFree(m, p), NEW size \in Nat, m[p] >= size + 2,
           NEW n, n = Split(m, p, size + 2),
           NEW hd2, hd2 = GivenOut(hd, p, size)
    PROVE  /\ n \in [Address -> Nat]
           /\ \E G : Serves(n, hd2, G)
           /\ DOMAIN hd2 = DOMAIN hd \cup {p + 2} /\ p + 2 \notin DOMAIN hd
           /\ hd2[p + 2] = size /\ n[p] \in size + 2 .. size + 4 /\ n[p] <= m[p]
           /\ \A h \in H : h # p => n[h] = m[h]
           /\ \A ptr \in DOMAIN hd : hd2[ptr] = hd[ptr]
<1> DEFINE needed == size + 2
           remaining == m[p] - needed
           k == p + needed
<1>1. /\ p \in Nat /\ p \in Address /\ p + 1 \in Address /\ p + 1 \notin H /\ m[p] \in Nat
      /\ p + m[p] <= HEAP_END /\ needed \in Nat /\ needed >= 2 /\ remaining \in Nat
      /\ Tiling(m, H) /\ Merged(m, H, HEAP_END)
  BY SecondWord DEF Serves
<1>2. \A h \in H : h \in Nat /\ h \in Address /\ m[h] \in Nat /\ m[h] >= 2
  BY <1>1, SecondWord DEF Tiling
<1>3. p + 2 \notin DOMAIN hd
  <2>1. ASSUME NEW h \in H, ~IsFree(m, h), p + 2 = h + 2 PROVE FALSE
    BY <1>1, <1>2, <2>1
  <2> QED BY <2>1 DEF Serves, UsedIn
<1>4. /\ DOMAIN hd2 = DOMAIN hd \cup {p + 2} /\ hd2[p + 2] = size
      /\ \A ptr \in DOMAIN hd : hd2[ptr] = hd[ptr]
  BY <1>3 DEF GivenOut
<1>5. ASSUME NEW G, H \subseteq G, Tiling(n, G), Merged(n, G, HEAP_END), n \in [Address -> Nat],
             ~IsFree(n, p), n[p] \in size + 2 .. size + 4,
             \A h \in H : h # p => n[h] = m[h] /\ (IsFree(n, h) <=> IsFree(m, h)),
             \A h \in G \ H : IsFree(n, h)
      PROVE  Serves(n, hd2, G)
  <2>1. UsedIn(n, G) = UsedIn(m, H) \cup {p}
    BY <1>5 DEF UsedIn
  <2>2. DOMAIN hd2 = {h + 2 : h \in UsedIn(n, G)}
    BY <1>4, <2>1 DEF Serves
  <2>3. ASSUME NEW h \in UsedIn(n, G)
        PROVE  hd2[h + 2] \in Nat /\ hd2[h + 2] + 2 <= n[h] /\ n[h] <= hd2[h + 2] + 4
    <3>1. CASE h = p
      BY <1>4, <1>5, <3>1
    <3>2. CASE h # p
      <4>1. h \in UsedIn(m, H) /\ h + 2 \in DOMAIN hd /\ n[h] = m[h]
        BY <1>5, <2>1, <3>2 DEF Serves, UsedIn
      <4> QED BY <1>4, <4>1 DEF Serves
    <3> QED BY <3>1, <3>2
  <2> QED BY <1>5, <2>2, <2>3 DEF Serves
<1>6. CASE ~(remaining > 2)
  <2>1. n = [m EXCEPT ![p + 1] = 0]
    BY <1>6 DEF Split
  <2>2. /\ n \in [Address -> Nat] /\ ~IsFree(n, p) /\ n[p] = m[p]
        /\ \A h \in H : n[h] = m[h]
    BY <1>1, <1>2, <2>1 DEF IsFree
  <2>3. \A h \in H : h # p => (IsFree(n, h) <=> IsFree(m, h))
    <3>1. \A a \in Address : a < p \/ p + m[p] <= a => n[a] = m[a]
      <4>1. \A a \in Address : a < p \/ p + m[p] <= a => a # p + 1
        BY <1>1, <1>2, Bounds
      <4> QED BY <2>1, <4>1
    <3> QED BY <1>1, <2>2, <3>1, InsideChanged
  <2>4. Tiling(n, H)
    BY <1>1, <2>2 DEF Tiling
  <2>5. Merged(n, H, HEAP_END)
    BY <1>1, <2>2, <2>3 DEF Merged
  <2>6. n[p] \in size + 2 .. size + 4
    BY <1>1, <1>6, <2>2
  <2>7. Serves(n, hd2, H)
    BY <1>5, <2>2, <2>3, <2>4, <2>5, <2>6
  <2>8. n[p] <= m[p]
    BY <1>1, <2>2
  <2>9. \E G : Serves(n, hd2, G)
    BY <2>7
  <2> QED BY ONLY <1>3, <1>4, <2>2, <2>6, <2>8, <2>9
<1>7. CASE remaining > 2
  <2>1. n = [m EXCEPT ![p] = needed, ![p + 1] = 0, ![k] = remaining, ![k + 1] = 1]
    BY <1>7 DEF Split
  <2>2. /\ k \in Nat /\ k > p + 1 /\ k + 1 < p + m[p] /\ k + remaining = p + m[p]
        /\ k \in Address /\ k + 1 \in Address
    BY <1>1, <1>7, Bounds
  <2>3. k \notin H
    <3>1. ASSUME k \in H PROVE FALSE
      <4>1. k + m[k] <= p \/ p + m[p] <= k
        BY <1>1, <2>2, <3>1, Apart
      <4> QED BY <1>1, <1>2, <2>2, <3>1, <4>1
    <3> QED BY <3>1
  <2>4. /\ n \in [Address -> Nat] /\ n[p] = needed /\ n[p + 1] = 0
        /\ n[k] = remaining /\ n[k + 1] = 1
        /\ \A a \in Address : a # p /\ a # p + 1 /\ a # k /\ a # k + 1 => n[a] = m[a]
    BY <1>1, <2>1, <2>2
  <2>5. ~IsFree(n, p) /\ IsFree(n, k) /\ n[p] \in size + 2 .. size + 4 /\ n[p] <= m[p]
    BY <1>1, <2>4 DEF IsFree
  <2>6. \A h \in H : h # p => n[h] = m[h] /\ (IsFree(n, h) <=> IsFree(m, h))
    <3>1. \A a \in Address : a < p \/ p + m[p] <= a => n[a] = m[a]
      <4>1. \A a \in Address : a < p \/ p + m[p] <= a
                                => a # p /\ a # p + 1 /\ a # k /\ a # k + 1
        BY <1>1, <1>2, <2>2, Bounds
      <4> QED BY <2>4, <4>1
    <3> QED BY <1>1, <2>4, <3>1, InsideChanged
  <2> DEFINE G == H \cup {k}
  <2>7. Tiling(n, G)
    <3>1. G \subseteq Address /\ HEAP_START \in G
      BY <1>1, <2>2 DEF Tiling
    <3>2. ASSUME NEW h \in G PROVE n[h] >= 2 /\ (h + n[h] \in G \/ h + n[h] = HEAP_END)
      <4>1. CASE h = p
        BY <1>1, <2>4, <4>1
      <4>2. CASE h = k
        BY <1>1, <1>7, <2>2, <2>4, <4>2 DEF Tiling
      <4>3. CASE h \in H /\ h # p
        BY <1>1, <2>6, <4>3 DEF Tiling
      <4> QED BY <3>2, <4>1, <4>2, <4>3
    <3>3. ASSUME NEW g \in G, NEW h \in G, g < h PROVE g + n[g] <= h
      <4>1. CASE g \in H /\ h \in H /\ g # p
        BY <1>1, <2>6, <3>3, <4>1 DEF Tiling
      <4>2. CASE g = p /\ h \in H
        <5>1. p + m[p] <= h
          BY <1>1, <3>3, <4>2 DEF Tiling
        <5>2. p + n[p] = k /\ k \in Nat /\ k <= p + m[p] /\ h \in Nat /\ p + m[p] \in Nat
          BY <1>1, <1>2, <2>2, <2>4, <4>2
        <5> QED BY <4>2, <5>1, <5>2
      <4>3. CASE g = p /\ h = k
        <5> HIDE DEF remaining
        <5> QED BY <1>1, <2>2, <2>4, <4>3
      <4>4. CASE g \in H /\ g # p /\ h = k
        <5>1. g + m[g] <= p \/ p + m[p] <= g
          BY <1>1, <4>4, Apart
        <5> QED BY <1>1, <1>2, <2>2, <2>6, <3>3, <4>4, <5>1
      <4>5. CASE g = k /\ h \in H
        <5>1. h # p /\ (h + m[h] <= p \/ p + m[p] <= h)
          BY <1>1, <2>2, <3>3, <4>5, Apart
        <5> QED BY <1>1, <1>2, <2>2, <2>4, <3>3, <4>5, <5>1
      <4> QED BY <2>2, <3>3, <4>1, <4>2, <4>3, <4>4, <4>5
    <3> QED BY <3>1, <3>2, <3>3 DEF Tiling
  <2>8. Merged(n, G, HEAP_END)
    <3> SUFFICES ASSUME NEW h \in G, IsFree(n, h), h + n[h] \in G
                 PROVE  ~IsFree(n, h + n[h])
      BY DEF Merged
    <3>1. CASE h = k
      <4>1. h + n[h] = p + m[p] /\ p + m[p] \in H /\ p + m[p] # p
        <5>1. p + m[p] # k
          BY <1>1, <2>2
        <5> QED BY <1>1, <2>2, <2>4, <3>1, <5>1
      <4>2. ~IsFree(m, p + m[p])
        BY <1>1, <4>1, Bounds DEF Merged
      <4> QED BY <2>6, <4>1, <4>2
    <3>2. CASE h # k
      <4>1. h \in H /\ h # p
        BY <2>5, <3>2
      <4>2. n[h] = m[h] /\ IsFree(m, h) /\ h < HEAP_END
        BY <1>2, <2>6, <4>1, Bounds
      <4>3. h + m[h] \in H
        BY <1>1, <2>2, <2>3, <4>1, <4>2, Bounds DEF Tiling
      <4>4. ~IsFree(m, h + m[h])
        BY <1>1, <4>1, <4>2, <4>3 DEF Merged
      <4> QED BY <2>5, <2>6, <4>2, <4>3, <4>4
    <3> QED BY <3>1, <3>2
  <2>9. Serves(n, hd2, G)
    <3> HIDE DEF k
    <3> QED BY <1>5, <2>4, <2>5, <2>6, <2>7, <2>8
  <2> QED BY <1>3, <1>4, <2>4, <2>5, <2>6, <2>9
<1> QED BY <1>6, <1>7

(* The block at p, given back. *)
LEMMA FreeServes ==
    ASSUME NEW m \in [Address -> Nat], NEW hd, NEW H, Serves(m, hd, H),
           NEW p \in UsedIn(m, H),
           NEW n, n = Defrag(GivenBack(m, p)),
           NEW hd2, hd2 = Restrict(hd, DOMAIN hd \ {p + 2})
    PROVE  /\ n \in [Address -> Nat]
           /\ \E G : Serves(n, hd2, G)
           /\ DOMAIN hd2 = DOMAIN hd \ {p + 2}
           /\ \A ptr \in DOMAIN hd2 : hd2[ptr] = hd[ptr]
           /\ \A h \in UsedIn(m, H) : h # p => n[h] = m[h]
<1> DEFINE c == [m EXCEPT ![p + 1] = 1]
<1>1. /\ p \in H /\ p \in Nat /\ p \in Address /\ p + 1 \in Address
      /\ p + 1 \notin H /\ m[p] \in Nat
      /\ m[p] >= 2 /\ Tiling(m, H) /\ Merged(m, H, HEAP_END)
  BY SecondWord DEF Serves, UsedIn, Tiling
<1>2. c \in [Address -> Nat] /\ IsFree(c, p)
  BY <1>1 DEF IsFree
<1>3. \A h \in H : c[h] = m[h]
  BY <1>1 DEF Tiling
<1>4. \A h \in H : h # p => (IsFree(c, h) <=> IsFree(m, h))
  <2>1. \A a \in Address : a < p \/ p + m[p] <= a => c[a] = m[a]
    <3>1. \A a \in Address : a < p \/ p + m[p] <= a => a # p + 1
      BY <1>1, Bounds
    <3> QED BY <3>1
  <2> HIDE DEF c
  <2> QED BY <1>1, <1>2, <2>1, InsideChanged
<1>5. Tiling(c, H)
  BY <1>1, <1>3 DEF Tiling
<1>6. n = Defrag(c)
  BY DEF GivenBack
<1> HIDE DEF c
<1>7. PICK G \in SUBSET H : Tidied(c, H, n, G) /\ Merged(n, G, HEAP_END)
  BY <1>2, <1>5, <1>6, DefragTidies
<1>8. UsedIn(n, G) = UsedIn(m, H) \ {p}
  <2>1. \A h \in H : IsFree(n, h) <=> IsFree(c, h)
    BY <1>7 DEF Tidied, IsFree
  <2>2. \A h \in H : ~IsFree(c, h) => h \in G
    BY <1>7 DEF Tidied
  <2> QED BY <1>2, <1>4, <2>1, <2>2 DEF UsedIn
<1>9. \A h \in UsedIn(m, H) : h # p => n[h] = m[h]
  BY <1>3, <1>4, <1>7 DEF Tidied, UsedIn
<1>10. /\ DOMAIN hd2 = DOMAIN hd \ {p + 2}
       /\ \A ptr \in DOMAIN hd2 : hd2[ptr] = hd[ptr]
  BY DEF Restrict
<1>11. DOMAIN hd2 = {h + 2 : h \in UsedIn(n, G)}
  <2>1. \A h \in UsedIn(m, H) : h \in Nat
    BY <1>1, SecondWord DEF UsedIn
  <2>2. ASSUME NEW ptr \in DOMAIN hd2 PROVE ptr \in {h + 2 : h \in UsedIn(n, G)}
    BY <1>8, <1>10, <2>2 DEF Serves
  <2>3. ASSUME NEW h \in UsedIn(n, G) PROVE h + 2 \in DOMAIN hd2
    <3>1. h \in UsedIn(m, H) /\ h # p /\ h \in Nat /\ h + 2 \in DOMAIN hd
      BY <1>8, <2>1 DEF Serves
    <3>2. h + 2 # p + 2
      BY <1>1, <3>1
    <3> QED BY <1>10, <3>1, <3>2
  <2> QED BY <2>2, <2>3
<1>12. ASSUME NEW h \in UsedIn(n, G)
       PROVE  hd2[h + 2] \in Nat /\ hd2[h + 2] + 2 <= n[h] /\ n[h] <= hd2[h + 2] + 4
  <2>1. h \in UsedIn(m, H) /\ h # p /\ n[h] = m[h]
    BY <1>8, <1>9
  <2>2. hd2[h + 2] = hd[h + 2]
    BY <1>10, <1>11
  <2> QED BY <2>1, <2>2 DEF Serves
<1>13. Serves(n, hd2, G)
  BY <1>7, <1>11, <1>12 DEF Serves, Tidied
<1> QED BY <1>7, <1>9, <1>10, <1>13 DEF Tidied

(* What its owner writes in a block. *)
LEMMA StoreServes ==
    ASSUME NEW m \in [Address -> Nat], NEW hd, NEW H, Serves(m, hd, H),
           NEW p \in UsedIn(m, H),
           NEW n, n = [a \in Address |-> IF a \in p + 2 .. p - 1 + m[p] THEN 1 ELSE m[a]]
    PROVE  n \in [Address -> Nat] /\ Serves(n, hd, H) /\ \A h \in H : n[h] = m[h]
<1>1. /\ p \in H /\ p \in Nat /\ p \in Address /\ p + 1 \in Address /\ m[p] \in Nat
      /\ m[p] >= 2 /\ Tiling(m, H) /\ Merged(m, H, HEAP_END)
  BY SecondWord DEF Serves, UsedIn, Tiling
<1>2. n \in [Address -> Nat]
  OBVIOUS
<1>3. n[p] = m[p] /\ n[p + 1] = m[p + 1]
  <2>1. p \notin p + 2 .. p - 1 + m[p] /\ p + 1 \notin p + 2 .. p - 1 + m[p]
    BY <1>1
  <2> QED BY <1>1, <2>1
<1>4. \A a \in Address : a < p \/ p + m[p] <= a => n[a] = m[a]
  <2>1. \A a \in Address : a < p \/ p + m[p] <= a => a \notin p + 2 .. p - 1 + m[p]
    BY <1>1, Bounds
  <2> QED BY <2>1
<1>5. \A h \in H : h # p => n[h] = m[h] /\ (IsFree(n, h) <=> IsFree(m, h))
  BY <1>1, <1>2, <1>4, InsideChanged
<1>6. \A h \in H : n[h] = m[h] /\ (IsFree(n, h) <=> IsFree(m, h))
  BY <1>3, <1>5 DEF IsFree
<1>7. Tiling(n, H)
  BY <1>1, <1>6 DEF Tiling
<1>8. Merged(n, H, HEAP_END)
  BY <1>1, <1>6 DEF Merged
<1>9. UsedIn(n, H) = UsedIn(m, H)
  BY <1>6 DEF UsedIn
<1>10. \A h \in UsedIn(m, H) : n[h] = m[h]
  BY <1>6 DEF UsedIn
<1>11. Serves(n, hd, H)
  BY <1>7, <1>8, <1>9, <1>10 DEF Serves
<1> QED BY <1>2, <1>6, <1>11

-----------------------------------------------------------------------------
HeapInv == ram \in [Address -> Nat] /\ \E H : Serves(ram, held, H)

(* One free block is a heap in order. *)
LEMMA HeapStarts == HeapInit => HeapInv
<1> SUFFICES ASSUME HeapInit PROVE HeapInv
  OBVIOUS
<1>1. /\ HEAP_START \in Address /\ HEAP_START + 1 \in Address
      /\ HEAP_START \in Nat /\ HEAP_SIZE \in Nat
  BY Bounds
<1>2. /\ ram \in [Address -> Nat] /\ ram[HEAP_START] = HEAP_SIZE /\ ram[HEAP_START + 1] = 1
      /\ DOMAIN held = {}
  BY <1>1 DEF HeapInit
<1>3. Tiling(ram, {HEAP_START})
  BY <1>1, <1>2, Bounds DEF Tiling, HEAP_END
<1>4. HEAP_START + ram[HEAP_START] # HEAP_START
  BY <1>1, <1>2, Bounds
<1>5. Merged(ram, {HEAP_START}, HEAP_END)
  BY <1>4 DEF Merged
<1>6. UsedIn(ram, {HEAP_START}) = {}
  BY <1>2 DEF UsedIn, IsFree
<1> QED BY <1>2, <1>3, <1>5, <1>6 DEF HeapInv, Serves

(* A pointer in use is that of a block in use. *)
LEMMA HeldIs ==
    ASSUME NEW m \in [Address -> Nat], NEW hd, NEW H, Serves(m, hd, H)
    PROVE  /\ {ptr - 2 : ptr \in DOMAIN hd} = UsedIn(m, H)
           /\ \A ptr \in DOMAIN hd : ptr - 2 \in UsedIn(m, H) /\ ptr \in Nat
           /\ \A h \in UsedIn(m, H) : h + 2 \in DOMAIN hd /\ h \in Nat /\ h \in H
<1>1. \A h \in UsedIn(m, H) : h + 2 \in DOMAIN hd /\ h \in Nat /\ h \in H /\ h = (h + 2) - 2
  BY SecondWord DEF Serves, UsedIn
<1>2. ASSUME NEW ptr \in DOMAIN hd PROVE ptr - 2 \in UsedIn(m, H) /\ ptr \in Nat
  <2>1. PICK h \in UsedIn(m, H) : ptr = h + 2
    BY DEF Serves
  <2> QED BY <1>1, <2>1
<1> QED BY <1>1, <1>2

(* A call of malloc() does nothing or takes one free block for the caller. *)
LEMMA MallocKeeps ==
    ASSUME NEW H, ram \in [Address -> Nat], Serves(ram, held, H), NEW size \in Sizes, Malloc(size)
    PROVE  \/ UNCHANGED heapVars
           \/ /\ HeapInv'
              /\ \E p \in H :
                    /\ IsFree(ram, p) /\ DOMAIN held' = DOMAIN held \cup {p + 2}
                    /\ p + 2 \notin DOMAIN held /\ held'[p + 2] = size
                    /\ ram'[p] \in size + 2 .. size + 4 /\ ram'[p] <= ram[p]
                    /\ \A h \in H : h # p => ram'[h] = ram[h]
                    /\ \A ptr \in DOMAIN held : held'[ptr] = held[ptr]
<1> DEFINE p == FirstFit(ram, size + 2)
<1>1. CASE p = 0
  <2>1. ~(p # 0)
    BY <1>1
  <2> QED BY <2>1 DEF Malloc
<1>2. CASE p # 0
  <2>1. size \in Nat /\ size + 2 \in Nat /\ Tiling(ram, H)
    BY HeapAssumption DEF Serves
  <2>2. p \in H /\ IsFree(ram, p) /\ ram[p] >= size + 2
    BY <1>2, <2>1, FirstFitFinds
  <2>3. /\ ram' = Split(ram, p, size + 2)
        /\ held' = GivenOut(held, p, size)
    BY <1>2 DEF Malloc, GivenOut
  <2> HIDE DEF p
  <2>4. /\ ram' \in [Address -> Nat] /\ \E G : Serves(ram', held', G)
        /\ DOMAIN held' = DOMAIN held \cup {p + 2} /\ p + 2 \notin DOMAIN held
        /\ held'[p + 2] = size /\ ram'[p] \in size + 2 .. size + 4 /\ ram'[p] <= ram[p]
        /\ \A h \in H : h # p => ram'[h] = ram[h]
        /\ \A ptr \in DOMAIN held : held'[ptr] = held[ptr]
    BY <2>1, <2>2, <2>3, SplitServes, SMTT(60)
  <2>5. HeapInv'
    BY ONLY <2>4 DEF HeapInv
  <2> QED BY ONLY <2>2, <2>4, <2>5, <2>3
<1> QED BY <1>1, <1>2

(* A call of free() changes nothing of the blocks that stay in use.        *)
LEMMA FreeKeeps ==
    ASSUME NEW H, ram \in [Address -> Nat], Serves(ram, held, H), NEW ptr \in DOMAIN held, Free(ptr)
    PROVE  /\ HeapInv'
           /\ DOMAIN held' = DOMAIN held \ {ptr}
           /\ \A q \in DOMAIN held' : held'[q] = held[q] /\ ram'[q - 2] = ram[q - 2]
<1> DEFINE p == ptr - 2
<1>1. p \in UsedIn(ram, H) /\ p + 2 = ptr /\ p + 1 = ptr - 1
  BY HeldIs
<1> HIDE DEF p
<1>2. ram' = Defrag(GivenBack(ram, p)) /\ held' = Restrict(held, DOMAIN held \ {p + 2})
  BY <1>1 DEF Free, GivenBack
<1>3. /\ ram' \in [Address -> Nat] /\ \E G : Serves(ram', held', G)
      /\ DOMAIN held' = DOMAIN held \ {p + 2}
      /\ \A q \in DOMAIN held' : held'[q] = held[q]
      /\ \A h \in UsedIn(ram, H) : h # p => ram'[h] = ram[h]
  BY <1>1, <1>2, FreeServes
<1>4. ASSUME NEW q \in DOMAIN held' PROVE ram'[q - 2] = ram[q - 2]
  <2>1. q \in DOMAIN held /\ q # ptr
    BY <1>1, <1>3
  <2>2. q - 2 \in UsedIn(ram, H) /\ q \in Nat /\ ptr \in Nat
    BY <2>1, HeldIs
  <2>3. q - 2 # p
    BY <1>1, <2>1, <2>2 DEF p
  <2> QED BY <1>3, <2>2, <2>3
<1> QED BY <1>1, <1>3, <1>4 DEF HeapInv

(* What an owner writes is inside its block, whatever it looks like.       *)
LEMMA StoreKeeps ==
    ASSUME NEW H, ram \in [Address -> Nat], Serves(ram, held, H),
           NEW ptr \in DOMAIN held, Store(ptr)
    PROVE  /\ HeapInv' /\ UNCHANGED held
           /\ \A q \in DOMAIN held : ram'[q - 2] = ram[q - 2]
<1> DEFINE p == ptr - 2
<1>1. p \in UsedIn(ram, H) /\ p + 2 = ptr /\ p \in Nat /\ ptr \in Nat
  BY HeldIs
<1>2. ram[p] \in Nat
  BY <1>1, HeldIs, SecondWord DEF Serves
<1>3. ptr .. ptr - 3 + ram[ptr - 2] = p + 2 .. p - 1 + ram[p]
  BY <1>1, <1>2
<1>4. ram' = [a \in Address |-> IF a \in p + 2 .. p - 1 + ram[p] THEN 1 ELSE ram[a]]
  BY <1>3 DEF Store
<1> HIDE DEF p
<1>5. ram' \in [Address -> Nat] /\ Serves(ram', held, H) /\ \A h \in H : ram'[h] = ram[h]
  BY <1>1, <1>4, StoreServes
<1>6. UNCHANGED held
  BY DEF Store
<1>7. \A q \in DOMAIN held : q - 2 \in H
  BY HeldIs DEF UsedIn
<1> QED BY <1>5, <1>6, <1>7 DEF HeapInv

(* Every step keeps the heap in order. *)
LEMMA HeapKeeps == HeapInv /\ [HeapNext]_heapVars => HeapInv'
<1> SUFFICES ASSUME HeapInv, [HeapNext]_heapVars PROVE HeapInv'
  OBVIOUS
<1>1. ram \in [Address -> Nat]
  BY DEF HeapInv
<1>2. PICK H : Serves(ram, held, H)
  BY DEF HeapInv
<1>3. ASSUME UNCHANGED heapVars PROVE HeapInv'
  BY <1>1, <1>2, <1>3 DEF HeapInv, heapVars
<1>4. ASSUME NEW size \in Sizes, Malloc(size) PROVE HeapInv'
  BY <1>1, <1>2, <1>3, <1>4, MallocKeeps
<1>5. ASSUME NEW ptr \in DOMAIN held, Free(ptr) PROVE HeapInv'
  BY <1>1, <1>2, <1>5, FreeKeeps
<1>6. ASSUME NEW ptr \in DOMAIN held, Store(ptr) PROVE HeapInv'
  BY <1>1, <1>2, <1>6, StoreKeeps
<1> QED BY <1>3, <1>4, <1>5, <1>6 DEF HeapNext

(* The walk through a heap in order works. *)
LEMMA HeapInvTiled == HeapInv => HeapTiled
<1> SUFFICES ASSUME HeapInv PROVE HeapTiled
  OBVIOUS
<1>1. ram \in [Address -> Nat]
  BY DEF HeapInv
<1>2. PICK H : Serves(ram, held, H)
  BY DEF HeapInv
<1>3. Tiling(ram, H) /\ Headers = H
  BY <1>1, <1>2, HeadersAre DEF Serves
<1>4. \A a \in H : ram[a] >= 2 /\ a + ram[a] <= HEAP_END
  BY <1>1, <1>3, SecondWord DEF Tiling
<1>5. {a + 2 : a \in {b \in Headers : ram[b + 1] # 1}} = DOMAIN held
  BY <1>2, <1>3 DEF Serves, UsedIn, IsFree
<1> QED BY <1>3, <1>4, <1>5 DEF HeapTiled

(* A run of words that nobody holds lies in one free block, because two    *)
(* free blocks are never neighbours.                                       *)
LEMMA HeapInvNoFalse == HeapInv => NoFalseOutOfMemory
<1> SUFFICES ASSUME HeapInv, NEW size \in Sizes, NEW a \in Address,
                    a .. a + size + 1 \subseteq Address \ Used, FirstFit(ram, size + 2) = 0
             PROVE  FALSE
  BY DEF NoFalseOutOfMemory
<1>1. ram \in [Address -> Nat] /\ size \in Nat /\ size + 2 \in Nat /\ a \in Nat
  BY HeapAssumption, Bounds DEF HeapInv
<1>2. PICK H : Serves(ram, held, H)
  BY DEF HeapInv
<1>3. Tiling(ram, H) /\ Merged(ram, H, HEAP_END)
  BY <1>2 DEF Serves
<1>4. \A h \in H : IsFree(ram, h) => ram[h] < size + 2
  <2>1. 0 \notin H
    BY <1>3, Bounds DEF Tiling
  <2> QED BY <1>1, <1>3, <2>1, FirstFitFinds
<1>5. ASSUME NEW b \in a .. a + size + 1, NEW h \in H, h <= b, b < h + ram[h]
      PROVE  IsFree(ram, h)
  <2> SUFFICES ASSUME ~IsFree(ram, h) PROVE FALSE
    OBVIOUS
  <2>1. h \in UsedIn(ram, H) /\ h + 2 \in DOMAIN held /\ h \in Nat
    BY <1>1, <1>2, HeldIs DEF UsedIn
  <2>2. ram[h] \in Nat /\ b \in Nat
    BY <1>1, <1>3, SecondWord
  <2>3. b \in (h + 2) - 2 .. (h + 2) - 3 + ram[(h + 2) - 2]
    <3>1. (h + 2) - 2 = h /\ (h + 2) - 3 = h - 1
      BY <2>1
    <3>2. b \in h .. h - 1 + ram[h]
      BY <1>5, <2>1, <2>2
    <3> QED BY <3>1, <3>2
  <2>4. b \in Used
    BY <2>1, <2>3 DEF Used
  <2> QED BY <2>4
<1>6. PICK h \in H : h <= a /\ a < h + ram[h]
  BY <1>1, <1>3, Covered
<1>7. h \in Nat /\ ram[h] \in Nat /\ a \in a .. a + size + 1
  BY <1>1, <1>3, SecondWord
<1>8. IsFree(ram, h) /\ ram[h] < size + 2
  BY <1>4, <1>5, <1>6, <1>7
<1> DEFINE k == h + ram[h]
<1>9. k \in Nat /\ k \in a .. a + size + 1
  BY <1>1, <1>6, <1>7, <1>8
<1>10. k \in H
  <2>1. k \in Address
    BY <1>9
  <2> QED BY <1>3, <1>9, <2>1, Bounds DEF Tiling
<1>11. IsFree(ram, k)
  <2>1. ram[k] \in Nat /\ ram[k] >= 2
    BY <1>1, <1>3, <1>10, SecondWord DEF Tiling
  <2> HIDE DEF k
  <2> QED BY <1>5, <1>9, <1>10, <2>1
<1>12. h < HEAP_END
  BY <1>1, <1>3, SecondWord, Bounds
<1> QED BY <1>3, <1>8, <1>10, <1>11, <1>12 DEF Merged

(* The walk through the heap always works, for a heap of any size and any  *)
(* requests: blocks follow each other from one end to the other, and those *)
(* marked as used are those the callers hold.                              *)
THEOREM HeapStaysTiled == HeapSpec => []HeapTiled
BY HeapStarts, HeapKeeps, HeapInvTiled, PTL DEF HeapSpec

(* malloc() refuses only what no run of free words can hold.               *)
THEOREM HeapRefusesRightly == HeapSpec => []NoFalseOutOfMemory
BY HeapStarts, HeapKeeps, HeapInvNoFalse, PTL DEF HeapSpec

Live == [a \in {ptr - 2 : ptr \in DOMAIN held} |-> [size |-> held[a + 2], words |-> ram[a]]]

(* The blocks in use, as Allocator sees them. *)
LEMMA LiveIs ==
    ASSUME ram \in [Address -> Nat], NEW H, Serves(ram, held, H)
    PROVE  /\ DOMAIN Live = UsedIn(ram, H)
           /\ \A a \in UsedIn(ram, H) : Live[a] = [size |-> held[a + 2], words |-> ram[a]]
BY HeldIs DEF Live

(* Any choice of words is the allocator's to make. *)
LEMMA AllocateIsStep ==
    ASSUME NEW size \in Sizes, NEW b \in Address, NEW w \in size + 2 .. size + 2 + 2,
           AsAllocator!Allocate(size, b, w)
    PROVE  AsAllocator!AllocatorNext
BY DEF AsAllocator!AllocatorNext

(* malloc() is Allocate, of the block it finds. *)
LEMMA MallocAllocates ==
    ASSUME HeapInv, NEW size \in Sizes, Malloc(size)
    PROVE  AsAllocator!AllocatorNext \/ UNCHANGED Live
<1>1. ram \in [Address -> Nat] /\ size \in Nat
  BY HeapAssumption DEF HeapInv
<1>2. PICK H : Serves(ram, held, H)
  BY DEF HeapInv
<1>3. CASE UNCHANGED heapVars
  BY <1>3 DEF heapVars, Live
<1>4. ASSUME NEW p \in H, NEW n, n = ram'[p], IsFree(ram, p),
             DOMAIN held' = DOMAIN held \cup {p + 2}, p + 2 \notin DOMAIN held, held'[p + 2] = size,
             ram'[p] \in size + 2 .. size + 4, ram'[p] <= ram[p],
             \A h \in H : h # p => ram'[h] = ram[h],
             \A ptr \in DOMAIN held : held'[ptr] = held[ptr]
      PROVE  AsAllocator!AllocatorNext
  <2> DEFINE U == UsedIn(ram, H)
  <2>1. Tiling(ram, H) /\ p \in Nat /\ p \in Address /\ ram[p] \in Nat /\ p + ram[p] <= HEAP_END
    BY <1>1, <1>2, SecondWord DEF Serves
  <2>2. p \notin U /\ \A h \in U : h \in H /\ h # p /\ h \in Nat /\ h + 2 \in DOMAIN held
    BY <1>1, <1>2, <1>4, HeldIs DEF UsedIn
  <2>3. {ptr - 2 : ptr \in DOMAIN held'} = U \cup {p}
    <3>1. {ptr - 2 : ptr \in DOMAIN held'} = {ptr - 2 : ptr \in DOMAIN held} \cup {(p + 2) - 2}
      BY <1>4
    <3>2. (p + 2) - 2 = p
      BY <2>1
    <3> QED BY <1>1, <1>2, <3>1, <3>2, HeldIs
  <2>4. /\ DOMAIN Live = U /\ \A a \in U : Live[a] = [size |-> held[a + 2], words |-> ram[a]]
    BY <1>1, <1>2, LiveIs
  <2>5. Live' = [b \in DOMAIN Live \cup {p} |->
                    IF b = p THEN [size |-> size, words |-> n] ELSE Live[b]]
    <3>1. Live' = [a \in U \cup {p} |-> [size |-> held'[a + 2], words |-> ram'[a]]]
      BY <2>3 DEF Live
    <3>2. ASSUME NEW b \in U \cup {p}
          PROVE  [size |-> held'[b + 2], words |-> ram'[b]]
                 = IF b = p THEN [size |-> size, words |-> n] ELSE Live[b]
      <4>1. CASE b = p
        BY <1>4, <4>1
      <4>2. CASE b # p
        BY <1>4, <2>2, <2>4, <4>2
      <4> QED BY <4>1, <4>2
    <3> QED BY <2>4, <3>1, <3>2
  <2>6. p .. p + n - 1 \subseteq Address \ UNION {a .. a + Live[a].words - 1 : a \in DOMAIN Live}
    <3> SUFFICES ASSUME NEW b \in p .. p + n - 1,
                        b \notin Address \/ \E a \in U : b \in a .. a + ram[a] - 1
                 PROVE  FALSE
      BY <2>4
    <3>1. b \in Nat /\ p <= b /\ b < p + ram[p] /\ n \in Nat
      BY <1>1, <1>4, <2>1
    <3>2. b \in Address
      BY <2>1, <3>1, Bounds
    <3>3. PICK a \in U : b \in a .. a + ram[a] - 1
      BY <3>2
    <3>4. a \in H /\ a # p /\ a \in Nat /\ ram[a] \in Nat
      BY <1>1, <2>1, <2>2, SecondWord
    <3>5. p + ram[p] <= a \/ a + ram[a] <= p
      BY <1>1, <2>1, <3>4, Apart
    <3> QED BY <2>1, <3>1, <3>3, <3>4, <3>5
  <2>7. n \in size + 2 .. size + 2 + 2
    BY <1>1, <1>4
  <2>8. AsAllocator!Allocate(size, p, n)
    BY <2>5, <2>6 DEF AsAllocator!Allocate, AsAllocator!Run, AsAllocator!Taken,
                          AsAllocator!Extent, Live
  <2> QED BY <2>1, <2>7, <2>8, AllocateIsStep
<1>5. ASSUME ~UNCHANGED heapVars PROVE AsAllocator!AllocatorNext
  <2>1. PICK p \in H :
              /\ IsFree(ram, p) /\ DOMAIN held' = DOMAIN held \cup {p + 2}
              /\ p + 2 \notin DOMAIN held /\ held'[p + 2] = size
              /\ ram'[p] \in size + 2 .. size + 4 /\ ram'[p] <= ram[p]
              /\ \A h \in H : h # p => ram'[h] = ram[h]
              /\ \A ptr \in DOMAIN held : held'[ptr] = held[ptr]
    BY <1>1, <1>2, <1>5, MallocKeeps
  <2>2. PICK n : n = ram'[p]
    OBVIOUS
  <2> QED BY <1>4, <2>1, <2>2
<1> QED BY <1>3, <1>5

(* The heap gives out blocks as the allocator promises: each in the heap,  *)
(* with the words asked for and at most two more, apart from all others,   *)
(* and unchanged by every other call until it is given back.               *)
THEOREM HeapIsAllocator == HeapSpec => IsAllocator
<1>1. HeapInit => AsAllocator!AllocatorInit
  BY DEF HeapInit, AsAllocator!AllocatorInit
<1>2. HeapInv /\ [HeapNext]_heapVars => AsAllocator!AllocatorNext \/ UNCHANGED Live
  <2> SUFFICES ASSUME HeapInv, [HeapNext]_heapVars
               PROVE  AsAllocator!AllocatorNext \/ UNCHANGED Live
    OBVIOUS
  <2>0. ram \in [Address -> Nat]
    BY DEF HeapInv
  <2>1. PICK H : Serves(ram, held, H)
    BY DEF HeapInv
  <2>2. CASE UNCHANGED heapVars
    BY <2>2 DEF heapVars, Live
  <2>3. ASSUME NEW ptr \in DOMAIN held, Free(ptr) PROVE AsAllocator!AllocatorNext
    <3>1. /\ DOMAIN held' = DOMAIN held \ {ptr}
          /\ \A q \in DOMAIN held' : held'[q] = held[q] /\ ram'[q - 2] = ram[q - 2]
      BY <2>0, <2>1, <2>3, FreeKeeps
    <3>2. \A q \in DOMAIN held : q \in Nat /\ (q - 2) + 2 = q
      BY <2>0, <2>1, HeldIs
    <3>3. {q - 2 : q \in DOMAIN held'} = {q - 2 : q \in DOMAIN held} \ {ptr - 2}
      BY <3>1, <3>2
    <3>4. Live' = [b \in DOMAIN Live \ {ptr - 2} |-> Live[b]]
      <4>1. Live' = [a \in {q - 2 : q \in DOMAIN held} \ {ptr - 2} |->
                        [size |-> held'[a + 2], words |-> ram'[a]]]
        BY <3>3 DEF Live
      <4>2. ASSUME NEW a \in {q - 2 : q \in DOMAIN held} \ {ptr - 2}
            PROVE  [size |-> held'[a + 2], words |-> ram'[a]] = Live[a]
        <5>1. PICK q \in DOMAIN held' : a = q - 2 /\ q \in DOMAIN held
          BY <3>1, <3>2, <3>3, <4>2
        <5>2. held'[a + 2] = held[a + 2] /\ ram'[a] = ram[a]
          BY <3>1, <3>2, <5>1
        <5> QED BY <4>2, <5>2 DEF Live
      <4> QED BY <4>1, <4>2 DEF Live
    <3>5. AsAllocator!Release(ptr - 2) /\ ptr - 2 \in DOMAIN Live
      BY <3>4 DEF AsAllocator!Release, Live
    <3> QED BY <3>5 DEF AsAllocator!AllocatorNext, Live
  <2>4. ASSUME NEW ptr \in DOMAIN held, Store(ptr) PROVE UNCHANGED Live
    <3>1. UNCHANGED held /\ \A q \in DOMAIN held : ram'[q - 2] = ram[q - 2]
      BY <2>0, <2>1, <2>4, StoreKeeps
    <3> QED BY <3>1 DEF Live
  <2> QED BY <2>2, <2>3, <2>4, MallocAllocates DEF HeapNext
<1> QED BY <1>1, <1>2, HeapStarts, HeapKeeps, PTL
    DEF HeapSpec, IsAllocator, AsAllocator!AllocatorSpec, Live
(* A set of naturals with a bound has a greatest element. *)
LEMMA GreatestOf ==
    ASSUME NEW n \in Nat, NEW T, T \subseteq 0 .. n, T # {}
    PROVE  \E m \in T : \A k \in T : k <= m
<1> DEFINE U == {n - k : k \in T}
<1>1. U \subseteq Nat /\ U # {} /\ T \subseteq Int
  <2>1. \A k \in T : k \in Int /\ n - k \in Nat
    OBVIOUS
  <2> QED BY <2>1
<1>2. PICK u \in U : \A k \in U : u <= k
  <2> HIDE DEF U
  <2> QED BY <1>1, LeastOf
<1>3. PICK m \in T : u = n - m
  OBVIOUS
<1>4. ASSUME NEW k \in T PROVE k <= m
  <2>1. u <= n - k
    BY <1>2
  <2> QED BY <1>1, <1>3, <2>1
<1> QED BY <1>4

(* Products stay whole where a prover would split them. *)
LEMMA Product == ASSUME NEW x \in Int, NEW y \in Int PROVE x * y \in Int
OBVIOUS

(* A well b of H rows, none of which has columns outside full. *)
IsWell(b, H, full) ==
    /\ H \in Nat /\ IsFiniteSet(full) /\ full # {}
    /\ b \in [0 .. H - 1 -> SUBSET full]

(* Where the row at y is when the row at r has been taken away. *)
Sunk(r, y) == IF y < r THEN y + 1 ELSE y

(* A row is taken away: an empty one is on top, the others keep their order. *)
LEMMA RemovedRows ==
    ASSUME NEW H, NEW full, NEW b, IsWell(b, H, full), NEW r \in 0 .. H - 1
    PROVE  /\ IsWell(remove_row(b, r), H, full)
           /\ remove_row(b, r)[0] = {}
           /\ \A y \in 0 .. H - 1 : y # r => /\ Sunk(r, y) \in 1 .. H - 1
                                             /\ remove_row(b, r)[Sunk(r, y)] = b[y]
           /\ \A z \in 1 .. H - 1 : \E y \in 0 .. H - 1 : y # r /\ Sunk(r, y) = z
           /\ \A x, y \in 0 .. H - 1 : x # r /\ y # r => (Sunk(r, x) >= Sunk(r, y) <=> x >= y)
<1> DEFINE d == remove_row(b, r)
<1>1. DOMAIN b = 0 .. H - 1 /\ H \in Nat /\ r \in Nat
  BY DEF IsWell
<1>2. d = [y \in 0 .. H - 1 |-> CASE y = 0 -> {} [] y \in 1 .. r -> b[y - 1] [] OTHER -> b[y]]
  BY <1>1 DEF remove_row
<1>3. d[0] = {}
  BY <1>1, <1>2
<1>4. ASSUME NEW y \in 1 .. H - 1
      PROVE  d[y] = (IF y <= r THEN b[y - 1] ELSE b[y])
  BY <1>1, <1>2
<1>5. ASSUME NEW y \in 0 .. H - 1 PROVE d[y] \in SUBSET full
  <2>1. b[y] \in SUBSET full /\ (y > 0 => b[y - 1] \in SUBSET full)
    BY <1>1 DEF IsWell
  <2> QED BY <1>3, <1>4, <2>1, <1>1
<1>6. IsWell(d, H, full)
  BY <1>2, <1>5 DEF IsWell
<1>7. ASSUME NEW y \in 0 .. H - 1, y # r
      PROVE  Sunk(r, y) \in 1 .. H - 1 /\ d[Sunk(r, y)] = b[y]
  <2>1. Sunk(r, y) \in 1 .. H - 1
    BY <1>1, <1>7 DEF Sunk
  <2> QED BY <1>1, <1>4, <1>7, <2>1 DEF Sunk
<1>8. ASSUME NEW z \in 1 .. H - 1 PROVE \E y \in 0 .. H - 1 : y # r /\ Sunk(r, y) = z
  <2>1. CASE z <= r
    <3>1. z - 1 \in 0 .. H - 1 /\ z - 1 # r /\ Sunk(r, z - 1) = z
      BY <1>1, <2>1 DEF Sunk
    <3> QED BY <3>1
  <2>2. CASE z > r
    <3>1. z \in 0 .. H - 1 /\ z # r /\ Sunk(r, z) = z
      BY <1>1, <2>2 DEF Sunk
    <3> QED BY <3>1
  <2> QED BY <1>1, <2>1, <2>2
<1>9. ASSUME NEW x \in 0 .. H - 1, NEW y \in 0 .. H - 1, x # r, y # r
      PROVE  Sunk(r, x) >= Sunk(r, y) <=> x >= y
  <2>1. x \in Nat /\ y \in Nat
    BY <1>1
  <2>2. Sunk(r, x) \in {x, x + 1} /\ Sunk(r, y) \in {y, y + 1}
    BY DEF Sunk
  <2>3. Sunk(r, x) = x + 1 <=> x < r
    BY <1>1, <2>1 DEF Sunk
  <2>4. Sunk(r, y) = y + 1 <=> y < r
    BY <1>1, <2>1 DEF Sunk
  <2> QED BY <1>1, <1>9, <2>1, <2>2, <2>3, <2>4
<1> QED BY <1>3, <1>6, <1>7, <1>8, <1>9

(* Two finite sets, paired off. *)
LEMMA PairedOff ==
    ASSUME NEW S, NEW T, IsFiniteSet(S), NEW f \in [S -> T],
           \A x, y \in S : f[x] = f[y] => x = y,
           \A z \in T : \E x \in S : f[x] = z
    PROVE  IsFiniteSet(T) /\ Cardinality(T) = Cardinality(S)
<1>1. f \in Bijection(S, T)
  BY DEF Bijection, Injection, Surjection, IsInjective
<1>2. ExistsBijection(S, T)
  BY <1>1 DEF ExistsBijection
<1> QED BY <1>2, FS_Bijection

(* Taking a full row away leaves the others in their order: the wells      *)
(* before and after settle alike.                                          *)
LEMMA RemoveSettles ==
    ASSUME NEW H, NEW full, NEW b, IsWell(b, H, full), NEW r \in 0 .. H - 1, b[r] = full
    PROVE  Settled(remove_row(b, r), full) = Settled(b, full)
<1> DEFINE d == remove_row(b, r)
           Up(c, k) == {z \in Kept(c, full) : z >= k}
<1> HIDE DEF d
<1>1. /\ IsWell(d, H, full) /\ d[0] = {}
      /\ \A y \in 0 .. H - 1 : y # r => Sunk(r, y) \in 1 .. H - 1 /\ d[Sunk(r, y)] = b[y]
      /\ \A z \in 1 .. H - 1 : \E y \in 0 .. H - 1 : y # r /\ Sunk(r, y) = z
      /\ \A x, y \in 0 .. H - 1 : x # r /\ y # r => (Sunk(r, x) >= Sunk(r, y) <=> x >= y)
  BY RemovedRows DEF d
<1>2. H \in Nat /\ DOMAIN b = 0 .. H - 1 /\ DOMAIN d = 0 .. H - 1
  BY <1>1 DEF IsWell
<1>3. \A y \in 0 .. H - 1 : y # r => Sunk(r, y) \in Nat /\ Sunk(r, y) \in 0 .. H - 1
  BY <1>1, <1>2
<1>4. ASSUME NEW y \in Kept(b, full)
      PROVE  y \in 0 .. H - 1 /\ y # r /\ Sunk(r, y) \in Kept(d, full)
  BY <1>1, <1>2, <1>3, <1>4 DEF Kept
<1>5. ASSUME NEW z \in Kept(d, full), z # 0
      PROVE  \E y \in Kept(b, full) : Sunk(r, y) = z
  <2>1. z \in 1 .. H - 1
    BY <1>2, <1>5 DEF Kept
  <2>2. PICK y \in 0 .. H - 1 : y # r /\ Sunk(r, y) = z
    BY <1>1, <2>1
  <2> QED BY <1>1, <1>2, <1>5, <2>2 DEF Kept
<1>6. ASSUME NEW y \in Kept(b, full)
      PROVE  Settles(d, full, Sunk(r, y)) = Settles(b, full, y)
  <2> DEFINE f == [z \in Up(b, y) |-> Sunk(r, z)]
  <2>1. IsFiniteSet(Up(b, y))
    <3>1. Up(b, y) \in SUBSET (0 .. H - 1)
      BY <1>2 DEF Kept
    <3>2. IsFiniteSet(0 .. H - 1)
      BY <1>2, FS_Interval
    <3> HIDE DEF Up
    <3> QED BY <3>1, <3>2, FS_Subset
  <2>2. f \in [Up(b, y) -> Up(d, Sunk(r, y))]
    <3> SUFFICES ASSUME NEW z \in Up(b, y) PROVE Sunk(r, z) \in Up(d, Sunk(r, y))
      OBVIOUS
    <3> QED BY <1>1, <1>4
  <2>3. \A v, w \in Up(b, y) : f[v] = f[w] => v = w
    <3> SUFFICES ASSUME NEW v \in Up(b, y), NEW w \in Up(b, y), Sunk(r, v) = Sunk(r, w)
                 PROVE  v = w
      OBVIOUS
    <3>1. v \in 0 .. H - 1 /\ w \in 0 .. H - 1 /\ v # r /\ w # r
      BY <1>4
    <3>2. Sunk(r, v) >= Sunk(r, w) /\ Sunk(r, w) >= Sunk(r, v)
      BY <1>3, <3>1
    <3>3. v >= w /\ w >= v
      BY <1>1, <3>1, <3>2
    <3> QED BY <3>1, <3>3
  <2>4. \A z \in Up(d, Sunk(r, y)) : \E v \in Up(b, y) : f[v] = z
    <3> SUFFICES ASSUME NEW z \in Kept(d, full), z >= Sunk(r, y)
                 PROVE  \E v \in Up(b, y) : f[v] = z
      OBVIOUS
    <3>1. z # 0
      BY <1>1, <1>2, <1>4
    <3>2. PICK v \in Kept(b, full) : Sunk(r, v) = z
      BY <1>5, <3>1
    <3>3. v >= y
      BY <1>1, <1>4, <3>2
    <3> QED BY <3>2, <3>3
  <2>5. Cardinality(Up(d, Sunk(r, y))) = Cardinality(Up(b, y))
    <3> HIDE DEF f, Up
    <3> QED BY <2>1, <2>2, <2>3, <2>4, PairedOff
  <2> QED BY <1>2, <2>5 DEF Settles
<1>7. ASSUME NEW y \in 0 .. H - 1
      PROVE  UNION {d[z] : z \in {k \in Kept(d, full) : Settles(d, full, k) = y}}
             = UNION {b[z] : z \in {k \in Kept(b, full) : Settles(b, full, k) = y}}
  <2>1. ASSUME NEW k \in Kept(d, full), Settles(d, full, k) = y, NEW x \in d[k]
        PROVE  \E j \in Kept(b, full) : Settles(b, full, j) = y /\ x \in b[j]
    <3>1. k # 0
      BY <1>1, <2>1
    <3>2. PICK j \in Kept(b, full) : Sunk(r, j) = k
      BY <1>5, <3>1
    <3> QED BY <1>1, <1>4, <1>6, <2>1, <3>2
  <2>2. ASSUME NEW j \in Kept(b, full), Settles(b, full, j) = y, NEW x \in b[j]
        PROVE  \E k \in Kept(d, full) : Settles(d, full, k) = y /\ x \in d[k]
    BY <1>1, <1>4, <1>6, <2>2
  <2> QED BY <2>1, <2>2
<1>8. /\ Settled(d, full) = [y \in 0 .. H - 1 |->
            UNION {d[z] : z \in {k \in Kept(d, full) : Settles(d, full, k) = y}}]
      /\ Settled(b, full) = [y \in 0 .. H - 1 |->
            UNION {b[z] : z \in {k \in Kept(b, full) : Settles(b, full, k) = y}}]
  BY <1>2 DEF Settled
<1> QED BY <1>7, <1>8 DEF d

(* A well without a full row is settled. *)
LEMMA NoneFullSettled ==
    ASSUME NEW H, NEW full, NEW b, IsWell(b, H, full), \A y \in 0 .. H - 1 : b[y] # full
    PROVE  Settled(b, full) = b /\ FullRows(b, full) = 0
<1>1. H \in Nat /\ DOMAIN b = 0 .. H - 1 /\ Cardinality(DOMAIN b) = H
      /\ b = [y \in 0 .. H - 1 |-> b[y]]
  BY FS_Interval DEF IsWell
<1>2. Kept(b, full) = 0 .. H - 1
  BY <1>1 DEF Kept
<1>3. ASSUME NEW y \in 0 .. H - 1 PROVE Settles(b, full, y) = y
  <2>0. y \in Int /\ H - 1 \in Int /\ 0 <= y /\ y <= H - 1
    BY <1>1
  <2>1. {z \in 0 .. H - 1 : z >= y} = y .. H - 1
    BY <2>0
  <2>2. Cardinality(y .. H - 1) = H - 1 - y + 1
    BY <2>0, FS_Interval
  <2>3. {z \in Kept(b, full) : z >= y} = y .. H - 1
    BY <1>2, <2>1
  <2>4. Cardinality({z \in Kept(b, full) : z >= y}) = H - 1 - y + 1
    BY <2>2, <2>3
  <2>5. Settles(b, full, y) = H - (H - 1 - y + 1)
    BY <1>1, <2>4 DEF Settles
  <2> QED BY <1>1, <2>0, <2>5
<1>4. ASSUME NEW y \in 0 .. H - 1
      PROVE  UNION {b[z] : z \in {k \in Kept(b, full) : Settles(b, full, k) = y}} = b[y]
  <2>1. {k \in Kept(b, full) : Settles(b, full, k) = y} = {y}
    BY <1>2, <1>3
  <2> QED BY <2>1
<1>5. {y \in DOMAIN b : b[y] = full} = {}
  BY <1>1
<1>6. FullRows(b, full) = 0
  BY <1>5, FS_EmptySet DEF FullRows
<1> QED BY <1>1, <1>4, <1>6 DEF Settled

(* The full rows and the cells of a well are finitely many. *)
LEMMA WellFinite ==
    ASSUME NEW H, NEW full, NEW b, IsWell(b, H, full)
    PROVE  /\ IsFiniteSet({y \in DOMAIN b : b[y] = full}) /\ FullRows(b, full) \in Nat
           /\ IsFiniteSet(Occupied(b)) /\ Cardinality(Occupied(b)) \in Nat
<1>1. H \in Nat /\ DOMAIN b = 0 .. H - 1 /\ IsFiniteSet(0 .. H - 1) /\ IsFiniteSet(full)
      /\ \A y \in 0 .. H - 1 : b[y] \subseteq full
  BY FS_Interval DEF IsWell
<1>2. IsFiniteSet({y \in DOMAIN b : b[y] = full})
  <2>1. {y \in DOMAIN b : b[y] = full} \in SUBSET (0 .. H - 1)
    BY <1>1
  <2> QED BY <1>1, <2>1, FS_Subset
<1>3. IsFiniteSet(Occupied(b))
  <2>1. Occupied(b) \in SUBSET (full \X (0 .. H - 1))
    BY <1>1 DEF Occupied
  <2>2. IsFiniteSet(full \X (0 .. H - 1))
    BY <1>1, FS_Product
  <2> QED BY <2>1, <2>2, FS_Subset
<1> QED BY <1>2, <1>3, FS_CardinalityType DEF FullRows

(* Each full row is taken away once. *)
LEMMA RemoveCounts ==
    ASSUME NEW H, NEW full, NEW b, IsWell(b, H, full), NEW r \in 0 .. H - 1, b[r] = full
    PROVE  FullRows(remove_row(b, r), full) = FullRows(b, full) - 1
<1> DEFINE d == remove_row(b, r)
           B == {y \in DOMAIN b : b[y] = full}
           D == {y \in DOMAIN d : d[y] = full}
           f == [y \in B \ {r} |-> Sunk(r, y)]
<1> HIDE DEF d
<1>1. /\ IsWell(d, H, full) /\ d[0] = {}
      /\ \A y \in 0 .. H - 1 : y # r => Sunk(r, y) \in 1 .. H - 1 /\ d[Sunk(r, y)] = b[y]
      /\ \A z \in 1 .. H - 1 : \E y \in 0 .. H - 1 : y # r /\ Sunk(r, y) = z
      /\ \A x, y \in 0 .. H - 1 : x # r /\ y # r => (Sunk(r, x) >= Sunk(r, y) <=> x >= y)
  BY RemovedRows DEF d
<1>2. H \in Nat /\ full # {} /\ DOMAIN b = 0 .. H - 1 /\ DOMAIN d = 0 .. H - 1
  BY <1>1 DEF IsWell
<1>3. IsFiniteSet(B) /\ Cardinality(B) \in Nat /\ r \in B
  BY <1>2, WellFinite, FS_CardinalityType
<1>4. IsFiniteSet(B \ {r}) /\ Cardinality(B \ {r}) = Cardinality(B) - 1
  <2> HIDE DEF B
  <2> QED BY <1>3, FS_RemoveElement
<1>5. f \in [B \ {r} -> D]
  <2>1. \A y \in B \ {r} : Sunk(r, y) \in D
    BY <1>1, <1>2
  <2> HIDE DEF B, D
  <2> QED BY <2>1
<1>6. ASSUME NEW v \in B \ {r}, NEW w \in B \ {r}, f[v] = f[w] PROVE v = w
  <2>1. /\ v \in 0 .. H - 1 /\ w \in 0 .. H - 1 /\ v # r /\ w # r /\ v \in Nat /\ w \in Nat
        /\ Sunk(r, v) = Sunk(r, w) /\ Sunk(r, v) \in Nat
    BY <1>1, <1>2, <1>6
  <2>2. Sunk(r, v) >= Sunk(r, w) /\ Sunk(r, w) >= Sunk(r, v)
    BY <2>1
  <2>3. v >= w /\ w >= v
    BY <1>1, <2>1, <2>2
  <2> QED BY <2>1, <2>3
<1>7. ASSUME NEW z \in D PROVE \E v \in B \ {r} : f[v] = z
  <2>1. z \in 1 .. H - 1
    BY <1>1, <1>2
  <2>2. PICK v \in 0 .. H - 1 : v # r /\ Sunk(r, v) = z
    BY <1>1, <2>1
  <2>3. v \in B \ {r}
    BY <1>1, <1>2, <2>2
  <2> QED BY <2>2, <2>3
<1>8. Cardinality(D) = Cardinality(B \ {r})
  <2> HIDE DEF B, D, f
  <2> QED BY <1>4, <1>5, <1>6, <1>7, PairedOff
<1> QED BY <1>4, <1>8 DEF FullRows, d

(* With a full row go its cells and no other. *)
LEMMA RemoveEmpties ==
    ASSUME NEW H, NEW full, NEW b, IsWell(b, H, full), NEW r \in 0 .. H - 1, b[r] = full
    PROVE  Cardinality(Occupied(remove_row(b, r)))
           = Cardinality(Occupied(b)) - Cardinality(full)
<1> DEFINE d == remove_row(b, r)
           B == Occupied(b)
           D == Occupied(d)
           R == full \X {r}
           f == [c \in B \ R |-> <<c[1], Sunk(r, c[2])>>]
<1> HIDE DEF d
<1>1. /\ IsWell(d, H, full) /\ d[0] = {}
      /\ \A y \in 0 .. H - 1 : y # r => Sunk(r, y) \in 1 .. H - 1 /\ d[Sunk(r, y)] = b[y]
      /\ \A z \in 1 .. H - 1 : \E y \in 0 .. H - 1 : y # r /\ Sunk(r, y) = z
      /\ \A x, y \in 0 .. H - 1 : x # r /\ y # r => (Sunk(r, x) >= Sunk(r, y) <=> x >= y)
  BY RemovedRows DEF d
<1>2. /\ H \in Nat /\ DOMAIN b = 0 .. H - 1 /\ DOMAIN d = 0 .. H - 1 /\ IsFiniteSet(full)
      /\ \A y \in 0 .. H - 1 : b[y] \subseteq full
  BY <1>1 DEF IsWell
<1>3. /\ B = {c \in full \X (0 .. H - 1) : c[1] \in b[c[2]]}
      /\ D = {c \in full \X (0 .. H - 1) : c[1] \in d[c[2]]}
  <2>1. \A y \in 0 .. H - 1 : d[y] \subseteq full
    BY <1>1 DEF IsWell
  <2> QED BY <1>2, <2>1 DEF Occupied
<1> HIDE DEF B, D
<1>4. IsFiniteSet(B) /\ Cardinality(B) \in Nat
  BY WellFinite DEF B
<1>5. B \cap R = R
  BY <1>2, <1>3
<1>6. IsFiniteSet(B \ R) /\ Cardinality(B \ R) = Cardinality(B) - Cardinality(R)
  <2> HIDE DEF R
  <2> QED BY <1>4, <1>5, FS_Difference
<1>7. Cardinality(R) = Cardinality(full)
  <2>1. IsFiniteSet({r}) /\ Cardinality({r}) = 1 /\ Cardinality(full) \in Nat
    BY <1>2, FS_Singleton, FS_CardinalityType
  <2>2. Cardinality(R) = Cardinality(full) * 1
    BY <1>2, <2>1, FS_Product
  <2> QED BY <2>1, <2>2
<1>8. \A c \in B \ R : /\ c = <<c[1], c[2]>> /\ c[1] \in full /\ c[2] \in 0 .. H - 1
                       /\ c[2] # r /\ c[1] \in b[c[2]]
  BY <1>3
<1>9. f \in [B \ R -> D]
  <2>1. ASSUME NEW c \in B \ R PROVE <<c[1], Sunk(r, c[2])>> \in D
    <3>1. Sunk(r, c[2]) \in 0 .. H - 1
      BY <1>1, <1>2, <1>8
    <3> QED BY <1>1, <1>3, <1>8, <3>1
  <2> HIDE DEF R
  <2> QED BY <2>1
<1>10. ASSUME NEW v \in B \ R, NEW w \in B \ R, f[v] = f[w] PROVE v = w
  <2>1. v[1] = w[1] /\ Sunk(r, v[2]) = Sunk(r, w[2])
    BY <1>10
  <2>2. /\ v[2] \in 0 .. H - 1 /\ w[2] \in 0 .. H - 1 /\ v[2] # r /\ w[2] # r
        /\ Sunk(r, v[2]) \in 1 .. H - 1
    BY <1>1, <1>8
  <2>3. v[2] >= w[2] /\ w[2] >= v[2]
    <3>1. Sunk(r, v[2]) >= Sunk(r, w[2]) /\ Sunk(r, w[2]) >= Sunk(r, v[2])
      BY <2>1, <2>2
    <3> QED BY <1>1, <2>2, <3>1
  <2>4. v[2] = w[2]
    BY <1>2, <2>2, <2>3
  <2> QED BY <1>8, <2>1, <2>4
<1>11. ASSUME NEW z \in D PROVE \E v \in B \ R : f[v] = z
  <2>1. z = <<z[1], z[2]>> /\ z[1] \in full /\ z[2] \in 0 .. H - 1 /\ z[1] \in d[z[2]]
    BY <1>3
  <2>2. z[2] \in 1 .. H - 1
    BY <1>1, <1>2, <2>1
  <2>3. PICK y \in 0 .. H - 1 : y # r /\ Sunk(r, y) = z[2]
    BY <1>1, <2>2
  <2>4. <<z[1], y>> \in B \ R
    BY <1>1, <1>3, <2>1, <2>3
  <2>5. f[<<z[1], y>>] = <<z[1], z[2]>>
    BY <2>3, <2>4
  <2> QED BY <2>1, <2>4, <2>5
<1>12. Cardinality(D) = Cardinality(B \ R)
  <2> HIDE DEF R, f
  <2> QED BY <1>6, <1>9, <1>10, <1>11, PairedOff
<1> QED BY <1>6, <1>7, <1>12 DEF B, D, d

(* The scan ends, every full row has been taken away and counted once, and *)
(* the others lie at the bottom in their order.                            *)
LEMMA ClearRowsClears ==
    ASSUME NEW H, NEW full, NEW b, IsWell(b, H, full)
    PROVE  /\ IsWell(ClearRows(b, full).rows, H, full)
           /\ ClearRows(b, full).rows = Settled(b, full)
           /\ ClearRows(b, full).count = FullRows(b, full)
           /\ FullRows(ClearRows(b, full).rows, full) = 0
           /\ Cardinality(Occupied(ClearRows(b, full).rows))
                + Cardinality(full) * ClearRows(b, full).count = Cardinality(Occupied(b))
<1> DEFINE S == Scans(b, full)
           Stop == {s \in S : s.height = 0}
           step == [s \in S |-> IF FullRow(s, full) THEN TakeRow(s) ELSE GoUp(s)]
           out == [s \in S |-> s]
           W(f) == f = [s \in S |-> IF s.height = 0 THEN s
                          ELSE f[IF FullRow(s, full) THEN TakeRow(s) ELSE GoUp(s)]]
           scan == CHOOSE f : W(f)
           L(f) == IsLoop(f, S, Stop, step, out)
           start == [rows |-> b, height |-> H, count |-> 0]
           Good(s) ==
             /\ IsWell(s.rows, H, full) /\ s.height \in 0 .. H /\ s.count \in Nat
             /\ \A y \in s.height .. H - 1 : s.rows[y] # full
             /\ Settled(s.rows, full) = Settled(b, full)
             /\ FullRows(s.rows, full) + s.count = FullRows(b, full)
             /\ Cardinality(Occupied(s.rows)) + Cardinality(full) * s.count
                  = Cardinality(Occupied(b))
           Inside == {s \in S : Good(s)}
           left == [s \in Inside |-> s.height + FullRows(s.rows, full)]
<1>1. H \in Nat /\ DOMAIN b = 0 .. H - 1 /\ Cardinality(DOMAIN b) = H /\ Cardinality(full) \in Nat
  BY FS_Interval, FS_CardinalityType DEF IsWell
<1>2. ClearRows(b, full) = scan[start]
  BY <1>1 DEF ClearRows
<1>3. ASSUME NEW s \in S
      PROVE  /\ s = [rows |-> s.rows, height |-> s.height, count |-> s.count]
             /\ s.rows \in [0 .. H - 1 -> SUBSET full] /\ s.height \in Nat /\ s.count \in Nat
             /\ TakeRow(s) = [rows |-> remove_row(s.rows, s.height - 1),
                              height |-> s.height, count |-> s.count + 1]
             /\ GoUp(s) = [rows |-> s.rows, height |-> s.height - 1, count |-> s.count]
             /\ IsWell(s.rows, H, full)
  <2>1. /\ s = [rows |-> s.rows, height |-> s.height, count |-> s.count]
        /\ s.rows \in [0 .. H - 1 -> SUBSET full] /\ s.height \in Nat /\ s.count \in Nat
    BY <1>1 DEF Scans
  <2>2. /\ TakeRow(s) = [rows |-> remove_row(s.rows, s.height - 1),
                         height |-> s.height, count |-> s.count + 1]
        /\ GoUp(s) = [rows |-> s.rows, height |-> s.height - 1, count |-> s.count]
    BY <2>1 DEF TakeRow, GoUp
  <2> QED BY <1>1, <2>1, <2>2 DEF IsWell
<1>4. ASSUME NEW s \in S \ Stop PROVE s.height > 0 /\ step[s] \in S
  <2>1. s.height > 0
    BY <1>3, <1>4
  <2>2. GoUp(s) \in S
    BY <1>1, <1>3, <2>1 DEF Scans
  <2>3. remove_row(s.rows, s.height - 1) \in [0 .. H - 1 -> SUBSET full]
    <3>1. s.rows \in [0 .. H - 1 -> SUBSET full] /\ s.height \in Nat
      BY <1>3
    <3>2. \A y \in 0 .. H - 1 : y \in 1 .. s.height - 1 => y - 1 \in 0 .. H - 1
      BY <1>1, <3>1
    <3> QED BY <3>1, <3>2 DEF remove_row
  <2>4. TakeRow(s) \in S
    BY <1>1, <1>3, <2>3 DEF Scans
  <2> QED BY <2>1, <2>2, <2>4
<1>5. \E f : L(f)
  <2> HIDE DEF S, Stop, step, out
  <2> QED BY <1>4, LoopExists
<1>6. ASSUME NEW f PROVE L(f) <=> W(f)
  <2>1. [s \in S |-> IF s \in Stop THEN out[s] ELSE f[step[s]]]
        = [s \in S |-> IF s.height = 0 THEN s
                          ELSE f[IF FullRow(s, full) THEN TakeRow(s) ELSE GoUp(s)]]
    OBVIOUS
  <2> QED BY <2>1 DEF IsLoop
<1>7. L(scan)
  <2>1. \E f : W(f)
    BY <1>5, <1>6
  <2> HIDE DEF W, L
  <2> QED BY <2>1, <1>6
<1>8. start \in Inside
  <2>1. start \in S
    <3>1. b \in [DOMAIN b -> SUBSET full] /\ H \in Nat
      BY DEF IsWell
    <3> QED BY <3>1 DEF Scans
  <2>2. Cardinality(Occupied(b)) \in Nat /\ FullRows(b, full) \in Nat
    BY WellFinite
  <2>3. Cardinality(full) * 0 = 0
    BY <1>1
  <2>4. Good(start)
    BY <1>1, <2>2, <2>3
  <2> QED BY <2>1, <2>4
<1>9. left \in [Inside -> Nat]
  <2>1. ASSUME NEW s \in Inside PROVE s.height + FullRows(s.rows, full) \in Nat
    <3>1. IsWell(s.rows, H, full) /\ s.height \in Nat
      BY <1>3
    <3>2. FullRows(s.rows, full) \in Nat
      BY <3>1, WellFinite
    <3> QED BY <3>1, <3>2
  <2> HIDE DEF Inside
  <2> QED BY <2>1
<1>10. ASSUME NEW s \in Inside \ Stop
       PROVE  step[s] \in Inside /\ left[step[s]] < left[s]
  <2> DEFINE r == s.height - 1
             d == remove_row(s.rows, r)
  <2>1. s \in S /\ Good(s) /\ s.height > 0 /\ step[s] \in S /\ FullRows(s.rows, full) \in Nat
    BY <1>3, <1>4, WellFinite
  <2>2. r \in 0 .. H - 1 /\ s.height \in Nat
    BY <1>1, <2>1
  <2>3. CASE s.rows[r] = full
    <3>1. step[s] = [rows |-> d, height |-> s.height, count |-> s.count + 1]
      BY <1>3, <2>1, <2>3 DEF FullRow
    <3>2. /\ IsWell(d, H, full) /\ FullRows(d, full) = FullRows(s.rows, full) - 1
          /\ Settled(d, full) = Settled(s.rows, full)
          /\ Cardinality(Occupied(d)) = Cardinality(Occupied(s.rows)) - Cardinality(full)
      BY <2>1, <2>2, <2>3, RemovedRows, RemoveCounts, RemoveSettles, RemoveEmpties
    <3>3. \A y \in s.height .. H - 1 : d[y] # full
      <4>1. DOMAIN s.rows = 0 .. H - 1
        BY <2>1 DEF IsWell
      <4>2. \A y \in s.height .. H - 1 : d[y] = s.rows[y]
        BY <1>1, <2>2, <4>1 DEF remove_row
      <4> QED BY <2>1, <4>2
    <3>4. FullRows(d, full) \in Nat /\ Cardinality(Occupied(d)) \in Nat
          /\ Cardinality(Occupied(s.rows)) \in Nat
      BY <2>1, <3>2, WellFinite
    <3>5. Cardinality(full) * (s.count + 1) = Cardinality(full) * s.count + Cardinality(full)
          /\ Cardinality(full) * s.count \in Nat
      BY <1>1, <2>1
    <3>6. s.count + 1 \in Nat /\ FullRows(d, full) + (s.count + 1) = FullRows(b, full)
      BY <2>1, <3>2, <3>4
    <3>7. Cardinality(Occupied(d)) + Cardinality(full) * (s.count + 1) = Cardinality(Occupied(b))
      BY <1>1, <2>1, <3>2, <3>4, <3>5
    <3>8. Good(step[s])
      BY <2>1, <3>1, <3>2, <3>3, <3>6, <3>7
    <3>9. s.height + FullRows(d, full) < s.height + FullRows(s.rows, full)
      BY <2>1, <2>2, <3>2
    <3> QED BY <2>1, <3>1, <3>8, <3>9
  <2>4. CASE s.rows[r] # full
    <3>1. step[s] = [rows |-> s.rows, height |-> r, count |-> s.count]
      BY <1>3, <2>1, <2>4 DEF FullRow
    <3>2. \A y \in r .. H - 1 : s.rows[y] # full
      <4>1. \A y \in r .. H - 1 : y = r \/ y \in s.height .. H - 1
        BY <1>1, <2>2
      <4> QED BY <2>1, <2>4, <4>1
    <3>3. r \in 0 .. H
      BY <1>1, <2>2
    <3>4. Good(step[s])
      BY <2>1, <3>1, <3>2, <3>3
    <3>5. r + FullRows(s.rows, full) < s.height + FullRows(s.rows, full)
      BY <2>1, <2>2
    <3> QED BY <2>1, <3>1, <3>4, <3>5
  <2> QED BY <2>3, <2>4
<1>11. PICK e \in Inside \cap Stop : scan[start] = out[e]
  <2>1. Inside \subseteq S
    OBVIOUS
  <2> HIDE DEF S, Inside, Stop, left, step, out, W, scan, start
  <2> QED BY <1>7, <1>8, <1>9, <1>10, <2>1, LoopEnds
<1>12. ClearRows(b, full) = e /\ Good(e) /\ e.height = 0
  BY <1>2, <1>11
<1>13. \A y \in 0 .. H - 1 : e.rows[y] # full
  BY <1>12
<1>14. Settled(e.rows, full) = e.rows /\ FullRows(e.rows, full) = 0
  BY <1>12, <1>13, NoneFullSettled
<1>15. e.count = FullRows(b, full)
  BY <1>12, <1>14
<1> HIDE DEF Inside, Stop, S
<1> QED BY <1>12, <1>14, <1>15

(* A piece joins the well. *)
LEMMA PlaceInWell ==
    ASSUME NEW H, NEW full, NEW b, IsWell(b, H, full), NEW cells, \A c \in cells : c[1] \in full
    PROVE  /\ IsWell(Place(b, cells), H, full)
           /\ (\A c \in cells : c = <<c[1], c[2]>> /\ c[2] \in 0 .. H - 1)
              => Occupied(Place(b, cells)) = Occupied(b) \cup cells
<1>1. /\ DOMAIN b = 0 .. H - 1 /\ \A y \in 0 .. H - 1 : b[y] \subseteq full
  BY DEF IsWell
<1>2. Place(b, cells)
      = [y \in 0 .. H - 1 |-> b[y] \cup {c[1] : c \in {d \in cells : d[2] = y}}]
  BY <1>1 DEF Place
<1>3. \A y \in 0 .. H - 1 : b[y] \cup {c[1] : c \in {d \in cells : d[2] = y}} \in SUBSET full
  BY <1>1
<1>4. IsWell(Place(b, cells), H, full)
  BY <1>2, <1>3 DEF IsWell
<1>5. ASSUME \A c \in cells : c = <<c[1], c[2]>> /\ c[2] \in 0 .. H - 1
      PROVE  Occupied(Place(b, cells)) = Occupied(b) \cup cells
  <2>1. Occupied(Place(b, cells))
        = UNION {{<<x, y>> : x \in b[y] \cup {c[1] : c \in {d \in cells : d[2] = y}}} :
                 y \in 0 .. H - 1}
    BY <1>2 DEF Occupied
  <2>2. ASSUME NEW y \in 0 .. H - 1, NEW x \in b[y] \cup {c[1] : c \in {d \in cells : d[2] = y}}
        PROVE  <<x, y>> \in Occupied(b) \cup cells
    <3>1. CASE x \in b[y]
      BY <1>1, <3>1 DEF Occupied
    <3>2. ASSUME NEW c \in cells, c[2] = y, x = c[1] PROVE <<x, y>> \in cells
      BY <1>5, <3>2
    <3> QED BY <2>2, <3>1, <3>2
  <2>3. ASSUME NEW c \in cells
        PROVE  \E y \in 0 .. H - 1 : \E x \in b[y] \cup {e[1] : e \in {d \in cells : d[2] = y}} :
                   c = <<x, y>>
    BY <1>5
  <2>4. ASSUME NEW c \in Occupied(b)
        PROVE  \E y \in 0 .. H - 1 : \E x \in b[y] : c = <<x, y>>
    BY <1>1 DEF Occupied
  <2> QED BY <2>1, <2>2, <2>3, <2>4
<1> QED BY <1>4, <1>5

-----------------------------------------------------------------------------
(* Domino. *)
DominoFields ==
    [board : [0 .. DOMINO_H - 1 -> SUBSET DominoColumns], x : Int, y : Int, rot : {0, 1},
     tick : Int, over : BOOLEAN, score : Int, lines : Nat]

(* What DominoAccounts asks of a game that is not over. *)
Balanced(d) ==
    /\ Cardinality(Occupied(d.board)) + DOMINO_W * d.lines = 2 * (d.score - 5 * d.lines)
    /\ FullRows(d.board, DominoColumns) = 0
    /\ valid(d, d.x, d.y, d.rot)

(* The piece is in the well, with both of its cells. *)
DominoInside(x, y, rot) ==
    \A c \in DominoCells(x, y, rot) : c[1] \in DominoColumns /\ c[2] \in 0 .. DOMINO_H - 1

(* The invariant: it holds of every value between two steps of one turn. *)
DominoGood(d) ==
    /\ d \in DominoFields /\ DominoInside(d.x, d.y, d.rot)
    /\ ~d.over => Balanced(d)

(* The board is a well of DOMINO_W columns. *)
LEMMA DominoWell ==
    ASSUME NEW d \in DominoFields
    PROVE  /\ IsWell(d.board, DOMINO_H, DominoColumns)
           /\ IsFiniteSet(DominoColumns) /\ Cardinality(DominoColumns) = DOMINO_W
<1>1. DOMINO_W \in Nat \ {0} /\ DOMINO_H \in Nat
  BY DominoAssumption
<1>2. IsFiniteSet(DominoColumns) /\ Cardinality(DominoColumns) = DOMINO_W /\ 0 \in DominoColumns
  BY <1>1, FS_Interval DEF DominoColumns
<1>3. d.board \in [0 .. DOMINO_H - 1 -> SUBSET DominoColumns]
  BY DEF DominoFields
<1> QED BY <1>1, <1>2, <1>3 DEF IsWell

(* A new piece starts inside. *)
LEMMA StartInside == DominoInside(DOMINO_X, 0, 0)
<1>1. DominoCells(DOMINO_X, 0, 0) = {<<DOMINO_X, 0>>, <<DOMINO_X + 1, 0>>}
  BY DEF DominoCells
<1> QED BY <1>1, DominoAssumption DEF DominoInside, DominoColumns

(* Where the piece is tested, it is inside if it is not above the well. *)
LEMMA ValidInside ==
    ASSUME NEW d, NEW x \in Int, NEW y \in Nat, NEW rot \in {0, 1}, valid(d, x, y, rot)
    PROVE  DominoInside(x, y, rot)
<1>1. \A c \in DominoCells(x, y, rot) :
         c[2] \in {y, y + 1} /\ c[1] \in DominoColumns /\ c[2] < DOMINO_H
  BY DEF valid, DominoCells
<1> QED BY <1>1, DominoAssumption DEF DominoInside

(* The two cells of the piece join the well and the score counts one piece,  *)
(* each row taken away takes DOMINO_W cells and counts five: the account      *)
(* still holds, and the game is over unless the next piece is clear.          *)
LEMMA LockDominoGood ==
    ASSUME NEW d, DominoGood(d) PROVE DominoGood(LockDomino(d))
<1> DEFINE cells == DominoCells(d.x, d.y, d.rot)
           b == Place(d.board, cells)
           done == ClearRows(b, DominoColumns)
           n == [board |-> done.rows, x |-> DOMINO_X, y |-> 0, rot |-> 0,
                 tick |-> d.tick, over |-> d.over,
                 score |-> d.score + 1 + 5 * done.count, lines |-> d.lines + done.count]
           l == LockDomino(d)
<1>1. d \in DominoFields /\ DominoInside(d.x, d.y, d.rot)
  BY DEF DominoGood
<1>2. /\ \A c \in cells : c = <<c[1], c[2]>> /\ c[1] \in DominoColumns /\ c[2] \in 0 .. DOMINO_H - 1
      /\ cells = {<<d.x, d.y>>, IF d.rot = 0 THEN <<d.x + 1, d.y>> ELSE <<d.x, d.y + 1>>}
  BY <1>1 DEF DominoInside, DominoCells
<1>3. IsWell(d.board, DOMINO_H, DominoColumns) /\ IsFiniteSet(DominoColumns)
      /\ Cardinality(DominoColumns) = DOMINO_W /\ DOMINO_W \in Nat
  BY <1>1, DominoWell, DominoAssumption
<1>4. IsWell(b, DOMINO_H, DominoColumns) /\ Occupied(b) = Occupied(d.board) \cup cells
  <2> HIDE DEF cells
  <2> QED BY <1>2, <1>3, PlaceInWell
<1>5. /\ IsWell(done.rows, DOMINO_H, DominoColumns) /\ done.count = FullRows(b, DominoColumns)
      /\ FullRows(done.rows, DominoColumns) = 0
      /\ Cardinality(Occupied(done.rows)) + Cardinality(DominoColumns) * done.count
           = Cardinality(Occupied(b))
      /\ done.count \in Nat /\ Cardinality(Occupied(done.rows)) \in Nat
  <2> HIDE DEF b
  <2>1. /\ IsWell(done.rows, DOMINO_H, DominoColumns) /\ done.count = FullRows(b, DominoColumns)
        /\ FullRows(done.rows, DominoColumns) = 0
        /\ Cardinality(Occupied(done.rows)) + Cardinality(DominoColumns) * done.count
             = Cardinality(Occupied(b))
    BY <1>4, ClearRowsClears, ZenonT(40)
  <2> HIDE DEF done
  <2>2. FullRows(b, DominoColumns) \in Nat /\ Cardinality(Occupied(done.rows)) \in Nat
    BY <1>4, <2>1, WellFinite
  <2> QED BY <2>1, <2>2
<1> HIDE DEF done, b
<1>6. l = [n EXCEPT !.over = n.over \/ ~valid(n, DOMINO_X, 0, 0)]
  BY DEF LockDomino, done, b
<1>7. l = [board |-> done.rows, x |-> DOMINO_X, y |-> 0, rot |-> 0, tick |-> d.tick,
           over |-> d.over \/ ~valid(n, DOMINO_X, 0, 0),
           score |-> d.score + 1 + 5 * done.count, lines |-> d.lines + done.count]
  BY <1>6
<1>8. l \in DominoFields
  <2>1. done.rows \in [0 .. DOMINO_H - 1 -> SUBSET DominoColumns]
    BY <1>5 DEF IsWell
  <2>2. d.tick \in Int /\ d.over \in BOOLEAN /\ d.score \in Int /\ d.lines \in Nat
    BY <1>1 DEF DominoFields
  <2>3. DOMINO_X \in Int
    BY DominoAssumption
  <2> QED BY <1>5, <1>7, <2>1, <2>2, <2>3 DEF DominoFields
<1>9. DominoInside(l.x, l.y, l.rot)
  BY <1>7, StartInside
<1>10. ASSUME ~l.over PROVE Balanced(l)
  <2>1. ~d.over /\ valid(n, DOMINO_X, 0, 0) /\ Balanced(d)
    <3>1. l.over = (d.over \/ ~valid(n, DOMINO_X, 0, 0))
      BY <1>7
    <3> HIDE DEF l, n
    <3>2. ~(d.over \/ ~valid(n, DOMINO_X, 0, 0))
      BY <1>10, <3>1
    <3> QED BY <3>2 DEF DominoGood
  <2>2. valid(l, l.x, l.y, l.rot)
    BY <1>7, <2>1 DEF valid
  <2>3. cells \cap Occupied(d.board) = {}
    <3>1. \A c \in cells : c[1] \notin d.board[c[2]]
      BY <2>1 DEF Balanced, valid
    <3>2. \A c \in Occupied(d.board) : c[1] \in d.board[c[2]]
      BY DEF Occupied
    <3> QED BY <3>1, <3>2
  <2>4. IsFiniteSet(cells) /\ Cardinality(cells) = 2
    <3>1. d.x \in Int /\ d.y \in Int
      BY <1>1 DEF DominoFields
    <3> DEFINE u == <<d.x, d.y>>
               v == IF d.rot = 0 THEN <<d.x + 1, d.y>> ELSE <<d.x, d.y + 1>>
    <3>2. u # v
      BY <3>1
    <3>3. cells = {u} \cup {v}
      BY <1>2
    <3> HIDE DEF u, v
    <3> HIDE DEF cells
    <3>4. IsFiniteSet({u}) /\ Cardinality({u}) = 1 /\ v \notin {u}
      BY <3>2, FS_Singleton
    <3>5. IsFiniteSet({u} \cup {v}) /\ Cardinality({u} \cup {v}) = Cardinality({u}) + 1
      BY <3>4, FS_AddElement
    <3> QED BY <3>3, <3>4, <3>5
  <2>5. Cardinality(Occupied(b)) = Cardinality(Occupied(d.board)) + 2
    <3>1. IsFiniteSet(Occupied(d.board)) /\ Cardinality(Occupied(d.board)) \in Nat
      BY <1>3, WellFinite
    <3>2. Cardinality(Occupied(d.board) \cap cells) = 0
      BY <2>3, FS_EmptySet
    <3> HIDE DEF cells
    <3> QED BY <1>4, <2>4, <3>1, <3>2, FS_Union
  <2>6. DOMINO_W * (d.lines + done.count) = DOMINO_W * d.lines + DOMINO_W * done.count
    BY <1>1, <1>3, <1>5 DEF DominoFields
  <2>7. Cardinality(Occupied(l.board)) + DOMINO_W * l.lines = 2 * (l.score - 5 * l.lines)
    <3>1. d.lines \in Int /\ d.score \in Int /\ done.count \in Int
      BY <1>1, <1>5 DEF DominoFields
    <3>2. DOMINO_W * d.lines \in Int /\ DOMINO_W * done.count \in Int
      BY <1>3, <3>1, Product
    <3>6. Cardinality(Occupied(d.board)) \in Nat
      BY <1>3, WellFinite
    <3>3. Cardinality(Occupied(d.board)) + DOMINO_W * d.lines = 2 * (d.score - 5 * d.lines)
      BY <2>1 DEF Balanced
    <3>4. Cardinality(Occupied(done.rows)) + DOMINO_W * done.count
          = Cardinality(Occupied(d.board)) + 2
      BY <1>3, <1>5, <2>5
    <3>5. /\ l.board = done.rows /\ l.lines = d.lines + done.count
          /\ l.score = d.score + 1 + 5 * done.count
      BY <1>7
    <3> QED BY <1>5, <2>6, <3>1, <3>2, <3>3, <3>4, <3>5, <3>6
  <2>8. FullRows(l.board, DominoColumns) = 0
    BY <1>5, <1>7
  <2> QED BY <2>2, <2>7, <2>8 DEF Balanced
<1> QED BY <1>8, <1>9, <1>10 DEF DominoGood

(* The fields of a game, one by one. *)
LEMMA DominoIs ==
    ASSUME NEW d \in DominoFields
    PROVE  /\ d = [board |-> d.board, x |-> d.x, y |-> d.y, rot |-> d.rot, tick |-> d.tick,
                   over |-> d.over, score |-> d.score, lines |-> d.lines]
           /\ d.x \in Int /\ d.y \in Int /\ d.rot \in {0, 1} /\ d.tick \in Int
           /\ d.over \in BOOLEAN
BY DEF DominoFields

(* A piece that moves to a place that was tested. *)
LEMMA MovedGood ==
    ASSUME NEW d, DominoGood(d), NEW e, e \in DominoFields,
           e.board = d.board, e.over = d.over, e.score = d.score, e.lines = d.lines,
           \/ e.x = d.x /\ e.y = d.y /\ e.rot = d.rot
           \/ DominoInside(e.x, e.y, e.rot) /\ valid(d, e.x, e.y, e.rot)
    PROVE  DominoGood(e)
<1>1. DominoInside(e.x, e.y, e.rot)
  BY DEF DominoGood
<1>2. ASSUME ~e.over PROVE Balanced(e)
  <2>1. Balanced(d)
    BY <1>2 DEF DominoGood
  <2>2. valid(d, e.x, e.y, e.rot)
    BY <2>1 DEF Balanced
  <2>3. valid(e, e.x, e.y, e.rot)
    BY <2>2 DEF valid
  <2> QED BY <2>1, <2>3 DEF Balanced
<1> QED BY <1>1, <1>2 DEF DominoGood

(* The piece is never above the well. *)
LEMMA NotAbove ==
    ASSUME NEW d, DominoGood(d)
    PROVE  d.y \in Nat /\ d.x \in Int /\ d.rot \in {0, 1} /\ d \in DominoFields
<1>1. <<d.x, d.y>> \in DominoCells(d.x, d.y, d.rot) /\ d \in DominoFields
  BY DEF DominoGood, DominoCells
<1>2. d.y \in 0 .. DOMINO_H - 1
  BY <1>1 DEF DominoGood, DominoInside
<1> QED BY <1>1, <1>2, DominoIs, DominoAssumption

(* Slides and turns go only where the piece was tested. *)
LEMMA SlideGood == ASSUME NEW d, DominoGood(d), NEW dx \in Int PROVE DominoGood(Slide(d, dx))
<1> DEFINE e == [d EXCEPT !.x = @ + dx]
<1>1. CASE ~valid(d, d.x + dx, d.y, d.rot)
  BY <1>1 DEF Slide
<1>2. CASE valid(d, d.x + dx, d.y, d.rot)
  <2>1. e = [board |-> d.board, x |-> d.x + dx, y |-> d.y, rot |-> d.rot, tick |-> d.tick,
             over |-> d.over, score |-> d.score, lines |-> d.lines]
    BY NotAbove, DominoIs
  <2>2. e \in DominoFields
    BY <2>1, NotAbove, DominoIs DEF DominoFields
  <2>3. DominoInside(d.x + dx, d.y, d.rot)
    BY <1>2, NotAbove, ValidInside
  <2>4. Slide(d, dx) = e
    BY <1>2 DEF Slide
  <2> HIDE DEF e
  <2> QED BY <1>2, <2>1, <2>2, <2>3, <2>4, MovedGood
<1> QED BY <1>1, <1>2

LEMMA TurnGood == ASSUME NEW d, DominoGood(d) PROVE DominoGood(Turn(d))
<1> DEFINE e == [d EXCEPT !.rot = 1 - @]
<1>1. CASE ~valid(d, d.x, d.y, 1 - d.rot)
  BY <1>1 DEF Turn
<1>2. CASE valid(d, d.x, d.y, 1 - d.rot)
  <2>1. e = [board |-> d.board, x |-> d.x, y |-> d.y, rot |-> 1 - d.rot, tick |-> d.tick,
             over |-> d.over, score |-> d.score, lines |-> d.lines]
    BY NotAbove, DominoIs
  <2>2. e \in DominoFields /\ 1 - d.rot \in {0, 1}
    BY <2>1, NotAbove, DominoIs DEF DominoFields
  <2>3. DominoInside(d.x, d.y, 1 - d.rot)
    BY <1>2, <2>2, NotAbove, ValidInside
  <2>4. Turn(d) = e
    BY <1>2 DEF Turn
  <2> HIDE DEF e
  <2> QED BY <1>2, <2>1, <2>2, <2>3, <2>4, MovedGood
<1> QED BY <1>1, <1>2

(* The piece sinks through places that were tested, so many that one more  *)
(* would not do.                                                           *)
LEMMA FallGood == ASSUME NEW d, DominoGood(d) PROVE DominoGood(Fall(d))
<1> DEFINE falls == {k \in 0 .. DOMINO_H : \A e \in 1 .. k : valid(d, d.x, d.y + e, d.rot)}
           best == CHOOSE k \in falls : \A e \in falls : e <= k
           e == [d EXCEPT !.y = @ + best]
<1>1. Fall(d) = e
  BY DEF Fall
<1>2. best \in falls
  <2>1. DOMINO_H \in Nat /\ falls \subseteq 0 .. DOMINO_H /\ 0 \in falls
    BY DominoAssumption
  <2> HIDE DEF falls
  <2>2. \E k \in falls : \A j \in falls : j <= k
    BY <2>1, GreatestOf
  <2> QED BY <2>2
<1> HIDE DEF best
<1>3. best \in Nat /\ (best = 0 \/ valid(d, d.x, d.y + best, d.rot))
  BY <1>2, DominoAssumption
<1> HIDE DEF falls
<1>4. e = [board |-> d.board, x |-> d.x, y |-> d.y + best, rot |-> d.rot, tick |-> d.tick,
           over |-> d.over, score |-> d.score, lines |-> d.lines]
  BY NotAbove, DominoIs
<1>5. e \in DominoFields /\ d.y + best \in Nat /\ d.y + 0 = d.y
  BY <1>3, <1>4, NotAbove, DominoIs DEF DominoFields
<1> HIDE DEF e
<1>6. CASE best = 0
  BY <1>1, <1>4, <1>5, <1>6, MovedGood
<1>7. CASE valid(d, d.x, d.y + best, d.rot)
  <2>1. DominoInside(d.x, d.y + best, d.rot)
    BY <1>5, <1>7, NotAbove, ValidInside
  <2> QED BY <1>1, <1>4, <1>5, <1>7, <2>1, MovedGood
<1> QED BY <1>3, <1>6, <1>7

(* The clock of the fall does not matter, nor does the account of a game    *)
(* that is over.                                                           *)
LEMMA TickSetGood ==
    ASSUME NEW d, DominoGood(d), NEW t \in Int PROVE DominoGood([d EXCEPT !.tick = t])
<1> DEFINE e == [d EXCEPT !.tick = t]
<1>1. e = [board |-> d.board, x |-> d.x, y |-> d.y, rot |-> d.rot, tick |-> t,
           over |-> d.over, score |-> d.score, lines |-> d.lines]
  BY NotAbove, DominoIs
<1>2. e \in DominoFields
  BY <1>1, NotAbove, DominoIs DEF DominoFields
<1> HIDE DEF e
<1>3. DominoGood(e)
  BY <1>1, <1>2, MovedGood
<1> QED BY <1>3 DEF e

LEMMA OverGood == ASSUME NEW d, DominoGood(d) PROVE DominoGood([d EXCEPT !.over = TRUE])
<1> DEFINE e == [d EXCEPT !.over = TRUE]
<1>1. d \in DominoFields
  BY NotAbove
<1>2. e \in DominoFields
  BY <1>1 DEF DominoFields
<1>3. e.x = d.x /\ e.y = d.y /\ e.rot = d.rot
  BY <1>1 DEF DominoFields
<1>4. e.over
  BY <1>1 DEF DominoFields
<1> HIDE DEF e
<1>5. DominoGood(e)
  BY <1>2, <1>3, <1>4 DEF DominoGood
<1> QED BY <1>5 DEF e

(* A step down, or, where there is none, the lock. *)
LEMMA StepDownGood == ASSUME NEW d, DominoGood(d) PROVE DominoGood(step_down(d))
<1> DEFINE e == [d EXCEPT !.y = @ + 1]
<1>1. CASE ~valid(d, d.x, d.y + 1, d.rot)
  BY <1>1, LockDominoGood DEF step_down
<1>2. CASE valid(d, d.x, d.y + 1, d.rot)
  <2>1. e = [board |-> d.board, x |-> d.x, y |-> d.y + 1, rot |-> d.rot, tick |-> d.tick,
             over |-> d.over, score |-> d.score, lines |-> d.lines]
    BY NotAbove, DominoIs
  <2>2. e \in DominoFields /\ d.y + 1 \in Nat
    BY <2>1, NotAbove, DominoIs DEF DominoFields
  <2>3. DominoInside(d.x, d.y + 1, d.rot)
    BY <1>2, <2>2, NotAbove, ValidInside
  <2>4. step_down(d) = e
    BY <1>2 DEF step_down
  <2> HIDE DEF e
  <2> QED BY <1>2, <2>1, <2>2, <2>3, <2>4, MovedGood
<1> QED BY <1>1, <1>2

(* One turn of main(): a key, then the clock. *)
LEMMA TurnOfMainGood ==
    ASSUME NEW d, DominoGood(d), NEW key PROVE DominoGood(DominoTick(DominoKey(d, key)))
<1> DEFINE e == DominoKey(d, key)
<1>1. DominoGood(e)
  <2>1. DominoGood(LockDomino(Fall(d)))
    BY FallGood, LockDominoGood
  <2>2. DominoGood([d EXCEPT !.tick = DROP_TICKS])
    BY TickSetGood, DominoAssumption
  <2>3. DominoGood([d EXCEPT !.over = TRUE])
    BY OverGood
  <2>4. DominoGood(Slide(d, -1)) /\ DominoGood(Slide(d, 1))
    BY SlideGood
  <2>5. DominoGood(Turn(d))
    BY TurnGood
  <2> QED BY <2>1, <2>2, <2>3, <2>4, <2>5 DEF DominoKey
<1> HIDE DEF e
<1>2. e.tick \in Int
  BY <1>1, NotAbove, DominoIs
<1>3. DominoGood([e EXCEPT !.tick = 0]) /\ DominoGood([e EXCEPT !.tick = e.tick + 1])
  BY <1>1, <1>2, TickSetGood
<1>4. DominoGood(step_down([e EXCEPT !.tick = 0]))
  BY <1>3, StepDownGood
<1>5. DominoGood(DominoTick(e))
  BY <1>3, <1>4 DEF DominoTick
<1> QED BY <1>5 DEF e

(* The first piece starts in an empty well. *)
LEMMA DominoStarts == DominoInit => DominoGood(domino)
<1> SUFFICES ASSUME DominoInit PROVE DominoGood(domino)
  OBVIOUS
<1> DEFINE b == EmptyRows(DOMINO_H)
<1>1. /\ domino = [board |-> b, x |-> DOMINO_X, y |-> 0, rot |-> 0, tick |-> 0, over |-> FALSE,
                   score |-> 0, lines |-> 0]
      /\ DOMINO_X \in Int /\ DOMINO_W \in Nat \ {0} /\ DOMINO_H \in Nat
  BY DominoAssumption DEF DominoInit
<1>2. /\ b \in [0 .. DOMINO_H - 1 -> SUBSET DominoColumns] /\ Occupied(b) = {}
      /\ DOMAIN b = 0 .. DOMINO_H - 1 /\ \A y \in 0 .. DOMINO_H - 1 : b[y] = {}
  BY DEF EmptyRows, Occupied
<1> HIDE DEF b
<1>3. domino \in DominoFields
  BY <1>1, <1>2 DEF DominoFields
<1>4. DominoInside(DOMINO_X, 0, 0)
  BY StartInside
<1>5. IsWell(b, DOMINO_H, DominoColumns) /\ DominoColumns # {}
  BY <1>1, <1>3, DominoWell DEF IsWell
<1>6. FullRows(b, DominoColumns) = 0 /\ Cardinality(Occupied(b)) = 0
  BY <1>2, <1>5, NoneFullSettled, FS_EmptySet
<1>7. valid(domino, DOMINO_X, 0, 0)
  <2>1. \A c \in DominoCells(DOMINO_X, 0, 0) :
           c[1] \in DominoColumns /\ c[2] \in 0 .. DOMINO_H - 1 /\ c[2] < DOMINO_H
    BY <1>1, <1>4 DEF DominoInside
  <2> QED BY <1>1, <1>2, <2>1 DEF valid
<1>8. Balanced(domino)
  BY <1>1, <1>6, <1>7 DEF Balanced
<1> QED BY <1>1, <1>3, <1>4, <1>8 DEF DominoGood

(* In a well of any size no cell is lost, doubled or left behind.          *)
THEOREM DominoKeepsAccounts == DominoSpec => []DominoAccounts
<1>1. DominoGood(domino) /\ [DominoNext]_domino => DominoGood(domino)'
  BY TurnOfMainGood DEF DominoNext
<1>2. DominoGood(domino) => DominoAccounts
  BY DEF DominoGood, Balanced, DominoAccounts
<1> QED BY <1>1, <1>2, DominoStarts, PTL DEF DominoSpec
-----------------------------------------------------------------------------
(* Tetris.  What the turned piece is after the collision of rotate_piece()   *)
(* is never asked here: only the names of the globals and the numbers the    *)
(* rows depend on are in the invariant.                                      *)
TetrisNames == {"board", "type", "rot", "x", "y", "next", "seed", "score", "lines",
                "counter", "period", "over", "quit"}

(* The invariant: the board is a well and the numbers are numbers. *)
TetrisGood(t) ==
    /\ DOMAIN t = TetrisNames
    /\ IsWell(t.board, BOARD_H, Columns)
    /\ t.x \in Int /\ t.y \in Int /\ t.score \in Int /\ t.lines \in Int

(* PieceInside of a piece at any height. *)
Within(t, y) ==
    \A c \in Cells(t.type, t.rot, t.x, y) : c[1] \in Columns /\ c[2] \in 0 .. BOARD_H - 1

(* What RowsCleared asks of a step in which the piece came to rest at y. *)
Lands(t, y, n) ==
    LET full == Place(t.board, Cells(t.type, t.rot, t.x, y))
    IN  /\ n.board = Settled(full, Columns)
        /\ n.lines = t.lines + FullRows(full, Columns)
        /\ n.score - 3 * n.lines = t.score - 3 * t.lines

(* What one step of the game may do, as RowsCleared says it. *)
Goes(t, n) ==
    /\ TetrisGood(n)
    /\ n.board # t.board => \E y \in t.y .. t.y + BOARD_H : Lands(t, y, n)

(* What a step writes besides the board. *)
LEMMA SameBoard ==
    ASSUME NEW t, TetrisGood(t), NEW n, DOMAIN n = TetrisNames, n.board = t.board,
           n.x \in Int, n.y \in Int, n.score = t.score, n.lines = t.lines
    PROVE  Goes(t, n)
BY DEF TetrisGood, Goes

(* The next piece leaves the well, the rows and the score alone. *)
LEMMA SpawnKeeps ==
    ASSUME NEW t, DOMAIN t = TetrisNames
    PROVE  /\ DOMAIN spawn_piece(t) = TetrisNames /\ spawn_piece(t).board = t.board
           /\ spawn_piece(t).score = t.score /\ spawn_piece(t).lines = t.lines
           /\ spawn_piece(t).x = SPAWN_X /\ spawn_piece(t).y = 0
<1>1. DOMAIN spawn_piece(t) = TetrisNames
  BY DEF spawn_piece
<1>2. spawn_piece(t).board = t.board
  BY DEF spawn_piece, TetrisNames
<1>3. spawn_piece(t).score = t.score /\ spawn_piece(t).lines = t.lines
  BY DEF spawn_piece, TetrisNames
<1>4. spawn_piece(t).x = SPAWN_X /\ spawn_piece(t).y = 0
  BY DEF spawn_piece, TetrisNames
<1> QED BY <1>1, <1>2, <1>3, <1>4

(* The piece joins the well where it is, and every full row goes. *)
LEMMA LockLands ==
    ASSUME NEW t, TetrisGood(t), Within(t, t.y)
    PROVE  LET n == spawn_piece(clear_complete_lines(lock_piece(t)))
           IN  TetrisGood(n) /\ Lands(t, t.y, n)
<1> DEFINE full == Place(t.board, Cells(t.type, t.rot, t.x, t.y))
           l == lock_piece(t)
           c == clear_complete_lines(l)
           done == ClearRows(full, Columns)
<1>1. DOMAIN t = TetrisNames /\ IsWell(t.board, BOARD_H, Columns)
  BY DEF TetrisGood
<1>2. IsWell(full, BOARD_H, Columns)
  BY <1>1, PlaceInWell DEF Within
<1> HIDE DEF full
<1>3. /\ IsWell(done.rows, BOARD_H, Columns) /\ done.rows = Settled(full, Columns)
      /\ done.count = FullRows(full, Columns) /\ FullRows(full, Columns) \in Nat
  BY <1>2, ClearRowsClears, WellFinite
<1>4. /\ DOMAIN l = TetrisNames /\ l.board = full /\ l.score = t.score /\ l.lines = t.lines
  BY <1>1 DEF lock_piece, full, TetrisNames
<1> HIDE DEF l
<1>5. /\ DOMAIN c = TetrisNames /\ c.board = done.rows
      /\ c.lines = l.lines + done.count /\ c.score = l.score + 3 * done.count
  <2> HIDE DEF done
  <2>1. DOMAIN c = TetrisNames
    BY <1>4 DEF clear_complete_lines
  <2>2. c.board = ClearRows(l.board, Columns).rows
    BY <1>4 DEF clear_complete_lines, TetrisNames
  <2>3. /\ c.lines = l.lines + ClearRows(l.board, Columns).count
        /\ c.score = l.score + 3 * ClearRows(l.board, Columns).count
    BY <1>4 DEF clear_complete_lines, TetrisNames
  <2> QED BY <1>4, <2>1, <2>2, <2>3 DEF done
<1> HIDE DEF c, done
<1> DEFINE n == spawn_piece(c)
<1>6. /\ DOMAIN n = TetrisNames /\ n.board = done.rows /\ n.score = c.score /\ n.lines = c.lines
      /\ n.x = SPAWN_X /\ n.y = 0
  BY <1>5, SpawnKeeps
<1> HIDE DEF n
<1>7. t.score \in Int /\ t.lines \in Int /\ SPAWN_X \in Int /\ done.count \in Int
  BY <1>3, TetrisAssumption DEF TetrisGood
<1>8. /\ n.lines = t.lines + done.count /\ n.score = t.score + 3 * done.count
  BY <1>4, <1>5, <1>6
<1>9. TetrisGood(n)
  BY <1>3, <1>6, <1>7, <1>8 DEF TetrisGood
<1>10. Lands(t, t.y, n)
  <2>1. n.score - 3 * n.lines = t.score - 3 * t.lines
    BY <1>7, <1>8
  <2>2. n.board = Settled(full, Columns) /\ n.lines = t.lines + FullRows(full, Columns)
    BY <1>3, <1>6, <1>8
  <2> QED BY <2>1, <2>2 DEF Lands, full
<1> QED BY <1>9, <1>10 DEF n, c, l

(* A piece that falls through places that were tested stays within. *)
LEMMA FallsWithin ==
    ASSUME NEW t, TetrisGood(t), Within(t, t.y), NEW k \in Nat,
           k = 0 \/ valid_position(t, t.rot, t.x, t.y + k)
    PROVE  Within(t, t.y + k)
<1>1. t.x \in Int /\ t.y \in Int /\ Bits(t.type, t.rot) \subseteq 0 .. 15 /\ BOARD_H \in Nat
  BY TetrisAssumption DEF TetrisGood, Bits
<1>2. CASE k = 0
  BY <1>1, <1>2
<1>3. CASE valid_position(t, t.rot, t.x, t.y + k)
  <2> SUFFICES ASSUME NEW bit \in Bits(t.type, t.rot)
               PROVE  /\ Cell(bit, t.x, t.y + k)[1] \in Columns
                      /\ Cell(bit, t.x, t.y + k)[2] \in 0 .. BOARD_H - 1
    BY DEF Within, Cells
  <2>1. Cell(bit, t.x, t.y)[2] \in 0 .. BOARD_H - 1
    BY DEF Within, Cells
  <2>2. bit \div 4 \in Int /\ bit % 4 \in Int
    BY <1>1
  <2>3. Cell(bit, t.x, t.y + k)[2] = Cell(bit, t.x, t.y)[2] + k
    BY <1>1, <2>2 DEF Cell
  <2>4. Cell(bit, t.x, t.y + k)[1] \in Columns /\ Cell(bit, t.x, t.y + k)[2] < BOARD_H
    BY <1>3 DEF valid_position, Cells
  <2> QED BY <1>1, <2>1, <2>3, <2>4
<1> QED BY <1>2, <1>3

(* One step of the fall: down, or into the well. *)
LEMMA DropGoes ==
    ASSUME NEW t, TetrisGood(t), Within(t, t.y)
    PROVE  Goes(t, drop_one(t))
<1>0. DOMAIN t = TetrisNames /\ t.x \in Int /\ t.y \in Int /\ BOARD_H \in Nat
  BY TetrisAssumption DEF TetrisGood
<1>1. CASE valid_position(t, t.rot, t.x, t.y + 1)
  <2> DEFINE n == [t EXCEPT !.y = @ + 1]
  <2>1. /\ DOMAIN n = TetrisNames /\ n.board = t.board /\ n.x = t.x /\ n.y = t.y + 1
        /\ n.score = t.score /\ n.lines = t.lines
    BY <1>0 DEF TetrisNames
  <2> HIDE DEF n
  <2>2. Goes(t, n)
    BY <1>0, <2>1, SameBoard
  <2> QED BY <1>1, <2>2 DEF drop_one, n
<1>2. CASE ~valid_position(t, t.rot, t.x, t.y + 1)
  <2>1. TetrisGood(drop_one(t)) /\ Lands(t, t.y, drop_one(t))
    BY <1>2, LockLands DEF drop_one
  <2>2. t.y \in t.y .. t.y + BOARD_H
    BY <1>0
  <2> QED BY <2>1, <2>2 DEF Goes
<1> QED BY <1>1, <1>2

(* The fall through every place that is free, then into the well. *)
LEMMA HardDropGoes ==
    ASSUME NEW t, TetrisGood(t), Within(t, t.y)
    PROVE  Goes(t, hard_drop(t))
<1> DEFINE falls == {d \in 0 .. BOARD_H :
                        \A e \in 1 .. d : valid_position(t, t.rot, t.x, t.y + e)}
           best == CHOOSE d \in falls : \A e \in falls : e <= d
           rest == [t EXCEPT !.y = @ + best]
<1>0. DOMAIN t = TetrisNames /\ t.x \in Int /\ t.y \in Int /\ BOARD_H \in Nat
  BY TetrisAssumption DEF TetrisGood
<1>1. best \in falls
  <2>1. falls \subseteq 0 .. BOARD_H /\ 0 \in falls
    BY <1>0
  <2> HIDE DEF falls
  <2>2. \E d \in falls : \A e \in falls : e <= d
    BY <1>0, <2>1, GreatestOf
  <2> QED BY <2>2
<1>2. hard_drop(t) = spawn_piece(clear_complete_lines(lock_piece(rest)))
  BY DEF hard_drop
<1> HIDE DEF best
<1>3. best \in 0 .. BOARD_H /\ (best = 0 \/ valid_position(t, t.rot, t.x, t.y + best))
  BY <1>0, <1>1
<1>4. Within(t, t.y + best)
  BY <1>0, <1>3, FallsWithin
<1>5. /\ DOMAIN rest = TetrisNames /\ rest.board = t.board /\ rest.x = t.x /\ rest.y = t.y + best
      /\ rest.score = t.score /\ rest.lines = t.lines /\ rest.type = t.type /\ rest.rot = t.rot
  BY <1>0 DEF TetrisNames
<1> HIDE DEF rest, falls
<1>6. TetrisGood(rest) /\ Within(rest, rest.y)
  BY <1>0, <1>3, <1>4, <1>5 DEF TetrisGood, Within
<1>7. TetrisGood(hard_drop(t)) /\ Lands(rest, rest.y, hard_drop(t))
  BY <1>2, <1>6, LockLands
<1>8. Lands(t, t.y + best, hard_drop(t))
  BY <1>5, <1>7 DEF Lands
<1>9. t.y + best \in t.y .. t.y + BOARD_H
  BY <1>0, <1>3
<1> QED BY <1>7, <1>8, <1>9 DEF Goes

(* Whatever the player presses. *)
LEMMA KeyGoes ==
    ASSUME NEW t, TetrisGood(t), Within(t, t.y), NEW key
    PROVE  Goes(t, TetrisKey(t, key))
<1>0. DOMAIN t = TetrisNames /\ t.x \in Int /\ t.y \in Int
  BY DEF TetrisGood
<1>1. Goes(t, t)
  BY <1>0, SameBoard
<1>2. ASSUME NEW dx \in Int PROVE Goes(t, move_piece(t, dx))
  <2> DEFINE n == [t EXCEPT !.x = @ + dx]
  <2>1. /\ DOMAIN n = TetrisNames /\ n.board = t.board /\ n.x = t.x + dx /\ n.y = t.y
        /\ n.score = t.score /\ n.lines = t.lines
    BY <1>0 DEF TetrisNames
  <2> HIDE DEF n
  <2>2. Goes(t, n)
    BY <1>0, <2>1, SameBoard
  <2> QED BY <1>1, <2>2 DEF move_piece, n
<1>3. Goes(t, rotate_piece(t))
  <2> DEFINE rot == DrawnOver(t, (t.rot + 1) % 4)
             n == [t EXCEPT !.rot = rot]
  <2>1. rotate_piece(t) = t \/ rotate_piece(t) = n
    BY DEF rotate_piece
  <2> HIDE DEF rot
  <2>2. /\ DOMAIN n = TetrisNames /\ n.board = t.board /\ n.x = t.x /\ n.y = t.y
        /\ n.score = t.score /\ n.lines = t.lines
    BY <1>0 DEF TetrisNames
  <2> HIDE DEF n
  <2>3. Goes(t, n)
    BY <1>0, <2>2, SameBoard
  <2> QED BY <1>1, <2>1, <2>3
<1>4. Goes(t, [t EXCEPT !.quit = TRUE])
  <2> DEFINE n == [t EXCEPT !.quit = TRUE]
  <2>1. /\ DOMAIN n = TetrisNames /\ n.board = t.board /\ n.x = t.x /\ n.y = t.y
        /\ n.score = t.score /\ n.lines = t.lines
    BY <1>0 DEF TetrisNames
  <2> HIDE DEF n
  <2>2. Goes(t, n)
    BY <1>0, <2>1, SameBoard
  <2> QED BY <2>2 DEF n
<1>5. Goes(t, move_piece(t, -1)) /\ Goes(t, move_piece(t, 1))
  BY <1>2
<1> QED BY <1>1, <1>3, <1>4, <1>5, DropGoes, HardDropGoes DEF TetrisKey

(* A new game starts with an empty well. *)
LEMMA FreshGame == TetrisGood(reset_game)
<1> DEFINE fresh == [board |-> EmptyRows(BOARD_H), type |-> 0, rot |-> 0, x |-> 0, y |-> 0,
                     next |-> 0, seed |-> 17, score |-> 0, lines |-> 0, counter |-> 0,
                     period |-> FIRST_PERIOD, over |-> FALSE, quit |-> FALSE]
           seed == RandomNext(fresh)
           f == [fresh EXCEPT !.seed = seed, !.next = seed % 7]
<1>1. reset_game = spawn_piece(f)
  BY DEF reset_game
<1>2. /\ DOMAIN fresh = TetrisNames /\ fresh.board = EmptyRows(BOARD_H)
      /\ fresh.score = 0 /\ fresh.lines = 0
  BY DEF TetrisNames
<1> HIDE DEF fresh, seed
<1>3. /\ DOMAIN f = TetrisNames /\ f.board = EmptyRows(BOARD_H) /\ f.score = 0 /\ f.lines = 0
  BY <1>2 DEF TetrisNames
<1> HIDE DEF f
<1>4. IsWell(EmptyRows(BOARD_H), BOARD_H, Columns)
  <2>1. BOARD_W \in Nat \ {0} /\ BOARD_H \in Nat
    BY TetrisAssumption
  <2>2. IsFiniteSet(Columns) /\ 0 \in Columns
    BY <2>1, FS_Interval DEF Columns
  <2> QED BY <2>1, <2>2 DEF IsWell, EmptyRows
<1>5. SPAWN_X \in Int
  BY TetrisAssumption
<1> QED BY <1>1, <1>3, <1>4, <1>5, SpawnKeeps DEF TetrisGood

(* The end of the turn, whether the clock has come round or not. *)
LEMMA FallGoes ==
    ASSUME NEW t, TetrisGood(t), Within(t, t.y)
    PROVE  /\ Goes(t, drop_one([t EXCEPT !.counter = 0]))
           /\ Goes(t, [t EXCEPT !.counter = @ + 1])
<1>0. DOMAIN t = TetrisNames /\ t.x \in Int /\ t.y \in Int
  BY DEF TetrisGood
<1>1. ASSUME NEW v, NEW n, n = [t EXCEPT !.counter = v]
      PROVE  /\ DOMAIN n = TetrisNames /\ n.board = t.board /\ n.x = t.x /\ n.y = t.y
             /\ n.score = t.score /\ n.lines = t.lines /\ n.type = t.type /\ n.rot = t.rot
  BY <1>0, <1>1 DEF TetrisNames
<1>2. Goes(t, [t EXCEPT !.counter = @ + 1])
  <2> DEFINE n == [t EXCEPT !.counter = @ + 1]
  <2>1. /\ DOMAIN n = TetrisNames /\ n.board = t.board /\ n.x = t.x /\ n.y = t.y
        /\ n.score = t.score /\ n.lines = t.lines
    BY <1>1
  <2> HIDE DEF n
  <2>2. Goes(t, n)
    BY <1>0, <2>1, SameBoard
  <2> QED BY <2>2 DEF n
<1>3. Goes(t, drop_one([t EXCEPT !.counter = 0]))
  <2> DEFINE n == [t EXCEPT !.counter = 0]
  <2>1. /\ DOMAIN n = TetrisNames /\ n.board = t.board /\ n.x = t.x /\ n.y = t.y
        /\ n.score = t.score /\ n.lines = t.lines /\ n.type = t.type /\ n.rot = t.rot
    BY <1>1
  <2> HIDE DEF n
  <2>2. TetrisGood(n) /\ Within(n, n.y)
    BY <2>1 DEF TetrisGood, Within
  <2>3. Goes(n, drop_one(n))
    BY <2>2, DropGoes
  <2> DEFINE m == drop_one(n)
  <2> HIDE DEF m
  <2>4. Goes(n, m) => Goes(t, m)
    BY <2>1 DEF Goes, Lands
  <2> QED BY <2>3, <2>4 DEF n, m
<1> QED BY <1>2, <1>3

(* The inductive invariant of a game whose pieces stay inside the well. *)
TetrisInv == TetrisGood(tetris)

(* Every step of the game. *)
LEMMA TetrisGoes ==
    ASSUME TetrisInv, PieceInside, [TetrisNext]_tetrisVars
    PROVE  /\ TetrisInv'
           /\ tetris'.board # tetris.board /\ tetrisAt # "title" =>
                \E y \in tetris.y .. tetris.y + BOARD_H : Lands(tetris, y, tetris')
<1>1. TetrisGood(tetris) /\ Within(tetris, tetris.y)
  BY DEF TetrisInv, PieceInside, Within
<1>2. /\ DOMAIN tetris = TetrisNames /\ tetris.x \in Int /\ tetris.y \in Int
  BY <1>1 DEF TetrisGood
<1>3. CASE TetrisTitle
  BY <1>3, FreshGame DEF TetrisTitle, TetrisInv
<1>4. Goes(tetris, tetris') => TetrisInv' /\
        (tetris'.board # tetris.board =>
                \E y \in tetris.y .. tetris.y + BOARD_H : Lands(tetris, y, tetris'))
  BY DEF Goes, TetrisInv
<1>5. CASE TetrisFall
  BY <1>1, <1>4, <1>5, FallGoes DEF TetrisFall
<1>6. ASSUME NEW key \in TetrisKeys, TetrisInput(key) PROVE Goes(tetris, tetris')
  BY <1>1, <1>6, KeyGoes DEF TetrisInput
<1>7. ASSUME NEW key \in TetrisKeys, TetrisPause(key) PROVE Goes(tetris, tetris')
  <2> DEFINE q == (key = "quit")
  <2>1. tetris' = [tetris EXCEPT !.quit = q]
    BY <1>7 DEF TetrisPause
  <2> HIDE DEF q
  <2>2. PICK n : n = tetris'
    OBVIOUS
  <2>3. /\ DOMAIN n = TetrisNames /\ n.board = tetris.board /\ n.x = tetris.x /\ n.y = tetris.y
        /\ n.score = tetris.score /\ n.lines = tetris.lines
    BY <1>2, <2>1, <2>2 DEF TetrisNames
  <2>4. Goes(tetris, n)
    BY <1>1, <1>2, <2>3, SameBoard
  <2> QED BY <2>2, <2>4
<1>8. ASSUME UNCHANGED tetris PROVE Goes(tetris, tetris')
  BY <1>1, <1>2, <1>8, SameBoard
<1>9. ASSUME NEW key \in TetrisKeys, TetrisEnd(key) PROVE Goes(tetris, tetris')
  BY <1>8, <1>9 DEF TetrisEnd
<1> QED BY <1>3, <1>4, <1>5, <1>6, <1>7, <1>8, <1>9 DEF TetrisNext, tetrisVars

(* In a well of any size, as long as no piece sticks out of it (the collision *)
(* of rotate_piece() that FourTurns shows could make one), a piece that locks  *)
(* joins the well, and every full row goes and is counted once.                *)
THEOREM TetrisClearsRows == TetrisSpec /\ []PieceInside => RowsCleared
<1>1. TetrisInit => TetrisInv
  BY FreshGame DEF TetrisInit, TetrisInv
<1>2. TetrisInv /\ PieceInside /\ [TetrisNext]_tetrisVars => TetrisInv'
  BY TetrisGoes
<1>3. TetrisInv /\ PieceInside /\ [TetrisNext]_tetrisVars
      => [tetris'.board # tetris.board /\ tetrisAt # "title" =>
            \E y \in tetris.y .. tetris.y + BOARD_H :
                LET full == Place(tetris.board, Cells(tetris.type, tetris.rot, tetris.x, y))
                IN  /\ tetris'.board = Settled(full, Columns)
                    /\ tetris'.lines = tetris.lines + FullRows(full, Columns)
                    /\ tetris'.score - 3 * tetris'.lines = tetris.score - 3 * tetris.lines
          ]_tetrisVars
  BY TetrisGoes DEF Lands
<1> QED BY <1>1, <1>2, <1>3, PTL DEF TetrisSpec, RowsCleared
=============================================================================
