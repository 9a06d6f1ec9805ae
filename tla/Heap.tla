---------------------------------- MODULE Heap ----------------------------------
(***************************************************************************)
(* What __heapAlloc and __heapFree of kernel/heap.cpp do to one heap.       *)
(* Every block, used or free, has the same tag (MS_HEAP_STRUCT) before and  *)
(* behind its data.  The blocks lie one after the other from the base of    *)
(* the heap; behind the last one the memory is still zero, as CreateHeap    *)
(* left it.  A free joins its block with free neighbours, whose tags then   *)
(* stay behind as data.  A heap m is a sequence: what each place would be,  *)
(* read as a tag.  Sizes and places are counted in tags, 8 bytes each.      *)
(***************************************************************************)
EXTENDS Integers, Sequences, FiniteSets

Zero == [addr |-> 0, size |-> 0, used |-> FALSE]

EmptyHeap(n) == [p \in 1 .. n |-> Zero]

(* getAlignSize(size, 2 * sizeof(MS_HEAP_STRUCT)) *)
AlignSize(s) == IF s % 2 = 0 THEN s ELSE s + (2 - (s % 2))

(* The place behind a block *)
Behind(m, p) == p + m[p].size + 2

(* m with a block of s at p: its tag is written at both ends. *)
Tagged(m, p, s, used) ==
    LET t == [addr |-> p + 1, size |-> s, used |-> used]
    IN [m EXCEPT ![p] = t, ![p + 1 + s] = t]

IsVirgin(m, p) == m[p] = Zero

(* A free block, as __heapAlloc sees it: one of size zero is not. *)
IsFree(m, p) == ~m[p].used /\ m[p].size # 0 /\ m[p].addr # 0

(* A free block is taken when it has the size, or when what remains can hold
   a block of its own. *)
IsSplit(m, p, s) == IsFree(m, p) /\ m[p].size > s + 2

(* Mutant: a free block serves whatever its size is. *)
ServesIfFree(m, p, s) == IsVirgin(m, p) \/ IsFree(m, p)

Serves(m, p, s) == IsVirgin(m, p) \/ IsSplit(m, p, s) \/ (IsFree(m, p) /\ m[p].size = s)

(* Mutant: the last place is never used. *)
BelowEnd(m, p, s) == p + s + 2 < 1 + Len(m)

InHeap(m, p, s) == p + s + 2 <= 1 + Len(m)

(* The places of the blocks: from the base, each block leads to the one behind
   it, up to memory that is still zero or to the end. *)
Chain(m) ==
    LET from[p \in Nat] ==
            IF p \notin DOMAIN m \/ IsVirgin(m, p) THEN {} ELSE {p} \cup from[Behind(m, p)]
    IN from[1]

(* The search goes on behind used blocks and free ones that do not serve; it
   breaks at a free block of size zero. *)
GoesOn(m, p, s) ==
    InHeap(m, p, s) /\ ~Serves(m, p, s) /\ (m[p].used \/ IsFree(m, p))

(* The place it comes to first where it does not go on, which may be behind the
   last block; 0 when that one does not serve *)
Found(m, s) ==
    LET chain == Chain(m)
        p == CHOOSE q \in {1} \cup {Behind(m, r) : r \in chain} :
                ~GoesOn(m, q, s) /\ \A r \in chain : r < q => GoesOn(m, r, s)
    IN IF InHeap(m, p, s) /\ Serves(m, p, s) THEN p ELSE 0

(* Mutant: the tag behind what remains of a split block is not renewed. *)
RestUntagged(m, p, s) ==
    [Tagged(m, p, s, TRUE) EXCEPT
        ![p + s + 2] = [addr |-> p + s + 3, size |-> m[p].size - s - 2, used |-> FALSE]]

(* The block is tagged, then what remains of a free block that is split. *)
Split(m, p, s) == Tagged(Tagged(m, p, s, TRUE), p + s + 2, m[p].size - s - 2, FALSE)

(* What the process writes to its block is left out: the tags of former blocks
   that the data still holds are the ones that could be taken for real. *)
HeapAlloc(m, s) ==
    LET p == Found(m, s)
    IN IF IsSplit(m, p, s) THEN Split(m, p, s) ELSE Tagged(m, p, s, TRUE)

(* The tags before and behind the data are there and the same. *)
TagsMatch(m, addr) ==
    LET h == m[addr - 1]
        e == addr + h.size
    IN
    /\ h.addr = addr
    /\ e \in DOMAIN m /\ m[e] = h

(* The block before one that is not the first, found by the tag behind it *)
Before(m, p) == p - 2 - m[p - 1].size

(* Where the joined block begins: at the block before, if that is free. *)
JoinBegin(m, p) == IF p > 1 /\ ~m[Before(m, p)].used THEN Before(m, p) ELSE p

(* Where it ends: with the block behind, if there is one and it is free. *)
JoinEnd(m, p) ==
    LET n == Behind(m, p) IN
    IF n <= Len(m) /\ ~(m[n].addr = 0 /\ m[n].size = 0) /\ ~m[n].used
    THEN Behind(m, n) ELSE n

(* The tag of the block loses its mark, also when the tag becomes data.  An
   address that is not a block's changes nothing. *)
HeapFree(m, addr) ==
    LET p == addr - 1
        begin == JoinBegin(m, p)
        size == JoinEnd(m, p) - begin - 2
    IN IF TagsMatch(m, addr)
       THEN Tagged([m EXCEPT ![p].used = FALSE], begin, size, FALSE)
       ELSE m

-----------------------------------------------------------------------------
UsedBlocks(m) == {[addr |-> p + 1, size |-> m[p].size] : p \in {q \in Chain(m) : m[q].used}}

(* The blocks tile the heap up to memory that is still zero: the two tags of
   each block are the same, and no two free blocks are neighbours. *)
IsTiled(m) ==
    LET chain == Chain(m) IN
    /\ \A p \in chain :
          /\ m[p].addr = p + 1 /\ Behind(m, p) <= Len(m) + 1
          /\ m[p + 1 + m[p].size] = m[p]
          /\ ~m[p].used /\ Behind(m, p) \in chain => m[Behind(m, p)].used
    /\ \A q \in DOMAIN m : (\A p \in chain : Behind(m, p) <= q) => IsVirgin(m, q)

(* Places with room for s: a free block of this size, or one with place for a
   second block behind it, or enough memory behind the last block. *)
Room(m, s) ==
    LET chain == Chain(m) IN
    {p \in chain : ~m[p].used /\ (m[p].size = s \/ m[p].size >= s + 4)}
    \cup {p \in DOMAIN m : p + s + 1 <= Len(m) /\ \A q \in chain : Behind(m, q) <= p}

=============================================================================
