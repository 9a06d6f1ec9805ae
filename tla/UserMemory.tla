------------------------------- MODULE UserMemory -------------------------------
(***************************************************************************)
(* Memory of a process (__malloc and __free of kernel/malloc.cpp, with      *)
(* fast_heap_alloc, fast_heap_free and CreateHeap of heap.cpp, and the      *)
(* heaps __initProcess of process.cpp makes).  A request is served from the *)
(* fast heap, whose blocks come in classes and carry a mark in their last   *)
(* byte; else from the heaps, each twice as long as the one before; else    *)
(* from a new heap; else as a block of physical memory of its own.  Each of *)
(* these takes the heap lock of the process for itself, so the threads of a *)
(* process meet between them.                                               *)
(*                                                                          *)
(* The bases of the heaps are kept in a table.  The process has an array    *)
(* for it, heapBase, but lpHeapBase, the address of that array, is followed *)
(* once more than it should be: the table is where heapBase[0] points, and  *)
(* __initProcess gives heapBase[0] no value.  In memory never used before   *)
(* that is address zero, for every process alike.                           *)
(***************************************************************************)
EXTENDS Heap

CONSTANTS
    Procs,
    Threads,
    ProcOf,
    Tables,     \* places where heapBase[0] may point
    Layouts,    \* which table each process may turn out to have
    None,
    Classes,    \* of the fast heap: [size, count], the smallest size first
    HeapSize,   \* of the first heap, even
    Heaps,      \* heaps a process gets memory for
    Wholes,     \* blocks that physical memory has left besides
    Page,       \* and how long they are
    Requests    \* sizes asked for

ASSUME UserMemoryAssumption ==
    /\ ProcOf \in [Threads -> Procs] /\ None \notin Procs
    /\ Layouts \subseteq [Procs -> Tables]
    /\ Classes \in Seq([size : Nat \ {0}, count : Nat])
    /\ HeapSize \in Nat \ {0} /\ HeapSize % 2 = 0
    /\ Heaps \in Nat \ {0} /\ Wholes \in Nat /\ Page \in Nat \ {0}
    /\ Requests \subseteq Nat

VARIABLES
    made,       \* the processes
    tableOf,    \* of each process
    table,      \* of each table: the heaps, by their numbers
    count,      \* *lpHeapCnt of each process
    fast,       \* of each process: the marked places of its fast heap
    mem,        \* of each heap, named by the process that made it and its number
    whole,      \* of each block of physical memory: its process, or None
    live,       \* what each process has, [area, addr, size]
    pc          \* of each thread: what __malloc is about to do

vars == <<made, tableOf, table, count, fast, mem, whole, live, pc>>

HeapIds == Procs \X (0 .. Heaps - 1)

(* Areas other than heaps *)
FastHeap(p) == <<p, -1>>
Physical(k) == <<None, k>>

Idle == [op |-> "idle", size |-> 0, num |-> 0, cnt |-> 0]

At(t, op) == pc[t].op = op

Go(t, op) == pc' = [pc EXCEPT ![t].op = op]

(* The request of t is served. *)
Served(t, block) ==
    /\ live' = [live EXCEPT ![ProcOf[t]] = @ \cup {block}]
    /\ pc' = [pc EXCEPT ![t] = Idle]

HeapOf(p, n) == table[tableOf[p]][n]

-----------------------------------------------------------------------------

Init ==
    /\ made = {}
    /\ tableOf \in Layouts
    /\ table = [x \in Tables |-> [n \in 0 .. Heaps |-> None]]
    /\ count = [p \in Procs |-> 0]
    /\ fast = [p \in Procs |-> {}]
    /\ mem = [h \in HeapIds |-> <<>>]
    /\ whole = [k \in 1 .. Wholes |-> None]
    /\ live = [p \in Procs |-> {}]
    /\ pc = [t \in Threads |-> Idle]

(* How long heap n of a process is: twice as long as the one before *)
HeapLimit[n \in 0 .. Heaps] == IF n = 0 THEN HeapSize ELSE 2 * HeapLimit[n - 1]

(* Its first heap goes to the table, also when that is another process's. *)
InitProcess(p) ==
    /\ p \notin made
    /\ made' = made \cup {p}
    /\ mem' = [mem EXCEPT ![<<p, 0>>] = EmptyHeap(HeapLimit[0])]
    /\ table' = [table EXCEPT ![tableOf[p]][0] = <<p, 0>>]
    /\ count' = [count EXCEPT ![p] = 1]
    /\ UNCHANGED <<tableOf, fast, whole, live, pc>>

-----------------------------------------------------------------------------
(* fast_heap_alloc, with which __malloc begins, and fast_heap_free *)

(* Where the blocks of class k begin *)
ClassBase[k \in 1 .. Len(Classes) + 1] ==
    IF k = 1 THEN 1 ELSE ClassBase[k - 1] + Classes[k - 1].size * Classes[k - 1].count

ClassBlocks(k) == {ClassBase[k] + i * Classes[k].size : i \in 0 .. Classes[k].count - 1}

(* The first class whose blocks are longer than s: the mark is behind the data. *)
ServesClass(k, s) == Classes[k].size > s /\ \A j \in 1 .. k - 1 : Classes[j].size <= s

MarkOf(k, addr) == addr + Classes[k].size - 1

FreeFast(p, k) == {a \in ClassBlocks(k) : MarkOf(k, a) \notin fast[p]}

FastAlloc(t, s) ==
    LET p == ProcOf[t] IN
    /\ p \in made /\ At(t, "idle")
    /\ \E k \in DOMAIN Classes, a \in 1 .. ClassBase[Len(Classes) + 1] :
          /\ ServesClass(k, s)
          /\ a \in FreeFast(p, k) /\ \A b \in FreeFast(p, k) : a <= b
          /\ fast' = [fast EXCEPT ![p] = @ \cup {MarkOf(k, a)}]
          /\ Served(t, [area |-> FastHeap(p), addr |-> a, size |-> Classes[k].size])
    /\ UNCHANGED <<made, tableOf, table, count, mem, whole>>

(* No class, or no block of it; the heaps are counted. *)
FastFails(t, s) ==
    LET p == ProcOf[t] IN
    /\ p \in made /\ At(t, "idle")
    /\ \A k \in DOMAIN Classes : ServesClass(k, s) => FreeFast(p, k) = {}
    /\ pc' = [pc EXCEPT ![t] = [op |-> "heap", size |-> s, num |-> 0, cnt |-> count[p]]]
    /\ UNCHANGED <<made, tableOf, table, count, fast, mem, whole, live>>

ClassOf(addr) ==
    CHOOSE k \in DOMAIN Classes : ClassBase[k] <= addr /\ addr < ClassBase[k + 1]

FastFree(p, addr) ==
    /\ fast' = [fast EXCEPT ![p] = @ \ {MarkOf(ClassOf(addr), addr)}]
    /\ UNCHANGED <<mem, whole>>

-----------------------------------------------------------------------------
(* The heaps *)

(* A block in heap h, if the search finds one *)
HeapServes(t, h) ==
    LET s == AlignSize(pc[t].size) IN
    /\ Found(mem[h], s) # 0
    /\ mem' = [mem EXCEPT ![h] = HeapAlloc(@, s)]
    /\ Served(t, [area |-> h, addr |-> Found(mem[h], s) + 1, size |-> s])

HeapFails(t, h) == Found(mem[h], AlignSize(pc[t].size)) = 0

(* One turn of the loop over the heaps *)
SearchHeap(t) ==
    LET n == pc[t].num
        h == HeapOf(ProcOf[t], n)
    IN
    /\ At(t, "heap") /\ n < pc[t].cnt
    /\ \/ pc[t].size < HeapLimit[n] /\ HeapServes(t, h)
       \/ /\ pc[t].size < HeapLimit[n] => HeapFails(t, h)
          /\ pc' = [pc EXCEPT ![t].num = n + 1]
          /\ UNCHANGED <<mem, live>>
    /\ UNCHANGED <<made, tableOf, table, count, fast, whole>>

(* Mutant: the heaps are not counted again under the lock. *)
CountedBefore(t) == pc[t].cnt

Counted(t) == count[ProcOf[t]]

(* The number is returned whether there was memory or not.  The other limit,
   the length of the table, is some hundred heaps: memory ends before. *)
CreateHeap(t) ==
    LET p == ProcOf[t]
        n == Counted(t)
    IN
    /\ At(t, "heap") /\ pc[t].num = pc[t].cnt
    /\ \/ /\ n < Heaps
          /\ table' = [table EXCEPT ![tableOf[p]][n] = <<p, n>>]
          /\ mem' = [mem EXCEPT ![<<p, n>>] = EmptyHeap(HeapLimit[n])]
          /\ count' = [count EXCEPT ![p] = n + 1]
       \/ UNCHANGED <<table, mem, count>>
    /\ pc' = [pc EXCEPT ![t].op = "new", ![t].num = n]
    /\ UNCHANGED <<made, tableOf, fast, whole, live>>

(* Without memory for the heap the table holds what was there before; what a
   search in that gives is not the process's ("low").  Another thread may have
   made the heap meanwhile, or used it up. *)
SearchNew(t) ==
    LET h == HeapOf(ProcOf[t], pc[t].num) IN
    /\ At(t, "new")
    /\ \/ h # None /\ HeapServes(t, h)
       \/ h # None /\ HeapFails(t, h) /\ Go(t, "whole") /\ UNCHANGED <<mem, live>>
       \/ h = None /\ Go(t, "whole") /\ UNCHANGED <<mem, live>>
       \/ h = None /\ Go(t, "low") /\ UNCHANGED <<mem, live>>
    /\ UNCHANGED <<made, tableOf, table, count, fast, whole>>

(* __kProcessMalloc, which may fail; it gives whole pages. *)
MallocWhole(t) ==
    LET p == ProcOf[t] IN
    /\ At(t, "whole")
    /\ \/ \E k \in 1 .. Wholes :
             /\ whole[k] = None
             /\ whole' = [whole EXCEPT ![k] = p]
             /\ Served(t, [area |-> Physical(k), addr |-> 1, size |-> Page])
       \/ pc' = [pc EXCEPT ![t] = Idle] /\ UNCHANGED <<whole, live>>
    /\ UNCHANGED <<made, tableOf, table, count, fast, mem>>

-----------------------------------------------------------------------------
(* __free *)

(* Heaps of p that the address may be in *)
Known(p) == {HeapOf(p, n) : n \in 0 .. count[p] - 1}

(* In a heap any address may be freed. *)
Addresses(area) ==
    IF area \in HeapIds THEN 2 .. Len(mem[area])
    ELSE IF area[1] = None THEN {1}
    ELSE UNION {ClassBlocks(k) : k \in DOMAIN Classes}

WholeFree(area) ==
    /\ whole' = [whole EXCEPT ![area[2]] = None]
    /\ UNCHANGED <<mem, fast>>

Areas == HeapIds \cup {FastHeap(p) : p \in Procs} \cup {Physical(k) : k \in 1 .. Wholes}

(* An address in no area the process knows is none of a block of physical
   memory either, and nothing is done. *)
Free(t, area, addr) ==
    LET p == ProcOf[t] IN
    /\ p \in made /\ At(t, "idle")
    /\ \/ area = FastHeap(p) /\ FastFree(p, addr)
       \/ /\ area \in Known(p)
          /\ mem' = [mem EXCEPT ![area] = HeapFree(@, addr)]
          /\ UNCHANGED <<fast, whole>>
       \/ area[1] = None /\ WholeFree(area)
       \/ area \in HeapIds \ Known(p) /\ UNCHANGED <<fast, mem, whole>>
    /\ live' = [live EXCEPT ![p] = {b \in @ : b.area # area \/ b.addr # addr}]
    /\ UNCHANGED <<made, tableOf, table, count, pc>>

-----------------------------------------------------------------------------

Next ==
    \/ \E p \in Procs : InitProcess(p)
    \/ \E t \in Threads :
          \/ SearchHeap(t) \/ CreateHeap(t) \/ SearchNew(t) \/ MallocWhole(t)
          \/ \E s \in Requests : FastAlloc(t, s) \/ FastFails(t, s)
          \/ \E area \in Areas : \E addr \in Addresses(area) : Free(t, area, addr)

Spec == Init /\ [][Next]_vars

-----------------------------------------------------------------------------
(* The blocks of every heap tile it up to memory that is still zero: the two
   tags of each block are the same, and no two free blocks are neighbours. *)
Tiled == \A h \in HeapIds : IsTiled(mem[h])

Located(area, S) == {[area |-> area, addr |-> b.addr, size |-> b.size] : b \in S}

FastBlocks(p) ==
    {[addr |-> b[2], size |-> Classes[b[1]].size] :
        b \in {c \in UNION {{k} \X ClassBlocks(k) : k \in DOMAIN Classes} :
                  MarkOf(c[1], c[2]) \in fast[p]}}

(* What is marked as used, as far as the process can find it *)
Used(p) ==
    Located(FastHeap(p), FastBlocks(p))
    \cup (UNION {Located(h, UsedBlocks(mem[h])) : h \in Known(p)})
    \cup {[area |-> Physical(k), addr |-> 1, size |-> Page] : k \in {j \in 1 .. Wholes : whole[j] = p}}

(* What is marked as used in the heaps a process can find is exactly what the
   process was given: no free of an address it does not have, not even a second
   free, takes a block away, no free misses its block, and of two threads that
   make a heap neither loses the other's. *)
UsedIsLive == \A p \in Procs : live[p] = Used(p)

(* A search of a heap fails only when there is no room - or when a free block
   of size zero hides the room. *)
NoRoomMissed ==
    \A h \in HeapIds, r \in Requests :
        LET m == mem[h] IN
        Found(m, AlignSize(r)) = 0 =>
            \A p \in Room(m, AlignSize(r)) :
                \E q \in Chain(m) : q <= p /\ ~m[q].used /\ m[q].size = 0

(* The used blocks of every area, with their tags, change as a store of blocks
   does. *)
BlocksIn(area) ==
    IF area \in HeapIds THEN {[addr |-> b.addr - 1, size |-> b.size + 2] : b \in UsedBlocks(mem[area])}
    ELSE IF area[1] # None THEN FastBlocks(area[1])
    ELSE IF whole[area[2]] = None THEN {} ELSE {[addr |-> 1, size |-> Page]}

LimitOf(area) ==
    IF area \in HeapIds THEN HeapLimit[area[2]] + 1
    ELSE IF area[1] # None THEN ClassBase[Len(Classes) + 1]
    ELSE Page + 1

Store(area) == INSTANCE BlockStore WITH
    Base <- 0, Limit <- LimitOf(area), store <- BlocksIn(area)

AreaStep(area) ==
    LET before == BlocksIn(area)
        after == BlocksIn(area)'
    IN
    \/ before = after
    \/ \E b \in after \ before : Store(area)!Take(b)
    \/ Store(area)!Give(before \ after)

AreasAreStores ==
    [][/\ \A h \in HeapIds : mem'[h] = mem[h] \/ AreaStep(h)
       /\ UNCHANGED <<fast, whole>> \/ \A area \in Areas \ HeapIds : AreaStep(area)]_vars

(* kernel/test.cpp:27-32 keeps the heaps of a process in an array of its own:
   what __malloc gives from a heap is in one the process made. *)
OwnHeaps ==
    \A p \in Procs : \A b \in live[p] : b.area \in HeapIds => b.area[1] = p

=============================================================================
