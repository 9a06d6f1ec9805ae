---------------------------- MODULE PhysMem_proofs ----------------------------
(***************************************************************************)
(* Proofs about the physical-memory allocator, for any number of tasks,    *)
(* CPUs, descriptors and request sizes.                                    *)
(***************************************************************************)
EXTENDS PhysMem, SequenceTheorems, TLAPS

USE DEF Pcs, PastEnd, CanEnter

-----------------------------------------------------------------------------
(* Unlinking one node leaves the others, in their order (RemoveList and
   RemoveNode of kernel/ListEntry.cpp, read on the sequence of nodes). *)
LEMMA RemoveAtIndex ==
  ASSUME NEW S, NEW s \in Seq(S), NEW i \in 1 .. Len(s)
  PROVE  /\ RemoveAt(s, i) \in Seq(S)
         /\ Len(RemoveAt(s, i)) = Len(s) - 1
         /\ \A j \in 1 .. Len(s) - 1 :
              RemoveAt(s, i)[j] = IF j < i THEN s[j] ELSE s[j + 1]
<1> DEFINE f == SubSeq(s, 1, i - 1)
           g == SubSeq(s, i + 1, Len(s))
<1>0. Len(s) \in Nat /\ i \in Nat
  BY LenProperties
<1>1. f \in Seq(S) /\ Len(f) = i - 1 /\ \A j \in 1 .. i - 1 : f[j] = s[j]
  <2>1. \A j \in 1 .. i - 1 : s[j] \in S
    BY ElementOfSeq
  <2>2. i - 1 \in Int /\ 1 <= i
    OBVIOUS
  <2> QED BY <2>1, <2>2, SubSeqProperties, Z3
<1>2. g \in Seq(S) /\ Len(g) = Len(s) - i /\ \A j \in 1 .. Len(s) - i : g[j] = s[i + j]
  <2>1. CASE i = Len(s)
    BY <2>1, SubSeqEmpty
  <2>2. CASE i < Len(s)
    <3>1. \A j \in i + 1 .. Len(s) : s[j] \in S
      BY ElementOfSeq
    <3>2. i + 1 \in Int /\ Len(s) \in Int /\ i + 1 <= Len(s)
      BY <2>2
    <3> QED BY <3>1, <3>2, SubSeqProperties, Z3
  <2> QED BY <2>1, <2>2
<1> HIDE DEF f, g
<1>3. /\ f \o g \in Seq(S)
      /\ Len(f \o g) = Len(f) + Len(g)
      /\ \A j \in 1 .. Len(f) + Len(g) :
           (f \o g)[j] = IF j <= Len(f) THEN f[j] ELSE g[j - Len(f)]
  BY <1>1, <1>2, ConcatProperties
<1>4. RemoveAt(s, i) = f \o g
  BY DEF RemoveAt, f, g
<1>5. Len(f) + Len(g) = Len(s) - 1
  BY <1>0, <1>1, <1>2
<1>6. ASSUME NEW j \in 1 .. Len(s) - 1
      PROVE  (f \o g)[j] = IF j < i THEN s[j] ELSE s[j + 1]
  <2>1. CASE j < i
    BY <2>1, <1>0, <1>1, <1>3, <1>5
  <2>2. CASE ~(j < i)
    <3>1. j - Len(f) \in 1 .. Len(s) - i /\ i + (j - Len(f)) = j + 1
      BY <2>2, <1>0, <1>1
    <3>2. (f \o g)[j] = g[j - Len(f)]
      BY <2>2, <1>0, <1>1, <1>3, <1>5
    <3>3. g[j - Len(f)] = s[j + 1]
      BY <3>1, <1>2
    <3> QED BY <2>2, <3>2, <3>3
  <2> QED BY <2>1, <2>2
<1> QED BY <1>3, <1>4, <1>5, <1>6, Zenon

-----------------------------------------------------------------------------
(* The ring never has more than one block added or one removed, and the
   scan adds only what isAddrExist found to be free. *)
RingStep ==
    \/ blocks' = blocks
    \/ \E i \in DOMAIN blocks : blocks' = RemoveAt(blocks, i)
    \/ \E b \in Blocks :
         /\ IsFree(b.addr, b.size)
         /\ Base < b.addr /\ End(b) <= Limit
         /\ blocks' = Append(blocks, b)

LEMMA JobFields ==
  ASSUME TypeOK, NEW t \in Actors
  PROVE  /\ job[t] \in Jobs
         /\ job[t].size \in Nat \ {0} /\ job[t].n \in Nat \ {0}
         /\ job[t].for \in Tasks \cup {None} /\ job[t].addr \in Nat
BY DEF TypeOK, Jobs

LEMMA NoJobType == NoJob \in Jobs
BY DEF NoJob, Jobs, ModeNames

LEMMA SlotAboveBase ==
  ASSUME TypeOK, NEW t \in Actors
  PROVE  ScanAddr(t) \in Nat /\ Base < ScanAddr(t)
<1> DEFINE a == job[t].size
           b == job[t].n
<1>1. a \in Nat \ {0} /\ b \in Nat \ {0}
  BY JobFields
<1> HIDE DEF a, b
<1>2. a * b \in Nat /\ a * b > 0
  BY <1>1
<1>3. Base + a * b \in Nat /\ Base < Base + a * b
  BY <1>2, SizeAssumption
<1> QED BY <1>3 DEF a, b, ScanAddr, Slot

LEMMA VidType ==
  ASSUME NEW t \in Actors
  PROVE  Vids(t) \subseteq Tasks \cup {None}
BY DEF Vids, Current, Keepers

LEMMA WhereType ==
  ASSUME NEW a \in Actors
  PROVE  Where(a) \in Cpus
BY TaskAssumption DEF Where, Actors

NewBlock(t, v) == [addr |-> ScanAddr(t), size |-> job[t].size, vid |-> v]

(* Every step changes the ring in one of the three ways. *)
LEMMA NextRingStep ==
  ASSUME TypeOK, [Next]_vars
  PROVE  RingStep
<1>1. CASE UNCHANGED vars
  BY <1>1 DEF vars, RingStep
<1>2. ASSUME NEW t \in Actors, ScanTake(t)
      PROVE  RingStep
  <2>0. PICK v \in Vids(t) : blocks' = Append(blocks, NewBlock(t, v))
    BY <1>2 DEF ScanTake, NewBlock
  <2> DEFINE b == NewBlock(t, v)
  <2>1. b \in Blocks
    BY VidType, JobFields, SlotAboveBase DEF Blocks, NewBlock
  <2>2. /\ IsFree(b.addr, b.size) /\ Base < b.addr
        /\ blocks' = Append(blocks, b)
    BY <1>2, <2>0, SlotAboveBase DEF ScanTake, NewBlock
  <2>3. ScanAddr(t) + job[t].size <= Limit
    BY <1>2, SlotAboveBase, JobFields, SizeAssumption DEF ScanTake
  <2>4. End(b) <= Limit
    BY <2>3 DEF End, NewBlock
  <2> QED BY <2>1, <2>2, <2>4 DEF RingStep
<1>3. ASSUME NEW t \in Actors, Free(t)
      PROVE  RingStep
  BY <1>3 DEF Free, RingStep
<1>4. ASSUME NEW c \in Cpus, NEW t \in Tasks, IrqFree(c, t)
      PROVE  RingStep
  BY <1>4 DEF IrqFree, RingStep
<1>5. ASSUME NEW t \in Tasks, Call(t)
      PROVE  RingStep
  BY <1>5 DEF Call, CallMalloc, CallMinimize, CallFree, Terminate, RingStep
<1>6. ASSUME NEW t \in Actors,
             \/ EnterMem(t) \/ ScanPastEnd(t) \/ ScanNoItem(t)
             \/ \E i \in DOMAIN blocks : ScanSkip(t, i)
             \/ EnterTask(t) \/ Charge(t) \/ LeaveMem(t) \/ InsertTask(t) \/ LeaveTask(t)
      PROVE  RingStep
  BY <1>6 DEF EnterMem, ScanPastEnd, ScanNoItem, ScanSkip, EnterTask, Charge,
              LeaveMem, InsertTask, LeaveTask, RingStep
<1>7. ASSUME NEW c \in Cpus,
             \/ IrqEnter(c) \/ IrqEnterMem(c) \/ IrqLeave(c) \/ Ipi(c)
             \/ \E t \in Tasks : IrqDropThread(c, t)
      PROVE  RingStep
  BY <1>7 DEF IrqEnter, IrqEnterMem, IrqLeave, IrqDropThread, Ipi, IpiEnter, RingStep
<1> QED BY <1>1, <1>2, <1>3, <1>4, <1>5, <1>6, <1>7, Zenon DEF Next, Work, Irq

-----------------------------------------------------------------------------
(* Types *)

LEMMA TypeInit == Init => TypeOK
<1> SUFFICES ASSUME Init PROVE TypeOK
  OBVIOUS
<1>1. blocks \in Seq(Blocks)
  BY EmptySeq DEF Init
<1>2. job \in [Actors -> Jobs]
  BY NoJobType DEF Init
<1> QED BY <1>1, <1>2, TaskAssumption DEF Init, TypeOK

LEMMA BlocksType ==
  ASSUME TypeOK, RingStep
  PROVE  blocks' \in Seq(Blocks)
<1>0. blocks \in Seq(Blocks)
  BY DEF TypeOK
<1>1. CASE blocks' = blocks
  BY <1>0, <1>1
<1>2. ASSUME NEW i \in DOMAIN blocks, blocks' = RemoveAt(blocks, i)
      PROVE  blocks' \in Seq(Blocks)
  BY <1>0, <1>2, LenProperties, RemoveAtIndex
<1>3. ASSUME NEW b \in Blocks, blocks' = Append(blocks, b)
      PROVE  blocks' \in Seq(Blocks)
  BY <1>0, <1>3, AppendProperties
<1> QED BY <1>1, <1>2, <1>3 DEF RingStep

LEMMA AdvanceType ==
  ASSUME NEW n \in Nat \ {0}, NEW b \in Blocks, NEW size \in Nat \ {0}
  PROVE  Advance(n, b, size) \in Nat \ {0}
<1>1. b.size \in Nat \ {0}
  BY DEF Blocks
<1>2. b.size \div size \in Nat
  BY <1>1
<1> QED BY <1>1, <1>2 DEF Advance

LEMMA TypeNext == TypeOK /\ [Next]_vars => TypeOK'
<1> SUFFICES ASSUME TypeOK, [Next]_vars PROVE TypeOK'
  OBVIOUS
<1>0. blocks' \in Seq(Blocks)
  BY NextRingStep, BlocksType
<1>1. CASE UNCHANGED vars
  BY <1>0, <1>1 DEF vars, TypeOK
<1>a. ASSUME NEW t \in Actors, NEW s \in Requests, NEW mode \in ModeNames, NEW f \in Tasks,
             Ask(t, s, mode, f)
      PROVE  job' \in [Actors -> Jobs] /\ pc' \in [Actors -> Pcs]
  <2> DEFINE r == [NoJob EXCEPT !.op = "malloc", !.mode = mode, !.for = f,
                                !.size = BlockSize(s)]
  <2>1. r \in Jobs
    <3>1. NoJob \in Jobs
      BY NoJobType
    <3>2. BlockSize(s) \in Nat \ {0}
      BY SizeAssumption
    <3> HIDE DEF NoJob
    <3> QED BY <3>1, <3>2 DEF Jobs
  <2>2. job' = [job EXCEPT ![t] = r]
    BY <1>a, Zenon DEF Ask
  <2> HIDE DEF r
  <2>3. job' \in [Actors -> Jobs]
    BY <2>1, <2>2 DEF TypeOK
  <2> QED BY <1>a, <2>3 DEF Ask, TypeOK
<1>b. ASSUME NEW t \in Actors, Finish(t)
      PROVE  /\ job' \in [Actors -> Jobs] /\ pc' \in [Actors -> Pcs]
             /\ irq' \in [Cpus -> {"out", "reap", "freeing", "ipi"}]
  <2>1. job' \in [Actors -> Jobs]
    BY <1>b, NoJobType DEF Finish, TypeOK
  <2> QED BY <1>b, <2>1 DEF Finish, TypeOK
<1>2. ASSUME NEW t \in Tasks, NEW s \in Requests, NEW mode \in Modes, NEW f \in Tasks,
             CallMalloc(t, s, mode, f)
      PROVE  TypeOK'
  <2>1. job' \in [Actors -> Jobs] /\ pc' \in [Actors -> Pcs]
    BY <1>a, <1>2, SizeAssumption DEF CallMalloc, Actors
  <2> QED BY <1>0, <1>2, <2>1 DEF CallMalloc, TypeOK
<1>2a. ASSUME NEW t \in Tasks, NEW s \in Requests, CallMinimize(t, s)
       PROVE  TypeOK'
  <2>1. job' \in [Actors -> Jobs] /\ pc' \in [Actors -> Pcs]
    BY <1>a, <1>2a, TaskAssumption DEF CallMinimize, Actors, ModeNames
  <2> QED BY <1>0, <1>2a, <2>1 DEF CallMinimize, TypeOK
<1>2b. ASSUME NEW c \in Cpus, NEW s \in Requests, NEW f \in Tasks, IpiEnter(c, s, f)
       PROVE  TypeOK'
  <2>1. job' \in [Actors -> Jobs] /\ pc' \in [Actors -> Pcs]
    BY <1>a, <1>2b DEF IpiEnter, Actors, ModeNames
  <2> QED BY <1>0, <1>2b, <2>1 DEF IpiEnter, TypeOK
<1>3. ASSUME NEW t \in Tasks, NEW a \in held[PidOf[t]], CallFree(t, a)
      PROVE  TypeOK'
  <2>1. PidOf[t] \in Tasks
    BY TaskAssumption
  <2>2. a \in Nat
    BY <2>1 DEF TypeOK
  <2> DEFINE r == [NoJob EXCEPT !.op = "free", !.addr = a]
  <2>3. r \in Jobs
    <3>1. NoJob \in Jobs
      BY NoJobType
    <3> QED BY <3>1, <2>2 DEF Jobs
  <2>4. job' = [job EXCEPT ![t] = r]
    BY <1>3, Zenon DEF CallFree
  <2> HIDE DEF r
  <2>5. job' \in [Actors -> Jobs]
    BY <2>3, <2>4 DEF TypeOK
  <2>6. held' \in [Tasks -> SUBSET Nat]
    BY <1>3, <2>1 DEF CallFree, TypeOK
  <2> QED BY <1>0, <1>3, <2>5, <2>6 DEF CallFree, TypeOK
<1>4. ASSUME NEW t \in Tasks, Terminate(t)
      PROVE  TypeOK'
  BY <1>0, <1>4 DEF Terminate, TypeOK
<1>5. ASSUME NEW t \in Actors, EnterMem(t) \/ ScanPastEnd(t) \/ ScanNoItem(t)
      PROVE  TypeOK'
  BY <1>0, <1>5 DEF EnterMem, ScanPastEnd, ScanNoItem, TypeOK, Actors
<1>6. ASSUME NEW t \in Actors, NEW i \in DOMAIN blocks, ScanSkip(t, i)
      PROVE  TypeOK'
  <2>1. blocks[i] \in Blocks
    BY ElementOfSeq, LenProperties DEF TypeOK
  <2>2. Advance(job[t].n, blocks[i], job[t].size) \in Nat \ {0}
    BY <2>1, JobFields, AdvanceType
  <2>3. job' \in [Actors -> Jobs]
    <3>1. [job[t] EXCEPT !.n = Advance(job[t].n, blocks[i], job[t].size)] \in Jobs
      BY <2>2, JobFields DEF Jobs
    <3> QED BY <1>6, <3>1 DEF ScanSkip, TypeOK
  <2> QED BY <1>0, <1>6, <2>3 DEF ScanSkip, TypeOK
<1>7. ASSUME NEW t \in Actors, ScanTake(t)
      PROVE  TypeOK'
  <2>1. job' \in [Actors -> Jobs]
    <3>1. [job[t] EXCEPT !.addr = ScanAddr(t)] \in Jobs
      BY SlotAboveBase, JobFields DEF Jobs
    <3> QED BY <1>7, <3>1 DEF ScanTake, TypeOK
  <2> QED BY <1>0, <1>7, <2>1 DEF ScanTake, TypeOK
<1>8. ASSUME NEW t \in Actors, EnterTask(t) \/ Charge(t)
      PROVE  TypeOK'
  <2>2. taskLock' \in [Cpus -> Tasks \cup Cpus \cup {None}]
    BY <1>8, WhereType DEF EnterTask, Charge, TypeOK, Actors
  <2>3. pc' \in [Actors -> Pcs]
    BY <1>8 DEF EnterTask, Charge, TypeOK
  <2> QED BY <1>0, <1>8, <2>2, <2>3 DEF EnterTask, Charge, TypeOK
<1>9. ASSUME NEW t \in Actors, Free(t)
      PROVE  TypeOK'
  BY <1>0, <1>9 DEF Free, TypeOK
<1>10. ASSUME NEW t \in Actors, LeaveMem(t)
       PROVE  TypeOK'
  <2>1. /\ job' \in [Actors -> Jobs] /\ pc' \in [Actors -> Pcs]
        /\ irq' \in [Cpus -> {"out", "reap", "freeing", "ipi"}]
    <3>1. CASE Finish(t)
      BY <1>b, <3>1
    <3>2. CASE ~Finish(t)
      BY <1>10, <3>2 DEF LeaveMem, TypeOK
    <3> QED BY <3>1, <3>2
  <2>2. held' \in [Tasks -> SUBSET Nat]
    <3> DEFINE f == job[t].for
               a == job[t].addr
    <3>1. a \in Nat /\ held \in [Tasks -> SUBSET Nat]
      BY JobFields DEF TypeOK
    <3>2. held' = held \/ held' = [held EXCEPT ![f] = @ \cup {a}]
      BY <1>10 DEF LeaveMem
    <3> QED BY <3>1, <3>2
  <2> QED BY <1>0, <1>10, <2>1, <2>2 DEF LeaveMem, TypeOK
<1>10a. ASSUME NEW t \in Actors, InsertTask(t)
        PROVE  TypeOK'
  <2>1. /\ job' \in [Actors -> Jobs] /\ pc' \in [Actors -> Pcs]
        /\ irq' \in [Cpus -> {"out", "reap", "freeing", "ipi"}]
    BY <1>b, <1>10a DEF InsertTask
  <2> QED BY <1>0, <1>10a, <2>1 DEF InsertTask, TypeOK
<1>10b. ASSUME NEW t \in Actors, LeaveTask(t)
        PROVE  TypeOK'
  <2>1. /\ job' \in [Actors -> Jobs] /\ pc' \in [Actors -> Pcs]
        /\ irq' \in [Cpus -> {"out", "reap", "freeing", "ipi"}]
    BY <1>b, <1>10b DEF LeaveTask
  <2> QED BY <1>0, <1>10b, <2>1 DEF LeaveTask, TypeOK
<1>11. ASSUME NEW c \in Cpus, IrqEnter(c) \/ IrqEnterMem(c) \/ IrqLeave(c)
       PROVE  TypeOK'
  BY <1>0, <1>11 DEF IrqEnter, IrqEnterMem, IrqLeave, TypeOK
<1>12. ASSUME NEW c \in Cpus, NEW t \in Tasks, IrqDropThread(c, t) \/ IrqFree(c, t)
       PROVE  TypeOK'
  BY <1>0, <1>12 DEF IrqDropThread, IrqFree, TypeOK
<1> QED BY <1>1, <1>2, <1>2a, <1>2b, <1>3, <1>4, <1>5, <1>6, <1>7, <1>8, <1>9, <1>10,
           <1>10a, <1>10b, <1>11, <1>12, Zenon DEF Next, Call, Work, Irq, Ipi

(* The variables keep their types: in particular every block that is ever
   recorded has a positive size, and no scan leaves the naturals. *)
THEOREM TypeCorrect == Spec => []TypeOK
BY TypeInit, TypeNext, PTL DEF Spec

-----------------------------------------------------------------------------
(* Disjointness *)

(* The three tests of isAddrExist together miss no overlap. *)
LEMMA FreeIsApart ==
  ASSUME NEW b \in Blocks, NEW front \in Nat, NEW size \in Nat \ {0},
         ~Meets(b, front, size)
  PROVE  End(b) <= front \/ front + size <= b.addr
<1>1. b.addr \in Nat /\ b.size \in Nat \ {0}
  BY DEF Blocks
<1> QED BY <1>1 DEF Meets, End

LEMMA BlockAt ==
  ASSUME TypeOK, NEW i \in DOMAIN blocks
  PROVE  /\ blocks[i] \in Blocks
         /\ blocks[i].addr \in Nat /\ blocks[i].size \in Nat \ {0}
         /\ End(blocks[i]) \in Nat
<1>1. blocks[i] \in Blocks
  BY ElementOfSeq, LenProperties DEF TypeOK
<1> QED BY <1>1 DEF Blocks, End

(* The block at a place of the new ring was at a place of the old one, and
   different places come from different places - or it is the new block. *)
LEMMA RemovedFrom ==
  ASSUME TypeOK, NEW k \in DOMAIN blocks, blocks' = RemoveAt(blocks, k)
  PROVE  /\ DOMAIN blocks' = 1 .. Len(blocks) - 1
         /\ \A i \in DOMAIN blocks' :
              LET j == IF i < k THEN i ELSE i + 1
              IN  j \in DOMAIN blocks /\ blocks'[i] = blocks[j] /\ j # k
<1>1. blocks \in Seq(Blocks) /\ DOMAIN blocks = 1 .. Len(blocks) /\ Len(blocks) \in Nat
  BY LenProperties DEF TypeOK
<1>2. /\ blocks' \in Seq(Blocks)
      /\ Len(blocks') = Len(blocks) - 1
      /\ \A j \in 1 .. Len(blocks) - 1 :
           blocks'[j] = IF j < k THEN blocks[j] ELSE blocks[j + 1]
  BY <1>1, RemoveAtIndex
<1>3. DOMAIN blocks' = 1 .. Len(blocks) - 1
  BY <1>2, LenProperties
<1> QED BY <1>1, <1>2, <1>3

LEMMA AppendedTo ==
  ASSUME TypeOK, NEW b \in Blocks, blocks' = Append(blocks, b)
  PROVE  /\ DOMAIN blocks' = 1 .. Len(blocks) + 1
         /\ DOMAIN blocks = 1 .. Len(blocks) /\ Len(blocks) \in Nat
         /\ \A i \in DOMAIN blocks : blocks'[i] = blocks[i]
         /\ blocks'[Len(blocks) + 1] = b
<1>1. blocks \in Seq(Blocks) /\ DOMAIN blocks = 1 .. Len(blocks) /\ Len(blocks) \in Nat
  BY LenProperties DEF TypeOK
<1>2. blocks' \in Seq(Blocks) /\ Len(blocks') = Len(blocks) + 1
  BY <1>1, AppendProperties
<1>3. DOMAIN blocks' = 1 .. Len(blocks) + 1
  BY <1>2, LenProperties
<1> QED BY <1>1, <1>3, AppendProperties

LEMMA DisjointNext ==
  ASSUME TypeOK, BlocksDisjoint, RingStep
  PROVE  BlocksDisjoint'
<1>1. CASE blocks' = blocks
  BY <1>1 DEF BlocksDisjoint
<1>2. ASSUME NEW k \in DOMAIN blocks, blocks' = RemoveAt(blocks, k)
      PROVE  BlocksDisjoint'
  <2> SUFFICES ASSUME NEW i \in DOMAIN blocks', NEW j \in DOMAIN blocks', i # j
               PROVE  \/ End(blocks'[i]) <= blocks'[j].addr
                      \/ End(blocks'[j]) <= blocks'[i].addr
    BY DEF BlocksDisjoint, End
  <2> DEFINE m == IF i < k THEN i ELSE i + 1
             n == IF j < k THEN j ELSE j + 1
  <2>1. /\ m \in DOMAIN blocks /\ blocks'[i] = blocks[m]
        /\ n \in DOMAIN blocks /\ blocks'[j] = blocks[n]
    BY <1>2, RemovedFrom
  <2>2. m # n
    <3>1. i \in Int /\ j \in Int /\ k \in Int
      BY <1>2, RemovedFrom, LenProperties DEF TypeOK
    <3> QED BY <3>1
  <2> HIDE DEF m, n
  <2> QED BY <2>1, <2>2 DEF BlocksDisjoint
<1>3. ASSUME NEW b \in Blocks, IsFree(b.addr, b.size), blocks' = Append(blocks, b)
      PROVE  BlocksDisjoint'
  <2>1. b.addr \in Nat /\ b.size \in Nat \ {0}
    BY DEF Blocks
  <2>2. \A i \in DOMAIN blocks : End(blocks[i]) <= b.addr \/ End(b) <= blocks[i].addr
    BY <1>3, <2>1, BlockAt, FreeIsApart DEF IsFree, MetBy, End
  <2> SUFFICES ASSUME NEW i \in DOMAIN blocks', NEW j \in DOMAIN blocks', i # j
               PROVE  \/ End(blocks'[i]) <= blocks'[j].addr
                      \/ End(blocks'[j]) <= blocks'[i].addr
    BY DEF BlocksDisjoint, End
  <2>3. /\ i \in DOMAIN blocks \/ i = Len(blocks) + 1
        /\ j \in DOMAIN blocks \/ j = Len(blocks) + 1
    BY <1>3, AppendedTo
  <2>4. CASE i \in DOMAIN blocks /\ j \in DOMAIN blocks
    BY <1>3, <2>4, AppendedTo DEF BlocksDisjoint
  <2>5. CASE i \in DOMAIN blocks /\ j = Len(blocks) + 1
    BY <1>3, <2>2, <2>5, AppendedTo
  <2>6. CASE i = Len(blocks) + 1 /\ j \in DOMAIN blocks
    BY <1>3, <2>2, <2>6, AppendedTo
  <2> QED BY <2>3, <2>4, <2>5, <2>6
<1> QED BY <1>1, <1>2, <1>3 DEF RingStep

(* No byte of memory ever belongs to two blocks, for any mix of sizes and
   any order of allocations, frees and process deaths on any number of CPUs. *)
THEOREM Disjointness == Spec => []BlocksDisjoint
<1>1. Init => BlocksDisjoint
  BY DEF Init, BlocksDisjoint
<1>2. TypeOK /\ BlocksDisjoint /\ [Next]_vars => BlocksDisjoint'
  BY NextRingStep, DisjointNext
<1> QED BY <1>1, <1>2, TypeCorrect, PTL DEF Spec

-----------------------------------------------------------------------------
(* The arena *)

LEMMA ArenaNext ==
  ASSUME TypeOK, BlocksInArena, RingStep
  PROVE  BlocksInArena'
<1>1. CASE blocks' = blocks
  BY <1>1 DEF BlocksInArena
<1>2. ASSUME NEW k \in DOMAIN blocks, blocks' = RemoveAt(blocks, k)
      PROVE  BlocksInArena'
  BY <1>2, RemovedFrom DEF BlocksInArena, End
<1>3. ASSUME NEW b \in Blocks, Base < b.addr, End(b) <= Limit,
             blocks' = Append(blocks, b)
      PROVE  BlocksInArena'
  BY <1>3, AppendedTo DEF BlocksInArena, End
<1> QED BY <1>1, <1>2, <1>3 DEF RingStep

(* Every block lies above the base and below the end of the memory that the
   firmware reported, for every request size. *)
THEOREM InArena == Spec => []BlocksInArena
<1>1. Init => BlocksInArena
  BY DEF Init, BlocksInArena
<1>2. TypeOK /\ BlocksInArena /\ [Next]_vars => BlocksInArena'
  BY NextRingStep, ArenaNext
<1> QED BY <1>1, <1>2, TypeCorrect, PTL DEF Spec

-----------------------------------------------------------------------------
(* The lock *)

(* A CPU is in the allocator as its IPI's handler only. *)
Handlers == \A c \in Cpus : pc[c] # "idle" <=> irq[c] = "ipi"

LEMMA HandlersNext ==
  ASSUME TypeOK, Handlers, [Next]_vars
  PROVE  Handlers'
<1> USE DEF Handlers
<1>0. Tasks \cap Cpus = {}
  BY TaskAssumption
<1>1. CASE UNCHANGED vars
  BY <1>1 DEF vars
<1>2. ASSUME NEW t \in Tasks, Call(t)
      PROVE  Handlers'
  BY <1>0, <1>2 DEF Call, CallMalloc, CallMinimize, CallFree, Terminate, Ask, TypeOK, Actors
<1>3. ASSUME NEW c \in Cpus, NEW s \in Requests, NEW f \in Tasks, IpiEnter(c, s, f)
      PROVE  Handlers'
  BY <1>3 DEF IpiEnter, Ask, TypeOK, Actors
<1>4. ASSUME NEW a \in Actors, Work(a), ~Finish(a)
      PROVE  Handlers'
  <2>1. /\ irq' = irq /\ pc[a] # "idle" /\ pc'[a] # "idle"
        /\ \A c \in Cpus \ {a} : pc'[c] = pc[c]
    BY <1>4 DEF Work, EnterMem, ScanPastEnd, ScanNoItem, ScanSkip, ScanTake, EnterTask,
                Charge, Free, LeaveMem, InsertTask, LeaveTask, TypeOK, Actors
  <2> QED BY <2>1
<1>5. ASSUME NEW a \in Actors, Finish(a)
      PROVE  Handlers'
  BY <1>5 DEF Finish, TypeOK, Actors
<1>6. ASSUME NEW c \in Cpus, Irq(c)
      PROVE  Handlers'
  BY <1>6 DEF Irq, IrqEnter, IrqEnterMem, IrqLeave, IrqDropThread, IrqFree, TypeOK
<1> QED BY <1>1, <1>2, <1>3, <1>4, <1>5, <1>6, Zenon DEF Next, Ipi

(* Only the holder is past the lock, and it enters when nobody holds it. *)
LEMMA ExclusiveNext ==
  ASSUME TypeOK, RingExclusive, Handlers, [Next]_vars
  PROVE  RingExclusive'
<1> USE DEF RingExclusive, InMem
<1>0. None \notin Tasks /\ None \notin Cpus /\ Tasks \cap Cpus = {} /\ None \notin Actors
  BY TaskAssumption DEF Actors
<1>1. CASE UNCHANGED vars
  BY <1>1 DEF vars
<1>2. ASSUME NEW t \in Tasks, Call(t)
      PROVE  RingExclusive'
  BY <1>2 DEF Call, CallMalloc, CallMinimize, CallFree, Terminate, Ask, TypeOK, Actors
<1>2a. ASSUME NEW c \in Cpus, NEW s \in Requests, NEW f \in Tasks, IpiEnter(c, s, f)
       PROVE  RingExclusive'
  BY <1>2a DEF IpiEnter, Ask, TypeOK, Actors
<1>3. ASSUME NEW t \in Actors, EnterMem(t)
      PROVE  RingExclusive'
  BY <1>0, <1>3 DEF EnterMem, TypeOK, Actors
<1>4. ASSUME NEW t \in Actors, ScanPastEnd(t) \/ ScanNoItem(t) \/ EnterTask(t) \/ Charge(t)
      PROVE  RingExclusive'
  BY <1>4 DEF ScanPastEnd, ScanNoItem, EnterTask, Charge, TypeOK
<1>5. ASSUME NEW t \in Actors,
             \/ \E i \in DOMAIN blocks : ScanSkip(t, i)
             \/ ScanTake(t)
             \/ Free(t)
      PROVE  RingExclusive'
  BY <1>5 DEF ScanSkip, ScanTake, Free, TypeOK
<1>6. ASSUME NEW t \in Actors, LeaveMem(t)
      PROVE  RingExclusive'
  <2>1. memLock = t
    BY <1>6 DEF LeaveMem
  <2>2. /\ \A u \in Actors \ {t} : pc'[u] = pc[u]
        /\ pc'[t] \in {"idle", "insert", "unlist"}
        /\ \A c \in Cpus : irq'[c] = "freeing" => irq[c] = "freeing" /\ c # t
    <3>1. \A c \in Cpus : irq[c] = "freeing" => c # t
      BY <1>6 DEF LeaveMem, Handlers
    <3> QED BY <1>6, <3>1 DEF LeaveMem, Finish, TypeOK
  <2>3. \A u \in Actors : pc'[u] \in {"scan", "free", "charge", "chargelocked", "leave"} => FALSE
    BY <2>1, <2>2
  <2>4. \A c \in Cpus : irq'[c] # "freeing"
    BY <2>1, <2>2
  <2> QED BY <2>3, <2>4
<1>6a. ASSUME NEW t \in Actors, InsertTask(t) \/ LeaveTask(t)
       PROVE  RingExclusive'
  BY <1>6a DEF InsertTask, LeaveTask, Finish, TypeOK
<1>7. ASSUME NEW c \in Cpus, IrqEnter(c) \/ IrqLeave(c) \/ \E t \in Tasks : IrqDropThread(c, t)
      PROVE  RingExclusive'
  BY <1>7 DEF IrqEnter, IrqLeave, IrqDropThread, TypeOK
<1>8. ASSUME NEW c \in Cpus, IrqEnterMem(c)
      PROVE  RingExclusive'
  BY <1>0, <1>8 DEF IrqEnterMem, TypeOK
<1>9. ASSUME NEW c \in Cpus, NEW t \in Tasks, IrqFree(c, t)
      PROVE  RingExclusive'
  <2>1. memLock = c /\ pc[c] = "idle" /\ pc' = pc
    BY <1>9 DEF IrqFree, Handlers
  <2>2. \A u \in Actors : pc'[u] \in {"scan", "free", "charge", "chargelocked", "leave"} => FALSE
    BY <2>1
  <2>3. \A d \in Cpus : irq'[d] # "freeing"
    BY <1>9, <2>1 DEF IrqFree, TypeOK
  <2> QED BY <2>2, <2>3
<1> QED BY <1>1, <1>2, <1>2a, <1>3, <1>4, <1>5, <1>6, <1>6a, <1>7, <1>8, <1>9, Zenon
        DEF Next, Work, Irq, Ipi

(* Whoever works on the ring is the one holder of gMemAllocLock: two tasks,
   two CPUs or a task and an interrupt are never past the lock together. *)
THEOREM Exclusion == Spec => []RingExclusive
<1>1. Init => RingExclusive /\ Handlers
  BY DEF Init, RingExclusive, InMem, Handlers, Actors
<1>2. TypeOK /\ RingExclusive /\ Handlers /\ [Next]_vars => RingExclusive' /\ Handlers'
  BY ExclusiveNext, HandlersNext
<1> QED BY <1>1, <1>2, TypeCorrect, PTL DEF Spec

LEMMA HandlersAlways == Spec => []Handlers
<1>1. Init => Handlers
  BY DEF Init, Handlers, Actors
<1>2. TypeOK /\ Handlers /\ [Next]_vars => Handlers'
  BY HandlersNext
<1> QED BY <1>1, <1>2, TypeCorrect, PTL DEF Spec

-----------------------------------------------------------------------------
(* Refinement *)

StoreOf == {[addr |-> blocks[i].addr, size |-> blocks[i].size] : i \in DOMAIN blocks}

(* A removal gives back one block or, when another block has the same
   start and size, none; nothing else changes. *)
LEMMA RemoveRefines ==
  ASSUME TypeOK, NEW k \in DOMAIN blocks, blocks' = RemoveAt(blocks, k)
  PROVE  StoreOf' \subseteq StoreOf
<1> SUFFICES ASSUME NEW i \in DOMAIN blocks'
             PROVE  [addr |-> blocks'[i].addr, size |-> blocks'[i].size] \in StoreOf
  BY DEF StoreOf
<1>1. \E j \in DOMAIN blocks : blocks'[i] = blocks[j]
  BY RemovedFrom
<1> QED BY <1>1 DEF StoreOf

LEMMA AppendRefines ==
  ASSUME TypeOK, NEW b \in Blocks, blocks' = Append(blocks, b)
  PROVE  StoreOf' = StoreOf \cup {[addr |-> b.addr, size |-> b.size]}
<1> DEFINE e(x) == [addr |-> x.addr, size |-> x.size]
<1>1. \A i \in DOMAIN blocks : i \in DOMAIN blocks' /\ blocks'[i] = blocks[i]
  BY AppendedTo
<1>2. /\ Len(blocks) + 1 \in DOMAIN blocks'
      /\ blocks'[Len(blocks) + 1] = b
      /\ \A i \in DOMAIN blocks' : i \in DOMAIN blocks \/ i = Len(blocks) + 1
  BY AppendedTo
<1>3. StoreOf' = {e(blocks'[i]) : i \in DOMAIN blocks'}
  BY DEF StoreOf
<1>4. StoreOf = {e(blocks[i]) : i \in DOMAIN blocks}
  BY DEF StoreOf
<1> HIDE DEF e
<1>5. {e(blocks'[i]) : i \in DOMAIN blocks'} = {e(blocks[i]) : i \in DOMAIN blocks} \cup {e(b)}
  BY <1>1, <1>2
<1> QED BY <1>3, <1>4, <1>5 DEF e

LEMMA StepRefines ==
  ASSUME TypeOK, RingStep
  PROVE  [Store!Next]_StoreOf
<1>1. CASE blocks' = blocks
  BY <1>1 DEF StoreOf
<1>2. ASSUME NEW k \in DOMAIN blocks, blocks' = RemoveAt(blocks, k)
      PROVE  Store!Next
  <2>1. StoreOf' = StoreOf \ (StoreOf \ StoreOf') /\ StoreOf \ StoreOf' \in SUBSET StoreOf
    BY <1>2, RemoveRefines
  <2>2. \E S \in SUBSET StoreOf : StoreOf' = StoreOf \ S
    BY <2>1
  <2> QED BY <2>2, Zenon DEF Store!Next, Store!Give, StoreOf
<1>3. ASSUME NEW b \in Blocks, IsFree(b.addr, b.size), Base < b.addr, End(b) <= Limit,
             blocks' = Append(blocks, b)
      PROVE  Store!Next
  <2> DEFINE e == [addr |-> b.addr, size |-> b.size]
  <2>0. /\ b.addr \in Nat /\ b.size \in Nat \ {0}
        /\ b.addr + b.size <= Limit /\ Base \in Nat /\ Limit \in Nat
    BY <1>3, SizeAssumption DEF Blocks, End
  <2>1. b.addr \in 1 .. Limit /\ b.size \in 1 .. Limit
    BY <1>3, <2>0
  <2>2. Store!Fits(e)
    BY <1>3, <2>0 DEF Store!Fits
  <2>3. \A i \in DOMAIN blocks :
          Store!Apart(e, [addr |-> blocks[i].addr, size |-> blocks[i].size])
    <3> SUFFICES ASSUME NEW i \in DOMAIN blocks
                 PROVE  \/ b.addr + b.size <= blocks[i].addr
                        \/ blocks[i].addr + blocks[i].size <= b.addr
      BY DEF Store!Apart
    <3>1. ~Meets(blocks[i], b.addr, b.size)
      BY <1>3 DEF IsFree, MetBy
    <3> QED BY <2>0, <3>1, BlockAt, FreeIsApart DEF End
  <2>4. \A d \in StoreOf : Store!Apart(e, d)
    BY <2>3 DEF StoreOf
  <2>5. StoreOf' = StoreOf \cup {e}
    BY <1>3, AppendRefines
  <2>6. Store!Take(e)
    BY <2>2, <2>4, <2>5 DEF Store!Take, StoreOf
  <2> QED BY <2>1, <2>6 DEF Store!Next
<1> QED BY <1>1, <1>2, <1>3 DEF RingStep

(* The allocator, with its locks, its scan and its reaper, implements the
   abstract store of disjoint blocks. *)
THEOREM ImplementsStore == Spec => StoreSpec
<1>1. Init => Store!Init
  <2>1. Init => StoreOf = {}
    BY DEF Init, StoreOf
  <2> QED BY <2>1 DEF Store!Init, StoreOf
<1>2. TypeOK /\ [Next]_vars => [Store!Next]_StoreOf
  BY NextRingStep, StepRefines
<1> QED BY <1>1, <1>2, TypeCorrect, PTL DEF Spec, StoreSpec, Store!Spec, StoreOf

-----------------------------------------------------------------------------
(* The scan.  It moves only while the ring stands still, and it never stands
   inside a longer block but at its start: so the slots it jumps over are
   those the block it met covers, neither fewer nor more. *)

Sizes == {BlockSize(s) : s \in Requests}

Asking(t) == pc[t] = "scan" \/ (pc[t] = "lock" /\ job[t].op = "malloc")

(* Every block is a slot of its size, every request is for such a size and
   its scan begins at the first slot. *)
Aligned ==
    /\ \A i \in DOMAIN blocks :
          /\ blocks[i].size \in Sizes
          /\ \E q \in Nat \ {0} : blocks[i].addr = Slot(blocks[i].size, q)
    /\ \A t \in Actors : Asking(t) => job[t].size \in Sizes
    /\ \A t \in Actors : pc[t] = "lock" => job[t].n = 1

AtStart(t) ==
    \A i \in DOMAIN blocks :
        blocks[i].size > job[t].size /\ Meets(blocks[i], ScanAddr(t), job[t].size) =>
            blocks[i].addr = ScanAddr(t)

Passed(t) == \A k \in 1 .. job[t].n - 1 : ~IsFree(Slot(job[t].size, k), job[t].size)

ScanInv ==
    /\ Aligned
    /\ \A t \in Actors : pc[t] = "scan" => AtStart(t) /\ Passed(t)

LEMMA MeetsIsOverlap ==
  ASSUME NEW b \in Blocks, NEW front \in Nat, NEW size \in Nat \ {0}
  PROVE  Meets(b, front, size) <=> b.addr < front + size /\ front < End(b)
<1>1. b.addr \in Nat /\ b.size \in Nat \ {0}
  BY DEF Blocks
<1> QED BY <1>1 DEF Meets, End

LEMMA TimesOrder ==
  ASSUME NEW s \in Nat \ {0}, NEW x \in Nat, NEW y \in Nat
  PROVE  /\ s * x \in Nat /\ s * y \in Nat
         /\ x < y => s * x + s <= s * y
         /\ x <= y => s * x <= s * y
<1>1. s * x \in Nat /\ s * y \in Nat
  OBVIOUS
<1>2. ASSUME x <= y PROVE s * x <= s * y
  <2>1. y = x + (y - x) /\ y - x \in Nat
    BY <1>2
  <2>2. s * y = s * x + s * (y - x) /\ s * (y - x) \in Nat
    BY <2>1
  <2> QED BY <1>1, <2>2
<1>3. ASSUME x < y PROVE s * x + s <= s * y
  <2>1. y - (x + 1) \in Nat /\ y = (x + 1) + (y - (x + 1))
    BY <1>3
  <2>2. s * y = s * (x + 1) + s * (y - (x + 1)) /\ s * (y - (x + 1)) \in Nat
    BY <2>1
  <2>3. s * (x + 1) = s * x + s
    OBVIOUS
  <2> QED BY <1>1, <2>2, <2>3
<1> QED BY <1>1, <1>2, <1>3

LEMMA SizeType ==
  ASSUME NEW s \in Sizes
  PROVE  s \in Nat \ {0}
BY SizeAssumption DEF Sizes

(* A longer block covers a whole number of slots. *)
LEMMA LongerBlock ==
  ASSUME NEW b \in Blocks, b.size \in Sizes, NEW s \in Sizes, s < b.size,
         NEW q \in Nat \ {0}, b.addr = Slot(b.size, q)
  PROVE  /\ b.size % s = 0 /\ b.size \div s \in Nat
         /\ \E x \in Nat :
              /\ 2 <= x /\ b.addr = Slot(s, x)
              /\ \A k \in Nat : Meets(b, Slot(s, k), s) <=> x <= k /\ k < x + b.size \div s
<1> DEFINE d == b.size \div s
           x == d * q
<1>0. s \in Nat \ {0} /\ b.size \in Nat \ {0} /\ Base \in Nat
  BY SizeType, SizeAssumption
<1>1. b.size % s = 0
  BY SizeAssumption DEF Sizes
<1>2. d \in Nat /\ b.size = s * d
  BY <1>0, <1>1
<1> HIDE DEF d
<1>3. d >= 2
  <2>1. d # 0 /\ d # 1
    BY <1>0, <1>2
  <2> QED BY <1>2, <2>1
<1>4. x \in Nat /\ x >= 2
  <2>1. q = 1 + (q - 1) /\ q - 1 \in Nat
    OBVIOUS
  <2>2. d * q = d + d * (q - 1) /\ d * (q - 1) \in Nat
    BY <1>2, <2>1
  <2> QED BY <1>2, <1>3, <2>2
<1>5. b.addr = Base + s * x
  <2>1. b.size * q = s * (d * q)
    BY <1>0, <1>2
  <2> QED BY <2>1 DEF Slot
<1> HIDE DEF x
<1>6. End(b) = Base + s * (x + d)
  <2>1. s * (x + d) = s * x + s * d
    BY <1>0, <1>2, <1>4
  <2>2. s * x \in Nat /\ s * d \in Nat
    BY <1>0, <1>2, <1>4
  <2> QED BY <1>0, <1>2, <1>5, <2>1, <2>2 DEF End
<1>7. ASSUME NEW k \in Nat
      PROVE  Meets(b, Slot(s, k), s) <=> x <= k /\ k < x + d
  <2>1. s * k \in Nat /\ s * x \in Nat /\ x + d \in Nat /\ s * (x + d) \in Nat
    BY <1>0, <1>2, <1>4
  <2>2. Meets(b, Slot(s, k), s) <=> s * x < s * k + s /\ s * k < s * (x + d)
    <3>1. Base + s * k \in Nat
      BY <1>0, <2>1
    <3>2. Meets(b, Base + s * k, s) <=> b.addr < Base + s * k + s /\ Base + s * k < End(b)
      BY <1>0, <3>1, MeetsIsOverlap
    <3> QED BY <1>0, <1>5, <1>6, <2>1, <3>2 DEF Slot
  <2>3. /\ x <= k => s * x <= s * k
        /\ k < x => s * k + s <= s * x
        /\ k < x + d => s * k + s <= s * (x + d)
        /\ x + d <= k => s * (x + d) <= s * k
    BY <1>0, <1>2, <1>4, <2>1, TimesOrder
  <2> QED BY <1>0, <1>2, <1>4, <2>1, <2>2, <2>3
<1> QED BY <1>1, <1>2, <1>4, <1>5, <1>7 DEF d, Slot

(* A ring with no blocks, a block more or a block less is as aligned. *)
LEMMA AlignedNext ==
  ASSUME TypeOK, Aligned, [Next]_vars
  PROVE  Aligned'
<1> USE DEF Aligned, Asking, Slot
<1>1. CASE UNCHANGED vars
  BY <1>1 DEF vars
<1>a. ASSUME NEW t \in Actors, NEW s \in Requests, NEW mode, NEW f,
             Ask(t, s, mode, f), blocks' = blocks
      PROVE  Aligned'
  <2>1. BlockSize(s) \in Sizes
    BY DEF Sizes
  <2>2. /\ job'[t].size = BlockSize(s) /\ job'[t].n = 1
        /\ \A u \in Actors \ {t} : job'[u] = job[u] /\ pc'[u] = pc[u]
        /\ blocks' = blocks /\ pc'[t] = "lock"
    BY <1>a DEF Ask, NoJob, TypeOK
  <2> HIDE DEF Slot
  <2> QED BY <2>1, <2>2
<1>2. ASSUME NEW t \in Tasks, NEW s \in Requests, NEW mode, NEW f,
             CallMalloc(t, s, mode, f) \/ CallMinimize(t, s)
      PROVE  Aligned'
  <2>1. t \in Actors
    BY DEF Actors
  <2>2. CASE CallMalloc(t, s, mode, f)
    <3>1. Ask(t, s, mode, f) /\ blocks' = blocks
      BY <2>2 DEF CallMalloc
    <3> QED BY <1>a, <2>1, <3>1
  <2>3. CASE CallMinimize(t, s)
    <3>1. Ask(t, s, "minimize", PidOf[t]) /\ blocks' = blocks
      BY <2>3 DEF CallMinimize
    <3> QED BY <1>a, <2>1, <3>1
  <2> QED BY <1>2, <2>2, <2>3
<1>2a. ASSUME NEW c \in Cpus, NEW s \in Requests, NEW f \in Tasks, IpiEnter(c, s, f)
       PROVE  Aligned'
  <2>1. c \in Actors /\ Ask(c, s, "create", f) /\ blocks' = blocks
    BY <1>2a DEF IpiEnter, Actors
  <2> QED BY <1>a, <2>1
<1>3. ASSUME NEW t \in Tasks, NEW a \in held[PidOf[t]], CallFree(t, a)
      PROVE  Aligned'
  BY <1>3 DEF CallFree, NoJob, TypeOK
<1>4. ASSUME NEW t \in Tasks, Terminate(t)
      PROVE  Aligned'
  BY <1>4 DEF Terminate
<1>5. ASSUME NEW t \in Actors,
             EnterMem(t) \/ ScanPastEnd(t) \/ ScanNoItem(t) \/ EnterTask(t) \/ Charge(t)
      PROVE  Aligned'
  BY <1>5 DEF EnterMem, ScanPastEnd, ScanNoItem, EnterTask, Charge, TypeOK
<1>6. ASSUME NEW t \in Actors, NEW i \in DOMAIN blocks, ScanSkip(t, i)
      PROVE  Aligned'
  <2>1. \A u \in Actors : job'[u].size = job[u].size /\ (u # t => job'[u] = job[u])
    BY <1>6, JobFields DEF ScanSkip, TypeOK, Jobs
  <2>2. blocks' = blocks /\ pc' = pc /\ pc[t] = "scan"
    BY <1>6 DEF ScanSkip
  <2> QED BY <2>1, <2>2
<1>7. ASSUME NEW t \in Actors, ScanTake(t)
      PROVE  Aligned'
  <2>0. PICK v \in Vids(t) : blocks' = Append(blocks, NewBlock(t, v))
    BY <1>7 DEF ScanTake, NewBlock
  <2> DEFINE b == NewBlock(t, v)
  <2>1. b \in Blocks /\ job[t].n \in Nat \ {0}
    BY VidType, JobFields, SlotAboveBase DEF Blocks, NewBlock
  <2>2. b.size \in Sizes /\ b.addr = Slot(b.size, job[t].n)
    BY <1>7 DEF ScanTake, ScanAddr, NewBlock
  <2>3. blocks' = Append(blocks, b)
    BY <2>0
  <2> HIDE DEF b, Slot
  <2>4. \A i \in DOMAIN blocks' : blocks'[i].size \in Sizes
                     /\ \E q \in Nat \ {0} : blocks'[i].addr = Slot(blocks'[i].size, q)
    BY <2>1, <2>2, <2>3, AppendedTo
  <2>5. \A u \in Actors : /\ job'[u].size = job[u].size /\ job'[u].n = job[u].n
                          /\ job'[u].op = job[u].op
                          /\ pc'[u] = pc[u] \/ pc'[u] \in {"leave", "charge"}
    BY <1>7, JobFields DEF ScanTake, TypeOK, Jobs
  <2> QED BY <2>4, <2>5 DEF Slot
<1>8. ASSUME blocks' = blocks \/ \E i \in DOMAIN blocks : blocks' = RemoveAt(blocks, i)
      PROVE  \A i \in DOMAIN blocks' : \E j \in DOMAIN blocks : blocks'[i] = blocks[j]
  BY <1>8, RemovedFrom
<1>9. ASSUME NEW t \in Actors, Free(t)
      PROVE  Aligned'
  <2>1. \A i \in DOMAIN blocks' : \E j \in DOMAIN blocks : blocks'[i] = blocks[j]
    BY <1>8, <1>9 DEF Free
  <2>2. job' = job /\ \A u \in Actors : pc'[u] = pc[u] \/ pc'[u] = "leave"
    BY <1>9 DEF Free, TypeOK
  <2> QED BY <2>1, <2>2
<1>10. ASSUME NEW t \in Actors, LeaveMem(t) \/ InsertTask(t) \/ LeaveTask(t)
       PROVE  Aligned'
  <2>1. /\ blocks' = blocks
        /\ \A u \in Actors : pc'[u] \in {"idle", "insert", "unlist"}
                               \/ (job'[u] = job[u] /\ pc'[u] = pc[u])
    BY <1>10 DEF LeaveMem, InsertTask, LeaveTask, Finish, TypeOK
  <2> QED BY <2>1
<1>11. ASSUME NEW c \in Cpus, \/ IrqEnter(c) \/ IrqEnterMem(c) \/ IrqLeave(c)
                              \/ \E t \in Tasks : IrqDropThread(c, t)
       PROVE  Aligned'
  BY <1>11 DEF IrqEnter, IrqEnterMem, IrqLeave, IrqDropThread
<1>12. ASSUME NEW c \in Cpus, NEW t \in Tasks, IrqFree(c, t)
       PROVE  Aligned'
  <2>1. \A i \in DOMAIN blocks' : \E j \in DOMAIN blocks : blocks'[i] = blocks[j]
    BY <1>8, <1>12 DEF IrqFree
  <2>2. job' = job /\ pc' = pc
    BY <1>12 DEF IrqFree
  <2> QED BY <2>1, <2>2
<1> QED BY <1>1, <1>2, <1>2a, <1>3, <1>4, <1>5, <1>6, <1>7, <1>9, <1>10, <1>11, <1>12, Zenon
        DEF Next, Call, Work, Irq, Ipi

LEMMA AdvanceBy ==
  ASSUME NEW n \in Nat, NEW b \in Blocks, NEW size \in Nat \ {0}
  PROVE  /\ b.size <= size => Advance(n, b, size) = n + 1
         /\ size < b.size /\ b.size % size = 0 => Advance(n, b, size) = n + b.size \div size
<1>1. b.size \in Nat \ {0}
  BY DEF Blocks
<1> QED BY <1>1 DEF Advance

(* The step of the scan itself: the block that is met is the only one the
   slots it covers meet, and the next slot is the one behind it. *)
LEMMA SkipNext ==
  ASSUME TypeOK, BlocksDisjoint, ScanInv,
         NEW t \in Actors, NEW i \in DOMAIN blocks, ScanSkip(t, i)
  PROVE  (AtStart(t) /\ Passed(t))'
<1> DEFINE s == job[t].size
           n == job[t].n
           b == blocks[i]
           m == Advance(n, b, s)
<1>1. /\ s \in Sizes /\ s \in Nat \ {0} /\ n \in Nat \ {0}
      /\ AtStart(t) /\ Passed(t) /\ pc[t] = "scan"
      /\ b \in Blocks /\ b.size \in Sizes
  BY JobFields, BlockAt DEF ScanInv, ScanSkip, Aligned, Asking
<1>2. Meets(b, Slot(s, n), s)
  BY DEF ScanSkip, IsFirst, MetBy, ScanAddr
<1>3. blocks' = blocks /\ job'[t].size = s /\ job'[t].n = m
  BY JobFields DEF ScanSkip, TypeOK, Jobs
<1>4. /\ m \in Nat \ {0} /\ n < m
      /\ \A k \in n .. m - 1 : Meets(b, Slot(s, k), s)
      /\ s < b.size => ~Meets(b, Slot(s, m), s)
  <2>0. b.size \in Nat \ {0}
    BY <1>1 DEF Blocks
  <2>1. CASE b.size <= s
    <3>1. m = n + 1
      BY <1>1, <2>1, AdvanceBy
    <3> HIDE DEF b, m, n, s
    <3> QED BY <1>1, <1>2, <2>0, <2>1, <3>1
  <2>2. CASE s < b.size
    <3>1. PICK q \in Nat \ {0} : b.addr = Slot(b.size, q)
      BY DEF ScanInv, Aligned
    <3>2. /\ b.size % s = 0 /\ b.size \div s \in Nat
          /\ \E x \in Nat :
               /\ 2 <= x /\ b.addr = Slot(s, x)
               /\ \A k \in Nat : Meets(b, Slot(s, k), s) <=> x <= k /\ k < x + b.size \div s
      BY <1>1, <2>2, <3>1, LongerBlock
    <3>3. PICK x \in Nat :
               /\ 2 <= x /\ b.addr = Slot(s, x)
               /\ \A k \in Nat : Meets(b, Slot(s, k), s) <=> x <= k /\ k < x + b.size \div s
      BY <3>2
    <3>4. b.addr = Slot(s, n)
      BY <1>1, <1>2, <2>2 DEF AtStart, ScanAddr
    <3>5. x = n
      <4>1. Base + s * x = Base + s * n
        BY <3>3, <3>4 DEF Slot
      <4>2. x < n => s * x + s <= s * n
        BY <1>1, <3>3, TimesOrder
      <4>3. n < x => s * n + s <= s * x
        BY <1>1, <3>3, TimesOrder
      <4> QED BY <1>1, <3>3, <4>1, <4>2, <4>3, SizeAssumption
    <3>6. m = n + b.size \div s
      BY <1>1, <2>2, <3>2, AdvanceBy
    <3>7. n < m
      BY <1>1, <1>2, <3>2, <3>3, <3>5, <3>6
    <3> HIDE DEF b, m, n, s
    <3> QED BY <1>1, <3>2, <3>3, <3>5, <3>6, <3>7
  <2> QED BY <1>1, <2>0, <2>1, <2>2
<1> HIDE DEF b, m, n, s
<1>5. Passed(t)'
  <2> SUFFICES ASSUME NEW k \in 1 .. m - 1
               PROVE  \E j \in DOMAIN blocks : Meets(blocks[j], Slot(s, k), s)
    BY <1>3 DEF Passed, IsFree, MetBy, Slot, Meets, End
  <2>1. CASE k < n
    BY <1>1, <2>1 DEF Passed, IsFree, MetBy, n, s
  <2>2. CASE n <= k
    BY <1>1, <1>4, <2>2 DEF b
  <2> QED BY <1>1, <1>4, <2>1, <2>2
<1>6. AtStart(t)'
  <2> SUFFICES ASSUME NEW j \in DOMAIN blocks, blocks[j].size > s,
                      Meets(blocks[j], Slot(s, m), s)
               PROVE  blocks[j].addr = Slot(s, m)
    BY <1>3 DEF AtStart, ScanAddr, Slot, Meets, End
  <2> DEFINE a == blocks[j]
  <2>1. a \in Blocks /\ a.size \in Sizes /\ a.size \in Nat
    BY BlockAt DEF ScanInv, Aligned, Blocks
  <2>2. PICK q \in Nat \ {0} : a.addr = Slot(a.size, q)
    BY DEF ScanInv, Aligned
  <2>3. PICK x \in Nat :
          /\ 2 <= x /\ a.addr = Slot(s, x)
          /\ \A k \in Nat : Meets(a, Slot(s, k), s) <=> x <= k /\ k < x + a.size \div s
    <3>1. s < a.size
      BY <1>1, <2>1
    <3> HIDE DEF a
    <3> QED BY <1>1, <2>1, <2>2, <3>1, LongerBlock
  <2>4. x <= m /\ m < x + a.size \div s /\ a.size \div s \in Int
    <3>1. a.size \div s \in Int
      BY <1>1, <2>1
    <3> QED BY <1>4, <2>3, <3>1
  <2>5. CASE x = m
    BY <2>3, <2>5
  <2>6. CASE x < m
    <3>1. m - 1 \in Nat /\ x <= m - 1 /\ m - 1 < x + a.size \div s /\ m - 1 \in n .. m - 1
      BY <1>1, <1>4, <2>3, <2>4, <2>6
    <3>2. Meets(a, Slot(s, m - 1), s) /\ Meets(b, Slot(s, m - 1), s)
      BY <1>4, <2>3, <3>1
    <3>3. Slot(s, m - 1) \in Nat
      <4>1. s * (m - 1) \in Nat
        BY <1>1, <3>1
      <4> QED BY <4>1, SizeAssumption DEF Slot
    <3>4. a.addr <= Slot(s, m - 1) /\ Slot(s, m - 1) + s <= End(a)
      <4>1. s * x <= s * (m - 1)
        BY <1>1, <2>3, <3>1, TimesOrder
      <4>2. Slot(s, m) < End(a)
        <5>1. Slot(s, m) \in Nat
          <6>1. s * m \in Nat
            BY <1>1, <1>4
          <6> QED BY <6>1, SizeAssumption DEF Slot
        <5>2. Meets(a, Slot(s, m), s)
          OBVIOUS
        <5> HIDE DEF a
        <5> QED BY <1>1, <2>1, <5>1, <5>2, MeetsIsOverlap
      <4>3. Slot(s, m) = Slot(s, m - 1) + s /\ End(a) \in Nat
        <5>1. s * m = s * (m - 1) + s
          BY <1>1, <1>4
        <5>2. s * (m - 1) \in Nat
          BY <1>1, <3>1
        <5> QED BY <1>1, <5>1, <5>2, SizeAssumption, BlockAt DEF Slot
      <4>4. a.addr = Slot(s, x) /\ s * x \in Nat /\ s * (m - 1) \in Nat
        BY <1>1, <2>3, <3>1
      <4> HIDE DEF a
      <4> QED BY <1>1, <3>3, <4>1, <4>2, <4>3, <4>4, SizeAssumption DEF Slot
    <3>5. b.addr < Slot(s, m - 1) + s /\ Slot(s, m - 1) < End(b)
      BY <1>1, <3>2, <3>3, MeetsIsOverlap
    <3>6. i # j
      BY <1>1, <1>4, <2>1 DEF b
    <3>7. End(a) <= b.addr \/ End(b) <= a.addr
      BY <3>6 DEF BlocksDisjoint, b
    <3>8. b.addr \in Nat /\ End(b) \in Nat /\ a.addr \in Nat /\ End(a) \in Nat
      BY BlockAt DEF b
    <3> HIDE DEF a
    <3> QED BY <1>1, <3>3, <3>4, <3>5, <3>7, <3>8
  <2> QED BY <1>1, <1>4, <2>3, <2>4, <2>5, <2>6
<1> QED BY <1>5, <1>6

(* While a task scans, no step but its own changes ring or scan: the others
   that change the ring hold the lock. *)
LEMMA RingStands ==
  ASSUME TypeOK, RingExclusive, Handlers, [Next]_vars,
         NEW t \in Actors, pc'[t] = "scan", ~ \E i \in DOMAIN blocks : ScanSkip(t, i)
  PROVE  /\ blocks' = blocks /\ job'[t] = job[t]
         /\ pc[t] = "scan" \/ EnterMem(t)
<1> USE DEF RingExclusive, InMem
<1>1. CASE UNCHANGED vars
  BY <1>1 DEF vars
<1>2. ASSUME NEW u \in Tasks, Call(u)
      PROVE  pc[t] = "scan" /\ blocks' = blocks /\ job'[t] = job[t]
  BY <1>2 DEF Call, CallMalloc, CallMinimize, CallFree, Terminate, Ask, TypeOK, Actors
<1>2a. ASSUME NEW c \in Cpus, NEW s \in Requests, NEW f \in Tasks, IpiEnter(c, s, f)
       PROVE  pc[t] = "scan" /\ blocks' = blocks /\ job'[t] = job[t]
  BY <1>2a DEF IpiEnter, Ask, TypeOK, Actors
<1>3. ASSUME NEW u \in Actors, EnterMem(u)
      PROVE  blocks' = blocks /\ job'[t] = job[t] /\ (pc[t] = "scan" \/ EnterMem(t))
  BY <1>3 DEF EnterMem, TypeOK
<1>4. ASSUME NEW u \in Actors,
             \/ ScanPastEnd(u) \/ ScanNoItem(u) \/ EnterTask(u) \/ Charge(u)
             \/ LeaveMem(u) \/ InsertTask(u) \/ LeaveTask(u)
      PROVE  pc[t] = "scan" /\ blocks' = blocks /\ job'[t] = job[t]
  BY <1>4 DEF ScanPastEnd, ScanNoItem, EnterTask, Charge, LeaveMem, InsertTask, LeaveTask,
              Finish, TypeOK
<1>5. ASSUME NEW u \in Actors, NEW i \in DOMAIN blocks, ScanSkip(u, i)
      PROVE  pc[t] = "scan" /\ blocks' = blocks /\ job'[t] = job[t]
  <2>1. u # t
    BY <1>5
  <2> QED BY <1>5, <2>1 DEF ScanSkip, TypeOK
<1>6. ASSUME NEW u \in Actors, ScanTake(u) \/ Free(u)
      PROVE  FALSE
  <2>1. pc[u] \in {"scan", "free"} /\ pc'[u] # "scan" /\ (u # t => pc'[t] = pc[t])
    BY <1>6 DEF ScanTake, Free, TypeOK
  <2> QED BY <2>1
<1>7. ASSUME NEW c \in Cpus, IrqEnter(c) \/ IrqEnterMem(c) \/ IrqLeave(c)
                             \/ \E u \in Tasks : IrqDropThread(c, u)
      PROVE  pc[t] = "scan" /\ blocks' = blocks /\ job'[t] = job[t]
  BY <1>7 DEF IrqEnter, IrqEnterMem, IrqLeave, IrqDropThread
<1>8. ASSUME NEW c \in Cpus, NEW u \in Tasks, IrqFree(c, u)
      PROVE  FALSE
  <2>1. irq[c] = "freeing" /\ pc[t] = "scan" /\ pc[c] = "idle"
    BY <1>8 DEF IrqFree, Handlers
  <2> QED BY <2>1
<1> QED BY <1>1, <1>2, <1>2a, <1>3, <1>4, <1>5, <1>6, <1>7, <1>8, Zenon
        DEF Next, Work, Irq, Ipi

LEMMA ScanStart ==
  ASSUME TypeOK, Aligned, NEW t \in Actors, pc[t] = "lock", job[t].op = "malloc"
  PROVE  AtStart(t) /\ Passed(t)
<1> DEFINE s == job[t].size
<1>1. job[t].n = 1 /\ s \in Sizes /\ s \in Nat
  BY JobFields DEF Aligned, Asking
<1>2. Passed(t)
  BY <1>1 DEF Passed
<1>3. ASSUME NEW i \in DOMAIN blocks, blocks[i].size > s
      PROVE  ~Meets(blocks[i], Slot(s, 1), s)
  <2> DEFINE b == blocks[i]
  <2>1. b \in Blocks /\ b.size \in Sizes /\ b.size \in Nat
    BY BlockAt DEF Aligned, Blocks
  <2>2. PICK q \in Nat \ {0} : b.addr = Slot(b.size, q)
    BY DEF Aligned
  <2>3. s < b.size
    BY <1>1, <1>3, <2>1
  <2> HIDE DEF b, s
  <2>4. PICK x \in Nat :
          /\ 2 <= x
          /\ \A k \in Nat : Meets(b, Slot(s, k), s) <=> x <= k /\ k < x + b.size \div s
    BY <1>1, <2>1, <2>2, <2>3, LongerBlock
  <2>5. ~Meets(b, Slot(s, 1), s)
    BY <2>4
  <2> QED BY <2>5 DEF b
<1> QED BY <1>1, <1>2, <1>3 DEF AtStart, ScanAddr

LEMMA ScanNext ==
  ASSUME TypeOK, BlocksDisjoint, RingExclusive, Handlers, ScanInv, [Next]_vars
  PROVE  ScanInv'
<1>1. Aligned'
  BY AlignedNext DEF ScanInv
<1>2. ASSUME NEW t \in Actors, pc'[t] = "scan"
      PROVE  AtStart(t)' /\ Passed(t)'
  <2>1. CASE \E i \in DOMAIN blocks : ScanSkip(t, i)
    BY <2>1, SkipNext
  <2>2. CASE ~ \E i \in DOMAIN blocks : ScanSkip(t, i)
    <3>1. /\ blocks' = blocks /\ job'[t] = job[t]
          /\ pc[t] = "scan" \/ EnterMem(t)
      BY <1>2, <2>2, RingStands
    <3>2. CASE pc[t] = "scan"
      <4>1. AtStart(t) /\ Passed(t)
        BY <3>2 DEF ScanInv
      <4> QED BY <3>1, <4>1 DEF AtStart, Passed, IsFree, MetBy, ScanAddr, Slot, Meets, End
    <3>3. CASE EnterMem(t)
      <4>1. pc[t] = "lock" /\ job[t].op = "malloc"
        BY <1>2, <3>3 DEF EnterMem, TypeOK
      <4>2. AtStart(t) /\ Passed(t)
        BY <4>1, ScanStart DEF ScanInv
      <4> QED BY <3>1, <4>2 DEF AtStart, Passed, IsFree, MetBy, ScanAddr, Slot, Meets, End
    <3> QED BY <3>1, <3>2, <3>3
  <2> QED BY <2>1, <2>2
<1> QED BY <1>1, <1>2 DEF ScanInv

(* For any sizes, any blocks and any order of calls, a scan has passed no slot
   that is free: a request gets the lowest slot of its size that is free, or
   there is none. *)
THEOREM NothingSkipped == Spec => []ScanSkipsNothing
<1>1. Init => ScanInv
  BY EmptySeq DEF Init, ScanInv, Aligned, Asking, NoJob
<1>2. TypeOK /\ BlocksDisjoint /\ RingExclusive /\ Handlers /\ ScanInv /\ [Next]_vars
        => ScanInv'
  BY ScanNext
<1>3. ScanInv => ScanSkipsNothing
  BY DEF ScanInv, ScanSkipsNothing, Passed
<1> QED BY <1>1, <1>2, <1>3, TypeCorrect, Disjointness, Exclusion,
           HandlersAlways, PTL DEF Spec

-----------------------------------------------------------------------------
(* Who owns a block.  An address that a running process holds, or that a call
   of one of its tasks is about to hand out or to free, is the start of a block
   that a task of this process took; so a reaper, which frees blocks of a dead
   one, and a call of another process do not take it away. *)

Backed(bs, a, p) == \E i \in DOMAIN bs : bs[i].addr = a /\ PidOf[bs[i].vid] = p

Pending(t) ==
    /\ status[t] = "run"
    /\ \/ job[t].op = "free" /\ pc[t] \in {"lock", "free"}
       \/ /\ job[t].op = "malloc" /\ job[t].mode \notin {"create", "minimize"}
          /\ job[t].addr # 0
          /\ pc[t] \in {"charge", "chargelocked", "leave"}

(* The calls: whom they work for, and that a task is created once *)
CallsOK ==
    \A t \in Actors :
        /\ pc[t] = "lock" => job[t].addr = 0 \/ job[t].op = "free"
        /\ pc[t] = "scan" => job[t].addr = 0 /\ job[t].op = "malloc"
        /\ pc[t] = "free" => job[t].op = "free"
        /\ pc[t] \in {"charge", "chargelocked"} => job[t].op = "malloc"
        /\ pc[t] = "insert" => job[t].mode = "create"
        /\ pc[t] = "idle" => job[t].op = "none" /\ job[t].mode = "own"
        /\ pc[t] # "idle" => job[t].op # "none"
        /\ job[t].op = "free" => t \in Tasks
        /\ job[t].op = "malloc" /\ job[t].mode # "create" => t \in Tasks /\ job[t].for = PidOf[t]
        /\ job[t].mode = "create" =>
              /\ job[t].op = "malloc" /\ job[t].for \in Tasks /\ status[job[t].for] = "new"
              /\ IsThread(job[t].for) => t \in Tasks /\ PidOf[job[t].for] = PidOf[t]
              /\ \A u \in Actors \ {t} : job[u].mode = "create" => job[u].for # job[t].for

LivesOK ==
    \A t \in Tasks :
        /\ status[t] = "run" => status[PidOf[t]] = "run"
        /\ status[t] = "new" => held[t] = {} /\ pc[t] = "idle"

OwnersOK ==
    /\ \A p \in Tasks : status[p] = "run" => \A a \in held[p] : Backed(blocks, a, p)
    /\ \A t \in Tasks : Pending(t) =>
          Backed(blocks, job[t].addr, PidOf[t]) /\ job[t].addr \notin held[PidOf[t]]
    /\ \A t, u \in Tasks : t # u /\ Pending(t) /\ Pending(u) => job[t].addr # job[u].addr

OwnInv == CallsOK /\ LivesOK /\ OwnersOK

LEMMA CallsNext ==
  ASSUME TypeOK, CallsOK, [Next]_vars, LivesOK
  PROVE  CallsOK'
<1> USE DEF CallsOK, IsThread
<1>0. /\ job \in [Actors -> Jobs] /\ pc \in [Actors -> Pcs] /\ PidOf \in [Tasks -> Tasks]
      /\ Tasks \subseteq Actors /\ Cpus \subseteq Actors
  BY TaskAssumption DEF TypeOK, Actors
<1>1. CASE UNCHANGED vars
  BY <1>1 DEF vars, NoJob
\* a new call: whom it is for is settled by its guard
<1>a. ASSUME NEW t \in Actors, NEW s, NEW mode, NEW f \in Tasks, Ask(t, s, mode, f),
             status' = status,
             mode # "create" => t \in Tasks /\ f = PidOf[t],
             mode = "create" =>
                CanCreate(f) /\ (PidOf[f] # f => t \in Tasks /\ PidOf[f] = PidOf[t])
      PROVE  CallsOK'
  <2>1. /\ job'[t].op = "malloc" /\ job'[t].mode = mode /\ job'[t].for = f
        /\ job'[t].addr = 0 /\ pc'[t] = "lock"
        /\ \A u \in Actors \ {t} : job'[u] = job[u] /\ pc'[u] = pc[u]
    BY <1>0, <1>a DEF Ask, NoJob
  <2>2. mode = "create" =>
          status[f] = "new" /\ \A u \in Actors : job[u].mode = "create" => job[u].for # f
    BY <1>a DEF CanCreate
  <2>3. job[t].mode # "create"
    BY <1>a DEF Ask, NoJob
  <2> QED BY <1>0, <1>a, <2>1, <2>2, <2>3 DEF NoJob
<1>2. ASSUME NEW t \in Tasks, NEW s \in Requests, NEW mode \in Modes, NEW f \in Tasks,
             CallMalloc(t, s, mode, f)
      PROVE  CallsOK'
  <2>2. Ask(t, s, mode, f) /\ status' = status
    BY <1>2 DEF CallMalloc
  <2>3. \/ mode # "create" /\ f = PidOf[t]
        \/ mode = "create" /\ CanCreate(f) /\ (PidOf[f] # f => PidOf[t] = PidOf[f])
    BY <1>2 DEF CallMalloc
  <2> QED BY <1>0, <1>a, <2>2, <2>3
<1>2a. ASSUME NEW t \in Tasks, NEW s \in Requests, CallMinimize(t, s)
       PROVE  CallsOK'
  <2>1. Ask(t, s, "minimize", PidOf[t]) /\ status' = status
    BY <1>2a DEF CallMinimize
  <2> QED BY <1>0, <1>a, <2>1
<1>2b. ASSUME NEW c \in Cpus, NEW s \in Requests, NEW f \in Tasks, IpiEnter(c, s, f)
       PROVE  CallsOK'
  <2>1. Ask(c, s, "create", f) /\ status' = status /\ CanCreate(f) /\ PidOf[f] = f
    BY <1>2b DEF IpiEnter
  <2> QED BY <1>0, <1>a, <2>1
<1>3. ASSUME NEW t \in Tasks, NEW a \in held[PidOf[t]], CallFree(t, a)
      PROVE  CallsOK'
  <2>1. /\ job'[t].op = "free" /\ job'[t].mode = "own"
        /\ pc'[t] = "lock" /\ status' = status
        /\ \A u \in Actors \ {t} : job'[u] = job[u] /\ pc'[u] = pc[u]
    BY <1>0, <1>3 DEF CallFree, NoJob
  <2> QED BY <1>0, <2>1 DEF NoJob
<1>4. ASSUME NEW t \in Tasks, Terminate(t)
      PROVE  CallsOK'
  <2>1. job' = job /\ pc' = pc /\ \A u \in Tasks : status[u] = "new" <=> status'[u] = "new"
    BY <1>4 DEF Terminate, TypeOK
  <2> QED BY <1>0, <2>1 DEF NoJob, Jobs
<1>5. ASSUME NEW t \in Actors,
             EnterMem(t) \/ ScanPastEnd(t) \/ ScanNoItem(t) \/ EnterTask(t) \/ Charge(t) \/ Free(t)
      PROVE  CallsOK'
  <2>1. /\ job' = job /\ status' = status
        /\ \A u \in Actors \ {t} : pc'[u] = pc[u]
        /\ pc[t] # "idle" /\ pc'[t] \in Pcs \ {"idle", "lock", "insert"}
    BY <1>0, <1>5 DEF EnterMem, ScanPastEnd, ScanNoItem, EnterTask, Charge, Free
  <2>2. /\ pc'[t] = "scan" => job[t].addr = 0 /\ job[t].op = "malloc"
        /\ pc'[t] = "free" => job[t].op = "free"
        /\ pc'[t] \in {"charge", "chargelocked"} => job[t].op = "malloc"
    <3>1. CASE EnterMem(t)
      <4>1. pc[t] = "lock" /\ pc'[t] = IF job[t].op = "malloc" THEN "scan" ELSE "free"
        BY <1>0, <3>1 DEF EnterMem
      <4>2. job[t].op \in {"none", "malloc", "free"} /\ job[t].op # "none"
        BY <1>0, <4>1 DEF Jobs
      <4> QED BY <4>1, <4>2
    <3>2. CASE ~EnterMem(t)
      BY <1>0, <1>5, <3>2 DEF ScanPastEnd, ScanNoItem, EnterTask, Charge, Free
    <3> QED BY <3>1, <3>2
  <2> QED BY <1>0, <2>1, <2>2 DEF NoJob
<1>6. ASSUME NEW t \in Actors, NEW i \in DOMAIN blocks, ScanSkip(t, i)
      PROVE  CallsOK'
  <2>1. /\ pc' = pc /\ status' = status /\ pc[t] = "scan"
        /\ \A u \in Actors : /\ job'[u].op = job[u].op /\ job'[u].mode = job[u].mode
                            /\ job'[u].for = job[u].for /\ job'[u].addr = job[u].addr
        /\ \A u \in Actors \ {t} : job'[u] = job[u]
    BY <1>0, <1>6, JobFields DEF ScanSkip, Jobs
  <2> QED BY <1>0, <2>1 DEF NoJob
<1>7. ASSUME NEW t \in Actors, ScanTake(t)
      PROVE  CallsOK'
  <2>1. /\ status' = status /\ pc[t] = "scan" /\ pc'[t] \in {"leave", "charge"}
        /\ \A u \in Actors : /\ job'[u].op = job[u].op /\ job'[u].mode = job[u].mode
                            /\ job'[u].for = job[u].for
        /\ \A u \in Actors \ {t} : job'[u] = job[u] /\ pc'[u] = pc[u]
    BY <1>0, <1>7, JobFields DEF ScanTake, Jobs
  <2> QED BY <1>0, <2>1 DEF NoJob
\* the end of a call: only the task it was making changes its state
<1>b. ASSUME NEW t \in Actors, Finish(t),
             \A u \in Tasks : status'[u] = status[u]
                                \/ (job[t].mode = "create" /\ u = job[t].for)
      PROVE  CallsOK'
  <2>1. /\ job'[t] = NoJob /\ pc'[t] = "idle"
        /\ \A u \in Actors \ {t} : job'[u] = job[u] /\ pc'[u] = pc[u]
    BY <1>0, <1>b DEF Finish
  <2>2. NoJob.mode = "own" /\ NoJob.op = "none"
    BY DEF NoJob
  <2>3. \A u \in Actors \ {t} : job[u].mode = "create" =>
            job[u].for \in Tasks /\ status'[job[u].for] = "new"
    BY <1>0, <1>b
  <2> QED BY <1>0, <2>1, <2>2, <2>3
<1>8. ASSUME NEW t \in Actors, LeaveMem(t)
      PROVE  CallsOK'
  <2>1. CASE Finish(t)
    <3>1. status' = status
      BY <1>8 DEF LeaveMem
    <3> QED BY <1>b, <2>1, <3>1
  <2>2. CASE ~Finish(t)
    <3>1. /\ job' = job /\ status' = status /\ pc[t] = "leave"
          /\ \A u \in Actors \ {t} : pc'[u] = pc[u]
          /\ pc'[t] = "unlist" \/ (pc'[t] = "insert" /\ job[t].mode = "create")
      BY <1>0, <1>8, <2>2 DEF LeaveMem, Inserts
    <3> QED BY <1>0, <3>1 DEF NoJob
  <2> QED BY <2>1, <2>2
<1>8a. ASSUME NEW t \in Actors, InsertTask(t)
       PROVE  CallsOK'
  <2>1. job[t].mode = "create" /\ Finish(t)
    BY <1>8a DEF InsertTask
  <2>2. \A u \in Tasks : status'[u] = status[u] \/ u = job[t].for
    BY <1>8a DEF InsertTask, TypeOK
  <2> QED BY <1>b, <2>1, <2>2
<1>8b. ASSUME NEW t \in Actors, LeaveTask(t)
       PROVE  CallsOK'
  <2>1. Finish(t) /\ status' = status
    BY <1>8b DEF LeaveTask
  <2> QED BY <1>b, <2>1
<1>9. ASSUME NEW c \in Cpus, NEW t \in Tasks, IrqDropThread(c, t) \/ IrqFree(c, t)
      PROVE  CallsOK'
  <2>1. job' = job /\ pc' = pc /\ \A u \in Tasks : status[u] = "new" <=> status'[u] = "new"
    BY <1>9 DEF IrqDropThread, IrqFree, Dead, TypeOK
  <2> QED BY <1>0, <2>1
<1>10. ASSUME NEW c \in Cpus, IrqEnter(c) \/ IrqEnterMem(c) \/ IrqLeave(c)
       PROVE  CallsOK'
  BY <1>10 DEF IrqEnter, IrqEnterMem, IrqLeave, NoJob
<1> QED BY <1>1, <1>2, <1>2a, <1>2b, <1>3, <1>4, <1>5, <1>6, <1>7, <1>8, <1>8a, <1>8b, <1>9,
           <1>10, Zenon DEF Next, Call, Work, Irq, Ipi

LEMMA LivesNext ==
  ASSUME TypeOK, CallsOK, LivesOK, [Next]_vars
  PROVE  LivesOK'
<1> USE DEF LivesOK
<1>0. /\ job \in [Actors -> Jobs] /\ pc \in [Actors -> Pcs] /\ PidOf \in [Tasks -> Tasks]
      /\ held \in [Tasks -> SUBSET Nat] /\ \A t \in Tasks : PidOf[PidOf[t]] = PidOf[t]
      /\ status \in [Tasks -> {"new", "run", "over", "gone"}]
      /\ Tasks \cap Cpus = {} /\ Tasks \subseteq Actors
  BY TaskAssumption DEF TypeOK, Actors
<1>1. CASE UNCHANGED vars
  BY <1>1 DEF vars
<1>2. ASSUME NEW t \in Tasks, Call(t), ~Terminate(t)
      PROVE  LivesOK'
  <2>1. status' = status /\ status[t] = "run" /\ \A u \in Tasks \ {t} : pc'[u] = pc[u]
    BY <1>0, <1>2 DEF Call, CallMalloc, CallMinimize, CallFree, Runs, Ask
  <2>2. \A u \in Tasks : held[u] = {} => held'[u] = {}
    BY <1>0, <1>2 DEF Call, CallMalloc, CallMinimize, CallFree
  <2> QED BY <1>0, <2>1, <2>2
<1>2a. ASSUME NEW c \in Cpus, NEW s \in Requests, NEW f \in Tasks, IpiEnter(c, s, f)
       PROVE  LivesOK'
  BY <1>0, <1>2a DEF IpiEnter, Ask
<1>3. ASSUME NEW t \in Tasks, Terminate(t)
      PROVE  LivesOK'
  BY <1>0, <1>3 DEF Terminate
<1>4. ASSUME NEW t \in Actors, Work(t), ~Finish(t)
      PROVE  LivesOK'
  <2>1. /\ status' = status /\ held' = held /\ pc[t] # "idle"
        /\ \A u \in Actors \ {t} : pc'[u] = pc[u]
    BY <1>0, <1>4 DEF Work, EnterMem, ScanPastEnd, ScanNoItem, ScanSkip, ScanTake, EnterTask,
                      Charge, Free, LeaveMem, InsertTask, LeaveTask
  <2> QED BY <1>0, <2>1
<1>5. ASSUME NEW t \in Actors, LeaveMem(t), Finish(t)
      PROVE  LivesOK'
  <2>1. /\ status' = status /\ pc[t] # "idle"
        /\ \A u \in Actors \ {t} : pc'[u] = pc[u]
    BY <1>0, <1>5 DEF LeaveMem, Finish
  <2>2. CASE held' = held
    BY <1>0, <2>1, <2>2
  <2>3. CASE held' # held
    <3>1. /\ job[t].op = "malloc" /\ job[t].mode # "create"
          /\ held' = [held EXCEPT ![job[t].for] = @ \cup {job[t].addr}]
      BY <1>5, <2>3 DEF LeaveMem, Got, Finish
    <3>2. t \in Tasks /\ job[t].for = PidOf[t]
      BY <3>1 DEF CallsOK
    <3>3. status[t] = "run"
      BY <1>0, <1>5, <3>2 DEF LeaveMem, Runs
    <3> QED BY <1>0, <2>1, <3>1, <3>2, <3>3
  <2> QED BY <2>2, <2>3
<1>5a. ASSUME NEW t \in Actors, InsertTask(t)
       PROVE  LivesOK'
  <2> DEFINE f == job[t].for
  <2>1. /\ held' = held /\ pc[t] # "idle" /\ \A u \in Actors \ {t} : pc'[u] = pc[u]
        /\ status' = [status EXCEPT ![f] = IF Got(t) THEN "run" ELSE "over"]
    BY <1>0, <1>5a DEF InsertTask, Finish
  <2>2. /\ f \in Tasks /\ status[f] = "new"
        /\ PidOf[f] # f => t \in Tasks /\ PidOf[f] = PidOf[t]
    BY <1>5a DEF InsertTask, CallsOK, IsThread
  <2>3. t \in Tasks => status[t] = "run"
    BY <1>0, <1>5a DEF InsertTask, Runs
  <2> HIDE DEF f
  <2>4. status'[f] # "new" /\ \A u \in Tasks \ {f} : status'[u] = status[u]
    BY <1>0, <2>1, <2>2
  <2>5. ASSUME NEW u \in Tasks, status'[u] = "run"
        PROVE  status'[PidOf[u]] = "run"
    <3>1. CASE u = f
      BY <1>0, <2>2, <2>3, <2>4, <2>5, <3>1
    <3>2. CASE u # f
      BY <1>0, <2>2, <2>4, <2>5, <3>2
    <3> QED BY <3>1, <3>2
  <2> QED BY <1>0, <2>1, <2>2, <2>4, <2>5
<1>5b. ASSUME NEW t \in Actors, LeaveTask(t)
       PROVE  LivesOK'
  BY <1>0, <1>5b DEF LeaveTask, Finish
<1>6. ASSUME NEW c \in Cpus, NEW t \in Tasks, IrqDropThread(c, t) \/ IrqFree(c, t)
      PROVE  LivesOK'
  <2>1. /\ pc' = pc /\ status[t] = "over" /\ status' = [status EXCEPT ![t] = "gone"]
        /\ \A u \in Tasks : held[u] = {} => held'[u] = {}
    BY <1>0, <1>6 DEF IrqDropThread, IrqFree, Dead
  <2> QED BY <1>0, <2>1
<1>7. ASSUME NEW c \in Cpus, IrqEnter(c) \/ IrqEnterMem(c) \/ IrqLeave(c)
      PROVE  LivesOK'
  BY <1>7 DEF IrqEnter, IrqEnterMem, IrqLeave
<1>8. ASSUME NEW t \in Actors, Work(t), Finish(t)
      PROVE  LeaveMem(t) \/ InsertTask(t) \/ LeaveTask(t)
  <2>1. pc'[t] = "idle"
    BY <1>0, <1>8 DEF Finish
  <2> QED BY <1>0, <1>8, <2>1 DEF Work, EnterMem, ScanPastEnd, ScanNoItem, ScanSkip, ScanTake,
                                EnterTask, Charge, Free
<1> QED BY <1>1, <1>2, <1>2a, <1>3, <1>4, <1>5, <1>5a, <1>5b, <1>6, <1>7, <1>8, Zenon
        DEF Next, Irq, Ipi

-----------------------------------------------------------------------------
(* Blocks that stay *)

LEMMA RemoveKeeps ==
  ASSUME TypeOK, NEW k \in DOMAIN blocks, blocks' = RemoveAt(blocks, k),
         NEW j \in DOMAIN blocks, j # k
  PROVE  \E i \in DOMAIN blocks' : blocks'[i] = blocks[j]
<1>1. DOMAIN blocks = 1 .. Len(blocks) /\ Len(blocks) \in Nat
  BY LenProperties DEF TypeOK
<1>2. DOMAIN blocks' = 1 .. Len(blocks) - 1
  BY RemovedFrom
<1>3. CASE j < k
  <2>1. j \in DOMAIN blocks' /\ blocks'[j] = blocks[j]
    BY <1>1, <1>2, <1>3, RemovedFrom
  <2> QED BY <2>1
<1>4. CASE k < j
  <2>1. j - 1 \in DOMAIN blocks' /\ ~(j - 1 < k) /\ (j - 1) + 1 = j
    BY <1>1, <1>2, <1>4
  <2>2. blocks'[j - 1] = blocks[j]
    BY <2>1, RemovedFrom
  <2> QED BY <2>1, <2>2
<1> QED BY <1>1, <1>3, <1>4

LEMMA SameBlock ==
  ASSUME TypeOK, BlocksDisjoint, NEW i \in DOMAIN blocks, NEW j \in DOMAIN blocks,
         blocks[i].addr = blocks[j].addr
  PROVE  i = j
BY BlockAt DEF BlocksDisjoint, End

LEMMA OneOwner ==
  ASSUME TypeOK, BlocksDisjoint, NEW a, NEW p, NEW q, Backed(blocks, a, p), Backed(blocks, a, q)
  PROVE  p = q
BY SameBlock DEF Backed

(* A block stays unless it is the one that is removed. *)
LEMMA BackedStays ==
  ASSUME TypeOK, NEW k \in DOMAIN blocks, blocks' = RemoveAt(blocks, k),
         NEW a, NEW p, Backed(blocks, a, p),
         blocks[k].addr # a \/ PidOf[blocks[k].vid] # p
  PROVE  Backed(blocks', a, p)
<1>1. PICK j \in DOMAIN blocks : blocks[j].addr = a /\ PidOf[blocks[j].vid] = p
  BY DEF Backed
<1>2. j # k
  BY <1>1
<1>3. PICK i \in DOMAIN blocks' : blocks'[i] = blocks[j]
  BY <1>2, RemoveKeeps
<1> QED BY <1>1, <1>3 DEF Backed

LEMMA BackedAppend ==
  ASSUME TypeOK, NEW b \in Blocks, blocks' = Append(blocks, b)
  PROVE  /\ \A a, p : Backed(blocks, a, p) => Backed(blocks', a, p)
         /\ Backed(blocks', b.addr, PidOf[b.vid])
<1>1. /\ \A i \in DOMAIN blocks : i \in DOMAIN blocks' /\ blocks'[i] = blocks[i]
      /\ Len(blocks) + 1 \in DOMAIN blocks' /\ blocks'[Len(blocks) + 1] = b
  BY AppendedTo
<1> QED BY <1>1 DEF Backed

(* Nothing new is owned, and what is owned stays. *)
LEMMA OwnersKept ==
  ASSUME OwnersOK,
         \A p \in Tasks : status'[p] = "run" =>
            held'[p] = {} \/ (status[p] = "run" /\ held'[p] \subseteq held[p]),
         \A t \in Tasks : Pending(t)' =>
            /\ Pending(t) /\ job'[t].addr = job[t].addr
            /\ held'[PidOf[t]] \subseteq held[PidOf[t]]
            /\ Backed(blocks', job[t].addr, PidOf[t]),
         \A p \in Tasks : status'[p] = "run" => \A a \in held'[p] : Backed(blocks', a, p)
  PROVE  OwnersOK'
BY DEF OwnersOK

LEMMA OwnersNext ==
  ASSUME TypeOK, BlocksDisjoint, RingExclusive, OwnInv, [Next]_vars
  PROVE  OwnersOK'
<1> USE DEF OwnInv
<1>0. /\ job \in [Actors -> Jobs] /\ pc \in [Actors -> Pcs] /\ PidOf \in [Tasks -> Tasks]
      /\ held \in [Tasks -> SUBSET Nat] /\ \A t \in Tasks : PidOf[PidOf[t]] = PidOf[t]
      /\ status \in [Tasks -> {"new", "run", "over", "gone"}]
      /\ Tasks \cap Cpus = {} /\ Tasks \subseteq Actors
  BY TaskAssumption DEF TypeOK, Actors
\* a step that takes no block and owns nothing new
<1>1. ASSUME blocks' = blocks,
             \A p \in Tasks : held'[p] \subseteq held[p],
             \A p \in Tasks : status'[p] = "run" => status[p] = "run",
             \A t \in Tasks : Pending(t)' => Pending(t) /\ job'[t].addr = job[t].addr
      PROVE  OwnersOK'
  <2>1. \A a, p : Backed(blocks, a, p) => Backed(blocks', a, p)
    BY <1>1 DEF Backed
  <2>2. \A p \in Tasks : status'[p] = "run" => \A a \in held'[p] : Backed(blocks', a, p)
    BY <1>1, <2>1 DEF OwnersOK
  <2>3. \A t \in Tasks : Pending(t)' =>
            /\ Pending(t) /\ job'[t].addr = job[t].addr
            /\ held'[PidOf[t]] \subseteq held[PidOf[t]]
            /\ Backed(blocks', job[t].addr, PidOf[t])
    BY <1>0, <1>1, <2>1 DEF OwnersOK
  <2> QED BY <1>1, <2>2, <2>3, OwnersKept
<1>2. CASE UNCHANGED vars
  BY <1>1, <1>2 DEF vars, Pending
<1>a. ASSUME NEW t \in Actors, NEW s, NEW mode, NEW f, Ask(t, s, mode, f),
             blocks' = blocks, held' = held, status' = status
      PROVE  OwnersOK'
  <2>1. /\ job'[t].op = "malloc" /\ pc'[t] = "lock"
        /\ \A u \in Actors \ {t} : job'[u] = job[u] /\ pc'[u] = pc[u]
    BY <1>0, <1>a DEF Ask, NoJob
  <2> QED BY <1>0, <1>1, <1>a, <2>1 DEF Pending
<1>3. ASSUME NEW t \in Tasks, NEW s \in Requests, NEW mode \in Modes, NEW f \in Tasks,
             CallMalloc(t, s, mode, f) \/ CallMinimize(t, s)
      PROVE  OwnersOK'
  <2>1. /\ Ask(t, s, mode, f) \/ Ask(t, s, "minimize", PidOf[t])
        /\ blocks' = blocks /\ held' = held /\ status' = status
    BY <1>3 DEF CallMalloc, CallMinimize
  <2> QED BY <1>0, <1>a, <2>1
<1>3a. ASSUME NEW c \in Cpus, NEW s \in Requests, NEW f \in Tasks, IpiEnter(c, s, f)
       PROVE  OwnersOK'
  <2>1. /\ Ask(c, s, "create", f) /\ c \in Actors
        /\ blocks' = blocks /\ held' = held /\ status' = status
    BY <1>3a DEF IpiEnter, Actors
  <2> QED BY <1>a, <2>1
<1>4. ASSUME NEW t \in Tasks, NEW a \in held[PidOf[t]], CallFree(t, a)
      PROVE  OwnersOK'
  <2> DEFINE p == PidOf[t]
  <2>1. /\ blocks' = blocks /\ held' = [held EXCEPT ![p] = @ \ {a}] /\ status' = status
        /\ job'[t].op = "free" /\ job'[t].addr = a /\ pc'[t] = "lock"
        /\ \A u \in Actors \ {t} : job'[u] = job[u] /\ pc'[u] = pc[u]
        /\ p \in Tasks
    BY <1>0, <1>4 DEF CallFree, NoJob
  <2>2. \A x, y : Backed(blocks, x, y) <=> Backed(blocks', x, y)
    BY <2>1 DEF Backed
  <2>3. status[p] = "run" /\ Backed(blocks, a, p)
    BY <1>0, <1>4, <2>1 DEF LivesOK, OwnersOK, CallFree, Runs
  <2>4. \A u \in Tasks \ {t} : Pending(u)' => Pending(u) /\ job'[u].addr = job[u].addr
    BY <1>0, <2>1 DEF Pending
  <2>5. ASSUME NEW u \in Tasks \ {t}, Pending(u)
        PROVE  job[u].addr # a
    <3>1. Backed(blocks, job[u].addr, PidOf[u]) /\ job[u].addr \notin held[PidOf[u]]
      BY <2>5 DEF OwnersOK
    <3>2. CASE PidOf[u] = p
      BY <3>1, <3>2
    <3>3. CASE PidOf[u] # p
      BY <2>3, <3>1, <3>3, OneOwner
    <3> QED BY <3>2, <3>3
  <2>6. \A q \in Tasks : held'[q] \subseteq held[q] /\ a \notin held'[p]
    BY <1>0, <2>1
  <2> HIDE DEF p
  <2>7. \A q \in Tasks : status'[q] = "run" => \A x \in held'[q] : Backed(blocks', x, q)
    BY <2>1, <2>2, <2>6 DEF OwnersOK
  <2>8. \A u \in Tasks : Pending(u)' /\ u # t =>
          Backed(blocks', job[u].addr, PidOf[u]) /\ job'[u].addr \notin held'[PidOf[u]]
    BY <1>0, <2>1, <2>2, <2>4, <2>6 DEF OwnersOK
  <2>9. \A u, v \in Tasks : u # v /\ Pending(u)' /\ Pending(v)' => job'[u].addr # job'[v].addr
    BY <2>1, <2>4, <2>5 DEF OwnersOK
  <2>10. p = PidOf[t]
    BY DEF p
  <2> QED BY <2>1, <2>2, <2>3, <2>4, <2>6, <2>7, <2>8, <2>9, <2>10 DEF OwnersOK
<1>5. ASSUME NEW t \in Tasks, Terminate(t)
      PROVE  OwnersOK'
  <2>1. /\ blocks' = blocks /\ held' = held /\ job' = job /\ pc' = pc
        /\ \A u \in Tasks : status'[u] = "run" => status[u] = "run"
    BY <1>5 DEF Terminate
  <2> QED BY <1>0, <1>1, <2>1 DEF Pending
<1>6. ASSUME NEW t \in Actors,
             EnterMem(t) \/ ScanPastEnd(t) \/ ScanNoItem(t) \/ EnterTask(t) \/ Charge(t)
      PROVE  OwnersOK'
  <2>1. /\ blocks' = blocks /\ held' = held /\ job' = job /\ status' = status
        /\ \A u \in Actors \ {t} : pc'[u] = pc[u]
    BY <1>0, <1>6 DEF EnterMem, ScanPastEnd, ScanNoItem, EnterTask, Charge
  <2>2. Pending(t)' => Pending(t)
    <3>1. CASE EnterMem(t)
      BY <1>0, <2>1, <3>1 DEF EnterMem, Pending
    <3>2. CASE ScanPastEnd(t) \/ ScanNoItem(t)
      BY <1>0, <2>1, <3>2 DEF ScanPastEnd, ScanNoItem, Pending, CallsOK
    <3>3. CASE EnterTask(t) \/ Charge(t)
      BY <1>0, <2>1, <3>3 DEF EnterTask, Charge, Pending
    <3> QED BY <1>6, <3>1, <3>2, <3>3
  <2> QED BY <1>0, <1>1, <2>1, <2>2 DEF Pending
<1>7. ASSUME NEW t \in Actors, NEW i \in DOMAIN blocks, ScanSkip(t, i)
      PROVE  OwnersOK'
  <2>1. /\ blocks' = blocks /\ held' = held /\ pc' = pc /\ status' = status
        /\ \A u \in Actors : /\ job'[u].op = job[u].op /\ job'[u].mode = job[u].mode
                            /\ job'[u].addr = job[u].addr
    BY <1>0, <1>7, JobFields DEF ScanSkip, Jobs
  <2> QED BY <1>0, <1>1, <2>1 DEF Pending
<1>8. ASSUME NEW t \in Actors, ScanTake(t)
      PROVE  OwnersOK'
  <2>0. PICK v \in Vids(t) : blocks' = Append(blocks, NewBlock(t, v))
    BY <1>8 DEF ScanTake, NewBlock
  <2> DEFINE b == NewBlock(t, v)
             a == ScanAddr(t)
  <2>1. b \in Blocks /\ b.addr = a /\ b.vid = v
    BY VidType, JobFields, SlotAboveBase DEF Blocks, NewBlock
  <2>2. /\ blocks' = Append(blocks, b) /\ IsFree(a, b.size) /\ held' = held /\ status' = status
        /\ job'[t].addr = a /\ job'[t].mode = job[t].mode /\ job'[t].op = job[t].op
        /\ b.size \in Nat \ {0}
        /\ \A u \in Actors \ {t} : job'[u] = job[u] /\ pc'[u] = pc[u]
    BY <1>0, <1>8, <2>0, JobFields DEF ScanTake, Jobs, NewBlock
  <2>2a. ASSUME t \in Tasks, Pending(t)'
         PROVE  v = t
    <3>1. job[t].mode # "create"
      BY <2>2, <2>2a DEF Pending, CallsOK
    <3>2. TargetCpu(t) = CpuOf[t]
      BY <1>0, <2>2a, <3>1 DEF TargetCpu, Where
    <3> QED BY <2>2a, <3>2 DEF Vids
  <2> HIDE DEF b
  <2>3. (\A x, p : Backed(blocks, x, p) => Backed(blocks', x, p)) /\ Backed(blocks', a, PidOf[v])
    BY <2>1, <2>2, BackedAppend
  <2>4. \A x, p : Backed(blocks, x, p) => x # a
    <3>1. \A i \in DOMAIN blocks : blocks[i].addr # a
      BY <2>2, BlockAt, SlotAboveBase DEF IsFree, MetBy, Meets, End
    <3> QED BY <3>1 DEF Backed
  <2> HIDE DEF a
  <2>5. \A u \in Tasks \ {t} : Pending(u)' => Pending(u) /\ job'[u].addr = job[u].addr
    BY <1>0, <2>2 DEF Pending
  <2>7. \A q \in Tasks : status'[q] = "run" => \A x \in held'[q] : Backed(blocks', x, q) /\ x # a
    BY <2>2, <2>3, <2>4 DEF OwnersOK
  <2>8. \A u \in Tasks \ {t} : Pending(u)' =>
          /\ Backed(blocks', job'[u].addr, PidOf[u]) /\ job'[u].addr \notin held'[PidOf[u]]
          /\ job'[u].addr # a
    BY <2>2, <2>3, <2>4, <2>5 DEF OwnersOK
  <2>9. ASSUME t \in Tasks, Pending(t)'
        PROVE  Backed(blocks', job'[t].addr, PidOf[t]) /\ job'[t].addr \notin held'[PidOf[t]]
    <3>1. status'[PidOf[t]] = "run"
      BY <2>2, <2>9 DEF Pending, LivesOK
    <3> QED BY <1>0, <2>2, <2>2a, <2>3, <2>7, <2>9, <3>1
  <2>10. \A u, w \in Tasks : u # w /\ Pending(u)' /\ Pending(w)' => job'[u].addr # job'[w].addr
    BY <2>2, <2>5, <2>8 DEF OwnersOK
  <2> QED BY <2>7, <2>8, <2>9, <2>10 DEF OwnersOK
<1>9. ASSUME NEW t \in Actors, Free(t)
      PROVE  OwnersOK'
  <2> DEFINE a == job[t].addr
             p == PidOf[t]
  <2>0. t \in Tasks
    BY <1>9 DEF Free, CallsOK
  <2>1. /\ held' = held /\ job' = job /\ status' = status
        /\ pc[t] = "free" /\ pc'[t] = "leave" /\ \A u \in Actors \ {t} : pc'[u] = pc[u]
        /\ status[t] = "run"
    BY <1>0, <1>9, <2>0 DEF Free, Runs
  <2>2. job[t].op = "free" /\ Pending(t) /\ ~Pending(t)'
    BY <1>0, <2>0, <2>1 DEF CallsOK, Pending
  <2>3. \A u \in Tasks \ {t} : Pending(u)' <=> Pending(u)
    BY <1>0, <2>1 DEF Pending
  <2>4. Backed(blocks, a, p) /\ a \notin held[p]
    BY <2>0, <2>2 DEF OwnersOK
  <2>5. ASSUME NEW x, NEW q \in Tasks, Backed(blocks, x, q), q = p => x # a
        PROVE  Backed(blocks', x, q)
    <3>1. CASE blocks' = blocks
      BY <2>5, <3>1 DEF Backed
    <3>2. ASSUME NEW k \in DOMAIN blocks, blocks[k].addr = a, blocks' = RemoveAt(blocks, k)
          PROVE  Backed(blocks', x, q)
      <4>1. x # a
        BY <2>4, <2>5, OneOwner
      <4> QED BY <2>5, <3>2, <4>1, BackedStays
    <3> QED BY <1>9, <3>1, <3>2 DEF Free, IsFirst, At
  <2>6. \A q \in Tasks : status'[q] = "run" => \A x \in held'[q] : Backed(blocks', x, q)
    BY <2>1, <2>4, <2>5 DEF OwnersOK
  <2>7. \A u \in Tasks \ {t} : Pending(u) => job[u].addr # a /\ Backed(blocks, job[u].addr, PidOf[u])
    BY <2>0, <2>2 DEF OwnersOK
  <2>8. \A u \in Tasks : Pending(u)' => Pending(u) /\ Backed(blocks', job[u].addr, PidOf[u])
    BY <1>0, <2>2, <2>3, <2>5, <2>7
  <2> HIDE DEF a, p
  <2> QED BY <1>0, <2>1, <2>6, <2>8, OwnersKept
<1>10. ASSUME NEW t \in Actors, LeaveMem(t)
       PROVE  OwnersOK'
  <2>1. /\ blocks' = blocks /\ status' = status /\ pc[t] = "leave" /\ Runs(t)
        /\ \A u \in Actors \ {t} : job'[u] = job[u] /\ pc'[u] = pc[u]
        /\ pc'[t] \in {"idle", "insert", "unlist"}
    BY <1>0, <1>10 DEF LeaveMem, Finish
  <2>2. \A x, q : Backed(blocks, x, q) <=> Backed(blocks', x, q)
    BY <2>1 DEF Backed
  <2>3. \A u \in Tasks : Pending(u)' => u # t /\ Pending(u) /\ job'[u].addr = job[u].addr
    BY <1>0, <2>1 DEF Pending
  <2>4. CASE held' = held
    BY <1>0, <1>1, <2>1, <2>3, <2>4
  <2>5. CASE held' # held
    <3> DEFINE a == job[t].addr
               p == PidOf[t]
    <3>1. /\ job[t].op = "malloc" /\ job[t].mode \notin {"create", "minimize"} /\ a # 0
          /\ held' = [held EXCEPT ![job[t].for] = @ \cup {a}]
      BY <1>10, <2>5 DEF LeaveMem, Got
    <3>2. t \in Tasks /\ job[t].for = p
      BY <3>1 DEF CallsOK
    <3>3. Pending(t) /\ Backed(blocks, a, p) /\ p \in Tasks
      BY <1>0, <2>1, <3>1, <3>2 DEF Pending, OwnersOK, Runs
    <3>4. \A u \in Tasks : Pending(u)' =>
            /\ job[u].addr # a /\ Backed(blocks, job[u].addr, PidOf[u])
            /\ job[u].addr \notin held[PidOf[u]]
      BY <2>3, <3>2, <3>3 DEF OwnersOK
    <3>5. \A q \in Tasks : held'[q] = held[q] \/ (q = p /\ held'[q] = held[q] \cup {a})
      BY <1>0, <3>1, <3>2
    <3> HIDE DEF a, p
    <3>6. \A q \in Tasks : status'[q] = "run" => \A x \in held'[q] : Backed(blocks', x, q)
      BY <2>1, <2>2, <3>3, <3>5 DEF OwnersOK
    <3>7. \A u \in Tasks : Pending(u)' =>
            Backed(blocks', job'[u].addr, PidOf[u]) /\ job'[u].addr \notin held'[PidOf[u]]
      BY <1>0, <2>2, <2>3, <3>4, <3>5
    <3>8. \A u, v \in Tasks : u # v /\ Pending(u)' /\ Pending(v)' => job'[u].addr # job'[v].addr
      BY <2>3 DEF OwnersOK
    <3> QED BY <3>6, <3>7, <3>8 DEF OwnersOK
  <2> QED BY <2>4, <2>5
<1>10a. ASSUME NEW t \in Actors, InsertTask(t)
        PROVE  OwnersOK'
  <2> DEFINE f == job[t].for
  <2>1. /\ blocks' = blocks /\ held' = held /\ pc'[t] = "idle"
        /\ \A u \in Actors \ {t} : job'[u] = job[u] /\ pc'[u] = pc[u]
        /\ status' = [status EXCEPT ![f] = IF Got(t) THEN "run" ELSE "over"]
    BY <1>0, <1>10a DEF InsertTask, Finish
  <2>2. f \in Tasks /\ status[f] = "new"
    BY <1>10a DEF InsertTask, CallsOK
  <2>3. held[f] = {} /\ pc[f] = "idle"
    BY <2>2 DEF LivesOK
  <2> HIDE DEF f
  <2>4. \A q \in Tasks : status'[q] = "run" => held[q] = {} \/ status[q] = "run"
    BY <1>0, <2>1, <2>2, <2>3
  <2>5. \A u \in Tasks : Pending(u)' => Pending(u) /\ job'[u].addr = job[u].addr
    BY <1>0, <2>1, <2>2, <2>3 DEF Pending
  <2>6. \A x, q : Backed(blocks, x, q) => Backed(blocks', x, q)
    BY <2>1 DEF Backed
  <2>7. \A q \in Tasks : status'[q] = "run" => \A x \in held'[q] : Backed(blocks', x, q)
    BY <2>1, <2>4, <2>6 DEF OwnersOK
  <2>8. \A u \in Tasks : Pending(u)' => Backed(blocks', job[u].addr, PidOf[u])
    BY <2>5, <2>6 DEF OwnersOK
  <2> QED BY <2>1, <2>4, <2>5, <2>7, <2>8, OwnersKept
<1>10b. ASSUME NEW t \in Actors, LeaveTask(t)
        PROVE  OwnersOK'
  <2>1. /\ blocks' = blocks /\ held' = held /\ status' = status /\ pc'[t] = "idle"
        /\ \A u \in Actors \ {t} : job'[u] = job[u] /\ pc'[u] = pc[u]
    BY <1>0, <1>10b DEF LeaveTask, Finish
  <2> QED BY <1>0, <1>1, <2>1 DEF Pending
<1>11. ASSUME NEW c \in Cpus, NEW t \in Tasks, IrqFree(c, t)
       PROVE  OwnersOK'
  <2>1. /\ job' = job /\ pc' = pc /\ status[t] = "over" /\ PidOf[t] = t
        /\ status' = [status EXCEPT ![t] = "gone"] /\ held' = [held EXCEPT ![t] = {}]
    BY <1>11 DEF IrqFree, Dead
  <2>2. ASSUME NEW x, NEW q \in Tasks, q # t, Backed(blocks, x, q)
        PROVE  Backed(blocks', x, q)
    <3>1. CASE blocks' = blocks
      BY <2>2, <3>1 DEF Backed
    <3>2. ASSUME NEW k \in DOMAIN blocks, blocks[k].vid = t, blocks' = RemoveAt(blocks, k)
          PROVE  Backed(blocks', x, q)
      BY <2>1, <2>2, <3>2, BackedStays
    <3> QED BY <1>11, <3>1, <3>2 DEF IrqFree, IsFirst, BlocksOf
  <2>3. \A q \in Tasks : status'[q] = "run" =>
            q # t /\ status[q] = "run" /\ held'[q] = held[q]
    BY <1>0, <2>1
  <2>4. \A u \in Tasks : Pending(u)' => Pending(u) /\ status[PidOf[u]] = "run"
    BY <2>1, <2>3 DEF Pending, LivesOK
  <2>5. \A u \in Tasks : Pending(u)' =>
            /\ PidOf[u] # t /\ PidOf[u] \in Tasks /\ held'[PidOf[u]] = held[PidOf[u]]
            /\ Backed(blocks, job[u].addr, PidOf[u])
    BY <1>0, <2>1, <2>4 DEF OwnersOK
  <2>6. \A u \in Tasks : Pending(u)' => Backed(blocks', job[u].addr, PidOf[u])
    BY <2>2, <2>5
  <2>7. \A q \in Tasks : status'[q] = "run" => \A x \in held'[q] : Backed(blocks', x, q)
    BY <2>2, <2>3 DEF OwnersOK
  <2> QED BY <2>1, <2>3, <2>4, <2>5, <2>6, <2>7, OwnersKept
<1>12. ASSUME NEW c \in Cpus, \/ IrqEnter(c) \/ IrqEnterMem(c) \/ IrqLeave(c)
                              \/ \E t \in Tasks : IrqDropThread(c, t)
       PROVE  OwnersOK'
  <2>1. /\ blocks' = blocks /\ held' = held /\ job' = job /\ pc' = pc
        /\ \A u \in Tasks : status'[u] = "run" => status[u] = "run"
    BY <1>0, <1>12 DEF IrqEnter, IrqEnterMem, IrqLeave, IrqDropThread
  <2> QED BY <1>1, <2>1 DEF Pending
<1> QED BY <1>2, <1>3, <1>3a, <1>4, <1>5, <1>6, <1>7, <1>8, <1>9, <1>10, <1>10a, <1>10b, <1>11,
           <1>12, Zenon DEF Next, Call, Work, Irq, Ipi

(* What a running process was given and has not freed stays its own: no free of
   another call, no other process and no reaper, on any CPU, takes the block
   away or hands it out again. *)
THEOREM HeldStays == Spec => []HeldIsBacked
<1>1. Init => OwnInv
  <2> SUFFICES ASSUME Init PROVE OwnInv
    OBVIOUS
  <2>1. /\ \A t \in Actors : pc[t] = "idle" /\ job[t].op = "none" /\ job[t].mode = "own"
        /\ \A t \in Tasks : held[t] = {} /\ t \in Actors
    BY DEF Init, NoJob, Actors
  <2>2. \A t \in Tasks : status[t] = "run" => status[PidOf[t]] = "run"
    BY TaskAssumption DEF Init
  <2> QED BY <2>1, <2>2 DEF OwnInv, CallsOK, LivesOK, OwnersOK, Pending
<1>2. TypeOK /\ BlocksDisjoint /\ RingExclusive /\ OwnInv /\ [Next]_vars => OwnInv'
  BY CallsNext, LivesNext, OwnersNext DEF OwnInv
<1>3. TypeOK /\ BlocksDisjoint /\ OwnInv => HeldIsBacked
  <2> SUFFICES ASSUME TypeOK, BlocksDisjoint, OwnInv, NEW t \in Tasks, status[t] = "run"
               PROVE  /\ \A a \in held[t] : At(a) # {}
                      /\ \A u \in Tasks : u # t /\ status[u] = "run" =>
                            held[t] \cap held[u] = {}
    BY DEF HeldIsBacked
  <2>1. \A a \in held[t] : Backed(blocks, a, t)
    BY DEF OwnInv, OwnersOK
  <2>2. \A a \in held[t] : At(a) # {}
    BY <2>1 DEF Backed, At
  <2>3. ASSUME NEW u \in Tasks, u # t, status[u] = "run", NEW a \in held[t], a \in held[u]
        PROVE  FALSE
    BY <2>1, <2>3, OneOwner DEF OwnInv, OwnersOK
  <2> QED BY <2>2, <2>3
<1> QED BY <1>1, <1>2, <1>3, TypeCorrect, Disjointness, Exclusion, PTL DEF Spec

=============================================================================
