------------------------------- MODULE PhysMem -------------------------------
(***************************************************************************)
(* The physical-memory allocator of the kernel (kernel/malloc.cpp).        *)
(*                                                                         *)
(* One ring of block descriptors records every block that is in use.       *)
(* __kProcessMalloc rounds the request up to a power of two pages and      *)
(* scans the slots Base + size * n upwards until one overlaps no           *)
(* descriptor; __kFree removes the descriptor of an address;               *)
(* freeProcessMemory, called by the scheduler's interrupt when it reaps a  *)
(* dead process, walks the ring.  All of them run under gMemAllocLock, a   *)
(* spinlock that neither disables interrupts nor is reentrant, and the     *)
(* first nests the task-list lock of a CPU inside it, while the reaper and *)
(* the minimizing of a window hold the task-list lock of their CPU when    *)
(* they take gMemAllocLock.                                                *)
(*                                                                         *)
(* The actors are the tasks and, on each CPU, two interrupts: the timer,   *)
(* which reaps, and the message between CPUs (IPI), which creates a        *)
(* process (the one call that would ask for a thread is commented out).    *)
(* A task makes no step while an interrupt of its CPU is at work, nor      *)
(* while another task of its CPU holds the task-list lock, which the       *)
(* schedule only tries, nor after it was marked TASK_OVER, whatever it     *)
(* holds.                                                                  *)
(***************************************************************************)
EXTENDS Integers, Sequences, FiniteSets, SequencesExt

CONSTANTS
    Tasks,      \* tasks that run or may be created
    Cpus,
    None,       \* no holder
    PidOf,      \* the main task of the process a task belongs to
    CpuOf,      \* the CPU a task is bound to
    Initial,    \* the tasks that run at the start; others are created later
    Base,       \* MEMMORY_ALLOC_BASE
    Limit,      \* gAvailableBase + gAvailableSize
    AllocLimit, \* gAllocLimitSize
    PageSize,
    Width,      \* bits of a DWORD
    Requests,   \* request sizes tried
    Modes,      \* ways of calling __kProcessMalloc that are tried
    MaxItems    \* descriptors of MEMORY_ALLOC_BUFLIST

Pow2 == {2 ^ k : k \in 0 .. Width}

(***************************************************************************)
(* pageAlignSize(s, 1): the next power of two, as bsr/bts/shl compute it in *)
(* a register of Width bits - above half the range the shift leaves zero.  *)
(***************************************************************************)
PageAlignSize(s) ==
    IF s = 0 THEN 0
    ELSE (CHOOSE p \in Pow2 : p >= s /\ p < 2 * s) % (2 ^ Width)

BlockSize(s) ==
    IF PageAlignSize(s) < PageSize THEN PageSize ELSE PageAlignSize(s)

(* Ways of calling __kProcessMalloc: __kmalloc, __kMalloc and __malloc, the
   creation of a task, and MinimizeWindow. *)
ModeNames == {"kernel", "own", "create", "minimize"}

ASSUME TaskAssumption ==
    /\ PidOf \in [Tasks -> Tasks]
    /\ CpuOf \in [Tasks -> Cpus]
    /\ \A t \in Tasks : PidOf[PidOf[t]] = PidOf[t] /\ CpuOf[t] = CpuOf[PidOf[t]]
    /\ Initial \subseteq Tasks /\ \A t \in Initial : PidOf[t] \in Initial
    /\ Tasks \cap Cpus = {}
    /\ None \notin Tasks \cup Cpus

ASSUME SizeAssumption ==
    /\ Base \in Nat \ {0} /\ Limit \in Nat /\ AllocLimit \in Nat
    /\ PageSize \in Nat \ {0}
    /\ Requests \subseteq Nat
    /\ \A s \in Requests : BlockSize(s) \in Nat \ {0}
    \* sizes are powers of two: a shorter one divides a longer one
    /\ \A r, s \in Requests : BlockSize(r) <= BlockSize(s) => BlockSize(s) % BlockSize(r) = 0
    /\ MaxItems \in Nat
    /\ Modes \subseteq ModeNames

VARIABLES
    blocks,   \* the ring gMemAllocList, in list order
    memLock,  \* holder of gMemAllocLock
    taskLock, \* holder of g_task_array_lock[cpu]
    pc,       \* where an actor is in the allocator
    job,      \* the locals of its call
    held,     \* addresses returned to a process and not yet passed to __kFree
    status,   \* "new", "run", "over" (TASK_OVER), "gone" (reaped)
    irq       \* the interrupt of a CPU: in the reaper, or in an IPI's handler

vars == <<blocks, memLock, taskLock, pc, job, held, status, irq>>

-----------------------------------------------------------------------------
(* Blocks and slots *)

Blocks == [addr : Nat, size : Nat \ {0}, vid : Tasks \cup {None}]

End(b) == b.addr + b.size

(* Mutant: strict comparisons, a shorter block at the same address is not
   seen. *)
MeetsElsewhere(b, front, size) ==
    LET back == front + size IN
    \/ b.addr < front /\ End(b) > front
    \/ b.addr < back /\ End(b) >= back
    \/ b.addr > front /\ End(b) <= back

(* The three tests of isAddrExist: do the bytes from front on meet b? *)
Meets(b, front, size) ==
    LET back == front + size IN
    \/ b.addr <= front /\ End(b) > front
    \/ b.addr < back /\ End(b) >= back
    \/ b.addr >= front /\ End(b) <= back

(* The descriptors, by their place in the ring, that the bytes meet *)
MetBy(front, size) == {i \in DOMAIN blocks : Meets(blocks[i], front, size)}

IsFree(front, size) == MetBy(front, size) = {}

(* isAddrExist, findAddr and freeProcessMemory all stop at the first
   descriptor, in list order, of those they look for. *)
IsFirst(i, S) == i \in S /\ \A j \in S : i <= j

Slot(size, n) == Base + size * n

(* Mutant: only the start of the slot is compared with the end of memory. *)
StartPastEnd(a, size) == a > Limit

PastEnd(a, size) == a + size > Limit

(* Mutant: the remainder is taken to be non-zero, one slot is jumped over. *)
AdvanceTooFar(n, met, size) ==
    IF met.size <= size THEN n + 1 ELSE n + met.size \div size + 1


(***************************************************************************)
(* Where the scan goes after an occupied slot: over the block that is met, *)
(* when that block is longer than the slot, or to the next slot.  The two  *)
(* nested loops of the code visit the same n: the inner one ends by itself  *)
(* only at n = factor, and the outer one then goes on from 2 * factor / 2.  *)
(***************************************************************************)
Advance(n, met, size) ==
    IF met.size <= size THEN n + 1
    ELSE IF met.size % size = 0 THEN n + met.size \div size
    ELSE n + met.size \div size + 1

At(addr) == {i \in DOMAIN blocks : blocks[i].addr = addr}

(* Mutant: the descriptor's task is not compared. *)
AllBlocks(vid) == DOMAIN blocks

BlocksOf(vid) == {i \in DOMAIN blocks : blocks[i].vid = vid}

-----------------------------------------------------------------------------
(* An interrupt's handler of a CPU calls the allocator as the CPU itself. *)
Actors == Tasks \cup Cpus

Where(a) == IF a \in Cpus THEN a ELSE CpuOf[a]

(* A call's locals before it starts; the scan begins at n = factor / 2 = 1,
   because the inner loop does not run for n = 0. *)
NoJob == [op |-> "none", mode |-> "own", for |-> None, size |-> 1, n |-> 1, addr |-> 0]

Jobs == [op : {"none", "malloc", "free"}, mode : ModeNames, for : Tasks \cup {None},
         size : Nat \ {0}, n : Nat \ {0}, addr : Nat]

Pcs == {"idle", "lock", "scan", "free", "charge", "chargelocked", "leave",
        "insert", "unlist"}

Init ==
    /\ blocks = << >>
    /\ memLock = None
    /\ taskLock = [c \in Cpus |-> None]
    /\ pc = [a \in Actors |-> "idle"]
    /\ job = [a \in Actors |-> NoJob]
    /\ held = [t \in Tasks |-> {}]
    /\ status = [t \in Tasks |-> IF t \in Initial THEN "run" ELSE "new"]
    /\ irq = [c \in Cpus |-> "out"]

(* __enterSpinlock and __GetSpinlock: the bit was clear before bts set it. *)
CanEnter(lock) == lock = None

(* The tasks of CPU c that hold its task-list lock: while there is one, the
   schedule is skipped, and it stays the current task. *)
Keepers(c) == {u \in Tasks : CpuOf[u] = c /\ taskLock[c] = u}

Runs(a) ==
    \/ a \in Cpus /\ irq[a] = "ipi"
    \/ /\ a \in Tasks /\ status[a] = "run"
       /\ irq[CpuOf[a]] = "out" /\ Keepers(CpuOf[a]) \subseteq {a}

(* The current task of CPU c, as others find it: one that runs or has just
   ended, or (None) one that calls nothing here, as the idle task. *)
Current(c) ==
    IF Keepers(c) # {} THEN Keepers(c)
    ELSE {u \in Tasks : CpuOf[u] = c /\ status[u] \in {"run", "over"}} \cup {None}

IsThread(f) == PidOf[f] # f

(* The task f is not there yet and nobody is making it. *)
CanCreate(f) ==
    /\ status[f] = "new"
    /\ \A u \in Actors : job[u].mode = "create" => job[u].for # f

Ask(a, s, mode, f) ==
    /\ pc[a] = "idle"
    /\ PageAlignSize(s) <= AllocLimit
    /\ pc' = [pc EXCEPT ![a] = "lock"]
    /\ job' = [job EXCEPT ![a] = [NoJob EXCEPT !.op = "malloc", !.mode = mode,
                                    !.for = f, !.size = BlockSize(s)]]

(***************************************************************************)
(* __kmalloc ("kernel": flag 0, nothing charged), __kMalloc and __malloc   *)
(* ("own": the caller's process is charged, under the task-list lock) and  *)
(* __kCreateProcess or __kCreateThread ("create": memory for the task f     *)
(* that is being built, a process on whichever CPU GetIdleProcessor names   *)
(* or a thread of the caller's on its own CPU).  One allocation stands for  *)
(* the few a creation makes.  A request above gAllocLimitSize is refused    *)
(* before anything changes.                                                 *)
(***************************************************************************)
CallMalloc(t, s, mode, f) ==
    /\ Runs(t)
    /\ \/ mode \in {"kernel", "own"} /\ f = PidOf[t]
       \/ mode = "create" /\ CanCreate(f) /\ (IsThread(f) => PidOf[f] = PidOf[t])
    /\ Ask(t, s, mode, f)
    /\ UNCHANGED <<blocks, memLock, taskLock, held, status, irq>>

(* MinimizeWindow enters the task-list lock of its CPU and calls __kMalloc
   under it for the picture of the minimized window. *)
CallMinimize(t, s) ==
    /\ Runs(t) /\ CanEnter(taskLock[CpuOf[t]])
    /\ Ask(t, s, "minimize", PidOf[t])
    /\ taskLock' = [taskLock EXCEPT ![CpuOf[t]] = t]
    /\ UNCHANGED <<blocks, memLock, held, status, irq>>

(* The handler of an IPI creates a process on its CPU, with the interrupts off
   and as the task it interrupted. *)
IpiEnter(c, s, f) ==
    /\ irq[c] = "out"
    /\ CpuOf[f] = c /\ CanCreate(f) /\ ~IsThread(f)
    /\ Ask(c, s, "create", f)
    /\ irq' = [irq EXCEPT ![c] = "ipi"]
    /\ UNCHANGED <<blocks, memLock, taskLock, held, status>>

(* __kFree is given an address that was returned to the caller's process. *)
CallFree(t, a) ==
    /\ Runs(t) /\ pc[t] = "idle"
    /\ a \in held[PidOf[t]]
    /\ held' = [held EXCEPT ![PidOf[t]] = @ \ {a}]
    /\ pc' = [pc EXCEPT ![t] = "lock"]
    /\ job' = [job EXCEPT ![t] = [NoJob EXCEPT !.op = "free", !.addr = a]]
    /\ UNCHANGED <<blocks, memLock, taskLock, status, irq>>

EnterMem(t) ==
    /\ Runs(t) /\ pc[t] = "lock"
    /\ CanEnter(memLock)
    /\ memLock' = t
    /\ pc' = [pc EXCEPT ![t] = IF job[t].op = "malloc" THEN "scan" ELSE "free"]
    /\ UNCHANGED <<blocks, taskLock, job, held, status, irq>>

ScanAddr(t) == Slot(job[t].size, job[t].n)

(* Past the end of memory: res = -1, reported as 0. *)
ScanPastEnd(t) ==
    /\ Runs(t) /\ pc[t] = "scan"
    /\ PastEnd(ScanAddr(t), job[t].size)
    /\ pc' = [pc EXCEPT ![t] = "leave"]
    /\ UNCHANGED <<blocks, memLock, taskLock, job, held, status, irq>>

ScanSkip(t, i) ==
    /\ Runs(t) /\ pc[t] = "scan"
    /\ ~PastEnd(ScanAddr(t), job[t].size)
    /\ IsFirst(i, MetBy(ScanAddr(t), job[t].size))
    /\ job' = [job EXCEPT ![t].n = Advance(@, blocks[i], job[t].size)]
    /\ UNCHANGED <<blocks, memLock, taskLock, pc, held, status, irq>>

(* The slot is free but GetEmptyMemAllocItem finds no descriptor. *)
ScanNoItem(t) ==
    /\ Runs(t) /\ pc[t] = "scan"
    /\ ~PastEnd(ScanAddr(t), job[t].size)
    /\ IsFree(ScanAddr(t), job[t].size)
    /\ Len(blocks) >= MaxItems
    /\ pc' = [pc EXCEPT ![t] = "leave"]
    /\ UNCHANGED <<blocks, memLock, taskLock, job, held, status, irq>>

(* The CPU the memory is for: that of the task being made, or the caller's *)
TargetCpu(a) == IF job[a].mode = "create" THEN CpuOf[job[a].for] ELSE Where(a)

(* Whose vid SetMemAllocItem records: that of the task that is current on the
   CPU the memory is for.  On a task's own CPU this is the task itself. *)
Vids(a) ==
    IF a \in Tasks /\ TargetCpu(a) = CpuOf[a] THEN {a}
    ELSE Current(TargetCpu(a))

ScanTake(t) ==
    /\ Runs(t) /\ pc[t] = "scan"
    /\ ~PastEnd(ScanAddr(t), job[t].size)
    /\ IsFree(ScanAddr(t), job[t].size)
    /\ Len(blocks) < MaxItems
    /\ \E v \in Vids(t) :
          blocks' = Append(blocks, [addr |-> ScanAddr(t), size |-> job[t].size, vid |-> v])
    /\ job' = [job EXCEPT ![t].addr = ScanAddr(t)]
    /\ pc' = [pc EXCEPT ![t] = IF job[t].mode = "kernel" THEN "leave" ELSE "charge"]
    /\ UNCHANGED <<memLock, taskLock, held, status, irq>>

(* The flag of a process's creation has the bit that suppresses the task-list
   lock; a thread's node comes from __kMalloc, as any memory of the process. *)
ChargesUnderLock(j) == j.mode # "create" \/ IsThread(j.for)

(* Whoever minimizes holds the lock already and waits for itself. *)
EnterTask(t) ==
    /\ Runs(t) /\ pc[t] = "charge" /\ ChargesUnderLock(job[t])
    /\ CanEnter(taskLock[Where(t)])
    /\ taskLock' = [taskLock EXCEPT ![Where(t)] = t]
    /\ pc' = [pc EXCEPT ![t] = "chargelocked"]
    /\ UNCHANGED <<blocks, memLock, job, held, status, irq>>

(* The process's *lpvasize grows by the size of the block.  With
   DISABLE_PAGE_MAPPING nothing reads it back, so only the locking of this
   step is kept. *)
Charge(t) ==
    /\ Runs(t)
    /\ \/ pc[t] = "charge" /\ ~ChargesUnderLock(job[t]) /\ UNCHANGED taskLock
       \/ /\ pc[t] = "chargelocked"
          /\ taskLock' = [taskLock EXCEPT ![Where(t)] = None]
    /\ pc' = [pc EXCEPT ![t] = "leave"]
    /\ UNCHANGED <<blocks, memLock, job, held, status, irq>>

(* __kFree of an address that is not found changes nothing. *)
Free(t) ==
    /\ Runs(t) /\ pc[t] = "free"
    /\ \/ At(job[t].addr) = {} /\ UNCHANGED blocks
       \/ \E i \in DOMAIN blocks :
             IsFirst(i, At(job[t].addr)) /\ blocks' = RemoveAt(blocks, i)
    /\ pc' = [pc EXCEPT ![t] = "leave"]
    /\ UNCHANGED <<memLock, taskLock, job, held, status, irq>>

Got(t) == job[t].op = "malloc" /\ job[t].addr # 0

(* The end of a call, and of the handler when it is the handler's *)
Finish(t) ==
    /\ pc' = [pc EXCEPT ![t] = "idle"]
    /\ job' = [job EXCEPT ![t] = NoJob]
    /\ irq' = IF t \in Cpus THEN [irq EXCEPT ![t] = "out"] ELSE irq

(* A task that was made is put in a list, and a process that was not *)
Inserts(t) == job[t].mode = "create" /\ (Got(t) \/ ~IsThread(job[t].for))

(* Leaving the lock ends a call but the creation of a task and the minimizing
   that got no memory. *)
LeaveMem(t) ==
    /\ Runs(t) /\ pc[t] = "leave"
    /\ memLock' = None
    /\ \/ /\ job[t].mode \notin {"create", "minimize"}
          /\ held' = IF Got(t) THEN [held EXCEPT ![job[t].for] = @ \cup {job[t].addr}]
                     ELSE held
          /\ Finish(t)
       \/ /\ job[t].mode \in {"create", "minimize"}
          /\ pc' = [pc EXCEPT ![t] = IF Inserts(t) THEN "insert" ELSE "unlist"]
          /\ UNCHANGED <<job, held, irq>>
    /\ UNCHANGED <<blocks, taskLock, status>>

(* InsertTaskList: after a successful creation the new task is put in the list
   of its CPU and runs; a process that got no memory is put there all the same,
   marked TASK_OVER. *)
InsertTask(t) ==
    /\ Runs(t) /\ pc[t] = "insert"
    /\ CanEnter(taskLock[TargetCpu(t)])
    /\ status' = [status EXCEPT ![job[t].for] = IF Got(t) THEN "run" ELSE "over"]
    /\ Finish(t)
    /\ UNCHANGED <<blocks, memLock, taskLock, held>>

(* MinimizeWindow without memory leaves the task-list lock it holds; a thread's
   creation without memory leaves the one of its CPU, which it does not hold. *)
LeaveTask(t) ==
    /\ Runs(t) /\ pc[t] = "unlist"
    /\ taskLock' = [taskLock EXCEPT ![Where(t)] = None]
    /\ Finish(t)
    /\ UNCHANGED <<blocks, memLock, held, status>>

(* __terminateProcess of the caller's own process: every task of it is
   marked TASK_OVER under the task-list lock, also one inside the allocator. *)
Terminate(t) ==
    /\ Runs(t) /\ pc[t] = "idle"
    /\ CanEnter(taskLock[CpuOf[t]])
    /\ status' = [u \in Tasks |-> IF PidOf[u] = PidOf[t] /\ status[u] = "run"
                                    THEN "over" ELSE status[u]]
    /\ UNCHANGED <<blocks, memLock, taskLock, pc, job, held, irq>>

(***************************************************************************)
(* The reaper in the timer interrupt of CPU c.  It only tries the task-list *)
(* lock, but spins on gMemAllocLock inside freeProcessMemory.               *)
(***************************************************************************)
Dead(c) == {t \in Tasks : CpuOf[t] = c /\ status[t] = "over"}

IrqEnter(c) ==
    /\ irq[c] = "out" /\ Dead(c) # {}
    /\ CanEnter(taskLock[c])
    /\ taskLock' = [taskLock EXCEPT ![c] = c]
    /\ irq' = [irq EXCEPT ![c] = "reap"]
    /\ UNCHANGED <<blocks, memLock, pc, job, held, status>>

(* A thread's node is only unlinked; its memory is not freed. *)
IrqDropThread(c, t) ==
    /\ irq[c] = "reap" /\ t \in Dead(c) /\ PidOf[t] # t
    /\ status' = [status EXCEPT ![t] = "gone"]
    /\ UNCHANGED <<blocks, memLock, taskLock, pc, job, held, irq>>

IrqEnterMem(c) ==
    /\ irq[c] = "reap" /\ \E t \in Dead(c) : PidOf[t] = t
    /\ CanEnter(memLock)
    /\ memLock' = c
    /\ irq' = [irq EXCEPT ![c] = "freeing"]
    /\ UNCHANGED <<blocks, taskLock, pc, job, held, status>>

(* freeProcessMemory walks the ring from its first descriptor.  RemoveList
   zeroes the links of the node it unlinks and the walk goes on from that
   very node, so it ends at the first block it frees. *)
IrqFree(c, t) ==
    /\ irq[c] = "freeing" /\ t \in Dead(c) /\ PidOf[t] = t
    /\ \/ BlocksOf(t) = {} /\ UNCHANGED blocks
       \/ \E i \in DOMAIN blocks :
             IsFirst(i, BlocksOf(t)) /\ blocks' = RemoveAt(blocks, i)
    /\ memLock' = None
    /\ status' = [status EXCEPT ![t] = "gone"]
    /\ held' = [held EXCEPT ![t] = {}]
    /\ irq' = [irq EXCEPT ![c] = "reap"]
    /\ UNCHANGED <<taskLock, pc, job>>

IrqLeave(c) ==
    /\ irq[c] = "reap" /\ Dead(c) = {}
    /\ taskLock' = [taskLock EXCEPT ![c] = None]
    /\ irq' = [irq EXCEPT ![c] = "out"]
    /\ UNCHANGED <<blocks, memLock, pc, job, held, status>>

-----------------------------------------------------------------------------
Call(t) ==
    \/ \E s \in Requests, mode \in Modes, f \in Tasks : CallMalloc(t, s, mode, f)
    \/ "minimize" \in Modes /\ \E s \in Requests : CallMinimize(t, s)
    \/ \E a \in held[PidOf[t]] : CallFree(t, a)
    \/ Terminate(t)

(* The steps of a call that is under way *)
Work(t) ==
    \/ EnterMem(t) \/ ScanPastEnd(t) \/ ScanNoItem(t)
    \/ \E i \in DOMAIN blocks : ScanSkip(t, i)
    \/ ScanTake(t) \/ EnterTask(t) \/ Charge(t) \/ Free(t) \/ LeaveMem(t)
    \/ InsertTask(t) \/ LeaveTask(t)

Irq(c) ==
    \/ IrqEnter(c) \/ IrqEnterMem(c) \/ IrqLeave(c)
    \/ \E t \in Tasks : IrqDropThread(c, t) \/ IrqFree(c, t)

(* Another CPU sent the message. *)
Ipi(c) == "create" \in Modes /\ \E s \in Requests, f \in Tasks : IpiEnter(c, s, f)

Next ==
    \/ \E t \in Tasks : Call(t)
    \/ \E a \in Actors : Work(a)
    \/ \E c \in Cpus : Irq(c) \/ Ipi(c)

Spec == Init /\ [][Next]_vars

(***************************************************************************)
(* Tasks are scheduled in turn and the timer keeps firing, so a step that  *)
(* a running task or an interrupt can take is taken in the end.  Nothing   *)
(* makes the spinlock fair: which waiter enters next is left open.         *)
(***************************************************************************)
Fairness ==
    /\ \A a \in Actors : WF_vars(Work(a))
    /\ \A c \in Cpus : WF_vars(Irq(c))

FairSpec == Spec /\ Fairness

-----------------------------------------------------------------------------
(* Types of the variables of the allocator: the ring, the two locks, the
   locals of every call and the states of tasks and interrupts. *)
TypeOK ==
    /\ blocks \in Seq(Blocks)
    /\ memLock \in Tasks \cup Cpus \cup {None}
    /\ taskLock \in [Cpus -> Tasks \cup Cpus \cup {None}]
    /\ pc \in [Actors -> Pcs]
    /\ job \in [Actors -> Jobs]
    /\ held \in [Tasks -> SUBSET Nat]
    /\ status \in [Tasks -> {"new", "run", "over", "gone"}]
    /\ irq \in [Cpus -> {"out", "reap", "freeing", "ipi"}]

(* No byte belongs to two blocks, whatever sizes were asked for and in
   whatever order blocks came and went (isAddrExist before every insertion). *)
BlocksDisjoint ==
    \A i, j \in DOMAIN blocks :
        i # j => \/ End(blocks[i]) <= blocks[j].addr
                 \/ End(blocks[j]) <= blocks[i].addr

(* Every block lies between the base and the end of the available memory. *)
BlocksInArena ==
    \A i \in DOMAIN blocks : Base < blocks[i].addr /\ End(blocks[i]) <= Limit

(* The scan of __kProcessMalloc never jumps over a slot that is free: every
   slot below the one it looks at is taken, so a request is refused for lack
   of memory only when no slot of its size is free, and otherwise gets the
   lowest one. *)
ScanSkipsNothing ==
    \A t \in Actors : pc[t] = "scan" =>
        \A k \in 1 .. job[t].n - 1 : ~IsFree(Slot(job[t].size, k), job[t].size)

(* An address a live process was given and has not freed is the start of a
   block of the ring, and no other live process holds it: neither a free nor
   a reaper takes away what is still in use. *)
HeldIsBacked ==
    \A t \in Tasks : status[t] = "run" =>
        /\ \A a \in held[t] : At(a) # {}
        /\ \A u \in Tasks : u # t /\ status[u] = "run" => held[t] \cap held[u] = {}

(* The allocator implements the abstract store of blocks: each step hands out
   one block in free bytes of the arena, gives blocks back whole, or leaves
   the store alone (malloc.cpp:299-355, 438-456, 604-626). *)
Store == INSTANCE BlockStore WITH
    store <- {[addr |-> blocks[i].addr, size |-> blocks[i].size] : i \in DOMAIN blocks}

StoreSpec == Store!Spec

(* Where an actor is between taking gMemAllocLock and leaving it *)
InMem(t) == pc[t] \in {"scan", "free", "charge", "chargelocked", "leave"}

(* One actor at a time works on the ring, interrupts included: whoever is
   past __enterSpinlock(&gMemAllocLock) is the one holder. *)
RingExclusive ==
    /\ \A a \in Actors : InMem(a) => memLock = a
    /\ \A c \in Cpus : irq[c] = "freeing" => memLock = c

(* The interrupt of CPU c waits for gMemAllocLock. *)
IrqWaits(c) ==
    \/ irq[c] = "reap" /\ \E d \in Dead(c) : PidOf[d] = d
    \/ irq[c] = "ipi" /\ pc[c] = "lock"

(* Who holds gMemAllocLock and makes no step any more: a task, alive or killed,
   whose CPU is in an interrupt that waits, or is kept by a task that minimizes
   a window and waits for this very lock, or by itself, when it is the one that
   minimizes (window.cpp:498, 511; malloc.cpp:364). *)
Wedged ==
    \E t \in Tasks :
        /\ memLock = t
        /\ \/ IrqWaits(CpuOf[t])
           \/ \E u \in Keepers(CpuOf[t]) : pc[u] = IF u = t THEN "charge" ELSE "lock"

(* Whoever holds gMemAllocLock leaves it, through the scan and the nested
   task-list lock, but in the cases of Wedged: the scan terminates, and no
   other crossing of the two locks, of tasks, reapers and handlers on any CPU,
   ends in a wait of each for the other. *)
LockReleased == (memLock # None) ~> (memLock = None \/ Wedged)

=============================================================================
