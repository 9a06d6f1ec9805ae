# Specifications of the LiunuxOS kernel

LiunuxOS is a small multiprocessor operating system for 32-bit x86. These TLA+
modules model the parts of its kernel (`src/kernel`) in which several actors
meet: tasks, timer interrupts and inter-processor interrupts, on one CPU or on
several. TLC checks the modules on small instances, TLAPS proves the properties
that matter most for every value of the constants.

The build that is modelled is the one the headers configure: tasks in linked
lists (`TASK_SWITCH_ARRAY` undefined), one TSS (`SINGLE_TASK_TSS`), picking by
priority (`TASK_SWITCH_PRIORITY`), linear addresses equal to physical ones
(`DISABLE_PAGE_MAPPING`), and one scheduler for each CPU. Paths below are
relative to `src/kernel` unless they start with `main/` or `README.md`, which
are relative to `src`.

## 1. The system

| part | state | operations | meets |
|---|---|---|---|
| physical memory (`malloc.cpp`) | ring of block descriptors, `gMemAllocLock` | `__kProcessMalloc` and its callers, `__kFree`, `freeProcessMemory` | all tasks and CPUs; the reaper in the timer interrupt; the task-list lock, nested |
| scheduler of a CPU (`task.cpp`, `systemService.cpp`) | ring of task nodes, a second copy of the running node at a fixed address, registers, FPU, `g_task_array_lock[id]` | schedule, yield, sleep, reap | the timer, all calls that change a status |
| creation and end of tasks (`process.cpp`, `Thread.cpp`, `tool.cpp`) | the same nodes | create, terminate, end thread, kill, pause, resume | scheduler, memory |
| choice of the next task (`taskPriority.cpp`) | ages of tasks: `delta`, `delay`, `prev_tick` | `PrioritySchedule` | scheduler |
| lists (`ListEntry.cpp`) | links of nodes and head | insert, remove, search, size | memory, scheduler and windows use them |
| memory of a process (`heap.cpp`, `malloc.cpp`) | tags before and behind every block of a heap, the marks of the fast heap, the table of heaps, a lock for each process | `__malloc`, `__free`, `CreateHeap` | the threads of a process; physical memory |
| inter-processor messages (`apic.cpp`) | a mailbox and a lock for each CPU, the APIC | `IpiCreateProcess`, `IpiCreateThread`, `IPIIntHandler` | creation on another CPU |
| timers (`apicTimer.cpp`, `cmos*.cpp`) | a table of callbacks and a tick count for each CPU | add, remove, call what is due | the timer interrupt, before each schedule |
| input (`keyboard.cpp`, `mouse.cpp`) | a ring with a lock for each device | put from interrupts and tasks, take by the program of the top window | windows |
| windows (`window.cpp`, `video.cpp`, `main/console.cpp`, `main/cmd.cpp`) | a table of windows linked in a ring, `g_window_lock` | draw, destroy, insert, remove, find, top, minimize, walk at the end of a process | input, end of a process, the memory lock, the task-list lock |
| start of the CPUs (`kernel.cpp`, `apic.cpp`) | structures for each CPU, `g_cpu_id`, `g_cpu_total`, `g_ap_lock` | build, wake, count, wait | interrupts and tasks that use the structures meanwhile |
| the rest | | program loading, file systems, disks, network, sound, graphics, V86, debugger, ciphers, programs, installers | |

What makes these parts hard:

* **Spinlocks that leave interrupts enabled.** `__enterSpinlock` (`Utils.cpp:1388`)
  is neither reentrant nor does it keep interrupts out. Whatever an interrupt
  takes, the task it interrupted may have. The schedule only tries its lock
  (`task.cpp:746`); the reaper inside it, the timers and the handler of the
  inter-processor interrupt spin.
* **Two copies of one task.** The status and the sleep of the running task are in
  its node and in the copy; other tasks write to the node, the schedule merges.
* **The dead are reaped in the schedule**, after the switch, while other tasks of
  the same process may be anywhere, also inside the allocator.
* **Interrupts that are merged**, and two stores to send one.
* **What is looked up before a lock is taken** and used after it: the top window, a
  key in the ring, a window's name, the number of heaps.
* **Numbers of windows that outlive the window**, and are given away again: a console
  that is told to exit destroys its window and goes on (`main/cmd.cpp:404-408`).
* **Two locks entered in both orders.** Whoever allocates enters the task-list lock under
  `gMemAllocLock` (`malloc.cpp:364`), whoever minimizes a window or reaps enters them the
  other way round.
* **Numbers that are not checked**: a console kills, pauses and resumes whatever tid was
  typed, the idle task's too.
* **Counts that run over** and comparisons that are not relative.

What makes the parts correct:

* memory: no byte in two blocks, nothing outside the arena, first fit is exact,
  what a live process holds stays its own, the lock is left again;
* scheduler: contexts survive, the dead stay dead and are reaped, while the idle task
  runs there is always a task to pick, a sleep ends, the lock is never held by a task that does not run;
* end of a process: its memory goes after its threads;
* choice: no ready task starves;
* lists: one ring, which behaves like a sequence;
* memory of a process: blocks tile the heaps, used ones are the ones handed out, no
  room is missed, two threads that make a heap at once do not lose one;
* messages: each is handled once, complete, on its CPU, and none stays behind;
* timers: a number leads to its own timer, no callback is early, a timer goes on;
* input: an entry is given once, in order, to one reader, and nothing is put or
  taken outside the ring;
* windows: table and ring agree, keys go to the owner of the top window, a window is
  closed by its own program, a process that ends leaves no window;
* start: what is used of a CPU is there, from the first structures on, each CPU is
  counted once, the start ends.

The hazards, each at its line with the properties that would catch it, are in
`PROJECT.json`. Further weak points of the code that no hazard entry covers yet:

* `GenPid` returns `g_pid_gen` after it left its lock (`process.cpp:37`), so two
  callers may get the same pid; the models assume that numbers of tasks differ;
* `CreateHeap` returns the number of a heap also when it got no memory for it
  (`heap.cpp:382`); in UserMemory the search that follows may give an address that
  is in no area (`low`);
* a `__malloc` of 2^31 bytes or more gives a block of 16, because the sizes are
  compared as signed numbers (`heap.cpp:310`);
* `fast_heap_free_large` looks its blocks up in the classes of the small fast heap
  (`heap.cpp:216-218`); no process has a large one;
* FAT32: the second file that is made after a start gets the place of the first in
  the directory, because the copy of the directory in memory is not read again, and
  the chain of a file of several clusters links each cluster to itself;
* a creation of a process does not test whether its allocations failed, and that of a
  thread tests the one of its stack alone (`Thread.cpp:209, 246`);
* the memory of a process that is created is charged to a node that is in no ring yet,
  through a null address (`malloc.cpp:284, 382`, `process.cpp:204, 559`);
* memory that a thread allocated carries the number of the thread and is freed
  neither with the thread nor with its process (`malloc.cpp:318, 612`);
* above 2^31 `pageAlignSize` returns zero (`malloc.cpp:82`), which passes the test
  against `gAllocLimitSize`, and `__kProcessMalloc` hands out one page
  (`PageAlignSize` and `BlockSize` do the same with `Width` bits);
* `freeProcessPages` (`page.cpp:277`) follows a null link when the list is empty;
  nothing calls it while page mapping is disabled;
* a paused task is never found by `__resumeTid`, which looks for tasks that run
  (the model of `SetStatus` has this);
* exact timers of tasks on other CPUs are never called: the CMOS interrupt goes to
  the boot CPU, which compares the owner with its own current task
  (`cmosExactTimer.cpp:111`); adding a period timer takes no lock and returns -1
  (`cmosPeriodTimer.cpp:184-217`);
* a task that ends leaves its timers in the table of 16 (`apicTimer.cpp:61`);
* some programs remove with `__kRemoveExactTimer` a timer they added with
  `__kAddApicTimer` (`main/SquareVector.cpp:30, 92`).

## 2. The modules

Every module states its constants with named assumptions, its variables, one
action per operation or step, a type invariant and the properties. A `*MC` module
names the model values of a run; a `*_proofs` module holds theorems.

### PhysMem, with BlockStore

The ring of descriptors (`blocks`, in list order), the two locks, for each actor a
place in its call (`pc`) and its locals (`job`), for each process the addresses it
was given and has not freed (`held`), the status of tasks, and for each CPU the
interrupt it is in (`irq`): the timer's, in the reaper, or that of a message between
CPUs. An actor (`Actors`) is a task or a CPU, whose handler calls the allocator.

| action | code |
|---|---|
| `CallMalloc`, `CallFree` | entry to `__kProcessMalloc` (`malloc.cpp:262`), directly or by `__kmalloc`, `__kMalloc`, `__malloc`, the creation of a thread or of a process on any CPU (`process.cpp:458-464`); to `__kFree` (438) |
| `CallMinimize` | `MinimizeWindow`, which allocates under the task-list lock of its CPU (`window.cpp:498, 511`) |
| `IpiEnter` | the handler of an inter-processor interrupt creates a process on its CPU (`apic.cpp:656-680`) |
| `EnterMem` | `__enterSpinlock(&gMemAllocLock)` |
| `ScanSkip`, `ScanTake`, `ScanPastEnd`, `ScanNoItem` | one turn of the scan (297-355), by its four outcomes |
| `EnterTask`, `Charge` | the nested task-list lock (361-394), which the creation of a process does without |
| `Free`, `LeaveMem` | removal of a descriptor (438-456); the end of every call |
| `InsertTask`, `LeaveTask` | the new task enters the list of its CPU (`task.cpp:233-247`); minimizing or making a thread without memory leaves the task-list lock (`window.cpp:515`, `Thread.cpp:212, 249`) |
| `Terminate` | `__terminateProcess`: all tasks of the process are marked |
| `IrqEnter`, `IrqDropThread`, `IrqEnterMem`, `IrqFree`, `IrqLeave` | the reaper in the timer interrupt (`task.cpp:799-814`, `malloc.cpp:604-626`) |

A task makes no step while an interrupt of its CPU is at work, nor while another task
of its CPU holds the task-list lock, which the schedule only tries (`Keepers`), and none
after it was marked, whatever lock it holds. The model therefore has the states in which
nobody leaves `gMemAllocLock` any more (`Wedged`): an interrupt waits for the task it
interrupted, a task that minimizes keeps the CPU of the holder and waits for it, or is
the holder and waits for the task-list lock it has itself. A descriptor carries the
number of the task that is current on the CPU the memory is for (`Vids`), which on
another CPU is any task there. The failing creation of a thread leaves a lock it does
not hold; no property takes the task-list lock of this module to be exclusive.
`freeProcessMemory` ends after the first block it frees, because the node it goes
on from was just zeroed by `RemoveList`; the model does the same.

`BlockStore` is what a user relies on: a set of blocks in an arena that changes by
taking one block of free bytes or giving blocks back whole. `StoreSpec` says that
PhysMem implements it, with the blocks of the ring as the store. The areas of
UserMemory implement the same abstraction.

### Scheduler

One CPU. `listed` and `first` are the ring of nodes (who is in it, and where the
reaper starts), `node` the nodes, `cur` the copy of the running one, `hw` the
registers and the FPU, each abstracted to whose contents they are and which of two
values; `own` is a history variable, what a task last left there. `pc` is the place
of a task in a call, `lock` the task-list lock, `freed` the processes whose memory
is gone, `alone` (a history too) those whose main task was ended without its threads,
and `stuck` names a state in which the CPU makes no progress any more: a
handler that waits for the task it interrupted (`ipi`), a search for a tid that is
not in the ring (`search`), a target read from an array nothing was written to
(`wild`), a reaper that lost its first node (`reap`).

`Schedule` is the whole of `__kTaskSchedule`: the merge of the two copies
(`NodeSeen`, `CurSeen`, `Merged`), the count-down of sleeps (`CountDown`), the
choice of any ready task (`Ready`; which one is the subject of Priority), `Save`,
`Load`, `Reap`. It is entered by `TickSchedules` and `Yield`, and only when the lock
is free. A timer interrupt that finds it taken changes nothing.
`Enter` begins a call that works under the lock; `SetSleep`, `DelayDone`, `Create`,
`Exit`, `EndThread`, `Bye`, `SetStatus` are the calls' steps; `IpiCreate` is a
creation asked for by another CPU. A console's kill, pause and resume (`SetStatus`) may be
for any tid, the caller's own and the idle task's too, which may stop the CPU (`NeverLost`
names it). `DeviceIrq` is any other interrupt, which ends a
halt; `Compute` changes the registers of the tasks in `Computing`. A search for a
tid goes round for ever when the tid's node has left the ring, with the lock held;
`LockReleased` names that state as its exception.

### Priority

The pick itself. A score is a base plus two ages. The base stands for all terms
that depend on what a task did (CPU ratio, windows, allocations, sleeps,
authority), which are bounded; the model leaves it open at every schedule. `delta`
grows while others are picked, `delay` is given to the task that waits longest, as
the loop of `PrioritySchedule` gives it: one running maximum, an amount that grows
with the place in the list. `Flat` are the tasks without a delta.

### KList, with ListSpec

`ListEntry.cpp` at the level of links. `ListSpec` is the list as a sequence;
`ListBehaves` says that each operation changes the sequence that the links spell as
the operation of the sequence does. A search reaches a node when every set of nodes
that is closed under `next` and has the first one has it. The other modules use
lists as sequences or sets, which this module justifies. The theorems about it and
those about heaps are in one module, ListHeap_proofs, because both walk along a chain
and share the lemmas on recursion.

### UserMemory, with Heap

What `__malloc` and `__free` do for the threads of a process. Heap has the
operators for one heap, place by place: a place holds what it would be if read as a
tag, and tags of former blocks stay behind as data, as in the code. `Chain` is the
places of the blocks, from the base along their sizes up to memory that is still zero; a
search goes on (`GoesOn`) behind each that does not serve.

A request is tried in turn, and each try is a step, because each takes the heap
lock of the process for itself and other threads come between:

| action | code |
|---|---|
| `InitProcess` | the first heap, made by `__initProcess` (`process.cpp`) |
| `FastAlloc`, `FastFails` | `fast_heap_alloc`: blocks in classes, marked in their last byte |
| `SearchHeap` | one turn of the loop over the heaps, each twice as long as the one before |
| `CreateHeap`, `SearchNew` | a new heap, which may not be had, and the search in it |
| `MallocWhole` | `__kProcessMalloc`, which gives whole pages or fails |
| `Free` | `__free` of any address, live or not, in any area |

`table` is the table of heaps as `(*lpHeapBase)[n]` reaches it: where the first
entry of the process's own array points. `Layouts` says where that is; in memory
never used before it is address zero for every process. `live` is what a process
was given and has not freed. What the process itself writes is left out.
`AreasAreStores` says that every area implements BlockStore.

### Input, with InputQueue

The ring of a device, with its head, its tail and its lock. Putting an entry is
`Enter`, `Write`, `Load`, `Store`, `Wrap`, by a task (`PutKbd`), by the interrupt of
the device (`KeyOrClick`), or by the key of the number pad (`NumsLock`), which does
not enter the lock. Taking one is `Read` (the window is on top), `HasKey` (there is
a key), then `Take` and `Leave` under the lock. While the test window is shown the
handler of the keyboard reads too, and puts back an escape. The handler runs on the
boot CPU, which does nothing else until it ends.

`InputQueue` is what a ring promises: a queue that gives each entry once, in order,
and forgets all when one comes that it has no room for, because a full ring looks
empty. `KeysAreQueue` says that Input implements it, except on a device in
`spoilt`: two readers passed the test of a ring with fewer entries, a ring was
filled under a reader that had passed it, or a key of the number pad crossed a
task that was putting one. The mouse has the same ring, without number pad and
test window. Tasks that are killed in the lock are not in this model.

### Windows

The table `gWindowsList` (`win`, `valid`), the ring through it (`order`), the number
a window was given (`id`), `g_window_lock`, `gMemAllocLock` and the task-list locks, and
what each CPU runs. To draw a window is `AllocBuf` and `Charge` (the memory for what it
covers), `FindWindow` (the name is looked up), then `GetFreeWindow` or `NoFreeWindow`,
then `LinkWindow`; to destroy one is `RemoveWindow`, `UnlinkWindow`, `FreeBuf`, `Freed`,
with the number the program has. A program does that when it is closed
(`DestroyWindow`), when it cannot read its file (`Fail`), or, in a console, by the
commands `exit` (`Exit`), after which it goes on with its number, and `cls` (`Clear`),
after which it draws a window again, which may be refused. `MinimizeWindow` enters the
task-list lock, `TakePicture` the memory lock, and then `Charge` waits for the first; only
without memory (`MinimizeFails`) does the call end. `EndProcess` and `Walk` are
`DestroyProcessWindow`, which walks the ring without the window lock and goes on from an
entry it has removed. `Kill` leaves a window behind, and `Left` names programs whose
windows were left before. The histories `why`, `cut` and `raced` say what the exceptions
of the properties are about.

What comes after a minimize that succeeds is not in the model, because the program does
not come to it: `minBuf` is zero in every window that was drawn (`video.cpp:1558`,
`main/guiHelper.cpp:158, 218, 280`), so the first `MinimizeWindow` allocates, and waits
for itself. `insertPopupItem`, `deletePopupItem` and `MaximizeWindow` are therefore never
called. The task-list lock that `initConsoleWindow` enters after it has drawn is left out:
a task that runs never finds the task-list lock of its own CPU with another task, and it
calls nothing while it has it.

### CpuStart

Each CPU does its `Steps` in turn: the boot CPU those of `__kernelEntry`, the others
those of `__kApInitProc`. `has` is what it has built. `SendInit` and `SendStartUp`
wake the others, who count themselves under `g_ap_lock` (`EnterApLock`, `ReadTotal`,
`NameSelf`, `CountSelf`, `LeaveApLock`); `AwaitCpus` compares the count with what the
firmware listed, for equality. Meanwhile the timer, the messages of other CPUs and
tasks that choose a CPU for a new task use the structures of a CPU, some without a
test that they are there; what was used and not there, and by what, is in `missed`. The
allocations of the steps count as uses as well: `__kMalloc` charges the process that the
CPU's copy of its running task names (`Charged`), which another CPU than the boot CPU
asks for three times before `__initTask0` makes it (`apic.cpp:1231, 1240, 1242`);
`__initTask0` and `InitTaskScheduleBuf` ask for memory for process 0, which is in no ring
(`"zero"`). A CPU that finds tables missing would fail; the model goes on, and `FindsAll`
speaks of it.

### IpiMailbox

The mailboxes, their locks, the destination register of each APIC, pending
interrupts, and the place of every sender and handler. A request is `Begin`,
`EnterLock`, `Claim` (the slot is valid), `Fill` (its parameters are there),
`SetDest`, `SetCmd` (the two stores of `SetIcr`, whose lock is commented out); the
timer may switch tasks between any two of them. The handler is `IrqEnter`,
`IrqLock`, `IrqHandle` (one message), `IrqLeave`. `lost` records interrupts that
were merged with a pending one or sent to a destination another task stored.

### ApicTimer

The table of callbacks of a CPU, its lock and its tick count, which runs over after
`Count` values. A task keeps one timer at a time. `AddApicTimer`, `Enter`, `Pick`,
`Fill` and `RemoveApicTimer`, `Enter`, `Clear` are the two calls; `Tick`,
`TickLocked` and `TickRemoved` are the three outcomes of a timer interrupt: what is
due is called and the schedule goes on; the table is locked by the task that was
interrupted; a callback that removes its own timer waits for the lock its caller
has. After the last two the CPU never leaves the interrupt (`hung`).

### How they fit together

PhysMem and Scheduler overlap in the reaper and in the marking of tasks: PhysMem
has the locks of the allocator and no contexts, Scheduler has the contexts and
counts a process's memory as freed or not. Priority refines the choice that
Scheduler leaves open. KList justifies the sequences and sets both use for rings.
IpiMailbox delivers what `IpiCreate` of Scheduler receives; CpuStart has the time
before its mailboxes and rings are there, on all CPUs. UserMemory asks PhysMem for
heaps and whole blocks, which either gives or refuses. Input reads which window is
on top from Windows, where the window may change at any time. ApicTimer is the part of
the timer interrupt that comes before the schedule. Windows has the task-list lock
of Scheduler, as the lock that keeps a CPU from switching, and the memory lock of
PhysMem; both modules have the minimizing of a window, where the two locks cross.

## 3. Runs

| run | instance | shows |
|---|---|---|
| `mem_alloc` | 2 CPUs; a process that creates a second thread and a process on the other CPU, which the handler of that CPU may create as well; minimizing; arena of 5 pages of 2 bytes, two sizes, 2 descriptors | blocks disjoint and in the arena, first fit, `HeldIsBacked`, `LockReleased`, `StoreSpec` |
| `sched` | idle task, a process and its second thread, all calls, which may be on any of the three by tid, creations by interrupt, sleeps up to 2; the second thread computes | contexts, the lock's holder, targets, `MemoryAfterThreads`, the dead stay dead; `DeadReaped`, `SleepEnds`, `LockReleased` |
| `priority_ages` | idle task, a realtime one, an ordinary one; bases up to three steps of an age | nobody starves |
| `list_ring` | 5 nodes, all orders of insertions and removals | `RingShape`, `ListBehaves` |
| `user_memory` | two threads of a process, a fast heap of two blocks, two heaps of 4 and 8 places, one block of physical memory, sizes 0 and 4 | `Tiled`, `UsedIsLive`, `NoRoomMissed`, `AreasAreStores` |
| `user_memory_shared` | two processes in memory never used before | **violation**, see section 6 |
| `ipi_safe` | 3 CPUs, 4 tasks, 4 messages, 2 slots | handled once, complete; none stranded |
| `ipi_live` | 2 CPUs, 2 messages each way | `SentIsHandled` |
| `timers` | 3 tasks, 2 slots, counts of 4 | `EachItsOwn`, `NotBeforeTime`, `CalledAgain` |
| `windows` | Explorer, a console, a second program that may be a console too, one killed before, 2 CPUs, 3 entries | `TableIsList`, `KeysReachOwner`, `OnlyStraysClose`, `WaitsEnd`, `OneOfAName`, `EndClears` |
| `input` | a program on the boot CPU, one on another, a keyboard with a ring of 3 | `InRing`, `KeysAreQueue`, `InterruptEnds` |
| `cpu_start` | 3 CPUs, of which the firmware lists 0 to 3; 3 creations | `FindsAll`, `CountedOnce`, `StartEnds` |

Why the bounds are enough for the cases that matter:

* *memory*: the two sizes are one and two pages, so that blocks of both sizes meet
  from both sides and a scan meets a block longer than its slot; the arena and the
  descriptors are few enough that both run out, and a request can fail in either
  way; a creation can fail; both CPUs compete for the ring, and a thread and its
  creator for the lock on one CPU. Either of them may minimize while the other is anywhere
  in a call. The process of the second CPU is there only once it was created, so one
  creation from another CPU, by a task or in the handler, meets every state of the first.
* *scheduler*: two tasks and idle are enough for a switch between any two kinds of
  task, with a third on the list; the main task and the thread are the target of
  kill, pause, resume and an end by tid while they run, wait, sleep, or are gone. A sleep of 2 is counted
  by schedules it does not run in.
* *priority*: the bases span three steps of an age, more than one schedule can make
  up for.
* *list*: five nodes have two ends and an inside with a middle.
* *memory of a process*: a heap of 8 places holds two blocks with data, so that a
  block is freed with a free neighbour before, behind, on both sides and on neither,
  and a block is split with and without room for data in the rest. A request of zero
  makes blocks of size zero, which end a search. The fast heap has one block of each
  class and physical memory one, so every way of serving a request is used up, and
  both threads come to make the same heap.
* *messages*: with three messages to one CPU its two slots run out; with two tasks
  on one CPU an interrupt strays; with messages both ways the handlers cross.
* *timers*: with three tasks two slots run out; the count runs over within two
  calls.
* *windows*: without the killed program's window there is room for all, with it one
  is refused. A console that goes on after `exit` meets a window that was drawn in its
  entry, and an entry that is free. Each step of an insertion, a removal and a walk is met by each
  step of another program on either CPU.
* *input*: a ring of 3 is full with two entries, so it is filled, wrapped and emptied
  at every place; a reader on each CPU is enough for two to pass the test of one key,
  and one of them is interrupted by the handler.
* *start*: two CPUs count themselves at a time while the boot CPU waits; fewer listed
  than started, and none at all, are the cases in which it waits for ever. Three
  creations fill both slots of a CPU and go on.

Deadlock is not checked where the system may stop for good: all messages sent, all
tasks dead but idle, a CPU that hangs.

### Fairness

* PhysMem: weak fairness of every task's step and every interrupt's: tasks are
  scheduled in turn and the timer keeps firing. Which waiter enters a spinlock next
  is open.
* Scheduler: weak fairness of the running task's call, strong fairness of
  `TickSchedules`: the timer fires for ever and asynchronously to the code, so not
  always inside a critical section.
* Priority: weak fairness of `Schedule`, the timer; none of sleeps and wake-ups.
* IpiMailbox: strong fairness of tasks and handlers, because a task runs again and
  again (no ready task starves) but not always. Nothing is assumed of locks.
* ApicTimer: weak fairness of the timer interrupt.
* Input: weak fairness of each task's step, since the timer lets every task run, and
  strong fairness of the handler's, which spins all the time and does not miss a lock
  that is free again and again. `InterruptEnds` excepts the handler that interrupted
  a task of its own CPU inside the lock: it waits for ever.
* CpuStart: weak fairness of what a CPU does next and of a pending message's
  interrupt, strong fairness of entering `g_ap_lock`.
* Windows and UserMemory: none. `WaitsEnd` says of every state that no set of calls
  waits for one another for ever, but behind the holders it names.

## 4. Proofs

All theorems hold for every value of the constants that the `ASSUME`s of a module
admit. The assumptions say that tasks belong to processes and CPUs, that sizes and
widths are numbers, and that model values like `None` are no tasks. Beyond that:

* PhysMem: a task that runs at the start is of a process that runs
  (`__initProcess` makes the first ones); the longer of two block sizes is a multiple
  of the shorter, because `pageAlignSize` rounds every request up to a power of two
  (`malloc.cpp:64-90, 268`);
* IpiMailbox: the tasks are finitely many, as are those of any list; KList: so are the
  nodes, which lie in memory;
* Windows: the windows that lie in the table at the start have different names, which
  is what `InsertWindow` left, and fewer than there are entries; the Explorer's window
  does not have the name of a console's.

Nothing is assumed of the tids a console kills, pauses or resumes.

| theorem | states |
|---|---|
| `PhysMem_proofs!TypeCorrect` | `Spec => []TypeOK` |
| `PhysMem_proofs!Disjointness` | no byte in two blocks |
| `PhysMem_proofs!InArena` | every block in the arena |
| `PhysMem_proofs!Exclusion` | one actor at a time works on the ring |
| `PhysMem_proofs!ImplementsStore` | PhysMem implements BlockStore |
| `PhysMem_proofs!NothingSkipped` | a scan has passed no free slot |
| `PhysMem_proofs!HeldStays` | what a live process holds stays its own |
| `Scheduler_proofs!SchedTypes` | `Spec => []TypeOK` |
| `Scheduler_proofs!HolderRuns` | the lock's holder runs |
| `Scheduler_proofs!CurrentStays` | the running node is never unlinked |
| `Scheduler_proofs!AlwaysATarget` | a schedule finds a target and the reaper ends, unless the idle task was stopped by its tid |
| `Scheduler_proofs!ContextsKept` | contexts survive |
| `Scheduler_proofs!KilledStaysKilled` | the action property `OverStaysOver` |
| `Scheduler_proofs!MemoryGoesLast` | memory is freed after the threads |
| `ListHeap_proofs!OneRingAlways` | the links form one ring |
| `ListHeap_proofs!RingIsList` | each operation is that of a sequence (`ListBehaves`) |
| `ListHeap_proofs!HeapsAreTiled` | the blocks of a heap tile it (`Tiled`) |
| `ListHeap_proofs!SearchMissesNothing` | a heap that refuses has no room (`NoRoomMissed`) |
| `ListHeap_proofs!AreasStayStores` | every area implements BlockStore (`AreasAreStores`) |
| `ListHeap_proofs!UsedStaysLive` | the used blocks are the live ones (`UsedIsLive`), with processes `Separate` |
| `ApicTimer_proofs!OwnTimers` | a number leads to its own timer |
| `ApicTimer_proofs!NeverEarly` | no callback is early (`NotBeforeTime`) |
| `IpiMailbox_proofs!OnceAndWhole` | a message is handled once, complete, on its CPU |
| `IpiMailbox_proofs!NoneLeft` | no message is left without an interrupt to come |
| `Input_proofs!StaysInRing` | nothing is put or taken outside the ring |
| `Input_proofs!RingIsQueue` | Input implements InputQueue (`KeysAreQueue`) |
| `Windows_proofs!TableStaysList` | table and ring agree |
| `Windows_proofs!KeysStayOwners` | a listed window's keys go to its program |
| `Windows_proofs!OnlyHoldersStall` | who waits, waits for a holder the property names |
| `Windows_proofs!NamesStayApart` | one window of a name, but for the crossed insertion |
| `Windows_proofs!StraysAlone` | windows are closed by their own programs, but for strays (`OnlyStraysClose`) |
| `Windows_proofs!WalkEndsClear` | a process that ends leaves no window (`EndClears`) |
| `CpuStart_proofs!AllIsFound` | what is used of a CPU is there, but for the uses `Excused` names |
| `CpuStart_proofs!EachIsCountedOnce` | each CPU that has counted itself is named once |

*Memory.* Every step either leaves the ring, removes one block or appends one that
`isAddrExist` found free and that ends in the arena (`RingStep`). The three tests of
`isAddrExist` are shown to be overlap of two intervals, so disjointness, the arena
and the abstract `Take` follow from that one lemma.

That a scan skips nothing is a matter of arithmetic. A scan that meets a block jumps
by the longer of the two sizes, which is right only at a multiple of that size.
`ScanInv` adds that every block lies at a slot of its size (`Aligned`), so that of two
blocks one covers the other's slots or none, and that a scan is never inside a longer
block but at its start (`AtStart`); then what it jumps over is the block it met.

That a block stays with its process (`OwnInv`) needs to know who may free it: the
calls and whom they are for, and that two do not create one task (`CallsOK`), that a
thread that runs is of a process that runs (`LivesOK`), and that a block on its way, taken and not yet returned or returned
and not yet freed, is backed as well and is on the way of one task only (`OwnersOK`).

*Scheduler.* The properties are not inductive by themselves. `IInv` adds: a task in
a call holds the lock (`CallHolds`), so it is the running one; calls are made on
what the code allows (`CallsOK`); a node not yet built has a fresh context and is not
listed (`NotYet`); the idle task is first in the ring, and as long as it runs it is ready
(`IdleReady`), which is why a target exists and why the reaper comes round, until somebody
stops the idle task; and the two copies agree on
the sleep (`SleepsAgree`). `ScheduleStep` sums up what a schedule does, whoever
enters it, and each call has a lemma of its own. For the memory of a process,
`EndedOK` says what holds from the moment the main task ended and not alone: every
thread of the process in the ring is marked, and if one of them runs it is on its way
to `Bye`, so no thread is created any more; and that a thread in the ring has a main
task that was created. A reaper that removes the main task thus finds no thread that
could run.

*Lists.* "Reached by the search" is membership in every set closed under `next`
(`OneRing`). For each operation a set that is closed after it is turned into one that
is closed before it, by adding or taking out the node.

`ListBehaves` speaks of the contents as a recursive function along the links. The
induction it takes is done by hand: `LeastNat`, from the well-foundedness of the
naturals, gives the least place at which two walks differ, and `WalkIs` that the
recursive definition has the value one expects, because a function with its equations
exists. `IsList(s)` says that the links spell the sequence s. It determines the
contents (`ContentsIs`), and each operation turns a sequence that the links spell into
the one that ListSpec names (`TailAdds`, `HeadAdds`, `RemovalTakes`).

*Heaps.* A heap is a memory of places, and where its blocks are is only known by
walking along their sizes; `Chain` is that walk, a recursive function. `__free` takes
any address, so a place that is data now and was a tag once could pass for the tag of a
block. The invariant `HeapOK` therefore says two things of a heap: there are a set of
places C and an end E of which each leads to the next, the tags before and behind
each block agreeing (`ChainIs`), and no place beside C holds a tag that has one to
match it behind (`NoneStale`). `ChainFound` shows by the least place at which they
would differ that the walk finds C, and `ChainTiles` and `RoomFound` derive the two
properties from that.

Each call writes the tags of one block or of two. `OneBlock` says what becomes of
the chain when the blocks from a to b become one, `TwoBlocks` when one is cut, and
`StaleKept` that tags left behind find no match. `AllocKeeps` and `FreeKeeps` put these
together: the heap stays in order, and its used blocks are one more, in a place no used
block had, or one less. `HeapLimit` and `ClassBase` are recursive as well; that they
have the values of their equations is `StepsExist`. `AreasStayStores` follows area by
area, the fast heap from the fact that blocks of two classes or of one never overlap
(`ClassBlocksApart`) and that each has a mark of its own (`MarksDiffer`).

`UsedStaysLive` needs more. `TableInv` says that the table of a process names its own
heaps in their order up to `count` and nothing beyond, and that a search under way is
over heaps it has; `LiveInv` then gives `live` in terms of heaps, marks and whole
blocks. The theorem assumes `Separate`: where processes are several, every layout gives
them different tables, and no block of physical memory is to be had. Both are needed.
With one table for two processes a heap of the one is found by the other, which is what
`user_memory_shared` shows; and `__free` of an address outside the heaps frees the
physical block there whoever has it (`malloc.cpp`), so a wrong free of one process
takes a live block of another. For one process `Separate` says nothing.

*Timers.* Between `Pick` and `Fill` the slot stays free, because the table changes
only under the lock or in a tick, and a tick that meets the lock changes no timer.
For the delay, `WaitOK` relates a deadline, which may have run over, to the ticks
since it was set (`waited`): unless it ran over, the time since the setting is no more
than what was waited, so a callback that is due has waited its delay.

*Messages.* `IInv` adds that the lock of a mailbox is with the sender between its
claim of a slot and its last store, or with the handler that is inside (`Holds`); that
a message has one sender (`OneSender`); and that it is in one slot from the claim
until it is handled, incomplete only while its sender is at `fill` (`OneSlot`). A
handler that is inside thus meets no incomplete message. That a command follows a
destination (`Destined`) keeps the pending interrupts among the CPUs. That none is stranded is a
balance: the slots in use are at most the senders between claim and command, plus the
pending interrupt, plus the handler that has not looked yet. Every step keeps it
(`BalanceKept`) but for a command that is merged or goes astray, which `lost` records.

*Input.* `IInv` adds that the lock is with the actor that is between entering and
leaving it (`Holds`); that the tail is behind the last place only while a reader is
between `Take` and `Leave` (`TailBack`), and the head only while a writer is between
`Store` and `Wrap` (`HeadBack`); and that two who are putting an entry on one device
are known to have crossed (`Alone`). The number pad is why the last is needed: it
puts without the lock, so that only the exception of `InRing` rules out another who
writes while it has the head behind the ring.

For the refinement, the contents of a ring are a sequence taken from places modulo its
length; lemmas about that operator say what a write beside the contents, a step of the
head, a step of the tail and a wrap of either do to it. `QInv` adds what holds of a
device where no two actors have crossed: a writer that read the head still has the
right one, and the readers past the test are at most as many as the entries
(`Backed`), so that one of them that takes an entry finds one.

*Windows.* `IInv` has a part for each property and those they rest on. The lock is
held exactly between the two halves of a change (`LockOK`), where a call comes from is
known (`CallsOK`), and so is that a window is drawn but once (`DrawnOK`). `EntriesOK`
is the agreement of table and ring with the one entry that moves left out and said by
itself; `OnceOK` that no window is in two entries or has a number that is another's;
`ListLockOK` that who minimizes or ends has the task-list lock of its CPU and keeps
the CPU, which is why waiting ends but for the three kinds of holder the property names;
`NamesOK` speaks also of windows that are looked up and not yet linked; `StrayOK` says
that a program with a window to destroy still has it, has no number, or is one that
`OnlyStraysClose` excepts; and `WalkOK` says where a walk has still to come: every window of its process
lies at the walk or below it, above where it began to go round again, unless the entry
under the walk was removed or a window was linked late.

*Start.* A CPU's place in its steps tells what it has: `Built` says that every
structure whose step is behind it is there, `Enabled` that interrupts are on only
past the step that enables them, which for the others comes after everything is
built. A CPU that others look at is counted, and it counts itself after its list and
its slots (`Reached`). What a step asks for before it has built it is found by the step
alone, so `missed` grows only by what `Excused` names (`Found`). `Locked` and `Counting` say that the CPU between entering and
leaving `g_ap_lock` alone holds it and has read the count as it is; `CountedPast` that
the first `g_cpu_total` entries of `g_cpu_id` are the CPUs past that step, each once.

Only model-checked: liveness (`LockReleased`, `DeadReaped`, `SleepEnds`,
`NoStarvation`, `SentIsHandled`, `CalledAgain`, `InterruptEnds`, `StartEnds`), which
the proof system does not cover. Every other property of the passing runs has its
theorem, `UsedIsLive` under `Separate` alone.

## 5. Not modelled

* Pages and page tables: `DISABLE_PAGE_MAPPING` is defined.
* Segments, exceptions, V86 mode, debugger: behaviour of the processor.
* `queue.cpp`: nothing calls it; the devices have rings of their own.
* Program loading: byte layouts with no state that outlives a load.
* File systems, disks, network, sound, graphics: I/O and data. Files are only written
  by the key that saves the screen, and what FAT32 then does is described in section 1.
* Ciphers, the neural network, programs under `main/`, installers, the 64-bit start.
* Of the modelled parts: the variants of the scheduler that are not built, among them
  `SwitchTaskCPU`; borrowing of a whole address space by `__malloc` and its report
  `GetProcessMemory`; the terms of a score other than the ages; the windows of threads
  and the list the Explorer keeps beside them; the popup menu and `MaximizeWindow`, which
  no program comes to (section 2); the creation of a thread by an inter-processor
  interrupt in PhysMem, whose one request is commented out (`main/Explorer.cpp:176-177`); scan codes and mouse packets; what is
  drawn; the heap table of the tasks a CPU starts with, which lies in their own memory
  (`task.cpp:924-943`); the search for the firmware's tables, and a processor without
  a local APIC; the CMOS timers.
* Steps that are one in the models and several in the code: the work on one heap, which
  is under the lock of its process. In the layout of `user_memory_shared` two processes
  work on one heap under different locks, which the code does not survive either.

## 6. Where code and comments differ

* `user_memory_shared`, `OwnHeaps`: the table of the heaps of a process is where the
  first entry of its array `heapBase` points, because `lpHeapBase` is followed twice
  (`process.cpp:361`), and nothing sets that entry. `test.cpp:31`, which makes a
  process for the tests, stores the heaps in the process's own array.

These differences are described here only.

* The descriptor of a block carries the number of the task that was current, on the CPU
  the memory is for, when it was taken (`malloc.cpp:279, 318`). For a new process that is
  its creator, or on another CPU whatever task runs there; when that one is reaped, memory
  of the running process is freed. `process.cpp:50-54` says that the code must be
  stopped before memory is freed.
* `Thread.cpp:18-20` says that a thread can end itself or another one by its tid;
  `RemoveTaskListTid` (`task.cpp:330`) marks the caller as well.
* The memory of a process is freed when the reaper removes its main task. A kill of a
  main task (`cmd.cpp:138`, `__terminateTid`) and a main task that ends a thread by its
  tid end the main task alone, so memory goes while the other threads run on, against
  `process.cpp:49-51`. `MemoryAfterThreads` names these processes (`alone`) as its
  exception.
* Sleep is counted in schedules, and every yield is a schedule
  (`taskPriority.cpp:209`), so a sleep may be much shorter than the milliseconds
  `__sleep` is given (`Utils.cpp:1605`).
* `README.md:58` says that the system does not use more than one CPU, while `apic.cpp`
  starts and uses all.
* `freeProcessMemory` frees one block of a process and not all (`malloc.cpp:618-621`).
* The timer of the boot CPU calls the scheduler before its buffers are allocated
  (`kernel.cpp:145`, `apic.cpp:1383`), and the other CPUs allocate before they have a task
  to charge (`apic.cpp:1231, 1240, 1242`, `task.cpp:941, 945, 950`), as `__initTask0` and
  `InitTaskScheduleBuf` do for process 0, which is in no ring. Each writes through a null
  address, which is memory that exists; `Excused` names them all.
* A window is never minimized: `MinimizeWindow` allocates under the task-list lock of its
  CPU (`window.cpp:498, 511`), and `__kMalloc` enters that lock again
  (`malloc.cpp:363-364`). The task hangs with both locks held, and with it whoever
  allocates. `Wedged` and `Stalled` name it as an exception.
* `kill` and `pause` of a console take any tid (`main/cmd.cpp:134-147`, `tool.cpp:185-208`).
  For the idle task's the schedule may find nobody and take a target from an array nothing
  was written to, or the reaper removes the node it would stop at.
* The command `exit` destroys the console's window and does not end it
  (`main/cmd.cpp:404-408`): it goes on with a number that is given to the next window, may
  take the keys of that one and close it, and gives back the memory of its own a second
  time. `OnlyStraysClose` names such programs; PhysMem has no second `__kFree` of an
  address, which may by then be another's.
* A creation of a thread that gets no stack leaves the task-list lock, which it does not
  hold (`Thread.cpp:212, 249`), and so lets another in beside the holder.
* The boot CPU waits until the count of CPUs equals the number the firmware lists
  (`apic.cpp:1451`): with fewer listed it waits for ever.

## 7. Plan

Done in this order: PhysMem and BlockStore; Scheduler; Priority; KList and ListSpec;
Heap; IpiMailbox; ApicTimer; Windows; Input and InputQueue; UserMemory; CpuStart. To
come:

1. *Rings read without a lock*: single stores of `InsertListTail` and `RemoveList`
   against `GetProcessMemory` and the list of children.
2. *SizeArith*: `pageAlignSize`, `getAlignSize` and tick conversions against reference
   definitions for all words of a small width.
3. *ExactTimer*: the CMOS timers, whose table all CPUs share.
4. *V86 requests*: the flag, the parameters and the answer that all askers share
   (`VM86.cpp`), with no lock around them.
5. A composition of Scheduler with IpiMailbox: creation on another CPU end to end.
6. *Heap, store by store*: the work on one heap as single writes of tags, with an
   abstract heap that is today's, so that what the lock of a process protects is checked.
