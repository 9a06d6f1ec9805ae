------------------------------- MODULE CpuStart -------------------------------
(***************************************************************************)
(* How the CPUs are brought up (__kernelEntry of kernel/kernel.cpp,          *)
(* BPCodeStart and __kApInitProc of kernel/apic.cpp).  Every CPU has         *)
(* structures of its own, found by its APIC id in global arrays: the boot    *)
(* CPU builds its own, wakes the others with broadcast INIT and start-up     *)
(* messages and waits until as many CPUs have counted themselves as the      *)
(* firmware lists; the others build theirs at the same time.  A timer        *)
(* interrupt, a message of another CPU or a task another CPU inserts uses    *)
(* these structures, some of them without a test that they are there; so     *)
(* does __kMalloc, which charges the memory for a structure to a process.    *)
(***************************************************************************)
EXTENDS Integers, Sequences, FiniteSets

CONSTANTS
    Cpus,
    Boot,       \* the CPU __kernelEntry runs on
    None,
    Listings,   \* the numbers of CPUs the firmware may list, 0 without tables
    Slots,      \* IPI_MSG_LIMIT
    Requests    \* bound: tasks that are created on a CPU chosen at run time

ASSUME StartAssumption ==
    /\ IsFiniteSet(Cpus) /\ Boot \in Cpus /\ None \notin Cpus
    /\ Listings \subseteq Nat
    /\ Slots \in Nat \ {0} /\ Requests \in Nat

Aps == Cpus \ {Boot}
N == Cardinality(Cpus)

(* What each CPU does in turn: the structures it builds are
     "list"    its ring of tasks with the first task in it, and its copy of the
               task that runs,
     "tables"  its descriptor and interrupt tables,
     "timers"  its table of timers,
     "clock"   its interrupt timer, armed,
     "levels"  the buffers of its scheduler,
     "slots"   the slots for the messages of other CPUs. *)
(* Mutant: a single start-up message. *)
KernelEntryOnce ==
    <<"list", "tables", "timers", "clock", "sti", "files", "cli", "levels", "sti",
      "slots", "init", "init", "sipi", "await", "run">>

KernelEntry ==
    <<"list", "tables", "timers", "clock", "sti", "files", "cli", "levels", "sti",
      "slots", "init", "init", "sipi", "resipi", "await", "run">>

(* Mutant: interrupts are enabled before the table of timers is there. *)
ApInitProcEarly ==
    <<"slots", "tables", "list", "enter", "clock", "leave", "levels",
      "enter", "read", "name", "count", "leave", "sti", "timers", "run">>

ApInitProc ==
    <<"slots", "tables", "list", "enter", "clock", "leave", "levels",
      "enter", "read", "name", "count", "leave", "timers", "sti", "run">>

Steps(c) == IF c = Boot THEN KernelEntry ELSE ApInitProc

VARIABLES
    at,       \* of each CPU: the place in its steps, 0 when it is not started
    has,      \* the structures each CPU has built
    iff,      \* CPUs with interrupts enabled
    reset,    \* CPUs an INIT message has reset, that wait for a start-up one
    ids,      \* g_cpu_id
    total,    \* g_cpu_total
    seq,      \* the number each CPU has read to count itself
    apLock,   \* g_ap_lock: its holder or None
    listed,   \* g_cpu_total_apci
    mail,     \* messages in the slots of each CPU
    irr,      \* CPUs with an interrupt for them pending
    tasks,    \* tasks created on each CPU
    choice,   \* the CPU that a task of each CPU has chosen for a new task
    asked,    \* requests made
    missed    \* the structures that were used and not there, and by what

vars == <<at, has, iff, reset, ids, total, seq, apLock, listed, mail, irr, tasks,
          choice, asked, missed>>
counting == <<ids, total, seq, apLock>>
asking == <<mail, irr, tasks, choice, asked>>

Init ==
    /\ at = [c \in Cpus |-> IF c = Boot THEN 1 ELSE 0]
    /\ has = [c \in Cpus |-> {}]
    /\ iff = {}
    /\ reset = {}
    /\ ids = [i \in 1 .. N |-> IF i = 1 THEN Boot ELSE None]
    /\ total = 1
    /\ seq = [c \in Cpus |-> 0]
    /\ apLock = None
    /\ listed \in Listings
    /\ mail = [c \in Cpus |-> 0]
    /\ irr = {}
    /\ tasks = [c \in Cpus |-> 0]
    /\ choice = [c \in Cpus |-> None]
    /\ asked = 0
    /\ missed = {}

At(c, step) == at[c] # 0 /\ Steps(c)[at[c]] = step

Advance(c) == at' = [at EXCEPT ![c] = @ + 1]

(* The structures of a set of <<CPU, structure>> are used by a step or handler. *)
Uses(user, S) ==
    missed' = missed \cup {<<user, u[1], u[2]>> : u \in {v \in S : v[2] \notin has[v[1]]}}

-----------------------------------------------------------------------------
(* A CPU builds its structures.  Allocations are one step: they spin for the
   memory lock, which its holder leaves. *)

Build(c, what, S) ==
    /\ At(c, what) /\ Advance(c)
    /\ has' = [has EXCEPT ![c] = @ \cup {what}]
    /\ Uses(what, S)
    /\ UNCHANGED <<iff, reset, counting, listed, asking>>

(* __kMalloc charges the process that the CPU's copy of its task names: before
   there is one that is process 0 of CPU 0, which is in no ring ("zero"). *)
Charged(c) == {<<c, "list">>} \cup IF "list" \in has[c] THEN {} ELSE {<<Boot, "zero">>}

(* __initTask0 asks for its heaps before it fills the copy, for process 0 of its
   CPU: that is whom the empty copy names on the boot CPU. *)
InitTask0(c) == Build(c, "list", {c} \X (IF c = Boot THEN {"list"} ELSE {"list", "zero"}))
InitTables(c) == Build(c, "tables", Charged(c))
InitApicTimer(c) == Build(c, "timers", Charged(c))
InitLocalApicTimer(c) == Build(c, "clock", {})
InitTaskScheduleBuf(c) == Build(c, "levels", {<<c, "zero">>})
InitSlots(c) == Build(c, "slots", Charged(c))

Enable(c) ==
    /\ At(c, "sti") /\ Advance(c)
    /\ iff' = iff \cup {c}
    /\ UNCHANGED <<has, reset, counting, listed, asking, missed>>

Disable(c) ==
    /\ At(c, "cli") /\ Advance(c)
    /\ iff' = iff \ {c}
    /\ UNCHANGED <<has, reset, counting, listed, asking, missed>>

(* initFileSystem, initDll: long, with interrupts enabled *)
ReadFiles(c) ==
    /\ At(c, "files") /\ Advance(c)
    /\ UNCHANGED <<has, iff, reset, counting, listed, asking, missed>>

-----------------------------------------------------------------------------
(* The boot CPU wakes the others.  A CPU that misses the first start-up
   message answers the second; one that runs ignores it. *)

SendInit ==
    /\ At(Boot, "init") /\ Advance(Boot)
    /\ reset' = Aps
    /\ UNCHANGED <<has, iff, counting, listed, asking, missed>>

Wake(S) ==
    /\ at' = [c \in Cpus |-> IF c \in S THEN 1 ELSE IF c = Boot THEN at[c] + 1 ELSE at[c]]
    /\ reset' = reset \ S
    /\ UNCHANGED <<has, iff, counting, listed, asking, missed>>

SendStartUp ==
    \/ At(Boot, "sipi") /\ \E S \in SUBSET reset : Wake(S)
    \/ At(Boot, "resipi") /\ Wake(reset)

AwaitCpus ==
    /\ At(Boot, "await") /\ listed = total
    /\ Advance(Boot)
    /\ UNCHANGED <<has, iff, reset, counting, listed, asking, missed>>

-----------------------------------------------------------------------------
(* A CPU counts itself. *)

(* Mutant: the lock is not waited for. *)
EnterApLockAtOnce(c) ==
    /\ At(c, "enter")
    /\ apLock' = c
    /\ Advance(c)
    /\ UNCHANGED <<has, iff, reset, ids, total, seq, listed, asking, missed>>

EnterApLock(c) ==
    /\ At(c, "enter") /\ apLock = None
    /\ apLock' = c
    /\ Advance(c)
    /\ UNCHANGED <<has, iff, reset, ids, total, seq, listed, asking, missed>>

ReadTotal(c) ==
    /\ At(c, "read") /\ Advance(c)
    /\ seq' = [seq EXCEPT ![c] = total]
    /\ UNCHANGED <<has, iff, reset, ids, total, apLock, listed, asking, missed>>

NameSelf(c) ==
    /\ At(c, "name") /\ Advance(c)
    /\ ids' = [ids EXCEPT ![seq[c] + 1] = c]
    /\ UNCHANGED <<has, iff, reset, total, seq, apLock, listed, asking, missed>>

CountSelf(c) ==
    /\ At(c, "count") /\ Advance(c)
    /\ total' = seq[c] + 1
    /\ UNCHANGED <<has, iff, reset, ids, seq, apLock, listed, asking, missed>>

LeaveApLock(c) ==
    /\ At(c, "leave") /\ Advance(c)
    /\ apLock' = None
    /\ UNCHANGED <<has, iff, reset, ids, total, seq, listed, asking, missed>>

-----------------------------------------------------------------------------
(* Interrupts and tasks use the structures. *)

(* LVTTimerIntHandler calls __kApicTimerProc and the scheduler. *)
TimerInterrupt(c) ==
    /\ c \in iff /\ "clock" \in has[c]
    /\ Uses("timer", {c} \X {"tables", "timers", "list", "levels"})
    /\ UNCHANGED <<at, has, iff, reset, counting, listed, asking>>

(* IPIIntHandler handles one message. *)
MessageInterrupt(c) ==
    /\ c \in iff /\ c \in irr
    /\ irr' = irr \ {c}
    /\ Uses("message", {c} \X {"tables", "slots", "list"})
    /\ IF mail[c] > 0
       THEN /\ mail' = [mail EXCEPT ![c] = @ - 1]
            /\ tasks' = [tasks EXCEPT ![c] = @ + 1]
       ELSE UNCHANGED <<mail, tasks>>
    /\ UNCHANGED <<at, has, iff, reset, counting, listed, choice, asked>>

(* A task runs on c besides the one that idles: the kernel's own on the boot CPU. *)
TaskRuns(c) == At(c, "run") /\ (c = Boot \/ tasks[c] > 0)

Counted == {ids[i] : i \in 1 .. total}

(* It looks at the list of every CPU that is counted and chooses one. *)
GetIdleProcessor(c) ==
    /\ TaskRuns(c) /\ choice[c] = None /\ asked < Requests
    /\ \E d \in Counted : choice' = [choice EXCEPT ![c] = d]
    /\ asked' = asked + 1
    /\ Uses("choose", Counted \X {"list"})
    /\ UNCHANGED <<at, has, iff, reset, counting, listed, mail, irr, tasks>>

(* A thread, and a process that a program asks for, are created by a message;
   without a free slot the request fails. *)
IpiCreateThread(c) ==
    LET d == choice[c]
    IN  /\ TaskRuns(c) /\ d \notin {None, c}
        /\ choice' = [choice EXCEPT ![c] = None]
        /\ Uses("send", {<<d, "slots">>})
        /\ IF mail[d] < Slots
           THEN mail' = [mail EXCEPT ![d] = @ + 1] /\ irr' = irr \cup {d}
           ELSE UNCHANGED <<mail, irr>>
        /\ UNCHANGED <<at, has, iff, reset, counting, listed, tasks, asked>>

(* __kCreateProcess puts the task into the ring of the chosen CPU by itself; so is
   a thread or process for the CPU of the task. *)
CreateProcess(c) ==
    LET d == choice[c]
    IN  /\ TaskRuns(c) /\ d # None
        /\ choice' = [choice EXCEPT ![c] = None]
        /\ Uses("create", {<<d, "list">>})
        /\ tasks' = IF "list" \in has[d] THEN [tasks EXCEPT ![d] = @ + 1] ELSE tasks
        /\ UNCHANGED <<at, has, iff, reset, counting, listed, mail, irr, asked>>

-----------------------------------------------------------------------------
BuildStep(c) ==
    \/ InitTask0(c) \/ InitTables(c) \/ InitApicTimer(c)
    \/ InitLocalApicTimer(c) \/ InitTaskScheduleBuf(c) \/ InitSlots(c)
    \/ Enable(c) \/ Disable(c) \/ ReadFiles(c)

CountStep(c) ==
    \/ EnterApLock(c) \/ ReadTotal(c) \/ NameSelf(c) \/ CountSelf(c) \/ LeaveApLock(c)

TaskStep(c) == GetIdleProcessor(c) \/ IpiCreateThread(c) \/ CreateProcess(c)

Interrupt(c) == TimerInterrupt(c) \/ MessageInterrupt(c)

BootStep == SendInit \/ SendStartUp \/ AwaitCpus

Next ==
    \/ BootStep
    \/ \E c \in Cpus : BuildStep(c) \/ CountStep(c) \/ TaskStep(c) \/ Interrupt(c)

Spec == Init /\ [][Next]_vars

(* A CPU goes on, hardware delivers a pending interrupt, and the locked bit test
   of a spin lock that is free again and again succeeds. *)
Fairness ==
    /\ WF_vars(BootStep)
    /\ \A c \in Cpus :
          /\ WF_vars(BuildStep(c)) /\ WF_vars(CountStep(c)) /\ SF_vars(EnterApLock(c))
          /\ WF_vars(MessageInterrupt(c))

FairSpec == Spec /\ Fairness

-----------------------------------------------------------------------------
Parts == {"list", "tables", "timers", "clock", "levels", "slots"}
Structures == Parts \cup {"zero"}
Users == Parts \cup {"timer", "message", "choose", "send", "create"}

TypeOK ==
    /\ at \in [Cpus -> 0 .. 16] /\ at[Boot] # 0 /\ \A c \in Aps : at[c] <= 15
    /\ has \in [Cpus -> SUBSET Parts]
    /\ iff \subseteq Cpus /\ reset \subseteq Aps /\ irr \subseteq Cpus
    /\ ids \in [1 .. N -> Cpus \cup {None}] /\ total \in 1 .. N /\ listed \in Nat
    /\ seq \in [Cpus -> 0 .. N] /\ apLock \in Cpus \cup {None}
    /\ mail \in [Cpus -> Nat] /\ tasks \in [Cpus -> Nat] /\ asked \in Nat
    /\ choice \in [Cpus -> Cpus \cup {None}]
    /\ missed \subseteq Users \X Cpus \X Structures

(* What is used and not there: the buffers of the boot CPU's scheduler, which a
   timer interrupt calls before BPCodeStart allocates them (kernel.cpp:145,
   apic.cpp:1383); and by allocations the process to charge, when a CPU that is
   not the boot CPU asks for its slots and tables before its first task is there
   (apic.cpp:1231, 1240, 1242), when __initTask0 asks for the heaps of that task
   (task.cpp:941, 945), and when the buffers are for process 0
   (taskPriority.cpp:47-70). *)
Excused ==
    ({"timer"} \X {Boot} \X {"levels"})
      \cup ({"slots", "tables"} \X Aps \X {"list"})
      \cup ({"slots", "tables"} \X {Boot} \X {"zero"})
      \cup ({"list"} \X Cpus \X {"list", "zero"})
      \cup ({"levels"} \X Cpus \X {"zero"})

(* But for that, whoever uses a structure of a CPU finds it: the handlers that run
   on a CPU as soon as its interrupts are enabled, a task of another CPU that
   looks at the rings of all CPUs that are counted, and the sender of a message. *)
FindsAll == missed \subseteq Excused

(* A CPU that has counted itself is named once in g_cpu_id, in the part the others
   read, and only such CPUs are, however many count themselves at a time. *)
HasCounted(c) ==
    c = Boot \/ (at[c] # 0 /\ \E i \in 1 .. at[c] - 1 : ApInitProc[i] = "count")

CountedOnce ==
    /\ Counted = {c \in Cpus : HasCounted(c)}
    /\ Cardinality(Counted) = total

(* When the firmware lists the CPUs that start, every CPU ends its start-up, the boot
   CPU's wait included, and is then reached by what it is sent. *)
StartEnds ==
    listed = N => <>[](irr = {} /\ \A c \in Cpus : At(c, "run"))
===============================================================================
