------------------------------- MODULE Scheduler -------------------------------
(***************************************************************************)
(* The task scheduler of one CPU (kernel/task.cpp, taskPriority.cpp), with  *)
(* the calls that change a task's state (process.cpp, Thread.cpp, tool.cpp, *)
(* sleep and yield of systemService.cpp).                                   *)
(*                                                                          *)
(* Every CPU has its own ring of task nodes, its own lock and, at a fixed   *)
(* address, a copy of the node of the task it runs.  A schedule, entered    *)
(* from the timer interrupt or from yield, compares the two copies, picks   *)
(* the next task, saves the copy to the node it came from, loads the next   *)
(* node into it, and reaps the dead.  It only tries the lock.  Creation on  *)
(* behalf of another CPU runs in an inter-processor interrupt, which spins. *)
(* A task is built with slice 1, so every schedule may switch.  Which of    *)
(* the ready tasks is picked is the subject of module Priority.             *)
(***************************************************************************)
EXTENDS Integers

CONSTANTS
    Tids,      \* tasks of the CPU, running or to be created
    Idle,      \* the task __initTask0 makes of the boot code
    None,      \* no holder of the lock
    PidOf,     \* the main task of the process of a task
    Ops,       \* calls a task makes, and interrupts other than the timer
    Computing, \* the tasks that change their registers and FPU
    Targets,   \* the tasks that kill, pause, resume and terminate are used on
    MaxSleep   \* longest sleep, in time slices

(* Calls that work under the task-list lock *)
InCall == {"sleep", "delay", "create", "exit", "exitthread", "endthread",
           "kill", "pause", "resume"}

ASSUME SchedAssumption ==
    /\ Idle \in Tids
    /\ None \notin Tids
    /\ PidOf \in [Tids -> Tids]
    /\ \A t \in Tids : PidOf[PidOf[t]] = PidOf[t] /\ (PidOf[t] = Idle <=> t = Idle)
    /\ Targets \subseteq Tids
    /\ Ops \subseteq InCall \cup {"ipi", "irq"}
    /\ Computing \subseteq Tids
    /\ MaxSleep \in Nat \ {0}

VARIABLES
    listed,   \* the tasks in the ring gTasksListPtr[id]
    first,    \* the first of them
    node,     \* the PROCESS_INFO_LIST of a task: status, sleep, registers, FPU
    cur,      \* the copy of the running task's node: tid, status, sleep
    hw,       \* what the registers and the FPU hold
    own,      \* history: what they held when a task last used them
    lock,     \* holder of g_task_array_lock[id]
    pc,       \* where a task is in its call
    freed,    \* processes whose memory was freed
    alone,    \* history: processes whose main task was ended without its threads
    stuck     \* why the CPU makes no progress any more, or "no"

vars == <<listed, first, node, cur, hw, own, lock, pc, freed, alone, stuck>>

Statuses == {"none", "run", "suspend", "over"}

(* Contents of registers and FPU: whose they are and which of two values. *)
Contents == Tids \X {0, 1}

NodeState == [status : Statuses, sleep : 0 .. MaxSleep, regs : Contents, fpu : Contents]

CopyState == [tid : Tids, status : Statuses \ {"none"}, sleep : 0 .. MaxSleep]

CallState == [op : InCall \cup {"idle", "yield", "halted", "delaying", "bye"},
              on : Tids, times : 1 .. MaxSleep]

Fresh(t) == [regs |-> <<t, 0>>, fpu |-> <<t, 0>>]

Runs(t) == stuck = "no" /\ cur.tid = t

-----------------------------------------------------------------------------
(* The schedule: SingleTssSchedule, PrioritySchedule and the reaper. *)

Dec(n) == IF n = 0 THEN 0 ELSE n - 1

(* Mutant: the node's own status is not looked at. *)
MergedCur(n, c) == c

(* The status of the two copies of the running task, brought together *)
Merged(n, c) ==
    IF "over" \in {n, c} THEN "over"
    ELSE IF "suspend" \in {n, c} THEN "suspend"
    ELSE "run"

(* The copies after SingleTssSchedule has compared them: a running task's
   sleep is counted down in both. *)
NodeSeen ==
    LET t == cur.tid
        s == Merged(node[t].status, cur.status)
    IN [node EXCEPT ![t].status = s,
                    ![t].sleep = IF s = "run" THEN Dec(@) ELSE @]

CurSeen ==
    LET s == Merged(node[cur.tid].status, cur.status)
    IN [cur EXCEPT !.status = s, !.sleep = IF s = "run" THEN Dec(@) ELSE @]

(* Mutant: whoever does not sleep is counted. *)
Awake(n) == {u \in listed : n[u].sleep = 0}

Ready(n) == {u \in listed : n[u].status = "run" /\ n[u].sleep = 0}

(* Mutant: the test of who is counted down is the wrong way round. *)
CountDownRunning(n) ==
    [n EXCEPT ![cur.tid].sleep = IF n[cur.tid].status = "run" THEN Dec(@) ELSE @]

(* PrioritySchedule counts down the sleep of the tasks that do not run. *)
CountDown(n) ==
    [u \in Tids |-> IF u # cur.tid /\ u \in listed /\ n[u].status = "run"
                      THEN [n[u] EXCEPT !.sleep = Dec(@)] ELSE n[u]]

(* Mutant: the FPU is left to the next task. *)
SaveRegs(n, c) ==
    IF c.status = "run"
      THEN [n EXCEPT ![c.tid].sleep = c.sleep, ![c.tid].regs = hw.regs]
      ELSE n

(* The running task's copy, registers and FPU are written to its node, only
   when both copies say TASK_RUN. *)
Save(n, c) ==
    IF c.status = "run"
      THEN [n EXCEPT ![c.tid] = [status |-> c.status, sleep |-> c.sleep,
                                 regs |-> hw.regs, fpu |-> hw.fpu]]
      ELSE n

Load(n, v) == [tid |-> v, status |-> n[v].status, sleep |-> n[v].sleep]

(* Mutant: unlinking belongs to the branch that frees a process. *)
DeadMains(n) == {u \in listed : n[u].status = "over" /\ PidOf[u] = u}

DeadIn(n) == {u \in listed : n[u].status = "over"}

(* The reaper walks the ring until it is back at the first node.  If that
   node is itself removed while the task just loaded stays, it never is. *)
Reap(n) ==
    /\ listed' = listed \ DeadIn(n)
    /\ freed' = freed \cup {u \in DeadIn(n) : PidOf[u] = u}
    /\ stuck' = IF first \in DeadIn(n) THEN "reap" ELSE "no"
    /\ UNCHANGED first

Switch(n, c, v) ==
    LET saved == Save(n, c) IN
    /\ node' = saved
    /\ cur' = Load(saved, v)
    /\ hw' = [regs |-> saved[v].regs, fpu |-> saved[v].fpu]
    /\ Reap(saved)

Stay(n, c) ==
    /\ node' = n
    /\ cur' = c
    /\ UNCHANGED hw
    /\ Reap(n)

(* __kTaskSchedule with the lock: with nobody ready, the target is read from
   an array that was never written; with a current task that is not in the
   ring, nothing is done. *)
Schedule ==
    LET n == CountDown(NodeSeen)
        ready == Ready(NodeSeen)
    IN
    \/ /\ cur.tid \notin listed
       /\ UNCHANGED <<listed, first, node, cur, hw, freed, stuck>>
    \/ /\ cur.tid \in listed /\ ready = {}
       /\ stuck' = "wild"
       /\ UNCHANGED <<listed, first, node, cur, hw, freed>>
    \/ /\ cur.tid \in listed
       /\ \E v \in ready :
            IF v = cur.tid THEN Stay(n, CurSeen) ELSE Switch(n, CurSeen, v)

(* Mutant: the lock is not even tried. *)
TryAnyway(l) == TRUE

(* __GetSpinlock *)
TryLock(l) == l = None

Idling == [op |-> "idle", on |-> Idle, times |-> 1]

(* An interrupt ends the halt of the running task. *)
Woken == [pc EXCEPT ![cur.tid] = IF @.op = "halted" THEN Idling ELSE @]

(* The timer interrupt; one that finds the lock taken leaves everything as it
   is and is no step. *)
TickSchedules ==
    /\ stuck = "no" /\ TryLock(lock)
    /\ Schedule
    /\ pc' = Woken
    /\ UNCHANGED <<own, lock, alone>>

-----------------------------------------------------------------------------
(* The calls of the running task.  Each takes the lock, works, leaves it. *)

Init ==
    /\ listed = {Idle}
    /\ first = Idle
    /\ node = [t \in Tids |-> [status |-> IF t = Idle THEN "run" ELSE "none",
                               sleep |-> 0, regs |-> <<t, 0>>, fpu |-> <<t, 0>>]]
    /\ cur = [tid |-> Idle, status |-> "run", sleep |-> 0]
    /\ hw = Fresh(Idle)
    /\ own = [t \in Tids |-> Fresh(t)]
    /\ lock = None
    /\ pc = [t \in Tids |-> Idling]
    /\ freed = {}
    /\ alone = {}
    /\ stuck = "no"

(* What each call is made on.  A sleep is rounded up to whole slices, at
   least one; the idle task only ever sleeps one.  A thread is created by a
   thread of its process.  A console kills, pauses and resumes any tid that was
   typed, its own and the idle task's too. *)
MayCall(t, op, u, k) ==
    CASE op = "sleep" -> u = t /\ (t = Idle => k = 1)
      [] op = "delay" -> u = t /\ t # Idle
      [] op = "create" -> k = 1 /\ node[u].status = "none"
                                /\ PidOf[u] \in {u, PidOf[t]}
      [] op = "exit" -> k = 1 /\ u = PidOf[t] /\ t # Idle
      [] op = "exitthread" -> k = 1 /\ u = t /\ PidOf[t] # t
      [] op = "endthread" -> k = 1 /\ u \in Targets \ {t} /\ PidOf[u] # u
                                   /\ t # Idle
      [] op \in {"kill", "pause", "resume"} -> k = 1 /\ u \in Targets /\ t # Idle

Enter(t, op, u, k) ==
    /\ Runs(t) /\ pc[t].op = "idle" /\ op \in InCall
    /\ lock = None
    /\ MayCall(t, op, u, k)
    /\ lock' = t
    /\ pc' = [pc EXCEPT ![t] = [op |-> op, on |-> u, times |-> k]]
    /\ UNCHANGED <<listed, first, node, cur, hw, own, freed, alone, stuck>>

(* Any other interrupt *)
DeviceIrq ==
    /\ stuck = "no" /\ "irq" \in Ops /\ pc[cur.tid].op = "halted"
    /\ pc' = Woken
    /\ UNCHANGED <<listed, first, node, cur, hw, own, lock, freed, alone, stuck>>

(* __sleep and __sleep_delay set the sleep of both copies; the first then
   yields, the second halts until the copy's sleep has run out. *)
SetSleep(t) ==
    /\ Runs(t) /\ pc[t].op \in {"sleep", "delay"}
    /\ node' = [node EXCEPT ![t].sleep = pc[t].times]
    /\ cur' = [cur EXCEPT !.sleep = pc[t].times]
    /\ lock' = None
    /\ pc' = [pc EXCEPT ![t].op = IF @ = "sleep" THEN "yield" ELSE "delaying"]
    /\ UNCHANGED <<listed, first, hw, own, freed, alone, stuck>>

(* A yield that does not switch halts until the next interrupt. *)
Yield(t) ==
    /\ Runs(t) /\ pc[t].op = "yield" /\ TryLock(lock)
    /\ Schedule
    /\ pc' = [pc EXCEPT ![t] = IF cur'.tid = t THEN [@ EXCEPT !.op = "halted"]
                                              ELSE Idling]
    /\ UNCHANGED <<own, lock, alone>>

DelayDone(t) ==
    /\ Runs(t) /\ pc[t].op = "delaying" /\ cur.sleep = 0
    /\ pc' = [pc EXCEPT ![t] = Idling]
    /\ UNCHANGED <<listed, first, node, cur, hw, own, lock, freed, alone, stuck>>

Compute(t) ==
    /\ Runs(t) /\ pc[t].op = "idle" /\ t \in Computing
    /\ hw' = [regs |-> <<t, 1 - hw.regs[2]>>, fpu |-> <<t, 1 - hw.fpu[2]>>]
    /\ own' = [own EXCEPT ![t] = hw']
    /\ UNCHANGED <<listed, first, node, cur, lock, pc, freed, alone, stuck>>

(* Mutant: a new node becomes the first of the ring. *)
InsertHead(u) == listed' = listed \cup {u} /\ first' = u

InsertTail(u) == listed' = listed \cup {u} /\ UNCHANGED first

(* InsertTaskList, after the node was built; a process that could not be
   built is inserted all the same, as TASK_OVER. *)
Insert(u) ==
    /\ InsertTail(u)
    /\ \E s \in IF PidOf[u] = u THEN {"run", "over"} ELSE {"run"} :
          node' = [node EXCEPT ![u].status = s]

Create(t) ==
    /\ Runs(t) /\ pc[t].op = "create"
    /\ Insert(pc[t].on)
    /\ lock' = None
    /\ pc' = [pc EXCEPT ![t] = Idling]
    /\ UNCHANGED <<cur, hw, own, freed, alone, stuck>>

(* Mutant: only the main task of the process is marked. *)
TasksMainOnly(p) == {p}

TasksOf(p) == {u \in listed : PidOf[u] = p}

(* RemoveTaskListPid and RemoveTaskListTid look for a tid in the ring, mark
   the caller, in both copies, and what they were asked to end.  The search
   only stops at the node: for a tid that is not in the ring it never ends. *)
Mark(t, u, S) ==
    \/ /\ u \notin listed
       /\ stuck' = "search"
       /\ UNCHANGED <<node, cur, lock, pc>>
    \/ /\ u \in listed
       /\ node' = [v \in Tids |-> IF v \in S \cup {t}
                     THEN [node[v] EXCEPT !.status = "over"] ELSE node[v]]
       /\ cur' = [cur EXCEPT !.status = "over"]
       /\ lock' = None
       /\ pc' = [pc EXCEPT ![t].op = "bye"]
       /\ UNCHANGED stuck

(* __terminateProcess: the process of the caller, whatever tid is given. *)
Exit(t) ==
    /\ Runs(t) /\ pc[t].op = "exit"
    /\ Mark(t, PidOf[t], TasksOf(PidOf[t]))
    /\ UNCHANGED <<listed, first, hw, own, freed, alone>>

(* The processes whose main task ends with S and some thread does not *)
Orphaned(S) ==
    {p \in S : PidOf[p] = p /\ \E u \in TasksOf(p) \ S : node[u].status # "over"}

(* __kTerminateThread: the caller ends too, be it a main task. *)
EndThread(t) ==
    /\ Runs(t) /\ pc[t].op \in {"exitthread", "endthread"}
    /\ Mark(t, pc[t].on, {pc[t].on})
    /\ alone' = alone \cup Orphaned({t, pc[t].on})
    /\ UNCHANGED <<listed, first, hw, own, freed>>

(* Both end with __sleep(-1), which is one slice. *)
Bye(t) ==
    /\ Runs(t) /\ pc[t].op = "bye" /\ lock = None
    /\ lock' = t
    /\ pc' = [pc EXCEPT ![t] = [op |-> "sleep", on |-> t, times |-> 1]]
    /\ UNCHANGED <<listed, first, node, cur, hw, own, freed, alone, stuck>>

(* Mutant: the lock is left only if the task was found. *)
LeftIfFound(found) == IF found THEN None ELSE lock

Left(found) == None

(* __terminateTid, __pauseTid and __resumeTid find a task by tid among those
   that are TASK_RUN and set the status of its node, not of the copy. *)
SetStatus(t) ==
    LET u == pc[t].on
        found == u \in listed /\ node[u].status = "run"
        s == CASE pc[t].op = "kill" -> "over"
               [] pc[t].op = "pause" -> "suspend"
               [] pc[t].op = "resume" -> "run"
    IN
    /\ Runs(t) /\ pc[t].op \in {"kill", "pause", "resume"}
    /\ node' = IF found THEN [node EXCEPT ![u].status = s] ELSE node
    /\ lock' = Left(found)
    /\ pc' = [pc EXCEPT ![t] = Idling]
    /\ alone' = IF found /\ s = "over" /\ PidOf[u] = u THEN alone \cup {u} ELSE alone
    /\ UNCHANGED <<listed, first, cur, hw, own, freed, stuck>>

(* IPIIntHandler creates a process on top of whatever runs; the interrupted
   task cannot go on while the handler spins on the lock it holds. *)
IpiCreate(u) ==
    /\ stuck = "no" /\ "ipi" \in Ops
    /\ PidOf[u] = u /\ node[u].status = "none"
    /\ \A t \in Tids : pc[t].op = "create" => pc[t].on # u
    /\ \/ lock = None /\ Insert(u) /\ pc' = Woken /\ UNCHANGED stuck
       \/ lock # None /\ stuck' = "ipi" /\ UNCHANGED <<listed, first, node, pc>>
    /\ UNCHANGED <<cur, hw, own, lock, freed, alone>>

Call(t) == \E op \in Ops, u \in Tids, k \in 1 .. MaxSleep : Enter(t, op, u, k)

(* The steps of a call that is under way *)
Work(t) ==
    \/ SetSleep(t) \/ Yield(t) \/ DelayDone(t) \/ Create(t)
    \/ Exit(t) \/ EndThread(t) \/ Bye(t) \/ SetStatus(t)

Next ==
    \/ \E t \in Tids : Call(t) \/ Work(t) \/ Compute(t) \/ IpiCreate(t)
    \/ TickSchedules \/ DeviceIrq

Spec == Init /\ [][Next]_vars

(***************************************************************************)
(* The running task goes on with its call, and the timer fires for ever,    *)
(* asynchronously to the code, so not always inside a critical section.     *)
(***************************************************************************)
Fairness ==
    /\ \A t \in Tids : WF_vars(Work(t))
    /\ SF_vars(TickSchedules)

FairSpec == Spec /\ Fairness

-----------------------------------------------------------------------------
(* Types: nodes, the running copy, calls. *)
TypeOK ==
    /\ listed \subseteq Tids
    /\ first \in Tids
    /\ node \in [Tids -> NodeState]
    /\ cur \in CopyState
    /\ hw \in [regs : Contents, fpu : Contents]
    /\ own \in [Tids -> [regs : Contents, fpu : Contents]]
    /\ lock \in Tids \cup {None}
    /\ pc \in [Tids -> CallState]
    /\ freed \subseteq Tids /\ alone \subseteq Tids
    /\ stuck \in {"no", "ipi", "search", "wild", "reap"}

(* README.md:49 (the registers of the old task are saved, those of the new
   one replace them): a running task finds in the registers and in the FPU
   what it left there, and a task that waits has it in its node, whoever was
   killed, paused, created or put to sleep meanwhile. *)
ContextIntact ==
    stuck = "no" =>
        /\ own[cur.tid] = hw
        /\ \A u \in Tids : u \in listed /\ u # cur.tid /\ node[u].status = "run" =>
               own[u] = [regs |-> node[u].regs, fpu |-> node[u].fpu]

(* The lock is only ever held by the task that runs: a schedule never takes
   the CPU from a task inside a critical section. *)
HolderIsCurrent == lock # None => lock = cur.tid

(* The node of the task the CPU runs is in the ring: the reaper, which runs
   right after the switch, does not unlink it.  Otherwise every schedule ends
   with an error message and the CPU never switches again. *)
CurrentListed == cur.tid \in listed

(* As long as the idle task runs there is a ready task to pick, so the target
   is never read from the unwritten array, and the reaper comes back to the
   first node.  Only the kill or the pause of a typed tid, which is not checked,
   stops the idle task (cmd.cpp:134-147, tool.cpp:185-208). *)
NeverLost == stuck \in {"wild", "reap"} => node[Idle].status # "run"

(* process.cpp:49-50 (first stop the code, then free the memory; first the
   threads, then the main task): memory of a process is freed when no thread
   of it can run any more.  Only a process whose main task was ended by itself,
   by the kill of cmd.cpp:138 or by a thread's end that it called, loses its
   memory before. *)
MemoryAfterThreads ==
    \A u \in Tids :
        u \in listed /\ node[u].status = "run" => PidOf[u] \notin freed \ alone

(* What was killed stays killed: no write-back of the running copy, no pause
   and no resume makes a task that was marked TASK_OVER run again. *)
OverStaysOver ==
    [][\A u \in Tids : node[u].status = "over" => node'[u].status = "over"]_vars

(* A task that was killed leaves the ring, and its memory with it. *)
DeadReaped ==
    \A u \in Tids :
        (u \in listed /\ node[u].status = "over") ~> (u \notin listed \/ stuck # "no")

(* A sleep ends, whatever the others do, unless the sleeper is stopped. *)
SleepEnds ==
    \A u \in Tids :
        (u \in listed /\ node[u].sleep > 0)
            ~> (node[u].sleep = 0 \/ node[u].status # "run" \/ stuck # "no")

(* A critical section ends, with two exceptions: an interrupt that waits for
   the lock of the task it interrupted, and the search for a thread that has
   left the ring, which ends only at its node (task.cpp:318-349). *)
LockReleased == (lock # None) ~> (lock = None \/ stuck \in {"ipi", "search"})

=============================================================================
