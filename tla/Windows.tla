-------------------------------- MODULE Windows --------------------------------
(***************************************************************************)
(* The windows of the desktop (kernel/window.cpp, with the calls that draw  *)
(* and destroy a window in video.cpp, those that end a process in task.cpp  *)
(* and the console's commands in main/cmd.cpp).  gWindowsList is a table    *)
(* whose valid entries are linked in a ring; the last of the ring is the    *)
(* top window, and only the task whose number is that of its entry is given *)
(* keys and clicks.  A console that is told to exit destroys its window and *)
(* goes on with its number.                                                 *)
(*                                                                          *)
(* InsertWindow and RemoveWindow change table and ring under one lock, with *)
(* interrupts on; the test for the top and the walk that ends a process do  *)
(* not take it.  Memory for a window is taken and given back under          *)
(* gMemAllocLock, and is charged to the process under the task-list lock of *)
(* its CPU.  A CPU does not switch while that lock is held.  To minimize a  *)
(* window, a task enters it first, and so never comes to an end.            *)
(***************************************************************************)
EXTENDS Integers, Sequences, SequencesExt

CONSTANTS
    Tasks,      \* processes; each has one window, which is named by its task
    Desk,       \* the Explorer, whose window is never closed or minimized
    Console,    \* the name of the window of a console
    Victims,    \* tasks that another task of their CPU may kill
    Left,       \* tasks that were killed before and may have left a window
    Cpus,
    CpuOf,
    First,      \* the task that runs first on each CPU
    Namings,    \* the names the programs may give their windows
    None,
    Slots       \* entries of gWindowsList, without the head

ASSUME WindowsAssumption ==
    /\ Desk \in Tasks /\ Victims \subseteq Tasks
    /\ CpuOf \in [Tasks -> Cpus]
    /\ First \in [Cpus -> Tasks] /\ (\A c \in Cpus : CpuOf[First[c]] = c)
    /\ Namings \subseteq [Tasks -> Tasks] /\ (\A f \in Namings : f[Desk] # Console)
    /\ \A f \in Namings : \A x, y \in ToSet(Left) \cup {Desk} : f[x] = f[y] => x = y
    /\ Left \in Seq(Tasks \ {Desk}) /\ (\A i, j \in DOMAIN Left : Left[i] = Left[j] => i = j)
    /\ Slots \in Nat \ {0} /\ Len(Left) < Slots
    /\ \A c \in Cpus : \A i \in DOMAIN Left : First[c] # Left[i]
    /\ None \notin Tasks

VARIABLES
    name,      \* the name of each window
    order,     \* the ring: the last entry is the top window
    win,       \* the window of each entry
    valid,     \* the entries that are in use
    id,        \* of each window: its number, 0 before it has one
    lock,      \* g_window_lock: a task or None
    memLock,   \* gMemAllocLock: a task or None
    listLock,  \* g_task_array_lock of each CPU: a task or None
    running,   \* the task a CPU runs
    state,     \* of each task: "new", "up", "over", "killed"
    pc,        \* of each task: what it is about to do
    why,       \* history: why a program has no window
    cut,       \* history: tasks whose walk stood on an entry that was removed
    raced      \* history: windows whose name was looked up before another of
               \* that name was inserted

vars == <<name, order, win, valid, id, lock, memLock, listLock, running,
          state, pc, why, cut, raced>>

Slot == 1 .. Slots

Ops == {"idle", "got", "alloc", "charge", "find", "insert", "link", "minimize",
        "picture", "remove", "unlink", "free", "freeing", "end", "walk"}

(* A call: the entry it has reached, the entry where a walk began, and what
   called. *)
Call == [op : Ops, slot : 0 .. Slots, from : 0 .. Slots,
         by : {"open", "close", "exit", "cls", "minimize", "end"}]

Idle == [op |-> "idle", slot |-> 0, from |-> 0, by |-> "open"]

Runs(t) == running[CpuOf[t]] = t /\ state[t] \in {"new", "up"}

At(t, op) == Runs(t) /\ pc[t].op = op

Listed(w) == \E i \in 1 .. Len(order) : win[order[i]] = w

-----------------------------------------------------------------------------

Init ==
    /\ name \in Namings
    /\ raced = {}
    /\ \E n \in 0 .. Len(Left) :
          /\ order = [s \in 1 .. n + 1 |-> s]
          /\ valid = 1 .. n + 1
          /\ win = [s \in Slot |->
                CASE s = 1 -> Desk [] s \in 2 .. n + 1 -> Left[s - 1] [] OTHER -> None]
    /\ id = [t \in Tasks |-> IF \E s \in Slot : win[s] = t THEN CHOOSE s \in Slot : win[s] = t ELSE 0]
    /\ lock = None
    /\ memLock = None
    /\ listLock = [c \in Cpus |-> None]
    /\ running = First
    /\ state = [t \in Tasks |->
          IF t = Desk THEN "up" ELSE IF t \in ToSet(Left) THEN "killed" ELSE "new"]
    /\ pc = [t \in Tasks |-> Idle]
    /\ why = [t \in Tasks |-> "none"]
    /\ cut = {}

(* Mutant: a task does not wait for the lock. *)
IsOpen == TRUE

IsFree == lock = None

-----------------------------------------------------------------------------
(* __drawWindow: memory for what the window covers, then InsertWindow.  The
   number it returns, zero if it fails, becomes that of the window. *)

DrawWindow(t) ==
    /\ At(t, "idle") /\ state[t] = "new"
    /\ pc' = [pc EXCEPT ![t].op = "alloc"]
    /\ UNCHANGED <<name, order, win, valid, id, lock, memLock, listLock, running, state, why, cut, raced>>

AllocBuf(t) ==
    /\ At(t, "alloc") /\ memLock = None
    /\ memLock' = t
    /\ pc' = [pc EXCEPT ![t].op = "charge"]
    /\ UNCHANGED <<name, order, win, valid, id, lock, listLock, running, state, why, cut, raced>>

(* The memory is charged under the task-list lock, which a task that minimizes
   its window holds already: it does not come further. *)
Charge(t) ==
    /\ At(t, "charge") /\ listLock[CpuOf[t]] = None
    /\ memLock' = None
    /\ pc' = [pc EXCEPT ![t].op = "find"]
    /\ UNCHANGED <<name, order, win, valid, id, lock, listLock, running, state, why, cut, raced>>

Drawn(t) ==
    /\ pc' = [pc EXCEPT ![t] = Idle]
    /\ state' = [state EXCEPT ![t] = "up"]

(* Mutant: a window that is refused keeps the number it had. *)
NumberBefore(t) == id[t]

NumberRefused(t) == 0

Refused(t) ==
    /\ id' = [id EXCEPT ![t] = NumberRefused(t)]
    /\ why' = [why EXCEPT ![t] = "refused"]
    /\ Drawn(t)

(* Mutant: the search stops before the last window. *)
NameBelowTop(w) == \E i \in 1 .. Len(order) - 1 : name[win[order[i]]] = name[w]

NameInUse(w) == \E i \in 1 .. Len(order) : name[win[order[i]]] = name[w]

(* Windows of the same name that are about to be inserted *)
Unseen(t) == {u \in Tasks : pc[u].op = "insert" /\ name[u] = name[t]}

(* The name is looked up under the lock, which is left before the insertion. *)
FindWindow(t) ==
    /\ At(t, "find") /\ IsFree
    /\ \/ ~NameInUse(t)
          /\ pc' = [pc EXCEPT ![t].op = "insert"]
          /\ raced' = raced \cup Unseen(t)
          /\ UNCHANGED <<id, state, why>>
       \/ NameInUse(t) /\ Refused(t) /\ UNCHANGED raced
    /\ UNCHANGED <<name, order, win, valid, lock, memLock, listLock, running, cut>>

IsLeastFree(s) == s \in Slot \ valid /\ \A r \in Slot \ valid : s <= r

(* Mutant: the number of a window is its place in the ring. *)
PlaceInRing(s) == Len(order) + 1

NumberOf(s) == s

GetFreeWindow(t) ==
    /\ At(t, "insert") /\ IsFree
    /\ \E s \in Slot :
          /\ IsLeastFree(s)
          /\ valid' = valid \cup {s}
          /\ win' = [win EXCEPT ![s] = t]
          /\ id' = [id EXCEPT ![t] = NumberOf(s)]
          /\ pc' = [pc EXCEPT ![t].op = "link", ![t].slot = s]
    /\ lock' = t
    /\ UNCHANGED <<name, order, memLock, listLock, running, state, why, cut, raced>>

NoFreeWindow(t) ==
    /\ At(t, "insert") /\ IsFree /\ Slot \subseteq valid
    /\ Refused(t)
    /\ UNCHANGED <<name, order, win, valid, lock, memLock, listLock, running, cut, raced>>

LinkWindow(t) ==
    /\ At(t, "link")
    /\ order' = Append(order, pc[t].slot)
    /\ lock' = None
    /\ why' = [why EXCEPT ![t] = "none"]
    /\ Drawn(t)
    /\ UNCHANGED <<name, win, valid, id, memLock, listLock, running, cut, raced>>

-----------------------------------------------------------------------------
(* What a program does with a key or a click *)

(* isTopWindow: the last of the ring, and its window has this number *)
IsTopWindow(n) ==
    /\ order # <<>> /\ Last(order) = n
    /\ win[n] # None /\ id[win[n]] = n

Read(t) ==
    /\ At(t, "idle") /\ state[t] = "up" /\ IsTopWindow(id[t])
    /\ pc' = [pc EXCEPT ![t].op = "got"]
    /\ UNCHANGED <<name, order, win, valid, id, lock, memLock, listLock, running, state, why, cut, raced>>

(* Any other key *)
Ignore(t) ==
    /\ At(t, "got")
    /\ pc' = [pc EXCEPT ![t] = Idle]
    /\ UNCHANGED <<name, order, win, valid, id, lock, memLock, listLock, running, state, why, cut, raced>>

IsConsole(t) == name[t] = Console

(* __DestroyWindow, with the number the program has *)
CallDestroy(t, by) ==
    /\ pc' = [pc EXCEPT ![t].op = "remove", ![t].slot = id[t], ![t].by = by]
    /\ UNCHANGED <<name, order, win, valid, id, lock, memLock, listLock, running, state, cut, raced>>

(* Escape or a click on the cross; the program then ends. *)
DestroyWindow(t) == At(t, "got") /\ t # Desk /\ CallDestroy(t, "close") /\ UNCHANGED why

(* A program that cannot read its file; its window may have been refused. *)
Fail(t) ==
    /\ At(t, "idle") /\ state[t] = "up" /\ t # Desk /\ ~IsConsole(t)
    /\ CallDestroy(t, "close") /\ UNCHANGED why

(* The commands "exit", after which the console goes on, and "cls", after
   which it draws its window again *)
Exit(t) ==
    /\ At(t, "got") /\ IsConsole(t)
    /\ CallDestroy(t, "exit")
    /\ why' = [why EXCEPT ![t] = "closed"]

Clear(t) == At(t, "got") /\ IsConsole(t) /\ CallDestroy(t, "cls") /\ UNCHANGED why

Minimize(t) ==
    /\ At(t, "got") /\ t # Desk
    /\ pc' = [pc EXCEPT ![t].op = "minimize"]
    /\ UNCHANGED <<name, order, win, valid, id, lock, memLock, listLock, running, state, why, cut, raced>>

(* MinimizeWindow needs memory for the picture on the screen, and asks for it
   under the task-list lock. *)
MinimizeWindow(t) ==
    /\ At(t, "minimize") /\ listLock[CpuOf[t]] = None
    /\ listLock' = [listLock EXCEPT ![CpuOf[t]] = t]
    /\ pc' = [pc EXCEPT ![t].op = "picture", ![t].by = "minimize"]
    /\ UNCHANGED <<name, order, win, valid, id, lock, memLock, running, state, why, cut, raced>>

TakePicture(t) ==
    /\ At(t, "picture") /\ memLock = None
    /\ memLock' = t
    /\ pc' = [pc EXCEPT ![t].op = "charge"]
    /\ UNCHANGED <<name, order, win, valid, id, lock, listLock, running, state, why, cut, raced>>

(* Mutant: the task-list lock is not left if there is no memory. *)
KeepsList(t) == listLock

LeavesList(t) == [listLock EXCEPT ![CpuOf[t]] = None]

(* Leave the task-list lock; the task goes on or is over. *)
LeaveList(t, s) ==
    /\ listLock' = LeavesList(t)
    /\ pc' = [pc EXCEPT ![t] = Idle]
    /\ state' = [state EXCEPT ![t] = s]

(* There is no memory for the picture. *)
MinimizeFails(t) ==
    /\ At(t, "picture") /\ memLock = None
    /\ LeaveList(t, "up")
    /\ UNCHANGED <<name, order, win, valid, id, lock, memLock, running, why, cut, raced>>

-----------------------------------------------------------------------------
(* RemoveWindow, for a window that is destroyed and for the walk that ends a
   process *)

(* The walk does not move on from an entry it has removed. *)
Removed(t) ==
    CASE pc[t].by \in {"close", "exit", "cls"} ->
            /\ pc' = [pc EXCEPT ![t].op = "free"]
            /\ UNCHANGED <<listLock, state>>
      [] pc[t].by = "end" /\ pc[t].slot = pc[t].from -> LeaveList(t, "over")
      [] OTHER ->
            /\ pc' = [pc EXCEPT ![t].op = "walk"]
            /\ UNCHANGED <<listLock, state>>

RemoveWindow(t) ==
    /\ At(t, "remove") /\ IsFree
    /\ \/ /\ pc[t].slot \in valid
          /\ valid' = valid \ {pc[t].slot}
          /\ lock' = t
          /\ pc' = [pc EXCEPT ![t].op = "unlink"]
          /\ UNCHANGED <<listLock, state>>
       \/ /\ pc[t].slot \notin valid
          /\ Removed(t)
          /\ UNCHANGED <<valid, lock>>
    /\ UNCHANGED <<name, order, win, id, memLock, running, why, cut, raced>>

(* The walks of others that stand on entry s *)
CutAt(t, s) == {u \in Tasks \ {t} : pc[u].by = "end" /\ pc[u].slot = s}

UnlinkWindow(t) ==
    LET s == pc[t].slot IN
    /\ At(t, "unlink")
    /\ \E i \in 1 .. Len(order) : order[i] = s /\ order' = RemoveAt(order, i)
    /\ win' = [win EXCEPT ![s] = None]
    /\ lock' = None
    /\ why' = IF win[s] = t THEN why ELSE [why EXCEPT ![win[s]] = "taken"]
    /\ cut' = cut \cup CutAt(t, s)
    /\ Removed(t)
    /\ UNCHANGED <<name, valid, id, memLock, running, raced>>

(* The memory of the window is given back; then the program ends, goes on or
   draws its window again. *)
FreeBuf(t) ==
    /\ At(t, "free") /\ memLock = None
    /\ memLock' = t
    /\ pc' = [pc EXCEPT ![t].op = "freeing"]
    /\ UNCHANGED <<name, order, win, valid, id, lock, listLock, running, state, why, cut, raced>>

Freed(t) ==
    /\ At(t, "freeing")
    /\ memLock' = None
    /\ pc' = [pc EXCEPT ![t] =
          [Idle EXCEPT !.op = CASE pc[t].by = "close" -> "end"
                                [] pc[t].by = "cls" -> "alloc"
                                [] OTHER -> "idle"]]
    /\ UNCHANGED <<name, order, win, valid, id, lock, listLock, running, state, why, cut, raced>>

-----------------------------------------------------------------------------
(* The end of a process: RemoveTaskListPid with DestroyProcessWindow *)

(* A program may end without closing its window, by a fault for example. *)
End(t) ==
    /\ At(t, "idle") /\ state[t] = "up" /\ t # Desk
    /\ pc' = [pc EXCEPT ![t].op = "end"]
    /\ UNCHANGED <<name, order, win, valid, id, lock, memLock, listLock, running, state, why, cut, raced>>

TopEntry == IF order = <<>> THEN 0 ELSE Last(order)

EndProcess(t) ==
    /\ At(t, "end") /\ listLock[CpuOf[t]] = None
    /\ listLock' = [listLock EXCEPT ![CpuOf[t]] = t]
    /\ pc' = [pc EXCEPT ![t].op = "walk", ![t].by = "end",
                        ![t].slot = TopEntry, ![t].from = TopEntry]
    /\ UNCHANGED <<name, order, win, valid, id, lock, memLock, running, state, why, cut, raced>>

(* The entry before s in the ring; an entry that was removed has no links. *)
Before(s) ==
    IF \E i \in 1 .. Len(order) : order[i] = s
      THEN LET i == CHOOSE i \in 1 .. Len(order) : order[i] = s
           IN order[IF i = 1 THEN Len(order) ELSE i - 1]
      ELSE 0

(* Mutant: a window is its process's if the number is. *)
OwnNumber(t, s) == s \in valid /\ id[t] = s

Own(t, s) == s \in valid /\ win[s] = t

(* One turn of the loop, without the lock *)
Walk(t) ==
    LET s == pc[t].slot IN
    /\ At(t, "walk")
    /\ \/ /\ s # 0 /\ Own(t, s)
          /\ pc' = [pc EXCEPT ![t].op = "remove"]
          /\ UNCHANGED <<listLock, state>>
       \/ /\ s # 0 /\ ~Own(t, s) /\ Before(s) \notin {0, pc[t].from}
          /\ pc' = [pc EXCEPT ![t].slot = Before(s)]
          /\ UNCHANGED <<listLock, state>>
       \/ /\ s # 0 => ~Own(t, s) /\ Before(s) \in {0, pc[t].from}
          /\ LeaveList(t, "over")
    /\ UNCHANGED <<name, order, win, valid, id, lock, memLock, running, why, cut, raced>>

(* __terminateTid marks a task of its own CPU and leaves its window. *)
Kill(t, u) ==
    /\ At(t, "idle") /\ u \in Victims \ {t} /\ CpuOf[u] = CpuOf[t]
    /\ state[u] \in {"new", "up"} /\ listLock[CpuOf[t]] = None
    /\ state' = [state EXCEPT ![u] = "killed"]
    /\ UNCHANGED <<name, order, win, valid, id, lock, memLock, listLock, running, pc, why, cut, raced>>

(* A timer interrupt only switches when the task-list lock is free. *)
SwitchTo(t) ==
    /\ listLock[CpuOf[t]] = None
    /\ running[CpuOf[t]] # t /\ state[t] \in {"new", "up"}
    /\ running' = [running EXCEPT ![CpuOf[t]] = t]
    /\ UNCHANGED <<name, order, win, valid, id, lock, memLock, listLock, state, pc, why, cut, raced>>

-----------------------------------------------------------------------------

(* What a task does once it has called *)
Step(t) ==
    \/ AllocBuf(t) \/ Charge(t)
    \/ FindWindow(t) \/ GetFreeWindow(t) \/ NoFreeWindow(t) \/ LinkWindow(t)
    \/ MinimizeWindow(t) \/ TakePicture(t) \/ MinimizeFails(t)
    \/ RemoveWindow(t) \/ UnlinkWindow(t) \/ FreeBuf(t) \/ Freed(t)
    \/ EndProcess(t) \/ Walk(t)

Decide(t) ==
    \/ DrawWindow(t) \/ Read(t) \/ Ignore(t) \/ DestroyWindow(t) \/ Fail(t)
    \/ Exit(t) \/ Clear(t) \/ Minimize(t) \/ End(t)
    \/ \E u \in Tasks : Kill(t, u)

Next == \E t \in Tasks : Step(t) \/ Decide(t) \/ SwitchTo(t)

Spec == Init /\ [][Next]_vars

-----------------------------------------------------------------------------
TypeOK ==
    /\ order \in Seq(Slot) /\ valid \subseteq Slot
    /\ win \in [Slot -> Tasks \cup {None}]
    /\ id \in [Tasks -> 0 .. Slots]
    /\ lock \in Tasks \cup {None}
    /\ memLock \in Tasks \cup {None}
    /\ listLock \in [Cpus -> Tasks \cup {None}]
    /\ running \in [Cpus -> Tasks]
    /\ state \in [Tasks -> {"new", "up", "over", "killed"}]
    /\ pc \in [Tasks -> Call]
    /\ why \in [Tasks -> {"none", "refused", "closed", "taken"}]
    /\ name \in [Tasks -> Tasks] /\ raced \subseteq Tasks
    /\ cut \subseteq Tasks

(* The entry that the holder of the lock is adding or removing *)
Moving == {pc[t].slot : t \in {u \in Tasks : lock = u}}

(* Table and ring agree whenever the lock is free, and but for one entry when
   it is not: the entries in use are those in the ring, once each, and have a
   window, whatever numbers, stale or zero, RemoveWindow was given. *)
TableIsList ==
    /\ TypeOK
    /\ \A i, j \in 1 .. Len(order) : order[i] = order[j] => i = j
    /\ \A s \in Slot \ Moving :
          /\ s \in valid <=> \E i \in 1 .. Len(order) : order[i] = s
          /\ s \in valid <=> win[s] # None

(* The number of a listed window is that of its entry, as window.cpp:253-257
   expects; so a program that takes a key that is not for it is one whose own
   window is not listed. *)
KeysReachOwner ==
    \A i \in 1 .. Len(order) : id[win[order[i]]] = order[i]

(* A window leaves the ring by its own program, unless it is by a console that
   went on after "exit", by a program whose window was taken from the ring so,
   or by a walk whose entry was removed under it (cmd.cpp:404-408). *)
OnlyStraysClose ==
    [][\A w \in Tasks : Listed(w) /\ ~Listed(w)' =>
           \E t \in Tasks : At(t, "unlink") /\
               (t = w \/ why[t] \in {"closed", "taken"} \/ t \in cut)]_vars

(* Two windows of one name are not in the ring together, unless one was looked
   up before the other, already past its own search, was inserted. *)
OneOfAName ==
    \A i, j \in 1 .. Len(order) :
        i < j /\ name[win[order[i]]] = name[win[order[j]]] =>
            {win[order[i]], win[order[j]]} \cap raced # {}

(* The walk of a process that ends finds its window in a ring that others
   change meanwhile, unless the entry it stands on is removed under it. *)
EndClears ==
    [][\A t \in Tasks : state[t] # "over" /\ state'[t] = "over" =>
           ~(\E s \in ToSet(order) : Own(t, s)) \/ t \in cut]_vars

(* t cannot go on before u does: u has the lock t waits for, or keeps the CPU
   of t from switching to t.  A killed holder of a lock waits for itself. *)
WaitsFor(t, u) ==
    \/ /\ Runs(t)
       /\ \/ pc[t].op \in {"find", "insert", "remove"} /\ lock = u
          \/ pc[t].op \in {"alloc", "picture", "free"} /\ memLock = u
          \/ pc[t].op \in {"minimize", "end", "charge"} /\ listLock[CpuOf[t]] = u
    \/ ~Runs(t) /\ listLock[CpuOf[t]] = u
    \/ state[t] = "killed" /\ t \in {lock, memLock} /\ u = t

(* The three ways in which a holder of a lock does not come to leave it: it
   was killed; it was interrupted, and the task that runs in its place, with
   the task-list lock of their CPU, waits for a lock itself; or it minimizes
   its window and waits for the task-list lock it holds (window.cpp:498, 511). *)
Stalled(h, S) ==
    /\ h \in {lock, memLock}
    /\ \/ state[h] = "killed"
       \/ ~Runs(h) /\ \E t \in S : listLock[CpuOf[h]] = t /\ pc[t].op \in {"remove", "picture"}
       \/ pc[h].op = "charge" /\ listLock[CpuOf[h]] = h

(* No calls wait for each other for ever but behind such a holder. *)
WaitsEnd ==
    \A S \in (SUBSET Tasks) \ {{}} :
        (\A t \in S : \E u \in S : WaitsFor(t, u)) => \E h \in S : Stalled(h, S)

=============================================================================
