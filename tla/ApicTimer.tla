------------------------------ MODULE ApicTimer ------------------------------
(***************************************************************************)
(* The timers of a CPU (kernel/apicTimer.cpp).  Tasks add a callback to the *)
(* table of their CPU and remove it under its lock.  Every schedule first   *)
(* counts a tick and, under the same lock, calls what is due and belongs to *)
(* the task it interrupted.  The timer interrupt may come at any point of a *)
(* task.  It waits for the lock with interrupts off, and nobody but the     *)
(* task it interrupted or itself can have it, so a wait never ends.         *)
(***************************************************************************)
EXTENDS Integers

CONSTANTS
    Tasks,
    First,      \* the task that runs first
    None,
    Once,       \* tasks whose callback removes its timer when it is done
    Slots,      \* REALTIMER_CALLBACK_MAX
    Delays,     \* delays asked for, in ticks
    Count       \* how many values a tick count has: 2^32

ASSUME TimerAssumption ==
    /\ First \in Tasks /\ None \notin Tasks /\ Once \subseteq Tasks
    /\ Slots \in Nat /\ Count \in Nat \ {0} /\ Delays \subseteq 1 .. Count - 1
    /\ None \notin 1 .. Slots

VARIABLES
    table,    \* gApicTimer of the CPU
    tick,     \* g_apictimer_tick_cnt
    lock,     \* g_apictimer_lock: a task or None
    running,  \* the task the CPU runs
    alive,    \* the tasks that have not ended
    pc,       \* of each task: what it is doing in the functions of the timers
    handle,   \* of each task: the number of its timer, None for -1
    hung,     \* why the CPU never leaves an interrupt, if so
    waited    \* history: ticks of each timer since it was added or called

vars == <<table, tick, lock, running, alive, pc, handle, hung, waited>>

Slot == 1 .. Slots
Ticks == 0 .. Count - 1

Idle == [op |-> "idle", delay |-> 0, slot |-> None]
Empty == [on |-> FALSE, every |-> 0, due |-> 0, owner |-> First]

-----------------------------------------------------------------------------

Init ==
    /\ table = [i \in Slot |-> Empty]
    /\ tick = 0
    /\ lock = None
    /\ running = First
    /\ alive = Tasks
    /\ pc = [t \in Tasks |-> Idle]
    /\ handle = [t \in Tasks |-> None]
    /\ hung = "no"
    /\ waited = [i \in Slot |-> 0]

At(t, op) == hung = "no" /\ running = t /\ pc[t].op = op

(* A task keeps one timer at a time. *)
AddApicTimer(t, d) ==
    /\ At(t, "idle") /\ handle[t] = None
    /\ pc' = [pc EXCEPT ![t] = [op |-> "add", delay |-> d, slot |-> None]]
    /\ UNCHANGED <<table, tick, lock, running, alive, handle, hung, waited>>

RemoveApicTimer(t) ==
    /\ At(t, "idle") /\ handle[t] # None
    /\ pc' = [pc EXCEPT ![t].op = "remove"]
    /\ UNCHANGED <<table, tick, lock, running, alive, handle, hung, waited>>

IsFree == lock = None

Enter(t) ==
    /\ hung = "no" /\ running = t /\ IsFree
    /\ \/ pc[t].op = "add" /\ pc' = [pc EXCEPT ![t].op = "pick"]
       \/ pc[t].op = "remove" /\ pc' = [pc EXCEPT ![t].op = "clear"]
    /\ lock' = t
    /\ UNCHANGED <<table, tick, running, alive, handle, hung, waited>>

(* Mutant: one of the two is enough. *)
FreeOfOne == {i \in Slot : ~table[i].on \/ table[i].due = 0}

(* A slot is free when neither its function nor its deadline is set. *)
FreeSlots == {i \in Slot : ~table[i].on /\ table[i].due = 0}

Pick(t) ==
    /\ At(t, "pick")
    /\ \E i \in FreeSlots :
          /\ \A j \in FreeSlots : i <= j
          /\ pc' = [pc EXCEPT ![t].op = "fill", ![t].slot = i]
    /\ UNCHANGED <<table, tick, lock, running, alive, handle, hung, waited>>

(* No slot is free: the caller gets -1. *)
PickNone(t) ==
    /\ At(t, "pick") /\ FreeSlots = {}
    /\ lock' = None
    /\ pc' = [pc EXCEPT ![t] = Idle]
    /\ UNCHANGED <<table, tick, running, alive, handle, hung, waited>>

(* Mutant: the deadline is wider than the tick count. *)
DeadlineWide(now, every) == now + every

Deadline(now, every) == (now + every) % Count

Fill(t) ==
    LET i == pc[t].slot IN
    /\ At(t, "fill")
    /\ table' = [table EXCEPT ![i] = [on |-> TRUE, every |-> pc[t].delay,
                                      due |-> Deadline(tick, pc[t].delay), owner |-> t]]
    /\ waited' = [waited EXCEPT ![i] = 0]
    /\ handle' = [handle EXCEPT ![t] = i]
    /\ lock' = None
    /\ pc' = [pc EXCEPT ![t] = Idle]
    /\ UNCHANGED <<tick, running, alive, hung>>

(* Nobody reads the other fields of a slot without function and deadline. *)
Clear(t) ==
    LET i == handle[t] IN
    /\ At(t, "clear")
    /\ table' = [table EXCEPT ![i] = Empty]
    /\ waited' = [waited EXCEPT ![i] = 0]
    /\ handle' = [handle EXCEPT ![t] = None]
    /\ lock' = None
    /\ pc' = [pc EXCEPT ![t] = Idle]
    /\ UNCHANGED <<tick, running, alive, hung>>

-----------------------------------------------------------------------------
(* Mutant: the deadline itself counts as passed. *)
ReachedBy(i, now) == table[i].due <= now

Passed(i, now) == table[i].due < now

Due(now) == {i \in Slot : table[i].on /\ Passed(i, now) /\ table[i].owner = running}

(* The interrupt found the lock taken. *)
TickLocked ==
    /\ hung = "no" /\ lock # None
    /\ tick' = (tick + 1) % Count
    /\ hung' = "lock"
    /\ UNCHANGED <<table, lock, running, alive, pc, handle, waited>>

(* A callback that removes its own timer waits for the lock its caller has. *)
TickRemoved ==
    LET now == (tick + 1) % Count IN
    /\ hung = "no" /\ lock = None
    /\ running \in Once /\ Due(now) # {}
    /\ tick' = now
    /\ hung' = "callback"
    /\ UNCHANGED <<table, lock, running, alive, pc, handle, waited>>

(* The callbacks are called, then the schedule goes on. *)
Tick ==
    LET now == (tick + 1) % Count IN
    /\ hung = "no" /\ lock = None
    /\ tick' = now
    /\ table' = [i \in Slot |-> IF i \in Due(now)
                   THEN [table[i] EXCEPT !.due = Deadline(now, table[i].every)]
                   ELSE table[i]]
    /\ waited' = [i \in Slot |-> IF i \in Due(now) THEN 0
                                 ELSE IF table[i].on /\ waited[i] < Count THEN waited[i] + 1
                                 ELSE waited[i]]
    /\ running' \in alive
    /\ UNCHANGED <<lock, alive, pc, handle, hung>>

(* A task that ends, or is ended while another runs, leaves its timer behind. *)
End(t) ==
    /\ hung = "no" /\ t \in alive \ {running}
    /\ alive' = alive \ {t}
    /\ UNCHANGED <<table, tick, lock, running, pc, handle, hung, waited>>

-----------------------------------------------------------------------------

Step(t) == Enter(t) \/ Pick(t) \/ PickNone(t) \/ Fill(t) \/ Clear(t)

Next ==
    \/ \E t \in Tasks :
          Step(t) \/ RemoveApicTimer(t) \/ End(t) \/ \E d \in Delays : AddApicTimer(t, d)
    \/ TickLocked \/ TickRemoved \/ Tick

Spec == Init /\ [][Next]_vars
FairSpec == Spec /\ WF_vars(TickLocked \/ TickRemoved \/ Tick)

-----------------------------------------------------------------------------
TypeOK ==
    /\ table \in [Slot -> [on : BOOLEAN, every : Ticks, due : Ticks, owner : Tasks]]
    /\ tick \in Ticks
    /\ lock \in Tasks \cup {None}
    /\ running \in Tasks
    /\ alive \subseteq Tasks
    /\ pc \in [Tasks -> [op : {"idle", "add", "pick", "fill", "remove", "clear"},
                         delay : Ticks, slot : Slot \cup {None}]]
    /\ handle \in [Tasks -> Slot \cup {None}]
    /\ hung \in {"no", "lock", "callback"}
    /\ waited \in [Slot -> 0 .. Count]

(* A task's number leads to its own timer, and every timer that is on has an
   owner who knows its number, whatever the count has run over: a removal never
   hits another task's timer, and a slot is lost only to a task that ended. *)
EachItsOwn ==
    /\ TypeOK
    /\ \A t \in Tasks : handle[t] # None =>
          table[handle[t]].on /\ table[handle[t]].owner = t
    /\ \A i \in Slot : IF table[i].on THEN handle[table[i].owner] = i
                                      ELSE table[i].due = 0

(* A callback is not called before as many whole ticks have passed as its
   task asked for, unless the deadline ran over the end of the count. *)
NotBeforeTime ==
    [][\A i \in Slot : Tick /\ i \in Due(tick') =>
          waited[i] >= table[i].every \/ table[i].due < table[i].every]_vars

(* The timer of a task that has the CPU for itself is called again and again,
   also when the count runs over, unless its deadline is the last value of the
   count, which no tick is after, or the CPU never leaves an interrupt. *)
CalledAgain ==
    \A i \in Slot, t \in Tasks :
        <>[](running = t /\ table[i].on /\ table[i].owner = t /\ hung = "no"
               /\ table[i].due # Count - 1)
            => [](<>(waited[i] = 0))

=============================================================================
