------------------------------ MODULE IpiMailbox ------------------------------
(***************************************************************************)
(* How a task has a process created on another CPU (IpiCreateProcess,       *)
(* IpiCreateThread and IPIIntHandler of kernel/apic.cpp).  The sender puts  *)
(* a message in the first free slot of the mailbox of that CPU, under its   *)
(* lock, and sends it an interrupt with two stores to its own APIC.  The    *)
(* handler takes the same lock and handles one message.  An interrupt that  *)
(* is sent while one is pending is merged with it.  Interrupts stay enabled *)
(* while a task holds a mailbox lock; in a handler they are disabled.       *)
(***************************************************************************)
EXTENDS Integers, FiniteSets

CONSTANTS
    Cpus,
    Tasks,
    None,
    CpuOf,      \* the CPU a task is bound to
    First,      \* the task that runs first on each CPU
    Msgs,       \* the requests made, each at most once
    TargetOf,   \* the CPU GetIdleProcessor names for each
    Slots       \* IPI_MSG_LIMIT

ASSUME IpiAssumption ==
    /\ CpuOf \in [Tasks -> Cpus] /\ TargetOf \in [Msgs -> Cpus]
    /\ First \in [Cpus -> Tasks] /\ \A c \in Cpus : CpuOf[First[c]] = c
    /\ Slots \in Nat \ {0} /\ IsFiniteSet(Tasks)
    /\ Tasks \cap Cpus = {} /\ None \notin Tasks \cup Cpus \cup Msgs

VARIABLES
    box,      \* of each CPU: the message of each slot, None when not valid
    whole,    \* messages whose parameters are written
    lock,     \* g_ipi_lock: a task, a CPU when its handler has it, or None
    running,  \* the task a CPU runs
    pc,       \* of each task: what it is about to do with which message
    icr,      \* the destination in the APIC of each CPU
    irr,      \* CPUs with an interrupt pending
    handler,  \* of each CPU: "out", "spin", "in", "leave"
    fate,     \* of each message
    lost      \* how interrupts were lost: "merged", "strayed"

vars == <<box, whole, lock, running, pc, icr, irr, handler, fate, lost>>

Idle == [op |-> "idle", msg |-> None]

-----------------------------------------------------------------------------

Init ==
    /\ box = [c \in Cpus |-> [i \in 1 .. Slots |-> None]]
    /\ whole = {}
    /\ lock = [c \in Cpus |-> None]
    /\ running = First
    /\ pc = [t \in Tasks |-> Idle]
    /\ icr = [c \in Cpus |-> None]
    /\ irr = {}
    /\ handler = [c \in Cpus |-> "out"]
    /\ fate = [m \in Msgs |-> "new"]
    /\ lost = {}

(* t runs: no handler interrupts it *)
Runs(t) == running[CpuOf[t]] = t /\ handler[CpuOf[t]] = "out"

At(t, op) == Runs(t) /\ pc[t].op = op

Goto(t, op) == pc' = [pc EXCEPT ![t].op = op]

Target(t) == TargetOf[pc[t].msg]

FreeSlots(c) == {i \in 1 .. Slots : box[c][i] = None}
ValidSlots(c) == 1 .. Slots \ FreeSlots(c)

IsLeast(i, S) == i \in S /\ \A j \in S : i <= j

(* A request for its own CPU does not use the mailbox. *)
Begin(t, m) ==
    /\ At(t, "idle") /\ fate[m] = "new" /\ TargetOf[m] # CpuOf[t]
    /\ fate' = [fate EXCEPT ![m] = "begun"]
    /\ pc' = [pc EXCEPT ![t] = [op |-> "enter", msg |-> m]]
    /\ UNCHANGED <<box, whole, lock, running, icr, irr, handler, lost>>

(* Mutant: the sender does not wait for the lock. *)
IsOpen(c) == TRUE

IsFree(c) == lock[c] = None

EnterLock(t) ==
    /\ At(t, "enter") /\ IsFree(Target(t))
    /\ lock' = [lock EXCEPT ![Target(t)] = t]
    /\ Goto(t, "claim")
    /\ UNCHANGED <<box, whole, running, icr, irr, handler, fate, lost>>

(* The slot is valid before the parameters are there. *)
Claim(t) ==
    /\ At(t, "claim")
    /\ \E i \in 1 .. Slots :
          /\ IsLeast(i, FreeSlots(Target(t)))
          /\ box' = [box EXCEPT ![Target(t)][i] = pc[t].msg]
    /\ Goto(t, "fill")
    /\ UNCHANGED <<whole, lock, running, icr, irr, handler, fate, lost>>

(* No slot is free: the request fails. *)
Refuse(t) ==
    /\ At(t, "claim") /\ FreeSlots(Target(t)) = {}
    /\ lock' = [lock EXCEPT ![Target(t)] = None]
    /\ fate' = [fate EXCEPT ![pc[t].msg] = "refused"]
    /\ pc' = [pc EXCEPT ![t] = Idle]
    /\ UNCHANGED <<box, whole, running, icr, irr, handler, lost>>

Fill(t) ==
    /\ At(t, "fill")
    /\ whole' = whole \cup {pc[t].msg}
    /\ lock' = [lock EXCEPT ![Target(t)] = None]
    /\ fate' = [fate EXCEPT ![pc[t].msg] = IF @ = "handled" THEN @ ELSE "sent"]
    /\ Goto(t, "dest")
    /\ UNCHANGED <<box, running, icr, irr, handler, lost>>

(* SetIcr: the destination, then the command *)
SetDest(t) ==
    /\ At(t, "dest")
    /\ icr' = [icr EXCEPT ![CpuOf[t]] = Target(t)]
    /\ Goto(t, "cmd")
    /\ UNCHANGED <<box, whole, lock, running, irr, handler, fate, lost>>

(* Another task of this CPU may have stored its destination meanwhile. *)
SetCmd(t) ==
    LET d == icr[CpuOf[t]] IN
    /\ At(t, "cmd")
    /\ irr' = irr \cup {d}
    /\ lost' = lost \cup (IF d # Target(t) THEN {"strayed"} ELSE {})
                    \cup (IF d \in irr THEN {"merged"} ELSE {})
    /\ pc' = [pc EXCEPT ![t] = Idle]
    /\ UNCHANGED <<box, whole, lock, running, icr, handler, fate>>

(* The timer switches to t, whatever locks the running task has. *)
SwitchTo(t) ==
    /\ handler[CpuOf[t]] = "out" /\ running[CpuOf[t]] # t
    /\ running' = [running EXCEPT ![CpuOf[t]] = t]
    /\ UNCHANGED <<box, whole, lock, pc, icr, irr, handler, fate, lost>>

-----------------------------------------------------------------------------

IrqEnter(c) ==
    /\ c \in irr /\ handler[c] = "out"
    /\ irr' = irr \ {c}
    /\ handler' = [handler EXCEPT ![c] = "spin"]
    /\ UNCHANGED <<box, whole, lock, running, pc, icr, fate, lost>>

(* Mutant: the handler gives up when a sender has the lock. *)
IrqTryLock(c) ==
    /\ handler[c] = "spin"
    /\ lock' = IF lock[c] = None THEN [lock EXCEPT ![c] = c] ELSE lock
    /\ handler' = [handler EXCEPT ![c] = IF lock[c] = None THEN "in" ELSE "out"]
    /\ UNCHANGED <<box, whole, running, pc, icr, irr, fate, lost>>

IrqLock(c) ==
    /\ handler[c] = "spin" /\ lock[c] = None
    /\ lock' = [lock EXCEPT ![c] = c]
    /\ handler' = [handler EXCEPT ![c] = "in"]
    /\ UNCHANGED <<box, whole, running, pc, icr, irr, fate, lost>>

(* The first valid message, and only this one, is handled. *)
IrqHandle(c) ==
    /\ handler[c] = "in"
    /\ \/ \E i \in 1 .. Slots :
             /\ IsLeast(i, ValidSlots(c))
             /\ box' = [box EXCEPT ![c][i] = None]
             /\ fate' = [fate EXCEPT ![box[c][i]] =
                    IF @ = "handled" THEN "again"
                    ELSE IF box[c][i] \in whole THEN "handled" ELSE "broken"]
       \/ ValidSlots(c) = {} /\ UNCHANGED <<box, fate>>
    /\ handler' = [handler EXCEPT ![c] = "leave"]
    /\ UNCHANGED <<whole, lock, running, pc, icr, irr, lost>>

IrqLeave(c) ==
    /\ handler[c] = "leave"
    /\ lock' = [lock EXCEPT ![c] = None]
    /\ handler' = [handler EXCEPT ![c] = "out"]
    /\ UNCHANGED <<box, whole, running, pc, icr, irr, fate, lost>>

Send(t) == EnterLock(t) \/ Claim(t) \/ Refuse(t) \/ Fill(t) \/ SetDest(t) \/ SetCmd(t)

Irq(c) == IrqEnter(c) \/ IrqLock(c) \/ IrqHandle(c) \/ IrqLeave(c)

Next ==
    \/ \E t \in Tasks : Send(t) \/ SwitchTo(t) \/ \E m \in Msgs : Begin(t, m)
    \/ \E c \in Cpus : Irq(c)

(* Interrupts are taken and, since no ready task starves, tasks go on. *)
Fairness ==
    /\ \A c \in Cpus : SF_vars(Irq(c))
    /\ \A t \in Tasks : SF_vars(Send(t)) /\ SF_vars(SwitchTo(t))

Spec == Init /\ [][Next]_vars
FairSpec == Spec /\ Fairness

-----------------------------------------------------------------------------
TypeOK ==
    /\ box \in [Cpus -> [1 .. Slots -> Msgs \cup {None}]]
    /\ whole \subseteq Msgs
    /\ lock \in [Cpus -> Tasks \cup Cpus \cup {None}]
    /\ running \in [Cpus -> Tasks]
    /\ pc \in [Tasks -> [op : {"idle", "enter", "claim", "fill", "dest", "cmd"},
                         msg : Msgs \cup {None}]]
    /\ icr \in [Cpus -> Cpus \cup {None}]
    /\ irr \subseteq Cpus
    /\ handler \in [Cpus -> {"out", "spin", "in", "leave"}]
    /\ fate \in [Msgs -> {"new", "begun", "sent", "refused", "handled", "again", "broken"}]
    /\ lost \subseteq {"merged", "strayed"}

(* A message is handled once, on the CPU it is for, and not before its
   parameters are written, although its slot is valid earlier. *)
HandledOnceWhole ==
    /\ TypeOK
    /\ \A m \in Msgs : fate[m] \notin {"again", "broken"}
    /\ \A c \in Cpus, i \in 1 .. Slots : box[c][i] # None => TargetOf[box[c][i]] = c

(* The interrupts that are still to take a message of c *)
Coming(c) ==
    Cardinality({t \in Tasks : pc[t].op \in {"fill", "dest", "cmd"} /\ Target(t) = c})
        + (IF c \in irr THEN 1 ELSE 0) + (IF handler[c] \in {"spin", "in"} THEN 1 ELSE 0)

(* As long as no interrupt was merged or strayed, none of the messages in a
   mailbox is left behind: each has an interrupt of its own to come. *)
NoneStranded == lost = {} => \A c \in Cpus : Cardinality(ValidSlots(c)) <= Coming(c)

(* Two handlers wait for the mailbox locks that the tasks they interrupted have. *)
Crossed ==
    \E c, d \in Cpus :
        /\ c # d /\ handler[c] = "spin" /\ handler[d] = "spin"
        /\ lock[c] \in {t \in Tasks : CpuOf[t] = d} /\ lock[d] \in {t \in Tasks : CpuOf[t] = c}

(* A message that was sent is handled, unless an interrupt was lost or two
   handlers wait for each other: nothing else keeps it in the mailbox. *)
SentIsHandled ==
    \A m \in Msgs : fate[m] = "sent" ~> (fate[m] = "handled" \/ lost # {} \/ Crossed)

=============================================================================
