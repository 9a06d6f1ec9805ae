--------------------------------- MODULE Input ---------------------------------
(***************************************************************************)
(* Keys and clicks (kernel/keyboard.cpp and mouse.cpp).  Each device has a  *)
(* ring: its interrupt, or a task that makes up a key or a movement, puts   *)
(* entries at the head, and the program of the top window takes them from   *)
(* the tail.  Both are done under the lock of the device; but a reader      *)
(* looks whether its window is on top and whether there is a key before it  *)
(* takes the lock, and keys of the number pad are put without it.           *)
(*                                                                          *)
(* The interrupts come to the boot CPU, with interrupts off until the       *)
(* handler ends.  While a test window is shown the handler of the keyboard  *)
(* reads the key itself, to draw it, and puts back an escape.               *)
(***************************************************************************)
EXTENDS Integers, Sequences, FiniteSets

CONSTANTS
    Tasks,     \* programs, each with a window
    BootTasks, \* those of them on the boot CPU
    Testers,   \* programs that may be the test window
    Irq,       \* the handler that runs on the boot CPU
    Devices,
    Kbd,       \* the keyboard: it has a number pad, and a test window
    Codes,     \* what an entry says
    Escape,
    None,
    Size       \* entries of a ring

ASSUME InputAssumption ==
    /\ BootTasks \subseteq Tasks /\ Testers \subseteq Tasks /\ Irq \notin Tasks
    /\ Kbd \in Devices /\ Escape \in Codes
    /\ None \notin Tasks \cup Codes \cup {Irq}
    /\ Size \in Nat \ {0, 1}

VARIABLES
    buf,      \* of each device: the entries
    hdr,      \* where the next is put
    tail,     \* where the next is taken
    lock,     \* g_kbd_lock, g_mouse_lock: a task, Irq or None
    top,      \* the task whose window is on top
    test,     \* gKbdTest: the task of the test window, or None
    pc,       \* of each task and of the handler: what it is about to do
    got,      \* history: the entry last taken
    spoilt    \* history: devices where two actors crossed each other

vars == <<buf, hdr, tail, lock, top, test, pc, got, spoilt>>

Actors == Tasks \cup {Irq}

Reading == {"some", "take", "taken"}
Putting == {"put", "write", "load", "store", "wrap"}

(* A call: the device, the entry it puts, the head it has read, and who puts:
   a task, or the handler a key, one of the number pad or an escape it read *)
Call == [op : {"idle"} \cup Reading \cup Putting,
         dev : Devices, code : Codes, head : 0 .. Size + 1,
         by : {"task", "key", "pad", "back"}]

Idle == [op |-> "idle", dev |-> Kbd, code |-> Escape, head |-> 0, by |-> "task"]

(* Nothing else runs on the boot CPU before the handler has ended. *)
Runs(a) == a \in BootTasks => pc[Irq].op = "idle"

At(a, op) == Runs(a) /\ pc[a].op = op

Go(a, op) == pc' = [pc EXCEPT ![a].op = op]

(* Entries that may be taken *)
Content(d) ==
    LET n == (hdr[d] - tail[d]) % Size
    IN [i \in 1 .. n |-> buf[d][(tail[d] + i - 1) % Size]]

-----------------------------------------------------------------------------

Init ==
    /\ buf = [d \in Devices |-> [i \in 0 .. Size - 1 |-> Escape]]
    /\ hdr = [d \in Devices |-> 0]
    /\ tail = [d \in Devices |-> 0]
    /\ lock = [d \in Devices |-> None]
    /\ top \in Tasks
    /\ test = None
    /\ pc = [a \in Actors |-> Idle]
    /\ got = [d \in Devices |-> None]
    /\ spoilt = {}

(* A window comes to the top. *)
Raise(t) ==
    /\ top' = t
    /\ UNCHANGED <<buf, hdr, tail, lock, test, pc, got, spoilt>>

(* The console shows its test window, and the program hides it. *)
ShowTest(t) ==
    /\ At(t, "idle") /\ t \in Testers /\ test' \in {t, None}
    /\ UNCHANGED <<buf, hdr, tail, lock, top, pc, got, spoilt>>

-----------------------------------------------------------------------------
(* __kGetKbd, __kGetKbdAndStatus, __kGetMouse *)

IsTopWindow(t) == top = t

Read(t, d) ==
    /\ At(t, "idle") /\ IsTopWindow(t)
    /\ pc' = [pc EXCEPT ![t].op = "some", ![t].dev = d]
    /\ UNCHANGED <<buf, hdr, tail, lock, top, test, got, spoilt>>

(* Readers that are past the test, and actors that have moved the tail or the
   head but not yet back to the begin of the ring *)
Past(d) == {a \in Actors : pc[a].dev = d /\ pc[a].op = "take"}

Midway(d) == {a \in Actors : pc[a].dev = d /\ pc[a].op \in {"taken", "wrap"}}

(* Mutant: the test does not look at the tail. *)
AnyTyped(d) == hdr[d] # 0

SomeThere(d) == hdr[d] # tail[d]

HasKey(a) ==
    LET d == pc[a].dev IN
    /\ At(a, "some")
    /\ Go(a, IF SomeThere(d) THEN "take" ELSE "idle")
    /\ spoilt' = IF /\ SomeThere(d) /\ Past(d) \cup Midway(d) # {}
                    /\ Cardinality(Past(d)) >= Len(Content(d))
                 THEN spoilt \cup {d} ELSE spoilt
    /\ UNCHANGED <<buf, hdr, tail, lock, top, test, got>>

IsFree(d) == lock[d] = None

Take(a) ==
    LET d == pc[a].dev IN
    /\ At(a, "take") /\ IsFree(d)
    /\ lock' = [lock EXCEPT ![d] = a]
    /\ got' = [got EXCEPT ![d] = buf[d][tail[d]]]
    /\ tail' = [tail EXCEPT ![d] = @ + 1]
    /\ Go(a, "taken")
    /\ UNCHANGED <<buf, hdr, top, test, spoilt>>

(* Mutant: the last entry of the ring is followed by one more. *)
WrappedLate(i) == IF i > Size THEN 0 ELSE i

Wrapped(i) == IF i >= Size THEN 0 ELSE i

(* The handler puts back an escape. *)
Leave(a) ==
    LET d == pc[a].dev IN
    /\ At(a, "taken")
    /\ tail' = [tail EXCEPT ![d] = Wrapped(@)]
    /\ lock' = [lock EXCEPT ![d] = None]
    /\ pc' = IF a = Irq /\ got[d] = Escape
             THEN [pc EXCEPT ![a] = [Idle EXCEPT !.op = "put", !.dev = d, !.by = "back"]]
             ELSE [pc EXCEPT ![a] = Idle]
    /\ UNCHANGED <<buf, hdr, top, test, got, spoilt>>

-----------------------------------------------------------------------------
(* __kKeyboardProc, __kMouseProc, numsLockProc, __kPutKbd, insertMouse *)

(* Actors in the middle of putting an entry on d *)
Amid(d) == {a \in Actors : pc[a].dev = d /\ pc[a].op \in Putting \ {"put"}}

Crossed(d) == IF Amid(d) = {} THEN spoilt ELSE spoilt \cup {d}

(* A task makes up an entry. *)
PutKbd(t, d, c) ==
    /\ At(t, "idle")
    /\ pc' = [pc EXCEPT ![t] = [Idle EXCEPT !.op = "put", !.dev = d, !.code = c]]
    /\ UNCHANGED <<buf, hdr, tail, lock, top, test, got, spoilt>>

(* An interrupt *)
KeyOrClick(d, c) ==
    /\ At(Irq, "idle")
    /\ pc' = [pc EXCEPT ![Irq] = [Idle EXCEPT !.op = "put", !.dev = d, !.code = c, !.by = "key"]]
    /\ UNCHANGED <<buf, hdr, tail, lock, top, test, got, spoilt>>

NumsLock(c) ==
    /\ At(Irq, "idle") /\ c # Escape
    /\ pc' = [pc EXCEPT ![Irq] = [Idle EXCEPT !.op = "write", !.code = c, !.by = "pad"]]
    /\ spoilt' = Crossed(Kbd)
    /\ UNCHANGED <<buf, hdr, tail, lock, top, test, got>>

Enter(a) ==
    LET d == pc[a].dev IN
    /\ At(a, "put") /\ IsFree(d)
    /\ lock' = [lock EXCEPT ![d] = a]
    /\ spoilt' = Crossed(d)
    /\ Go(a, "write")
    /\ UNCHANGED <<buf, hdr, tail, top, test, got>>

(* Behind the ring are the states of its keys. *)
Write(a) ==
    LET d == pc[a].dev IN
    /\ At(a, "write")
    /\ buf' = IF hdr[d] < Size THEN [buf EXCEPT ![d][hdr[d]] = pc[a].code] ELSE buf
    /\ pc' = [pc EXCEPT ![a].op = "load", ![a].code = Escape]
    /\ UNCHANGED <<hdr, tail, lock, top, test, got, spoilt>>

Load(a) ==
    /\ At(a, "load")
    /\ pc' = [pc EXCEPT ![a].op = "store", ![a].head = hdr[pc[a].dev]]
    /\ UNCHANGED <<buf, hdr, tail, lock, top, test, got, spoilt>>

(* The places behind a ring are alike: Size + 1 stands for all but the first. *)
NextPlace(i) == IF i > Size THEN Size + 1 ELSE i + 1

IsFull(d) == Len(Content(d)) = Size - 1

(* A full ring looks empty; a reader that is past the test takes from it. *)
Store(a) ==
    LET d == pc[a].dev IN
    /\ At(a, "store")
    /\ hdr' = [hdr EXCEPT ![d] = NextPlace(pc[a].head)]
    /\ spoilt' = IF IsFull(d) /\ Past(d) # {} THEN spoilt \cup {d} ELSE spoilt
    /\ pc' = [pc EXCEPT ![a].op = "wrap", ![a].head = 0]
    /\ UNCHANGED <<buf, tail, lock, top, test, got>>

(* Mutant: a task does not leave the lock. *)
LockKept(a) == lock[pc[a].dev]

LockAfter(a) == IF pc[a].by = "pad" THEN lock[pc[a].dev] ELSE None

(* After a key the handler reads for the test window, if that is on top. *)
Wrap(a) ==
    LET d == pc[a].dev IN
    /\ At(a, "wrap")
    /\ hdr' = [hdr EXCEPT ![d] = Wrapped(@)]
    /\ lock' = [lock EXCEPT ![d] = LockAfter(a)]
    /\ pc' = IF pc[a].by = "key" /\ d = Kbd /\ IsTopWindow(test)
             THEN [pc EXCEPT ![a] = [Idle EXCEPT !.op = "some"]]
             ELSE [pc EXCEPT ![a] = Idle]
    /\ UNCHANGED <<buf, tail, top, test, got, spoilt>>

-----------------------------------------------------------------------------

Step(a) ==
    \/ HasKey(a) \/ Take(a) \/ Leave(a)
    \/ Enter(a) \/ Write(a) \/ Load(a) \/ Store(a) \/ Wrap(a)

Next ==
    \/ \E a \in Actors : Step(a)
    \/ \E t \in Tasks : Raise(t) \/ ShowTest(t)
    \/ \E t \in Tasks, d \in Devices : Read(t, d) \/ \E c \in Codes : PutKbd(t, d, c)
    \/ \E d \in Devices, c \in Codes : KeyOrClick(d, c)
    \/ \E c \in Codes : NumsLock(c)

Spec == Init /\ [][Next]_vars

(* The timer lets every task run, and the handler, which spins all the time,
   does not miss a lock that is free again and again. *)
Fairness == (\A t \in Tasks : WF_vars(Step(t))) /\ SF_vars(Step(Irq))

FairSpec == Spec /\ Fairness

-----------------------------------------------------------------------------
TypeOK ==
    /\ buf \in [Devices -> [0 .. Size - 1 -> Codes]]
    /\ hdr \in [Devices -> 0 .. Size + 1]
    /\ tail \in [Devices -> 0 .. Size]
    /\ lock \in [Devices -> Actors \cup {None}]
    /\ top \in Tasks /\ test \in Testers \cup {None}
    /\ pc \in [Actors -> Call]
    /\ got \in [Devices -> Codes \cup {None}]
    /\ spoilt \subseteq Devices

(* No entry is put behind the ring and none is taken from there, unless a key
   of the number pad came while a task was putting one. *)
InRing ==
    /\ TypeOK
    /\ \A a \in Actors :
          LET d == pc[a].dev IN
          /\ pc[a].op = "write" => hdr[d] < Size \/ d \in spoilt
          /\ pc[a].op = "take" /\ lock[d] = None => tail[d] < Size

(* Every step is a step of the queue: each entry is given once, in order, to
   one reader.  But not once two readers passed the test of a ring with fewer
   entries, a ring was filled under a reader that had passed it, or a key of
   the number pad came while a task was putting one. *)
Queue(d) == INSTANCE InputQueue WITH
    Room <- Size - 1, queue <- Content(d), got <- got[d]

KeysAreQueue ==
    [][\A d \in Devices :
        d \in spoilt' \/ Queue(d)!Next \/ UNCHANGED <<Content(d), got[d]>>]_vars

(* The handler ends, unless it came while a task of its own CPU was in the lock. *)
Stuck == pc[Irq].op \in {"put", "take"} /\ lock[pc[Irq].dev] \in BootTasks

InterruptEnds == (pc[Irq].op # "idle") ~> (pc[Irq].op = "idle" \/ Stuck)

=============================================================================
