-------------------------- MODULE ApicTimer_proofs --------------------------
(***************************************************************************)
(* That a task's number leads to its own timer holds for any tasks, slots,  *)
(* delays and any width of the tick count.  Between the choice of a slot    *)
(* and its filling nobody else changes the table: the holder of the lock is *)
(* in one of the three steps under it, and a tick that meets it changes no  *)
(* timer.                                                                   *)
(***************************************************************************)
EXTENDS ApicTimer, TLAPS

Locked == {"pick", "fill", "clear"}

(* Who is in a step under the lock holds it. *)
Holds == \A t \in Tasks : pc[t].op \in Locked => lock = t

(* A task adds a timer only without one, and removes the one it has. *)
Kept ==
    \A t \in Tasks :
        /\ pc[t].op \in {"add", "pick", "fill"} => handle[t] = None
        /\ pc[t].op \in {"remove", "clear"} => handle[t] # None
        /\ pc[t].op = "fill" => pc[t].slot \in Slot /\ ~table[pc[t].slot].on

(* As long as the CPU is not stuck, no more ticks have passed since a deadline
   was set than its timer has waited.  The deadline tells when that was, unless
   it ran over the end of the count. *)
WaitOK ==
    hung = "no" =>
        \A i \in Slot :
            LET set == table[i].due - table[i].every IN
            table[i].on /\ 0 <= set /\ set <= tick => tick - set <= waited[i]

IInv == EachItsOwn /\ Holds /\ Kept

Entry == [on : BOOLEAN, every : Ticks, due : Ticks, owner : Tasks]

Place == [op : {"idle", "add", "pick", "fill", "remove", "clear"},
          delay : Ticks, slot : Slot \cup {None}]

(* What is known of the types, once for all steps *)
LEMMA Typed ==
  ASSUME TypeOK
  PROVE  /\ table \in [Slot -> Entry] /\ pc \in [Tasks -> Place]
         /\ handle \in [Tasks -> Slot \cup {None}] /\ waited \in [Slot -> 0 .. Count]
         /\ tick \in Ticks /\ running \in Tasks /\ None \notin Slot
         /\ 0 \in Ticks /\ 0 \in 0 .. Count
<1>1. 0 \in Ticks /\ 0 \in 0 .. Count /\ None \notin Slot
  BY TimerAssumption DEF Ticks, Slot
<1> QED BY <1>1 DEF TypeOK, Entry, Place

(* A deadline is a tick count. *)
LEMMA DeadlineIsTick ==
  ASSUME NEW k \in Nat, NEW m \in Nat
  PROVE  Deadline(k, m) \in Ticks /\ (k + m) % Count \in Ticks
<1>1. Count \in Nat \ {0} /\ k + m \in Nat
  BY TimerAssumption
<1> QED BY <1>1 DEF Deadline, Ticks

(* What a sum of two tick counts becomes, and when a deadline ran over *)
LEMMA SumOfTicks ==
  ASSUME NEW k \in Ticks, NEW m \in Ticks
  PROVE  (k + m) % Count = IF k + m < Count THEN k + m ELSE k + m - Count
<1>1. Count \in Nat /\ Count > 0
  BY TimerAssumption
<1>2. ASSUME NEW q \in Int, NEW r \in 0 .. Count - 1 PROVE (q * Count + r) % Count = r
  BY <1>1, <1>2
<1>3. k \in Nat /\ m \in Nat /\ k < Count /\ m < Count
  BY <1>1 DEF Ticks
<1>4. CASE k + m < Count
  <2>1. k + m \in 0 .. Count - 1 /\ 0 * Count = 0
    BY <1>1, <1>3, <1>4
  <2> QED BY <2>1, <1>2, <1>3, <1>4
<1>5. CASE k + m >= Count
  <2>1. k + m - Count \in 0 .. Count - 1 /\ k + m = 1 * Count + (k + m - Count)
    BY <1>1, <1>3, <1>5
  <2>2. (1 * Count + (k + m - Count)) % Count = k + m - Count
    BY <2>1, <1>2
  <2> QED BY <2>1, <2>2, <1>1, <1>3, <1>5
<1> QED BY <1>1, <1>3, <1>4, <1>5

LEMMA SetNow ==
  ASSUME NEW k \in Ticks, NEW m \in Ticks, 0 <= Deadline(k, m) - m
  PROVE  Deadline(k, m) - m = k
<1>1. Count \in Nat /\ k \in Nat /\ m \in Nat /\ k < Count /\ m < Count
  BY TimerAssumption DEF Ticks
<1> QED BY <1>1, SumOfTicks DEF Deadline

LEMMA InitHolds == Init => IInv
<1> SUFFICES ASSUME Init PROVE IInv
  OBVIOUS
<1>1. Empty \in Entry /\ Idle \in Place /\ 0 \in Ticks /\ 0 \in 0 .. Count
  BY TimerAssumption DEF Empty, Idle, Entry, Place, Ticks
<1>2. TypeOK
  BY <1>1, TimerAssumption DEF Init, TypeOK, Entry, Place
<1>3. EachItsOwn
  BY <1>2 DEF Init, EachItsOwn, Empty
<1>4. Holds /\ Kept
  BY DEF Init, Holds, Kept, Idle, Locked
<1> QED BY <1>3, <1>4 DEF IInv

(* The steps that change no timer and no number *)
LEMMA QuietKeep ==
  ASSUME IInv, NEW t \in Tasks,
         \/ \E d \in Delays : AddApicTimer(t, d)
         \/ RemoveApicTimer(t) \/ Enter(t) \/ Pick(t) \/ PickNone(t)
  PROVE  IInv'
<1>0. TypeOK /\ UNCHANGED <<table, handle, tick, running, alive, hung, waited>>
  BY DEF IInv, EachItsOwn, AddApicTimer, RemoveApicTimer, Enter, Pick, PickNone
<1>1. /\ pc \in [Tasks -> Place] /\ pc[t] \in Place
      /\ lock \in Tasks \cup {None} /\ None \notin Slot /\ None \notin Tasks
  BY <1>0, Typed, TimerAssumption DEF TypeOK
<1>2. ASSUME NEW p \in Place, pc' = [pc EXCEPT ![t] = p], lock' \in Tasks \cup {None},
             lock' = lock \/ (p.op \in Locked /\ lock = None /\ lock' = t)
                          \/ (p.op \notin Locked /\ lock = t),
             p.op \in Locked => lock' = t,
             p.op \in {"add", "pick", "fill"} => handle[t] = None,
             p.op \in {"remove", "clear"} => handle[t] # None,
             p.op = "fill" => p.slot \in Slot /\ ~table[p.slot].on
      PROVE  IInv'
  <2>1. EachItsOwn'
    BY <1>0, <1>1, <1>2 DEF IInv, EachItsOwn, TypeOK, Place
  <2>2. pc'[t] = p /\ \A u \in Tasks \ {t} : pc'[u] = pc[u]
    BY <1>1, <1>2
  <2>3. Holds'
    BY <2>2, <1>1, <1>2 DEF IInv, Holds
  <2>4. Kept'
    BY <2>2, <1>0, <1>2 DEF IInv, Kept
  <2> QED BY <2>1, <2>3, <2>4 DEF IInv
<1>3. ASSUME NEW d \in Delays, AddApicTimer(t, d)
      PROVE  IInv'
  <2> DEFINE p == [op |-> "add", delay |-> d, slot |-> None]
  <2>1. p \in Place
    BY TimerAssumption DEF Place, Ticks
  <2>2. pc' = [pc EXCEPT ![t] = p] /\ lock' = lock /\ handle[t] = None /\ p.op = "add"
    BY <1>3 DEF AddApicTimer
  <2> HIDE DEF p
  <2> QED BY <2>1, <2>2, <1>1, <1>2 DEF Locked
<1>4. CASE RemoveApicTimer(t)
  <2> DEFINE p == [pc[t] EXCEPT !.op = "remove"]
  <2>1. p \in Place /\ p.op = "remove"
    BY <1>1 DEF Place
  <2>2. pc' = [pc EXCEPT ![t] = p] /\ lock' = lock /\ handle[t] # None
    BY <1>4 DEF RemoveApicTimer
  <2> HIDE DEF p
  <2> QED BY <2>1, <2>2, <1>1, <1>2 DEF Locked
<1>5. CASE Enter(t)
  <2>1. PICK o \in {"pick", "clear"} :
          /\ pc' = [pc EXCEPT ![t].op = o]
          /\ o = "pick" => pc[t].op = "add"
          /\ o = "clear" => pc[t].op = "remove"
    BY <1>5 DEF Enter
  <2> DEFINE p == [pc[t] EXCEPT !.op = o]
  <2>2. p \in Place /\ p.op = o /\ pc' = [pc EXCEPT ![t] = p]
    BY <2>1, <1>1 DEF Place
  <2>3. lock = None /\ lock' = t
    BY <1>5 DEF Enter, IsFree
  <2>4. (o = "pick" => handle[t] = None) /\ (o = "clear" => handle[t] # None)
    BY <2>1 DEF IInv, Kept
  <2> HIDE DEF p
  <2> QED BY <2>1, <2>2, <2>3, <2>4, <1>1, <1>2 DEF Locked
<1>6. CASE Pick(t)
  <2>1. PICK i \in FreeSlots : pc' = [pc EXCEPT ![t].op = "fill", ![t].slot = i]
    BY <1>6 DEF Pick
  <2> DEFINE p == [pc[t] EXCEPT !.op = "fill", !.slot = i]
  <2>2. i \in Slot /\ ~table[i].on
    BY <2>1 DEF FreeSlots
  <2>3. p \in Place /\ p.op = "fill" /\ p.slot = i /\ pc' = [pc EXCEPT ![t] = p]
    BY <2>1, <2>2, <1>1 DEF Place
  <2>4. pc[t].op = "pick" /\ lock' = lock /\ handle[t] = None /\ lock = t
    BY <1>6 DEF Pick, At, IInv, Kept, Holds, Locked
  <2> HIDE DEF p
  <2> QED BY <2>2, <2>3, <2>4, <1>1, <1>2 DEF Locked
<1>7. CASE PickNone(t)
  <2>1. Idle \in Place /\ Idle.op = "idle"
    BY TimerAssumption DEF Idle, Place, Ticks
  <2>2. pc' = [pc EXCEPT ![t] = Idle] /\ lock' = None /\ lock = t
    BY <1>7 DEF PickNone, At, IInv, Holds, Locked
  <2> QED BY <2>1, <2>2, <1>1, <1>2 DEF Locked
<1> QED BY <1>3, <1>4, <1>5, <1>6, <1>7

(* A timer gets its slot or gives it back. *)
LEMMA TableKeeps ==
  ASSUME IInv, NEW t \in Tasks, Fill(t) \/ Clear(t)
  PROVE  IInv'
<1>0. /\ TypeOK /\ lock = t /\ lock' = None /\ pc' = [pc EXCEPT ![t] = Idle]
      /\ UNCHANGED <<tick, running, alive, hung>>
  BY DEF IInv, EachItsOwn, Holds, Fill, Clear, At, Locked
<1>1. /\ table \in [Slot -> Entry] /\ pc \in [Tasks -> Place]
      /\ handle \in [Tasks -> Slot \cup {None}] /\ waited \in [Slot -> 0 .. Count]
      /\ tick \in Ticks /\ None \notin Slot /\ None \notin Tasks /\ 0 \in 0 .. Count
      /\ Idle \in Place /\ Idle.op = "idle"
  BY <1>0, Typed, TimerAssumption DEF Idle, Place
<1>2. /\ pc' \in [Tasks -> Place] /\ pc'[t] = Idle
      /\ \A u \in Tasks \ {t} : pc'[u] = pc[u] /\ pc[u].op \notin Locked
  BY <1>0, <1>1 DEF IInv, Holds
<1>3. Holds'
  BY <1>0, <1>1, <1>2 DEF Holds, Locked
<1>4. CASE Fill(t)
  <2> DEFINE i == pc[t].slot
             n == pc[t].delay
             e == [on |-> TRUE, every |-> n, due |-> Deadline(tick, n), owner |-> t]
  <2>1. i \in Slot /\ ~table[i].on /\ handle[t] = None
    BY <1>4 DEF Fill, At, IInv, Kept
  <2>2. n \in Ticks /\ Deadline(tick, n) \in Ticks
    BY <1>1, DeadlineIsTick, TimerAssumption DEF Place, Ticks
  <2>3. e \in Entry /\ e.on /\ e.owner = t
    BY <2>2 DEF Entry
  <2>4. /\ table' = [table EXCEPT ![i] = e] /\ waited' = [waited EXCEPT ![i] = 0]
        /\ handle' = [handle EXCEPT ![t] = i]
    BY <1>4 DEF Fill
  <2> HIDE DEF i, n, e
  <2>5. TypeOK'
    BY <2>1, <2>3, <2>4, <1>0, <1>1, <1>2 DEF TypeOK, Entry, Place
  <2>6. /\ table'[i] = e /\ \A j \in Slot \ {i} : table'[j] = table[j]
        /\ handle'[t] = i /\ \A u \in Tasks \ {t} : handle'[u] = handle[u]
    BY <2>1, <2>4, <1>1
  <2>7. \A u \in Tasks \ {t} : handle[u] # i
    BY <2>1, <1>1 DEF IInv, EachItsOwn
  <2>8. \A j \in Slot : table[j].on => table[j].owner # t
    BY <2>1, <1>1 DEF IInv, EachItsOwn
  <2>9. \A j \in Slot : table[j].owner \in Tasks
    BY <1>1 DEF Entry
  <2>10. EachItsOwn'
    BY <2>1, <2>3, <2>5, <2>6, <2>7, <2>8, <2>9, <1>1 DEF IInv, EachItsOwn
  <2>11. Kept'
    BY <2>6, <1>1, <1>2 DEF IInv, Kept, Locked
  <2> QED BY <2>10, <2>11, <1>3 DEF IInv
<1>5. CASE Clear(t)
  <2> DEFINE i == handle[t]
  <2>1. i \in Slot /\ table[i].on /\ table[i].owner = t
    BY <1>5, <1>1 DEF Clear, At, IInv, Kept, EachItsOwn
  <2>2. Empty \in Entry /\ ~Empty.on /\ Empty.due = 0
    BY TimerAssumption DEF Empty, Entry, Ticks
  <2>3. /\ table' = [table EXCEPT ![i] = Empty] /\ waited' = [waited EXCEPT ![i] = 0]
        /\ handle' = [handle EXCEPT ![t] = None]
    BY <1>5 DEF Clear
  <2>4. \A u \in Tasks \ {t} : handle[u] # i
    BY <2>1, <1>1 DEF IInv, EachItsOwn
  <2>5. \A j \in Slot \ {i} : table[j].on => table[j].owner \in Tasks \ {t}
    BY <1>1, <2>1 DEF IInv, EachItsOwn, Entry
  <2> HIDE DEF i
  <2>6. TypeOK'
    BY <2>1, <2>2, <2>3, <1>0, <1>1, <1>2 DEF TypeOK, Entry, Place
  <2>7. /\ table'[i] = Empty /\ \A j \in Slot \ {i} : table'[j] = table[j]
        /\ handle'[t] = None /\ \A u \in Tasks \ {t} : handle'[u] = handle[u]
    BY <2>1, <2>3, <1>1
  <2>8. EachItsOwn'
    BY <2>2, <2>4, <2>5, <2>6, <2>7, <1>1 DEF IInv, EachItsOwn
  <2>9. Kept'
    BY <2>7, <1>1, <1>2 DEF IInv, Kept, Locked
  <2> QED BY <2>8, <2>9, <1>3 DEF IInv
<1> QED BY <1>4, <1>5

(* A tick moves deadlines of timers that are on and nothing else that the
   invariant is about. *)
LEMMA TickKeeps ==
  ASSUME IInv, TickLocked \/ TickRemoved \/ Tick
  PROVE  IInv'
<1>0. /\ TypeOK /\ UNCHANGED <<lock, alive, pc, handle>>
      /\ hung' \in {"no", "lock", "callback"}
  BY DEF IInv, EachItsOwn, TickLocked, TickRemoved, Tick, TypeOK
<1>1. /\ table \in [Slot -> Entry] /\ waited \in [Slot -> 0 .. Count]
      /\ tick \in Nat /\ Count \in Nat /\ alive \subseteq Tasks
  BY <1>0, Typed, TimerAssumption DEF TypeOK, Ticks
<1>2. (tick + 1) % Count \in Ticks /\ tick' = (tick + 1) % Count
  BY <1>1, DeadlineIsTick DEF TickLocked, TickRemoved, Tick
<1>3. ASSUME table' \in [Slot -> Entry],
             \A i \in Slot : (table'[i].on = table[i].on
                               /\ table'[i].owner = table[i].owner
                               /\ (table[i].on \/ table'[i].due = table[i].due)),
             waited' \in [Slot -> 0 .. Count], running' \in Tasks
      PROVE  IInv'
  <2>1. TypeOK'
    BY <1>0, <1>2, <1>3 DEF TypeOK, Entry
  <2>2. lock' = lock /\ pc' = pc /\ handle' = handle
    BY <1>0
  <2>3. (\A u \in Tasks : handle[u] # None => handle[u] \in Slot)
        /\ \A i \in Slot : table[i].owner \in Tasks
    BY <1>0, <1>1, Typed DEF Entry
  <2>4. EachItsOwn'
    <3>1. ASSUME NEW u \in Tasks, handle[u] # None
          PROVE  table'[handle[u]].on /\ table'[handle[u]].owner = u
      <4>1. handle[u] \in Slot /\ table[handle[u]].on /\ table[handle[u]].owner = u
        BY <2>3, <3>1 DEF IInv, EachItsOwn
      <4> QED BY <4>1, <1>3
    <3>2. ASSUME NEW i \in Slot
          PROVE  IF table'[i].on THEN handle[table'[i].owner] = i ELSE table'[i].due = 0
      <4>1. IF table[i].on THEN handle[table[i].owner] = i ELSE table[i].due = 0
        BY DEF IInv, EachItsOwn
      <4> QED BY <4>1, <1>3
    <3> QED BY <2>1, <2>2, <3>1, <3>2 DEF EachItsOwn
  <2>5. Holds'
    BY <2>2 DEF IInv, Holds
  <2>6. Kept'
    BY <2>2, <1>3 DEF IInv, Kept
  <2> QED BY <2>4, <2>5, <2>6 DEF IInv
<1>4. CASE TickLocked \/ TickRemoved
  BY <1>0, <1>1, <1>3, <1>4 DEF TickLocked, TickRemoved, TypeOK
<1>5. CASE Tick
  <2> DEFINE now == (tick + 1) % Count
             D == Due(now)
  <2>1. table' = [i \in Slot |-> IF i \in D
                    THEN [table[i] EXCEPT !.due = Deadline(now, table[i].every)]
                    ELSE table[i]]
    BY <1>5 DEF Tick
  <2>2. waited' = [i \in Slot |-> IF i \in D THEN 0
                                  ELSE IF table[i].on /\ waited[i] < Count
                                         THEN waited[i] + 1 ELSE waited[i]]
    BY <1>5 DEF Tick
  <2>3. \A i \in D : table[i].on
    BY DEF Due
  <2>4. now \in Nat
    BY <1>2, <1>1 DEF Ticks
  <2> HIDE DEF now, D
  <2>5. waited' \in [Slot -> 0 .. Count]
    <3>1. \A k \in 0 .. Count : k < Count => k + 1 \in 0 .. Count
      BY <1>1
    <3>2. 0 \in 0 .. Count
      BY <1>1
    <3> QED BY <2>2, <3>1, <3>2, <1>1
  <2>6. ASSUME NEW i \in Slot
        PROVE  /\ table'[i] \in Entry /\ table'[i].on = table[i].on
               /\ table'[i].owner = table[i].owner
               /\ (table[i].on \/ table'[i].due = table[i].due)
    <3>1. table[i] \in Entry /\ table[i].every \in Nat
      BY <1>1 DEF Entry, Ticks
    <3>2. Deadline(now, table[i].every) \in Ticks
      BY <2>4, <3>1, DeadlineIsTick
    <3> QED BY <2>1, <2>3, <3>1, <3>2 DEF Entry
  <2>7. table' \in [Slot -> Entry]
    BY <2>1, <2>6
  <2>8. running' \in Tasks
    BY <1>5, <1>1 DEF Tick
  <2> QED BY <2>5, <2>6, <2>7, <2>8, <1>3
<1> QED BY <1>4, <1>5

LEMMA NextKeeps == IInv /\ [Next]_vars => IInv'
<1> SUFFICES ASSUME IInv, [Next]_vars PROVE IInv'
  OBVIOUS
<1>1. ASSUME NEW t \in Tasks, Step(t) PROVE IInv'
  BY <1>1, QuietKeep, TableKeeps DEF Step
<1>2. ASSUME NEW t \in Tasks, NEW d \in Delays, AddApicTimer(t, d) PROVE IInv'
  BY <1>2, QuietKeep
<1>3. ASSUME NEW t \in Tasks, RemoveApicTimer(t) PROVE IInv'
  BY <1>3, QuietKeep
<1>4. ASSUME NEW t \in Tasks, End(t) PROVE IInv'
  BY <1>4 DEF End, IInv, EachItsOwn, TypeOK, Holds, Kept
<1>5. CASE TickLocked \/ TickRemoved \/ Tick
  BY <1>5, TickKeeps
<1>6. CASE UNCHANGED vars
  BY <1>6 DEF vars, IInv, EachItsOwn, TypeOK, Holds, Kept
<1> QED BY <1>1, <1>2, <1>3, <1>4, <1>5, <1>6 DEF Next

(* A removal never hits another task's timer, and every timer's owner can
   remove it. *)
THEOREM OwnTimers == Spec => []EachItsOwn
<1>1. IInv => EachItsOwn
  BY DEF IInv
<1> QED BY InitHolds, NextKeeps, <1>1, PTL DEF Spec

-----------------------------------------------------------------------------
(* A timer set at tick k for e ticks has k + e as its deadline, or k + e less
   the width of the count.  In the first case the deadline still tells k, and
   the ticks since then have all been waited: a tick that finds the deadline
   behind it is therefore not early.  A count that ran over k has waited longer
   than that, and one that is stuck calls nobody any more. *)
LEMMA WaitInit == Init => WaitOK
<1>1. ASSUME Init, NEW i \in Slot PROVE ~table[i].on
  BY <1>1 DEF Init, Empty
<1> QED BY <1>1 DEF WaitOK

(* A tick that calls nobody early *)
LEMMA TickInTime ==
  ASSUME IInv, WaitOK, Tick
  PROVE  /\ WaitOK'
         /\ \A i \in Slot : i \in Due(tick') =>
               waited[i] >= table[i].every \/ table[i].due < table[i].every
<1> DEFINE now == (tick + 1) % Count
<1>1. /\ table \in [Slot -> Entry] /\ waited \in [Slot -> 0 .. Count] /\ tick \in Ticks
      /\ Count \in Nat /\ Count > 0 /\ hung = "no"
  BY Typed, TimerAssumption DEF IInv, EachItsOwn, Tick
<1>2. now \in Ticks /\ tick' = now
  BY <1>1, DeadlineIsTick DEF Tick, Ticks
<1>3. IF tick + 1 < Count THEN now = tick + 1 ELSE now = 0
  <2>1. CASE Count = 1
    BY <2>1, <1>1, <1>2 DEF Ticks
  <2>2. CASE Count # 1
    <3>1. 1 \in Ticks
      BY <2>2, <1>1 DEF Ticks
    <3>2. (tick + 1) % Count = IF tick + 1 < Count THEN tick + 1 ELSE tick + 1 - Count
      BY <3>1, <1>1, SumOfTicks
    <3> QED BY <3>2, <1>1 DEF Ticks
  <2> QED BY <2>1, <2>2
<1> DEFINE D == Due(now)
<1>4. /\ table' = [i \in Slot |-> IF i \in D
                    THEN [table[i] EXCEPT !.due = Deadline(now, table[i].every)]
                    ELSE table[i]]
      /\ waited' = [i \in Slot |-> IF i \in D THEN 0
                                   ELSE IF table[i].on /\ waited[i] < Count
                                          THEN waited[i] + 1 ELSE waited[i]]
  BY DEF Tick
<1>5. \A i \in D : table[i].on /\ table[i].due < now
  BY DEF Due, Passed
<1>6. D = Due(tick')
  BY <1>2
<1> HIDE DEF now, D
<1>7. \A i \in Slot : /\ table[i].every \in Ticks /\ table[i].due \in Ticks
                      /\ waited[i] \in 0 .. Count
  BY <1>1 DEF Entry
<1>8. ASSUME NEW i \in Slot, i \in D
      PROVE  waited[i] >= table[i].every \/ table[i].due < table[i].every
  <2> DEFINE set == table[i].due - table[i].every
  <2>1. table[i].on /\ table[i].due <= tick
    BY <1>1, <1>2, <1>3, <1>5, <1>7, <1>8 DEF Ticks
  <2>2. 0 <= set => set <= tick
    BY <2>1, <1>1, <1>7 DEF Ticks
  <2>3. 0 <= set => tick - set <= waited[i]
    BY <2>1, <2>2, <1>1 DEF WaitOK
  <2> QED BY <2>1, <2>3, <1>1, <1>7 DEF Ticks
<1>9. ASSUME NEW i \in Slot, table'[i].on, 0 <= table'[i].due - table'[i].every,
             table'[i].due - table'[i].every <= now
      PROVE  now - (table'[i].due - table'[i].every) <= waited'[i]
  <2>1. CASE i \in D
    <3>1. /\ table'[i].every = table[i].every /\ waited'[i] = 0
          /\ table'[i].due = Deadline(now, table[i].every)
      BY <2>1, <1>1, <1>4 DEF Entry
    <3>2. table'[i].due - table'[i].every = now
      BY <3>1, <1>2, <1>7, <1>9, SetNow
    <3> QED BY <3>1, <3>2, <1>2 DEF Ticks
  <2>2. CASE i \notin D
    <3> DEFINE set == table[i].due - table[i].every
    <3>1. /\ table'[i] = table[i]
          /\ waited'[i] = IF table[i].on /\ waited[i] < Count THEN waited[i] + 1
                                                             ELSE waited[i]
      BY <2>2, <1>4
    <3>2. table[i].on /\ 0 <= set /\ set <= now
      BY <3>1, <1>9
    <3>3. set \in Int /\ tick \in 0 .. Count - 1
      BY <1>1, <1>7 DEF Ticks
    <3>4. set <= tick => tick - set <= waited[i]
      BY <3>2, <1>1 DEF WaitOK
    <3> HIDE DEF set
    <3>5. now - set <= waited'[i]
      BY <3>1, <3>2, <3>3, <3>4, <1>1, <1>3, <1>7
    <3> QED BY <3>1, <3>5 DEF set
  <2> QED BY <2>1, <2>2
<1>10. WaitOK'
  BY <1>2, <1>9 DEF WaitOK
<1> QED BY <1>6, <1>8, <1>10

LEMMA WaitKeeps == IInv /\ WaitOK /\ [Next]_vars => WaitOK'
<1> SUFFICES ASSUME IInv, WaitOK, [Next]_vars PROVE WaitOK'
  OBVIOUS
<1>1. ASSUME NEW t \in Tasks, NEW d \in Delays, AddApicTimer(t, d) PROVE WaitOK'
  BY <1>1 DEF AddApicTimer, WaitOK
<1>2. ASSUME NEW t \in Tasks, RemoveApicTimer(t) \/ End(t) \/ Enter(t) \/ Pick(t) \/ PickNone(t)
      PROVE  WaitOK'
  BY <1>2 DEF RemoveApicTimer, End, Enter, Pick, PickNone, WaitOK
<1>3. ASSUME NEW t \in Tasks, Fill(t) PROVE WaitOK'
  <2> DEFINE i == pc[t].slot
             n == pc[t].delay
             e == [on |-> TRUE, every |-> n, due |-> Deadline(tick, n), owner |-> t]
  <2>1. /\ i \in Slot /\ n \in Ticks /\ tick \in Ticks /\ table \in [Slot -> Entry]
        /\ waited \in [Slot -> 0 .. Count]
    BY <1>3, Typed DEF IInv, EachItsOwn, Kept, Fill, At, Place
  <2>2. /\ table' = [table EXCEPT ![i] = e] /\ waited' = [waited EXCEPT ![i] = 0]
        /\ tick' = tick /\ hung' = hung
    BY <1>3 DEF Fill
  <2>3. e.every = n /\ e.due = Deadline(tick, n)
    OBVIOUS
  <2> HIDE DEF i, n, e
  <2>4. 0 <= e.due - e.every => e.due - e.every = tick
    BY <2>1, <2>3, SetNow
  <2>5. table'[i] = e /\ waited'[i] = 0
    BY <2>1, <2>2
  <2>6. \A j \in Slot \ {i} : table'[j] = table[j] /\ waited'[j] = waited[j]
    BY <2>1, <2>2
  <2>7. tick - tick = 0
    BY <2>1 DEF Ticks
  <2> QED BY <2>2, <2>4, <2>5, <2>6, <2>7 DEF WaitOK
<1>4. ASSUME NEW t \in Tasks, Clear(t) PROVE WaitOK'
  <2> DEFINE i == handle[t]
  <2>1. table \in [Slot -> Entry] /\ waited \in [Slot -> 0 .. Count]
    BY Typed DEF IInv, EachItsOwn
  <2>2. /\ table' = [table EXCEPT ![i] = Empty] /\ waited' = [waited EXCEPT ![i] = 0]
        /\ tick' = tick /\ hung' = hung
    BY <1>4 DEF Clear
  <2>3. ~Empty.on
    BY DEF Empty
  <2> HIDE DEF i
  <2>4. ASSUME NEW j \in Slot, table'[j].on
        PROVE  table'[j] = table[j] /\ waited'[j] = waited[j]
    BY <2>1, <2>2, <2>3, <2>4
  <2> QED BY <2>2, <2>4 DEF WaitOK
<1>5. CASE TickLocked \/ TickRemoved
  BY <1>5 DEF TickLocked, TickRemoved, WaitOK
<1>6. CASE Tick
  BY <1>6, TickInTime
<1>7. CASE UNCHANGED vars
  BY <1>7 DEF vars, WaitOK
<1> QED BY <1>1, <1>2, <1>3, <1>4, <1>5, <1>6, <1>7 DEF Next, Step

(* A callback is called only when its task's delay has passed, unless its
   deadline ran over the end of the count: for any number of tasks, slots,
   delays and any width of the count. *)
THEOREM NeverEarly == Spec => NotBeforeTime
<1>1. IInv /\ WaitOK /\ [Next]_vars =>
        [\A i \in Slot : Tick /\ i \in Due(tick') =>
            waited[i] >= table[i].every \/ table[i].due < table[i].every]_vars
  BY TickInTime
<1> QED BY InitHolds, NextKeeps, WaitInit, WaitKeeps, <1>1, PTL DEF Spec, NotBeforeTime

=============================================================================
