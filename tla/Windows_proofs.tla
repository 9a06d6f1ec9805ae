---------------------------- MODULE Windows_proofs ----------------------------
(***************************************************************************)
(* Proofs about the windows, for any number of tasks, CPUs and entries, and *)
(* any names.                                                               *)
(***************************************************************************)
EXTENDS Windows, SequenceTheorems, TLAPS

(* The callers of RemoveWindow in __DestroyWindow *)
Destroyers == {"close", "exit", "cls"}

Has(seq, s) == \E i \in 1 .. Len(seq) : seq[i] = s

-----------------------------------------------------------------------------
(* The inductive invariant, part by part *)

(* The locks are held exactly within the calls that enter them. *)
LockOK ==
    \A t \in Tasks :
        /\ pc[t].op \in {"link", "unlink"} <=> lock = t
        /\ pc[t].op \in {"charge", "freeing"} <=> memLock = t

(* A call comes from where it can come from. *)
CallOK(t) ==
    /\ pc[t].op \in {"idle", "got", "minimize", "end", "alloc", "find", "insert", "link"} =>
          pc[t].by \in {"open", "minimize"}
    /\ pc[t].op \in {"idle", "alloc"} => pc[t].by = "open"
    /\ pc[t].op = "charge" => pc[t].by \in {"open", "minimize"}
    /\ pc[t].op = "picture" => pc[t].by = "minimize"
    /\ pc[t].op = "walk" => pc[t].by = "end"
    /\ pc[t].op \in {"remove", "unlink"} => pc[t].by \in Destroyers \cup {"end"}
    /\ pc[t].op \in {"free", "freeing"} => pc[t].by \in Destroyers
    /\ state[t] = "new" => pc[t].op \in {"idle", "alloc", "charge", "find", "insert", "link"}

CallsOK == \A t \in Tasks : CallOK(t)

EntriesOK ==
    /\ \A i, j \in 1 .. Len(order) : order[i] = order[j] => i = j
    /\ \A s \in Slot \ Moving :
          /\ s \in valid <=> Has(order, s)
          /\ s \in valid <=> win[s] # None
    /\ \A t \in Tasks :
          /\ pc[t].op = "link" =>
                /\ pc[t].slot \in valid /\ ~Has(order, pc[t].slot)
                /\ win[pc[t].slot] = t
          /\ pc[t].op = "unlink" =>
                /\ pc[t].slot \in Slot \ valid /\ Has(order, pc[t].slot)
                /\ win[pc[t].slot] # None

(* t has no window in the table: it did not draw one yet, or it destroyed what
   it had. *)
Bare(t) ==
    \/ state[t] = "new" /\ pc[t].op # "link"
    \/ pc[t].op \in {"alloc", "find", "insert", "free", "freeing"}
    \/ pc[t].op = "charge" /\ pc[t].by = "open"

(* No window is in two entries, or has a number that is another's. *)
OnceOK ==
    /\ \A r, s \in Slot : win[r] = win[s] /\ win[r] # None => r = s
    /\ \A s \in Slot : win[s] # None => id[win[s]] = s
    /\ \A t \in Tasks : Bare(t) => \A s \in Slot : win[s] # t
    /\ \A t \in Tasks :
          pc[t].op \in {"remove", "unlink"} /\ pc[t].by \in Destroyers => pc[t].slot = id[t]

-----------------------------------------------------------------------------
(* The ring is a sequence without repetitions: appending and removing. *)

LEMMA RemoveAtIndex ==
  ASSUME NEW S, NEW s \in Seq(S), NEW i \in 1 .. Len(s)
  PROVE  /\ RemoveAt(s, i) \in Seq(S)
         /\ Len(RemoveAt(s, i)) = Len(s) - 1
         /\ \A j \in 1 .. Len(s) - 1 :
              RemoveAt(s, i)[j] = IF j < i THEN s[j] ELSE s[j + 1]
<1>0. Len(s) \in Nat /\ i \in Nat /\ 1 <= i /\ i <= Len(s)
  BY LenProperties
<1> DEFINE f == SubSeq(s, 1, i - 1)
           g == SubSeq(s, i + 1, Len(s))
<1>1. \A j \in 1 .. Len(s) : s[j] \in S
  BY ElementOfSeq
<1>2. f \in Seq(S) /\ Len(f) = i - 1 /\ \A j \in 1 .. i - 1 : f[j] = s[j]
  BY <1>0, <1>1, SubSeqProperties, Z3
<1>3. g \in Seq(S) /\ Len(g) = Len(s) - i /\ \A j \in 1 .. Len(s) - i : g[j] = s[i + j]
  <2>1. CASE i = Len(s)
    BY <1>0, <2>1, SubSeqEmpty
  <2>2. CASE i < Len(s)
    BY <1>0, <1>1, <2>2, SubSeqProperties, Z3
  <2> QED BY <1>0, <2>1, <2>2
<1> HIDE DEF f, g
<1>4. /\ f \o g \in Seq(S)
      /\ Len(f \o g) = Len(f) + Len(g)
      /\ \A j \in 1 .. Len(f) + Len(g) :
           (f \o g)[j] = IF j <= Len(f) THEN f[j] ELSE g[j - Len(f)]
  BY <1>2, <1>3, ConcatProperties
<1>5. RemoveAt(s, i) = f \o g /\ Len(f) + Len(g) = Len(s) - 1
  BY <1>0, <1>2, <1>3 DEF RemoveAt, f, g
<1>6. ASSUME NEW j \in 1 .. Len(s) - 1
      PROVE  (f \o g)[j] = IF j < i THEN s[j] ELSE s[j + 1]
  <2>1. CASE j < i
    BY <2>1, <1>0, <1>2, <1>4, <1>5
  <2>2. CASE ~(j < i)
    <3>1. j - Len(f) \in 1 .. Len(s) - i /\ i + (j - Len(f)) = j + 1
      BY <2>2, <1>0, <1>2
    <3>2. (f \o g)[j] = g[j - Len(f)]
      BY <2>2, <1>0, <1>2, <1>4, <1>5
    <3> QED BY <2>2, <3>1, <3>2, <1>3
  <2> QED BY <2>1, <2>2
<1> QED BY <1>4, <1>5, <1>6, Zenon

LEMMA RingGrows ==
  ASSUME TypeOK, NEW s \in Slot, order' = Append(order, s)
  PROVE  /\ order' \in Seq(Slot) /\ Len(order') = Len(order) + 1
         /\ \A i \in 1 .. Len(order) : order'[i] = order[i]
         /\ order'[Len(order) + 1] = s
         /\ \A r : Has(order', r) <=> Has(order, r) \/ r = s
<1>1. order \in Seq(Slot) /\ Len(order) \in Nat
  BY LenProperties DEF TypeOK
<1>2. /\ order' \in Seq(Slot) /\ Len(order') = Len(order) + 1
      /\ \A i \in 1 .. Len(order) : order'[i] = order[i]
      /\ order'[Len(order) + 1] = s
  BY <1>1, AppendProperties
<1>3. \A r : Has(order', r) <=> Has(order, r) \/ r = s
  BY <1>1, <1>2 DEF Has
<1> QED BY <1>2, <1>3, Zenon

(* Where a node of the ring is after the one at i was removed *)
Shift(i, j) == IF j < i THEN j ELSE j - 1

LEMMA RingShrinks ==
  ASSUME TypeOK, NEW i \in 1 .. Len(order), order' = RemoveAt(order, i),
         \A j, k \in 1 .. Len(order) : order[j] = order[k] => j = k
  PROVE  /\ order' \in Seq(Slot) /\ Len(order') = Len(order) - 1
         /\ \A j \in 1 .. Len(order) : j # i =>
              Shift(i, j) \in 1 .. Len(order') /\ order'[Shift(i, j)] = order[j]
         /\ \A k \in 1 .. Len(order') :
              \E j \in 1 .. Len(order) : j # i /\ Shift(i, j) = k /\ order'[k] = order[j]
         /\ \A r : Has(order', r) <=> Has(order, r) /\ r # order[i]
<1>1. order \in Seq(Slot) /\ Len(order) \in Nat /\ i \in Nat
  BY LenProperties DEF TypeOK
<1>2. /\ order' \in Seq(Slot) /\ Len(order') = Len(order) - 1
      /\ \A j \in 1 .. Len(order) - 1 :
           order'[j] = IF j < i THEN order[j] ELSE order[j + 1]
  BY <1>1, RemoveAtIndex
<1>3. ASSUME NEW j \in 1 .. Len(order), j # i
      PROVE  Shift(i, j) \in 1 .. Len(order') /\ order'[Shift(i, j)] = order[j]
  <2>1. CASE j < i
    BY <1>1, <1>2, <1>3, <2>1 DEF Shift
  <2>2. CASE i < j
    <3>1. j - 1 \in 1 .. Len(order) - 1 /\ ~(j - 1 < i) /\ (j - 1) + 1 = j
      BY <1>1, <2>2
    <3> QED BY <1>1, <1>2, <2>2, <3>1 DEF Shift
  <2> QED BY <1>1, <1>3, <2>1, <2>2
<1>4. ASSUME NEW k \in 1 .. Len(order')
      PROVE  \E j \in 1 .. Len(order) : j # i /\ Shift(i, j) = k /\ order'[k] = order[j]
  <2>1. CASE k < i
    BY <1>1, <1>2, <2>1 DEF Shift
  <2>2. CASE ~(k < i)
    <3>1. k + 1 \in 1 .. Len(order) /\ k + 1 # i /\ Shift(i, k + 1) = k
      BY <1>1, <1>2, <2>2 DEF Shift
    <3> QED BY <1>1, <1>2, <2>2, <3>1
  <2> QED BY <2>1, <2>2
<1>5. ASSUME NEW r
      PROVE  Has(order', r) <=> Has(order, r) /\ r # order[i]
  <2>1. ASSUME Has(order', r)
        PROVE  Has(order, r) /\ r # order[i]
    <3>1. PICK k \in 1 .. Len(order') : order'[k] = r
      BY <2>1 DEF Has
    <3>2. PICK j \in 1 .. Len(order) : j # i /\ order'[k] = order[j]
      BY <1>4
    <3> QED BY <3>1, <3>2 DEF Has
  <2>2. ASSUME Has(order, r), r # order[i]
        PROVE  Has(order', r)
    <3>1. PICK j \in 1 .. Len(order) : order[j] = r
      BY <2>2 DEF Has
    <3> QED BY <2>2, <3>1, <1>3 DEF Has
  <2> QED BY <2>1, <2>2
<1> QED BY <1>2, <1>3, <1>4, <1>5, Zenon

-----------------------------------------------------------------------------
(* Types *)

LEMMA RemovedCases ==
  ASSUME TypeOK, NEW t \in Tasks, Removed(t)
  PROVE  \/ /\ pc[t].by \in Destroyers
            /\ pc' = [pc EXCEPT ![t].op = "free"]
            /\ UNCHANGED <<listLock, state>>
         \/ pc[t].by = "end" /\ pc[t].slot = pc[t].from /\ LeaveList(t, "over")
         \/ /\ pc[t].by \notin Destroyers
            /\ pc' = [pc EXCEPT ![t].op = "walk"]
            /\ UNCHANGED <<listLock, state>>
BY DEF Removed, Destroyers

LEMMA CallFields ==
  ASSUME TypeOK, NEW t \in Tasks
  PROVE  /\ pc[t] \in Call /\ pc[t].op \in Ops
         /\ pc[t].slot \in 0 .. Slots /\ pc[t].from \in 0 .. Slots
         /\ CpuOf[t] \in Cpus
BY WindowsAssumption DEF TypeOK, Call

LEMMA IdleType ==
  /\ Idle \in Call
  /\ \A o \in Ops : [Idle EXCEPT !.op = o] \in Call
BY WindowsAssumption DEF Idle, Call, Ops

LEMMA InitType == Init => TypeOK
<1> SUFFICES ASSUME Init PROVE TypeOK
  OBVIOUS
<1>1. PICK n \in 0 .. Len(Left) :
         /\ order = [s \in 1 .. n + 1 |-> s]
         /\ valid = 1 .. n + 1
         /\ win = [s \in Slot |->
                CASE s = 1 -> Desk [] s \in 2 .. n + 1 -> Left[s - 1] [] OTHER -> None]
  BY DEF Init
<1>2. n \in Nat /\ n + 1 \in Nat /\ n + 1 <= Slots /\ Slots \in Nat
  BY WindowsAssumption, LenProperties
<1>3. order \in Seq(Slot) /\ valid \subseteq Slot
  <2>1. \A s \in 1 .. n + 1 : s \in Slot
    BY <1>2 DEF Slot
  <2>2. [s \in 1 .. n + 1 |-> s] \in Seq(Slot)
    BY <1>2, <2>1, IsASeq
  <2> QED BY <1>1, <2>1, <2>2
<1>4. ASSUME NEW s \in Slot
      PROVE  win[s] \in Tasks \cup {None}
  <2>1. CASE s = 1
    BY <1>1, <2>1, WindowsAssumption DEF Slot
  <2>2. CASE s \in 2 .. n + 1
    <3>1. s - 1 \in 1 .. Len(Left) /\ Left \in Seq(Tasks)
      BY <1>2, <2>2, WindowsAssumption, LenProperties, SeqMonotonic
    <3>2. Left[s - 1] \in Tasks
      BY <3>1, ElementOfSeq
    <3> QED BY <1>1, <2>2, <3>2
  <2>3. CASE s # 1 /\ s \notin 2 .. n + 1
    BY <1>1, <2>3
  <2> QED BY <2>1, <2>2, <2>3
<1>5. win \in [Slot -> Tasks \cup {None}]
  BY <1>1, <1>4
<1>6. id \in [Tasks -> 0 .. Slots]
  <2> SUFFICES ASSUME NEW t \in Tasks
               PROVE  (IF \E s \in Slot : win[s] = t
                         THEN CHOOSE s \in Slot : win[s] = t ELSE 0) \in 0 .. Slots
    BY DEF Init
  <2> QED BY <1>2 DEF Slot
<1>7. pc \in [Tasks -> Call]
  BY IdleType DEF Init
<1>8. /\ state \in [Tasks -> {"new", "up", "over", "killed"}]
      /\ running \in [Cpus -> Tasks] /\ name \in [Tasks -> Tasks]
      /\ why \in [Tasks -> {"none", "refused", "closed", "taken"}]
      /\ listLock \in [Cpus -> Tasks \cup {None}]
      /\ lock \in Tasks \cup {None} /\ memLock \in Tasks \cup {None}
      /\ raced \subseteq Tasks /\ cut \subseteq Tasks
  BY WindowsAssumption DEF Init
<1> QED BY <1>3, <1>5, <1>6, <1>7, <1>8 DEF TypeOK

LEMMA LeaveListType ==
  ASSUME TypeOK, NEW t \in Tasks, NEW s \in {"up", "over"}, LeaveList(t, s)
  PROVE  /\ pc' \in [Tasks -> Call]
         /\ listLock' \in [Cpus -> Tasks \cup {None}]
         /\ state' \in [Tasks -> {"new", "up", "over", "killed"}]
BY IdleType DEF TypeOK, LeaveList, LeavesList

Callers == {"open", "close", "exit", "cls", "minimize", "end"}

(* Every update of a call that the actions make *)
LEMMA CallType ==
  ASSUME TypeOK, NEW t \in Tasks
  PROVE  /\ [pc EXCEPT ![t] = Idle] \in [Tasks -> Call]
         /\ \A s \in 0 .. Slots : [pc EXCEPT ![t].slot = s] \in [Tasks -> Call]
         /\ \A o \in Ops :
              /\ [pc EXCEPT ![t].op = o] \in [Tasks -> Call]
              /\ [pc EXCEPT ![t] = [Idle EXCEPT !.op = o]] \in [Tasks -> Call]
              /\ \A s \in 0 .. Slots :
                   [pc EXCEPT ![t].op = o, ![t].slot = s] \in [Tasks -> Call]
              /\ \A b \in Callers :
                   /\ [pc EXCEPT ![t].op = o, ![t].by = b] \in [Tasks -> Call]
                   /\ \A s \in 0 .. Slots :
                        [pc EXCEPT ![t].op = o, ![t].slot = s, ![t].by = b]
                           \in [Tasks -> Call]
                   /\ \A s, f \in 0 .. Slots :
                        [pc EXCEPT ![t].op = o, ![t].by = b, ![t].slot = s, ![t].from = f]
                           \in [Tasks -> Call]
<1>1. pc \in [Tasks -> Call] /\ pc[t] \in Call /\ Idle \in Call
  BY IdleType DEF TypeOK
<1>2. ASSUME NEW o \in Ops
      PROVE  [pc EXCEPT ![t].op = o] \in [Tasks -> Call]
  <2>1. [pc[t] EXCEPT !.op = o] \in Call
    BY <1>1 DEF Call, Callers
  <2> QED BY <1>1, <2>1
<1>3. ASSUME NEW s \in 0 .. Slots
      PROVE  [pc EXCEPT ![t].slot = s] \in [Tasks -> Call]
  <2>1. [pc[t] EXCEPT !.slot = s] \in Call
    BY <1>1 DEF Call, Callers
  <2> QED BY <1>1, <2>1
<1>4. ASSUME NEW o \in Ops, NEW s \in 0 .. Slots
      PROVE  [pc EXCEPT ![t].op = o, ![t].slot = s] \in [Tasks -> Call]
  <2>1. [pc[t] EXCEPT !.op = o, !.slot = s] \in Call
    BY <1>1 DEF Call, Callers
  <2> QED BY <1>1, <2>1
<1>5. ASSUME NEW o \in Ops
      PROVE  [pc EXCEPT ![t] = [Idle EXCEPT !.op = o]] \in [Tasks -> Call]
  <2>1. [Idle EXCEPT !.op = o] \in Call
    BY IdleType
  <2> QED BY <1>1, <2>1
<1>6. ASSUME NEW o \in Ops, NEW b \in Callers
      PROVE  [pc EXCEPT ![t].op = o, ![t].by = b] \in [Tasks -> Call]
  <2>1. [pc[t] EXCEPT !.op = o, !.by = b] \in Call
    BY <1>1 DEF Call, Callers
  <2> QED BY <1>1, <2>1
<1>7. ASSUME NEW o \in Ops, NEW b \in Callers, NEW s \in 0 .. Slots
      PROVE  [pc EXCEPT ![t].op = o, ![t].slot = s, ![t].by = b] \in [Tasks -> Call]
  <2>1. [pc[t] EXCEPT !.op = o, !.slot = s, !.by = b] \in Call
    BY <1>1 DEF Call, Callers
  <2> QED BY <1>1, <2>1
<1>8. ASSUME NEW o \in Ops, NEW b \in Callers, NEW s \in 0 .. Slots,
             NEW f \in 0 .. Slots
      PROVE  [pc EXCEPT ![t].op = o, ![t].by = b, ![t].slot = s, ![t].from = f] \in [Tasks -> Call]
  <2>1. [pc[t] EXCEPT !.op = o, !.by = b, !.slot = s, !.from = f] \in Call
    BY <1>1 DEF Call, Callers
  <2> QED BY <1>1, <2>1
<1>9. [pc EXCEPT ![t] = Idle] \in [Tasks -> Call]
  BY <1>1
<1> QED BY <1>2, <1>3, <1>4, <1>5, <1>6, <1>7, <1>8, <1>9

LEMMA RemovedType ==
  ASSUME TypeOK, NEW t \in Tasks, Removed(t)
  PROVE  /\ pc' \in [Tasks -> Call]
         /\ listLock' \in [Cpus -> Tasks \cup {None}]
         /\ state' \in [Tasks -> {"new", "up", "over", "killed"}]
<1>1. CASE LeaveList(t, "over")
  BY <1>1, LeaveListType
<1>2. CASE /\ \/ pc' = [pc EXCEPT ![t].op = "free"]
              \/ pc' = [pc EXCEPT ![t].op = "walk"]
           /\ UNCHANGED <<listLock, state>>
  <2>1. "free" \in Ops /\ "walk" \in Ops
    BY DEF Ops
  <2>2. CASE pc' = [pc EXCEPT ![t].op = "free"]
    BY <1>2, <2>1, <2>2, CallType DEF TypeOK
  <2>3. CASE pc' = [pc EXCEPT ![t].op = "walk"]
    BY <1>2, <2>1, <2>3, CallType DEF TypeOK
  <2> QED BY <1>2, <2>2, <2>3
<1> QED BY <1>1, <1>2, RemovedCases

(* The entry before s is the one before it in the ring. *)
LEMMA BeforeIndex ==
  ASSUME TypeOK, NEW i \in 1 .. Len(order),
         \A j, k \in 1 .. Len(order) : order[j] = order[k] => j = k
  PROVE  Before(order[i]) = order[IF i = 1 THEN Len(order) ELSE i - 1]
<1> DEFINE c == CHOOSE j \in 1 .. Len(order) : order[j] = order[i]
<1>1. c \in 1 .. Len(order) /\ order[c] = order[i]
  OBVIOUS
<1>2. c = i
  BY <1>1
<1> QED BY <1>2 DEF Before

LEMMA BeforeType ==
  ASSUME TypeOK, NEW s, \A j, k \in 1 .. Len(order) : order[j] = order[k] => j = k
  PROVE  /\ Before(s) \in 0 .. Slots
         /\ Before(s) = 0 <=> ~Has(order, s)
<1>1. order \in Seq(Slot) /\ Len(order) \in Nat /\ Slots \in Nat
  BY LenProperties, WindowsAssumption DEF TypeOK
<1>2. CASE Has(order, s)
  <2>1. PICK i \in 1 .. Len(order) : order[i] = s
    BY <1>2 DEF Has
  <2>2. (IF i = 1 THEN Len(order) ELSE i - 1) \in 1 .. Len(order)
    BY <1>1
  <2>3. Before(s) \in Slot
    BY <1>1, <2>1, <2>2, BeforeIndex, ElementOfSeq
  <2> QED BY <1>2, <2>3, <1>1 DEF Slot
<1>3. CASE ~Has(order, s)
  BY <1>3, <1>1 DEF Has, Before
<1> QED BY <1>2, <1>3

LEMMA TypeNext ==
  ASSUME TypeOK, \A i, j \in 1 .. Len(order) : order[i] = order[j] => i = j,
         \A t \in Tasks : pc[t].op = "link" => pc[t].slot # 0, [Next]_vars
  PROVE  TypeOK'
<1>0. /\ {"alloc", "charge", "find", "insert", "link", "got", "remove", "minimize", "picture",
          "freeing", "end", "walk", "unlink", "idle"} \subseteq Ops
      /\ {"close", "exit", "cls", "minimize", "end"} \subseteq Callers
      /\ 0 \in 0 .. Slots
  BY WindowsAssumption DEF Ops, Callers
<1>1. CASE UNCHANGED vars
  BY <1>1 DEF vars, TypeOK
<1>2. ASSUME NEW t \in Tasks,
             \/ DrawWindow(t) \/ AllocBuf(t) \/ Charge(t) \/ Read(t) \/ Ignore(t)
             \/ Minimize(t) \/ TakePicture(t) \/ FreeBuf(t) \/ Freed(t) \/ End(t)
      PROVE  TypeOK'
  <2>1. \/ \E o \in Ops : \/ pc' = [pc EXCEPT ![t].op = o]
                          \/ pc' = [pc EXCEPT ![t] = [Idle EXCEPT !.op = o]]
        \/ pc' = [pc EXCEPT ![t] = Idle]
    <3>1. CASE DrawWindow(t) \/ AllocBuf(t) \/ Charge(t) \/ Read(t) \/ Ignore(t)
      BY <1>0, <3>1, Zenon DEF DrawWindow, AllocBuf, Charge, Read, Ignore
    <3>2. CASE Minimize(t) \/ TakePicture(t) \/ FreeBuf(t) \/ End(t)
      BY <1>0, <3>2, Zenon DEF Minimize, TakePicture, FreeBuf, End
    <3>3. CASE Freed(t)
      <4> DEFINE o == CASE pc[t].by = "close" -> "end" [] pc[t].by = "cls" -> "alloc"
                        [] OTHER -> "idle"
      <4>1. o \in Ops
        BY <1>0
      <4>2. pc' = [pc EXCEPT ![t] = [Idle EXCEPT !.op = o]]
        BY <3>3 DEF Freed
      <4> QED BY <4>1, <4>2
    <3> QED BY <1>2, <3>1, <3>2, <3>3
  <2>2. pc' \in [Tasks -> Call]
    <3>1. CASE \E o \in Ops : \/ pc' = [pc EXCEPT ![t].op = o]
                             \/ pc' = [pc EXCEPT ![t] = [Idle EXCEPT !.op = o]]
      <4>1. PICK o \in Ops : \/ pc' = [pc EXCEPT ![t].op = o]
                             \/ pc' = [pc EXCEPT ![t] = [Idle EXCEPT !.op = o]]
        BY <3>1
      <4>2. CASE pc' = [pc EXCEPT ![t].op = o]
        BY <4>2, CallType
      <4>3. CASE pc' = [pc EXCEPT ![t] = [Idle EXCEPT !.op = o]]
        BY <4>3, CallType
      <4> QED BY <4>1, <4>2, <4>3
    <3>2. CASE pc' = [pc EXCEPT ![t] = Idle]
      BY <3>2, CallType
    <3> QED BY <2>1, <3>1, <3>2
  <2>3. memLock' \in {memLock, t, None}
    BY <1>2 DEF DrawWindow, AllocBuf, Charge, Read, Ignore, Minimize, TakePicture, FreeBuf,
                Freed, End
  <2> QED
    BY <1>2, <2>2, <2>3 DEF DrawWindow, AllocBuf, Charge, Read, Ignore, Minimize, TakePicture,
                            FreeBuf, Freed, End, TypeOK
<1>3. ASSUME NEW t \in Tasks, NoFreeWindow(t) \/ FindWindow(t)
      PROVE  TypeOK'
  <2>1. CASE Refused(t) /\ raced' = raced
    <3>1. pc' \in [Tasks -> Call]
      BY <2>1, CallType DEF Refused, Drawn
    <3>2. /\ id' \in [Tasks -> 0 .. Slots]
          /\ state' \in [Tasks -> {"new", "up", "over", "killed"}]
          /\ why' \in [Tasks -> {"none", "refused", "closed", "taken"}]
      BY <1>0, <2>1 DEF Refused, NumberRefused, Drawn, TypeOK
    <3> QED BY <1>3, <2>1, <3>1, <3>2 DEF NoFreeWindow, FindWindow, TypeOK
  <2>2. CASE /\ pc' = [pc EXCEPT ![t].op = "insert"]
             /\ raced' = raced \cup Unseen(t)
             /\ UNCHANGED <<id, state, why>>
    <3>1. Unseen(t) \subseteq Tasks
      BY DEF Unseen
    <3>2. pc' \in [Tasks -> Call]
      BY <1>0, <2>2, CallType
    <3> QED BY <1>3, <2>2, <3>1, <3>2 DEF NoFreeWindow, FindWindow, TypeOK
  <2> QED BY <1>3, <2>1, <2>2 DEF NoFreeWindow, FindWindow
<1>4. ASSUME NEW t \in Tasks, GetFreeWindow(t)
      PROVE  TypeOK'
  <2>1. PICK s \in Slot :
          /\ valid' = valid \cup {s}
          /\ win' = [win EXCEPT ![s] = t]
          /\ id' = [id EXCEPT ![t] = s]
          /\ pc' = [pc EXCEPT ![t].op = "link", ![t].slot = s]
    BY <1>4 DEF GetFreeWindow, NumberOf
  <2>2. s \in 0 .. Slots
    BY DEF Slot
  <2>3. pc' \in [Tasks -> Call]
    BY <1>0, <2>1, <2>2, CallType
  <2> QED BY <1>4, <2>1, <2>2, <2>3 DEF GetFreeWindow, TypeOK
<1>5. ASSUME NEW t \in Tasks, LinkWindow(t)
      PROVE  TypeOK'
  <2>1. pc[t].slot \in Slot
    BY <1>5, CallFields DEF LinkWindow, At, Slot
  <2> QED BY <1>5, <2>1, RingGrows, IdleType DEF LinkWindow, Drawn, TypeOK
<1>6. ASSUME NEW t \in Tasks, NEW b \in {"close", "exit", "cls"}, CallDestroy(t, b),
             why' \in {why, [why EXCEPT ![t] = "closed"]}
      PROVE  TypeOK'
  <2>1. pc' \in [Tasks -> Call]
    <3>1. id[t] \in 0 .. Slots
      BY DEF TypeOK
    <3>2. "remove" \in Ops /\ b \in Callers
      BY <1>0
    <3>3. [pc EXCEPT ![t].op = "remove", ![t].slot = id[t], ![t].by = b] \in [Tasks -> Call]
      <4>1. \A s \in 0 .. Slots :
               [pc EXCEPT ![t].op = "remove", ![t].slot = s, ![t].by = b] \in [Tasks -> Call]
        BY <3>2, CallType, Zenon
      <4> QED BY <3>1, <4>1, Zenon
    <3> QED BY <1>6, <3>3 DEF CallDestroy
  <2> QED BY <1>6, <2>1 DEF CallDestroy, TypeOK
<1>7. ASSUME NEW t \in Tasks, DestroyWindow(t) \/ Fail(t) \/ Exit(t) \/ Clear(t)
      PROVE  TypeOK'
  BY <1>6, <1>7 DEF DestroyWindow, Fail, Exit, Clear
<1>8. ASSUME NEW t \in Tasks, MinimizeWindow(t) \/ MinimizeFails(t)
      PROVE  TypeOK'
  <2>1. CASE MinimizeWindow(t)
    <3>1. pc' \in [Tasks -> Call]
      BY <1>0, <2>1, CallType DEF MinimizeWindow
    <3> QED BY <2>1, <3>1 DEF MinimizeWindow, TypeOK
  <2>2. CASE MinimizeFails(t)
    BY <2>2, LeaveListType DEF MinimizeFails, TypeOK
  <2> QED BY <1>8, <2>1, <2>2
<1>9. ASSUME NEW t \in Tasks, RemoveWindow(t)
      PROVE  TypeOK'
  <2>1. CASE Removed(t) /\ UNCHANGED <<valid, lock>>
    BY <1>9, <2>1, RemovedType DEF RemoveWindow, TypeOK
  <2>2. CASE /\ valid' = valid \ {pc[t].slot} /\ lock' = t
             /\ pc' = [pc EXCEPT ![t].op = "unlink"]
             /\ UNCHANGED <<listLock, state>>
    BY <1>0, <1>9, <2>2, CallType DEF RemoveWindow, TypeOK
  <2> QED BY <1>9, <2>1, <2>2 DEF RemoveWindow
<1>10. ASSUME NEW t \in Tasks, UnlinkWindow(t)
       PROVE  TypeOK'
  <2>1. order' \in Seq(Slot)
    <3>1. PICK i \in 1 .. Len(order) : order' = RemoveAt(order, i)
      BY <1>10 DEF UnlinkWindow
    <3> QED BY <3>1, RingShrinks
  <2>2. win' \in [Slot -> Tasks \cup {None}] /\ lock' \in Tasks \cup {None}
        /\ why' \in [Tasks -> {"none", "refused", "closed", "taken"}]
    BY <1>10 DEF UnlinkWindow, TypeOK
  <2>3. cut' \subseteq Tasks
    BY <1>10 DEF UnlinkWindow, CutAt, TypeOK
  <2> QED BY <1>10, <2>1, <2>2, <2>3, RemovedType DEF UnlinkWindow, TypeOK
<1>11. ASSUME NEW t \in Tasks, EndProcess(t)
       PROVE  TypeOK'
  <2>1. TopEntry \in 0 .. Slots
    <3>1. CASE order # <<>>
      <4>1. order \in Seq(Slot) /\ Len(order) \in Nat /\ Len(order) # 0
        BY <3>1, LenProperties, EmptySeq DEF TypeOK
      <4>2. order[Len(order)] \in Slot
        BY <4>1, ElementOfSeq
      <4> QED BY <3>1, <4>2 DEF TopEntry, Last, Slot
    <3>2. CASE order = <<>>
      BY <1>0, <3>2 DEF TopEntry
    <3> QED BY <3>1, <3>2
  <2>2. pc' \in [Tasks -> Call]
    <3>1. "walk" \in Ops /\ "end" \in Callers
      BY <1>0
    <3>2. \A s, f \in 0 .. Slots :
             [pc EXCEPT ![t].op = "walk", ![t].by = "end", ![t].slot = s, ![t].from = f]
                \in [Tasks -> Call]
      BY <3>1, CallType, Zenon
    <3>3. pc' = [pc EXCEPT ![t].op = "walk", ![t].by = "end",
                           ![t].slot = TopEntry, ![t].from = TopEntry]
      BY <1>11 DEF EndProcess
    <3> QED BY <2>1, <3>2, <3>3, Zenon
  <2> QED BY <1>11, <2>2 DEF EndProcess, TypeOK
<1>12. ASSUME NEW t \in Tasks, Walk(t)
       PROVE  TypeOK'
  <2>1. CASE LeaveList(t, "over")
    BY <1>12, <2>1, LeaveListType DEF Walk, TypeOK
  <2>2. CASE pc' = [pc EXCEPT ![t].op = "remove"] /\ UNCHANGED <<listLock, state>>
    BY <1>0, <1>12, <2>2, CallType DEF Walk, TypeOK
  <2>3. CASE pc' = [pc EXCEPT ![t].slot = Before(pc[t].slot)] /\ UNCHANGED <<listLock, state>>
    <3>1. Before(pc[t].slot) \in 0 .. Slots
      BY BeforeType
    <3>2. pc' \in [Tasks -> Call]
      BY <2>3, <3>1, CallType
    <3> QED BY <1>12, <2>3, <3>2 DEF Walk, TypeOK
  <2> QED BY <1>12, <2>1, <2>2, <2>3 DEF Walk
<1>13. ASSUME NEW t \in Tasks, NEW u \in Tasks, Kill(t, u)
       PROVE  TypeOK'
  BY <1>13 DEF Kill, TypeOK
<1>14. ASSUME NEW t \in Tasks, SwitchTo(t)
       PROVE  TypeOK'
  BY <1>14 DEF SwitchTo, TypeOK
<1> QED
  BY <1>1, <1>2, <1>3, <1>4, <1>5, <1>7, <1>8, <1>9, <1>10, <1>11, <1>12, <1>13, <1>14
     DEF Next, Step, Decide


LEMMA NextKeepsType ==
  ASSUME TypeOK, EntriesOK, [Next]_vars
  PROVE  TypeOK'
<1>1. ASSUME NEW t \in Tasks, pc[t].op = "link"
      PROVE  pc[t].slot # 0
  <2>1. pc[t].slot \in valid /\ valid \subseteq Slot
    BY <1>1 DEF EntriesOK, TypeOK
  <2> QED BY <2>1, WindowsAssumption DEF Slot
<1> QED BY <1>1, TypeNext DEF EntriesOK

-----------------------------------------------------------------------------
(* What a step does to the calls: only that of the task that steps changes. *)

Turn(t, o, s, f, b) ==
    /\ \A u \in Tasks \ {t} : pc'[u] = pc[u]
    /\ pc'[t].op = o /\ pc'[t].slot = s /\ pc'[t].from = f /\ pc'[t].by = b

Goes(t, o) == Turn(t, o, pc[t].slot, pc[t].from, pc[t].by)

Rests(t) == Turn(t, "idle", 0, 0, "open")

LEMMA UpdateTurns ==
  ASSUME TypeOK, NEW t \in Tasks
  PROVE  /\ pc' = [pc EXCEPT ![t] = Idle] => Rests(t)
         /\ \A o : pc' = [pc EXCEPT ![t] = [Idle EXCEPT !.op = o]] => Turn(t, o, 0, 0, "open")
         /\ \A s : pc' = [pc EXCEPT ![t].slot = s] =>
              Turn(t, pc[t].op, s, pc[t].from, pc[t].by)
         /\ \A o : pc' = [pc EXCEPT ![t].op = o] => Goes(t, o)
         /\ \A o, s : pc' = [pc EXCEPT ![t].op = o, ![t].slot = s] =>
              Turn(t, o, s, pc[t].from, pc[t].by)
         /\ \A o, b : pc' = [pc EXCEPT ![t].op = o, ![t].by = b] =>
              Turn(t, o, pc[t].slot, pc[t].from, b)
         /\ \A o, s, b : pc' = [pc EXCEPT ![t].op = o, ![t].slot = s, ![t].by = b] =>
              Turn(t, o, s, pc[t].from, b)
         /\ \A o, s, f, b :
              pc' = [pc EXCEPT ![t].op = o, ![t].by = b, ![t].slot = s, ![t].from = f] =>
              Turn(t, o, s, f, b)
<1>1. pc \in [Tasks -> Call] /\ pc[t] \in Call
  BY DEF TypeOK
<1>2. pc' = [pc EXCEPT ![t] = Idle] => Rests(t)
  BY <1>1 DEF Rests, Turn, Idle
<1>3. \A s : pc' = [pc EXCEPT ![t].slot = s] => Turn(t, pc[t].op, s, pc[t].from, pc[t].by)
  BY <1>1 DEF Turn, Call
<1>4. \A o : pc' = [pc EXCEPT ![t].op = o] => Goes(t, o)
  BY <1>1 DEF Goes, Turn, Call
<1>5. \A o, s : pc' = [pc EXCEPT ![t].op = o, ![t].slot = s] =>
        Turn(t, o, s, pc[t].from, pc[t].by)
  BY <1>1 DEF Turn, Call
<1>6. \A o : pc' = [pc EXCEPT ![t] = [Idle EXCEPT !.op = o]] => Turn(t, o, 0, 0, "open")
  BY <1>1 DEF Turn, Idle
<1>7. \A o, b : pc' = [pc EXCEPT ![t].op = o, ![t].by = b] =>
        Turn(t, o, pc[t].slot, pc[t].from, b)
  BY <1>1 DEF Turn, Call
<1>8. \A o, s, b : pc' = [pc EXCEPT ![t].op = o, ![t].slot = s, ![t].by = b] =>
        Turn(t, o, s, pc[t].from, b)
  BY <1>1 DEF Turn, Call
<1>9. \A o, s, f, b :
        pc' = [pc EXCEPT ![t].op = o, ![t].by = b, ![t].slot = s, ![t].from = f] =>
        Turn(t, o, s, f, b)
  BY <1>1 DEF Turn, Call
<1> QED BY <1>2, <1>3, <1>4, <1>5, <1>6, <1>7, <1>8, <1>9

(* t comes back from its call, its state is s, and others keep theirs. *)
Settles(t, s) ==
    /\ Rests(t)
    /\ state'[t] = s /\ \A u \in Tasks \ {t} : state'[u] = state[u]

LEMMA DrawnTurns ==
  ASSUME TypeOK, NEW t \in Tasks, Drawn(t)
  PROVE  Settles(t, "up")
BY UpdateTurns DEF Drawn, Settles, TypeOK

LEMMA LeaveListTurns ==
  ASSUME TypeOK, NEW t \in Tasks, NEW s, LeaveList(t, s)
  PROVE  /\ Settles(t, s)
         /\ listLock'[CpuOf[t]] = None
         /\ \A c \in Cpus \ {CpuOf[t]} : listLock'[c] = listLock[c]
<1>1. Settles(t, s)
  BY UpdateTurns DEF LeaveList, Settles, TypeOK
<1>2. /\ listLock'[CpuOf[t]] = None
      /\ \A c \in Cpus \ {CpuOf[t]} : listLock'[c] = listLock[c]
  BY CallFields DEF LeaveList, LeavesList, TypeOK
<1> QED BY <1>1, <1>2

LEMMA RemovedTurns ==
  ASSUME TypeOK, NEW t \in Tasks, Removed(t)
  PROVE  \/ /\ pc[t].by \in Destroyers /\ Goes(t, "free")
            /\ UNCHANGED <<listLock, state>>
         \/ /\ pc[t].by = "end" /\ pc[t].slot = pc[t].from
            /\ Settles(t, "over") /\ LeaveList(t, "over")
         \/ /\ pc[t].by \notin Destroyers /\ Goes(t, "walk")
            /\ UNCHANGED <<listLock, state>>
<1>1. CASE /\ pc[t].by \in Destroyers /\ pc' = [pc EXCEPT ![t].op = "free"]
           /\ UNCHANGED <<listLock, state>>
  BY <1>1, UpdateTurns
<1>2. CASE LeaveList(t, "over") /\ pc[t].by = "end" /\ pc[t].slot = pc[t].from
  BY <1>2, LeaveListTurns
<1>3. CASE /\ pc[t].by \notin Destroyers /\ pc' = [pc EXCEPT ![t].op = "walk"]
           /\ UNCHANGED <<listLock, state>>
  BY <1>3, UpdateTurns
<1> QED BY <1>1, <1>2, <1>3, RemovedCases

(* Where a call goes, by the function it is in *)
LEMMA DrawTurns ==
  ASSUME TypeOK, NEW t \in Tasks
  PROVE  /\ DrawWindow(t) => Goes(t, "alloc")
         /\ AllocBuf(t) => Goes(t, "charge")
         /\ Charge(t) => Goes(t, "find")
         /\ FindWindow(t) =>
              \/ Goes(t, "insert") /\ ~NameInUse(t)
                 /\ raced' = raced \cup Unseen(t) /\ UNCHANGED <<id, state, why>>
              \/ Refused(t) /\ Settles(t, "up") /\ UNCHANGED raced
         /\ NoFreeWindow(t) => Refused(t) /\ Settles(t, "up")
         /\ GetFreeWindow(t) =>
              \E s \in Slot :
                 /\ Turn(t, "link", s, pc[t].from, pc[t].by)
                 /\ s \notin valid /\ valid' = valid \cup {s}
                 /\ win' = [win EXCEPT ![s] = t]
                 /\ id' = [id EXCEPT ![t] = s]
         /\ LinkWindow(t) => Settles(t, "up")
<1> USE UpdateTurns
<1>1. DrawWindow(t) => Goes(t, "alloc")
  BY DEF DrawWindow
<1>2. AllocBuf(t) => Goes(t, "charge")
  BY DEF AllocBuf
<1>3. Charge(t) => Goes(t, "find")
  BY DEF Charge
<1>4. FindWindow(t) =>
        \/ Goes(t, "insert") /\ ~NameInUse(t)
           /\ raced' = raced \cup Unseen(t) /\ UNCHANGED <<id, state, why>>
        \/ Refused(t) /\ Settles(t, "up") /\ UNCHANGED raced
  BY DrawnTurns DEF FindWindow, Refused
<1>5. NoFreeWindow(t) => Refused(t) /\ Settles(t, "up")
  BY DrawnTurns DEF NoFreeWindow, Refused
<1>6. ASSUME GetFreeWindow(t)
      PROVE  \E s \in Slot :
                /\ Turn(t, "link", s, pc[t].from, pc[t].by)
                /\ s \notin valid /\ valid' = valid \cup {s}
                /\ win' = [win EXCEPT ![s] = t]
                /\ id' = [id EXCEPT ![t] = s]
  <2>1. PICK s \in Slot :
          /\ IsLeastFree(s) /\ valid' = valid \cup {s}
          /\ win' = [win EXCEPT ![s] = t]
          /\ id' = [id EXCEPT ![t] = NumberOf(s)]
          /\ pc' = [pc EXCEPT ![t].op = "link", ![t].slot = s]
    BY <1>6 DEF GetFreeWindow
  <2>2. Turn(t, "link", s, pc[t].from, pc[t].by)
    BY <2>1
  <2> QED BY <2>1, <2>2 DEF IsLeastFree, NumberOf
<1>7. LinkWindow(t) => Settles(t, "up")
  BY DrawnTurns DEF LinkWindow
<1> QED BY <1>1, <1>2, <1>3, <1>4, <1>5, <1>6, <1>7

LEMMA KeyTurns ==
  ASSUME TypeOK, NEW t \in Tasks
  PROVE  /\ Read(t) => Goes(t, "got")
         /\ Ignore(t) => Rests(t)
         /\ \A b : CallDestroy(t, b) => Turn(t, "remove", id[t], pc[t].from, b)
         /\ Minimize(t) => Goes(t, "minimize")
         /\ MinimizeWindow(t) => Turn(t, "picture", pc[t].slot, pc[t].from, "minimize")
         /\ TakePicture(t) => Goes(t, "charge")
         /\ MinimizeFails(t) => Settles(t, "up") /\ LeaveList(t, "up")
         /\ End(t) => Goes(t, "end")
         /\ EndProcess(t) => Turn(t, "walk", TopEntry, TopEntry, "end")
<1> USE UpdateTurns
<1>1. (Read(t) => Goes(t, "got")) /\ (Ignore(t) => Rests(t))
  BY DEF Read, Ignore
<1>2. \A b : CallDestroy(t, b) => Turn(t, "remove", id[t], pc[t].from, b)
  BY DEF CallDestroy
<1>3. (Minimize(t) => Goes(t, "minimize")) /\ (TakePicture(t) => Goes(t, "charge"))
  BY DEF Minimize, TakePicture
<1>4. MinimizeWindow(t) => Turn(t, "picture", pc[t].slot, pc[t].from, "minimize")
  BY DEF MinimizeWindow
<1>5. MinimizeFails(t) => Settles(t, "up") /\ LeaveList(t, "up")
  BY LeaveListTurns DEF MinimizeFails
<1>6. (End(t) => Goes(t, "end")) /\ (EndProcess(t) => Turn(t, "walk", TopEntry, TopEntry, "end"))
  BY DEF End, EndProcess
<1> QED BY <1>1, <1>2, <1>3, <1>4, <1>5, <1>6

LEMMA EndTurns ==
  ASSUME TypeOK, NEW t \in Tasks
  PROVE  /\ RemoveWindow(t) =>
              \/ /\ pc[t].slot \in valid /\ valid' = valid \ {pc[t].slot}
                 /\ lock' = t /\ Goes(t, "unlink")
                 /\ UNCHANGED <<listLock, state>>
              \/ /\ pc[t].slot \notin valid /\ Removed(t)
                 /\ UNCHANGED <<valid, lock>>
         /\ FreeBuf(t) => Goes(t, "freeing")
         /\ Freed(t) => \E o \in {"end", "alloc", "idle"} : Turn(t, o, 0, 0, "open")
                           /\ (o = "end" <=> pc[t].by = "close")
                           /\ (o = "alloc" <=> pc[t].by = "cls")
         /\ Walk(t) =>
              \/ /\ Goes(t, "remove") /\ Own(t, pc[t].slot)
                 /\ UNCHANGED <<listLock, state>>
              \/ /\ Turn(t, "walk", Before(pc[t].slot), pc[t].from, pc[t].by)
                 /\ ~Own(t, pc[t].slot) /\ Before(pc[t].slot) \notin {0, pc[t].from}
                 /\ UNCHANGED <<listLock, state>>
              \/ /\ pc[t].slot # 0 =>
                      ~Own(t, pc[t].slot) /\ Before(pc[t].slot) \in {0, pc[t].from}
                 /\ Settles(t, "over") /\ LeaveList(t, "over")
<1> USE UpdateTurns
<1>1. RemoveWindow(t) =>
        \/ /\ pc[t].slot \in valid /\ valid' = valid \ {pc[t].slot}
           /\ lock' = t /\ Goes(t, "unlink")
           /\ UNCHANGED <<listLock, state>>
        \/ /\ pc[t].slot \notin valid /\ Removed(t)
           /\ UNCHANGED <<valid, lock>>
  BY DEF RemoveWindow
<1>2. FreeBuf(t) => Goes(t, "freeing")
  BY DEF FreeBuf
<1>3. ASSUME Freed(t)
      PROVE  \E o \in {"end", "alloc", "idle"} : Turn(t, o, 0, 0, "open")
                /\ (o = "end" <=> pc[t].by = "close") /\ (o = "alloc" <=> pc[t].by = "cls")
  <2> DEFINE o == CASE pc[t].by = "close" -> "end" [] pc[t].by = "cls" -> "alloc"
                    [] OTHER -> "idle"
  <2>1. pc' = [pc EXCEPT ![t] = [Idle EXCEPT !.op = o]]
    BY <1>3 DEF Freed
  <2>2. o \in {"end", "alloc", "idle"} /\ (o = "end" <=> pc[t].by = "close")
        /\ (o = "alloc" <=> pc[t].by = "cls")
    OBVIOUS
  <2> HIDE DEF o
  <2>3. Turn(t, o, 0, 0, "open")
    BY <2>1
  <2> QED BY <2>2, <2>3
<1>4. ASSUME Walk(t)
      PROVE  \/ /\ Goes(t, "remove") /\ Own(t, pc[t].slot)
                /\ UNCHANGED <<listLock, state>>
             \/ /\ Turn(t, "walk", Before(pc[t].slot), pc[t].from, pc[t].by)
                /\ ~Own(t, pc[t].slot) /\ Before(pc[t].slot) \notin {0, pc[t].from}
                /\ UNCHANGED <<listLock, state>>
             \/ /\ pc[t].slot # 0 =>
                     ~Own(t, pc[t].slot) /\ Before(pc[t].slot) \in {0, pc[t].from}
                /\ Settles(t, "over") /\ LeaveList(t, "over")
  <2>1. pc[t].op = "walk"
    BY <1>4 DEF Walk, At
  <2>2. LeaveList(t, "over") => Settles(t, "over")
    BY LeaveListTurns
  <2>3. CASE /\ Own(t, pc[t].slot) /\ pc' = [pc EXCEPT ![t].op = "remove"]
             /\ UNCHANGED <<listLock, state>>
    <3>1. Goes(t, "remove")
      BY <2>3
    <3> QED BY <2>3, <3>1
  <2>4. CASE /\ pc' = [pc EXCEPT ![t].slot = Before(pc[t].slot)]
             /\ ~Own(t, pc[t].slot) /\ Before(pc[t].slot) \notin {0, pc[t].from}
             /\ UNCHANGED <<listLock, state>>
    <3>1. Turn(t, "walk", Before(pc[t].slot), pc[t].from, pc[t].by)
      BY <2>1, <2>4
    <3> QED BY <2>4, <3>1
  <2>5. \/ Own(t, pc[t].slot) /\ pc' = [pc EXCEPT ![t].op = "remove"]
           /\ UNCHANGED <<listLock, state>>
        \/ /\ ~Own(t, pc[t].slot) /\ Before(pc[t].slot) \notin {0, pc[t].from}
           /\ pc' = [pc EXCEPT ![t].slot = Before(pc[t].slot)]
           /\ UNCHANGED <<listLock, state>>
        \/ /\ pc[t].slot # 0 => ~Own(t, pc[t].slot) /\ Before(pc[t].slot) \in {0, pc[t].from}
           /\ LeaveList(t, "over")
    BY <1>4 DEF Walk
  <2> QED BY <2>2, <2>3, <2>4, <2>5
<1> QED BY <1>1, <1>2, <1>3, <1>4

-----------------------------------------------------------------------------
(* The steps that leave the table and its ring alone: those that are no step of
   a call, and those of one call that neither looks a name up nor holds
   g_window_lock. *)

SameTable == UNCHANGED <<name, order, win, valid, id, lock, cut, raced>>

Still ==
    /\ SameTable /\ UNCHANGED <<memLock, listLock, pc, why>>
    /\ \A t \in Tasks : state'[t] \in {state[t], "killed"}
    /\ \A t \in Tasks : state[t] = "over" => state'[t] = "over"

CallsUp(t) ==
    \/ DrawWindow(t) \/ Read(t) \/ Ignore(t) \/ DestroyWindow(t) \/ Fail(t)
    \/ Exit(t) \/ Clear(t) \/ Minimize(t) \/ End(t)

Passes(t) == RemoveWindow(t) /\ pc[t].slot \notin valid

Marks(t) == RemoveWindow(t) /\ pc[t].slot \in valid

Calm(t) ==
    \/ CallsUp(t) \/ AllocBuf(t) \/ Charge(t) \/ MinimizeWindow(t) \/ TakePicture(t)
    \/ MinimizeFails(t) \/ Passes(t) \/ FreeBuf(t) \/ Freed(t) \/ EndProcess(t) \/ Walk(t)

LEMMA StepKinds ==
  ASSUME TypeOK, [Next]_vars
  PROVE  \/ Still
         \/ \E t \in Tasks :
              Calm(t) \/ FindWindow(t) \/ NoFreeWindow(t) \/ GetFreeWindow(t)
              \/ LinkWindow(t) \/ Marks(t) \/ UnlinkWindow(t)
<1>1. CASE UNCHANGED vars
  BY <1>1 DEF vars, Still, SameTable
<1>2. ASSUME NEW t \in Tasks, SwitchTo(t) \/ \E u \in Tasks : Kill(t, u)
      PROVE  Still
  BY <1>2 DEF SwitchTo, Kill, Still, SameTable, TypeOK
<1>3. ASSUME NEW t \in Tasks, RemoveWindow(t)
      PROVE  Passes(t) \/ Marks(t)
  BY <1>3 DEF Passes, Marks
<1> QED BY <1>1, <1>2, <1>3, Zenon DEF Next, Step, Decide, Calm, CallsUp

OnlyOf(t) == \A u \in Tasks \ {t} : pc'[u] = pc[u] /\ state'[u] = state[u]

LEMMA TurnIsOne ==
  ASSUME NEW t \in Tasks
  PROVE  /\ \A o, s, f, b : Turn(t, o, s, f, b) /\ UNCHANGED state => OnlyOf(t)
         /\ \A o : Goes(t, o) /\ UNCHANGED state => OnlyOf(t)
         /\ Rests(t) /\ UNCHANGED state => OnlyOf(t)
         /\ \A s : Settles(t, s) => OnlyOf(t)
BY DEF Turn, Goes, Rests, Settles, OnlyOf

LEMMA CallsUpSteps ==
  ASSUME TypeOK, NEW t \in Tasks, CallsUp(t)
  PROVE  /\ SameTable /\ OnlyOf(t) /\ UNCHANGED <<memLock, listLock, running, state>>
         /\ pc[t].op \in {"idle", "got"}
         /\ \/ /\ Goes(t, "alloc") /\ pc[t].op = "idle" /\ state[t] = "new" /\ why' = why
            \/ /\ Goes(t, "end") /\ pc[t].op = "idle" /\ state[t] = "up" /\ why' = why
            \/ /\ Goes(t, "got") /\ pc[t].op = "idle" /\ state[t] = "up" /\ IsTopWindow(id[t])
               /\ why' = why
            \/ /\ Goes(t, "minimize") /\ pc[t].op = "got" /\ why' = why
            \/ /\ Rests(t) /\ pc[t].op = "got" /\ why' = why
            \/ /\ pc[t].op = "got" \/ state[t] = "up"
               /\ \E b \in {"close", "cls"} : Turn(t, "remove", id[t], pc[t].from, b)
               /\ why' = why
            \/ /\ pc[t].op = "got" /\ Turn(t, "remove", id[t], pc[t].from, "exit")
               /\ why' = [why EXCEPT ![t] = "closed"]
<1>1. CASE DrawWindow(t) \/ Read(t) \/ Ignore(t) \/ Minimize(t) \/ End(t)
  <2>1. /\ SameTable /\ UNCHANGED <<memLock, listLock, running, state>>
        /\ pc[t].op \in {"idle", "got"}
    BY <1>1 DEF DrawWindow, Read, Ignore, Minimize, End, At, SameTable
  <2>2. \/ /\ Goes(t, "alloc") /\ pc[t].op = "idle" /\ state[t] = "new" /\ why' = why
        \/ /\ Goes(t, "end") /\ pc[t].op = "idle" /\ state[t] = "up" /\ why' = why
        \/ /\ Goes(t, "got") /\ pc[t].op = "idle" /\ state[t] = "up" /\ IsTopWindow(id[t])
           /\ why' = why
        \/ /\ Goes(t, "minimize") /\ pc[t].op = "got" /\ why' = why
        \/ /\ Rests(t) /\ pc[t].op = "got" /\ why' = why
    BY <1>1, DrawTurns, KeyTurns DEF DrawWindow, Read, Ignore, Minimize, End, At
  <2> QED BY <2>1, <2>2, TurnIsOne
<1>2. CASE DestroyWindow(t) \/ Fail(t) \/ Clear(t)
  <2>1. PICK b \in {"close", "cls"} : CallDestroy(t, b) /\ why' = why
    BY <1>2 DEF DestroyWindow, Fail, Clear
  <2>2. Turn(t, "remove", id[t], pc[t].from, b)
    BY <2>1, KeyTurns
  <2>3. SameTable /\ UNCHANGED <<memLock, listLock, running, state>>
    BY <2>1 DEF CallDestroy, SameTable
  <2>4. pc[t].op \in {"idle", "got"} /\ (pc[t].op = "got" \/ state[t] = "up")
    BY <1>2 DEF DestroyWindow, Fail, Clear, At
  <2> QED BY <2>1, <2>2, <2>3, <2>4, TurnIsOne
<1>3. CASE Exit(t)
  <2>1. CallDestroy(t, "exit") /\ why' = [why EXCEPT ![t] = "closed"] /\ pc[t].op = "got"
    BY <1>3 DEF Exit, At
  <2>2. Turn(t, "remove", id[t], pc[t].from, "exit")
    BY <2>1, KeyTurns
  <2>3. SameTable /\ UNCHANGED <<memLock, listLock, running, state>>
    BY <2>1 DEF CallDestroy, SameTable
  <2> QED BY <2>1, <2>2, <2>3, TurnIsOne
<1> QED BY <1>1, <1>2, <1>3 DEF CallsUp

LEMMA PassesSteps ==
  ASSUME TypeOK, NEW t \in Tasks, Passes(t)
  PROVE  /\ SameTable /\ OnlyOf(t) /\ UNCHANGED <<memLock, running, why>>
         /\ pc[t].op = "remove" /\ pc[t].slot \notin valid /\ lock = None /\ Removed(t)
<1>1. /\ UNCHANGED <<name, order, win, id, memLock, running, why, cut, raced>>
      /\ pc[t].op = "remove" /\ pc[t].slot \notin valid /\ lock = None
  BY DEF Passes, RemoveWindow, At, IsFree
<1>2. Removed(t) /\ UNCHANGED <<valid, lock>>
  BY EndTurns DEF Passes
<1>3. OnlyOf(t)
  BY <1>2, RemovedTurns, TurnIsOne
<1> QED BY <1>1, <1>2, <1>3 DEF SameTable

LEMMA CalmSteps ==
  ASSUME TypeOK, NEW t \in Tasks, Calm(t)
  PROVE  /\ SameTable /\ OnlyOf(t) /\ Runs(t)
         /\ pc[t].op \notin {"find", "insert", "link", "unlink"}
         /\ pc'[t].op \notin {"insert", "link", "unlink"}
<1>1. Runs(t)
  BY DEF Calm, CallsUp, DrawWindow, Read, Ignore, DestroyWindow, Fail, Exit, Clear, Minimize,
         End, AllocBuf, Charge, MinimizeWindow, TakePicture, MinimizeFails, Passes,
         RemoveWindow, FreeBuf, Freed, EndProcess, Walk, At
<1>2. CASE CallsUp(t)
  BY <1>1, <1>2, CallsUpSteps DEF Turn, Goes, Rests
<1>3. CASE AllocBuf(t) \/ Charge(t) \/ MinimizeWindow(t) \/ TakePicture(t) \/ FreeBuf(t)
           \/ EndProcess(t)
  <2>1. /\ SameTable /\ UNCHANGED state
        /\ pc[t].op \notin {"find", "insert", "link", "unlink"}
    BY <1>3 DEF AllocBuf, Charge, MinimizeWindow, TakePicture, FreeBuf, EndProcess, At,
                SameTable
  <2>2. \E o \in {"charge", "find", "picture", "freeing", "walk"} :
           \E s, f, b : Turn(t, o, s, f, b)
    BY <1>3, DrawTurns, KeyTurns, EndTurns DEF Goes
  <2> QED BY <1>1, <2>1, <2>2, TurnIsOne DEF Turn
<1>4. CASE MinimizeFails(t)
  <2>1. SameTable /\ pc[t].op = "picture"
    BY <1>4 DEF MinimizeFails, At, SameTable
  <2> QED BY <1>1, <1>4, <2>1, KeyTurns, TurnIsOne DEF Settles, Rests, Turn
<1>5. CASE Passes(t)
  BY <1>1, <1>5, PassesSteps, RemovedTurns DEF Settles, Rests, Goes, Turn
<1>6. CASE Freed(t)
  <2>1. SameTable /\ UNCHANGED state /\ pc[t].op = "freeing"
    BY <1>6 DEF Freed, At, SameTable
  <2>2. PICK o \in {"end", "alloc", "idle"} : Turn(t, o, 0, 0, "open")
    BY <1>6, EndTurns
  <2> QED BY <1>1, <2>1, <2>2, TurnIsOne DEF Turn
<1>7. CASE Walk(t)
  <2>1. SameTable /\ pc[t].op = "walk"
    BY <1>7 DEF Walk, At, SameTable
  <2> QED BY <1>1, <1>7, <2>1, EndTurns, TurnIsOne DEF Settles, Rests, Goes, Turn
<1> QED BY <1>2, <1>3, <1>4, <1>5, <1>6, <1>7 DEF Calm

-----------------------------------------------------------------------------
(* The locks, and where calls come from *)

(* What t does to a lock whose value was l and is m, which it holds in the
   calls before (b) and after (a). *)
Hands(t, l, m, b, a) ==
    \/ ~b /\ ~a /\ m = l
    \/ b /\ ~a /\ m = None
    \/ ~b /\ a /\ l = None /\ m = t

InTable(o) == o \in {"link", "unlink"}

InMemory(o) == o \in {"charge", "freeing"}

LEMMA LockStep ==
  ASSUME LockOK, NEW t \in Tasks, OnlyOf(t),
         Hands(t, lock, lock', InTable(pc[t].op), InTable(pc'[t].op)),
         Hands(t, memLock, memLock', InMemory(pc[t].op), InMemory(pc'[t].op))
  PROVE  LockOK'
<1>0. None \notin Tasks
  BY WindowsAssumption
<1>1. \A u \in Tasks : pc'[u].op \in {"link", "unlink"} <=> lock' = u
  BY <1>0 DEF LockOK, OnlyOf, Hands, InTable
<1>2. \A u \in Tasks : pc'[u].op \in {"charge", "freeing"} <=> memLock' = u
  BY <1>0 DEF LockOK, OnlyOf, Hands, InMemory
<1> QED BY <1>1, <1>2 DEF LockOK

LEMMA CalmMemory ==
  ASSUME TypeOK, NEW t \in Tasks, Calm(t)
  PROVE  Hands(t, memLock, memLock', InMemory(pc[t].op), InMemory(pc'[t].op))
<1>1. CASE CallsUp(t)
  BY <1>1, CallsUpSteps DEF Turn, Goes, Rests, Hands, InMemory
<1>2. CASE AllocBuf(t) \/ TakePicture(t) \/ FreeBuf(t)
  <2>1. memLock = None /\ memLock' = t /\ ~InMemory(pc[t].op)
    BY <1>2 DEF AllocBuf, TakePicture, FreeBuf, At, InMemory
  <2>2. Goes(t, "charge") \/ Goes(t, "freeing")
    BY <1>2, DrawTurns, KeyTurns, EndTurns
  <2> QED BY <2>1, <2>2 DEF Goes, Turn, Hands, InMemory
<1>3. CASE Charge(t) \/ Freed(t)
  <2>1. memLock' = None /\ InMemory(pc[t].op)
    BY <1>3 DEF Charge, Freed, At, InMemory
  <2>2. pc'[t].op \in {"find", "end", "alloc", "idle"}
    BY <1>3, DrawTurns, EndTurns DEF Goes, Turn
  <2> QED BY <2>1, <2>2 DEF Hands, InMemory
<1>4. CASE MinimizeWindow(t) \/ MinimizeFails(t) \/ EndProcess(t)
  <2>1. memLock' = memLock /\ ~InMemory(pc[t].op)
    BY <1>4 DEF MinimizeWindow, MinimizeFails, EndProcess, At, InMemory
  <2>2. pc'[t].op \in {"picture", "idle", "walk"}
    BY <1>4, KeyTurns DEF Settles, Rests, Turn
  <2> QED BY <2>1, <2>2 DEF Hands, InMemory
<1>5. CASE Passes(t)
  BY <1>5, PassesSteps, RemovedTurns DEF Settles, Rests, Goes, Turn, Hands, InMemory
<1>6. CASE Walk(t)
  <2>1. memLock' = memLock /\ ~InMemory(pc[t].op)
    BY <1>6 DEF Walk, At, InMemory
  <2>2. pc'[t].op \in {"remove", "walk", "idle"}
    BY <1>6, EndTurns DEF Settles, Rests, Goes, Turn
  <2> QED BY <2>1, <2>2 DEF Hands, InMemory
<1> QED BY <1>1, <1>2, <1>3, <1>4, <1>5, <1>6 DEF Calm

(* The steps that change table, ring or a number *)
LEMMA OtherSteps ==
  ASSUME TypeOK, NEW t \in Tasks,
         FindWindow(t) \/ NoFreeWindow(t) \/ GetFreeWindow(t) \/ LinkWindow(t)
         \/ Marks(t) \/ UnlinkWindow(t)
  PROVE  /\ OnlyOf(t) /\ UNCHANGED memLock /\ name' = name
         /\ ~InMemory(pc[t].op) /\ ~InMemory(pc'[t].op)
         /\ Hands(t, lock, lock', InTable(pc[t].op), InTable(pc'[t].op))
<1>1. CASE FindWindow(t) \/ NoFreeWindow(t)
  <2>1. /\ pc[t].op \in {"find", "insert"}
        /\ memLock' = memLock /\ lock' = lock /\ name' = name
    BY <1>1 DEF FindWindow, NoFreeWindow, At
  <2>2. (Goes(t, "insert") /\ UNCHANGED state) \/ Settles(t, "up")
    BY <1>1, DrawTurns
  <2> QED BY <2>1, <2>2, TurnIsOne DEF Settles, Rests, Goes, Turn, Hands, InMemory, InTable
<1>2. CASE GetFreeWindow(t)
  <2>1. /\ pc[t].op = "insert" /\ lock = None /\ lock' = t
        /\ memLock' = memLock /\ UNCHANGED <<name, state>>
    BY <1>2 DEF GetFreeWindow, At, IsFree
  <2>2. PICK s \in Slot : Turn(t, "link", s, pc[t].from, pc[t].by)
    BY <1>2, DrawTurns
  <2> QED BY <2>1, <2>2, TurnIsOne DEF Turn, Hands, InMemory, InTable
<1>3. CASE LinkWindow(t)
  <2>1. /\ pc[t].op = "link" /\ lock' = None /\ memLock' = memLock /\ name' = name
    BY <1>3 DEF LinkWindow, At
  <2>2. Settles(t, "up")
    BY <1>3, DrawTurns
  <2> QED BY <2>1, <2>2, TurnIsOne DEF Settles, Rests, Turn, Hands, InMemory, InTable
<1>4. CASE Marks(t)
  <2>1. /\ pc[t].op = "remove" /\ lock = None /\ memLock' = memLock /\ name' = name
    BY <1>4 DEF Marks, RemoveWindow, At, IsFree
  <2>2. Goes(t, "unlink") /\ lock' = t /\ UNCHANGED state
    BY <1>4, EndTurns DEF Marks
  <2> QED BY <2>1, <2>2, TurnIsOne DEF Goes, Turn, Hands, InMemory, InTable
<1>5. CASE UnlinkWindow(t)
  <2>1. /\ pc[t].op = "unlink" /\ lock' = None /\ memLock' = memLock /\ name' = name
        /\ Removed(t)
    BY <1>5 DEF UnlinkWindow, At
  <2> QED BY <2>1, RemovedTurns, TurnIsOne DEF Settles, Rests, Goes, Turn, Hands,
                                               InMemory, InTable
<1> QED BY <1>1, <1>2, <1>3, <1>4, <1>5

LEMMA LockNext ==
  ASSUME TypeOK, LockOK, [Next]_vars
  PROVE  LockOK'
<1>1. CASE Still
  BY <1>1 DEF Still, SameTable, LockOK
<1>2. ASSUME NEW t \in Tasks, Calm(t)
      PROVE  LockOK'
  <2>1. OnlyOf(t) /\ Hands(t, lock, lock', InTable(pc[t].op), InTable(pc'[t].op))
    BY <1>2, CalmSteps DEF SameTable, Hands, InTable
  <2> QED BY <1>2, <2>1, CalmMemory, LockStep
<1>3. ASSUME NEW t \in Tasks,
             FindWindow(t) \/ NoFreeWindow(t) \/ GetFreeWindow(t) \/ LinkWindow(t)
             \/ Marks(t) \/ UnlinkWindow(t)
      PROVE  LockOK'
  <2>1. Hands(t, memLock, memLock', InMemory(pc[t].op), InMemory(pc'[t].op))
    BY <1>3, OtherSteps DEF Hands
  <2> QED BY <1>3, <2>1, OtherSteps, LockStep
<1> QED BY <1>1, <1>2, <1>3, StepKinds

LEMMA CallsCalm ==
  ASSUME TypeOK, NEW t \in Tasks, CallOK(t), Calm(t)
  PROVE  CallOK(t)'
<1>1. CASE CallsUp(t)
  BY <1>1, CallsUpSteps DEF Turn, Goes, Rests, CallOK, Destroyers
<1>2. CASE AllocBuf(t) \/ Charge(t)
  <2>1. pc[t].op \in {"alloc", "charge"} /\ UNCHANGED state
    BY <1>2 DEF AllocBuf, Charge, At
  <2>2. \/ pc[t].op = "alloc" /\ Goes(t, "charge")
        \/ pc[t].op = "charge" /\ Goes(t, "find")
    BY <1>2, DrawTurns DEF AllocBuf, Charge, At
  <2> QED BY <2>1, <2>2 DEF Turn, Goes, CallOK
<1>3. CASE MinimizeWindow(t) \/ TakePicture(t) \/ EndProcess(t)
  <2>1. UNCHANGED state
    BY <1>3 DEF MinimizeWindow, TakePicture, EndProcess
  <2>2. \/ pc[t].op = "minimize" /\ Turn(t, "picture", pc[t].slot, pc[t].from, "minimize")
        \/ pc[t].op = "picture" /\ Goes(t, "charge")
        \/ pc[t].op = "end" /\ Turn(t, "walk", TopEntry, TopEntry, "end")
    BY <1>3, KeyTurns DEF MinimizeWindow, TakePicture, EndProcess, At
  <2> QED BY <2>1, <2>2 DEF Turn, Goes, CallOK
<1>4. ASSUME NEW s \in {"up", "over"}, Settles(t, s)
      PROVE  CallOK(t)'
  BY <1>4 DEF Settles, Rests, Turn, CallOK
<1>5. CASE MinimizeFails(t)
  BY <1>4, <1>5, KeyTurns
<1>6. CASE Passes(t)
  <2>1. pc[t].op = "remove" /\ Removed(t)
    BY <1>6, PassesSteps
  <2> QED BY <2>1, <1>4, RemovedTurns DEF Goes, Turn, CallOK, Destroyers
<1>7. CASE FreeBuf(t) \/ Freed(t)
  <2>1. pc[t].op \in {"free", "freeing"} /\ UNCHANGED state
    BY <1>7 DEF FreeBuf, Freed, At
  <2>2. Goes(t, "freeing") \/ \E o \in {"end", "alloc", "idle"} : Turn(t, o, 0, 0, "open")
    BY <1>7, EndTurns
  <2> QED BY <2>1, <2>2 DEF Goes, Turn, CallOK
<1>8. CASE Walk(t)
  <2>1. pc[t].op = "walk"
    BY <1>8 DEF Walk, At
  <2>2. CASE Goes(t, "remove") /\ UNCHANGED state
    BY <2>1, <2>2 DEF Goes, Turn, CallOK
  <2>3. CASE Turn(t, "walk", Before(pc[t].slot), pc[t].from, pc[t].by) /\ UNCHANGED state
    BY <2>1, <2>3 DEF Turn, CallOK
  <2> QED BY <1>4, <1>8, <2>2, <2>3, EndTurns
<1> QED BY <1>1, <1>2, <1>3, <1>5, <1>6, <1>7, <1>8 DEF Calm

LEMMA CallsNext ==
  ASSUME TypeOK, CallsOK, [Next]_vars
  PROVE  CallsOK'
<1>1. CASE Still
  BY <1>1 DEF Still, CallsOK, CallOK
<1>2. ASSUME NEW t \in Tasks, OnlyOf(t), CallOK(t)'
      PROVE  CallsOK'
  <2>1. ASSUME NEW u \in Tasks, u # t
        PROVE  CallOK(u)'
    <3>1. pc'[u] = pc[u] /\ state'[u] = state[u] /\ CallOK(u)
      BY <1>2, <2>1 DEF CallsOK, OnlyOf
    <3> QED BY <3>1 DEF CallOK
  <2> QED BY <1>2, <2>1 DEF CallsOK
<1>3. ASSUME NEW t \in Tasks, Calm(t)
      PROVE  CallsOK'
  <2>1. CallOK(t)
    BY DEF CallsOK
  <2> QED BY <1>2, <1>3, <2>1, CalmSteps, CallsCalm
<1>4. ASSUME NEW t \in Tasks,
             FindWindow(t) \/ NoFreeWindow(t) \/ GetFreeWindow(t) \/ LinkWindow(t)
             \/ Marks(t) \/ UnlinkWindow(t)
      PROVE  CallsOK'
  <2>0. CallOK(t) /\ OnlyOf(t)
    BY <1>4, OtherSteps DEF CallsOK
  <2> SUFFICES CallOK(t)'
    BY <1>2, <2>0
  <2>1. ASSUME NEW s \in {"up", "over"}, Settles(t, s)
        PROVE  CallOK(t)'
    BY <2>1 DEF Settles, Rests, Turn, CallOK
  <2>2. CASE FindWindow(t) \/ NoFreeWindow(t) \/ LinkWindow(t)
    <3>1. Settles(t, "up") \/ (Goes(t, "insert") /\ pc[t].op = "find" /\ UNCHANGED state)
      BY <2>2, DrawTurns DEF FindWindow, At
    <3>2. CASE Goes(t, "insert") /\ pc[t].op = "find" /\ UNCHANGED state
      BY <2>0, <3>2 DEF Goes, Turn, CallOK
    <3> QED BY <2>1, <3>1, <3>2
  <2>3. CASE GetFreeWindow(t)
    <3>1. pc[t].op = "insert" /\ UNCHANGED state
      BY <2>3 DEF GetFreeWindow, At
    <3>2. PICK s \in Slot : Turn(t, "link", s, pc[t].from, pc[t].by)
      BY <2>3, DrawTurns
    <3> QED BY <2>0, <3>1, <3>2 DEF Turn, CallOK
  <2>4. CASE Marks(t)
    <3>1. pc[t].op = "remove" /\ Goes(t, "unlink") /\ UNCHANGED state
      BY <2>4, EndTurns DEF Marks, RemoveWindow, At
    <3> QED BY <2>0, <3>1 DEF Goes, Turn, CallOK
  <2>5. CASE UnlinkWindow(t)
    <3>1. pc[t].op = "unlink" /\ Removed(t)
      BY <2>5 DEF UnlinkWindow, At
    <3> QED BY <2>0, <2>1, <3>1, RemovedTurns DEF Goes, Turn, CallOK, Destroyers
  <2> QED BY <1>4, <2>2, <2>3, <2>4, <2>5
<1> QED BY <1>1, <1>3, <1>4, StepKinds

-----------------------------------------------------------------------------
(* Table and ring *)

(* What moves is in the hands of the one task that has the lock. *)
LEMMA MovingIs ==
  ASSUME LockOK, NEW t \in Tasks
  PROVE  /\ lock = None => Moving = {}
         /\ lock = t => Moving = {pc[t].slot}
         /\ lock = None \/ lock = t =>
              \A u \in Tasks \ {t} : pc[u].op \notin {"link", "unlink"}
BY WindowsAssumption DEF LockOK, Moving

LEMMA EntriesGet ==
  ASSUME TypeOK, LockOK, EntriesOK, NEW t \in Tasks, GetFreeWindow(t)
  PROVE  EntriesOK'
<1>1. PICK s \in Slot :
        /\ Turn(t, "link", s, pc[t].from, pc[t].by)
        /\ s \notin valid /\ valid' = valid \cup {s}
        /\ win' = [win EXCEPT ![s] = t]
  BY DrawTurns
<1>2. lock = None /\ lock' = t /\ order' = order
  BY DEF GetFreeWindow, IsFree
<1>3. Moving = {} /\ Moving' = {s}
  <2>1. Moving = {}
    BY <1>2, MovingIs
  <2>2. Moving' = {s}
    BY <1>1, <1>2 DEF Moving, Turn
  <2> QED BY <2>1, <2>2
<1>4. \A r : Has(order', r) <=> Has(order, r)
  BY <1>2 DEF Has
<1>5. ~Has(order, s)
  BY <1>1, <1>3 DEF EntriesOK
<1>6. win'[s] = t /\ \A r \in Slot \ {s} : win'[r] = win[r]
  BY <1>1 DEF TypeOK
<1>7. \A r \in Slot \ Moving' :
        /\ r \in valid' <=> Has(order', r)
        /\ r \in valid' <=> win'[r] # None
  BY <1>1, <1>3, <1>4, <1>6 DEF EntriesOK
<1>8. ASSUME NEW u \in Tasks
      PROVE  /\ pc'[u].op = "link" =>
                    /\ pc'[u].slot \in valid' /\ ~Has(order', pc'[u].slot)
                    /\ win'[pc'[u].slot] = u
             /\ pc'[u].op = "unlink" =>
                    /\ pc'[u].slot \in Slot \ valid' /\ Has(order', pc'[u].slot)
                    /\ win'[pc'[u].slot] # None
  <2>1. CASE u = t
    <3>1. pc'[u].op = "link" /\ pc'[u].slot = s
      BY <1>1, <2>1 DEF Turn
    <3> QED BY <1>1, <1>2, <1>5, <1>6, <2>1, <3>1 DEF Has
  <2>2. CASE u # t
    <3>1. pc'[u].op \notin {"link", "unlink"}
      BY <1>1, <1>2, <2>2, MovingIs DEF Turn
    <3> QED BY <3>1
  <2> QED BY <2>1, <2>2
<1> QED BY <1>2, <1>7, <1>8 DEF EntriesOK, Has

LEMMA EntriesLink ==
  ASSUME TypeOK, LockOK, EntriesOK, NEW t \in Tasks, LinkWindow(t)
  PROVE  EntriesOK'
<1> DEFINE s == pc[t].slot
<1>0. Len(order) \in Nat
  BY LenProperties DEF TypeOK
<1>1. /\ pc[t].op = "link" /\ lock = t /\ lock' = None
      /\ order' = Append(order, s) /\ UNCHANGED <<valid, win>>
  BY DEF LinkWindow, At, LockOK
<1>2. s \in Slot /\ s \in valid /\ ~Has(order, s) /\ win[s] # None
  <2>1. s \in valid /\ ~Has(order, s) /\ win[s] = t
    BY <1>1 DEF EntriesOK
  <2>2. valid \subseteq Slot /\ None \notin Tasks
    BY WindowsAssumption DEF TypeOK
  <2> QED BY <2>1, <2>2
<1> HIDE DEF s
<1>3. /\ Len(order') = Len(order) + 1
      /\ \A i \in 1 .. Len(order) : order'[i] = order[i]
      /\ order'[Len(order) + 1] = s
      /\ \A r : Has(order', r) <=> Has(order, r) \/ r = s
  BY <1>1, <1>2, RingGrows
<1>4. Moving = {s} /\ Moving' = {}
  BY <1>1, MovingIs, WindowsAssumption DEF s, Moving
<1>5. \A i, j \in 1 .. Len(order') : order'[i] = order'[j] => i = j
  <2>1. \A i \in 1 .. Len(order) : order[i] # s
    BY <1>2 DEF Has
  <2> QED BY <1>0, <1>3, <2>1 DEF EntriesOK
<1>6. \A r \in Slot \ Moving' :
        /\ r \in valid' <=> Has(order', r)
        /\ r \in valid' <=> win'[r] # None
  BY <1>1, <1>2, <1>3, <1>4 DEF EntriesOK
<1>7. \A u \in Tasks : pc'[u].op \notin {"link", "unlink"}
  BY <1>1, MovingIs, DrawTurns DEF Settles, Rests, Turn
<1> QED BY <1>5, <1>6, <1>7 DEF EntriesOK

LEMMA EntriesRemove ==
  ASSUME TypeOK, LockOK, EntriesOK, NEW t \in Tasks, Marks(t)
  PROVE  EntriesOK'
<1> DEFINE s == pc[t].slot
<1>1. /\ lock = None /\ lock' = t /\ UNCHANGED <<order, win>> /\ s \in valid
      /\ valid' = valid \ {s} /\ Goes(t, "unlink")
  BY EndTurns DEF Marks, RemoveWindow, IsFree
<1>2. pc'[t].op = "unlink" /\ pc'[t].slot = s
  BY <1>1 DEF Goes, Turn
<1>3. Moving = {} /\ Moving' = {s}
  BY <1>1, <1>2, MovingIs DEF Moving
<1>4. s \in Slot /\ Has(order, s) /\ win[s] # None
  BY <1>1, <1>3 DEF EntriesOK, TypeOK
<1>5. \A r \in Slot \ Moving' :
        /\ r \in valid' <=> Has(order', r)
        /\ r \in valid' <=> win'[r] # None
  BY <1>1, <1>3 DEF EntriesOK
<1>6. \A u \in Tasks \ {t} : pc'[u].op \notin {"link", "unlink"}
  BY <1>1, MovingIs DEF Goes, Turn
<1> QED BY <1>1, <1>2, <1>4, <1>5, <1>6 DEF EntriesOK

LEMMA EntriesUnlink ==
  ASSUME TypeOK, LockOK, EntriesOK, NEW t \in Tasks, UnlinkWindow(t)
  PROVE  EntriesOK'
<1> DEFINE s == pc[t].slot
<1>0. Len(order) \in Nat
  BY LenProperties DEF TypeOK
<1>1. /\ pc[t].op = "unlink" /\ lock = t /\ lock' = None
      /\ win' = [win EXCEPT ![s] = None] /\ UNCHANGED valid
      /\ Removed(t)
  BY DEF UnlinkWindow, At, LockOK
<1>2. s \in Slot \ valid
  BY <1>1 DEF EntriesOK
<1>3. PICK i \in 1 .. Len(order) : order[i] = s /\ order' = RemoveAt(order, i)
  BY DEF UnlinkWindow
<1> HIDE DEF s
<1>4. \A j, k \in 1 .. Len(order) : order[j] = order[k] => j = k
  BY DEF EntriesOK
<1>5. /\ \A k \in 1 .. Len(order') :
           \E j \in 1 .. Len(order) : j # i /\ Shift(i, j) = k /\ order'[k] = order[j]
      /\ \A r : Has(order', r) <=> Has(order, r) /\ r # s
  BY <1>3, <1>4, RingShrinks
<1>6. ASSUME NEW k \in 1 .. Len(order'), NEW m \in 1 .. Len(order'), order'[k] = order'[m]
      PROVE  k = m
  <2>1. PICK j \in 1 .. Len(order) : j # i /\ Shift(i, j) = k /\ order'[k] = order[j]
    BY <1>5
  <2>2. PICK n \in 1 .. Len(order) : n # i /\ Shift(i, n) = m /\ order'[m] = order[n]
    BY <1>5
  <2>3. j = n
    BY <1>4, <1>6, <2>1, <2>2
  <2> QED BY <2>1, <2>2, <2>3
<1>7. Moving = {s} /\ Moving' = {}
  BY <1>1, MovingIs, WindowsAssumption DEF s, Moving
<1>8. \A r \in Slot : win'[r] = IF r = s THEN None ELSE win[r]
  BY <1>1 DEF TypeOK
<1>9. \A r \in Slot \ Moving' :
        /\ r \in valid' <=> Has(order', r)
        /\ r \in valid' <=> win'[r] # None
  BY <1>1, <1>2, <1>5, <1>7, <1>8 DEF EntriesOK
<1>10. \A u \in Tasks : pc'[u].op \notin {"link", "unlink"}
  BY <1>1, MovingIs, RemovedTurns DEF Goes, Settles, Rests, Turn
<1> QED BY <1>6, <1>9, <1>10 DEF EntriesOK

(* What no one adds or removes, table and ring keep. *)
LEMMA EntriesKept ==
  ASSUME TypeOK, LockOK, EntriesOK, UNCHANGED <<order, valid, win, lock>>,
         \A u \in Tasks :
            \/ pc'[u] = pc[u]
            \/ pc[u].op \notin {"link", "unlink"} /\ pc'[u].op \notin {"link", "unlink"}
  PROVE  EntriesOK'
<1>1. Moving' = Moving
  BY DEF LockOK, Moving
<1>2. \A s \in Slot \ Moving' :
        /\ s \in valid' <=> Has(order', s)
        /\ s \in valid' <=> win'[s] # None
  BY <1>1 DEF EntriesOK
<1> QED BY <1>2 DEF EntriesOK

LEMMA EntriesNext ==
  ASSUME TypeOK, LockOK, EntriesOK, [Next]_vars
  PROVE  EntriesOK'
<1>1. CASE Still
  BY <1>1, EntriesKept DEF Still, SameTable
<1>2. ASSUME NEW t \in Tasks, Calm(t)
      PROVE  EntriesOK'
  <2>1. SameTable /\ OnlyOf(t) /\ pc[t].op \notin {"link", "unlink"}
        /\ pc'[t].op \notin {"link", "unlink"}
    BY <1>2, CalmSteps
  <2> QED BY <2>1, EntriesKept DEF SameTable, OnlyOf
<1>3. ASSUME NEW t \in Tasks, FindWindow(t) \/ NoFreeWindow(t)
      PROVE  EntriesOK'
  <2>1. UNCHANGED <<order, valid, win, lock>> /\ pc[t].op \notin {"link", "unlink"}
    BY <1>3 DEF FindWindow, NoFreeWindow, At
  <2>2. OnlyOf(t) /\ pc'[t].op \notin {"link", "unlink"}
    BY <1>3, OtherSteps, DrawTurns DEF Goes, Settles, Rests, Turn
  <2> QED BY <2>1, <2>2, EntriesKept DEF OnlyOf
<1> QED
  BY <1>1, <1>2, <1>3, StepKinds, EntriesGet, EntriesLink, EntriesRemove, EntriesUnlink

(* A window that is listed is in the ring when the lock is free. *)
LEMMA FreeMeansSettled ==
  ASSUME TypeOK, LockOK, EntriesOK, lock = None
  PROVE  /\ \A s \in Slot : win[s] # None <=> Has(order, s)
         /\ \A s \in Slot : s \in valid <=> Has(order, s)
<1>1. Moving = {}
  BY WindowsAssumption DEF Moving, TypeOK
<1> QED BY <1>1 DEF EntriesOK

-----------------------------------------------------------------------------
(* The task-list lock is held by the call that entered it, which runs. *)

(* t minimizes its window, or it ends. *)
Holds(t) ==
    \/ pc[t].op \in {"remove", "unlink", "walk"} /\ pc[t].by = "end"
    \/ pc[t].op = "picture"
    \/ pc[t].op = "charge" /\ pc[t].by = "minimize"

(* The CPU of such a task runs it until it leaves the lock. *)
ListLockOK ==
    \A t \in Tasks :
        /\ Holds(t) <=> listLock[CpuOf[t]] = t
        /\ Holds(t) => Runs(t)
        /\ \A c \in Cpus : listLock[c] = t => CpuOf[t] = c

LEMMA ListKept ==
  ASSUME TypeOK, ListLockOK, NEW t \in Tasks, OnlyOf(t), UNCHANGED <<listLock, running>>,
         Holds(t)' <=> Holds(t), Runs(t)'
  PROVE  ListLockOK'
BY DEF ListLockOK, Holds, Runs, OnlyOf

LEMMA ListEntered ==
  ASSUME TypeOK, ListLockOK, NEW t \in Tasks, OnlyOf(t), UNCHANGED running, Runs(t)',
         Holds(t)', listLock[CpuOf[t]] = None,
         listLock' = [listLock EXCEPT ![CpuOf[t]] = t]
  PROVE  ListLockOK'
<1>0. None \notin Tasks /\ \A u \in Tasks : CpuOf[u] \in Cpus
  BY CallFields, WindowsAssumption
<1>1. /\ listLock'[CpuOf[t]] = t
      /\ \A c \in Cpus \ {CpuOf[t]} : listLock'[c] = listLock[c]
  BY <1>0 DEF TypeOK
<1> QED BY <1>0, <1>1 DEF ListLockOK, Holds, Runs, OnlyOf

LEMMA ListLeft ==
  ASSUME TypeOK, ListLockOK, NEW t \in Tasks, Holds(t), NEW s \in {"up", "over"},
         LeaveList(t, s), UNCHANGED running
  PROVE  ListLockOK'
<1>0. None \notin Tasks /\ \A u \in Tasks : CpuOf[u] \in Cpus
  BY CallFields, WindowsAssumption
<1>1. /\ Settles(t, s) /\ listLock'[CpuOf[t]] = None
      /\ \A c \in Cpus \ {CpuOf[t]} : listLock'[c] = listLock[c]
  BY LeaveListTurns
<1>2. OnlyOf(t) /\ ~Holds(t)'
  BY <1>1, TurnIsOne DEF Settles, Rests, Turn, Holds
<1>3. listLock[CpuOf[t]] = t
  BY DEF ListLockOK
<1>4. \A u \in Tasks : \A c \in Cpus : listLock'[c] = u => listLock[c] = u /\ u # t
  BY <1>0, <1>1, <1>3 DEF ListLockOK
<1>5. ASSUME NEW u \in Tasks, u # t
      PROVE  /\ Holds(u)' <=> listLock'[CpuOf[u]] = u
             /\ Holds(u)' => Runs(u)'
  <2>1. (Holds(u)' <=> Holds(u)) /\ (Runs(u)' <=> Runs(u))
    BY <1>2, <1>5 DEF Holds, Runs, OnlyOf
  <2>2. Holds(u) => CpuOf[u] # CpuOf[t]
    BY <1>3, <1>5 DEF ListLockOK
  <2> QED BY <1>0, <1>1, <1>4, <2>1, <2>2 DEF ListLockOK
<1> QED BY <1>0, <1>1, <1>2, <1>4, <1>5 DEF ListLockOK

LEMMA ListRemoved ==
  ASSUME TypeOK, CallsOK, ListLockOK, NEW t \in Tasks, Runs(t), UNCHANGED running,
         pc[t].op \in {"remove", "unlink"}, Removed(t)
  PROVE  ListLockOK'
<1>0. pc[t].by \in Destroyers \cup {"end"} /\ "end" \notin Destroyers
  BY DEF CallsOK, CallOK, Destroyers
<1>1. CASE pc[t].by \in Destroyers /\ Goes(t, "free") /\ UNCHANGED <<listLock, state>>
  <2>1. OnlyOf(t) /\ ~Holds(t)' /\ ~Holds(t) /\ Runs(t)'
    BY <1>0, <1>1, TurnIsOne DEF Goes, Turn, Holds, Runs
  <2> QED BY <1>1, <2>1, ListKept
<1>2. CASE LeaveList(t, "over") /\ pc[t].by = "end"
  BY <1>2, ListLeft DEF Holds
<1>3. CASE pc[t].by \notin Destroyers /\ Goes(t, "walk") /\ UNCHANGED <<listLock, state>>
  <2>1. OnlyOf(t) /\ Holds(t)' /\ Holds(t) /\ Runs(t)'
    BY <1>0, <1>3, TurnIsOne DEF Goes, Turn, Holds, Runs
  <2> QED BY <1>3, <2>1, ListKept
<1> QED BY <1>1, <1>2, <1>3, RemovedTurns

LEMMA ListCalm ==
  ASSUME TypeOK, CallsOK, ListLockOK, NEW t \in Tasks, Calm(t)
  PROVE  ListLockOK'
<1>0. Runs(t) /\ OnlyOf(t)
  BY CalmSteps
<1>1. CASE CallsUp(t)
  <2>1. UNCHANGED <<listLock, running, state>>
    BY <1>1, CallsUpSteps
  <2>2. ~Holds(t) /\ ~Holds(t)'
    BY <1>1, CallsUpSteps DEF Turn, Goes, Rests, Holds
  <2> QED BY <1>0, <2>1, <2>2, ListKept DEF Runs
<1>2. CASE AllocBuf(t) \/ Charge(t) \/ FreeBuf(t) \/ Freed(t)
  <2>1. UNCHANGED <<listLock, running, state>>
    BY <1>2 DEF AllocBuf, Charge, FreeBuf, Freed
  <2>2. ~Holds(t)
    <3>1. CASE Charge(t)
      <4>1. listLock[CpuOf[t]] = None /\ None \notin Tasks
        BY <3>1, WindowsAssumption DEF Charge
      <4> QED BY <4>1 DEF ListLockOK
    <3>2. CASE AllocBuf(t) \/ FreeBuf(t) \/ Freed(t)
      BY <3>2 DEF AllocBuf, FreeBuf, Freed, At, Holds
    <3> QED BY <1>2, <3>1, <3>2
  <2>3. ~Holds(t)'
    <3>1. CASE AllocBuf(t)
      <4>1. pc[t].by = "open" /\ Goes(t, "charge")
        BY <3>1, DrawTurns DEF AllocBuf, At, CallsOK, CallOK
      <4> QED BY <4>1 DEF Goes, Turn, Holds
    <3>2. CASE Charge(t) \/ FreeBuf(t) \/ Freed(t)
      BY <3>2, DrawTurns, EndTurns DEF Goes, Turn, Holds
    <3> QED BY <1>2, <3>1, <3>2
  <2> QED BY <1>0, <2>1, <2>2, <2>3, ListKept DEF Runs
<1>3. CASE MinimizeWindow(t) \/ EndProcess(t)
  <2>1. /\ UNCHANGED <<running, state>> /\ listLock[CpuOf[t]] = None
        /\ listLock' = [listLock EXCEPT ![CpuOf[t]] = t]
    BY <1>3 DEF MinimizeWindow, EndProcess
  <2>2. Holds(t)'
    BY <1>3, KeyTurns DEF Turn, Holds
  <2> QED BY <1>0, <2>1, <2>2, ListEntered DEF Runs
<1>4. CASE TakePicture(t)
  <2>1. UNCHANGED <<listLock, running, state>> /\ pc[t].op = "picture"
        /\ pc[t].by = "minimize"
    BY <1>4 DEF TakePicture, At, CallsOK, CallOK
  <2>2. Holds(t) /\ Holds(t)'
    BY <1>4, <2>1, KeyTurns DEF Goes, Turn, Holds
  <2> QED BY <1>0, <2>1, <2>2, ListKept DEF Runs
<1>5. CASE MinimizeFails(t)
  <2>1. UNCHANGED running /\ Holds(t) /\ LeaveList(t, "up")
    BY <1>5 DEF MinimizeFails, At, Holds
  <2> QED BY <2>1, ListLeft
<1>6. CASE Passes(t)
  BY <1>0, <1>6, PassesSteps, ListRemoved
<1>7. CASE Walk(t)
  <2>1. UNCHANGED running /\ pc[t].op = "walk" /\ pc[t].by = "end" /\ Holds(t)
    BY <1>7 DEF Walk, At, CallsOK, CallOK, Holds
  <2>2. CASE LeaveList(t, "over")
    BY <2>1, <2>2, ListLeft
  <2>3. CASE UNCHANGED <<listLock, state>>
             /\ \/ Goes(t, "remove")
                \/ Turn(t, "walk", Before(pc[t].slot), pc[t].from, pc[t].by)
    <3>1. Holds(t)' /\ Runs(t)'
      BY <1>0, <2>1, <2>3 DEF Goes, Turn, Holds, Runs
    <3> QED BY <1>0, <2>1, <2>3, <3>1, ListKept
  <2> QED BY <1>7, <2>2, <2>3, EndTurns
<1> QED BY <1>1, <1>2, <1>3, <1>4, <1>5, <1>6, <1>7 DEF Calm

LEMMA ListLockNext ==
  ASSUME TypeOK, CallsOK, ListLockOK, [Next]_vars
  PROVE  ListLockOK'
<1>0. None \notin Tasks /\ \A t \in Tasks : CpuOf[t] \in Cpus
  BY CallFields, WindowsAssumption
<1>1. CASE UNCHANGED vars
  BY <1>1 DEF vars, ListLockOK, Holds, Runs
<1>2. ASSUME NEW t \in Tasks, NEW u \in Tasks, Kill(t, u)
      PROVE  ListLockOK'
  <2>1. /\ UNCHANGED <<pc, listLock, running>> /\ listLock[CpuOf[u]] = None
        /\ \A v \in Tasks \ {u} : state'[v] = state[v]
    BY <1>2 DEF Kill, TypeOK
  <2>2. ~Holds(u)
    BY <1>0, <2>1 DEF ListLockOK
  <2> QED BY <2>1, <2>2 DEF ListLockOK, Holds, Runs
<1>3. ASSUME NEW t \in Tasks, SwitchTo(t)
      PROVE  ListLockOK'
  <2>1. /\ UNCHANGED <<pc, listLock, state>> /\ listLock[CpuOf[t]] = None
        /\ \A c \in Cpus \ {CpuOf[t]} : running'[c] = running[c]
    BY <1>3, <1>0 DEF SwitchTo, TypeOK
  <2>2. \A u \in Tasks : Holds(u) => CpuOf[u] # CpuOf[t]
    BY <1>0, <2>1 DEF ListLockOK
  <2> QED BY <1>0, <2>1, <2>2 DEF ListLockOK, Holds, Runs
<1>4. ASSUME NEW t \in Tasks, FindWindow(t) \/ NoFreeWindow(t) \/ LinkWindow(t)
             \/ GetFreeWindow(t)
      PROVE  ListLockOK'
  <2>1. Runs(t) /\ UNCHANGED <<listLock, running>> /\ ~Holds(t)
    BY <1>4 DEF FindWindow, NoFreeWindow, LinkWindow, GetFreeWindow, At, Holds
  <2>2. \/ Settles(t, "up")
        \/ Goes(t, "insert") /\ UNCHANGED state
        \/ \E s \in Slot : Turn(t, "link", s, pc[t].from, pc[t].by) /\ UNCHANGED state
    BY <1>4, DrawTurns DEF GetFreeWindow
  <2>3. ~Holds(t)' /\ Runs(t)'
    BY <2>1, <2>2 DEF Settles, Rests, Goes, Turn, Holds, Runs
  <2> QED BY <1>4, <2>1, <2>3, OtherSteps, ListKept
<1>5. ASSUME NEW t \in Tasks, Marks(t)
      PROVE  ListLockOK'
  <2>1. /\ UNCHANGED <<listLock, running, state>> /\ Goes(t, "unlink")
        /\ Runs(t) /\ pc[t].op = "remove"
    BY <1>5, EndTurns DEF Marks, RemoveWindow, At
  <2>2. (Holds(t)' <=> Holds(t)) /\ Runs(t)'
    BY <2>1 DEF Goes, Turn, Holds, Runs
  <2> QED BY <1>5, <2>1, <2>2, OtherSteps, ListKept
<1>6. ASSUME NEW t \in Tasks, UnlinkWindow(t)
      PROVE  ListLockOK'
  <2>1. Runs(t) /\ UNCHANGED running /\ pc[t].op = "unlink" /\ Removed(t)
    BY <1>6 DEF UnlinkWindow, At
  <2> QED BY <2>1, ListRemoved
<1>7. ASSUME NEW t \in Tasks, RemoveWindow(t)
      PROVE  Passes(t) \/ Marks(t)
  BY <1>7 DEF Passes, Marks
<1> QED
  BY <1>1, <1>2, <1>3, <1>4, <1>5, <1>6, <1>7, ListCalm, Zenon
     DEF Next, Step, Decide, Calm, CallsUp

(* A call that waits for itself and others waits, in the end, for a holder that
   is stuck: each case of WaitsFor leads to one. *)
LEMMA WaitersStand ==
  ASSUME TypeOK, LockOK, CallsOK, ListLockOK
  PROVE  WaitsEnd
<1> SUFFICES ASSUME NEW S \in SUBSET Tasks, S # {},
                    \A t \in S : \E u \in S : WaitsFor(t, u)
             PROVE  \E h \in S : Stalled(h, S)
  BY DEF WaitsEnd
<1>0. None \notin Tasks /\ \A t \in Tasks : CpuOf[t] \in Cpus
  BY CallFields, WindowsAssumption
(* Who holds one of the two locks. *)
<1>1. ASSUME NEW h \in S, h \in {lock, memLock}
      PROVE  \E g \in S : Stalled(g, S)
  <2>1. pc[h].op \in {"link", "unlink", "charge", "freeing"}
    BY <1>1 DEF LockOK
  <2>2. PICK v \in S : WaitsFor(h, v)
    OBVIOUS
  <2>3. CASE state[h] = "killed"
    BY <1>1, <2>3 DEF Stalled
  <2>4. CASE Runs(h)
    <3>1. state[h] # "killed"
      BY <2>4 DEF Runs
    <3>2. pc[h].op = "charge" /\ listLock[CpuOf[h]] = v
      BY <2>1, <2>2, <2>4, <3>1 DEF WaitsFor
    <3>3. CpuOf[v] = CpuOf[h] /\ Holds(v) /\ Runs(v)
      BY <1>0, <3>2 DEF ListLockOK
    <3>4. v = h
      BY <2>4, <3>3 DEF Runs
    <3> QED BY <1>1, <3>2, <3>4 DEF Stalled
  <2>5. CASE ~Runs(h) /\ state[h] # "killed"
    <3>1. listLock[CpuOf[h]] = v
      BY <2>2, <2>5 DEF WaitsFor
    <3>2. CpuOf[v] = CpuOf[h] /\ Holds(v) /\ Runs(v)
      BY <1>0, <3>1 DEF ListLockOK
    <3>3. PICK x \in S : WaitsFor(v, x)
      OBVIOUS
    <3>4. state[v] # "killed"
      BY <3>2 DEF Runs
    <3>5. \/ pc[v].op \in {"remove", "picture"}
          \/ pc[v].op = "charge"
      BY <3>2, <3>3, <3>4 DEF WaitsFor, Holds
    <3>6. CASE pc[v].op \in {"remove", "picture"}
      BY <1>1, <2>5, <3>1, <3>6 DEF Stalled
    <3>7. CASE pc[v].op = "charge"
      <4>1. v = memLock /\ listLock[CpuOf[v]] = v
        BY <3>2, <3>7 DEF LockOK, ListLockOK
      <4> QED BY <3>7, <4>1 DEF Stalled
    <3> QED BY <3>5, <3>6, <3>7
  <2> QED BY <2>3, <2>4, <2>5
(* Who holds a task-list lock waits for one of those, or is one. *)
<1>2. ASSUME NEW v \in S, NEW c \in Cpus, listLock[c] = v
      PROVE  \E g \in S : Stalled(g, S)
  <2>1. CpuOf[v] = c /\ Holds(v) /\ Runs(v)
    BY <1>2 DEF ListLockOK
  <2>2. PICK x \in S : WaitsFor(v, x)
    OBVIOUS
  <2>3. state[v] # "killed"
    BY <2>1 DEF Runs
  <2>4. CASE pc[v].op = "charge"
    <3>1. v = memLock
      BY <2>4 DEF LockOK
    <3> QED BY <1>1, <3>1
  <2>5. CASE pc[v].op # "charge"
    <3>1. x \in {lock, memLock}
      BY <2>1, <2>2, <2>3, <2>5 DEF WaitsFor, Holds
    <3> QED BY <1>1, <3>1
  <2> QED BY <2>4, <2>5
<1>3. PICK t \in S : TRUE
  OBVIOUS
<1>4. PICK u \in S : WaitsFor(t, u)
  OBVIOUS
<1>5. CASE u \in {lock, memLock}
  BY <1>1, <1>5
<1>6. CASE listLock[CpuOf[t]] = u
  BY <1>0, <1>2, <1>6
<1> QED BY <1>4, <1>5, <1>6 DEF WaitsFor

-----------------------------------------------------------------------------
(* Entries and numbers *)

LEMMA OnceStep ==
  ASSUME TypeOK, OnceOK, NEW t \in Tasks, OnlyOf(t),
         \A r \in Slot : win'[r] \in {win[r], None},
         \A x \in Tasks \ {t} : id'[x] = id[x],
         id'[t] = id[t] \/ \A r \in Slot : win'[r] # t,
         Bare(t)' => \A r \in Slot : win'[r] # t,
         pc'[t].op \in {"remove", "unlink"} /\ pc'[t].by \in Destroyers =>
            pc'[t].slot = id'[t]
  PROVE  OnceOK'
<1>0. None \notin Tasks
  BY WindowsAssumption
<1>1. \A q, r \in Slot : win'[q] = win'[r] /\ win'[q] # None => q = r
  BY DEF OnceOK
<1>2. ASSUME NEW r \in Slot, win'[r] # None
      PROVE  id'[win'[r]] = r
  <2>1. win'[r] = win[r] /\ win[r] \in Tasks /\ id[win[r]] = r
    BY <1>2 DEF TypeOK, OnceOK
  <2> QED BY <2>1
<1>3. ASSUME NEW u \in Tasks, u # t, Bare(u)'
      PROVE  \A r \in Slot : win'[r] # u
  <2>1. pc'[u] = pc[u] /\ state'[u] = state[u]
    BY <1>3 DEF OnlyOf
  <2>2. Bare(u)
    BY <1>3, <2>1 DEF Bare
  <2> QED BY <1>0, <2>2 DEF OnceOK
<1>4. ASSUME NEW u \in Tasks, u # t, pc'[u].op \in {"remove", "unlink"},
             pc'[u].by \in Destroyers
      PROVE  pc'[u].slot = id'[u]
  <2>1. pc'[u] = pc[u] /\ id'[u] = id[u]
    BY <1>4 DEF OnlyOf
  <2> QED BY <1>4, <2>1 DEF OnceOK
<1> QED BY <1>1, <1>2, <1>3, <1>4, Zenon DEF OnceOK

LEMMA OnceGet ==
  ASSUME TypeOK, OnceOK, NEW t \in Tasks, GetFreeWindow(t)
  PROVE  OnceOK'
<1>1. PICK s \in Slot :
        /\ Turn(t, "link", s, pc[t].from, pc[t].by)
        /\ win' = [win EXCEPT ![s] = t] /\ id' = [id EXCEPT ![t] = s]
  BY DrawTurns
<1>2. pc[t].op = "insert" /\ UNCHANGED state /\ None \notin Tasks
  BY WindowsAssumption DEF GetFreeWindow, At
<1>3. \A r \in Slot : win[r] # t
  BY <1>2 DEF OnceOK, Bare
<1>4. /\ win'[s] = t /\ \A r \in Slot \ {s} : win'[r] = win[r]
      /\ id'[t] = s /\ \A x \in Tasks \ {t} : id'[x] = id[x]
  BY <1>1 DEF TypeOK
<1>5. pc'[t].op = "link" /\ \A u \in Tasks \ {t} : pc'[u] = pc[u]
  BY <1>1 DEF Turn
<1>6. \A q, r \in Slot : win'[q] = win'[r] /\ win'[q] # None => q = r
  BY <1>3, <1>4 DEF OnceOK
<1>7. ASSUME NEW r \in Slot, win'[r] # None
      PROVE  id'[win'[r]] = r
  <2>1. CASE r = s
    BY <1>4, <2>1
  <2>2. CASE r # s
    <3>1. win'[r] = win[r] /\ win[r] \in Tasks \ {t}
      BY <1>3, <1>4, <1>7, <2>2 DEF TypeOK
    <3> QED BY <1>4, <1>7, <3>1 DEF OnceOK
  <2> QED BY <2>1, <2>2
<1>8. ASSUME NEW u \in Tasks, Bare(u)'
      PROVE  \A r \in Slot : win'[r] # u
  <2>1. u # t
    BY <1>5, <1>8 DEF Bare
  <2>2. pc'[u] = pc[u] /\ state'[u] = state[u]
    BY <1>2, <1>5, <2>1
  <2>3. Bare(u)
    BY <1>8, <2>2 DEF Bare
  <2> QED BY <1>4, <2>1, <2>3 DEF OnceOK
<1>9. ASSUME NEW u \in Tasks, pc'[u].op \in {"remove", "unlink"}, pc'[u].by \in Destroyers
      PROVE  pc'[u].slot = id'[u]
  <2>1. u # t
    BY <1>5, <1>9
  <2>2. pc'[u] = pc[u] /\ id'[u] = id[u]
    BY <1>4, <1>5, <2>1
  <2> QED BY <1>9, <2>2 DEF OnceOK
<1> QED BY <1>6, <1>7, <1>8, <1>9, Zenon DEF OnceOK

(* A task that comes to have no window in a calm step had none. *)
LEMMA OnceCalm ==
  ASSUME TypeOK, LockOK, CallsOK, EntriesOK, ListLockOK, OnceOK, NEW t \in Tasks, Calm(t)
  PROVE  OnceOK'
<1>0. SameTable /\ OnlyOf(t) /\ UNCHANGED <<win, id>> /\ CallOK(t)
  BY CalmSteps DEF SameTable, CallsOK
<1>1. ASSUME Bare(t)' => \A r \in Slot : win[r] # t,
             pc'[t].op = "remove" /\ pc'[t].by \in Destroyers => pc'[t].slot = id[t]
      PROVE  OnceOK'
  <2>1. pc'[t].op # "unlink"
    BY CalmSteps
  <2> QED BY <1>0, <1>1, <2>1, OnceStep
<1>2. ASSUME Bare(t)' => Bare(t),
             pc'[t].op = "remove" /\ pc'[t].by \in Destroyers => pc'[t].slot = id[t]
      PROVE  OnceOK'
  BY <1>1, <1>2 DEF OnceOK
<1>3. CASE CallsUp(t)
  <2>1. UNCHANGED state
    BY <1>3, CallsUpSteps
  <2>2. pc'[t].op = "remove" /\ pc'[t].by \in Destroyers => pc'[t].slot = id[t]
    BY <1>3, CallsUpSteps DEF Goes, Rests, Turn
  <2>3. \/ pc[t].op = "idle" /\ state[t] = "new"
        \/ ~(Bare(t)')
    BY <1>0, <1>3, <2>1, CallsUpSteps DEF Goes, Rests, Turn, Bare, CallOK
  <2> QED BY <1>2, <2>2, <2>3 DEF Bare
<1>4. CASE AllocBuf(t)
  <2>1. pc[t].op = "alloc" /\ Goes(t, "charge")
    BY <1>4, DrawTurns DEF AllocBuf, At
  <2> QED BY <1>2, <2>1 DEF Goes, Turn, Bare
<1>5. CASE Charge(t)
  <2>1. pc[t].op = "charge" /\ Goes(t, "find") /\ listLock[CpuOf[t]] # t
    BY <1>5, DrawTurns, WindowsAssumption DEF Charge, At
  <2>2. pc[t].by = "open"
    BY <1>0, <2>1 DEF ListLockOK, Holds, CallOK
  <2> QED BY <1>2, <2>1, <2>2 DEF Goes, Turn, Bare
<1>6. CASE MinimizeWindow(t) \/ TakePicture(t) \/ EndProcess(t)
  <2>1. pc[t].op \in {"minimize", "picture", "end"} /\ UNCHANGED state
    BY <1>6 DEF MinimizeWindow, TakePicture, EndProcess, At
  <2>2. state[t] # "new"
    BY <1>0, <2>1 DEF CallOK
  <2>3. \/ pc'[t].op = "picture" \/ pc'[t].op = "walk"
        \/ pc'[t].op = "charge" /\ pc'[t].by = "minimize"
    <3>1. CASE TakePicture(t)
      <4>1. pc[t].by = "minimize"
        BY <1>0, <3>1 DEF TakePicture, At, CallOK
      <4> QED BY <3>1, <4>1, KeyTurns DEF Goes, Turn
    <3> QED BY <1>6, <3>1, KeyTurns DEF Turn
  <2> QED BY <1>2, <2>1, <2>2, <2>3 DEF Bare
<1>7. ASSUME NEW s \in {"up", "over"}, Settles(t, s)
      PROVE  OnceOK'
  BY <1>2, <1>7 DEF Settles, Rests, Turn, Bare
<1>8. CASE MinimizeFails(t)
  BY <1>7, <1>8, KeyTurns
<1>9. CASE Passes(t)
  <2>1. /\ pc[t].op = "remove" /\ pc[t].slot \notin valid /\ lock = None /\ Removed(t)
        /\ state[t] # "new"
    BY <1>0, <1>9, PassesSteps DEF CallOK
  <2>2. CASE pc[t].by \in Destroyers /\ Goes(t, "free")
    <3>1. pc[t].slot = id[t]
      BY <2>1, <2>2 DEF OnceOK
    <3>2. ASSUME NEW r \in Slot, win[r] = t
          PROVE  FALSE
      <4>1. id[t] = r
        BY <3>2, WindowsAssumption DEF OnceOK
      <4>2. r \in valid
        BY <2>1, <3>2, FreeMeansSettled, WindowsAssumption
      <4> QED BY <2>1, <3>1, <4>1, <4>2
    <3> QED BY <1>1, <2>2, <3>2 DEF Goes, Turn
  <2>3. CASE Goes(t, "walk") /\ UNCHANGED state
    BY <1>2, <2>1, <2>3 DEF Goes, Turn, Bare
  <2> QED BY <1>7, <2>1, <2>2, <2>3, RemovedTurns
<1>10. CASE FreeBuf(t) \/ Freed(t)
  <2>1. pc[t].op \in {"free", "freeing"} /\ pc'[t].op # "remove"
    BY <1>10, EndTurns DEF FreeBuf, Freed, At, Goes, Turn
  <2> QED BY <1>2, <2>1 DEF Bare
<1>11. CASE Walk(t)
  <2>1. pc[t].op = "walk" /\ pc[t].by = "end" /\ state[t] # "new"
    BY <1>0, <1>11 DEF Walk, At, CallOK
  <2>2. CASE \/ Goes(t, "remove") /\ UNCHANGED state
             \/ Turn(t, "walk", Before(pc[t].slot), pc[t].from, pc[t].by) /\ UNCHANGED state
    BY <1>2, <2>1, <2>2 DEF Goes, Turn, Bare, Destroyers
  <2> QED BY <1>7, <1>11, <2>2, EndTurns
<1> QED
  BY <1>3, <1>4, <1>5, <1>6, <1>8, <1>9, <1>10, <1>11 DEF Calm

LEMMA OnceUnlink ==
  ASSUME TypeOK, CallsOK, OnceOK, NEW t \in Tasks, UnlinkWindow(t)
  PROVE  OnceOK'
<1> DEFINE s == pc[t].slot
<1>1. /\ pc[t].op = "unlink" /\ win' = [win EXCEPT ![s] = None] /\ id' = id /\ Removed(t)
      /\ state[t] # "new" /\ OnlyOf(t)
  BY OtherSteps DEF UnlinkWindow, At, CallsOK, CallOK
<1>2. \A r \in Slot : win'[r] \in {win[r], None} /\ (r = s => win'[r] = None)
  BY <1>1 DEF TypeOK
<1>3. pc'[t].op \notin {"remove", "unlink"}
  BY <1>1, RemovedTurns DEF Settles, Rests, Goes, Turn
<1>4. ASSUME Bare(t)', NEW r \in Slot, win'[r] = t
      PROVE  FALSE
  <2>1. CASE pc[t].by \in Destroyers
    <3>1. s = id[t]
      BY <1>1, <2>1 DEF OnceOK
    <3>2. win[r] = t /\ r # s
      BY <1>2, <1>4, WindowsAssumption
    <3>3. id[t] = r
      BY <3>2, WindowsAssumption DEF OnceOK
    <3> QED BY <3>1, <3>2, <3>3
  <2>2. CASE pc[t].by \notin Destroyers
    <3>1. Settles(t, "over") \/ (Goes(t, "walk") /\ UNCHANGED state)
      BY <1>1, <2>2, RemovedTurns
    <3> QED BY <1>1, <1>4, <3>1 DEF Settles, Rests, Goes, Turn, Bare
  <2> QED BY <2>1, <2>2
<1> QED BY <1>1, <1>2, <1>3, <1>4, OnceStep

LEMMA OnceNext ==
  ASSUME TypeOK, LockOK, CallsOK, EntriesOK, ListLockOK, OnceOK, [Next]_vars
  PROVE  OnceOK'
<1>1. CASE Still
  <2>1. UNCHANGED <<win, id, pc>> /\ \A t \in Tasks : state'[t] \in {state[t], "killed"}
    BY <1>1 DEF Still, SameTable
  <2>2. ASSUME NEW t \in Tasks, Bare(t)'
        PROVE  Bare(t)
    BY <2>1, <2>2 DEF Bare
  <2> QED BY <2>1, <2>2 DEF OnceOK
<1>2. ASSUME NEW t \in Tasks, FindWindow(t) \/ NoFreeWindow(t)
      PROVE  OnceOK'
  <2>1. Bare(t) /\ OnlyOf(t) /\ UNCHANGED win
    BY <1>2, OtherSteps DEF FindWindow, NoFreeWindow, At, Bare
  <2>2. \A r \in Slot : win'[r] # t
    BY <2>1 DEF OnceOK
  <2>3. \A x \in Tasks \ {t} : id'[x] = id[x]
    BY <1>2, DrawTurns DEF Refused, TypeOK
  <2>4. pc'[t].op \notin {"remove", "unlink"}
    BY <1>2, DrawTurns DEF Settles, Rests, Goes, Turn
  <2> QED BY <2>1, <2>2, <2>3, <2>4, OnceStep
<1>3. ASSUME NEW t \in Tasks, LinkWindow(t)
      PROVE  OnceOK'
  <2>1. UNCHANGED <<win, id>> /\ Settles(t, "up") /\ OnlyOf(t)
    BY <1>3, OtherSteps, DrawTurns DEF LinkWindow
  <2>2. ~(Bare(t)') /\ pc'[t].op \notin {"remove", "unlink"}
    BY <2>1 DEF Settles, Rests, Turn, Bare
  <2> QED BY <2>1, <2>2, OnceStep
<1>4. ASSUME NEW t \in Tasks, Marks(t)
      PROVE  OnceOK'
  <2>1. /\ UNCHANGED <<win, id, state>> /\ Goes(t, "unlink") /\ OnlyOf(t)
        /\ pc[t].op = "remove" /\ state[t] # "new"
    BY <1>4, OtherSteps, EndTurns DEF Marks, RemoveWindow, At, CallsOK, CallOK
  <2>2. ~(Bare(t)')
    BY <2>1 DEF Goes, Turn, Bare
  <2>3. pc'[t].by \in Destroyers => pc'[t].slot = id[t]
    BY <2>1 DEF Goes, Turn, OnceOK
  <2> QED BY <2>1, <2>2, <2>3, OnceStep
<1> QED BY <1>1, <1>2, <1>3, <1>4, StepKinds, OnceCalm, OnceGet, OnceUnlink

-----------------------------------------------------------------------------
(* Windows of one name *)

LEMMA NewNameIsNew ==
  ASSUME TypeOK, LockOK, EntriesOK, lock = None, NEW w \in Tasks, ~NameInUse(w)
  PROVE  \A s \in Slot : win[s] # None => name[win[s]] # name[w]
<1> SUFFICES ASSUME NEW s \in Slot, win[s] # None
             PROVE  name[win[s]] # name[w]
  OBVIOUS
<1>1. PICK i \in 1 .. Len(order) : order[i] = s
  BY FreeMeansSettled DEF Has
<1> QED BY <1>1 DEF NameInUse

(* The window is listed, or its name was found to be free. *)
Present(x) == (\E s \in Slot : win[s] = x) \/ pc[x].op = "insert"

NamesOK ==
    \A x, y \in Tasks :
        Present(x) /\ Present(y) /\ x # y /\ name[x] = name[y] => {x, y} \cap raced # {}

LEMMA NamesFind ==
  ASSUME TypeOK, LockOK, EntriesOK, NamesOK, NEW t \in Tasks, FindWindow(t),
         Goes(t, "insert"), ~NameInUse(t), raced' = raced \cup Unseen(t)
  PROVE  NamesOK'
<1>1. lock = None /\ UNCHANGED <<name, win>>
  BY DEF FindWindow, IsFree
<1>2. \A s \in Slot : win[s] # None => name[win[s]] # name[t]
  BY <1>1, NewNameIsNew
<1>3. \A u \in Tasks \ {t} : pc'[u] = pc[u]
  BY DEF Goes, Turn
<1>4. ASSUME NEW x \in Tasks, Present(x)'
      PROVE  Present(x) \/ x = t
  BY <1>1, <1>3, <1>4 DEF Present
<1>5. ASSUME NEW y \in Tasks, Present(y), name[y] = name[t]
      PROVE  y \in raced'
  <2>1. ASSUME NEW s \in Slot, win[s] = y
        PROVE  FALSE
    BY <1>2, <1>5, <2>1, WindowsAssumption
  <2>2. pc[y].op = "insert"
    BY <1>5, <2>1 DEF Present
  <2> QED BY <1>5, <2>2 DEF Unseen
<1>6. ASSUME NEW x \in Tasks, NEW y \in Tasks, Present(x)', Present(y)', x # y,
             name'[x] = name'[y]
      PROVE  {x, y} \cap raced' # {}
  <2>1. CASE Present(x) /\ Present(y)
    BY <1>1, <1>6, <2>1 DEF NamesOK
  <2>2. CASE x = t \/ y = t
    <3>1. x \in raced' \/ y \in raced'
      BY <1>1, <1>4, <1>5, <1>6, <2>2
    <3> QED BY <3>1
  <2> QED BY <1>4, <1>6, <2>1, <2>2
<1> QED BY <1>6 DEF NamesOK

LEMMA NamesNext ==
  ASSUME TypeOK, LockOK, EntriesOK, NamesOK, [Next]_vars
  PROVE  NamesOK'
<1>1. ASSUME UNCHANGED name, raced \subseteq raced', \A x \in Tasks : Present(x)' => Present(x)
      PROVE  NamesOK'
  BY <1>1 DEF NamesOK
<1>2. CASE Still
  BY <1>1, <1>2 DEF Still, SameTable, Present
<1>3. ASSUME NEW t \in Tasks, OnlyOf(t), pc'[t].op # "insert", UNCHANGED <<name, raced>>,
             \A s \in Slot : win'[s] \in {win[s], None}
      PROVE  NamesOK'
  <2>1. ASSUME NEW x \in Tasks, Present(x)'
        PROVE  Present(x)
    BY <1>3, <2>1, WindowsAssumption DEF Present, OnlyOf
  <2> QED BY <1>1, <1>3, <2>1
<1>4. ASSUME NEW t \in Tasks, Calm(t)
      PROVE  NamesOK'
  BY <1>3, <1>4, CalmSteps DEF SameTable
<1>5. ASSUME NEW t \in Tasks, GetFreeWindow(t)
      PROVE  NamesOK'
  <2>1. PICK s \in Slot :
          /\ Turn(t, "link", s, pc[t].from, pc[t].by)
          /\ win' = [win EXCEPT ![s] = t]
    BY <1>5, DrawTurns
  <2>2. pc[t].op = "insert" /\ UNCHANGED <<name, raced>>
    BY <1>5 DEF GetFreeWindow, At
  <2>3. \A r \in Slot : win'[r] \in {win[r], t}
    BY <2>1 DEF TypeOK
  <2>4. ASSUME NEW x \in Tasks, Present(x)'
        PROVE  Present(x)
    BY <2>1, <2>2, <2>3, <2>4 DEF Present, Turn
  <2> QED BY <1>1, <2>2, <2>4
<1>6. ASSUME NEW t \in Tasks, FindWindow(t) \/ NoFreeWindow(t)
      PROVE  NamesOK'
  <2>1. CASE Settles(t, "up") /\ UNCHANGED raced
    <3>1. UNCHANGED <<win, name>>
      BY <1>6 DEF FindWindow, NoFreeWindow
    <3> QED BY <1>3, <2>1, <3>1, TurnIsOne DEF Settles, Rests, Turn
  <2>2. CASE FindWindow(t)
    BY <2>1, <2>2, DrawTurns, NamesFind
  <2>3. CASE NoFreeWindow(t)
    BY <2>1, <2>3, DrawTurns DEF NoFreeWindow
  <2> QED BY <1>6, <2>2, <2>3
<1>7. ASSUME NEW t \in Tasks, LinkWindow(t) \/ Marks(t) \/ UnlinkWindow(t)
      PROVE  NamesOK'
  <2>1. (\A s \in Slot : win'[s] \in {win[s], None}) /\ UNCHANGED <<name, raced>>
    BY <1>7 DEF LinkWindow, Marks, RemoveWindow, UnlinkWindow, TypeOK
  <2>2. Settles(t, "up") \/ Goes(t, "unlink") \/ Removed(t)
    BY <1>7, DrawTurns, EndTurns DEF UnlinkWindow, Marks
  <2>3. pc'[t].op # "insert"
    BY <2>2, RemovedTurns DEF Goes, Settles, Rests, Turn
  <2> QED BY <1>3, <1>7, <2>1, <2>3, OtherSteps
<1> QED BY <1>2, <1>4, <1>5, <1>6, <1>7, StepKinds

-----------------------------------------------------------------------------
(* The walk that ends a process *)

(* The walk of t, which began at the top and goes down, has still to come to
   the k-th of the ring, and has not come past where it began. *)
Ahead(t, k) ==
    \E i \in 1 .. Len(order) :
        /\ order[i] = pc[t].slot /\ k <= i
        /\ \A f \in 1 .. Len(order) : order[f] = pc[t].from => i <= f
        /\ pc[t].op # "walk" => i = k

(* It comes to every entry of its process, and removes only those. *)
WalkOK ==
    \A t \in Tasks :
        pc[t].by = "end" /\ t \notin cut =>
            /\ \A k \in 1 .. Len(order) : Own(t, order[k]) => Ahead(t, k)
            /\ pc[t].op # "walk" => win[pc[t].slot] = t

LEMMA RingFacts ==
  ASSUME TypeOK, EntriesOK
  PROVE  /\ order \in Seq(Slot) /\ Len(order) \in Nat
         /\ \A i \in 1 .. Len(order) : order[i] \in Slot /\ order[i] # 0 /\ Has(order, order[i])
         /\ \A i, j \in 1 .. Len(order) : order[i] = order[j] => i = j
<1>1. order \in Seq(Slot) /\ Len(order) \in Nat
  BY LenProperties DEF TypeOK
<1>2. \A i \in 1 .. Len(order) : order[i] \in Slot
  BY <1>1, ElementOfSeq
<1>3. 0 \notin Slot
  BY WindowsAssumption DEF Slot
<1> QED BY <1>1, <1>2, <1>3 DEF EntriesOK, Has

(* Where a call by the end of a process is *)
LEMMA EndOps ==
  ASSUME TypeOK, NEW t \in Tasks, CallOK(t), pc[t].by = "end"
  PROVE  pc[t].op \in {"walk", "remove", "unlink"}
BY CallFields DEF CallOK, Ops, Destroyers

(* When t has found its window, no other is its own. *)
LEMMA FoundIsOnly ==
  ASSUME TypeOK, EntriesOK, WalkOK, NEW t \in Tasks, pc[t].by = "end", t \notin cut,
         pc[t].op \in {"remove", "unlink"}, NEW k \in 1 .. Len(order), Own(t, order[k])
  PROVE  order[k] = pc[t].slot /\ pc[t].slot \in valid /\ pc[t].op = "remove"
<1>1. Ahead(t, k)
  BY DEF WalkOK
<1>2. order[k] = pc[t].slot
  BY <1>1 DEF Ahead
<1>3. pc[t].slot \in valid
  BY <1>2 DEF Own
<1> QED BY <1>2, <1>3 DEF EntriesOK

LEMMA WalkOwnStep ==
  ASSUME TypeOK, LockOK, CallsOK, EntriesOK, OnceOK, WalkOK, NEW t \in Tasks,
         EndProcess(t) \/ Walk(t) \/ RemoveWindow(t) \/ UnlinkWindow(t),
         pc'[t].by = "end", t \notin cut', NEW k \in 1 .. Len(order'),
         order'[k] \in valid', win'[order'[k]] = t
  PROVE  Ahead(t, k)'
<1>0. /\ order \in Seq(Slot) /\ Len(order) \in Nat
      /\ \A i \in 1 .. Len(order) : order[i] \in Slot /\ order[i] # 0
      /\ \A i, j \in 1 .. Len(order) : order[i] = order[j] => i = j
  BY RingFacts
<1>1. CASE EndProcess(t)
  <2>1. UNCHANGED order /\ pc'[t].slot = TopEntry /\ pc'[t].from = TopEntry /\ pc'[t].op = "walk"
    BY <1>1, KeyTurns DEF Turn, EndProcess
  <2>2. Len(order) \in 1 .. Len(order) /\ order # <<>>
    BY <1>0, <2>1, EmptySeq
  <2>3. TopEntry = order[Len(order)]
    BY <2>2 DEF TopEntry, Last
  <2> QED BY <1>0, <2>1, <2>2, <2>3 DEF Ahead
<1>2. CASE Walk(t)
  <2>1. /\ UNCHANGED <<order, valid, win, cut>> /\ pc[t].op = "walk" /\ pc[t].by = "end"
    BY <1>2 DEF Walk, At, CallsOK, CallOK
  <2>2. Own(t, order[k]) /\ t \notin cut /\ k \in 1 .. Len(order)
    BY <2>1 DEF Own
  <2>3. PICK i \in 1 .. Len(order) :
          /\ order[i] = pc[t].slot /\ k <= i
          /\ \A f \in 1 .. Len(order) : order[f] = pc[t].from => i <= f
    BY <2>1, <2>2 DEF WalkOK, Ahead
  <2>4. CASE Goes(t, "remove") /\ Own(t, pc[t].slot)
    <3>1. order[k] = order[i]
      BY <1>0, <2>2, <2>3, <2>4, WindowsAssumption DEF Own, OnceOK
    <3>2. k = i
      BY <1>0, <2>2, <3>1
    <3> QED BY <2>1, <2>3, <2>4, <3>2 DEF Ahead, Goes, Turn
  <2>5. CASE /\ Turn(t, "walk", Before(pc[t].slot), pc[t].from, pc[t].by)
             /\ ~Own(t, pc[t].slot)
    <3>1. k # i /\ i # 1 /\ i - 1 \in 1 .. Len(order) /\ k <= i - 1
      BY <1>0, <2>2, <2>3, <2>5
    <3>2. Before(pc[t].slot) = order[i - 1]
      BY <1>0, <2>3, <3>1, BeforeIndex
    <3>3. \A f \in 1 .. Len(order) : order[f] = pc[t].from => i - 1 <= f
      BY <1>0, <2>3
    <3>4. /\ pc'[t].op = "walk" /\ pc'[t].slot = order[i - 1] /\ pc'[t].from = pc[t].from
      BY <2>5, <3>2 DEF Turn
    <3> QED BY <2>1, <3>1, <3>3, <3>4 DEF Ahead
  <2>6. CASE Settles(t, "over")
    BY <2>6 DEF Settles, Rests, Turn
  <2> QED BY <1>2, <2>4, <2>5, <2>6, EndTurns
<1>3. CASE RemoveWindow(t)
  <2>1. /\ pc[t].op = "remove" /\ UNCHANGED <<order, win, cut>> /\ valid' \subseteq valid
    BY <1>3 DEF RemoveWindow, At
  <2>2. pc[t].by = "end"
    <3>1. Removed(t) \/ Goes(t, "unlink")
      BY <1>3, EndTurns
    <3> QED BY <3>1, RemovedTurns DEF Goes, Settles, Rests, Turn
  <2>3. Own(t, order[k]) /\ t \notin cut /\ k \in 1 .. Len(order)
    BY <2>1 DEF Own
  <2>4. order[k] = pc[t].slot /\ pc[t].slot \in valid
    BY <2>1, <2>2, <2>3, FoundIsOnly
  <2>5. valid' = valid \ {pc[t].slot}
    BY <1>3, <2>4, EndTurns
  <2> QED BY <2>1, <2>4, <2>5 DEF Own
<1>4. CASE UnlinkWindow(t)
  <2>1. /\ pc[t].op = "unlink" /\ UNCHANGED valid /\ cut \subseteq cut'
        /\ win' = [win EXCEPT ![pc[t].slot] = None] /\ Removed(t)
    BY <1>4 DEF UnlinkWindow, At
  <2>2. pc[t].by = "end"
    BY <2>1, RemovedTurns DEF Goes, Settles, Rests, Turn
  <2>3. PICK i \in 1 .. Len(order) : order' = RemoveAt(order, i)
    BY <1>4 DEF UnlinkWindow
  <2>4. PICK j \in 1 .. Len(order) : order'[k] = order[j]
    BY <1>0, <2>3, RingShrinks
  <2>5. Own(t, order[j]) /\ t \notin cut
    <3>1. order[j] \in valid /\ win'[order[j]] = t /\ t \notin cut
      BY <2>1, <2>4
    <3>2. win[order[j]] = t
      <4>1. order[j] \in Slot /\ win \in [Slot -> Tasks \cup {None}] /\ t # None
        BY <1>0, WindowsAssumption DEF TypeOK
      <4>2. order[j] # pc[t].slot
        BY <2>1, <3>1, <4>1
      <4> QED BY <2>1, <3>1, <4>1, <4>2
    <3> QED BY <3>1, <3>2 DEF Own
  <2> QED BY <2>1, <2>2, <2>5, FoundIsOnly
<1> QED BY <1>1, <1>2, <1>3, <1>4

(* Steps of others that t may take its walk through *)
LEMMA WalkOtherStep ==
  ASSUME TypeOK, LockOK, EntriesOK, WalkOK, NEW t \in Tasks, NEW u \in Tasks \ {t},
         GetFreeWindow(u) \/ LinkWindow(u) \/ Marks(u) \/ UnlinkWindow(u),
         pc'[t].by = "end", t \notin cut', NEW k \in 1 .. Len(order'),
         order'[k] \in valid', win'[order'[k]] = t
  PROVE  Ahead(t, k)'
<1>0. /\ Len(order) \in Nat
      /\ \A i \in 1 .. Len(order) : order[i] \in Slot /\ Has(order, order[i])
      /\ \A i, j \in 1 .. Len(order) : order[i] = order[j] => i = j
  BY RingFacts
<1>1. pc'[t] = pc[t] /\ cut \subseteq cut'
  <2>1. cut \subseteq cut'
    BY DEF GetFreeWindow, LinkWindow, Marks, RemoveWindow, UnlinkWindow
  <2> QED BY <2>1, OtherSteps DEF OnlyOf
<1>2. pc[t].by = "end" /\ t \notin cut
  BY <1>1
<1>3. CASE GetFreeWindow(u)
  <2>1. PICK s \in Slot :
          /\ s \notin valid /\ valid' = valid \cup {s} /\ win' = [win EXCEPT ![s] = u]
    BY <1>3, DrawTurns
  <2>2. lock = None /\ UNCHANGED order
    BY <1>3 DEF GetFreeWindow, IsFree
  <2>3. order[k] # s /\ k \in 1 .. Len(order)
    BY <1>0, <2>1, <2>2, FreeMeansSettled
  <2>4. Own(t, order[k])
    BY <1>0, <2>1, <2>2, <2>3 DEF Own, TypeOK
  <2> QED BY <1>1, <1>2, <2>2, <2>3, <2>4 DEF WalkOK, Ahead
<1>4. CASE LinkWindow(u)
  <2>1. /\ pc[u].slot \in Slot /\ win[pc[u].slot] = u /\ UNCHANGED <<valid, win>>
        /\ order' = Append(order, pc[u].slot)
    BY <1>4 DEF LinkWindow, At, EntriesOK, TypeOK
  <2>2. /\ Len(order') = Len(order) + 1
        /\ \A i \in 1 .. Len(order) : order'[i] = order[i]
        /\ order'[Len(order) + 1] = pc[u].slot
    BY <2>1, RingGrows
  <2>3. k \in 1 .. Len(order) /\ Own(t, order[k])
    BY <1>0, <2>1, <2>2 DEF Own
  <2>4. PICK i \in 1 .. Len(order) :
          /\ order[i] = pc[t].slot /\ k <= i
          /\ \A f \in 1 .. Len(order) : order[f] = pc[t].from => i <= f
          /\ pc[t].op # "walk" => i = k
    BY <1>2, <2>3 DEF WalkOK, Ahead
  <2>5. /\ i \in 1 .. Len(order') /\ order'[i] = pc[t].slot
        /\ \A f \in 1 .. Len(order') : order'[f] = pc[t].from => i <= f
    BY <1>0, <2>2, <2>4
  <2> QED BY <1>1, <2>4, <2>5 DEF Ahead
<1>5. CASE Marks(u)
  <2>1. UNCHANGED <<order, win>> /\ valid' \subseteq valid
    BY <1>5 DEF Marks, RemoveWindow
  <2>2. Own(t, order[k])
    BY <2>1 DEF Own
  <2> QED BY <1>1, <1>2, <2>1, <2>2 DEF WalkOK, Ahead
<1>6. CASE UnlinkWindow(u)
  <2> DEFINE s == pc[u].slot
  <2>1. PICK j \in 1 .. Len(order) : order[j] = s /\ order' = RemoveAt(order, j)
    BY <1>6 DEF UnlinkWindow
  <2>2. /\ UNCHANGED valid /\ win' = [win EXCEPT ![s] = None]
        /\ cut' = cut \cup CutAt(u, s)
    BY <1>6 DEF UnlinkWindow
  <2>3. pc[t].slot # s
    <3>1. pc[t].slot = s => t \in CutAt(u, s)
      BY <1>2 DEF CutAt
    <3> QED BY <2>2, <3>1
  <2> HIDE DEF s
  <2>4. /\ \A i \in 1 .. Len(order) : i # j =>
             Shift(j, i) \in 1 .. Len(order') /\ order'[Shift(j, i)] = order[i]
        /\ \A m \in 1 .. Len(order') :
             \E i \in 1 .. Len(order) : i # j /\ Shift(j, i) = m /\ order'[m] = order[i]
    BY <1>0, <2>1, RingShrinks
  <2>5. PICK n \in 1 .. Len(order) : n # j /\ Shift(j, n) = k /\ order'[k] = order[n]
    BY <2>4
  <2>6. Own(t, order[n])
    <3>1. order[n] # s /\ order[n] \in Slot
      BY <1>0, <2>1, <2>5
    <3> QED BY <2>2, <2>5, <3>1 DEF Own, TypeOK
  <2>7. PICK i \in 1 .. Len(order) :
          /\ order[i] = pc[t].slot /\ n <= i
          /\ \A f \in 1 .. Len(order) : order[f] = pc[t].from => i <= f
          /\ pc[t].op # "walk" => i = n
    BY <1>2, <2>6 DEF WalkOK, Ahead
  <2>8. i # j
    BY <2>1, <2>3, <2>7
  <2>9. \A a, b \in 1 .. Len(order) : a # j /\ b # j /\ a <= b => Shift(j, a) <= Shift(j, b)
    BY <1>0 DEF Shift
  <2>10. /\ Shift(j, i) \in 1 .. Len(order') /\ order'[Shift(j, i)] = pc[t].slot
         /\ k <= Shift(j, i) /\ (pc[t].op # "walk" => Shift(j, i) = k)
    BY <2>4, <2>5, <2>7, <2>8, <2>9
  <2>11. ASSUME NEW f \in 1 .. Len(order'), order'[f] = pc[t].from
         PROVE  Shift(j, i) <= f
    <3>1. PICK m \in 1 .. Len(order) : m # j /\ Shift(j, m) = f /\ order'[f] = order[m]
      BY <2>4
    <3>2. i <= m
      BY <2>7, <2>11, <3>1
    <3> QED BY <2>8, <2>9, <3>1, <3>2
  <2> QED BY <1>1, <2>10, <2>11 DEF Ahead
<1> QED BY <1>3, <1>4, <1>5, <1>6

(* What t is about to remove is its own until another removes it. *)
LEMMA WalkRemoves ==
  ASSUME TypeOK, LockOK, CallsOK, EntriesOK, WalkOK, [Next]_vars, NEW t \in Tasks,
         pc'[t].by = "end", t \notin cut', pc'[t].op # "walk", CallsOK'
  PROVE  win'[pc'[t].slot] = t
<1>0. None \notin Tasks /\ pc[t].slot \in 0 .. Slots
  BY CallFields, WindowsAssumption
<1>1. ASSUME pc'[t].slot = pc[t].slot, t \notin cut, pc[t].by = "end", pc[t].op # "walk",
             win'[pc[t].slot] = win[pc[t].slot]
      PROVE  win'[pc'[t].slot] = t
  BY <1>1 DEF WalkOK
<1>2. CASE Still
  BY <1>1, <1>2 DEF Still, SameTable
<1>3. ASSUME NEW u \in Tasks \ {t}, Calm(u)
      PROVE  win'[pc'[t].slot] = t
  <2>1. UNCHANGED <<win, cut>> /\ pc'[t] = pc[t]
    BY <1>3, CalmSteps DEF SameTable, OnlyOf
  <2> QED BY <1>1, <2>1
<1>4. CASE Calm(t)
  <2>0. UNCHANGED <<win, cut>>
    BY <1>4, CalmSteps DEF SameTable
  <2>1. CASE Walk(t)
    <3>1. Goes(t, "remove") /\ Own(t, pc[t].slot)
      BY <2>1, EndTurns DEF Settles, Rests, Turn
    <3> QED BY <2>0, <3>1 DEF Goes, Turn, Own
  <2>2. CASE Passes(t)
    <3>1. Removed(t)
      BY <2>2, PassesSteps
    <3>2. CASE Goes(t, "free") /\ pc[t].by \in Destroyers
      BY <3>2 DEF Goes, Turn, Destroyers
    <3> QED BY <3>1, <3>2, RemovedTurns DEF Settles, Rests, Goes, Turn
  <2>3. CASE CallsUp(t)
    <3>1. pc'[t].op \notin {"unlink", "walk"} /\ (pc'[t].op = "remove" => pc'[t].by # "end")
      BY <2>3, CallsUpSteps DEF Goes, Rests, Turn
    <3>2. pc'[t].by # "end"
      BY <2>3, CallsUpSteps DEF Goes, Rests, Turn, CallsOK, CallOK
    <3> QED BY <3>2
  <2>4. CASE AllocBuf(t) \/ Charge(t) \/ FreeBuf(t) \/ Freed(t)
    <3>1. pc'[t].op \in {"charge", "find", "freeing", "end", "alloc", "idle"}
      BY <2>4, DrawTurns, EndTurns DEF Goes, Turn
    <3> QED BY <3>1 DEF CallsOK, CallOK, Destroyers
  <2>5. CASE MinimizeWindow(t) \/ TakePicture(t) \/ MinimizeFails(t) \/ EndProcess(t)
    <3>1. pc'[t].op \in {"picture", "charge", "idle", "walk"}
      BY <2>5, KeyTurns DEF Goes, Settles, Rests, Turn
    <3> QED BY <3>1 DEF CallsOK, CallOK
  <2> QED BY <1>4, <2>1, <2>2, <2>3, <2>4, <2>5 DEF Calm
<1>5. ASSUME NEW u \in Tasks, FindWindow(u) \/ NoFreeWindow(u) \/ LinkWindow(u)
      PROVE  win'[pc'[t].slot] = t
  <2>1. UNCHANGED <<win, cut>>
    BY <1>5 DEF FindWindow, NoFreeWindow, LinkWindow
  <2>2. CASE u = t
    <3>1. pc'[t].op \in {"insert", "idle"}
      BY <1>5, <2>2, DrawTurns DEF Goes, Settles, Rests, Turn
    <3> QED BY <3>1 DEF CallsOK, CallOK
  <2>3. CASE u # t
    <3>1. pc'[t] = pc[t]
      BY <1>5, <2>3, OtherSteps DEF OnlyOf
    <3> QED BY <1>1, <2>1, <3>1
  <2> QED BY <2>2, <2>3
<1>6. ASSUME NEW u \in Tasks, GetFreeWindow(u)
      PROVE  win'[pc'[t].slot] = t
  <2>1. PICK s \in Slot :
          /\ Turn(u, "link", s, pc[u].from, pc[u].by)
          /\ s \notin valid /\ win' = [win EXCEPT ![s] = u]
    BY <1>6, DrawTurns
  <2>2. lock = None /\ cut' = cut
    BY <1>6 DEF GetFreeWindow, IsFree
  <2>3. u # t
    BY <2>1 DEF Turn, CallsOK, CallOK
  <2>4. pc'[t] = pc[t]
    BY <2>1, <2>3 DEF Turn
  <2>5. win[pc[t].slot] = t
    BY <2>2, <2>4 DEF WalkOK
  <2>6. win[s] = None
    BY <2>1, <2>2, FreeMeansSettled
  <2>7. pc[t].slot # s
    BY <1>0, <2>5, <2>6
  <2>8. win'[pc[t].slot] = win[pc[t].slot]
    BY <2>1, <2>7 DEF TypeOK
  <2> QED BY <2>4, <2>5, <2>8
<1>7. ASSUME NEW u \in Tasks, Marks(u)
      PROVE  win'[pc'[t].slot] = t
  <2>1. UNCHANGED <<win, cut>> /\ Goes(u, "unlink") /\ pc[u].op = "remove"
    BY <1>7, EndTurns DEF Marks, RemoveWindow, At
  <2>2. pc'[t].slot = pc[t].slot /\ pc[t].by = "end" /\ pc[t].op # "walk"
    BY <2>1 DEF Goes, Turn
  <2> QED BY <1>1, <2>1, <2>2
<1>8. ASSUME NEW u \in Tasks, UnlinkWindow(u)
      PROVE  win'[pc'[t].slot] = t
  <2>1. /\ win' = [win EXCEPT ![pc[u].slot] = None] /\ cut' = cut \cup CutAt(u, pc[u].slot)
        /\ Removed(u)
    BY <1>8 DEF UnlinkWindow
  <2>2. CASE u = t
    <3>1. pc'[t].op \in {"free", "idle", "walk"}
      BY <2>1, <2>2, RemovedTurns DEF Goes, Settles, Rests, Turn
    <3> QED BY <3>1 DEF CallsOK, CallOK, Destroyers
  <2>3. CASE u # t
    <3>1. pc'[t] = pc[t]
      BY <1>8, <2>3, OtherSteps DEF OnlyOf
    <3>2. pc[t].slot # pc[u].slot
      <4>1. pc[t].slot = pc[u].slot => t \in CutAt(u, pc[u].slot)
        BY <2>3, <3>1 DEF CutAt
      <4> QED BY <2>1, <4>1
    <3>3. win'[pc[t].slot] = win[pc[t].slot]
      BY <2>1, <3>2 DEF TypeOK
    <3> QED BY <1>1, <2>1, <3>1, <3>3
  <2> QED BY <2>2, <2>3
<1> QED BY <1>2, <1>3, <1>4, <1>5, <1>6, <1>7, <1>8, StepKinds

LEMMA WalkNext ==
  ASSUME TypeOK, LockOK, CallsOK, CallsOK', EntriesOK, OnceOK, WalkOK, [Next]_vars
  PROVE  WalkOK'
<1>1. ASSUME NEW t \in Tasks, pc'[t].by = "end", t \notin cut',
             NEW k \in 1 .. Len(order'), order'[k] \in valid', win'[order'[k]] = t
      PROVE  Ahead(t, k)'
  <2>0. pc'[t].op \in {"walk", "remove", "unlink"}
    <3>1. TypeOK'
      BY NextKeepsType
    <3> QED BY <1>1, <3>1, EndOps DEF CallsOK, TypeOK, Call, Ops, CallOK, Destroyers
  <2>1. ASSUME UNCHANGED <<order, valid, win, cut>>, pc'[t] = pc[t]
        PROVE  Ahead(t, k)'
    BY <1>1, <2>1 DEF WalkOK, Own, Ahead
  <2>2. CASE Still
    BY <2>1, <2>2 DEF Still, SameTable
  <2>3. ASSUME NEW u \in Tasks \ {t}, Calm(u)
        PROVE  Ahead(t, k)'
    BY <2>1, <2>3, CalmSteps DEF SameTable, OnlyOf
  <2>4. CASE EndProcess(t) \/ Walk(t) \/ RemoveWindow(t) \/ UnlinkWindow(t)
    BY <1>1, <2>4, WalkOwnStep
  <2>5. ASSUME NEW u \in Tasks \ {t},
               GetFreeWindow(u) \/ LinkWindow(u) \/ Marks(u) \/ UnlinkWindow(u)
        PROVE  Ahead(t, k)'
    BY <1>1, <2>5, WalkOtherStep
  <2>6. ASSUME NEW u \in Tasks \ {t}, FindWindow(u) \/ NoFreeWindow(u)
        PROVE  Ahead(t, k)'
    <3>1. UNCHANGED <<order, valid, win, cut>> /\ pc'[t] = pc[t]
      BY <2>6, OtherSteps DEF FindWindow, NoFreeWindow, OnlyOf
    <3> QED BY <2>1, <3>1
  <2>7. CASE \/ FindWindow(t) \/ NoFreeWindow(t) \/ GetFreeWindow(t) \/ LinkWindow(t)
             \/ AllocBuf(t) \/ Charge(t) \/ FreeBuf(t) \/ Freed(t)
             \/ MinimizeWindow(t) \/ TakePicture(t) \/ MinimizeFails(t)
    <3>1. pc'[t].op \notin {"walk", "remove", "unlink"}
      BY <2>7, DrawTurns, KeyTurns, EndTurns DEF Goes, Settles, Rests, Turn
    <3> QED BY <2>0, <3>1
  <2>8. CASE CallsUp(t)
    <3>1. pc'[t].by # "end"
      BY <2>8, CallsUpSteps DEF Goes, Rests, Turn, CallsOK, CallOK
    <3> QED BY <1>1, <3>1
  <2> QED
    BY <2>2, <2>3, <2>4, <2>5, <2>6, <2>7, <2>8, StepKinds DEF Calm, Passes, Marks
<1> QED BY <1>1, WalkRemoves DEF WalkOK, Own

-----------------------------------------------------------------------------
(* Whose window a program removes *)

Strayed(t) == why[t] \in {"closed", "taken"}

(* The program may destroy a window by the number it has. *)
InHand(t) ==
    /\ state[t] # "over"
    /\ \/ pc[t].op \in {"idle", "got", "minimize", "picture"}
       \/ pc[t].op = "charge" /\ pc[t].by = "minimize"
       \/ pc[t].op \in {"remove", "unlink"} /\ pc[t].by \in Destroyers

Owns(t) == Strayed(t) \/ (\E s \in Slot : win[s] = t) \/ id[t] = 0

StrayOne(t) ==
    /\ InHand(t) => Owns(t)
    /\ pc[t].op \in {"remove", "unlink", "free", "freeing"} /\ pc[t].by = "exit" => Strayed(t)

StrayOK == \A t \in Tasks : StrayOne(t)

LEMMA StrayStep ==
  ASSUME StrayOK, NEW t \in Tasks, OnlyOf(t), StrayOne(t)',
         \A u \in Tasks \ {t} :
            /\ why'[u] \in {why[u], "taken"} /\ id'[u] = id[u]
            /\ \A s \in Slot : win[s] = u => win'[s] = u \/ why'[u] = "taken"
  PROVE  StrayOK'
<1>1. ASSUME NEW u \in Tasks, u # t
      PROVE  StrayOne(u)'
  <2>1. /\ pc'[u] = pc[u] /\ state'[u] = state[u] /\ StrayOne(u)
        /\ why'[u] \in {why[u], "taken"} /\ id'[u] = id[u]
        /\ \A s \in Slot : win[s] = u => win'[s] = u \/ why'[u] = "taken"
    BY <1>1 DEF StrayOK, OnlyOf
  <2>2. Strayed(u) => Strayed(u)'
    BY <2>1 DEF Strayed
  <2>3. Owns(u) => Owns(u)'
    BY <2>1, <2>2 DEF Owns, Strayed
  <2> QED BY <2>1, <2>2, <2>3 DEF StrayOne, InHand
<1> QED BY <1>1 DEF StrayOK

LEMMA StrayCalm ==
  ASSUME TypeOK, CallsOK, StrayOK, NEW t \in Tasks, Calm(t)
  PROVE  StrayOK'
<1>0. /\ UNCHANGED <<win, id>> /\ OnlyOf(t) /\ CallOK(t) /\ StrayOne(t) /\ state[t] # "over"
      /\ \A u \in Tasks : why'[u] \in {why[u], "closed"}
      /\ \A u \in Tasks \ {t} : why'[u] = why[u]
  <2>1. why' = why \/ why' = [why EXCEPT ![t] = "closed"]
    BY CallsUpSteps, PassesSteps
       DEF Calm, AllocBuf, Charge, MinimizeWindow, TakePicture, MinimizeFails, FreeBuf,
           Freed, EndProcess, Walk
  <2>2. \A u \in Tasks : why'[u] \in {why[u], "closed"} /\ (u # t => why'[u] = why[u])
    BY <2>1 DEF TypeOK
  <2> QED BY <2>2, CalmSteps DEF SameTable, Runs, CallsOK, StrayOK
<1> SUFFICES StrayOne(t)'
  BY <1>0, StrayStep
<1>1. (Strayed(t) => Strayed(t)') /\ (Owns(t) => Owns(t)')
  BY <1>0 DEF Strayed, Owns
<1>2. ASSUME ~(InHand(t)') \/ InHand(t), ~(pc'[t].op \in {"remove", "free", "freeing"}) \/ pc'[t].by # "exit"
      PROVE  StrayOne(t)'
  <2>1. pc'[t].op # "unlink"
    BY CalmSteps
  <2> QED BY <1>0, <1>1, <1>2, <2>1 DEF StrayOne
<1>3. CASE CallsUp(t)
  <2>1. UNCHANGED state /\ InHand(t)
    BY <1>0, <1>3, CallsUpSteps DEF InHand
  <2>2. CASE Turn(t, "remove", id[t], pc[t].from, "exit") /\ why' = [why EXCEPT ![t] = "closed"]
    <3>1. Strayed(t)'
      BY <2>2 DEF Strayed, TypeOK
    <3> QED BY <3>1 DEF StrayOne, Owns
  <2>3. CASE pc'[t].by # "exit" \/ pc'[t].op \notin {"remove", "free", "freeing"}
    BY <1>2, <2>1, <2>3
  <2> QED BY <1>3, <2>2, <2>3, CallsUpSteps DEF Goes, Rests, Turn
<1>4. CASE AllocBuf(t) \/ Charge(t) \/ MinimizeWindow(t) \/ TakePicture(t) \/ EndProcess(t)
  <2>1. pc'[t].op \in {"charge", "find", "picture", "walk"}
    BY <1>4, DrawTurns, KeyTurns DEF Goes, Turn
  <2>2. InHand(t)' => InHand(t)
    <3>1. CASE AllocBuf(t)
      <4>1. pc[t].op = "alloc" /\ Goes(t, "charge")
        BY <3>1, DrawTurns DEF AllocBuf, At
      <4> QED BY <1>0, <4>1 DEF Goes, Turn, InHand, CallOK
    <3>2. CASE MinimizeWindow(t) \/ TakePicture(t)
      BY <1>0, <3>2 DEF MinimizeWindow, TakePicture, At, InHand
    <3>3. CASE Charge(t) \/ EndProcess(t)
      BY <3>3, DrawTurns, KeyTurns DEF Goes, Turn, InHand
    <3> QED BY <1>4, <3>1, <3>2, <3>3
  <2> QED BY <1>2, <2>1, <2>2
<1>5. CASE MinimizeFails(t)
  <2>1. pc[t].op = "picture" /\ Settles(t, "up")
    BY <1>5, KeyTurns DEF MinimizeFails, At
  <2> QED BY <1>0, <1>2, <2>1 DEF Settles, Rests, Turn, InHand
<1>6. ASSUME Settles(t, "over")
      PROVE  StrayOne(t)'
  BY <1>6 DEF Settles, Rests, Turn, StrayOne, InHand
<1>7. CASE Passes(t)
  <2>1. pc[t].op = "remove" /\ Removed(t)
    BY <1>7, PassesSteps
  <2>2. CASE Goes(t, "free")
    BY <1>0, <1>1, <2>1, <2>2 DEF Goes, Turn, StrayOne, InHand
  <2>3. CASE Goes(t, "walk")
    BY <2>3 DEF Goes, Turn, StrayOne, InHand
  <2> QED BY <1>6, <2>1, <2>2, <2>3, RemovedTurns
<1>8. CASE FreeBuf(t)
  <2>1. pc[t].op = "free" /\ Goes(t, "freeing")
    BY <1>8, EndTurns DEF FreeBuf, At
  <2> QED BY <1>0, <1>1, <2>1 DEF Goes, Turn, StrayOne, InHand
<1>9. CASE Freed(t)
  <2>1. pc[t].op = "freeing" /\ pc[t].by \in Destroyers
    BY <1>0, <1>9 DEF Freed, At, CallOK
  <2>2. PICK o \in {"end", "alloc", "idle"} :
          Turn(t, o, 0, 0, "open") /\ (o = "idle" <=> pc[t].by = "exit")
    BY <1>9, <2>1, EndTurns DEF Destroyers
  <2> QED BY <1>0, <1>1, <2>1, <2>2 DEF Turn, StrayOne, InHand, Owns
<1>10. CASE Walk(t)
  <2>1. pc[t].op = "walk" /\ pc[t].by = "end"
    BY <1>0, <1>10 DEF Walk, At, CallOK
  <2>2. CASE Goes(t, "remove") \/ Turn(t, "walk", Before(pc[t].slot), pc[t].from, pc[t].by)
    BY <2>1, <2>2 DEF Goes, Turn, StrayOne, InHand, Destroyers
  <2> QED BY <1>6, <1>10, <2>2, EndTurns
<1> QED BY <1>3, <1>4, <1>5, <1>7, <1>8, <1>9, <1>10 DEF Calm

LEMMA StrayNext ==
  ASSUME TypeOK, LockOK, CallsOK, EntriesOK, StrayOK, [Next]_vars
  PROVE  StrayOK'
<1>1. CASE Still
  <2>1. UNCHANGED <<win, id, pc, why>> /\ \A t \in Tasks : state'[t] # "over" => state[t] # "over"
    BY <1>1 DEF Still, SameTable
  <2>2. ASSUME NEW t \in Tasks
        PROVE  StrayOne(t)'
    BY <2>1 DEF StrayOK, StrayOne, InHand, Owns, Strayed
  <2> QED BY <2>2 DEF StrayOK
<1>2. ASSUME NEW t \in Tasks, FindWindow(t) \/ NoFreeWindow(t)
      PROVE  StrayOK'
  <2>1. UNCHANGED win /\ OnlyOf(t)
    BY <1>2, OtherSteps DEF FindWindow, NoFreeWindow
  <2>2. CASE Goes(t, "insert") /\ UNCHANGED <<id, why>>
    <3>1. StrayOne(t)'
      BY <2>2 DEF Goes, Turn, StrayOne, InHand
    <3> QED BY <2>1, <2>2, <3>1, StrayStep
  <2>3. CASE Refused(t) /\ Settles(t, "up")
    <3>1. /\ id'[t] = 0 /\ \A u \in Tasks \ {t} : id'[u] = id[u] /\ why'[u] = why[u]
      BY <2>3 DEF Refused, NumberRefused, TypeOK
    <3>2. StrayOne(t)'
      BY <2>3, <3>1 DEF Settles, Rests, Turn, StrayOne, Owns
    <3> QED BY <2>1, <3>1, <3>2, StrayStep
  <2> QED BY <1>2, <2>2, <2>3, DrawTurns
<1>3. ASSUME NEW t \in Tasks, GetFreeWindow(t)
      PROVE  StrayOK'
  <2>1. PICK s \in Slot :
          /\ Turn(t, "link", s, pc[t].from, pc[t].by) /\ s \notin valid
          /\ win' = [win EXCEPT ![s] = t] /\ id' = [id EXCEPT ![t] = s]
    BY <1>3, DrawTurns
  <2>2. lock = None /\ UNCHANGED why /\ OnlyOf(t)
    BY <1>3, OtherSteps DEF GetFreeWindow, IsFree
  <2>3. win[s] = None /\ None \notin Tasks
    BY <2>1, <2>2, FreeMeansSettled, WindowsAssumption
  <2>4. \A u \in Tasks \ {t} : id'[u] = id[u] /\ \A r \in Slot : win[r] = u => win'[r] = u
    BY <2>1, <2>3 DEF TypeOK
  <2>5. StrayOne(t)'
    BY <2>1 DEF Turn, StrayOne, InHand
  <2> QED BY <2>2, <2>4, <2>5, StrayStep
<1>4. ASSUME NEW t \in Tasks, LinkWindow(t)
      PROVE  StrayOK'
  <2>1. /\ UNCHANGED <<win, id>> /\ Settles(t, "up") /\ OnlyOf(t)
    BY <1>4, OtherSteps, DrawTurns DEF LinkWindow
  <2>3. \A u \in Tasks \ {t} : why'[u] = why[u]
    BY <1>4 DEF LinkWindow, TypeOK
  <2>4. pc[t].slot \in Slot /\ win[pc[t].slot] = t
    BY <1>4 DEF LinkWindow, At, EntriesOK, TypeOK
  <2>2. StrayOne(t)'
    BY <2>1, <2>4 DEF Settles, Rests, Turn, StrayOne, Owns
  <2> QED BY <2>1, <2>2, <2>3, StrayStep
<1>5. ASSUME NEW t \in Tasks, Marks(t)
      PROVE  StrayOK'
  <2>1. UNCHANGED <<win, id, why, state>> /\ OnlyOf(t) /\ Goes(t, "unlink") /\ pc[t].op = "remove"
    BY <1>5, OtherSteps, EndTurns DEF Marks, RemoveWindow, At
  <2>2. StrayOne(t)'
    BY <2>1 DEF Goes, Turn, StrayOK, StrayOne, InHand, Owns, Strayed
  <2> QED BY <2>1, <2>2, StrayStep
<1>6. ASSUME NEW t \in Tasks, UnlinkWindow(t)
      PROVE  StrayOK'
  <2> DEFINE s == pc[t].slot
  <2>1. /\ win' = [win EXCEPT ![s] = None] /\ id' = id /\ Removed(t) /\ OnlyOf(t)
        /\ why' = IF win[s] = t THEN why ELSE [why EXCEPT ![win[s]] = "taken"]
        /\ pc[t].op = "unlink"
    BY <1>6, OtherSteps DEF UnlinkWindow, At
  <2>2. \A u \in Tasks \ {t} :
           /\ why'[u] \in {why[u], "taken"}
           /\ \A r \in Slot : win[r] = u => win'[r] = u \/ why'[u] = "taken"
    BY <2>1 DEF TypeOK
  <2>3. why'[t] = why[t]
    BY <2>1 DEF TypeOK
  <2>4. StrayOne(t)'
    <3>1. CASE Settles(t, "over")
      BY <3>1 DEF Settles, Rests, Turn, StrayOne, InHand
    <3>2. CASE Goes(t, "walk")
      BY <3>2 DEF Goes, Turn, StrayOne, InHand
    <3>3. CASE Goes(t, "free")
      BY <2>1, <2>3, <3>3 DEF Goes, Turn, StrayOne, InHand, StrayOK, Strayed
    <3> QED BY <2>1, <3>1, <3>2, <3>3, RemovedTurns
  <2> QED BY <2>1, <2>2, <2>4, StrayStep
<1> QED BY <1>1, <1>2, <1>3, <1>4, <1>5, <1>6, StepKinds, StrayCalm

(* A listed window stays listed until its entry is unlinked. *)
LEMMA ListedNext ==
  ASSUME TypeOK, LockOK, EntriesOK, NEW w \in Tasks, Listed(w), [Next]_vars
  PROVE  Listed(w)' \/ \E t \in Tasks : UnlinkWindow(t) /\ win[pc[t].slot] = w
<1>0. PICK i \in 1 .. Len(order) : win[order[i]] = w
  BY DEF Listed
<1>1. /\ order \in Seq(Slot) /\ Len(order) \in Nat /\ order[i] \in Slot
      /\ Has(order, order[i])
  BY RingFacts
<1>2. ASSUME Has(order', order[i]), win'[order[i]] = w
      PROVE  Listed(w)'
  BY <1>2 DEF Has, Listed
<1>3. ASSUME UNCHANGED <<order, win>>
      PROVE  Listed(w)'
  BY <1>1, <1>0, <1>2, <1>3
<1>4. ASSUME NEW t \in Tasks, GetFreeWindow(t)
      PROVE  Listed(w)'
  <2>1. PICK s \in Slot : s \notin valid /\ win' = [win EXCEPT ![s] = t]
    BY <1>4, DrawTurns
  <2>2. lock = None /\ UNCHANGED order
    BY <1>4 DEF GetFreeWindow, IsFree
  <2>3. order[i] # s
    BY <1>1, <2>1, <2>2, FreeMeansSettled
  <2>4. win'[order[i]] = win[order[i]]
    BY <1>1, <2>1, <2>3 DEF TypeOK
  <2> QED BY <1>0, <1>1, <1>2, <2>2, <2>4
<1>5. ASSUME NEW t \in Tasks, LinkWindow(t)
      PROVE  Listed(w)'
  <2>1. /\ pc[t].slot \in Slot /\ UNCHANGED win
        /\ order' = Append(order, pc[t].slot)
    BY <1>5 DEF LinkWindow, At, EntriesOK, TypeOK
  <2>2. Has(order', order[i])
    BY <1>1, <2>1, RingGrows
  <2> QED BY <1>0, <1>2, <2>1, <2>2
<1>6. ASSUME NEW t \in Tasks, UnlinkWindow(t), win[pc[t].slot] # w
      PROVE  Listed(w)'
  <2>1. PICK j \in 1 .. Len(order) : order[j] = pc[t].slot /\ order' = RemoveAt(order, j)
    BY <1>6 DEF UnlinkWindow
  <2>2. win' = [win EXCEPT ![pc[t].slot] = None] /\ order[i] # pc[t].slot
    BY <1>0, <1>6 DEF UnlinkWindow
  <2>3. Has(order', order[i])
    BY <1>1, <2>1, <2>2, RingShrinks DEF EntriesOK
  <2>4. win'[order[i]] = win[order[i]]
    BY <1>1, <2>2 DEF TypeOK
  <2> QED BY <1>0, <1>2, <2>3, <2>4
<1>7. CASE Still
  BY <1>3, <1>7 DEF Still, SameTable
<1>8. ASSUME NEW t \in Tasks, Calm(t)
      PROVE  Listed(w)'
  <2>1. UNCHANGED <<order, win>>
    BY <1>8, CalmSteps DEF SameTable
  <2> QED BY <1>3, <2>1
<1>9. ASSUME NEW t \in Tasks, FindWindow(t) \/ NoFreeWindow(t) \/ Marks(t)
      PROVE  Listed(w)'
  <2>1. UNCHANGED <<order, win>>
    BY <1>9 DEF FindWindow, NoFreeWindow, Marks, RemoveWindow
  <2> QED BY <1>3, <2>1
<1> QED BY <1>4, <1>5, <1>6, <1>7, <1>8, <1>9, StepKinds

(* A window is unlinked by its own program, by one that has a number it should
   not have, or by a walk that lost its place. *)
LEMMA UnlinkIsOwn ==
  ASSUME TypeOK, CallsOK, EntriesOK, OnceOK, StrayOK, WalkOK, NEW t \in Tasks, UnlinkWindow(t)
  PROVE  pc[t].op = "unlink" /\ Runs(t)
         /\ (win[pc[t].slot] = t \/ Strayed(t) \/ t \in cut)
<1>1. /\ pc[t].op = "unlink" /\ Runs(t) /\ CallOK(t)
      /\ pc[t].slot \in Slot /\ win[pc[t].slot] # None
  BY DEF UnlinkWindow, At, CallsOK, EntriesOK
<1>2. CASE pc[t].by = "end"
  BY <1>1, <1>2 DEF WalkOK
<1>3. CASE pc[t].by \in Destroyers
  <2>1. pc[t].slot = id[t]
    BY <1>1, <1>3 DEF OnceOK
  <2>2. InHand(t)
    BY <1>1, <1>3 DEF InHand, Runs
  <2>3. Strayed(t) \/ (\E s \in Slot : win[s] = t) \/ id[t] = 0
    BY <2>2 DEF StrayOK, StrayOne, Owns
  <2>4. id[t] # 0
    BY <1>1, <2>1, WindowsAssumption DEF Slot
  <2>5. ASSUME NEW s \in Slot, win[s] = t
        PROVE  win[pc[t].slot] = t
    BY <2>1, <2>5, WindowsAssumption DEF OnceOK
  <2> QED BY <1>1, <2>3, <2>4, <2>5
<1> QED BY <1>1, <1>2, <1>3 DEF CallOK

(* The walk ends when it has come to every entry of its process. *)
LEMMA WalkClears ==
  ASSUME TypeOK, CallsOK, EntriesOK, OnceOK, WalkOK, [Next]_vars,
         NEW t \in Tasks, state[t] # "over", state'[t] = "over", t \notin cut,
         NEW k \in 1 .. Len(order), Own(t, order[k])
  PROVE  FALSE
<1>0. /\ Len(order) \in Nat
      /\ \A i \in 1 .. Len(order) : order[i] # 0
      /\ \A i, j \in 1 .. Len(order) : order[i] = order[j] => i = j
  BY RingFacts
<1>1. ASSUME NEW u \in Tasks, Removed(u),
             (RemoveWindow(u) /\ pc[u].slot \notin valid) \/ UnlinkWindow(u)
      PROVE  FALSE
  <2>1. Settles(u, "over") \/ UNCHANGED state
    BY <1>1, RemovedTurns
  <2>2. u = t /\ pc[t].by = "end"
    BY <1>1, <2>1, RemovedTurns DEF Settles
  <2>3. pc[t].op \in {"remove", "unlink"}
    BY <1>1, <2>2 DEF RemoveWindow, UnlinkWindow, At
  <2>4. pc[t].slot \in valid /\ pc[t].op = "remove"
    BY <2>2, <2>3, FoundIsOnly
  <2> QED BY <1>1, <2>2, <2>4 DEF UnlinkWindow, At
<1>2. ASSUME NEW u \in Tasks, Walk(u)
      PROVE  FALSE
  <2>1. /\ Settles(u, "over")
        /\ pc[u].slot # 0 => ~Own(u, pc[u].slot) /\ Before(pc[u].slot) \in {0, pc[u].from}
    BY <1>2, EndTurns
  <2>2. u = t
    BY <2>1 DEF Settles
  <2>3. pc[t].by = "end"
    BY <1>2, <2>2 DEF Walk, At, CallsOK, CallOK
  <2>4. PICK i \in 1 .. Len(order) :
          /\ order[i] = pc[t].slot /\ k <= i
          /\ \A f \in 1 .. Len(order) : order[f] = pc[t].from => i <= f
    BY <2>3 DEF WalkOK, Ahead
  <2>5. ~Own(t, order[i]) /\ Before(order[i]) \in {0, pc[t].from}
    BY <1>0, <2>1, <2>2, <2>4
  <2>6. i # 1 /\ i - 1 \in 1 .. Len(order)
    BY <1>0, <2>4, <2>5
  <2>7. Before(order[i]) = order[i - 1]
    BY <1>0, <2>6, BeforeIndex
  <2> QED BY <1>0, <2>4, <2>5, <2>6, <2>7
<1>3. ASSUME NEW u \in Tasks, Settles(u, "up")
      PROVE  FALSE
  BY <1>3 DEF Settles
<1>4. CASE UNCHANGED state
  BY <1>4
<1>5. CASE Still
  <2>1. state'[t] \in {state[t], "killed"}
    BY <1>5 DEF Still
  <2> QED BY <2>1
<1>6. ASSUME NEW u \in Tasks, Calm(u)
      PROVE  FALSE
  <2>1. CASE CallsUp(u)
    BY <1>4, <2>1, CallsUpSteps
  <2>2. CASE \/ AllocBuf(u) \/ Charge(u) \/ MinimizeWindow(u) \/ TakePicture(u)
             \/ FreeBuf(u) \/ Freed(u) \/ EndProcess(u)
    BY <1>4, <2>2 DEF AllocBuf, Charge, MinimizeWindow, TakePicture, FreeBuf, Freed, EndProcess
  <2>3. CASE MinimizeFails(u)
    BY <1>3, <2>3, KeyTurns
  <2>4. CASE Passes(u)
    BY <1>1, <2>4, PassesSteps DEF Passes
  <2> QED BY <1>2, <1>6, <2>1, <2>2, <2>3, <2>4 DEF Calm
<1>7. ASSUME NEW u \in Tasks,
             FindWindow(u) \/ NoFreeWindow(u) \/ GetFreeWindow(u) \/ LinkWindow(u) \/ Marks(u)
      PROVE  FALSE
  <2>1. Settles(u, "up") \/ UNCHANGED state
    BY <1>7, DrawTurns, EndTurns DEF GetFreeWindow, Marks
  <2> QED BY <1>3, <1>4, <2>1
<1>8. ASSUME NEW u \in Tasks, UnlinkWindow(u)
      PROVE  FALSE
  <2>1. Removed(u)
    BY <1>8 DEF UnlinkWindow
  <2> QED BY <1>1, <1>8, <2>1
<1> QED BY <1>5, <1>6, <1>7, <1>8, StepKinds

-----------------------------------------------------------------------------
(* The desktop, and what killed tasks left of theirs *)

LEMMA InitTable ==
  ASSUME Init
  PROVE  /\ \A i, j \in 1 .. Len(order) : order[i] = order[j] => i = j
         /\ \A s \in Slot : (s \in valid <=> Has(order, s)) /\ (s \in valid <=> win[s] # None)
         /\ \A r, s \in Slot : win[r] = win[s] /\ win[r] # None => r = s
<1>1. PICK n \in 0 .. Len(Left) :
         /\ order = [s \in 1 .. n + 1 |-> s]
         /\ valid = 1 .. n + 1
         /\ win = [s \in Slot |->
                CASE s = 1 -> Desk [] s \in 2 .. n + 1 -> Left[s - 1] [] OTHER -> None]
  BY DEF Init
<1>2. /\ n \in Nat /\ n + 1 \in Nat /\ Slots \in Nat /\ n + 1 <= Slots
      /\ Left \in Seq(Tasks \ {Desk}) /\ Desk \in Tasks /\ None \notin Tasks
  BY WindowsAssumption, LenProperties
<1>3. Len(order) = n + 1
  BY <1>1, <1>2, IsASeq
<1>4. ASSUME NEW s \in Slot
      PROVE  /\ s = 1 => win[s] = Desk
             /\ s \in 2 .. n + 1 =>
                   win[s] = Left[s - 1] /\ s - 1 \in 1 .. Len(Left) /\ win[s] \in Tasks \ {Desk}
             /\ s \notin 1 .. n + 1 => win[s] = None
  <2>1. CASE s = 1
    BY <1>1, <1>2, <2>1
  <2>2. CASE s \in 2 .. n + 1
    <3>1. s - 1 \in 1 .. Len(Left)
      BY <1>2, <2>2
    <3>2. Left[s - 1] \in Tasks \ {Desk}
      BY <1>2, <3>1, ElementOfSeq
    <3>3. s # 1
      BY <1>2, <2>2
    <3> QED BY <1>1, <2>2, <3>1, <3>2, <3>3
  <2>3. CASE s # 1 /\ s \notin 2 .. n + 1
    <3>1. s \notin 1 .. n + 1
      BY <1>2, <2>3 DEF Slot
    <3> QED BY <1>1, <2>3, <3>1
  <2> QED BY <2>1, <2>2, <2>3
<1>5. \A s \in Slot : (s \in valid <=> Has(order, s)) /\ (s \in valid <=> win[s] # None)
  <2> SUFFICES ASSUME NEW s \in Slot
               PROVE  (s \in valid <=> Has(order, s)) /\ (s \in valid <=> win[s] # None)
    OBVIOUS
  <2>1. s \in valid <=> Has(order, s)
    BY <1>1, <1>2, <1>3 DEF Has
  <2>2. s \in valid <=> s = 1 \/ s \in 2 .. n + 1
    BY <1>1, <1>2
  <2> QED BY <1>1, <1>2, <1>4, <2>1, <2>2
<1>6. ASSUME NEW r \in Slot, NEW s \in Slot, win[r] = win[s], win[r] # None
      PROVE  r = s
  <2>1. r \in 1 .. n + 1 /\ s \in 1 .. n + 1
    BY <1>4, <1>6
  <2>2. CASE r = 1 \/ s = 1
    BY <1>2, <1>4, <1>6, <2>1, <2>2
  <2>3. CASE r # 1 /\ s # 1
    <3>1. r \in 2 .. n + 1 /\ s \in 2 .. n + 1
      BY <1>2, <2>1, <2>3
    <3>2. Left[r - 1] = Left[s - 1] /\ r - 1 \in DOMAIN Left /\ s - 1 \in DOMAIN Left
      BY <1>2, <1>4, <1>6, <3>1, LenProperties
    <3>3. r - 1 = s - 1
      BY <3>2, WindowsAssumption
    <3> QED BY <1>2, <3>1, <3>3
  <2> QED BY <2>2, <2>3
<1>7. \A i, j \in 1 .. Len(order) : order[i] = order[j] => i = j
  BY <1>1, <1>3
<1> QED BY <1>5, <1>6, <1>7

(* The parts are inductive only together: the ring and the table agree because
   the lock is held between the halves of a change, a number is its entry's
   because they agree, and the names, the walk and what a program may remove
   rest on the table and the numbers. *)
IInv ==
    /\ TypeOK /\ LockOK /\ CallsOK /\ EntriesOK /\ OnceOK
    /\ ListLockOK /\ NamesOK /\ StrayOK /\ WalkOK

(* The windows that are there at first *)
LEMMA InitOwners ==
  ASSUME Init, NEW w \in Tasks, NEW s \in Slot, win[s] = w
  PROVE  w \in ToSet(Left) \cup {Desk}
<1>1. s \in 1 .. Slots /\ Len(Left) \in Nat /\ None \notin Tasks
  BY WindowsAssumption, LenProperties DEF Slot
<1>2. PICK n \in 0 .. Len(Left) : win = [r \in Slot |->
              CASE r = 1 -> Desk [] r \in 2 .. n + 1 -> Left[r - 1] [] OTHER -> None]
  BY DEF Init
<1>3. CASE s = 1
  BY <1>2, <1>3
<1>4. CASE s \in 2 .. n + 1
  <2>1. s - 1 \in 1 .. Len(Left) /\ s # 1
    BY <1>1, <1>2, <1>4
  <2>2. DOMAIN Left = 1 .. Len(Left)
    BY WindowsAssumption, LenProperties
  <2>3. w = Left[s - 1]
    BY <1>2, <1>4, <2>1
  <2> QED BY <2>1, <2>2, <2>3 DEF ToSet
<1>5. CASE s # 1 /\ s \notin 2 .. n + 1
  BY <1>1, <1>2, <1>5
<1> QED BY <1>3, <1>4, <1>5

LEMMA InitNames ==
  ASSUME Init
  PROVE  NamesOK
<1> SUFFICES ASSUME NEW x \in Tasks, NEW y \in Tasks, Present(x), Present(y), x # y,
                    name[x] = name[y]
             PROVE  FALSE
  BY DEF NamesOK
<1>1. ASSUME NEW w \in Tasks, Present(w)
      PROVE  w \in ToSet(Left) \cup {Desk}
  <2>1. PICK s \in Slot : win[s] = w
    BY <1>1 DEF Present, Init, Idle
  <2> QED BY <2>1, InitOwners
<1>2. name \in Namings /\ x \in ToSet(Left) \cup {Desk} /\ y \in ToSet(Left) \cup {Desk}
  BY <1>1 DEF Init
<1> QED BY <1>2, WindowsAssumption

LEMMA InitInvariant == Init => IInv
<1> SUFFICES ASSUME Init PROVE IInv
  OBVIOUS
<1>1. TypeOK /\ Desk \in Tasks /\ None \notin Tasks /\ CpuOf \in [Tasks -> Cpus]
  BY InitType, WindowsAssumption
<1>2. \A t \in Tasks : pc[t].op = "idle" /\ pc[t].by = "open"
  BY DEF Init, Idle
<1>3. LockOK /\ Moving = {}
  BY <1>1, <1>2 DEF Init, LockOK, Moving
<1>4. CallsOK
  BY <1>1, <1>2 DEF Init, CallsOK, CallOK
<1>5. EntriesOK
  BY <1>2, <1>3, InitTable DEF EntriesOK
<1>6. \A t \in Tasks : id[t] = IF \E s \in Slot : win[s] = t
                                THEN CHOOSE s \in Slot : win[s] = t ELSE 0
  BY DEF Init
<1>7. OnceOK
  <2>1. ASSUME NEW s \in Slot, win[s] # None
        PROVE  id[win[s]] = s
    <3>1. win[s] \in Tasks
      BY <1>1, <2>1 DEF TypeOK
    <3>2. id[win[s]] = CHOOSE r \in Slot : win[r] = win[s]
      BY <1>6, <3>1
    <3> QED BY <2>1, <3>2, InitTable
  <2>2. ASSUME NEW t \in Tasks, Bare(t), NEW s \in Slot, win[s] = t
        PROVE  FALSE
    <3>1. state[t] = "new"
      BY <1>2, <2>2 DEF Bare
    <3>2. t \notin ToSet(Left) \cup {Desk}
      BY <3>1 DEF Init
    <3> QED BY <2>2, <3>2, InitOwners
  <2> QED BY <1>2, <2>1, <2>2, InitTable DEF OnceOK
<1>8. ListLockOK
  BY <1>1, <1>2 DEF Init, ListLockOK, Holds
<1>9. WalkOK
  BY <1>2 DEF WalkOK
<1>10. StrayOK
  BY <1>2, <1>6 DEF StrayOK, StrayOne, InHand, Owns
<1> QED BY <1>1, <1>3, <1>4, <1>5, <1>7, <1>8, <1>9, <1>10, InitNames DEF IInv

LEMMA NextInvariant ==
  ASSUME IInv, [Next]_vars
  PROVE  IInv'
<1>1. TypeOK'
  BY NextKeepsType DEF IInv
<1>2. LockOK' /\ CallsOK' /\ OnceOK'
  BY LockNext, CallsNext, OnceNext DEF IInv
<1>3. EntriesOK'
  BY <1>2, EntriesNext DEF IInv
<1>4. ListLockOK' /\ NamesOK' /\ StrayOK'
  BY ListLockNext, NamesNext, StrayNext DEF IInv
<1>5. WalkOK'
  BY <1>2, WalkNext DEF IInv
<1> QED BY <1>1, <1>2, <1>3, <1>4, <1>5 DEF IInv

LEMMA Invariant == Spec => []IInv
<1>1. IInv /\ [Next]_vars => IInv'
  BY NextInvariant
<1> QED BY <1>1, InitInvariant, PTL DEF Spec

LEMMA RingHasWindows ==
  ASSUME IInv, NEW i \in 1 .. Len(order)
  PROVE  order[i] \in Slot /\ win[order[i]] \in Tasks
<1>1. order[i] \in Slot
  BY ElementOfSeq DEF IInv, TypeOK
<1>2. win[order[i]] # None
  <2>1. Has(order, order[i])
    BY DEF Has
  <2>2. CASE order[i] \in Moving
    <3>1. PICK t \in Tasks : lock = t /\ order[i] = pc[t].slot
      BY <2>2 DEF Moving
    <3>2. pc[t].op \in {"link", "unlink"}
      BY <3>1 DEF IInv, LockOK
    <3> QED BY <2>1, <3>1, <3>2 DEF IInv, EntriesOK
  <2>3. CASE order[i] \notin Moving
    BY <1>1, <2>1, <2>3 DEF IInv, EntriesOK
  <2> QED BY <2>2, <2>3
<1> QED BY <1>1, <1>2 DEF IInv, TypeOK

-----------------------------------------------------------------------------
(* Table and ring agree: InsertWindow and RemoveWindow leave them so whatever
   numbers RemoveWindow is given, since one task at a time is between the two
   halves of a change, and it alone knows the entry that moves. *)
THEOREM TableStaysList == Spec => []TableIsList
<1>1. IInv => TableIsList
  BY DEF IInv, EntriesOK, TableIsList, Has
<1> QED BY <1>1, Invariant, PTL

(* The number of a listed window is its entry's, so isTopWindow never lets a
   program whose window is listed take a key that is not for it, whoever
   removed and inserted windows meanwhile. *)
THEOREM KeysStayOwners == Spec => []KeysReachOwner
<1>1. ASSUME IInv
      PROVE  KeysReachOwner
  <2> SUFFICES ASSUME NEW i \in 1 .. Len(order)
               PROVE  id[win[order[i]]] = order[i]
    BY DEF KeysReachOwner
  <2>1. order[i] \in Slot /\ win[order[i]] # None
    BY <1>1, RingHasWindows, WindowsAssumption
  <2> QED BY <1>1, <2>1 DEF IInv, OnceOK
<1> QED BY <1>1, Invariant, PTL

(* Who waits for ever for g_window_lock, gMemAllocLock or the task-list lock
   of its CPU waits, at last, for a holder of one of the first two that was
   killed, that was interrupted by a task which has the task-list lock of
   their CPU and waits too, or that minimizes its window and waits for the
   task-list lock it holds itself (window.cpp:498, 511). *)
THEOREM OnlyHoldersStall == Spec => []WaitsEnd
<1>1. IInv => WaitsEnd
  BY WaitersStand DEF IInv
<1> QED BY <1>1, Invariant, PTL

(* Two windows of one name are in the ring only if InsertWindow found the name
   of one free while the other had been looked up but not yet inserted. *)
THEOREM NamesStayApart == Spec => []OneOfAName
<1>1. ASSUME IInv
      PROVE  OneOfAName
  <2> SUFFICES ASSUME NEW i \in 1 .. Len(order), NEW j \in 1 .. Len(order), i < j,
                      name[win[order[i]]] = name[win[order[j]]]
               PROVE  {win[order[i]], win[order[j]]} \cap raced # {}
    BY DEF OneOfAName
  <2>1. /\ order[i] \in Slot /\ win[order[i]] \in Tasks
        /\ order[j] \in Slot /\ win[order[j]] \in Tasks
    BY <1>1, RingHasWindows
  <2>2. order[i] # order[j]
    <3>1. i \in Nat /\ j \in Nat
      BY <1>1, LenProperties DEF IInv, TypeOK
    <3>2. i # j
      BY <3>1
    <3> QED BY <1>1, <3>2 DEF IInv, EntriesOK
  <2>3. win[order[i]] # win[order[j]]
    BY <1>1, <2>1, <2>2, WindowsAssumption DEF IInv, OnceOK
  <2>4. Present(win[order[i]]) /\ Present(win[order[j]])
    BY <2>1 DEF Present
  <2> QED BY <1>1, <2>1, <2>3, <2>4 DEF IInv, NamesOK
<1> QED BY <1>1, Invariant, PTL

(* A window is taken out of the ring by its own program; by another only if
   that one went on after its window was gone, as a console does after "exit"
   (cmd.cpp:404-408), or walked on from an entry that was removed. *)
THEOREM StraysAlone == Spec => OnlyStraysClose
<1>1. ASSUME IInv, [Next]_vars
      PROVE  \A w \in Tasks : Listed(w) /\ ~Listed(w)' =>
                \E t \in Tasks : At(t, "unlink") /\
                   (t = w \/ why[t] \in {"closed", "taken"} \/ t \in cut)
  <2> SUFFICES ASSUME NEW w \in Tasks, Listed(w), ~Listed(w)'
               PROVE  \E t \in Tasks : At(t, "unlink") /\
                         (t = w \/ why[t] \in {"closed", "taken"} \/ t \in cut)
    OBVIOUS
  <2>1. PICK t \in Tasks : UnlinkWindow(t) /\ win[pc[t].slot] = w
    BY <1>1, ListedNext DEF IInv
  <2>2. pc[t].op = "unlink" /\ Runs(t) /\ (w = t \/ Strayed(t) \/ t \in cut)
    BY <1>1, <2>1, UnlinkIsOwn DEF IInv
  <2> QED BY <2>2 DEF At, Strayed
<1>2. IInv /\ [Next]_vars =>
        [\A w \in Tasks : Listed(w) /\ ~Listed(w)' =>
            \E t \in Tasks : At(t, "unlink") /\
               (t = w \/ why[t] \in {"closed", "taken"} \/ t \in cut)]_vars
  BY <1>1
<1> QED BY <1>2, Invariant, PTL DEF Spec, OnlyStraysClose

(* DestroyProcessWindow leaves no window of the process that ends, however the
   ring changes while it walks it, unless the entry under it is removed. *)
THEOREM WalkEndsClear == Spec => EndClears
<1>1. ASSUME IInv, [Next]_vars
      PROVE  \A t \in Tasks : state[t] # "over" /\ state'[t] = "over" =>
                ~(\E s \in ToSet(order) : Own(t, s)) \/ t \in cut
  <2> SUFFICES ASSUME NEW t \in Tasks, state[t] # "over", state'[t] = "over", t \notin cut,
                      NEW s \in ToSet(order), Own(t, s)
               PROVE  FALSE
    OBVIOUS
  <2>1. PICK k \in 1 .. Len(order) : order[k] = s
    <3>1. DOMAIN order = 1 .. Len(order)
      BY <1>1, LenProperties DEF IInv, TypeOK
    <3> QED BY <3>1 DEF ToSet
  <2> QED BY <1>1, <2>1, WalkClears DEF IInv
<1>2. IInv /\ [Next]_vars =>
        [\A t \in Tasks : state[t] # "over" /\ state'[t] = "over" =>
            ~(\E s \in ToSet(order) : Own(t, s)) \/ t \in cut]_vars
  BY <1>1
<1> QED BY <1>2, Invariant, PTL DEF Spec, EndClears

=============================================================================
