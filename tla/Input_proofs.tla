------------------------------ MODULE Input_proofs ------------------------------
(***************************************************************************)
(* That no entry is put or taken behind a ring holds for any tasks,         *)
(* devices, entries and any length of a ring.  An index may stand behind    *)
(* the ring only between the two assignments that move it on; whoever is    *)
(* between them holds the lock, but for the handler with a key of the       *)
(* number pad, and then two actors are in the middle of putting.            *)
(***************************************************************************)
EXTENDS Input, SequenceTheorems, FiniteSetTheorems, TLAPS

InPut == Putting \ {"put"}

(* Who has moved the tail or puts with the lock holds it. *)
Holds ==
    \A a \in Actors :
        pc[a].op = "taken" \/ (pc[a].op \in InPut /\ pc[a].by # "pad") =>
            lock[pc[a].dev] = a

(* An index is behind the ring only while somebody is about to move it back. *)
TailBack == \A d \in Devices : tail[d] < Size \/ \E a \in Actors : pc[a].op = "taken" /\ pc[a].dev = d

HeadBack == \A d \in Devices : hdr[d] < Size \/ \E a \in Actors : pc[a].op = "wrap" /\ pc[a].dev = d

(* Two that put at once are known to have crossed. *)
Alone ==
    \A a, b \in Actors :
        a # b /\ pc[a].op \in InPut /\ pc[b].op \in InPut /\ pc[a].dev = pc[b].dev =>
            pc[a].dev \in spoilt

IInv == TypeOK /\ Holds /\ TailBack /\ HeadBack /\ Alone

LEMMA InvImplies == IInv => InRing
<1> SUFFICES ASSUME IInv, NEW a \in Actors
             PROVE  /\ pc[a].op = "write" => hdr[pc[a].dev] < Size \/ pc[a].dev \in spoilt
                    /\ pc[a].op = "take" /\ lock[pc[a].dev] = None => tail[pc[a].dev] < Size
  BY DEF InRing, IInv
<1>1. pc[a].dev \in Devices
  BY DEF IInv, TypeOK, Call
<1>2. ASSUME pc[a].op = "write" PROVE hdr[pc[a].dev] < Size \/ pc[a].dev \in spoilt
  <2>1. CASE \E b \in Actors : pc[b].op = "wrap" /\ pc[b].dev = pc[a].dev
    BY <2>1, <1>2 DEF IInv, Alone, InPut, Putting
  <2> QED BY <2>1, <1>1 DEF IInv, HeadBack
<1>3. ASSUME pc[a].op = "take", lock[pc[a].dev] = None PROVE tail[pc[a].dev] < Size
  <2>1. CASE \E b \in Actors : pc[b].op = "taken" /\ pc[b].dev = pc[a].dev
    <3>1. None \notin Actors
      BY InputAssumption DEF Actors
    <3> QED BY <2>1, <3>1, <1>3 DEF IInv, Holds
  <2> QED BY <2>1, <1>1 DEF IInv, TailBack
<1> QED BY <1>2, <1>3

LEMMA IdleTyped == Idle \in Call /\ Idle.op = "idle"
<1>1. 0 \in 0 .. Size + 1
  BY InputAssumption
<1> QED BY <1>1, InputAssumption DEF Idle, Call

LEMMA InitHolds == Init => IInv
<1> SUFFICES ASSUME Init PROVE IInv
  OBVIOUS
<1>1. Idle \in Call /\ Idle.op = "idle" /\ 0 < Size /\ 0 \in 0 .. Size - 1
  BY IdleTyped, InputAssumption
<1>2. TypeOK
  BY <1>1, InputAssumption DEF Init, TypeOK, Actors
<1>3. \A a \in Actors : pc[a].op = "idle"
  BY <1>1 DEF Init
<1>4. Holds /\ Alone
  BY <1>3 DEF Holds, Alone, InPut, Putting
<1>5. TailBack /\ HeadBack
  BY <1>1 DEF Init, TailBack, HeadBack
<1> QED BY <1>2, <1>4, <1>5 DEF IInv

(* A step of one actor to the call p *)
LEMMA Moved ==
  ASSUME IInv, NEW a \in Actors, NEW p \in Call, pc' = [pc EXCEPT ![a] = p]
  PROVE  /\ pc' \in [Actors -> Call] /\ pc'[a] = p
         /\ \A b \in Actors : b # a => pc'[b] = pc[b]
BY DEF IInv, TypeOK

(* Steps that move no index and begin no call that matters to the ring *)
LEMMA QuietKeep ==
  ASSUME IInv, NEW a \in Actors, NEW p \in Call, pc' = [pc EXCEPT ![a] = p],
         pc[a].op \in {"idle", "some", "take", "put"},
         p.op \in {"idle", "some", "take", "put"},
         UNCHANGED <<buf, hdr, tail, lock, got>>,
         spoilt \subseteq spoilt', spoilt' \subseteq Devices,
         top' \in Tasks, test' \in Testers \cup {None}
  PROVE  IInv'
<1>1. /\ pc' \in [Actors -> Call] /\ pc'[a] = p
      /\ \A b \in Actors : b # a => pc'[b] = pc[b]
  BY Moved
<1>2. TypeOK'
  BY <1>1 DEF IInv, TypeOK
<1>3. Holds'
  BY <1>1 DEF IInv, Holds, InPut, Putting
<1>4. TailBack' /\ HeadBack'
  BY <1>1 DEF IInv, TailBack, HeadBack
<1>5. Alone'
  BY <1>1 DEF IInv, Alone, InPut, Putting
<1> QED BY <1>2, <1>3, <1>4, <1>5 DEF IInv

LEMMA QuietSteps ==
  ASSUME IInv, NEW a \in Actors,
         \/ HasKey(a)
         \/ \E d \in Devices : a \in Tasks /\ Read(a, d)
         \/ \E d \in Devices, c \in Codes : a \in Tasks /\ PutKbd(a, d, c)
         \/ \E d \in Devices, c \in Codes : a = Irq /\ KeyOrClick(d, c)
  PROVE  IInv'
<1>0. pc[a] \in Call /\ spoilt \subseteq Devices /\ top \in Tasks /\ test \in Testers \cup {None}
  BY DEF IInv, TypeOK
<1>1. CASE HasKey(a)
  <2>1. PICK o \in {"take", "idle"} : pc' = [pc EXCEPT ![a].op = o]
    BY <1>1 DEF HasKey, Go
  <2> DEFINE p == [pc[a] EXCEPT !.op = o]
  <2>2. p \in Call /\ p.op = o /\ pc' = [pc EXCEPT ![a] = p]
    BY <2>1, <1>0 DEF Call, Reading
  <2>3. /\ pc[a].op = "some" /\ UNCHANGED <<buf, hdr, tail, lock, top, test, got>>
        /\ spoilt' = spoilt \/ spoilt' = spoilt \cup {pc[a].dev}
    BY <1>1 DEF HasKey, At
  <2>4. pc[a].dev \in Devices
    BY <1>0 DEF Call
  <2> HIDE DEF p
  <2> QED BY <2>2, <2>3, <2>4, <1>0, QuietKeep
<1>2. CASE \E d \in Devices : a \in Tasks /\ Read(a, d)
  <2>1. PICK d \in Devices : Read(a, d)
    BY <1>2
  <2> DEFINE p == [pc[a] EXCEPT !.op = "some", !.dev = d]
  <2>2. p \in Call /\ p.op = "some" /\ pc' = [pc EXCEPT ![a] = p]
    BY <2>1, <1>0 DEF Call, Reading, Read
  <2>3. pc[a].op = "idle" /\ UNCHANGED <<buf, hdr, tail, lock, top, test, got, spoilt>>
    BY <2>1 DEF Read, At
  <2> HIDE DEF p
  <2> QED BY <2>2, <2>3, <1>0, QuietKeep
<1>3. CASE \E d \in Devices, c \in Codes : a \in Tasks /\ PutKbd(a, d, c)
  <2>1. PICK d \in Devices, c \in Codes : PutKbd(a, d, c)
    BY <1>3
  <2> DEFINE p == [Idle EXCEPT !.op = "put", !.dev = d, !.code = c]
  <2>2. p \in Call /\ p.op = "put"
    BY IdleTyped DEF Call, Putting
  <2>3. /\ pc' = [pc EXCEPT ![a] = p] /\ pc[a].op = "idle"
        /\ UNCHANGED <<buf, hdr, tail, lock, top, test, got, spoilt>>
    BY <2>1 DEF PutKbd, At
  <2> HIDE DEF p
  <2> QED BY <2>2, <2>3, <1>0, QuietKeep
<1>4. CASE \E d \in Devices, c \in Codes : a = Irq /\ KeyOrClick(d, c)
  <2>1. PICK d \in Devices, c \in Codes : KeyOrClick(d, c)
    BY <1>4
  <2> DEFINE p == [Idle EXCEPT !.op = "put", !.dev = d, !.code = c, !.by = "key"]
  <2>2. p \in Call /\ p.op = "put"
    BY IdleTyped DEF Call, Putting
  <2>3. /\ pc' = [pc EXCEPT ![a] = p] /\ pc[a].op = "idle"
        /\ UNCHANGED <<buf, hdr, tail, lock, top, test, got, spoilt>>
    BY <2>1, <1>4 DEF KeyOrClick, At
  <2> HIDE DEF p
  <2> QED BY <2>2, <2>3, <1>0, QuietKeep
<1> QED BY <1>1, <1>2, <1>3, <1>4

(* Who takes a free lock holds it, and nobody else held it. *)
LEMMA LockTaken ==
  ASSUME IInv, NEW a \in Actors, NEW p \in Call, pc' = [pc EXCEPT ![a] = p],
         lock[p.dev] = None, lock' = [lock EXCEPT ![p.dev] = a]
  PROVE  Holds'
<1> SUFFICES ASSUME NEW b \in Actors,
                    pc'[b].op = "taken" \/ (pc'[b].op \in InPut /\ pc'[b].by # "pad")
             PROVE  lock'[pc'[b].dev] = b
  BY DEF Holds
<1>1. /\ lock \in [Devices -> Actors \cup {None}] /\ None \notin Actors
      /\ p.dev \in Devices
  BY InputAssumption DEF IInv, TypeOK, Actors, Call
<1>2. pc'[a] = p /\ \A e \in Actors : e # a => pc'[e] = pc[e]
  BY Moved
<1>3. CASE b = a
  BY <1>1, <1>2, <1>3
<1>4. CASE b # a
  <2>1. lock[pc[b].dev] = b /\ pc'[b].dev = pc[b].dev /\ pc[b].dev \in Devices
    BY <1>2, <1>4 DEF IInv, Holds, TypeOK, Call
  <2> QED BY <2>1, <1>1
<1> QED BY <1>3, <1>4

(* Who leaves the lock held it alone. *)
LEMMA LockLeft ==
  ASSUME IInv, NEW a \in Actors, NEW p \in Call, pc' = [pc EXCEPT ![a] = p],
         p.op \in {"idle", "some", "put"},
         \/ lock' = lock
         \/ \E d \in Devices : lock[d] = a /\ lock' = [lock EXCEPT ![d] = None]
  PROVE  Holds'
<1> SUFFICES ASSUME NEW b \in Actors,
                    pc'[b].op = "taken" \/ (pc'[b].op \in InPut /\ pc'[b].by # "pad")
             PROVE  lock'[pc'[b].dev] = b
  BY DEF Holds
<1>1. pc'[a] = p /\ \A e \in Actors : e # a => pc'[e] = pc[e]
  BY Moved
<1>2. b # a
  BY <1>1 DEF InPut, Putting
<1>3. lock[pc[b].dev] = b /\ pc'[b].dev = pc[b].dev
  BY <1>1, <1>2 DEF IInv, Holds
<1>4. lock \in [Devices -> Actors \cup {None}] /\ pc[b].dev \in Devices
  BY DEF IInv, TypeOK, Call
<1> QED BY <1>2, <1>3, <1>4

LEMMA TakeKeeps ==
  ASSUME IInv, NEW a \in Actors, Take(a)
  PROVE  IInv'
<1> DEFINE p == [pc[a] EXCEPT !.op = "taken"]
           d == pc[a].dev
<1>1. pc[a] \in Call /\ d \in Devices
  BY DEF IInv, TypeOK, Call
<1>2. p \in Call /\ p.op = "taken" /\ p.dev = d /\ pc' = [pc EXCEPT ![a] = p]
  BY <1>1 DEF Call, Reading, Take, Go
<1>3. /\ pc[a].op = "take" /\ lock[d] = None /\ lock' = [lock EXCEPT ![d] = a]
      /\ got' = [got EXCEPT ![d] = buf[d][tail[d]]]
      /\ tail' = [tail EXCEPT ![d] = tail[d] + 1]
      /\ UNCHANGED <<buf, hdr, top, test, spoilt>>
  BY DEF Take, At, IsFree
<1>4. tail[d] < Size
  BY <1>3, InvImplies DEF InRing
<1> HIDE DEF p, d
<1>5. /\ pc' \in [Actors -> Call] /\ pc'[a] = p
      /\ \A b \in Actors : b # a => pc'[b] = pc[b]
  BY <1>2, Moved
<1>6. TypeOK'
  <2>1. tail[d] \in 0 .. Size - 1 /\ tail[d] + 1 \in 0 .. Size
    BY <1>1, <1>4, InputAssumption DEF IInv, TypeOK
  <2>2. buf[d][tail[d]] \in Codes
    <3>1. buf \in [Devices -> [0 .. Size - 1 -> Codes]]
      BY DEF IInv, TypeOK
    <3>2. buf[d] \in [0 .. Size - 1 -> Codes]
      BY <3>1, <1>1
    <3> QED BY <3>2, <2>1
  <2> QED BY <2>1, <2>2, <1>1, <1>3, <1>5 DEF IInv, TypeOK
<1>7. Holds'
  BY <1>2, <1>3, LockTaken
<1>8. TailBack'
  <2> SUFFICES ASSUME NEW e \in Devices
               PROVE  tail'[e] < Size \/ \E b \in Actors : pc'[b].op = "taken" /\ pc'[b].dev = e
    BY DEF TailBack
  <2>1. CASE e = d
    BY <2>1, <1>2, <1>5
  <2>2. CASE e # d
    <3>1. tail'[e] = tail[e]
      BY <2>2, <1>3 DEF IInv, TypeOK
    <3> QED BY <3>1, <1>3, <1>5 DEF IInv, TailBack
  <2> QED BY <2>1, <2>2
<1>9. HeadBack'
  BY <1>3, <1>5 DEF IInv, HeadBack
<1>10. Alone'
  BY <1>2, <1>3, <1>5 DEF IInv, Alone, InPut, Putting
<1> QED BY <1>6, <1>7, <1>8, <1>9, <1>10 DEF IInv

(* An index that is moved back is in the ring. *)
LEMMA WrappedIn == \A i \in Nat : Wrapped(i) \in 0 .. Size - 1
BY InputAssumption DEF Wrapped

LEMMA LeaveKeeps ==
  ASSUME IInv, NEW a \in Actors, Leave(a)
  PROVE  IInv'
<1> DEFINE d == pc[a].dev
<1>1. pc[a] \in Call /\ d \in Devices
  BY DEF IInv, TypeOK, Call
<1>2. /\ pc[a].op = "taken" /\ lock' = [lock EXCEPT ![d] = None]
      /\ tail' = [tail EXCEPT ![d] = Wrapped(tail[d])]
      /\ UNCHANGED <<buf, hdr, top, test, got, spoilt>>
  BY DEF Leave, At
<1>3. PICK p \in Call : p.op \in {"idle", "put"} /\ pc' = [pc EXCEPT ![a] = p]
  <2> DEFINE q == [Idle EXCEPT !.op = "put", !.dev = d, !.by = "back"]
  <2>1. q \in Call /\ q.op = "put"
    BY IdleTyped, <1>1 DEF Call, Putting
  <2>2. pc' = [pc EXCEPT ![a] = q] \/ pc' = [pc EXCEPT ![a] = Idle]
    BY DEF Leave
  <2> HIDE DEF q
  <2> QED BY <2>1, <2>2, IdleTyped
<1>4. Wrapped(tail[d]) \in 0 .. Size - 1 /\ Size \in Nat /\ lock[d] = a
  <2>1. tail[d] \in Nat /\ Size \in Nat
    BY <1>1, InputAssumption DEF IInv, TypeOK
  <2>2. lock[d] = a
    BY <1>2 DEF IInv, Holds
  <2> QED BY <2>1, <2>2, WrappedIn
<1> HIDE DEF d
<1>5. /\ pc' \in [Actors -> Call] /\ pc'[a] = p
      /\ \A b \in Actors : b # a => pc'[b] = pc[b]
  BY <1>3, Moved
<1>6. TypeOK'
  BY <1>1, <1>2, <1>4, <1>5 DEF IInv, TypeOK
<1>7. Holds'
  BY <1>1, <1>2, <1>3, <1>4, LockLeft
<1>8. TailBack'
  <2> SUFFICES ASSUME NEW e \in Devices
               PROVE  tail'[e] < Size \/ \E b \in Actors : pc'[b].op = "taken" /\ pc'[b].dev = e
    BY DEF TailBack
  <2>1. CASE e = d
    BY <2>1, <1>2, <1>4 DEF IInv, TypeOK
  <2>2. CASE e # d
    <3>1. tail'[e] = tail[e] /\ (pc[a].dev # e)
      BY <2>2, <1>2 DEF IInv, TypeOK, d
    <3> QED BY <3>1, <1>5 DEF IInv, TailBack
  <2> QED BY <2>1, <2>2
<1>9. HeadBack'
  BY <1>2, <1>5 DEF IInv, HeadBack
<1>10. Alone'
  BY <1>2, <1>3, <1>5 DEF IInv, Alone, InPut, Putting
<1> QED BY <1>6, <1>7, <1>8, <1>9, <1>10 DEF IInv

(* An actor begins to put, under the lock or with a key of the number pad. *)
LEMMA BeginKeeps ==
  ASSUME IInv, NEW a \in Actors, NEW p \in Call, pc' = [pc EXCEPT ![a] = p],
         p.op = "write", pc[a].op \in {"idle", "put"},
         spoilt' = Crossed(p.dev),
         \/ lock[p.dev] = None /\ lock' = [lock EXCEPT ![p.dev] = a]
         \/ lock' = lock /\ p.by = "pad",
         UNCHANGED <<buf, hdr, tail, top, test, got>>
  PROVE  IInv'
<1>1. p.dev \in Devices
  BY DEF Call
<1>2. /\ pc' \in [Actors -> Call] /\ pc'[a] = p
      /\ \A b \in Actors : b # a => pc'[b] = pc[b]
  BY Moved
<1>3. spoilt \subseteq spoilt' /\ spoilt' \subseteq Devices
  BY <1>1 DEF IInv, TypeOK, Crossed
<1>4. TypeOK'
  <2>1. lock \in [Devices -> Actors \cup {None}]
    BY DEF IInv, TypeOK
  <2>2. lock' \in [Devices -> Actors \cup {None}]
    BY <2>1, <1>1
  <2> QED BY <2>2, <1>2, <1>3 DEF IInv, TypeOK
<1>5. Holds'
  <2>1. CASE lock' = lock /\ p.by = "pad"
    BY <2>1, <1>2 DEF IInv, Holds
  <2> QED BY <2>1, LockTaken
<1>6. TailBack' /\ HeadBack'
  BY <1>2 DEF IInv, TailBack, HeadBack
<1>7. Alone'
  <2>1. ASSUME NEW b \in Actors, b # a, pc[b].op \in InPut, pc[b].dev = p.dev
        PROVE  p.dev \in spoilt'
    <3>1. b \in Amid(p.dev)
      BY <2>1 DEF Amid, InPut
    <3> QED BY <3>1 DEF Crossed
  <2> QED BY <2>1, <1>2, <1>3 DEF IInv, Alone
<1> QED BY <1>4, <1>5, <1>6, <1>7 DEF IInv

LEMMA BeginSteps ==
  ASSUME IInv, NEW a \in Actors,
         \/ Enter(a)
         \/ \E c \in Codes : a = Irq /\ NumsLock(c)
  PROVE  IInv'
<1>1. CASE Enter(a)
  <2> DEFINE p == [pc[a] EXCEPT !.op = "write"]
  <2>1. pc[a] \in Call
    BY DEF IInv, TypeOK
  <2>2. p \in Call /\ p.op = "write" /\ p.dev = pc[a].dev /\ pc' = [pc EXCEPT ![a] = p]
    BY <2>1, <1>1 DEF Call, Putting, Enter, Go
  <2>3. /\ pc[a].op = "put" /\ lock[pc[a].dev] = None
        /\ lock' = [lock EXCEPT ![pc[a].dev] = a] /\ spoilt' = Crossed(pc[a].dev)
        /\ UNCHANGED <<buf, hdr, tail, top, test, got>>
    BY <1>1 DEF Enter, At, IsFree
  <2> HIDE DEF p
  <2> QED BY <2>2, <2>3, BeginKeeps
<1>2. CASE \E c \in Codes : a = Irq /\ NumsLock(c)
  <2>1. PICK c \in Codes : NumsLock(c)
    BY <1>2
  <2> DEFINE p == [Idle EXCEPT !.op = "write", !.code = c, !.by = "pad"]
  <2>2. p \in Call /\ p.op = "write" /\ p.by = "pad" /\ p.dev = Kbd
    <3>1. Idle.dev = Kbd
      BY DEF Idle
    <3> QED BY <3>1, IdleTyped DEF Call, Putting
  <2>3. /\ pc' = [pc EXCEPT ![a] = p] /\ pc[a].op = "idle"
        /\ spoilt' = Crossed(Kbd) /\ UNCHANGED <<buf, hdr, tail, lock, top, test, got>>
    BY <2>1, <1>2 DEF NumsLock, At
  <2> HIDE DEF p
  <2> QED BY <2>2, <2>3, BeginKeeps
<1> QED BY <1>1, <1>2

(* An actor goes on putting. *)
LEMMA GoOnKeeps ==
  ASSUME IInv, NEW a \in Actors, NEW p \in Call, pc' = [pc EXCEPT ![a] = p],
         pc[a].op \in {"write", "load", "store"}, p.op \in {"load", "store", "wrap"},
         p.dev = pc[a].dev, p.by = pc[a].by,
         buf' \in [Devices -> [0 .. Size - 1 -> Codes]],
         hdr' \in [Devices -> 0 .. Size + 1],
         p.op = "wrap" \/ hdr' = hdr,
         \A e \in Devices : e # p.dev => hdr'[e] = hdr[e],
         spoilt \subseteq spoilt', spoilt' \subseteq Devices,
         UNCHANGED <<tail, lock, top, test, got>>
  PROVE  IInv'
<1>1. /\ pc' \in [Actors -> Call] /\ pc'[a] = p
      /\ \A b \in Actors : b # a => pc'[b] = pc[b]
  BY Moved
<1>2. TypeOK'
  BY <1>1 DEF IInv, TypeOK
<1>3. pc[a].op \in InPut /\ p.op \in InPut
  BY DEF InPut, Putting
<1>4. Holds'
  BY <1>1, <1>3 DEF IInv, Holds
<1>5. TailBack'
  BY <1>1 DEF IInv, TailBack
<1>6. HeadBack'
  <2> SUFFICES ASSUME NEW e \in Devices
               PROVE  hdr'[e] < Size \/ \E b \in Actors : pc'[b].op = "wrap" /\ pc'[b].dev = e
    BY DEF HeadBack
  <2>1. CASE p.op = "wrap" /\ e = p.dev
    BY <2>1, <1>1
  <2>2. CASE ~(p.op = "wrap" /\ e = p.dev)
    BY <2>2, <1>1 DEF IInv, HeadBack
  <2> QED BY <2>1, <2>2
<1>7. Alone'
  BY <1>1, <1>3 DEF IInv, Alone
<1> QED BY <1>2, <1>4, <1>5, <1>6, <1>7 DEF IInv

LEMMA GoOnSteps ==
  ASSUME IInv, NEW a \in Actors, Write(a) \/ Load(a) \/ Store(a)
  PROVE  IInv'
<1> DEFINE d == pc[a].dev
<1>0. /\ pc[a] \in Call /\ d \in Devices /\ hdr \in [Devices -> 0 .. Size + 1]
      /\ buf \in [Devices -> [0 .. Size - 1 -> Codes]] /\ spoilt \subseteq Devices
      /\ Escape \in Codes /\ Size \in Nat
  BY InputAssumption DEF IInv, TypeOK, Call
<1>1. CASE Write(a)
  <2> DEFINE p == [pc[a] EXCEPT !.op = "load", !.code = Escape]
  <2>1. p \in Call /\ p.op = "load" /\ p.dev = d /\ p.by = pc[a].by /\ pc' = [pc EXCEPT ![a] = p]
    BY <1>0, <1>1 DEF Call, Putting, Write
  <2>2. pc[a].op = "write" /\ UNCHANGED <<hdr, tail, lock, top, test, got, spoilt>>
    BY <1>1 DEF Write, At
  <2>3. buf' \in [Devices -> [0 .. Size - 1 -> Codes]]
    <3>1. pc[a].code \in Codes
      BY <1>0 DEF Call
    <3>2. CASE hdr[d] < Size
      <4> DEFINE r == [buf[d] EXCEPT ![hdr[d]] = pc[a].code]
      <4>1. r \in [0 .. Size - 1 -> Codes]
        BY <1>0, <3>1
      <4>2. buf' = [buf EXCEPT ![d] = r]
        BY <1>1, <3>2 DEF Write
      <4> HIDE DEF r
      <4> QED BY <4>1, <4>2, <1>0
    <3>3. CASE ~(hdr[d] < Size)
      BY <1>0, <1>1, <3>3 DEF Write
    <3> QED BY <3>2, <3>3
  <2> HIDE DEF p, d
  <2> QED BY <2>1, <2>2, <2>3, <1>0, GoOnKeeps DEF d
<1>2. CASE Load(a)
  <2>0. hdr[d] \in 0 .. Size + 1
    BY <1>0
  <2> DEFINE p == [pc[a] EXCEPT !.op = "store", !.head = hdr[d]]
  <2>1. p \in Call /\ p.op = "store" /\ p.dev = d /\ p.by = pc[a].by /\ pc' = [pc EXCEPT ![a] = p]
    BY <1>0, <2>0, <1>2 DEF Call, Putting, Load
  <2>2. pc[a].op = "load" /\ UNCHANGED <<buf, hdr, tail, lock, top, test, got, spoilt>>
    BY <1>2 DEF Load, At
  <2> HIDE DEF p, d
  <2> QED BY <2>1, <2>2, <1>0, GoOnKeeps DEF d
<1>3. CASE Store(a)
  <2> DEFINE p == [pc[a] EXCEPT !.op = "wrap", !.head = 0]
  <2>1. p \in Call /\ p.op = "wrap" /\ p.dev = d /\ p.by = pc[a].by /\ pc' = [pc EXCEPT ![a] = p]
    <3>1. 0 \in 0 .. Size + 1 /\ pc[a] \in Call
      BY <1>0
    <3>2. p \in Call /\ p.op = "wrap" /\ p.dev = d /\ p.by = pc[a].by
      BY <3>1 DEF Call, Putting
    <3> QED BY <3>2, <1>3 DEF Store
  <2>2. /\ pc[a].op = "store" /\ UNCHANGED <<buf, tail, lock, top, test, got>>
        /\ hdr' = [hdr EXCEPT ![d] = NextPlace(pc[a].head)]
        /\ spoilt' = spoilt \/ spoilt' = spoilt \cup {d}
    BY <1>3 DEF Store, At
  <2>3. NextPlace(pc[a].head) \in 0 .. Size + 1
    <3>1. pc[a].head \in 0 .. Size + 1
      BY <1>0 DEF Call
    <3> QED BY <3>1, <1>0 DEF NextPlace
  <2> HIDE DEF p, d
  <2>4. hdr' \in [Devices -> 0 .. Size + 1] /\ \A e \in Devices : e # d => hdr'[e] = hdr[e]
    <3> DEFINE n == NextPlace(pc[a].head)
    <3>1. n \in 0 .. Size + 1 /\ hdr' = [hdr EXCEPT ![d] = n]
      BY <2>2, <2>3
    <3> HIDE DEF n
    <3>2. hdr \in [Devices -> 0 .. Size + 1]
      BY <1>0
    <3> QED BY <3>1, <3>2
  <2> QED BY <2>1, <2>2, <2>4, <1>0, GoOnKeeps DEF d
<1> QED BY <1>1, <1>2, <1>3

LEMMA WrapKeeps ==
  ASSUME IInv, NEW a \in Actors, Wrap(a)
  PROVE  IInv'
<1> DEFINE d == pc[a].dev
<1>1. pc[a] \in Call /\ d \in Devices /\ lock \in [Devices -> Actors \cup {None}]
  BY DEF IInv, TypeOK, Call
<1>2. /\ pc[a].op = "wrap" /\ lock' = [lock EXCEPT ![d] = LockAfter(a)]
      /\ hdr' = [hdr EXCEPT ![d] = Wrapped(hdr[d])]
      /\ UNCHANGED <<buf, tail, top, test, got, spoilt>>
  BY DEF Wrap, At
<1>3. PICK p \in Call : p.op \in {"idle", "some"} /\ pc' = [pc EXCEPT ![a] = p]
  <2> DEFINE q == [Idle EXCEPT !.op = "some"]
  <2>1. q \in Call /\ q.op = "some"
    BY IdleTyped DEF Call, Reading
  <2>2. pc' = [pc EXCEPT ![a] = q] \/ pc' = [pc EXCEPT ![a] = Idle]
    BY DEF Wrap
  <2> HIDE DEF q
  <2> QED BY <2>1, <2>2, IdleTyped
<1>4. Wrapped(hdr[d]) \in 0 .. Size - 1 /\ Size \in Nat
  <2>1. hdr[d] \in Nat /\ Size \in Nat
    BY <1>1, InputAssumption DEF IInv, TypeOK
  <2> QED BY <2>1, WrappedIn
<1>5. lock' = lock \/ (lock[d] = a /\ lock' = [lock EXCEPT ![d] = None])
  <2>1. CASE pc[a].by = "pad"
    BY <2>1, <1>1, <1>2 DEF LockAfter
  <2>2. CASE pc[a].by # "pad"
    <3>1. lock[d] = a
      BY <2>2, <1>2 DEF IInv, Holds, InPut, Putting
    <3> QED BY <2>2, <3>1, <1>2 DEF LockAfter
  <2> QED BY <2>1, <2>2
<1> HIDE DEF d
<1>6. /\ pc' \in [Actors -> Call] /\ pc'[a] = p
      /\ \A b \in Actors : b # a => pc'[b] = pc[b]
  BY <1>3, Moved
<1>7. TypeOK'
  BY <1>1, <1>2, <1>4, <1>5, <1>6 DEF IInv, TypeOK
<1>8. Holds'
  BY <1>1, <1>3, <1>5, LockLeft
<1>9. TailBack'
  BY <1>2, <1>6 DEF IInv, TailBack
<1>10. HeadBack'
  <2> SUFFICES ASSUME NEW e \in Devices
               PROVE  hdr'[e] < Size \/ \E b \in Actors : pc'[b].op = "wrap" /\ pc'[b].dev = e
    BY DEF HeadBack
  <2>1. CASE e = d
    BY <2>1, <1>2, <1>4 DEF IInv, TypeOK
  <2>2. CASE e # d
    <3>1. hdr'[e] = hdr[e] /\ (pc[a].dev # e)
      BY <2>2, <1>2 DEF IInv, TypeOK, d
    <3> QED BY <3>1, <1>6 DEF IInv, HeadBack
  <2> QED BY <2>1, <2>2
<1>11. Alone'
  BY <1>2, <1>3, <1>6 DEF IInv, Alone, InPut, Putting
<1> QED BY <1>7, <1>8, <1>9, <1>10, <1>11 DEF IInv

(* The windows change, or nothing does. *)
LEMMA WindowKeeps ==
  ASSUME IInv,
         (\E t \in Tasks : Raise(t) \/ ShowTest(t)) \/ UNCHANGED vars
  PROVE  IInv'
<1>1. UNCHANGED <<buf, hdr, tail, lock, pc, got, spoilt>>
  BY DEF Raise, ShowTest, vars
<1>2. top' \in Tasks /\ test' \in Testers \cup {None}
  BY DEF Raise, ShowTest, vars, IInv, TypeOK
<1>3. TypeOK'
  BY <1>1, <1>2 DEF IInv, TypeOK
<1>4. Holds' /\ TailBack' /\ HeadBack' /\ Alone'
  BY <1>1 DEF IInv, Holds, TailBack, HeadBack, Alone
<1> QED BY <1>3, <1>4 DEF IInv

LEMMA NextKeeps == IInv /\ [Next]_vars => IInv'
<1> SUFFICES ASSUME IInv, [Next]_vars PROVE IInv'
  OBVIOUS
<1>0. Tasks \subseteq Actors /\ Irq \in Actors
  BY DEF Actors
<1>1. ASSUME NEW a \in Actors, Step(a) PROVE IInv'
  BY <1>1, QuietSteps, TakeKeeps, LeaveKeeps, BeginSteps, GoOnSteps, WrapKeeps DEF Step
<1>2. ASSUME NEW t \in Tasks, Raise(t) \/ ShowTest(t) PROVE IInv'
  BY <1>2, WindowKeeps
<1>3. ASSUME NEW t \in Tasks, NEW d \in Devices,
             Read(t, d) \/ \E c \in Codes : PutKbd(t, d, c)
      PROVE  IInv'
  BY <1>0, <1>3, QuietSteps
<1>4. ASSUME NEW d \in Devices, NEW c \in Codes, KeyOrClick(d, c) PROVE IInv'
  BY <1>0, <1>4, QuietSteps
<1>5. ASSUME NEW c \in Codes, NumsLock(c) PROVE IInv'
  BY <1>0, <1>5, BeginSteps
<1>6. CASE UNCHANGED vars
  BY <1>6, WindowKeeps
<1> QED BY <1>1, <1>2, <1>3, <1>4, <1>5, <1>6 DEF Next

(* No entry of a keyboard or a mouse is put behind its ring, unless a key of
   the number pad came while a task was putting one, and none is taken from
   there (__kPutKbd, __kGetKbd and numsLockProc of kernel/keyboard.cpp,
   insertMouse and __kGetMouse of mouse.cpp). *)
THEOREM StaysInRing == Spec => []InRing
<1>1. Spec => []IInv
  BY InitHolds, NextKeeps, PTL DEF Spec
<1> QED BY <1>1, InvImplies, PTL

-----------------------------------------------------------------------------
(* What is in a ring b with the head h and the tail t.  Both indexes may stand
   one place behind the ring, which is the first place of it. *)
Cont(b, h, t) == [i \in 1 .. (h - t) % Size |-> b[(t + i - 1) % Size]]

Ring == [0 .. Size - 1 -> Codes]

LEMMA ModSize ==
  ASSUME NEW x \in Int, -Size <= x, x < 2 * Size
  PROVE  /\ x % Size = IF x < 0 THEN x + Size ELSE IF x < Size THEN x ELSE x - Size
         /\ x % Size \in 0 .. Size - 1
<1>1. Size \in Nat /\ Size > 1
  BY InputAssumption
<1>2. ASSUME NEW q \in Int, NEW r \in 0 .. Size - 1 PROVE (q * Size + r) % Size = r
  BY <1>1, <1>2
<1>3. CASE x < 0
  <2>1. x + Size \in 0 .. Size - 1 /\ x = (-1) * Size + (x + Size)
    BY <1>1, <1>3
  <2>2. ((-1) * Size + (x + Size)) % Size = x + Size
    BY <2>1, <1>2
  <2> QED BY <2>1, <2>2, <1>3
<1>4. CASE 0 <= x /\ x < Size
  <2>1. x \in 0 .. Size - 1 /\ x = 0 * Size + x
    BY <1>1, <1>4
  <2>2. (0 * Size + x) % Size = x
    BY <2>1, <1>2
  <2> QED BY <2>1, <2>2, <1>4
<1>5. CASE Size <= x
  <2>1. x - Size \in 0 .. Size - 1 /\ x = 1 * Size + (x - Size)
    BY <1>1, <1>5
  <2>2. (1 * Size + (x - Size)) % Size = x - Size
    BY <2>1, <1>2
  <2> QED BY <2>1, <2>2, <1>1, <1>5
<1> QED BY <1>1, <1>3, <1>4, <1>5

LEMMA ContTyped ==
  ASSUME NEW b \in Ring, NEW h \in 0 .. Size + 1, NEW t \in 0 .. Size
  PROVE  /\ (h - t) % Size \in 0 .. Size - 1
         /\ Cont(b, h, t) \in Seq(Codes)
         /\ Len(Cont(b, h, t)) = (h - t) % Size
         /\ \A i \in 1 .. (h - t) % Size : Cont(b, h, t)[i] = b[(t + i - 1) % Size]
<1>1. Size \in Nat /\ Size > 1
  BY InputAssumption
<1> DEFINE n == (h - t) % Size
<1>2. n \in 0 .. Size - 1
  BY <1>1, ModSize
<1> HIDE DEF n
<1>3. ASSUME NEW i \in 1 .. n PROVE (t + i - 1) % Size \in 0 .. Size - 1
  <2>1. t + i - 1 \in Int /\ -Size <= t + i - 1 /\ t + i - 1 < 2 * Size
    BY <1>1, <1>2
  <2> QED BY <2>1, ModSize
<1>4. Cont(b, h, t) = [i \in 1 .. n |-> b[(t + i - 1) % Size]]
  BY DEF Cont, n
<1>5. \A i \in 1 .. n : b[(t + i - 1) % Size] \in Codes
  BY <1>3 DEF Ring
<1>6. Cont(b, h, t) \in [1 .. n -> Codes] /\ n \in Nat
  <2>1. n \in Nat
    BY <1>1, <1>2
  <2>2. [i \in 1 .. n |-> b[(t + i - 1) % Size]] \in [1 .. n -> Codes]
    BY <1>5, Zenon
  <2> QED BY <2>1, <2>2, <1>4, Zenon
<1>7. Cont(b, h, t) \in Seq(Codes)
  BY <1>6, SeqDef
<1>8. Len(Cont(b, h, t)) = n
  BY <1>6, <1>7, LenProperties
<1> QED BY <1>2, <1>4, <1>7, <1>8 DEF n

(* Two contents of one length and the same places are the same. *)
LEMMA ContEqual ==
  ASSUME NEW b \in Ring, NEW h \in 0 .. Size + 1, NEW t \in 0 .. Size, NEW s \in Seq(Codes),
         Len(s) = (h - t) % Size,
         \A i \in 1 .. (h - t) % Size : s[i] = b[(t + i - 1) % Size]
  PROVE  s = Cont(b, h, t)
<1>1. /\ Cont(b, h, t) \in Seq(Codes) /\ Len(Cont(b, h, t)) = (h - t) % Size
      /\ \A i \in 1 .. (h - t) % Size : Cont(b, h, t)[i] = b[(t + i - 1) % Size]
  BY ContTyped
<1> QED BY <1>1, SeqEqual

(* To move an index from behind the ring to its begin changes nothing. *)
LEMMA WrapHead ==
  ASSUME NEW b \in Ring, NEW h \in 0 .. Size, NEW t \in 0 .. Size
  PROVE  Cont(b, Wrapped(h), t) = Cont(b, h, t)
<1>1. Size \in Nat /\ Size > 1
  BY InputAssumption
<1>2. (Wrapped(h) - t) % Size = (h - t) % Size
  BY <1>1, ModSize DEF Wrapped
<1> QED BY <1>2 DEF Cont

LEMMA WrapTail ==
  ASSUME NEW b \in Ring, NEW h \in 0 .. Size, NEW t \in 0 .. Size
  PROVE  Cont(b, h, Wrapped(t)) = Cont(b, h, t)
<1>1. Size \in Nat /\ Size > 1
  BY InputAssumption
<1>2. CASE t < Size
  BY <1>2, <1>1 DEF Wrapped
<1>3. CASE t = Size
  <2>1. Wrapped(t) = 0 /\ 0 \in 0 .. Size
    BY <1>1, <1>3 DEF Wrapped
  <2>2. (h - 0) % Size = (h - t) % Size
    BY <1>1, <1>3, ModSize
  <2>3. ASSUME NEW i \in 1 .. (h - t) % Size
        PROVE  (0 + i - 1) % Size = (t + i - 1) % Size
    <3>1. (h - t) % Size \in 0 .. Size - 1
      BY <1>1, ModSize
    <3>2. i - 1 \in 0 .. Size - 1
      BY <3>1, <1>1
    <3> QED BY <3>2, <1>1, <1>3, ModSize
  <2> QED BY <2>1, <2>2, <2>3 DEF Cont
<1> QED BY <1>1, <1>2, <1>3

(* The place of the head is not among the entries. *)
LEMMA WriteAside ==
  ASSUME NEW b \in Ring, NEW h \in 0 .. Size - 1, NEW t \in 0 .. Size, NEW c \in Codes
  PROVE  Cont([b EXCEPT ![h] = c], h, t) = Cont(b, h, t)
<1>1. Size \in Nat /\ Size > 1
  BY InputAssumption
<1> DEFINE n == (h - t) % Size
<1>2. n \in 0 .. Size - 1 /\ (n = h - t \/ n = h - t + Size)
  BY <1>1, ModSize
<1>3. ASSUME NEW i \in 1 .. n
      PROVE  (t + i - 1) % Size \in 0 .. Size - 1 /\ (t + i - 1) % Size # h
  <2> HIDE DEF n
  <2>1. /\ t + i - 1 \in Int /\ -Size <= t + i - 1 /\ t + i - 1 < 2 * Size
        /\ t + i - 1 # h /\ t + i - 1 # h + Size
    BY <1>1, <1>2
  <2>2. (t + i - 1) % Size = t + i - 1 \/ (t + i - 1) % Size = t + i - 1 - Size
    BY <2>1, <1>1, <1>2, ModSize
  <2>3. (t + i - 1) % Size \in 0 .. Size - 1
    BY <2>1, ModSize
  <2> QED BY <2>1, <2>2, <2>3, <1>1, <1>2
<1>4. \A i \in 1 .. n : [b EXCEPT ![h] = c][(t + i - 1) % Size] = b[(t + i - 1) % Size]
  BY <1>3 DEF Ring
<1> QED BY <1>4 DEF Cont

(* The entry at the tail is the first, and behind it are the others. *)
LEMMA TakeFirst ==
  ASSUME NEW b \in Ring, NEW h \in 0 .. Size, NEW t \in 0 .. Size - 1,
         Cont(b, h, t) # << >>
  PROVE  /\ Head(Cont(b, h, t)) = b[t]
         /\ Cont(b, h, t + 1) = Tail(Cont(b, h, t))
         /\ Len(Cont(b, h, t + 1)) = Len(Cont(b, h, t)) - 1
<1>1. Size \in Nat /\ Size > 1
  BY InputAssumption
<1> DEFINE n == (h - t) % Size
           s == Cont(b, h, t)
<1>2. /\ n \in 0 .. Size - 1 /\ s \in Seq(Codes) /\ Len(s) = n
      /\ \A i \in 1 .. n : s[i] = b[(t + i - 1) % Size]
  BY <1>1, ContTyped
<1>3. n # 0
  BY <1>2, EmptySeq
<1>4. (h - (t + 1)) % Size = n - 1
  <2>1. /\ h - t \in Int /\ -Size <= h - t /\ h - t < 2 * Size
        /\ h - (t + 1) = (h - t) - 1 /\ -Size <= (h - t) - 1 /\ h - t <= Size
    BY <1>1
  <2>2. n = IF h - t < 0 THEN h - t + Size ELSE IF h - t < Size THEN h - t ELSE h - t - Size
    BY <2>1, ModSize
  <2>3. h - t # 0 /\ h - t # Size
    BY <2>1, <2>2, <1>1, <1>3
  <2>4. ((h - t) - 1) % Size =
          IF (h - t) - 1 < 0 THEN (h - t) - 1 + Size ELSE (h - t) - 1
    <3> DEFINE x == (h - t) - 1
    <3>1. x \in Int /\ -Size <= x /\ x < Size /\ x < 2 * Size
      BY <2>1, <2>3, <1>1
    <3> HIDE DEF x
    <3>2. x % Size = IF x < 0 THEN x + Size ELSE x
      BY <3>1, ModSize
    <3> QED BY <3>2 DEF x
  <2> HIDE DEF n
  <2> QED BY <2>1, <2>2, <2>3, <2>4, <1>1
<1>5. (t + 1 - 1) % Size = t
  BY <1>1, ModSize
<1>6. /\ Tail(s) \in Seq(Codes) /\ Len(Tail(s)) = n - 1 /\ Head(s) = s[1]
      /\ \A i \in 1 .. n - 1 : Tail(s)[i] = s[i + 1]
  BY <1>2, HeadTailProperties
<1>7. Head(s) = b[t]
  <2>1. 1 \in 1 .. n
    BY <1>2, <1>3, <1>1
  <2>2. s[1] = b[(t + 1 - 1) % Size]
    BY <2>1, <1>2
  <2> QED BY <2>2, <1>5, <1>6
<1>8. ASSUME NEW i \in 1 .. n - 1
      PROVE  Tail(s)[i] = b[(t + 1 + i - 1) % Size]
  <2>1. i + 1 \in 1 .. n /\ t + (i + 1) - 1 = t + 1 + i - 1
    BY <1>2, <1>1
  <2> QED BY <2>1, <1>2, <1>6
<1>9. Cont(b, h, t + 1) = Tail(s)
  <2>1. t + 1 \in 0 .. Size /\ h \in 0 .. Size + 1
    BY <1>1
  <2>2. (h - (t + 1)) % Size = n - 1
    BY <1>4
  <2> HIDE DEF n, s
  <2>3. /\ Len(Tail(s)) = (h - (t + 1)) % Size
        /\ \A i \in 1 .. (h - (t + 1)) % Size : Tail(s)[i] = b[((t + 1) + i - 1) % Size]
    BY <2>2, <1>6, <1>8
  <2>4. Tail(s) \in Seq(Codes)
    BY <1>6
  <2> QED BY <2>1, <2>3, <2>4, ContEqual
<1> QED BY <1>2, <1>6, <1>7, <1>9

(* One more behind the others, or, if all places but one are taken, nothing. *)
LEMMA PutLast ==
  ASSUME NEW b \in Ring, NEW h \in 0 .. Size - 1, NEW t \in 0 .. Size
  PROVE  LET s == Cont(b, h, t)
         IN  Cont(b, h + 1, t) = IF Len(s) = Size - 1 THEN << >> ELSE Append(s, b[h])
<1>1. Size \in Nat /\ Size > 1
  BY InputAssumption
<1> DEFINE n == (h - t) % Size
           s == Cont(b, h, t)
<1>2. /\ n \in 0 .. Size - 1 /\ s \in Seq(Codes) /\ Len(s) = n
      /\ \A i \in 1 .. n : s[i] = b[(t + i - 1) % Size]
  BY <1>1, ContTyped
<1>3. (h + 1 - t) % Size = IF n = Size - 1 THEN 0 ELSE n + 1
  BY <1>1, ModSize
<1>4. h + 1 \in 0 .. Size + 1 /\ h \in 0 .. Size + 1
  BY <1>1
<1>5. CASE n = Size - 1
  <2>1. Cont(b, h + 1, t) \in Seq(Codes) /\ Len(Cont(b, h + 1, t)) = 0
    BY <1>3, <1>4, <1>5, ContTyped
  <2>2. << >> = Cont(b, h + 1, t)
    BY <2>1, EmptySeq
  <2> QED BY <2>2, <1>2, <1>5
<1>6. CASE n # Size - 1
  <2> DEFINE r == Append(s, b[h])
  <2>1. b[h] \in Codes
    BY DEF Ring
  <2>2. /\ r \in Seq(Codes) /\ Len(r) = n + 1 /\ r[n + 1] = b[h]
        /\ \A i \in 1 .. n : r[i] = s[i]
    BY <2>1, <1>2, AppendProperties
  <2>3. (t + (n + 1) - 1) % Size = h
    <3>1. n = h - t \/ n = h - t + Size
      BY <1>1, ModSize
    <3> HIDE DEF n
    <3>2. t + (n + 1) - 1 = h \/ t + (n + 1) - 1 = h + Size
      BY <3>1, <1>1, <1>2
    <3>3. h % Size = h /\ (h + Size) % Size = h
      BY <1>1, ModSize
    <3> QED BY <3>2, <3>3
  <2>4. \A i \in 1 .. n + 1 : r[i] = b[(t + i - 1) % Size]
    BY <2>2, <2>3, <1>2
  <2> HIDE DEF r
  <2>5. r = Cont(b, h + 1, t)
    BY <2>2, <2>4, <1>3, <1>4, <1>6, ContEqual
  <2> QED BY <2>5, <1>2, <1>6 DEF r
<1> QED BY <1>5, <1>6

-----------------------------------------------------------------------------
(* As long as no two crossed each other on a device, its head is at most one
   place behind the ring, who is about to move it on has read where it is, and
   there is an entry for every reader that has passed the test. *)
Backed(d) ==
    /\ hdr[d] <= Size
    /\ \A a \in Actors : pc[a].dev = d /\ pc[a].op = "store" => pc[a].head = hdr[d]
    /\ IsFiniteSet(Past(d))
    /\ Cardinality(Past(d)) <= Len(Content(d))

QInv == \A d \in Devices \ spoilt : Backed(d)

Same(d) == UNCHANGED <<Content(d), got[d]>>

LEMMA ContentIs ==
  ASSUME NEW d \in Devices
  PROVE  /\ Content(d) = Cont(buf[d], hdr[d], tail[d])
         /\ Content(d)' = Cont(buf'[d], hdr'[d], tail'[d])
BY DEF Content, Cont

LEMMA RingTypes ==
  ASSUME IInv, NEW d \in Devices
  PROVE  /\ buf[d] \in Ring /\ hdr[d] \in 0 .. Size + 1 /\ tail[d] \in 0 .. Size
         /\ Content(d) \in Seq(Codes) /\ Len(Content(d)) \in 0 .. Size - 1
         /\ Len(Content(d)) = (hdr[d] - tail[d]) % Size
<1>1. buf[d] \in Ring /\ hdr[d] \in 0 .. Size + 1 /\ tail[d] \in 0 .. Size
  BY DEF IInv, TypeOK, Ring
<1> QED BY <1>1, ContentIs, ContTyped

(* Who is putting with nobody else finds the head in the ring. *)
LEMMA HeadInRing ==
  ASSUME IInv, NEW a \in Actors, pc[a].dev \notin spoilt,
         pc[a].op \in {"write", "load", "store"}
  PROVE  hdr[pc[a].dev] < Size
<1>1. pc[a].dev \in Devices
  BY DEF IInv, TypeOK, Call
<1>2. ~ \E b \in Actors : pc[b].op = "wrap" /\ pc[b].dev = pc[a].dev
  BY DEF IInv, Alone, InPut, Putting
<1> QED BY <1>1, <1>2 DEF IInv, HeadBack

(* A step after which the same entries wait for the same readers *)
LEMMA SameKeeps ==
  ASSUME IInv, NEW d \in Devices, Backed(d), NEW a \in Actors, NEW p \in Call,
         pc' = [pc EXCEPT ![a] = p],
         hdr'[d] <= Size, Content(d)' = Content(d), got'[d] = got[d],
         ~ (p.dev = d /\ p.op = "take"), ~ (pc[a].dev = d /\ pc[a].op = "take"),
         p.dev = d /\ p.op = "store" => p.head = hdr'[d],
         \A b \in Actors \ {a} : pc[b].dev = d /\ pc[b].op = "store" => hdr'[d] = hdr[d]
  PROVE  Backed(d)' /\ Same(d)
<1>1. /\ pc'[a] = p
      /\ \A b \in Actors : b # a => pc'[b] = pc[b]
  BY Moved
<1>2. Past(d)' = Past(d)
  BY <1>1 DEF Past
<1>3. \A b \in Actors : pc'[b].dev = d /\ pc'[b].op = "store" => pc'[b].head = hdr'[d]
  BY <1>1 DEF Backed
<1> QED BY <1>2, <1>3 DEF Backed, Same

(* A step that leaves the ring of the device alone *)
LEMMA AsideKeeps ==
  ASSUME IInv, NEW d \in Devices, Backed(d), NEW a \in Actors, NEW p \in Call,
         pc' = [pc EXCEPT ![a] = p],
         buf'[d] = buf[d], hdr'[d] = hdr[d], tail'[d] = tail[d], got'[d] = got[d],
         ~ (p.dev = d /\ p.op = "take"), ~ (pc[a].dev = d /\ pc[a].op = "take"),
         p.dev = d /\ p.op = "store" => p.head = hdr[d]
  PROVE  Backed(d)' /\ Same(d)
<1>1. Content(d)' = Content(d)
  BY ContentIs
<1>2. hdr'[d] <= Size
  BY DEF Backed
<1> QED BY <1>1, <1>2, SameKeeps

(* Calls that begin *)
LEMMA BegunAside ==
  ASSUME IInv, NEW d \in Devices, Backed(d), NEW a \in Actors,
         \/ \E e \in Devices : Read(a, e) \/ \E c \in Codes : PutKbd(a, e, c)
         \/ \E e \in Devices, c \in Codes : a = Irq /\ KeyOrClick(e, c)
         \/ \E c \in Codes : a = Irq /\ NumsLock(c)
         \/ Enter(a)
  PROVE  Backed(d)' /\ Same(d)
<1>0. pc[a] \in Call
  BY DEF IInv, TypeOK
<1>1. /\ UNCHANGED <<buf, hdr, tail, got>>
      /\ pc[a].op \in {"idle", "put"}
  BY DEF Read, PutKbd, KeyOrClick, NumsLock, Enter, At
<1>2. \E p \in Call : p.op \in {"some", "put", "write"} /\ pc' = [pc EXCEPT ![a] = p]
  <2>1. ASSUME NEW e \in Devices, Read(a, e)
        PROVE  \E p \in Call : p.op \in {"some", "put", "write"} /\ pc' = [pc EXCEPT ![a] = p]
    <3> DEFINE q == [pc[a] EXCEPT !.op = "some", !.dev = e]
    <3>1. q \in Call /\ q.op = "some"
      BY <1>0 DEF Call, Reading
    <3>2. pc' = [pc EXCEPT ![a] = q]
      BY <2>1 DEF Read
    <3> QED BY <3>1, <3>2
  <2>2. ASSUME NEW e \in Devices, NEW c \in Codes, PutKbd(a, e, c) \/ (a = Irq /\ KeyOrClick(e, c))
        PROVE  \E p \in Call : p.op \in {"some", "put", "write"} /\ pc' = [pc EXCEPT ![a] = p]
    <3> DEFINE q == [Idle EXCEPT !.op = "put", !.dev = e, !.code = c]
               k == [Idle EXCEPT !.op = "put", !.dev = e, !.code = c, !.by = "key"]
    <3>1. q \in Call /\ q.op = "put" /\ k \in Call /\ k.op = "put"
      BY IdleTyped DEF Call, Putting
    <3>2. pc' = [pc EXCEPT ![a] = q] \/ pc' = [pc EXCEPT ![a] = k]
      BY <2>2 DEF PutKbd, KeyOrClick
    <3> HIDE DEF q, k
    <3> QED BY <3>1, <3>2
  <2>3. ASSUME NEW c \in Codes, a = Irq, NumsLock(c)
        PROVE  \E p \in Call : p.op \in {"some", "put", "write"} /\ pc' = [pc EXCEPT ![a] = p]
    <3> DEFINE q == [Idle EXCEPT !.op = "write", !.code = c, !.by = "pad"]
    <3>1. q \in Call /\ q.op = "write"
      BY IdleTyped DEF Call, Putting
    <3>2. pc' = [pc EXCEPT ![a] = q]
      BY <2>3 DEF NumsLock
    <3> QED BY <3>1, <3>2
  <2>4. ASSUME Enter(a)
        PROVE  \E p \in Call : p.op \in {"some", "put", "write"} /\ pc' = [pc EXCEPT ![a] = p]
    <3> DEFINE q == [pc[a] EXCEPT !.op = "write"]
    <3>1. q \in Call /\ q.op = "write"
      BY <1>0 DEF Call, Putting
    <3>2. pc' = [pc EXCEPT ![a] = q]
      BY <2>4 DEF Enter, Go
    <3> QED BY <3>1, <3>2
  <2> QED BY <2>1, <2>2, <2>3, <2>4
<1> QED BY <1>1, <1>2, AsideKeeps

(* A reader passes the test, or finds nothing. *)
LEMMA PassKeeps ==
  ASSUME IInv, NEW d \in Devices, Backed(d), d \notin spoilt', NEW a \in Actors, HasKey(a)
  PROVE  Backed(d)' /\ Same(d)
<1>1. pc[a] \in Call
  BY DEF IInv, TypeOK
<1>2. /\ pc[a].op = "some" /\ UNCHANGED <<buf, hdr, tail, lock, got>>
  BY DEF HasKey, At
<1>3. CASE ~SomeThere(pc[a].dev) \/ pc[a].dev # d
  <2>1. PICK o \in {"take", "idle"} :
          pc' = [pc EXCEPT ![a].op = o] /\ (o = "take" => SomeThere(pc[a].dev))
    BY DEF HasKey, Go
  <2> DEFINE q == [pc[a] EXCEPT !.op = o]
  <2>2. q \in Call /\ q.op = o /\ q.dev = pc[a].dev /\ pc' = [pc EXCEPT ![a] = q]
    BY <2>1, <1>1 DEF Call, Reading
  <2> HIDE DEF q
  <2> QED BY <1>2, <1>3, <2>1, <2>2, AsideKeeps
<1>4. CASE SomeThere(pc[a].dev) /\ pc[a].dev = d
  <2> DEFINE q == [pc[a] EXCEPT !.op = "take"]
  <2>1. q \in Call /\ q.op = "take" /\ q.dev = d /\ pc' = [pc EXCEPT ![a] = q]
    BY <1>1, <1>4 DEF Call, Reading, HasKey, Go
  <2> HIDE DEF q
  <2>2. /\ pc'[a] = q
        /\ \A b \in Actors : b # a => pc'[b] = pc[b]
    BY <2>1, Moved
  <2>3. Past(d)' = Past(d) \cup {a} /\ a \notin Past(d)
    BY <2>1, <2>2, <1>2 DEF Past
  <2>4. Content(d)' = Content(d) /\ got'[d] = got[d]
    BY <1>2, ContentIs
  <2>5. IsFiniteSet(Past(d)') /\ Cardinality(Past(d)') = Cardinality(Past(d)) + 1
    BY <2>3, FS_AddElement DEF Backed
  <2>6. Cardinality(Past(d)) < Len(Content(d))
    <3>1. Cardinality(Past(d)) \in Nat /\ Len(Content(d)) \in Nat
      BY RingTypes, FS_CardinalityType, InputAssumption DEF Backed
    <3>2. CASE Past(d) \cup Midway(d) # {}
      <4>1. ~ (Cardinality(Past(d)) >= Len(Content(d)))
        BY <3>2, <1>4 DEF HasKey
      <4> QED BY <4>1, <3>1
    <3>3. CASE Past(d) \cup Midway(d) = {}
      <4>1. Cardinality(Past(d)) = 0
        BY <3>3, FS_EmptySet
      <4>2. ~ \E b \in Actors : pc[b].op \in {"taken", "wrap"} /\ pc[b].dev = d
        BY <3>3 DEF Midway
      <4>3. hdr[d] < Size /\ tail[d] < Size /\ hdr[d] # tail[d]
        BY <4>2, <1>4 DEF IInv, HeadBack, TailBack, SomeThere
      <4>4. (hdr[d] - tail[d]) % Size # 0
        <5> DEFINE x == hdr[d] - tail[d]
        <5>1. /\ x \in Int /\ -Size < x /\ x < Size /\ x # 0 /\ Size \in Nat
              /\ -Size <= x /\ x < 2 * Size
          <6>1. Size \in Nat /\ Size > 1 /\ hdr[d] \in 0 .. Size + 1 /\ tail[d] \in 0 .. Size
            BY RingTypes, InputAssumption
          <6> QED BY <6>1, <4>3
        <5> HIDE DEF x
        <5>2. x % Size # 0
          BY <5>1, ModSize
        <5> QED BY <5>2 DEF x
      <4> QED BY <4>1, <4>4, <3>1, RingTypes
    <3> QED BY <3>2, <3>3
  <2>7. Cardinality(Past(d)') <= Len(Content(d)')
    <3>1. Cardinality(Past(d)) \in Nat /\ Len(Content(d)) \in Nat
      BY RingTypes, FS_CardinalityType, InputAssumption DEF Backed
    <3> QED BY <3>1, <2>4, <2>5, <2>6
  <2>8. \A b \in Actors : pc'[b].dev = d /\ pc'[b].op = "store" => pc'[b].head = hdr'[d]
    BY <2>1, <2>2, <1>2 DEF Backed
  <2>9. hdr'[d] <= Size
    BY <1>2 DEF Backed
  <2> QED BY <2>4, <2>5, <2>7, <2>8, <2>9 DEF Backed, Same
<1> QED BY <1>3, <1>4

(* A reader takes the first entry, and there is one. *)
LEMMA TakeGets ==
  ASSUME IInv, NEW d \in Devices, Backed(d), d \notin spoilt', NEW a \in Actors, Take(a),
         pc[a].dev = d
  PROVE  Backed(d)' /\ Queue(d)!Next
<1>1. pc[a] \in Call
  BY DEF IInv, TypeOK
<1>2. /\ pc[a].op = "take" /\ lock[d] = None
      /\ got' = [got EXCEPT ![d] = buf[d][tail[d]]]
      /\ tail' = [tail EXCEPT ![d] = tail[d] + 1]
      /\ UNCHANGED <<buf, hdr, top, test, spoilt>>
  BY DEF Take, At, IsFree
<1>3. tail[d] < Size
  BY <1>2, InvImplies DEF InRing
<1>4. /\ tail'[d] = tail[d] + 1 /\ buf'[d] = buf[d] /\ hdr'[d] = hdr[d]
      /\ got'[d] = buf[d][tail[d]]
  BY <1>2 DEF IInv, TypeOK
<1> DEFINE q == [pc[a] EXCEPT !.op = "taken"]
<1>5. q \in Call /\ q.op = "taken" /\ pc' = [pc EXCEPT ![a] = q]
  BY <1>1 DEF Call, Reading, Take, Go
<1> HIDE DEF q
<1>6. /\ pc'[a] = q
      /\ \A b \in Actors : b # a => pc'[b] = pc[b]
  BY <1>5, Moved
<1>7. Past(d)' = Past(d) \ {a} /\ a \in Past(d)
  BY <1>2, <1>5, <1>6 DEF Past
<1>8. /\ IsFiniteSet(Past(d)') /\ Cardinality(Past(d)') = Cardinality(Past(d)) - 1
      /\ Cardinality(Past(d)) \in Nat
  BY <1>7, FS_RemoveElement, FS_CardinalityType DEF Backed
<1>9. Cardinality(Past(d)) # 0
  BY <1>7, FS_EmptySet DEF Backed
<1>10. Len(Content(d)) \in Nat /\ Content(d) \in Seq(Codes) /\ Len(Content(d)) # 0
  BY <1>8, <1>9, RingTypes, InputAssumption DEF Backed
<1>11. Content(d) # << >>
  BY <1>10, EmptySeq
<1>12. buf[d] \in Ring /\ hdr[d] \in 0 .. Size /\ tail[d] \in 0 .. Size - 1
  BY <1>3, RingTypes, InputAssumption DEF Backed
<1>13. /\ Head(Content(d)) = buf[d][tail[d]]
       /\ Content(d)' = Tail(Content(d))
       /\ Len(Content(d)') = Len(Content(d)) - 1
  <2>1. Content(d) = Cont(buf[d], hdr[d], tail[d])
    BY ContentIs
  <2>2. Content(d)' = Cont(buf[d], hdr[d], tail[d] + 1)
    BY <1>4, ContentIs
  <2>3. /\ Head(Cont(buf[d], hdr[d], tail[d])) = buf[d][tail[d]]
        /\ Cont(buf[d], hdr[d], tail[d] + 1) = Tail(Cont(buf[d], hdr[d], tail[d]))
        /\ Len(Cont(buf[d], hdr[d], tail[d] + 1)) = Len(Cont(buf[d], hdr[d], tail[d])) - 1
    <3>1. Cont(buf[d], hdr[d], tail[d]) # << >>
      BY <2>1, <1>11
    <3> QED BY <3>1, <1>12, TakeFirst
  <2> QED BY <2>1, <2>2, <2>3, Zenon
<1>14. Queue(d)!Get
  BY <1>4, <1>11, <1>13 DEF Queue!Get
<1>15. Queue(d)!Next
  BY <1>14 DEF Queue!Next
<1>16. Cardinality(Past(d)') <= Len(Content(d)')
  BY <1>8, <1>10, <1>13 DEF Backed
<1>17. \A b \in Actors : pc'[b].dev = d /\ pc'[b].op = "store" => pc'[b].head = hdr'[d]
  BY <1>4, <1>5, <1>6 DEF Backed
<1>18. hdr'[d] <= Size
  BY <1>4 DEF Backed
<1> QED BY <1>8, <1>15, <1>16, <1>17, <1>18 DEF Backed

(* An actor moves the head on: an entry is put, or a full ring looks empty. *)
LEMMA StorePuts ==
  ASSUME IInv, NEW d \in Devices, Backed(d), d \notin spoilt', NEW a \in Actors, Store(a),
         pc[a].dev = d
  PROVE  Backed(d)' /\ Queue(d)!Next
<1>1. pc[a] \in Call /\ Size \in Nat
  BY InputAssumption DEF IInv, TypeOK
<1>2. /\ pc[a].op = "store" /\ UNCHANGED <<buf, tail, lock, top, test, got>>
      /\ hdr' = [hdr EXCEPT ![d] = NextPlace(pc[a].head)]
      /\ spoilt' = IF IsFull(d) /\ Past(d) # {} THEN spoilt \cup {d} ELSE spoilt
  BY DEF Store, At
<1>3. d \notin spoilt /\ (IsFull(d) => Past(d) = {})
  BY <1>2
<1>4. hdr[d] < Size /\ pc[a].head = hdr[d]
  BY <1>2, <1>3, HeadInRing DEF Backed
<1>5. /\ buf[d] \in Ring /\ hdr[d] \in 0 .. Size - 1 /\ tail[d] \in 0 .. Size
      /\ Content(d) \in Seq(Codes) /\ Len(Content(d)) \in Nat
  BY <1>1, <1>4, RingTypes
<1>6. /\ hdr'[d] = hdr[d] + 1 /\ buf'[d] = buf[d] /\ tail'[d] = tail[d] /\ got'[d] = got[d]
      /\ hdr'[d] <= Size
  <2>1. NextPlace(pc[a].head) = hdr[d] + 1
    BY <1>1, <1>4, <1>5 DEF NextPlace
  <2> QED BY <2>1, <1>1, <1>2, <1>5 DEF IInv, TypeOK
<1>7. Content(d)' = IF Len(Content(d)) = Size - 1 THEN << >>
                    ELSE Append(Content(d), buf[d][hdr[d]])
  <2>1. Content(d) = Cont(buf[d], hdr[d], tail[d])
    BY ContentIs
  <2>2. Content(d)' = Cont(buf[d], hdr[d] + 1, tail[d])
    BY <1>6, ContentIs
  <2>3. Cont(buf[d], hdr[d] + 1, tail[d]) =
          IF Len(Cont(buf[d], hdr[d], tail[d])) = Size - 1 THEN << >>
          ELSE Append(Cont(buf[d], hdr[d], tail[d]), buf[d][hdr[d]])
    BY <1>5, PutLast
  <2> QED BY <2>1, <2>2, <2>3
<1>8. buf[d][hdr[d]] \in Codes
  BY <1>5 DEF Ring
<1>9. Queue(d)!Next
  <2>1. Queue(d)!Put(buf[d][hdr[d]])
    BY <1>6, <1>7 DEF Queue!Put
  <2> QED BY <2>1, <1>8 DEF Queue!Next
<1> DEFINE q == [pc[a] EXCEPT !.op = "wrap", !.head = 0]
<1>10. q \in Call /\ q.op = "wrap" /\ pc' = [pc EXCEPT ![a] = q]
  <2>1. 0 \in 0 .. Size + 1
    BY <1>1
  <2> QED BY <2>1, <1>1 DEF Call, Putting, Store
<1> HIDE DEF q
<1>11. /\ pc'[a] = q
       /\ \A b \in Actors : b # a => pc'[b] = pc[b]
  BY <1>10, Moved
<1>12. Past(d)' = Past(d)
  BY <1>2, <1>10, <1>11 DEF Past
<1>13. Cardinality(Past(d)) <= Len(Content(d)')
  <2>1. Cardinality(Past(d)) \in Nat /\ Cardinality(Past(d)) <= Len(Content(d))
    BY FS_CardinalityType DEF Backed
  <2>2. CASE Len(Content(d)) = Size - 1
    <3>1. Past(d) = {}
      BY <2>2, <1>3 DEF IsFull
    <3>2. Cardinality(Past(d)) = 0 /\ Len(<< >>) = 0
      BY <3>1, FS_EmptySet
    <3> QED BY <3>2, <2>2, <1>7
  <2>3. CASE Len(Content(d)) # Size - 1
    <3>1. Len(Content(d)') = Len(Content(d)) + 1
      BY <2>3, <1>5, <1>7, <1>8, AppendProperties
    <3> QED BY <3>1, <2>1, <1>5
  <2> QED BY <2>2, <2>3
<1>14. \A b \in Actors : ~ (pc'[b].dev = d /\ pc'[b].op = "store")
  <2>1. ASSUME NEW b \in Actors, pc'[b].dev = d, pc'[b].op = "store" PROVE FALSE
    <3>1. b # a /\ pc'[b] = pc[b]
      BY <2>1, <1>10, <1>11
    <3> QED BY <3>1, <2>1, <1>2, <1>3 DEF IInv, Alone, InPut, Putting
  <2> QED BY <2>1
<1> QED BY <1>6, <1>9, <1>12, <1>13, <1>14 DEF Backed

(* The other steps on the ring of the device, and those on another *)
LEMMA RestKeeps ==
  ASSUME IInv, NEW d \in Devices, Backed(d), d \notin spoilt, NEW a \in Actors,
         \/ pc[a].dev # d /\ (Take(a) \/ Store(a))
         \/ Leave(a) \/ Write(a) \/ Load(a) \/ Wrap(a)
  PROVE  Backed(d)' /\ Same(d)
<1> DEFINE e == pc[a].dev
<1>1. /\ pc[a] \in Call /\ e \in Devices /\ Size \in Nat /\ Size > 1
      /\ pc[a].code \in Codes /\ Escape \in Codes
  BY InputAssumption DEF IInv, TypeOK, Call
<1>2. /\ buf[d] \in Ring /\ hdr[d] \in 0 .. Size /\ tail[d] \in 0 .. Size
      /\ hdr[e] \in 0 .. Size + 1
  <2>1. hdr[d] <= Size
    BY DEF Backed
  <2> QED BY <2>1, <1>1, RingTypes
<1>3. CASE e # d /\ (Take(a) \/ Store(a))
  <2> DEFINE t == [pc[a] EXCEPT !.op = "taken"]
             w == [pc[a] EXCEPT !.op = "wrap", !.head = 0]
  <2>1. t \in Call /\ t.op = "taken" /\ w \in Call /\ w.op = "wrap"
    <3>1. 0 \in 0 .. Size + 1
      BY <1>1
    <3> QED BY <3>1, <1>1 DEF Call, Reading, Putting
  <2>2. pc' = [pc EXCEPT ![a] = t] \/ pc' = [pc EXCEPT ![a] = w]
    BY <1>3 DEF Take, Store, Go
  <2>3. buf'[d] = buf[d] /\ hdr'[d] = hdr[d] /\ tail'[d] = tail[d] /\ got'[d] = got[d]
    BY <1>3 DEF Take, Store, IInv, TypeOK
  <2> HIDE DEF t, w
  <2> QED BY <2>1, <2>2, <2>3, <1>3, AsideKeeps
<1>4. CASE Leave(a)
  <2> DEFINE q == [Idle EXCEPT !.op = "put", !.dev = e, !.by = "back"]
  <2>1. q \in Call /\ q.op = "put" /\ Idle \in Call /\ Idle.op = "idle"
    BY <1>1, IdleTyped DEF Call, Putting
  <2>2. /\ pc' = [pc EXCEPT ![a] = q] \/ pc' = [pc EXCEPT ![a] = Idle]
        /\ pc[a].op = "taken" /\ UNCHANGED <<buf, hdr, got>>
        /\ tail' = [tail EXCEPT ![e] = Wrapped(tail[e])]
    BY <1>4 DEF Leave, At
  <2> HIDE DEF q
  <2>3. tail'[d] = tail[d] \/ tail'[d] = Wrapped(tail[d])
    BY <2>2, <1>1 DEF IInv, TypeOK
  <2>4. Content(d)' = Content(d)
    BY <2>2, <2>3, <1>2, ContentIs, WrapTail
  <2>5. hdr'[d] = hdr[d] /\ hdr'[d] <= Size /\ got'[d] = got[d]
    BY <2>2 DEF Backed
  <2> QED BY <2>1, <2>2, <2>4, <2>5, SameKeeps
<1>5. CASE Write(a)
  <2> DEFINE q == [pc[a] EXCEPT !.op = "load", !.code = Escape]
  <2>1. q \in Call /\ q.op = "load" /\ pc' = [pc EXCEPT ![a] = q]
    BY <1>1, <1>5 DEF Call, Putting, Write
  <2>2. pc[a].op = "write" /\ UNCHANGED <<hdr, tail, got>>
    BY <1>5 DEF Write, At
  <2> HIDE DEF q
  <2>3. buf'[d] = buf[d] \/ (hdr[d] < Size /\ buf'[d] = [buf[d] EXCEPT ![hdr[d]] = pc[a].code])
    BY <1>1, <1>5 DEF Write, IInv, TypeOK
  <2>4. Content(d)' = Content(d)
    <3>1. hdr[d] < Size => hdr[d] \in 0 .. Size - 1
      BY <1>1, <1>2
    <3> QED BY <3>1, <2>2, <2>3, <1>1, <1>2, ContentIs, WriteAside
  <2>5. hdr'[d] = hdr[d] /\ hdr'[d] <= Size /\ got'[d] = got[d]
    BY <2>2 DEF Backed
  <2> QED BY <2>1, <2>2, <2>4, <2>5, SameKeeps
<1>6. CASE Load(a)
  <2> DEFINE q == [pc[a] EXCEPT !.op = "store", !.head = hdr[e]]
  <2>1. q \in Call /\ q.op = "store" /\ q.dev = e /\ q.head = hdr[e]
    BY <1>1, <1>2 DEF Call, Putting
  <2>2. /\ pc' = [pc EXCEPT ![a] = q] /\ pc[a].op = "load"
        /\ UNCHANGED <<buf, hdr, tail, got>>
    BY <1>6 DEF Load, At
  <2> HIDE DEF q
  <2> QED BY <2>1, <2>2, AsideKeeps
<1>7. CASE Wrap(a)
  <2> DEFINE q == [Idle EXCEPT !.op = "some"]
  <2>1. q \in Call /\ q.op = "some" /\ Idle \in Call /\ Idle.op = "idle"
    BY IdleTyped DEF Call, Reading
  <2>2. /\ pc' = [pc EXCEPT ![a] = q] \/ pc' = [pc EXCEPT ![a] = Idle]
        /\ pc[a].op = "wrap" /\ UNCHANGED <<buf, tail, got>>
        /\ hdr' = [hdr EXCEPT ![e] = Wrapped(hdr[e])]
    BY <1>7 DEF Wrap, At
  <2> HIDE DEF q
  <2>3. CASE e # d
    <3>1. hdr'[d] = hdr[d] /\ buf'[d] = buf[d] /\ tail'[d] = tail[d] /\ got'[d] = got[d]
      BY <2>2, <2>3 DEF IInv, TypeOK
    <3> QED BY <3>1, <2>1, <2>2, AsideKeeps
  <2>4. CASE e = d
    <3>1. hdr'[d] = Wrapped(hdr[d])
      BY <2>2, <2>4 DEF IInv, TypeOK
    <3>2. Content(d)' = Content(d) /\ got'[d] = got[d]
      BY <3>1, <2>2, <1>2, ContentIs, WrapHead
    <3>3. hdr'[d] <= Size
      BY <3>1, <1>1, <1>2 DEF Wrapped
    <3>4. \A b \in Actors \ {a} : ~ (pc[b].dev = d /\ pc[b].op = "store")
      BY <2>2, <2>4 DEF IInv, Alone, InPut, Putting
    <3> QED BY <3>2, <3>3, <3>4, <2>1, <2>2, SameKeeps
  <2> QED BY <2>3, <2>4
<1> QED BY <1>3, <1>4, <1>5, <1>6, <1>7

(* Every step is a step of the queue of the device. *)
LEMMA StepIsQueue ==
  ASSUME IInv, QInv, [Next]_vars, NEW d \in Devices, d \notin spoilt'
  PROVE  Backed(d)' /\ (Queue(d)!Next \/ Same(d))
<1>0. /\ Irq \in Actors /\ \A t \in Tasks : t \in Actors
  BY DEF Actors
<1>1. spoilt \subseteq spoilt'
  BY DEF Next, Step, HasKey, Take, Leave, Enter, Write, Load, Store, Wrap, Raise, ShowTest,
         Read, PutKbd, KeyOrClick, NumsLock, Crossed, vars
<1>2. d \notin spoilt /\ Backed(d)
  BY <1>1 DEF QInv
<1>3. ASSUME NEW a \in Actors, Step(a)
      PROVE  Backed(d)' /\ (Queue(d)!Next \/ Same(d))
  <2>1. CASE HasKey(a)
    BY <2>1, <1>2, PassKeeps
  <2>2. CASE Enter(a)
    BY <2>2, <1>2, BegunAside
  <2>3. CASE pc[a].dev = d /\ Take(a)
    BY <2>3, <1>2, TakeGets
  <2>4. CASE pc[a].dev = d /\ Store(a)
    BY <2>4, <1>2, StorePuts
  <2>5. CASE \/ pc[a].dev # d /\ (Take(a) \/ Store(a))
             \/ Leave(a) \/ Write(a) \/ Load(a) \/ Wrap(a)
    BY <2>5, <1>2, RestKeeps
  <2> QED BY <2>1, <2>2, <2>3, <2>4, <2>5, <1>3 DEF Step
<1>4. ASSUME NEW t \in Tasks, NEW e \in Devices,
             Read(t, e) \/ \E c \in Codes : PutKbd(t, e, c)
      PROVE  Backed(d)' /\ Same(d)
  BY <1>0, <1>2, <1>4, BegunAside
<1>5. ASSUME NEW e \in Devices, NEW c \in Codes, KeyOrClick(e, c) \/ NumsLock(c)
      PROVE  Backed(d)' /\ Same(d)
  BY <1>0, <1>2, <1>5, BegunAside
<1>6. ASSUME (\E t \in Tasks : Raise(t) \/ ShowTest(t)) \/ UNCHANGED vars
      PROVE  Backed(d)' /\ Same(d)
  <2>1. UNCHANGED <<buf, hdr, tail, pc, got>>
    BY <1>6 DEF Raise, ShowTest, vars
  <2>2. Content(d)' = Content(d) /\ Past(d)' = Past(d)
    BY <2>1, ContentIs DEF Past
  <2> QED BY <2>1, <2>2, <1>2 DEF Backed, Same
<1>7. CASE \E c \in Codes : NumsLock(c)
  BY <1>0, <1>2, <1>7, BegunAside
<1> QED BY <1>3, <1>4, <1>5, <1>6, <1>7 DEF Next

LEMMA QueueInit == Init => QInv
<1> SUFFICES ASSUME Init, NEW d \in Devices PROVE Backed(d)
  BY DEF QInv
<1>1. IInv
  BY InitHolds
<1>2. hdr[d] = 0 /\ \A a \in Actors : pc[a].op = "idle"
  BY IdleTyped DEF Init
<1>3. Past(d) = {}
  BY <1>2 DEF Past
<1>4. IsFiniteSet(Past(d)) /\ Cardinality(Past(d)) = 0
  BY <1>3, FS_EmptySet
<1>5. Len(Content(d)) >= 0 /\ 0 <= Size
  BY <1>1, RingTypes, InputAssumption
<1> QED BY <1>2, <1>4, <1>5 DEF Backed

LEMMA QueueKeeps == IInv /\ QInv /\ [Next]_vars => QInv'
BY StepIsQueue DEF QInv

(* The rings of the keyboard and the mouse are queues: each entry is given
   once and in order, and a ring that overflows forgets them all, for any
   tasks, devices, entries and length, until two actors cross each other on
   the device (__kPutKbd, __kGetKbd and numsLockProc of kernel/keyboard.cpp,
   insertMouse and __kGetMouse of mouse.cpp). *)
THEOREM RingIsQueue == Spec => KeysAreQueue
<1>1. IInv /\ QInv /\ [Next]_vars =>
        [\A d \in Devices :
           d \in spoilt' \/ Queue(d)!Next \/ UNCHANGED <<Content(d), got[d]>>]_vars
  BY StepIsQueue DEF Same
<1> QED BY InitHolds, NextKeeps, QueueInit, QueueKeeps, <1>1, PTL DEF Spec, KeysAreQueue

=============================================================================
