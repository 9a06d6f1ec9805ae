-------------------------- MODULE IpiMailbox_proofs --------------------------
(***************************************************************************)
(* Messages are handled once, complete and on their CPU, for any number of  *)
(* CPUs, tasks, requests and slots, however interrupts are merged or go     *)
(* astray.  A message has one sender, who is in its two steps between the   *)
(* slot and the parameters with the lock of the mailbox, which a handler    *)
(* that takes messages has as well.                                         *)
(***************************************************************************)
EXTENDS IpiMailbox, FiniteSetTheorems, TLAPS

Slot == 1 .. Slots

(* The lock of a mailbox is with the sender or the handler that is inside. *)
Holds ==
    /\ \A t \in Tasks : pc[t].op \in {"claim", "fill"} => lock[Target(t)] = t
    /\ \A c \in Cpus : handler[c] \in {"in", "leave"} => lock[c] = c

(* A task that sends has a message of its own, which it has begun. *)
OneSender ==
    /\ \A t \in Tasks : pc[t].op # "idle" => pc[t].msg \in Msgs
    /\ \A t \in Tasks : pc[t].op \in {"enter", "claim", "fill"} => fate[pc[t].msg] = "begun"
    /\ \A t, u \in Tasks :
          pc[t].op # "idle" /\ pc[u].op # "idle" /\ pc[t].msg = pc[u].msg => t = u
    /\ \A t \in Tasks : pc[t].op # "idle" => fate[pc[t].msg] # "new"

(* A message is in one slot at most, from its sender's claim until it is
   handled, and its parameters are there unless its sender is about to write
   them. *)
OneSlot ==
    \A c \in Cpus, i \in Slot : box[c][i] # None =>
        /\ fate[box[c][i]] \in {"begun", "sent"}
        /\ \A j \in Slot : box[c][j] = box[c][i] => i = j
        /\ \A t \in Tasks : pc[t].op \in {"enter", "claim"} => pc[t].msg # box[c][i]
        /\ box[c][i] \notin whole =>
              \E t \in Tasks : pc[t].op = "fill" /\ pc[t].msg = box[c][i]

(* A command is only given after a destination. *)
Destined == \A t \in Tasks : pc[t].op = "cmd" => icr[CpuOf[t]] # None

IInv == HandledOnceWhole /\ Holds /\ OneSender /\ OneSlot /\ Destined

OpNames == {"idle", "enter", "claim", "fill", "dest", "cmd"}
Sender == [op : OpNames, msg : Msgs \cup {None}]
Fates == {"new", "begun", "sent", "refused", "handled", "again", "broken"}

-----------------------------------------------------------------------------

LEMMA Typed ==
  ASSUME TypeOK
  PROVE  /\ box \in [Cpus -> [Slot -> Msgs \cup {None}]] /\ whole \subseteq Msgs
         /\ lock \in [Cpus -> Tasks \cup Cpus \cup {None}]
         /\ pc \in [Tasks -> Sender] /\ fate \in [Msgs -> Fates]
         /\ handler \in [Cpus -> {"out", "spin", "in", "leave"}]
         /\ Idle \in Sender /\ Idle.op = "idle"
         /\ \A t \in Tasks : pc[t].op \in OpNames /\ pc[t].msg \in Msgs \cup {None}
BY DEF TypeOK, Sender, OpNames, Fates, Slot, Idle

(* One slot of the mailbox of c changes: what there is to know of its slots *)
LEMMA SlotPut ==
  ASSUME TypeOK, NEW c \in Cpus, NEW i \in Slot, NEW m \in Msgs \cup {None}
  PROVE  /\ [box[c] EXCEPT ![i] = m] \in [Slot -> Msgs \cup {None}]
         /\ [box[c] EXCEPT ![i] = m][i] = m
         /\ \A j \in Slot : j # i => [box[c] EXCEPT ![i] = m][j] = box[c][j]
<1>1. box[c] \in [Slot -> Msgs \cup {None}]
  BY Typed
<1> QED BY <1>1

(* The other mailboxes stay as they are. *)
LEMMA BoxPut ==
  ASSUME TypeOK, NEW c \in Cpus, NEW r \in [Slot -> Msgs \cup {None}]
  PROVE  /\ [box EXCEPT ![c] = r] \in [Cpus -> [Slot -> Msgs \cup {None}]]
         /\ [box EXCEPT ![c] = r][c] = r
         /\ \A d \in Cpus : d # c => [box EXCEPT ![c] = r][d] = box[d]
BY Typed

(* One task goes on. *)
LEMMA PcPut ==
  ASSUME TypeOK, NEW t \in Tasks, NEW op \in OpNames, Goto(t, op)
  PROVE  /\ pc' \in [Tasks -> Sender]
         /\ pc'[t].op = op /\ pc'[t].msg = pc[t].msg
         /\ \A u \in Tasks : u # t => pc'[u] = pc[u]
         /\ \A u \in Tasks : pc'[u].msg = pc[u].msg
BY Typed DEF Goto, Sender

LEMMA PcIdle ==
  ASSUME TypeOK, NEW t \in Tasks, pc' = [pc EXCEPT ![t] = Idle]
  PROVE  /\ pc' \in [Tasks -> Sender]
         /\ pc'[t].op = "idle"
         /\ \A u \in Tasks : u # t => pc'[u] = pc[u]
BY Typed DEF Idle, Sender, OpNames

LEMMA InitHolds == Init => IInv
<1> SUFFICES ASSUME Init PROVE IInv
  OBVIOUS
<1>1. Idle \in [op : {"idle", "enter", "claim", "fill", "dest", "cmd"}, msg : Msgs \cup {None}]
      /\ Idle.op = "idle"
  BY DEF Idle
<1>2. TypeOK
  BY <1>1, IpiAssumption DEF Init, TypeOK
<1>3. HandledOnceWhole
  BY <1>2 DEF Init, HandledOnceWhole
<1>4. Holds /\ OneSender /\ OneSlot /\ Destined
  BY <1>1 DEF Init, Holds, OneSender, OneSlot, Slot, Destined
<1> QED BY <1>3, <1>4 DEF IInv

(* The steps that touch neither mailboxes nor messages nor locks *)
LEMMA QuietKeep ==
  ASSUME IInv,
         \/ \E t \in Tasks : SetDest(t) \/ SetCmd(t) \/ SwitchTo(t)
         \/ \E c \in Cpus : IrqEnter(c)
  PROVE  IInv'
<1>0. TypeOK /\ UNCHANGED <<box, whole, lock, fate>>
  BY DEF IInv, HandledOnceWhole, SetDest, SetCmd, SwitchTo, IrqEnter
<1>1. ASSUME NEW t \in Tasks, SwitchTo(t) PROVE IInv'
  <2>1. CpuOf[t] \in Cpus /\ running' = [running EXCEPT ![CpuOf[t]] = t]
        /\ UNCHANGED <<pc, icr, irr, handler, lost>>
    BY <1>1, IpiAssumption DEF SwitchTo
  <2>2. TypeOK'
    BY <1>0, <2>1 DEF TypeOK
  <2> QED BY <1>0, <2>1, <2>2
          DEF IInv, HandledOnceWhole, Holds, OneSender, OneSlot, Destined, Target
<1>2. ASSUME NEW c \in Cpus, IrqEnter(c) PROVE IInv'
  <2>1. handler' = [handler EXCEPT ![c] = "spin"] /\ irr' \subseteq irr
        /\ UNCHANGED <<pc, icr, running, lost>>
    BY <1>2 DEF IrqEnter
  <2>2. TypeOK'
    BY <1>0, <2>1 DEF TypeOK
  <2>3. Holds'
    BY <1>0, <2>1, Typed DEF IInv, Holds, Target
  <2> QED BY <1>0, <2>1, <2>2, <2>3
          DEF IInv, HandledOnceWhole, OneSender, OneSlot, Destined
<1>3. ASSUME NEW t \in Tasks, SetDest(t) \/ SetCmd(t) PROVE IInv'
  <2>1. /\ pc[t].op \in {"dest", "cmd"} /\ pc[t].msg \in Msgs
        /\ UNCHANGED <<running, handler>>
    BY <1>3 DEF SetDest, SetCmd, At, IInv, OneSender
  <2>2. Target(t) \in Cpus /\ CpuOf[t] \in Cpus
    BY <2>1, IpiAssumption DEF Target
  <2>3. /\ pc' \in [Tasks -> Sender]
        /\ pc'[t].op = "idle" \/ (pc'[t].op = "cmd" /\ pc'[t].msg = pc[t].msg)
        /\ \A u \in Tasks : u # t => pc'[u] = pc[u]
    BY <1>0, <1>3, PcPut, PcIdle DEF SetDest, SetCmd, OpNames
  <2>4. TypeOK'
    <3>1. CASE SetDest(t)
      BY <1>0, <2>1, <2>2, <2>3, <3>1 DEF SetDest, TypeOK, Sender, OpNames
    <3>2. CASE SetCmd(t)
      <4>1. icr[CpuOf[t]] \in Cpus
        BY <3>2, <1>0, <2>2 DEF SetCmd, At, IInv, Destined, TypeOK
      <4> QED BY <1>0, <2>1, <2>2, <2>3, <3>2, <4>1 DEF SetCmd, TypeOK, Sender, OpNames
    <3> QED BY <3>1, <3>2, <1>3
  <2>5. Holds'
    BY <1>0, <2>1, <2>3 DEF IInv, Holds, Target
  <2>6. OneSender'
    BY <1>0, <2>1, <2>3 DEF IInv, OneSender
  <2>7. OneSlot'
    BY <1>0, <2>1, <2>3 DEF IInv, OneSlot
  <2>8. Destined'
    <3>1. CASE SetDest(t)
      <4>1. icr' = [icr EXCEPT ![CpuOf[t]] = Target(t)]
        BY <3>1 DEF SetDest
      <4>2. icr'[CpuOf[t]] # None /\ \A c \in Cpus : icr[c] # None => icr'[c] # None
        BY <1>0, <2>2, <4>1, IpiAssumption DEF TypeOK
      <4>3. \A u \in Tasks : CpuOf[u] \in Cpus /\ (u # t => pc'[u] = pc[u])
        BY <2>3, IpiAssumption
      <4> QED BY <4>2, <4>3 DEF IInv, Destined
    <3>2. CASE SetCmd(t)
      BY <1>0, <2>3, <3>2, PcIdle DEF SetCmd, IInv, Destined
    <3> QED BY <3>1, <3>2, <1>3
  <2> QED BY <1>0, <2>4, <2>5, <2>6, <2>7, <2>8 DEF IInv, HandledOnceWhole
<1> QED BY <1>1, <1>2, <1>3

(* A request begins, waits for the lock or is refused. *)
LEMMA RequestKeeps ==
  ASSUME IInv, NEW t \in Tasks,
         EnterLock(t) \/ Refuse(t) \/ \E m \in Msgs : Begin(t, m)
  PROVE  IInv'
<1>0. TypeOK /\ UNCHANGED <<box, whole, running, icr, irr, handler, lost>>
  BY DEF IInv, HandledOnceWhole, EnterLock, Refuse, Begin
<1>1. /\ pc \in [Tasks -> Sender] /\ fate \in [Msgs -> Fates]
      /\ lock \in [Cpus -> Tasks \cup Cpus \cup {None}]
  BY <1>0, Typed
<1>2. ASSUME NEW m \in Msgs, Begin(t, m) PROVE IInv'
  <2> DEFINE q == [op |-> "enter", msg |-> m]
  <2>1. q \in Sender /\ q.op = "enter" /\ q.msg = m
    BY DEF Sender, OpNames
  <2>2. /\ pc' = [pc EXCEPT ![t] = q] /\ fate' = [fate EXCEPT ![m] = "begun"]
        /\ fate[m] = "new" /\ lock' = lock
    BY <1>2 DEF Begin
  <2> HIDE DEF q
  <2>3. /\ pc' \in [Tasks -> Sender] /\ pc'[t] = q
        /\ \A u \in Tasks : u # t => pc'[u] = pc[u]
    BY <1>1, <2>1, <2>2
  <2>4. /\ fate' \in [Msgs -> Fates] /\ fate'[m] = "begun"
        /\ \A n \in Msgs : n # m => fate'[n] = fate[n]
    BY <1>1, <2>2 DEF Fates
  <2>5. \A u \in Tasks : pc[u].op # "idle" => pc[u].msg # m /\ pc[u].msg \in Msgs
    BY <2>2 DEF IInv, OneSender
  <2>6. \A c \in Cpus, i \in Slot : box[c][i] # None => box[c][i] # m
    BY <2>2 DEF IInv, OneSlot
  <2>7. \A c \in Cpus, i \in Slot : box[c][i] \in Msgs \cup {None}
    BY <1>0, Typed
  <2>8. TypeOK'
    BY <1>0, <2>2, <2>3, <2>4 DEF TypeOK, Sender, OpNames, Fates
  <2>9. HandledOnceWhole'
    BY <1>0, <2>4, <2>8 DEF IInv, HandledOnceWhole
  <2>10. Holds'
    BY <1>0, <2>1, <2>2, <2>3 DEF IInv, Holds, Target
  <2>11. OneSender'
    BY <2>1, <2>3, <2>4, <2>5 DEF IInv, OneSender
  <2>12. OneSlot'
    <3>1. \A u \in Tasks : pc[u].op = "fill" => pc'[u] = pc[u]
      BY <1>2, <2>3 DEF Begin, At
    <3> QED BY <1>0, <2>1, <2>3, <2>4, <2>6, <2>7, <3>1 DEF IInv, OneSlot
  <2>13. Destined'
    BY <1>0, <2>1, <2>3 DEF IInv, Destined
  <2> QED BY <2>9, <2>10, <2>11, <2>12, <2>13 DEF IInv
<1>3. CASE EnterLock(t)
  <2>1. /\ pc[t].op = "enter" /\ pc[t].msg \in Msgs /\ Goto(t, "claim")
        /\ lock[Target(t)] = None /\ lock' = [lock EXCEPT ![Target(t)] = t]
        /\ fate' = fate
    BY <1>3 DEF EnterLock, At, IsFree, IInv, OneSender
  <2>2. Target(t) \in Cpus
    BY <2>1, IpiAssumption DEF Target
  <2>3. /\ pc' \in [Tasks -> Sender]
        /\ pc'[t].op = "claim" /\ pc'[t].msg = pc[t].msg
        /\ \A u \in Tasks : u # t => pc'[u] = pc[u]
    BY <1>0, <2>1, PcPut DEF OpNames
  <2>4. /\ lock' \in [Cpus -> Tasks \cup Cpus \cup {None}] /\ lock'[Target(t)] = t
        /\ \A c \in Cpus : c # Target(t) => lock'[c] = lock[c]
    BY <1>1, <2>1, <2>2
  <2>5. TypeOK'
    BY <1>0, <2>1, <2>3, <2>4 DEF TypeOK, Sender, OpNames
  <2>6. Holds'
    <3>1. \A u \in Tasks : pc[u].op \in {"claim", "fill"} => Target(u) # Target(t)
      BY <2>1, IpiAssumption DEF IInv, Holds
    <3>2. \A c \in Cpus : handler[c] \in {"in", "leave"} => c # Target(t)
      BY <2>1, IpiAssumption DEF IInv, Holds
    <3>3. \A u \in Tasks : pc[u].op \in {"claim", "fill"} => Target(u) \in Cpus
      BY IpiAssumption DEF IInv, OneSender, Target
    <3> QED BY <1>0, <2>3, <2>4, <3>1, <3>2, <3>3 DEF IInv, Holds, Target
  <2>7. OneSender'
    BY <2>1, <2>3 DEF IInv, OneSender
  <2>8. OneSlot'
    BY <1>0, <2>1, <2>3 DEF IInv, OneSlot
  <2>9. Destined'
    BY <1>0, <2>1, <2>3 DEF IInv, Destined
  <2> QED BY <1>0, <2>1, <2>5, <2>6, <2>7, <2>8, <2>9 DEF IInv, HandledOnceWhole
<1>4. CASE Refuse(t)
  <2> DEFINE m == pc[t].msg
  <2>1. /\ pc[t].op = "claim" /\ m \in Msgs /\ pc' = [pc EXCEPT ![t] = Idle]
        /\ lock[Target(t)] = t /\ lock' = [lock EXCEPT ![Target(t)] = None]
        /\ fate' = [fate EXCEPT ![m] = "refused"]
    BY <1>4 DEF Refuse, At, IInv, OneSender, Holds
  <2>2. Target(t) \in Cpus
    BY <2>1, IpiAssumption DEF Target
  <2>3. /\ pc' \in [Tasks -> Sender] /\ pc'[t].op = "idle"
        /\ \A u \in Tasks : u # t => pc'[u] = pc[u]
    BY <1>0, <2>1, PcIdle
  <2>4. /\ lock' \in [Cpus -> Tasks \cup Cpus \cup {None}]
        /\ \A c \in Cpus : c # Target(t) => lock'[c] = lock[c]
    BY <1>1, <2>1, <2>2
  <2>5. /\ fate' \in [Msgs -> Fates] /\ fate'[m] = "refused"
        /\ \A n \in Msgs : n # m => fate'[n] = fate[n]
    BY <1>1, <2>1 DEF Fates
  <2>6. \A u \in Tasks : u # t /\ pc[u].op # "idle" => pc[u].msg # m
    BY <2>1 DEF IInv, OneSender
  <2>7. \A c \in Cpus, i \in Slot : box[c][i] # None => box[c][i] # m
    BY <2>1 DEF IInv, OneSlot
  <2> HIDE DEF m
  <2>8. TypeOK'
    BY <1>0, <2>3, <2>4, <2>5 DEF TypeOK, Sender, OpNames, Fates
  <2>9. HandledOnceWhole'
    BY <1>0, <2>5, <2>8 DEF IInv, HandledOnceWhole
  <2>10. Holds'
    <3>1. \A u \in Tasks : pc[u].op \in {"claim", "fill"} /\ u # t => Target(u) # Target(t)
      BY <2>1 DEF IInv, Holds
    <3>2. \A c \in Cpus : handler[c] \in {"in", "leave"} => c # Target(t)
      BY <2>1, IpiAssumption DEF IInv, Holds
    <3>3. \A u \in Tasks : pc[u].op \in {"claim", "fill"} => Target(u) \in Cpus
      BY IpiAssumption DEF IInv, OneSender, Target
    <3> QED BY <1>0, <2>3, <2>4, <3>1, <3>2, <3>3 DEF IInv, Holds, Target
  <2>11. OneSender'
    BY <2>3, <2>5, <2>6 DEF IInv, OneSender
  <2>12. OneSlot'
    <3>1. \A c \in Cpus, i \in Slot : box[c][i] \in Msgs \cup {None}
      BY <1>0, Typed
    <3>2. \A u \in Tasks : pc[u].op = "fill" => pc'[u] = pc[u]
      BY <2>1, <2>3
    <3> QED BY <1>0, <2>3, <2>5, <2>7, <3>1, <3>2 DEF IInv, OneSlot
  <2>13. Destined'
    BY <1>0, <2>3 DEF IInv, Destined
  <2> QED BY <2>9, <2>10, <2>11, <2>12, <2>13 DEF IInv
<1> QED BY <1>2, <1>3, <1>4

(* The two steps under the lock of the mailbox *)
LEMMA ClaimKeeps ==
  ASSUME IInv, NEW t \in Tasks, Claim(t)
  PROVE  IInv'
<1>0. TypeOK /\ UNCHANGED <<whole, lock, running, icr, irr, handler, fate, lost>>
  BY DEF IInv, HandledOnceWhole, Claim
<1> PICK m \in Msgs, d \in Cpus : m = pc[t].msg /\ d = Target(t)
  BY IpiAssumption DEF Claim, At, IInv, OneSender, Target
<1>1. /\ pc[t].op = "claim" /\ pc[t].msg = m /\ Target(t) = d /\ Goto(t, "fill")
      /\ fate[m] = "begun" /\ d = TargetOf[m]
  BY DEF Claim, At, IInv, OneSender, Target
<1>2. PICK i \in Slot : i \in FreeSlots(d) /\ box' = [box EXCEPT ![d][i] = m]
  BY <1>1 DEF Claim, IsLeast, Slot
<1>3. /\ pc' \in [Tasks -> Sender]
      /\ pc'[t].op = "fill" /\ pc'[t].msg = m
      /\ \A u \in Tasks : u # t => pc'[u] = pc[u]
  BY <1>0, <1>1, PcPut DEF OpNames
<1>4. \A c \in Cpus, j \in Slot : box[c][j] # None => box[c][j] # m
  BY <1>1 DEF IInv, OneSlot
<1>5. None \notin Msgs
  BY IpiAssumption
<1>7. /\ box' \in [Cpus -> [Slot -> Msgs \cup {None}]]
      /\ box'[d][i] = m
      /\ \A c \in Cpus, j \in Slot : (c # d \/ j # i) => box'[c][j] = box[c][j]
  <2> DEFINE r == [box[d] EXCEPT ![i] = m]
  <2>1. box' = [box EXCEPT ![d] = r]
    BY <1>2
  <2>2. r \in [Slot -> Msgs \cup {None}] /\ r[i] = m /\ \A j \in Slot : j # i => r[j] = box[d][j]
    BY <1>0, SlotPut
  <2> HIDE DEF r
  <2> QED BY <1>0, <2>1, <2>2, BoxPut
<1>8. TypeOK'
  BY <1>0, <1>3, <1>7 DEF TypeOK, Sender, OpNames, Slot
<1>9. HandledOnceWhole'
  BY <1>0, <1>1, <1>7, <1>8 DEF IInv, HandledOnceWhole, Slot
<1>10. Holds'
  BY <1>0, <1>1, <1>3 DEF IInv, Holds, Target
<1>11. OneSender'
  BY <1>0, <1>1, <1>3 DEF IInv, OneSender
<1>12. OneSlot'
  <2>1. ASSUME NEW c \in Cpus, NEW j \in Slot, box'[c][j] # None
        PROVE  /\ fate[box'[c][j]] \in {"begun", "sent"}
               /\ \A k \in Slot : box'[c][k] = box'[c][j] => j = k
               /\ \A u \in Tasks : pc'[u].op \in {"enter", "claim"} => pc'[u].msg # box'[c][j]
               /\ box'[c][j] \notin whole =>
                     \E u \in Tasks : pc'[u].op = "fill" /\ pc'[u].msg = box'[c][j]
    <3>1. CASE c = d /\ j = i
      <4>1. box'[c][j] = m
        BY <3>1, <1>7
      <4>2. \A k \in Slot : k # i => box'[d][k] # m
        BY <1>1, <1>4, <1>5, <1>7
      <4>3. \A u \in Tasks : u # t /\ pc[u].op \in {"enter", "claim"} => pc[u].msg # m
        BY <1>1 DEF IInv, OneSender
      <4> QED BY <3>1, <4>1, <4>2, <4>3, <1>1, <1>3
    <3>2. CASE c # d \/ j # i
      <4>1. box'[c][j] = box[c][j] /\ box[c][j] # m
        BY <3>2, <2>1, <1>4, <1>7
      <4>2. \A k \in Slot : box'[c][k] = box[c][j] => box[c][k] = box[c][j]
        BY <4>1, <1>7
      <4> QED BY <2>1, <4>1, <4>2, <1>1, <1>3 DEF IInv, OneSlot
    <3> QED BY <3>1, <3>2
  <2> QED BY <2>1, <1>0 DEF OneSlot
<1>13. Destined'
  BY <1>0, <1>3 DEF IInv, Destined
<1> QED BY <1>9, <1>10, <1>11, <1>12, <1>13 DEF IInv

LEMMA FillKeeps ==
  ASSUME IInv, NEW t \in Tasks, Fill(t)
  PROVE  IInv'
<1> DEFINE m == pc[t].msg
           d == Target(t)
<1>0. TypeOK /\ UNCHANGED <<box, running, icr, irr, handler, lost>>
  BY DEF IInv, HandledOnceWhole, Fill
<1>1. /\ pc[t].op = "fill" /\ m \in Msgs /\ Goto(t, "dest")
      /\ fate[m] = "begun" /\ d \in Cpus /\ lock[d] = t
  BY IpiAssumption DEF Fill, At, IInv, OneSender, Holds, Target
<1>2. /\ whole' = whole \cup {m} /\ lock' = [lock EXCEPT ![d] = None]
      /\ fate' = [fate EXCEPT ![m] = "sent"]
  BY <1>1 DEF Fill
<1>3. /\ pc' \in [Tasks -> Sender]
      /\ pc'[t].op = "dest" /\ pc'[t].msg = m
      /\ \A u \in Tasks : u # t => pc'[u] = pc[u]
  BY <1>0, <1>1, PcPut DEF OpNames
<1>4. \A u \in Tasks : u # t /\ pc[u].op # "idle" => pc[u].msg # m /\ pc[u].msg \in Msgs
  BY <1>1 DEF IInv, OneSender
<1>5. \A u \in Tasks : pc[u].op \in {"claim", "fill"} /\ u # t =>
          Target(u) # d /\ Target(u) \in Cpus
  BY <1>1, IpiAssumption DEF IInv, OneSender, Holds, Target
<1>6. \A c \in Cpus : handler[c] \in {"in", "leave"} => c # d
  BY <1>1, IpiAssumption DEF IInv, Holds
<1> HIDE DEF m, d
<1>7. /\ lock' \in [Cpus -> Tasks \cup Cpus \cup {None}]
      /\ \A c \in Cpus : c # d => lock'[c] = lock[c]
  BY <1>0, <1>1, <1>2, Typed
<1>8. /\ fate' \in [Msgs -> Fates] /\ fate'[m] = "sent"
      /\ \A n \in Msgs : n # m => fate'[n] = fate[n]
  BY <1>0, <1>1, <1>2, Typed DEF Fates
<1>9. TypeOK'
  BY <1>0, <1>1, <1>2, <1>3, <1>7, <1>8 DEF TypeOK, Sender, OpNames, Fates
<1>10. HandledOnceWhole'
  BY <1>0, <1>8, <1>9 DEF IInv, HandledOnceWhole
<1>11. Holds'
  BY <1>0, <1>3, <1>5, <1>6, <1>7 DEF IInv, Holds, Target
<1>12. OneSender'
  BY <1>1, <1>3, <1>4, <1>8 DEF IInv, OneSender, m
<1>13. OneSlot'
  <2>1. \A c \in Cpus, i \in Slot : box[c][i] \in Msgs \cup {None}
    BY <1>0, Typed
  <2>2. \A n \in Msgs : n \notin whole' => n \notin whole /\ n # m
    BY <1>2
  <2>3. \A u \in Tasks, n \in Msgs : n # m /\ pc[u].op = "fill" /\ pc[u].msg = n
            => pc'[u] = pc[u]
    BY <1>3 DEF m
  <2>4. \A u \in Tasks : pc'[u].op \in {"enter", "claim"} => pc'[u] = pc[u]
    BY <1>3
  <2> QED BY <1>0, <1>8, <2>1, <2>2, <2>3, <2>4 DEF IInv, OneSlot
<1>14. Destined'
  BY <1>0, <1>3 DEF IInv, Destined
<1> QED BY <1>10, <1>11, <1>12, <1>13, <1>14 DEF IInv

(* The handler takes the lock and leaves it. *)
LEMMA HandlerLockKeeps ==
  ASSUME IInv, NEW c \in Cpus, IrqLock(c) \/ IrqLeave(c)
  PROVE  IInv'
<1>0. TypeOK /\ UNCHANGED <<box, whole, running, pc, icr, irr, fate, lost>>
  BY DEF IInv, HandledOnceWhole, IrqLock, IrqLeave
<1>1. PICK h \in {"in", "out"} : handler' = [handler EXCEPT ![c] = h]
  BY DEF IrqLock, IrqLeave
<1>2. PICK l \in {c, None} : lock' = [lock EXCEPT ![c] = l] /\ (h = "in" => l = c)
  BY <1>0, <1>1, Typed DEF IrqLock, IrqLeave
<1>3. lock[c] \in {None, c}
  BY DEF IrqLock, IrqLeave, IInv, Holds
<1>4. /\ lock' \in [Cpus -> Tasks \cup Cpus \cup {None}] /\ lock'[c] = l
      /\ handler' \in [Cpus -> {"out", "spin", "in", "leave"}] /\ handler'[c] = h
      /\ \A d \in Cpus : d # c => lock'[d] = lock[d] /\ handler'[d] = handler[d]
  BY <1>0, <1>1, <1>2, Typed
<1>5. TypeOK'
  BY <1>0, <1>4 DEF TypeOK
<1>6. Holds'
  <2>1. \A u \in Tasks : pc[u].op \in {"claim", "fill"} => Target(u) # c /\ Target(u) \in Cpus
    BY <1>3, IpiAssumption DEF IInv, Holds, OneSender, Target
  <2> QED BY <1>0, <1>2, <1>4, <2>1 DEF IInv, Holds, Target
<1> QED BY <1>0, <1>5, <1>6 DEF IInv, HandledOnceWhole, OneSender, OneSlot, Destined

(* One message is handled. *)
LEMMA HandleKeeps ==
  ASSUME IInv, NEW c \in Cpus, IrqHandle(c)
  PROVE  IInv'
<1>0. /\ TypeOK /\ UNCHANGED <<whole, lock, running, pc, icr, irr, lost>>
      /\ handler[c] = "in" /\ lock[c] = c /\ handler' = [handler EXCEPT ![c] = "leave"]
  BY DEF IInv, HandledOnceWhole, IrqHandle, Holds
<1>1. /\ handler' \in [Cpus -> {"out", "spin", "in", "leave"}]
      /\ \A d \in Cpus : handler'[d] \in {"in", "leave"} => handler[d] \in {"in", "leave"}
  BY <1>0, Typed
<1>2. Holds'
  BY <1>0, <1>1 DEF IInv, Holds, Target
<1>3. CASE UNCHANGED <<box, fate>>
  <2>1. TypeOK'
    BY <1>0, <1>1, <1>3 DEF TypeOK
  <2> QED BY <2>1, <1>0, <1>2, <1>3
          DEF IInv, HandledOnceWhole, OneSender, OneSlot, Destined
<1>4. ASSUME NEW i \in Slot, i \in ValidSlots(c),
             box' = [box EXCEPT ![c][i] = None],
             fate' = [fate EXCEPT ![box[c][i]] =
                         IF @ = "handled" THEN "again"
                         ELSE IF box[c][i] \in whole THEN "handled" ELSE "broken"]
      PROVE  IInv'
  <2>0. /\ box' \in [Cpus -> [Slot -> Msgs \cup {None}]] /\ box'[c][i] = None
        /\ \A d \in Cpus, j \in Slot : (d # c \/ j # i) => box'[d][j] = box[d][j]
    <3> DEFINE r == [box[c] EXCEPT ![i] = None]
    <3>1. box' = [box EXCEPT ![c] = r]
      BY <1>4
    <3>2. /\ r \in [Slot -> Msgs \cup {None}] /\ r[i] = None
          /\ \A j \in Slot : j # i => r[j] = box[c][j]
      BY <1>0, SlotPut
    <3> HIDE DEF r
    <3> QED BY <1>0, <3>1, <3>2, BoxPut
  <2> DEFINE m == box[c][i]
  <2>1. m \in Msgs /\ m # None /\ TargetOf[m] = c /\ fate[m] \in {"begun", "sent"}
    BY <1>0, <1>4, Typed DEF ValidSlots, FreeSlots, IInv, HandledOnceWhole, OneSlot, Slot
  <2>2. \A t \in Tasks : pc[t].op \in {"enter", "claim", "fill"} => pc[t].msg # m
    <3>1. \A t \in Tasks : pc[t].op = "fill" /\ pc[t].msg = m => lock[c] = t
      BY <2>1 DEF IInv, Holds, Target
    <3>2. \A t \in Tasks : t # c
      BY IpiAssumption
    <3> QED BY <1>0, <2>1, <3>1, <3>2 DEF IInv, OneSlot
  <2>3. m \in whole
    BY <2>1, <2>2 DEF IInv, OneSlot
  <2>4. \A d \in Cpus, j \in Slot : box[d][j] # None /\ (d # c \/ j # i) => box[d][j] # m
    BY <2>1 DEF IInv, HandledOnceWhole, OneSlot, Slot
  <2>5. fate' = [fate EXCEPT ![m] = "handled"]
    BY <1>4, <2>1, <2>3
  <2> HIDE DEF m
  <2>7. /\ fate' \in [Msgs -> Fates] /\ fate'[m] = "handled"
        /\ \A n \in Msgs : n # m => fate'[n] = fate[n]
    BY <1>0, <2>1, <2>5, Typed DEF Fates
  <2>8. TypeOK'
    BY <1>0, <1>1, <2>0, <2>7 DEF TypeOK, Fates, Slot
  <2>9. HandledOnceWhole'
    BY <2>0, <2>7, <2>8 DEF IInv, HandledOnceWhole, Slot
  <2>10. OneSender'
    BY <1>0, <2>2, <2>7 DEF IInv, OneSender
  <2>11. OneSlot'
    <3>1. \A d \in Cpus, j \in Slot : box'[d][j] # None =>
              box'[d][j] = box[d][j] /\ box[d][j] # m /\ box[d][j] \in Msgs
      BY <1>0, <2>4, <2>0
    <3> QED BY <1>0, <2>7, <3>1 DEF IInv, OneSlot
  <2>12. Destined'
    BY <1>0 DEF IInv, Destined
  <2> QED BY <1>2, <2>9, <2>10, <2>11, <2>12 DEF IInv
<1> QED BY <1>3, <1>4 DEF IrqHandle, IsLeast, ValidSlots, Slot

LEMMA NextKeeps == IInv /\ [Next]_vars => IInv'
<1> SUFFICES ASSUME IInv, [Next]_vars PROVE IInv'
  OBVIOUS
<1>1. ASSUME NEW t \in Tasks, Send(t) PROVE IInv'
  BY <1>1, RequestKeeps, ClaimKeeps, FillKeeps, QuietKeep DEF Send
<1>2. ASSUME NEW t \in Tasks, SwitchTo(t) PROVE IInv'
  BY <1>2, QuietKeep
<1>3. ASSUME NEW t \in Tasks, NEW m \in Msgs, Begin(t, m) PROVE IInv'
  BY <1>3, RequestKeeps
<1>4. ASSUME NEW c \in Cpus, Irq(c) PROVE IInv'
  BY <1>4, QuietKeep, HandlerLockKeeps, HandleKeeps DEF Irq
<1>5. CASE UNCHANGED vars
  BY <1>5 DEF vars, IInv, HandledOnceWhole, TypeOK, Holds, OneSender, OneSlot, Destined, Target
<1> QED BY <1>1, <1>2, <1>3, <1>4, <1>5 DEF Next

(* A message is handled once, on its CPU, after its parameters were written. *)
THEOREM OnceAndWhole == Spec => []HandledOnceWhole
<1>1. IInv => HandledOnceWhole
  BY DEF IInv
<1> QED BY InitHolds, NextKeeps, <1>1, PTL DEF Spec

-----------------------------------------------------------------------------
(* No message is left behind.  For every CPU the messages in its mailbox are
   counted against what is still to take one: the senders that have claimed a
   slot and not given the command, the interrupt that is pending and the
   handler that has not looked yet.  Each step keeps the balance, but for a
   command that is merged or goes astray. *)

Senders(c) == {t \in Tasks : pc[t].op \in {"fill", "dest", "cmd"} /\ Target(t) = c}
Armed(c) == IF c \in irr THEN 1 ELSE 0
Busy(c) == IF handler[c] \in {"spin", "in"} THEN 1 ELSE 0

LEMMA Counts ==
  ASSUME NEW c
  PROVE  /\ IsFiniteSet(Senders(c)) /\ Cardinality(Senders(c)) \in Nat
         /\ IsFiniteSet(ValidSlots(c)) /\ Cardinality(ValidSlots(c)) \in Nat
         /\ Armed(c) \in {0, 1} /\ Busy(c) \in {0, 1}
         /\ Coming(c) = Cardinality(Senders(c)) + Armed(c) + Busy(c)
<1>1. IsFiniteSet(Senders(c))
  BY IpiAssumption, FS_Subset DEF Senders
<1>2. IsFiniteSet(1 .. Slots)
  BY IpiAssumption, FS_Interval
<1>3. IsFiniteSet(ValidSlots(c))
  BY <1>2, FS_Subset DEF ValidSlots
<1> QED BY <1>1, <1>3, FS_CardinalityType DEF Armed, Busy, Coming, Senders

(* What a step may do to the mailbox of c: nothing, a message that a sender
   puts there, an interrupt or its handler that take the sender's place, a
   message that the handler takes. *)
Same(c) ==
    ValidSlots(c)' = ValidSlots(c) /\ Senders(c)' = Senders(c)
      /\ Armed(c)' + Busy(c)' = Armed(c) + Busy(c)
Put(c) ==
    \E t \in Tasks \ Senders(c), i \in Slot \ ValidSlots(c) :
        /\ Senders(c)' = Senders(c) \cup {t} /\ ValidSlots(c)' = ValidSlots(c) \cup {i}
        /\ Armed(c)' = Armed(c) /\ Busy(c)' = Busy(c)
Sent(c) ==
    \E t \in Senders(c) :
        /\ Senders(c)' = Senders(c) \ {t} /\ ValidSlots(c)' = ValidSlots(c)
        /\ Armed(c)' = Armed(c) + 1 /\ Busy(c)' = Busy(c)
Taken(c) ==
    /\ Senders(c)' = Senders(c) /\ Armed(c)' = Armed(c) /\ Busy(c)' = Busy(c) - 1
    /\ \/ ValidSlots(c) = {} /\ ValidSlots(c)' = {}
       \/ \E i \in ValidSlots(c) : ValidSlots(c)' = ValidSlots(c) \ {i}

LEMMA BalanceKept ==
  ASSUME NEW c \in Cpus, Cardinality(ValidSlots(c)) <= Coming(c),
         Same(c) \/ Put(c) \/ Sent(c) \/ Taken(c)
  PROVE  Cardinality(ValidSlots(c)') <= Coming(c)'
<1> DEFINE S == Senders(c)
           V == ValidSlots(c)
           n == Cardinality(S)
           v == Cardinality(V)
           a == Armed(c)
           b == Busy(c)
<1>1. IsFiniteSet(S) /\ IsFiniteSet(V) /\ n \in Nat /\ v \in Nat /\ a \in Nat /\ b \in Nat
      /\ v <= n + a + b
  BY Counts
<1>2. Armed(c)' \in {0, 1} /\ Busy(c)' \in {0, 1}
  BY DEF Armed, Busy
<1>3. Coming(c)' = Cardinality(Senders(c)') + Armed(c)' + Busy(c)'
  BY DEF Armed, Busy, Coming, Senders
<1> HIDE DEF S, V, n, v, a, b
<1>4. CASE Same(c)
  <2>1. ValidSlots(c)' = V /\ Senders(c)' = S /\ Armed(c)' + Busy(c)' = a + b
    BY <1>4 DEF Same, S, V, a, b
  <2>2. Cardinality(ValidSlots(c)') = v /\ Cardinality(Senders(c)') = n
    BY <2>1 DEF n, v
  <2> QED BY <1>1, <1>2, <1>3, <2>1, <2>2
<1>5. CASE Put(c)
  <2> PICK t \in Tasks \ S, i \in Slot \ V :
        /\ Senders(c)' = S \cup {t} /\ ValidSlots(c)' = V \cup {i}
        /\ Armed(c)' = a /\ Busy(c)' = b
    BY <1>5 DEF Put, S, V, a, b
  <2>1. Cardinality(Senders(c)') = n + 1
    BY <1>1, FS_AddElement DEF n
  <2>2. Cardinality(ValidSlots(c)') = v + 1
    BY <1>1, FS_AddElement DEF v
  <2> QED BY <1>1, <1>3, <2>1, <2>2
<1>6. CASE Sent(c)
  <2> PICK t \in S :
        /\ Senders(c)' = S \ {t} /\ ValidSlots(c)' = V
        /\ Armed(c)' = a + 1 /\ Busy(c)' = b
    BY <1>6 DEF Sent, S, V, a, b
  <2>1. Cardinality(Senders(c)') = n - 1
    BY <1>1, FS_RemoveElement DEF n
  <2>2. Cardinality(ValidSlots(c)') = v
    BY DEF v
  <2> QED BY <1>1, <1>3, <2>1, <2>2
<1>7. CASE Taken(c)
  <2>0. /\ Senders(c)' = S /\ Armed(c)' = a /\ Busy(c)' = b - 1
        /\ \/ V = {} /\ ValidSlots(c)' = {}
           \/ \E i \in V : ValidSlots(c)' = V \ {i}
    BY <1>7 DEF Taken, S, V, a, b
  <2>1. Cardinality(Senders(c)') = n
    BY <2>0 DEF n
  <2>2. Cardinality(ValidSlots(c)') = 0 \/ Cardinality(ValidSlots(c)') = v - 1
    BY <1>1, <2>0, FS_EmptySet, FS_RemoveElement DEF v
  <2> QED BY <1>1, <1>2, <1>3, <2>0, <2>1, <2>2
<1> QED BY <1>4, <1>5, <1>6, <1>7

(* Every step does one of these to every mailbox, unless it loses an
   interrupt. *)
LEMMA StepBalances ==
  ASSUME IInv, [Next]_vars, lost' = {}, NEW c \in Cpus
  PROVE  lost = {} /\ (Same(c) \/ Put(c) \/ Sent(c) \/ Taken(c))
<1> USE DEF Armed, Busy
<1>0. TypeOK
  BY DEF IInv, HandledOnceWhole
\* what Same needs
<1>a. ASSUME box' = box, irr' = irr, lost' = lost,
             handler'[c] \in {"spin", "in"} <=> handler[c] \in {"spin", "in"},
             \A t \in Tasks : \/ pc'[t] = pc[t]
                              \/ /\ pc'[t].op \in {"fill", "dest", "cmd"}
                                 /\ pc[t].op \in {"fill", "dest", "cmd"} /\ pc'[t].msg = pc[t].msg
                              \/ /\ pc'[t].op \notin {"fill", "dest", "cmd"}
                                 /\ pc[t].op \notin {"fill", "dest", "cmd"}
      PROVE  lost = {} /\ Same(c)
  <2>1. ValidSlots(c)' = ValidSlots(c)
    BY <1>a DEF ValidSlots, FreeSlots
  <2>2. Senders(c)' = Senders(c)
    BY <1>a DEF Senders, Target
  <2> QED BY <1>a, <2>1, <2>2 DEF Same
<1>1. CASE UNCHANGED vars
  BY <1>1, <1>a DEF vars
<1>2. ASSUME NEW t \in Tasks,
             \/ SwitchTo(t) \/ EnterLock(t) \/ Refuse(t) \/ Fill(t) \/ SetDest(t)
             \/ \E m \in Msgs : Begin(t, m)
      PROVE  lost = {} /\ Same(c)
  <2>1. box' = box /\ irr' = irr /\ lost' = lost /\ handler' = handler
    BY <1>2 DEF SwitchTo, EnterLock, Refuse, Fill, SetDest, Begin
  <2>2. \A u \in Tasks : \/ pc'[u] = pc[u]
                         \/ /\ pc'[u].op \in {"fill", "dest", "cmd"}
                            /\ pc[u].op \in {"fill", "dest", "cmd"} /\ pc'[u].msg = pc[u].msg
                         \/ /\ pc'[u].op \notin {"fill", "dest", "cmd"}
                            /\ pc[u].op \notin {"fill", "dest", "cmd"}
    BY <1>0, <1>2, Typed, PcPut, PcIdle DEF SwitchTo, EnterLock, Refuse, Fill, SetDest, Begin, At,
       OpNames
  <2> QED BY <1>a, <2>1, <2>2
<1>3. ASSUME NEW t \in Tasks, Claim(t)
      PROVE  lost = {} /\ (Same(c) \/ Put(c))
  <2> DEFINE d == Target(t)
             m == pc[t].msg
  <2>1. /\ pc[t].op = "claim" /\ m \in Msgs /\ d \in Cpus /\ m # None /\ Goto(t, "fill")
        /\ UNCHANGED <<irr, handler, lost>>
    BY <1>3, IpiAssumption DEF Claim, At, IInv, OneSender, Target
  <2>2. PICK i \in Slot : box[d][i] = None /\ box' = [box EXCEPT ![d][i] = m]
    BY <1>3 DEF Claim, IsLeast, Slot, FreeSlots
  <2>3. /\ pc'[t].op = "fill" /\ pc'[t].msg = m
        /\ \A u \in Tasks : u # t => pc'[u] = pc[u]
    BY <1>0, <2>1, PcPut DEF OpNames
  <2> HIDE DEF m
  <2>4. /\ box'[d][i] = m
        /\ \A j \in Slot : j # i => box'[d][j] = box[d][j]
        /\ \A x \in Cpus : x # d => box'[x] = box[x]
    BY <1>0, <2>1, <2>2, Typed
  <2>5. CASE c = d
    <3>1. Senders(c)' = Senders(c) \cup {t} /\ t \notin Senders(c)
      BY <2>1, <2>3, <2>5 DEF Senders, Target, m
    <3>2. ValidSlots(c)' = ValidSlots(c) \cup {i} /\ i \notin ValidSlots(c)
      BY <2>1, <2>2, <2>4, <2>5 DEF ValidSlots, FreeSlots, Slot
    <3> QED BY <2>1, <3>1, <3>2 DEF Put
  <2>6. CASE c # d
    <3>1. Senders(c)' = Senders(c)
      BY <2>1, <2>3, <2>6 DEF Senders, Target, m
    <3>2. ValidSlots(c)' = ValidSlots(c)
      BY <2>4, <2>6 DEF ValidSlots, FreeSlots
    <3> QED BY <2>1, <3>1, <3>2 DEF Same
  <2> QED BY <2>1, <2>5, <2>6
<1>4. ASSUME NEW t \in Tasks, SetCmd(t)
      PROVE  lost = {} /\ (Same(c) \/ Sent(c))
  <2> DEFINE d == Target(t)
  <2>1. /\ pc[t].op = "cmd" /\ lost = {} /\ icr[CpuOf[t]] = d /\ d \notin irr
        /\ irr' = irr \cup {d} /\ UNCHANGED <<box, handler>>
    BY <1>4 DEF SetCmd, At
  <2>2. pc'[t].op = "idle" /\ \A u \in Tasks : u # t => pc'[u] = pc[u]
    BY <1>0, <1>4, PcIdle DEF SetCmd
  <2>3. ValidSlots(c)' = ValidSlots(c)
    BY <2>1 DEF ValidSlots, FreeSlots
  <2>4. CASE c = d
    <3>1. Senders(c)' = Senders(c) \ {t} /\ t \in Senders(c)
      BY <2>1, <2>2, <2>4 DEF Senders, Target
    <3> QED BY <2>1, <2>3, <2>4, <3>1 DEF Sent
  <2>5. CASE c # d
    <3>1. Senders(c)' = Senders(c)
      BY <2>1, <2>2, <2>5 DEF Senders, Target
    <3> QED BY <2>1, <2>3, <2>5, <3>1 DEF Same
  <2> QED BY <2>1, <2>4, <2>5
<1>5. ASSUME NEW d \in Cpus, IrqEnter(d)
      PROVE  lost = {} /\ Same(c)
  <2>1. /\ UNCHANGED <<box, pc, lost>> /\ d \in irr /\ irr' = irr \ {d}
        /\ handler[d] = "out" /\ handler' = [handler EXCEPT ![d] = "spin"]
    BY <1>5 DEF IrqEnter
  <2>2. ValidSlots(c)' = ValidSlots(c) /\ Senders(c)' = Senders(c)
    BY <2>1 DEF ValidSlots, FreeSlots, Senders, Target
  <2> QED BY <1>0, <2>1, <2>2, Typed DEF Same
<1>6. ASSUME NEW d \in Cpus, IrqLock(d) \/ IrqLeave(d)
      PROVE  lost = {} /\ Same(c)
  <2>1. UNCHANGED <<box, pc, irr, lost>>
    BY <1>6 DEF IrqLock, IrqLeave
  <2>2. handler'[c] \in {"spin", "in"} <=> handler[c] \in {"spin", "in"}
    BY <1>0, <1>6, Typed DEF IrqLock, IrqLeave
  <2> QED BY <1>a, <2>1, <2>2
<1>7. ASSUME NEW d \in Cpus, IrqHandle(d)
      PROVE  lost = {} /\ (Same(c) \/ Taken(c))
  <2>1. /\ UNCHANGED <<pc, irr, lost>>
        /\ handler[d] = "in" /\ handler' = [handler EXCEPT ![d] = "leave"]
    BY <1>7 DEF IrqHandle
  <2>2. Senders(c)' = Senders(c)
    BY <2>1 DEF Senders, Target
  <2>3. \/ ValidSlots(d) = {} /\ box' = box
        \/ \E i \in ValidSlots(d) : i \in Slot /\ box' = [box EXCEPT ![d][i] = None]
    BY <1>7 DEF IrqHandle, IsLeast, ValidSlots, Slot
  <2>4. CASE c = d
    <3>1. Busy(c)' = Busy(c) - 1
      BY <1>0, <2>1, <2>4, Typed
    <3>2. CASE ValidSlots(d) = {} /\ box' = box
      BY <2>1, <2>2, <2>4, <3>1, <3>2 DEF Taken, ValidSlots, FreeSlots
    <3>3. ASSUME NEW i \in ValidSlots(d), i \in Slot, box' = [box EXCEPT ![d][i] = None]
          PROVE  Taken(c)
      <4>1. box'[d][i] = None /\ \A j \in Slot : j # i => box'[d][j] = box[d][j]
        BY <1>0, <3>3, Typed
      <4>2. ValidSlots(c)' = ValidSlots(c) \ {i}
        BY <2>4, <4>1 DEF ValidSlots, FreeSlots, Slot
      <4> QED BY <2>1, <2>2, <2>4, <3>1, <4>2 DEF Taken
    <3> QED BY <2>1, <2>3, <3>2, <3>3
  <2>5. CASE c # d
    <3>1. box'[c] = box[c] /\ handler'[c] = handler[c]
      BY <1>0, <2>1, <2>3, <2>5, Typed
    <3> QED BY <2>1, <2>2, <3>1 DEF Same, ValidSlots, FreeSlots
  <2> QED BY <2>1, <2>4, <2>5
<1> QED BY <1>1, <1>2, <1>3, <1>4, <1>5, <1>6, <1>7, Zenon DEF Next, Send, Irq

(* As long as no interrupt was merged or sent to the wrong CPU, every message
   in a mailbox has an interrupt of its own to come, for any number of senders
   and slots. *)
THEOREM NoneLeft == Spec => []NoneStranded
<1>1. IInv /\ NoneStranded /\ [Next]_vars => NoneStranded'
  <2> SUFFICES ASSUME IInv, NoneStranded, [Next]_vars, lost' = {}, NEW c \in Cpus
               PROVE  Cardinality(ValidSlots(c)') <= Coming(c)'
    BY DEF NoneStranded
  <2> QED BY StepBalances, BalanceKept DEF NoneStranded
<1>2. Init => NoneStranded
  <2> SUFFICES ASSUME Init, NEW c \in Cpus
               PROVE  Cardinality(ValidSlots(c)) <= Coming(c)
    BY DEF NoneStranded
  <2>1. ValidSlots(c) = {}
    BY DEF Init, ValidSlots, FreeSlots
  <2> QED BY <2>1, Counts, FS_EmptySet
<1> QED BY InitHolds, NextKeeps, <1>1, <1>2, PTL DEF Spec

=============================================================================
