---------------------------- MODULE Scheduler_proofs ----------------------------
(***************************************************************************)
(* What holds of the scheduler for any number of tasks.  The inductive      *)
(* invariant IInv adds to the properties: who is in a call holds the lock,  *)
(* the calls under way are ones the code makes, a task is in the ring only  *)
(* after its node was built, and the idle task, unless a console stopped    *)
(* it, is ready.                                                            *)
(***************************************************************************)
EXTENDS Scheduler, TLAPS

(* A task that works in a call holds the lock, so at most one does. *)
CallHolds == \A t \in Tids : pc[t].op \in InCall => lock = t

(* What the calls under way may be made on *)
CallsOK ==
    /\ \A t \in Tids : pc[t].op = "create" => node[pc[t].on].status = "none"
    /\ \A t \in Tids : pc[t].op = "endthread" => pc[t].on # Idle
    /\ \A t \in Tids : pc[t].op = "exitthread" => pc[t].on = t
    /\ pc[Idle].op \notin {"exit", "exitthread", "endthread", "bye", "delay", "delaying"}
    /\ pc[Idle].times = 1

(* A task that was not created yet has a fresh context and is not listed. *)
NotYet ==
    \A u \in Tids : node[u].status = "none" =>
        /\ u \notin listed
        /\ own[u] = [regs |-> node[u].regs, fpu |-> node[u].fpu]

(* The idle task is the first node, and as long as it runs every schedule can
   pick it. *)
IdleReady ==
    /\ first = Idle
    /\ node[Idle].status # "none"
    /\ node[Idle].status = "run" =>
          /\ Idle \in listed
          /\ node[Idle].sleep <= 1
          /\ cur.tid = Idle => cur.status = "run"
          /\ cur.tid # Idle => node[Idle].sleep = 0

(* The two copies of the running task agree on how long it sleeps. *)
SleepsAgree == cur.sleep = node[cur.tid].sleep

(* Contexts, as ContextIntact states them, with nothing left out *)
Contexts ==
    /\ own[cur.tid] = hw
    /\ \A u \in listed : u # cur.tid /\ node[u].status = "run" =>
           own[u] = [regs |-> node[u].regs, fpu |-> node[u].fpu]

IInv ==
    /\ TypeOK
    /\ HolderIsCurrent
    /\ CallHolds
    /\ CallsOK
    /\ NotYet
    /\ CurrentListed
    /\ IdleReady
    /\ SleepsAgree
    /\ Contexts
    /\ NeverLost

(* A schedule that finds nobody ready changes nothing but the CPU's fate, and
   the idle task was stopped before. *)
LEMMA ScheduleWild ==
  ASSUME IInv, stuck = "no", Schedule, stuck' = "wild"
  PROVE  /\ UNCHANGED <<listed, first, node, cur, hw, freed>>
         /\ node[Idle].status # "run"
<1> USE SchedAssumption DEF NodeState, CopyState
<1>1. /\ Idle \in Tids /\ cur.tid \in listed /\ listed \subseteq Tids
      /\ node \in [Tids -> NodeState] /\ cur \in CopyState
  BY DEF IInv, TypeOK, CurrentListed
<1>2. ~(\E v \in Ready(NodeSeen) : IF v = cur.tid THEN Stay(CountDown(NodeSeen), CurSeen)
                                    ELSE Switch(CountDown(NodeSeen), CurSeen, v))
  BY DEF Stay, Switch, Reap
<1>3. Ready(NodeSeen) = {} /\ UNCHANGED <<listed, first, node, cur, hw, freed>>
  BY <1>1, <1>2 DEF Schedule
<1>4. ASSUME node[Idle].status = "run" PROVE FALSE
  <2>1. Idle \in listed /\ Dec(node[Idle].sleep) = 0
    BY <1>1, <1>4 DEF IInv, IdleReady, Dec
  <2>2. CASE cur.tid = Idle
    <3>1. cur.status = "run" /\ Merged(node[Idle].status, cur.status) = "run"
      BY <1>4, <2>2 DEF IInv, IdleReady, Merged
    <3>2. NodeSeen[Idle].status = "run" /\ NodeSeen[Idle].sleep = 0
      BY <1>1, <1>4, <2>1, <2>2, <3>1 DEF NodeSeen
    <3> QED BY <1>3, <2>1, <3>2 DEF Ready
  <2>3. CASE cur.tid # Idle
    <3>1. NodeSeen[Idle] = node[Idle] /\ node[Idle].sleep = 0
      BY <1>1, <1>4, <2>3 DEF NodeSeen, IInv, IdleReady
    <3> QED BY <1>3, <1>4, <2>1, <3>1 DEF Ready
  <2> QED BY <2>2, <2>3
<1> QED BY <1>3, <1>4

(* What one schedule that finds a ready task does, whoever enters it
   (task.cpp:728-827): the same task or another ready one runs, nothing is
   revived, and exactly the dead leave the ring. *)
LEMMA ScheduleStep ==
  ASSUME IInv, stuck = "no", Schedule, own' = own, stuck' # "wild"
  PROVE  /\ node' \in [Tids -> NodeState]
         /\ cur' \in CopyState
         /\ hw' \in [regs : Contents, fpu : Contents]
         /\ stuck' = IF node'[Idle].status = "over" /\ Idle \in listed THEN "reap" ELSE "no"
         /\ first' = first /\ freed' \subseteq Tids
         /\ \A p \in freed' : p \in freed \/ node'[p].status = "over"
         /\ \A u \in Tids : node'[u].status = IF u = cur.tid
                THEN Merged(node[u].status, cur.status) ELSE node[u].status
         /\ \A u \in Tids : node[u].status = "none" => node'[u] = node[u]
         /\ listed' = {u \in listed : node'[u].status # "over"}
         /\ cur'.tid \in listed /\ node'[cur'.tid].status = "run"
         /\ cur'.status = "run" /\ cur'.sleep = 0 /\ node'[cur'.tid].sleep = 0
         /\ node'[Idle].status = "run" => node'[Idle].sleep = 0
         /\ Contexts'
<1> DEFINE n == CountDown(NodeSeen)
           c == CurSeen
<1> USE SchedAssumption DEF NodeState, CopyState
<1>0. /\ MaxSleep \in Nat /\ Idle \in Tids /\ listed \subseteq Tids /\ cur.tid \in listed
      /\ node \in [Tids -> NodeState]
      /\ cur \in CopyState
      /\ hw \in [regs : Contents, fpu : Contents]
      /\ freed \subseteq Tids
      /\ node[cur.tid].status # "none"
  BY DEF IInv, TypeOK, CurrentListed, NotYet
<1>1. \A k \in 0 .. MaxSleep : Dec(k) \in 0 .. MaxSleep /\ Dec(k) <= k /\ (k <= 1 => Dec(k) = 0)
  BY <1>0 DEF Dec
<1>2. Merged(node[cur.tid].status, cur.status) \in Statuses \ {"none"}
  BY <1>0 DEF Merged, Statuses
<1>3. /\ NodeSeen \in [Tids -> NodeState]
      /\ \A u \in Tids \ {cur.tid} : NodeSeen[u] = node[u]
      /\ NodeSeen[cur.tid].status = Merged(node[cur.tid].status, cur.status)
      /\ NodeSeen[cur.tid].sleep <= node[cur.tid].sleep
      /\ cur.tid = Idle /\ node[Idle].status = "run" => NodeSeen[Idle].sleep = 0
  <2> DEFINE t == cur.tid
             m == Merged(node[t].status, cur.status)
             k == IF m = "run" THEN Dec(node[t].sleep) ELSE node[t].sleep
  <2>1. NodeSeen = [node EXCEPT ![t] = [@ EXCEPT !.status = m, !.sleep = k]]
    BY <1>0 DEF NodeSeen
  <2>2. k \in 0 .. MaxSleep /\ k <= node[t].sleep
    BY <1>0, <1>1
  <2>3. cur.tid = Idle /\ node[Idle].status = "run" => k = 0
    BY <1>0, <1>1 DEF Merged, IInv, IdleReady
  <2>4. m \in Statuses /\ t \in Tids
    BY <1>0, <1>2
  <2>5. m = Merged(node[cur.tid].status, cur.status)
    OBVIOUS
  <2> HIDE DEF m, k
  <2>6. NodeSeen[t] = [node[t] EXCEPT !.status = m, !.sleep = k]
    BY <2>1, <2>4, <1>0
  <2>7. NodeSeen[t] \in NodeState /\ NodeSeen[t].status = m /\ NodeSeen[t].sleep = k
    <3>1. \A x \in NodeState, y \in Statuses, z \in 0 .. MaxSleep :
            LET q == [x EXCEPT !.status = y, !.sleep = z]
            IN q \in NodeState /\ q.status = y /\ q.sleep = z
      OBVIOUS
    <3>2. node[t] \in NodeState /\ k \in 0 .. MaxSleep /\ m \in Statuses
      BY <2>2, <2>4, <1>0
    <3> DEFINE q == [node[t] EXCEPT !.status = m, !.sleep = k]
    <3>3. q \in NodeState /\ q.status = m /\ q.sleep = k
      BY <3>1, <3>2
    <3> HIDE DEF q
    <3> QED BY <3>3, <2>6 DEF q
  <2>8. NodeSeen = [u \in Tids |-> IF u = t THEN NodeSeen[t] ELSE node[u]]
    BY <2>1, <2>4, <1>0
  <2>9. /\ NodeSeen \in [Tids -> NodeState]
        /\ \A u \in Tids \ {cur.tid} : NodeSeen[u] = node[u]
    <3> HIDE DEF NodeState
    <3> QED BY <2>7, <2>8, <2>4, <1>0
  <2> QED BY <2>2, <2>3, <2>5, <2>7, <2>9
<1>4. /\ c \in CopyState
      /\ c.tid = cur.tid
      /\ c.status = NodeSeen[cur.tid].status
      /\ cur.tid = Idle /\ node[Idle].status = "run" => c.sleep = 0
  BY <1>0, <1>1, <1>2, <1>3 DEF CurSeen, Merged, IInv, IdleReady, SleepsAgree
<1>6. /\ n \in [Tids -> NodeState]
      /\ \A u \in Tids : /\ n[u].status = NodeSeen[u].status
                         /\ n[u].regs = NodeSeen[u].regs /\ n[u].fpu = NodeSeen[u].fpu
                         /\ n[u].sleep <= NodeSeen[u].sleep
                         /\ NodeSeen[u].status = "none" => n[u] = NodeSeen[u]
      /\ n[cur.tid] = NodeSeen[cur.tid]
  BY <1>0, <1>1, <1>3 DEF CountDown
<1>7. PICK v \in Ready(NodeSeen) : IF v = cur.tid THEN Stay(n, c) ELSE Switch(n, c, v)
  BY <1>0 DEF Schedule
<1>8. v \in listed /\ v \in Tids /\ NodeSeen[v].status = "run" /\ NodeSeen[v].sleep = 0
      /\ n[v].status = "run" /\ n[v].sleep = 0
  BY <1>0, <1>3, <1>6, <1>7 DEF Ready
<1>9. first = Idle /\ (node[Idle].status = "run" => n[Idle].sleep = 0)
  BY <1>0, <1>3, <1>6 DEF IInv, IdleReady
<1> HIDE DEF n, c
<1>10. CASE v = cur.tid
  <2>1. /\ node' = n /\ cur' = c /\ hw' = hw /\ Reap(n)
    BY <1>7, <1>10 DEF Stay
  <2>2. stuck' = (IF node'[Idle].status = "over" /\ Idle \in listed THEN "reap" ELSE "no")
        /\ first' = first /\ freed' \subseteq Tids
        /\ (\A p \in freed' : p \in freed \/ node'[p].status = "over")
        /\ listed' = {u \in listed : node'[u].status # "over"}
    BY <2>1, <1>0, <1>9 DEF Reap, DeadIn
  <2>3. \A u \in Tids : node[u].status = "none" => node'[u] = node[u]
    BY <2>1, <1>0, <1>3, <1>6
  <2>4. \A u \in Tids : node'[u].status = IF u = cur.tid
                THEN Merged(node[u].status, cur.status) ELSE node[u].status
    BY <2>1, <1>0, <1>3, <1>6
  <2>5. cur'.tid = v /\ cur'.status = "run" /\ cur'.sleep = 0
    <3>1. c.sleep = 0
      BY <1>0, <1>8, <1>10 DEF c, CurSeen, NodeSeen, IInv, SleepsAgree
    <3> QED BY <2>1, <3>1, <1>4, <1>8, <1>10
  <2>6. Contexts'
    BY <2>1, <2>5, <2>2, <1>0, <1>3, <1>6, <1>10 DEF Contexts, IInv
  <2>7. node'[Idle].status = "run" => node'[Idle].sleep = 0
    BY <2>1, <2>4, <1>0, <1>9 DEF Merged, Statuses
  <2> QED
    BY <2>1, <2>2, <2>3, <2>4, <2>5, <2>6, <2>7, <1>0, <1>4, <1>6, <1>8, <1>10
<1>11. CASE v # cur.tid
  <2> DEFINE s == Save(n, c)
  <2>1. /\ node' = s /\ cur' = Load(s, v) /\ Reap(s)
        /\ hw' = [regs |-> s[v].regs, fpu |-> s[v].fpu]
    BY <1>7, <1>11 DEF Switch
  <2>2. /\ s \in [Tids -> NodeState]
        /\ \A u \in Tids \ {cur.tid} : s[u] = n[u]
        /\ s[cur.tid].status = n[cur.tid].status
        /\ n[cur.tid].status = "run" => /\ s[cur.tid].sleep = c.sleep
                                        /\ s[cur.tid].regs = hw.regs
                                        /\ s[cur.tid].fpu = hw.fpu
        /\ n[cur.tid].status # "run" => s = n
    BY <1>0, <1>4, <1>6 DEF Save
  <2> HIDE DEF s
  <2>3. stuck' = (IF node'[Idle].status = "over" /\ Idle \in listed THEN "reap" ELSE "no")
        /\ first' = first /\ freed' \subseteq Tids
        /\ (\A p \in freed' : p \in freed \/ node'[p].status = "over")
        /\ listed' = {u \in listed : node'[u].status # "over"}
    BY <2>1, <2>2, <1>0, <1>9 DEF Reap, DeadIn
  <2>4. \A u \in Tids : node[u].status = "none" => node'[u] = node[u]
    <3> SUFFICES ASSUME NEW u \in Tids, node[u].status = "none" PROVE s[u] = node[u]
      BY <2>1
    <3>1. u # cur.tid
      BY <1>0
    <3>2. s[u] = n[u] /\ NodeSeen[u] = node[u]
      BY <3>1, <2>2, <1>3
    <3> QED BY <3>2, <1>6
  <2>5. \A u \in Tids : node'[u].status = IF u = cur.tid
                THEN Merged(node[u].status, cur.status) ELSE node[u].status
    BY <2>1, <2>2, <1>0, <1>3, <1>6
  <2>6. /\ cur'.tid = v /\ cur'.status = "run" /\ cur'.sleep = 0
        /\ node'[v].status = "run" /\ node'[v].sleep = 0
    BY <2>1, <2>2, <1>8, <1>11 DEF Load
  <2>7. node'[Idle].status = "run" => node'[Idle].sleep = 0
    BY <2>1, <2>2, <2>5, <1>0, <1>4, <1>9 DEF Merged, Statuses
  <2>8. Contexts'
    <3>0. s[v].regs = node[v].regs /\ s[v].fpu = node[v].fpu /\ node[v].status = "run"
      BY <2>2, <1>3, <1>6, <1>8, <1>11
    <3>1. own[v] = hw'
      BY <3>0, <2>1, <1>8, <1>11 DEF Contexts, IInv
    <3>2. ASSUME NEW u \in listed, u # v, node'[u].status = "run"
          PROVE  own[u] = [regs |-> node'[u].regs, fpu |-> node'[u].fpu]
      <4>1. CASE u = cur.tid
        BY <3>2, <4>1, <2>1, <2>2, <1>0 DEF Contexts, IInv
      <4>2. CASE u # cur.tid
        BY <3>2, <4>2, <2>1, <2>2, <1>0, <1>3, <1>6 DEF Contexts, IInv
      <4> QED BY <4>1, <4>2
    <3> QED BY <3>1, <3>2, <2>3, <2>6 DEF Contexts
  <2>9. cur' \in CopyState
    BY <2>1, <2>2, <2>6, <1>8 DEF Load
  <2>10. hw' \in [regs : Contents, fpu : Contents]
    BY <2>1, <2>2, <1>8
  <2> QED BY <2>1, <2>2, <2>3, <2>4, <2>5, <2>6, <2>7, <2>8, <2>9, <2>10, <1>8
<1> QED BY <1>10, <1>11

(* Boot: the idle task alone, running. *)
LEMMA InitInvariant == Init => IInv
<1> SUFFICES ASSUME Init PROVE IInv
  OBVIOUS
<1>1. TypeOK
  BY SchedAssumption DEF Init, TypeOK, NodeState, CopyState, CallState, Statuses, Contents, Fresh, Idling
<1>2. CallHolds /\ CallsOK /\ HolderIsCurrent /\ NotYet
  BY SchedAssumption DEF Init, CallHolds, CallsOK, HolderIsCurrent, NotYet, Idling, InCall, Fresh
<1>3. CurrentListed /\ IdleReady /\ SleepsAgree /\ Contexts /\ NeverLost
  BY SchedAssumption DEF Init, CurrentListed, IdleReady, SleepsAgree, Contexts, NeverLost, Fresh
<1> QED BY <1>1, <1>2, <1>3 DEF IInv

(* Both entries of the schedule, the timer interrupt and yield *)
LEMMA SchedulesKeep ==
  ASSUME IInv, NEW t \in Tids, TickSchedules \/ Yield(t)
  PROVE  IInv'
<1> USE SchedAssumption
<1>1. /\ stuck = "no" /\ lock = None /\ lock' = None /\ own' = own /\ alone' = alone /\ Schedule
      /\ cur.tid \in Tids
  BY DEF TickSchedules, Yield, Runs, TryLock, IInv, TypeOK, CopyState
<1>2. /\ pc \in [Tids -> CallState]
      /\ own \in [Tids -> [regs : Contents, fpu : Contents]]
      /\ listed \subseteq Tids /\ first \in Tids /\ alone \subseteq Tids
  BY DEF IInv, TypeOK
<1>3. /\ pc' \in [Tids -> CallState]
      /\ \A u \in Tids : pc'[u] = pc[u] \/ pc'[u].op \in {"idle", "halted"}
      /\ pc'[Idle].times = 1
  <2>1. Idling \in CallState /\ Idling.op = "idle" /\ Idling.times = 1
    BY DEF Idling, CallState
  <2>2. CASE TickSchedules
    BY <2>1, <2>2, <1>1, <1>2 DEF TickSchedules, Woken, IInv, CallsOK
  <2>3. CASE Yield(t)
    <3>1. /\ [pc[t] EXCEPT !.op = "halted"] \in CallState
          /\ [pc[t] EXCEPT !.op = "halted"].op = "halted"
          /\ [pc[t] EXCEPT !.op = "halted"].times = pc[t].times
      BY <1>2 DEF CallState
    <3> QED BY <2>1, <2>3, <3>1, <1>2 DEF Yield, IInv, CallsOK
  <2> QED BY <2>2, <2>3
<1>4. CASE stuck' = "wild"
  <2>1. /\ UNCHANGED <<listed, first, node, cur, hw, own, lock, freed, alone>>
        /\ node[Idle].status # "run"
    BY <1>1, <1>4, ScheduleWild
  <2>2. TypeOK' /\ HolderIsCurrent' /\ CallHolds'
    BY <1>1, <1>3, <1>4, <2>1 DEF IInv, TypeOK, HolderIsCurrent, CallHolds, InCall
  <2>3. CallsOK'
    BY <1>3, <2>1 DEF IInv, CallsOK
  <2>4. NotYet' /\ CurrentListed' /\ IdleReady' /\ SleepsAgree' /\ Contexts' /\ NeverLost'
    BY <2>1 DEF IInv, NotYet, CurrentListed, IdleReady, SleepsAgree, Contexts, NeverLost
  <2> QED BY <2>2, <2>3, <2>4 DEF IInv
<1>w. SUFFICES ASSUME stuck' # "wild" PROVE IInv'
  BY <1>4
<1>5. TypeOK'
  BY <1>1, <1>2, <1>3, <1>w, ScheduleStep DEF TypeOK
<1>6. HolderIsCurrent' /\ CallHolds'
  BY <1>1, <1>2, <1>3 DEF HolderIsCurrent, CallHolds, IInv, InCall
<1>7. CallsOK'
  <2>1. \A u \in Tids : node[u].status = "none" => node'[u].status = "none"
    BY <1>1, <1>w, ScheduleStep
  <2>2. \A u \in Tids : pc[u].on \in Tids
    BY <1>2 DEF CallState
  <2> QED BY <2>1, <2>2, <1>3 DEF CallsOK, IInv
<1>8. NotYet'
  <2>1. \A u \in Tids : node'[u].status = "none" => node[u].status = "none"
    BY <1>1, <1>w, ScheduleStep DEF Merged, IInv, NotYet, CurrentListed
  <2> QED BY <2>1, <1>1, <1>w, ScheduleStep DEF NotYet, IInv
<1>9. CurrentListed' /\ SleepsAgree' /\ Contexts' /\ NeverLost'
  BY <1>1, <1>w, ScheduleStep DEF CurrentListed, SleepsAgree, NeverLost
<1>10. IdleReady'
  <2>0. node \in [Tids -> NodeState] /\ Idle \in Tids /\ node[Idle].status # "none"
    BY DEF IInv, TypeOK, IdleReady
  <2>1. node'[Idle].status # "none" /\ (node'[Idle].status = "run" => node[Idle].status = "run")
    BY <2>0, <1>1, <1>w, ScheduleStep DEF Merged, NodeState, Statuses
  <2> QED BY <2>1, <1>1, <1>w, ScheduleStep DEF IdleReady, IInv
<1> QED BY <1>5, <1>6, <1>7, <1>8, <1>9, <1>10 DEF IInv

(* Interrupts and steps that change neither nodes nor the ring *)
LEMMA QuietKeep ==
  ASSUME IInv, NEW t \in Tids,
         \/ DeviceIrq \/ DelayDone(t) \/ Bye(t)
         \/ \E op \in Ops, u \in Tids, k \in 1 .. MaxSleep : Enter(t, op, u, k)
  PROVE  IInv'
<1> USE SchedAssumption
<1>0. /\ UNCHANGED <<listed, first, node, cur, hw, own, freed, alone, stuck>>
      /\ pc \in [Tids -> CallState]
      /\ cur.tid \in Tids
  BY DEF DeviceIrq, DelayDone, Bye, Enter, IInv, TypeOK, CopyState
<1>1. NotYet' /\ CurrentListed' /\ IdleReady' /\ SleepsAgree' /\ Contexts' /\ NeverLost'
  BY <1>0 DEF IInv, NotYet, CurrentListed, IdleReady, SleepsAgree, Contexts, NeverLost
<1>2. Idling \in CallState /\ Idling.op = "idle" /\ Idling.times = 1
  BY DEF Idling, CallState
<1>4. CASE DeviceIrq
  BY <1>0, <1>1, <1>2, <1>4
  DEF DeviceIrq, Woken, IInv, TypeOK, HolderIsCurrent, CallHolds, CallsOK, InCall
<1>5. CASE DelayDone(t)
  BY <1>0, <1>1, <1>2, <1>5
  DEF DelayDone, IInv, TypeOK, HolderIsCurrent, CallHolds, CallsOK, InCall
<1>6. CASE Bye(t)
  <2> DEFINE q == [op |-> "sleep", on |-> t, times |-> 1]
  <2>1. q \in CallState /\ q.op = "sleep" /\ q.times = 1
    BY DEF CallState, InCall
  <2> HIDE DEF q
  <2>2. lock = None /\ lock' = t /\ cur.tid = t /\ pc' = [pc EXCEPT ![t] = q]
    BY <1>6 DEF Bye, Runs, q
  <2>3. TypeOK' /\ HolderIsCurrent'
    BY <2>1, <2>2, <1>0, <1>6 DEF Bye, IInv, TypeOK, HolderIsCurrent
  <2>4. CallHolds' /\ CallsOK'
    BY <2>1, <2>2, <1>0 DEF IInv, CallHolds, CallsOK
  <2> QED BY <2>3, <2>4, <1>1 DEF IInv
<1>7. ASSUME NEW op \in Ops, NEW u \in Tids, NEW k \in 1 .. MaxSleep, Enter(t, op, u, k)
      PROVE  IInv'
  <2> DEFINE q == [op |-> op, on |-> u, times |-> k]
  <2>1. q \in CallState /\ q.op = op /\ q.on = u /\ q.times = k
    BY <1>7 DEF CallState, Enter
  <2> HIDE DEF q
  <2>2. lock = None /\ lock' = t /\ cur.tid = t /\ pc' = [pc EXCEPT ![t] = q]
        /\ op \in InCall /\ MayCall(t, op, u, k)
    BY <1>7 DEF Enter, Runs, q
  <2>3. TypeOK' /\ HolderIsCurrent'
    BY <2>1, <2>2, <1>0, <1>7 DEF Enter, IInv, TypeOK, HolderIsCurrent
  <2>4. CallHolds'
    BY <2>1, <2>2, <1>0 DEF IInv, CallHolds
  <2>5. /\ op = "create" => node[u].status = "none"
        /\ op = "endthread" => u # Idle
        /\ op = "exitthread" => u = t
        /\ t = Idle => k = 1 /\ op \notin {"exit", "exitthread", "endthread", "delay"}
    <3>1. op = "create" => node[u].status = "none" /\ k = 1
      BY <2>2 DEF MayCall
    <3>2. op \in {"kill", "pause", "resume"} => t # Idle
      BY <2>2 DEF MayCall
    <3>3. op = "endthread" => u # Idle /\ t # Idle
      BY <2>2 DEF MayCall
    <3>4. op = "exitthread" => u = t /\ t # Idle
      BY <2>2 DEF MayCall
    <3>5. op \in {"exit", "delay"} => t # Idle
      BY <2>2 DEF MayCall
    <3>6. op = "sleep" /\ t = Idle => k = 1
      BY <2>2 DEF MayCall
    <3> QED BY <3>1, <3>2, <3>3, <3>4, <3>5, <3>6, <2>2 DEF InCall
  <2>6. CallsOK'
    BY <2>1, <2>2, <2>5, <1>0 DEF IInv, CallsOK, InCall
  <2> QED BY <2>3, <2>4, <2>6, <1>1 DEF IInv
<1> QED BY <1>4, <1>5, <1>6, <1>7

(* Computing and going to sleep: the running task's own node and copy *)
LEMMA RunnerKeeps ==
  ASSUME IInv, NEW t \in Tids, Compute(t) \/ SetSleep(t)
  PROVE  IInv'
<1> USE SchedAssumption
<1>0. /\ cur.tid = t /\ cur \in CopyState /\ node \in [Tids -> NodeState]
      /\ pc \in [Tids -> CallState]
      /\ hw \in [regs : Contents, fpu : Contents]
      /\ own \in [Tids -> [regs : Contents, fpu : Contents]]
      /\ t \in listed /\ node[t].status # "none" /\ listed \subseteq Tids
  BY DEF Compute, SetSleep, Runs, IInv, TypeOK, CurrentListed, NotYet
<1>1. CASE Compute(t)
  <2>1. hw' \in [regs : Contents, fpu : Contents]
    BY <1>0, <1>1 DEF Compute, Contents
  <2>2. /\ own' = [own EXCEPT ![t] = hw']
        /\ UNCHANGED <<listed, first, node, cur, lock, pc, freed, alone, stuck>>
    BY <1>1 DEF Compute
  <2>3. TypeOK' /\ NotYet' /\ Contexts'
    BY <2>1, <2>2, <1>0 DEF IInv, TypeOK, NotYet, Contexts
  <2>4. HolderIsCurrent' /\ CallHolds' /\ CallsOK' /\ CurrentListed' /\ IdleReady'
        /\ SleepsAgree' /\ NeverLost'
    BY <2>2 DEF IInv, HolderIsCurrent, CallHolds, CallsOK, CurrentListed, IdleReady,
                SleepsAgree, NeverLost
  <2> QED BY <2>3, <2>4 DEF IInv
<1>2. CASE SetSleep(t)
  <2> DEFINE k == pc[t].times
             o == IF pc[t].op = "sleep" THEN "yield" ELSE "delaying"
  <2>1. /\ k \in 1 .. MaxSleep /\ lock' = None
        /\ node' = [node EXCEPT ![t].sleep = k] /\ cur' = [cur EXCEPT !.sleep = k]
        /\ pc' = [pc EXCEPT ![t].op = o]
        /\ UNCHANGED <<listed, first, hw, own, freed, alone, stuck>>
    BY <1>0, <1>2 DEF SetSleep, CallState
  <2>2. o \in {"yield", "delaying"} /\ (t = Idle => o = "yield" /\ k = 1)
    BY <1>2, <1>0 DEF IInv, CallsOK, SetSleep
  <2>3. k \in 0 .. MaxSleep /\ k - 1 \in 0 .. MaxSleep
    BY <2>1
  <2> HIDE DEF k, o
  <2>4. /\ node' \in [Tids -> NodeState] /\ cur' \in CopyState
        /\ cur'.tid = t /\ cur'.status = cur.status /\ cur'.sleep = k /\ node'[t].sleep = k
        /\ \A u \in Tids : /\ node'[u].status = node[u].status /\ node'[u].regs = node[u].regs
                           /\ node'[u].fpu = node[u].fpu
                           /\ u # t => node'[u] = node[u]
    <3>1. node[t] \in NodeState /\ k \in 0 .. MaxSleep
      BY <2>3, <1>0
    <3>2. [node[t] EXCEPT !.sleep = k] \in NodeState
      BY <3>1 DEF NodeState
    <3>3. node' \in [Tids -> NodeState]
      BY <3>2, <2>1, <1>0
    <3>4. /\ cur' \in CopyState /\ cur'.tid = t /\ cur'.status = cur.status
          /\ cur'.sleep = k
      BY <2>1, <2>3, <1>0 DEF CopyState
    <3>5. node'[t] = [node[t] EXCEPT !.sleep = k]
      BY <2>1, <1>0
    <3>6. \A u \in Tids : u # t => node'[u] = node[u]
      BY <2>1, <1>0
    <3>7. /\ node'[t].sleep = k /\ node'[t].status = node[t].status
          /\ node'[t].regs = node[t].regs /\ node'[t].fpu = node[t].fpu
      BY <3>1, <3>5 DEF NodeState
    <3> QED BY <3>3, <3>4, <3>6, <3>7
  <2>5. pc' \in [Tids -> CallState] /\ pc'[t].op = o /\ pc'[t].times = pc[t].times
        /\ \A u \in Tids \ {t} : pc'[u] = pc[u]
    BY <2>1, <2>2, <1>0 DEF CallState
  <2>6. TypeOK'
    BY <2>1, <2>3, <2>4, <2>5, <1>0 DEF IInv, TypeOK
  <2>7. HolderIsCurrent' /\ CallHolds'
    <3>1. lock = t
      BY <1>2 DEF IInv, CallHolds, SetSleep, InCall
    <3>2. \A u \in Tids \ {t} : pc[u].op \notin InCall
      BY <3>1 DEF IInv, CallHolds
    <3> QED BY <3>2, <2>1, <2>2, <2>5 DEF HolderIsCurrent, CallHolds, InCall
  <2>8. CallsOK'
    <3>1. \A u \in Tids : pc[u].on \in Tids
      BY <1>0 DEF CallState
    <3> QED BY <3>1, <2>2, <2>4, <2>5 DEF IInv, CallsOK
  <2>9. NotYet' /\ Contexts'
    BY <2>1, <2>4, <1>0 DEF IInv, NotYet, Contexts
  <2>10. CurrentListed' /\ SleepsAgree' /\ IdleReady' /\ NeverLost'
    BY <2>1, <2>2, <2>3, <2>4, <1>0
    DEF IInv, CurrentListed, SleepsAgree, IdleReady, NeverLost
  <2> QED BY <2>6, <2>7, <2>8, <2>9, <2>10 DEF IInv
<1> QED BY <1>1, <1>2

(* A new node, from a call or from an inter-processor interrupt *)
LEMMA InsertKeeps ==
  ASSUME IInv, NEW u \in Tids, node[u].status = "none", Insert(u),
         UNCHANGED <<cur, hw, own, freed, stuck>>
  PROVE  /\ node' \in [Tids -> NodeState] /\ listed' \subseteq Tids /\ first' = first
         /\ \A v \in Tids \ {u} : node'[v] = node[v]
         /\ NotYet' /\ CurrentListed' /\ IdleReady' /\ SleepsAgree' /\ Contexts' /\ NeverLost'
<1> USE SchedAssumption
<1>0. /\ cur \in CopyState /\ cur.tid \in listed /\ listed \subseteq Tids
      /\ node \in [Tids -> NodeState] /\ first \in Tids
      /\ u \notin listed /\ own[u] = [regs |-> node[u].regs, fpu |-> node[u].fpu]
  BY DEF IInv, TypeOK, CurrentListed, NotYet
<1>1. PICK s \in {"run", "over"} : node' = [node EXCEPT ![u].status = s]
  BY DEF Insert
<1>2. /\ node' \in [Tids -> NodeState]
      /\ node'[u].regs = node[u].regs /\ node'[u].fpu = node[u].fpu
      /\ node'[u].status = s
      /\ \A v \in Tids \ {u} : node'[v] = node[v]
  BY <1>0, <1>1 DEF NodeState, Statuses
<1>3. listed' = listed \cup {u} /\ first' = first
  BY DEF Insert, InsertTail
<1>4. NotYet' /\ Contexts'
  BY <1>0, <1>2, <1>3 DEF IInv, NotYet, Contexts
<1>5. CurrentListed' /\ SleepsAgree' /\ NeverLost'
  BY <1>0, <1>2, <1>3 DEF IInv, CurrentListed, SleepsAgree, NeverLost, IdleReady
<1>6. IdleReady'
  BY <1>0, <1>2, <1>3 DEF IInv, IdleReady
<1> QED BY <1>0, <1>2, <1>3, <1>4, <1>5, <1>6

(* What a step that ends the critical section of a call leaves behind *)
LEMMA LeavesCall ==
  ASSUME IInv, NEW t \in Tids, pc[t].op \in InCall, lock' = None,
         NEW q \in CallState, q.op \notin InCall,
         t = Idle => q.times = 1 /\ q.op \notin {"bye", "delaying"},
         pc' = [pc EXCEPT ![t] = q]
  PROVE  pc' \in [Tids -> CallState] /\ HolderIsCurrent' /\ CallHolds' /\ CallsOK'
<1>1. lock = t
  BY DEF IInv, CallHolds
<1>2. \A u \in Tids \ {t} : pc[u].op \notin InCall
  BY <1>1 DEF IInv, CallHolds
<1>3. pc \in [Tids -> CallState]
  BY DEF IInv, TypeOK
<1>4. /\ pc' \in [Tids -> CallState] /\ pc'[t] = q
      /\ \A u \in Tids \ {t} : pc'[u] = pc[u]
  BY <1>3
<1>5. \A u \in Tids : pc'[u].op \notin InCall
  BY <1>2, <1>4
<1>6. HolderIsCurrent' /\ CallHolds'
  BY <1>5 DEF HolderIsCurrent, CallHolds
<1>7. CallsOK'
  BY <1>4, <1>5, SchedAssumption DEF CallsOK, InCall, IInv
<1> QED BY <1>4, <1>6, <1>7

LEMMA CreateKeeps ==
  ASSUME IInv, NEW t \in Tids, Create(t)
  PROVE  IInv'
<1> DEFINE u == pc[t].on
<1>1. /\ pc[t].op = "create" /\ lock' = None /\ Insert(u) /\ pc' = [pc EXCEPT ![t] = Idling]
      /\ UNCHANGED <<cur, hw, own, freed, alone, stuck>>
  BY DEF Create
<1>2. u \in Tids /\ node[u].status = "none"
  BY <1>1 DEF IInv, TypeOK, CallState, CallsOK
<1> HIDE DEF u
<1>3. /\ node' \in [Tids -> NodeState] /\ listed' \subseteq Tids /\ first' = first
      /\ NotYet' /\ CurrentListed' /\ IdleReady' /\ SleepsAgree' /\ Contexts' /\ NeverLost'
  BY <1>1, <1>2, InsertKeeps
<1>4. Idling \in CallState /\ Idling.op = "idle" /\ Idling.times = 1
  BY SchedAssumption DEF Idling, CallState
<1>5. pc' \in [Tids -> CallState] /\ HolderIsCurrent' /\ CallHolds' /\ CallsOK'
  BY <1>1, <1>4, LeavesCall DEF InCall
<1>6. TypeOK'
  BY <1>1, <1>3, <1>5 DEF IInv, TypeOK
<1> QED BY <1>3, <1>5, <1>6 DEF IInv

LEMMA IpiKeeps ==
  ASSUME IInv, NEW u \in Tids, IpiCreate(u)
  PROVE  IInv'
<1>1. CASE lock = None
  <2>1. /\ Insert(u) /\ pc' = Woken /\ node[u].status = "none"
        /\ UNCHANGED <<cur, hw, own, freed, alone, stuck, lock>>
    BY <1>1 DEF IpiCreate
  <2>2. /\ node' \in [Tids -> NodeState] /\ listed' \subseteq Tids /\ first' = first
        /\ \A v \in Tids \ {u} : node'[v] = node[v]
        /\ NotYet' /\ CurrentListed' /\ IdleReady' /\ SleepsAgree' /\ Contexts' /\ NeverLost'
    BY <2>1, InsertKeeps
  <2>3. Idling \in CallState /\ Idling.op = "idle" /\ Idling.times = 1
    BY SchedAssumption DEF Idling, CallState
  <2>4. /\ pc \in [Tids -> CallState] /\ \A t \in Tids : pc[t].op \notin InCall
        /\ cur.tid \in Tids
    BY <1>1, SchedAssumption DEF IInv, TypeOK, CallHolds, CopyState
  <2>5. /\ pc' \in [Tids -> CallState] /\ \A t \in Tids : pc'[t].op \notin InCall
        /\ pc'[Idle].times = 1 /\ pc'[Idle].op \notin {"bye", "delaying"}
    <3>1. \A t \in Tids : pc'[t] = pc[t] \/ pc'[t] = Idling
      BY <2>1, <2>4 DEF Woken
    <3>2. pc' \in [Tids -> CallState]
      BY <2>1, <2>3, <2>4 DEF Woken
    <3> QED BY <3>1, <3>2, <2>3, <2>4, SchedAssumption DEF IInv, CallsOK, InCall
  <2>6. HolderIsCurrent' /\ CallHolds' /\ CallsOK'
    <3>1. HolderIsCurrent'
      BY <2>1, <1>1 DEF HolderIsCurrent
    <3>2. CallHolds' /\ CallsOK'
      BY <2>5, SchedAssumption DEF CallHolds, CallsOK, InCall
    <3> QED BY <3>1, <3>2
  <2>7. TypeOK'
    BY <2>1, <2>2, <2>5 DEF IInv, TypeOK
  <2> QED BY <2>2, <2>6, <2>7 DEF IInv
<1>2. CASE lock # None
  <2>1. stuck' = "ipi" /\ UNCHANGED <<listed, first, node, cur, hw, own, lock, pc, freed, alone>>
    BY <1>2 DEF IpiCreate
  <2>2. TypeOK' /\ HolderIsCurrent' /\ CallHolds' /\ CallsOK' /\ NotYet'
    BY <2>1 DEF IInv, TypeOK, HolderIsCurrent, CallHolds, CallsOK, NotYet
  <2>3. CurrentListed' /\ IdleReady' /\ SleepsAgree' /\ Contexts' /\ NeverLost'
    BY <2>1 DEF IInv, CurrentListed, IdleReady, SleepsAgree, Contexts, NeverLost
  <2> QED BY <2>2, <2>3 DEF IInv
<1> QED BY <1>1, <1>2

(* A set S of tasks that were created takes status s; none begins to run. *)
ChangesStatus(S, s) ==
    /\ S \subseteq Tids /\ s \in {"run", "suspend", "over"}
    /\ \A u \in S : node[u].status # "none" /\ (s # "over" => node[u].status = "run")
    /\ node' \in [Tids -> NodeState]
    /\ \A u \in Tids : /\ node'[u].status = IF u \in S THEN s ELSE node[u].status
                       /\ node'[u].regs = node[u].regs /\ node'[u].fpu = node[u].fpu
                       /\ node'[u].sleep = node[u].sleep

LEMMA StatusChange ==
  ASSUME IInv, NEW S, NEW s, ChangesStatus(S, s),
         cur' = cur \/ (cur.tid # Idle /\ cur' = [cur EXCEPT !.status = "over"]),
         UNCHANGED <<listed, first, hw, own, freed, stuck>>
  PROVE  /\ node' \in [Tids -> NodeState] /\ cur' \in CopyState
         /\ NotYet' /\ CurrentListed' /\ IdleReady' /\ SleepsAgree' /\ Contexts' /\ NeverLost'
<1> USE SchedAssumption
<1>1. /\ node \in [Tids -> NodeState] /\ cur \in CopyState /\ listed \subseteq Tids
      /\ cur.tid \in Tids /\ first \in Tids
  BY DEF IInv, TypeOK, CopyState
<1> USE DEF ChangesStatus
<1>2. /\ cur' \in CopyState /\ cur'.tid = cur.tid /\ cur'.sleep = cur.sleep
      /\ cur.tid = Idle => cur'.status = cur.status
  BY <1>1 DEF CopyState, Statuses
<1>3. NotYet' /\ Contexts'
  BY <1>1, <1>2 DEF IInv, NotYet, Contexts
<1>4. CurrentListed' /\ SleepsAgree' /\ NeverLost' /\ IdleReady'
  BY <1>1, <1>2 DEF IInv, CurrentListed, SleepsAgree, NeverLost, IdleReady
<1> QED BY <1>2, <1>3, <1>4

LEMMA MarkKeeps ==
  ASSUME IInv, NEW t \in Tids, NEW u \in Tids, NEW S \in SUBSET (listed \ {Idle}),
         cur.tid = t, t # Idle, pc[t].op \in InCall, u \in S \/ u \notin listed,
         Mark(t, u, S),
         UNCHANGED <<listed, first, hw, own, freed>>, alone' \subseteq Tids
  PROVE  IInv'
<1>1. CASE u \notin listed /\ stuck' = "search" /\ UNCHANGED <<node, cur, lock, pc>>
  <2>1. TypeOK' /\ HolderIsCurrent' /\ CallHolds' /\ CallsOK' /\ NotYet'
    BY <1>1 DEF IInv, TypeOK, HolderIsCurrent, CallHolds, CallsOK, NotYet
  <2>2. CurrentListed' /\ IdleReady' /\ SleepsAgree' /\ Contexts' /\ NeverLost'
    BY <1>1 DEF IInv, CurrentListed, IdleReady, SleepsAgree, Contexts, NeverLost
  <2> QED BY <2>1, <2>2 DEF IInv
<1>2. CASE /\ node' = [v \in Tids |-> IF v \in S \cup {t}
                         THEN [node[v] EXCEPT !.status = "over"] ELSE node[v]]
           /\ cur' = [cur EXCEPT !.status = "over"] /\ lock' = None
           /\ pc' = [pc EXCEPT ![t].op = "bye"] /\ UNCHANGED stuck
  <2>1. /\ S \cup {t} \in SUBSET (Tids \ {Idle})
        /\ \A v \in S \cup {t} : node[v].status # "none"
    BY DEF IInv, TypeOK, NotYet, CurrentListed
  <2>2. /\ node' \in [Tids -> NodeState] /\ cur' \in CopyState
        /\ NotYet' /\ CurrentListed' /\ IdleReady' /\ SleepsAgree' /\ Contexts' /\ NeverLost'
    <3> DEFINE W == S \cup {t}
    <3>1. node \in [Tids -> NodeState]
      BY DEF IInv, TypeOK
    <3>2. W \in SUBSET (Tids \ {Idle}) /\ \A v \in W : node[v].status # "none"
      BY <2>1
    <3>3. node' = [v \in Tids |-> IF v \in W THEN [node[v] EXCEPT !.status = "over"] ELSE node[v]]
      BY <1>2
    <3> HIDE DEF W
    <3>4. \A n \in NodeState :
             LET m == [n EXCEPT !.status = "over"]
             IN /\ m \in NodeState /\ m.status = "over"
                /\ m.regs = n.regs /\ m.fpu = n.fpu /\ m.sleep = n.sleep
      BY DEF NodeState, Statuses
    <3>5. node' \in [Tids -> NodeState]
      BY <3>1, <3>3, <3>4
    <3>6. \A v \in Tids : /\ node'[v].status = IF v \in W THEN "over" ELSE node[v].status
                          /\ node'[v].regs = node[v].regs /\ node'[v].fpu = node[v].fpu
                          /\ node'[v].sleep = node[v].sleep
      BY <3>1, <3>3, <3>4
    <3>7. ChangesStatus(W, "over")
      BY <3>2, <3>5, <3>6 DEF ChangesStatus
    <3> QED BY <3>7, <1>2, StatusChange
  <2> DEFINE q == [pc[t] EXCEPT !.op = "bye"]
  <2>3. q \in CallState /\ q.op = "bye" /\ pc' = [pc EXCEPT ![t] = q]
    <3>1. pc[t] \in CallState
      BY DEF IInv, TypeOK
    <3>2. q \in CallState /\ q.op = "bye"
      BY <3>1 DEF CallState
    <3> QED BY <3>2, <1>2
  <2> HIDE DEF q
  <2>4. pc' \in [Tids -> CallState] /\ HolderIsCurrent' /\ CallHolds' /\ CallsOK'
    BY <2>3, <1>2, LeavesCall DEF InCall
  <2>5. TypeOK'
    BY <2>2, <2>4, <1>2 DEF IInv, TypeOK
  <2> QED BY <2>2, <2>4, <2>5 DEF IInv
<1> QED BY <1>1, <1>2 DEF Mark

LEMMA EndKeeps ==
  ASSUME IInv, NEW t \in Tids, Exit(t) \/ EndThread(t)
  PROVE  IInv'
<1> USE SchedAssumption
<1>1. CASE Exit(t)
  <2> DEFINE p == PidOf[t]
  <2>1. cur.tid = t /\ t # Idle /\ p \in Tids /\ p # Idle /\ PidOf[p] = p
    BY <1>1 DEF Exit, Runs, IInv, CallsOK
  <2>2. TasksOf(p) \in SUBSET (listed \ {Idle}) /\ (p \in TasksOf(p) \/ p \notin listed)
    BY <2>1 DEF TasksOf, IInv, TypeOK
  <2>3. Mark(t, p, TasksOf(p)) /\ UNCHANGED <<listed, first, hw, own, freed>>
        /\ pc[t].op \in InCall /\ alone' \subseteq Tids
    BY <1>1 DEF Exit, InCall, IInv, TypeOK
  <2> HIDE DEF p
  <2> QED BY <2>1, <2>2, <2>3, MarkKeeps
<1>2. CASE EndThread(t)
  <2> DEFINE u == pc[t].on
  <2>1. cur.tid = t /\ t # Idle /\ u \in Tids /\ u # Idle
    BY <1>2 DEF EndThread, Runs, IInv, CallsOK, TypeOK, CallState
  <2>2. Mark(t, u, {u}) /\ UNCHANGED <<listed, first, hw, own, freed>>
        /\ pc[t].op \in InCall /\ alone' \subseteq Tids
    BY <1>2, <2>1 DEF EndThread, InCall, Orphaned, IInv, TypeOK
  <2> HIDE DEF u
  <2>3. CASE u \in listed
    BY <2>1, <2>2, <2>3, MarkKeeps
  <2>4. CASE u \notin listed
    <3>1. Mark(t, u, {})
      BY <2>2, <2>4 DEF Mark
    <3> QED BY <3>1, <2>1, <2>2, <2>4, MarkKeeps
  <2> QED BY <2>3, <2>4
<1> QED BY <1>1, <1>2

LEMMA SetStatusKeeps ==
  ASSUME IInv, NEW t \in Tids, SetStatus(t)
  PROVE  IInv'
<1> USE SchedAssumption
<1> DEFINE u == pc[t].on
           found == u \in listed /\ node[u].status = "run"
           s == CASE pc[t].op = "kill" -> "over"
                  [] pc[t].op = "pause" -> "suspend"
                  [] pc[t].op = "resume" -> "run"
           S == IF found THEN {u} ELSE {}
<1>1. /\ pc[t].op \in {"kill", "pause", "resume"} /\ lock' = None
      /\ node' = IF found THEN [node EXCEPT ![u].status = s] ELSE node
      /\ pc' = [pc EXCEPT ![t] = Idling]
      /\ UNCHANGED <<listed, first, cur, hw, own, freed, stuck>>
  BY DEF SetStatus, Left
<1>2. u \in Tids /\ node \in [Tids -> NodeState] /\ alone' \subseteq Tids
  BY <1>1 DEF IInv, TypeOK, CallState, SetStatus
<1>3. s \in {"run", "suspend", "over"}
  BY <1>1
<1> HIDE DEF u, s
<1>4. ChangesStatus(S, s)
  BY <1>1, <1>2, <1>3 DEF ChangesStatus, NodeState, Statuses
<1>5. UNCHANGED <<listed, first, hw, own, freed, stuck>> /\ cur' = cur
  BY <1>1
<1> HIDE DEF S, found
<1>6. /\ node' \in [Tids -> NodeState] /\ cur' \in CopyState
      /\ NotYet' /\ CurrentListed' /\ IdleReady' /\ SleepsAgree' /\ Contexts' /\ NeverLost'
  BY <1>4, <1>5, StatusChange
<1>7. Idling \in CallState /\ Idling.op = "idle" /\ Idling.times = 1
  BY DEF Idling, CallState
<1>8. pc' \in [Tids -> CallState] /\ HolderIsCurrent' /\ CallHolds' /\ CallsOK'
  BY <1>1, <1>7, LeavesCall DEF InCall
<1>9. TypeOK'
  BY <1>1, <1>2, <1>6, <1>8 DEF IInv, TypeOK
<1> QED BY <1>6, <1>8, <1>9 DEF IInv

(* The invariant is inductive. *)
LEMMA NextKeeps == IInv /\ [Next]_vars => IInv'
<1> SUFFICES ASSUME IInv, [Next]_vars PROVE IInv'
  OBVIOUS
<1>1. CASE UNCHANGED vars
  BY <1>1 DEF vars, IInv, TypeOK, HolderIsCurrent, CallHolds, CallsOK, NotYet,
              CurrentListed, IdleReady, SleepsAgree, Contexts, NeverLost
<1>2. ASSUME NEW t \in Tids, Call(t) PROVE IInv'
  BY <1>2, QuietKeep DEF Call
<1>3. ASSUME NEW t \in Tids, Work(t) PROVE IInv'
  BY <1>3, RunnerKeeps, SchedulesKeep, QuietKeep, CreateKeeps, EndKeeps, SetStatusKeeps
  DEF Work
<1>4. ASSUME NEW t \in Tids, Compute(t) \/ IpiCreate(t) PROVE IInv'
  BY <1>4, RunnerKeeps, IpiKeeps
<1>5. CASE TickSchedules \/ DeviceIrq
  BY <1>5, SchedulesKeep, QuietKeep, SchedAssumption
<1> QED BY <1>1, <1>2, <1>3, <1>4, <1>5 DEF Next

LEMMA Invariant == Spec => []IInv
BY InitInvariant, NextKeeps, PTL DEF Spec

(* The scheduler's variables keep their types, for any tasks and any sleep. *)
THEOREM SchedTypes == Spec => []TypeOK
BY Invariant, PTL DEF IInv

(* task.cpp:746: the timer only tries the lock, so whoever is inside a
   critical section is the task that runs, for any number of tasks. *)
THEOREM HolderRuns == Spec => []HolderIsCurrent
BY Invariant, PTL DEF IInv

(* task.cpp:799-813: the reaper never unlinks the node of the task that the
   CPU has just loaded. *)
THEOREM CurrentStays == Spec => []CurrentListed
BY Invariant, PTL DEF IInv

(* taskPriority.cpp:269-280, task.cpp:813: a schedule finds no target, or the
   reaper its end, only after a console stopped the idle task by its tid. *)
THEOREM AlwaysATarget == Spec => []NeverLost
BY Invariant, PTL DEF IInv

(* README.md:49: each task finds registers and FPU as it left them, for any
   number of tasks, whatever is killed, paused, created or put to sleep. *)
THEOREM ContextsKept == Spec => []ContextIntact
<1>1. IInv => ContextIntact
  BY DEF IInv, TypeOK, Contexts, ContextIntact
<1> QED BY <1>1, Invariant, PTL

(* No step makes a dead node anything else: a schedule merges the two copies
   towards the dead one, creation is of tasks that never were, and pause and
   resume only find tasks that are TASK_RUN. *)
LEMMA DeadStays ==
  ASSUME IInv, Next, NEW u \in Tids, node[u].status = "over"
  PROVE  node'[u].status = "over"
<1> USE SchedAssumption
<1>0. node \in [Tids -> NodeState] /\ pc \in [Tids -> CallState]
  BY DEF IInv, TypeOK
<1>1. ASSUME UNCHANGED node PROVE node'[u].status = "over"
  BY <1>1
<1>2. ASSUME NEW t \in Tids, TickSchedules \/ Yield(t) PROVE node'[u].status = "over"
  <2>1. stuck = "no" /\ own' = own /\ Schedule
    BY <1>2 DEF TickSchedules, Yield, Runs
  <2>2. \/ node' = node
        \/ node'[u].status = IF u = cur.tid THEN Merged(node[u].status, cur.status)
                                            ELSE node[u].status
    BY <2>1, ScheduleStep, ScheduleWild
  <2> QED BY <2>2 DEF Merged
<1>3. ASSUME NEW v \in Tids, node[v].status = "none", Insert(v)
      PROVE  node'[u].status = "over"
  BY <1>0, <1>3 DEF Insert
<1>4. ASSUME NEW t \in Tids, Work(t) PROVE node'[u].status = "over"
  <2>1. CASE SetSleep(t)
    BY <2>1, <1>0 DEF SetSleep, NodeState
  <2>2. CASE Yield(t)
    BY <2>2, <1>2
  <2>3. CASE DelayDone(t) \/ Bye(t)
    BY <2>3, <1>1 DEF DelayDone, Bye
  <2>4. CASE Create(t)
    <3>1. pc[t].on \in Tids /\ node[pc[t].on].status = "none" /\ Insert(pc[t].on)
      BY <2>4, <1>0 DEF Create, CallState, IInv, CallsOK
    <3> QED BY <3>1, <1>3
  <2>5. CASE Exit(t) \/ EndThread(t)
    BY <2>5, <1>0 DEF Exit, EndThread, Mark, NodeState
  <2>6. CASE SetStatus(t)
    <3>1. \/ UNCHANGED node
          \/ /\ node[pc[t].on].status = "run" /\ pc[t].on # u
             /\ \E s : node' = [node EXCEPT ![pc[t].on].status = s]
      BY <2>6 DEF SetStatus
    <3> QED BY <3>1, <1>0 DEF NodeState
  <2> QED BY <1>4, <2>1, <2>2, <2>3, <2>4, <2>5, <2>6 DEF Work
<1>5. ASSUME NEW t \in Tids, Call(t) \/ Compute(t) PROVE node'[u].status = "over"
  BY <1>5, <1>1 DEF Call, Enter, Compute
<1>6. ASSUME NEW t \in Tids, IpiCreate(t) PROVE node'[u].status = "over"
  BY <1>6, <1>1, <1>3 DEF IpiCreate
<1>7. CASE DeviceIrq
  BY <1>7, <1>1 DEF DeviceIrq
<1> QED BY <1>2, <1>4, <1>5, <1>6, <1>7 DEF Next

(* task.cpp:676, tool.cpp:185-219: what was killed stays killed, for any number
   of tasks and any order of calls and interrupts. *)
THEOREM KilledStaysKilled == Spec => OverStaysOver
<1> DEFINE A == \A u \in Tids : node[u].status = "over" => node'[u].status = "over"
<1>1. IInv /\ [Next]_vars => [A]_vars
  BY DeadStays
<1> QED BY <1>1, Invariant, PTL DEF Spec, OverStaysOver

-----------------------------------------------------------------------------
(* Memory and threads *)

(* The main task of p has ended, and not alone. *)
Ended(p) == PidOf[p] = p /\ node[p].status = "over" /\ p \notin alone

(* A process that has ended has no task that could do anything but go to sleep
   for ever; the main task of a thread in the ring was created; memory is freed
   of what ended. *)
EndedOK ==
    /\ \A p \in Tids : Ended(p) =>
          /\ \A u \in listed : PidOf[u] = p => node[u].status = "over"
          /\ stuck = "no" /\ PidOf[cur.tid] = p => pc[cur.tid].op \in {"bye", "sleep", "yield"}
    /\ \A u \in listed : node[PidOf[u]].status # "none"
    /\ \A p \in freed : node[p].status = "over"
    /\ cur.status = "over" => node[cur.tid].status = "over"
    /\ \A t \in Tids : pc[t].op = "create" => PidOf[pc[t].on] \in {pc[t].on, PidOf[t]}

LEMMA TaskFacts ==
  ASSUME IInv
  PROVE  /\ node \in [Tids -> NodeState] /\ pc \in [Tids -> CallState] /\ cur \in CopyState
         /\ cur.tid \in Tids /\ cur.tid \in listed /\ listed \subseteq Tids
         /\ node[cur.tid].status # "none" /\ freed \subseteq Tids
         /\ PidOf \in [Tids -> Tids] /\ (\A t \in Tids : PidOf[t] \in Tids)
         /\ \A u \in Tids : pc[u].on \in Tids
BY SchedAssumption DEF IInv, TypeOK, CopyState, CallState, CurrentListed, NotYet

(* Steps of calls that leave ring and statuses alone *)
LEMMA CallsKeepEnded ==
  ASSUME IInv, EndedOK, stuck = "no", NEW t \in Tids,
         \A u \in Tids : node'[u].status = node[u].status,
         UNCHANGED <<listed, freed, alone>>, cur'.tid = cur.tid, cur'.status = cur.status,
         \A u \in Tids \ {t} : pc'[u] = pc[u],
         pc'[t].op = "create" => PidOf[pc'[t].on] \in {pc'[t].on, PidOf[t]},
         \/ cur.tid # t
         \/ pc'[t].op \in {"bye", "sleep", "yield"}
         \/ pc[t].op \notin {"bye", "sleep", "yield"}
  PROVE  EndedOK'
<1>1. \A p \in Tids : Ended(p)' => Ended(p)
  BY DEF Ended
<1>2. \A p \in Tids : Ended(p) /\ PidOf[cur.tid] = p => pc'[cur.tid].op \in {"bye", "sleep", "yield"}
  BY TaskFacts DEF EndedOK
<1>3. \A u \in listed : u \in Tids /\ PidOf[u] \in Tids
  BY TaskFacts
<1>4. \A p \in freed : p \in Tids
  BY TaskFacts
<1>5. \A u \in Tids : pc'[u].op = "create" => PidOf[pc'[u].on] \in {pc'[u].on, PidOf[u]}
  BY DEF EndedOK
<1> QED BY <1>1, <1>2, <1>3, <1>4, <1>5, TaskFacts DEF EndedOK

LEMMA QuietEnded ==
  ASSUME IInv, EndedOK, NEW t \in Tids,
         \/ DeviceIrq \/ DelayDone(t) \/ Bye(t) \/ Compute(t) \/ SetSleep(t)
         \/ \E op \in Ops, u \in Tids, k \in 1 .. MaxSleep : Enter(t, op, u, k)
  PROVE  EndedOK'
<1>0. stuck = "no"
  BY DEF DeviceIrq, DelayDone, Bye, Compute, SetSleep, Enter, Runs
<1>1. Idling.op = "idle"
  BY DEF Idling
<1>2. CASE DeviceIrq
  <2>1. /\ cur.tid \in Tids /\ pc[cur.tid].op = "halted" /\ pc'[cur.tid].op = "idle"
        /\ \A u \in Tids \ {cur.tid} : pc'[u] = pc[u]
        /\ UNCHANGED <<listed, node, cur, freed, alone>>
    BY <1>1, <1>2, TaskFacts DEF DeviceIrq, Woken
  <2> QED BY <2>1, <1>0, CallsKeepEnded
<1>3. CASE DelayDone(t)
  <2>1. /\ pc[t].op = "delaying" /\ pc'[t].op = "idle"
        /\ \A u \in Tids \ {t} : pc'[u] = pc[u]
        /\ UNCHANGED <<listed, node, cur, freed, alone>>
    BY <1>1, <1>3, TaskFacts DEF DelayDone
  <2> QED BY <2>1, <1>0, CallsKeepEnded
<1>4. CASE Bye(t)
  <2>1. /\ pc'[t].op = "sleep" /\ \A u \in Tids \ {t} : pc'[u] = pc[u]
        /\ UNCHANGED <<listed, node, cur, freed, alone>>
    BY <1>4, TaskFacts DEF Bye
  <2> QED BY <2>1, <1>0, CallsKeepEnded
<1>5. CASE Compute(t)
  <2>1. pc[t].op = "idle" /\ UNCHANGED <<listed, node, cur, freed, alone, pc>>
    BY <1>5 DEF Compute
  <2> QED BY <2>1, <1>0, CallsKeepEnded
<1>6. CASE SetSleep(t)
  <2>1. /\ pc[t].op \in {"sleep", "delay"} /\ (pc[t].op = "sleep" => pc'[t].op = "yield")
        /\ pc'[t].op # "create" /\ \A u \in Tids \ {t} : pc'[u] = pc[u]
        /\ UNCHANGED <<listed, freed, alone>>
    BY <1>6, TaskFacts DEF SetSleep, CallState
  <2>2. \A u \in Tids : node'[u].status = node[u].status
    BY <1>6, TaskFacts DEF SetSleep, NodeState
  <2>3. cur'.tid = cur.tid /\ cur'.status = cur.status
    BY <1>6, TaskFacts DEF SetSleep, CopyState
  <2> QED BY <2>1, <2>2, <2>3, <1>0, CallsKeepEnded
<1>7. ASSUME NEW op \in Ops, NEW u \in Tids, NEW k \in 1 .. MaxSleep, Enter(t, op, u, k)
      PROVE  EndedOK'
  <2>1. /\ pc[t].op = "idle" /\ \A v \in Tids \ {t} : pc'[v] = pc[v]
        /\ pc'[t].op = op /\ pc'[t].on = u
        /\ UNCHANGED <<listed, node, cur, freed, alone>>
    BY <1>7, TaskFacts DEF Enter
  <2>2. op = "create" => PidOf[u] \in {u, PidOf[t]}
    BY <1>7 DEF Enter, MayCall
  <2> QED BY <2>1, <2>2, <1>0, CallsKeepEnded
<1> QED BY <1>2, <1>3, <1>4, <1>5, <1>6, <1>7

(* Both entries of the schedule: what it loads can run, so its process has not
   ended. *)
LEMMA ScheduleEnded ==
  ASSUME IInv, EndedOK, NEW t \in Tids, TickSchedules \/ Yield(t)
  PROVE  EndedOK'
<1>1. stuck = "no" /\ own' = own /\ alone' = alone /\ Schedule
  BY DEF TickSchedules, Yield, Runs
<1>w. CASE stuck' = "wild"
  <2>1. UNCHANGED <<listed, first, node, cur, hw, freed>>
    BY <1>1, <1>w, ScheduleWild
  <2>2. \A u \in Tids : pc'[u].op = "create" => pc'[u] = pc[u]
    BY TaskFacts DEF TickSchedules, Yield, Woken, Idling, CallState
  <2> QED BY <1>1, <1>w, <2>1, <2>2 DEF EndedOK, Ended
<1>n. SUFFICES ASSUME stuck' # "wild" PROVE EndedOK'
  BY <1>w
<1>2. /\ \A u \in Tids : node'[u].status = node[u].status \/ (u = cur.tid /\ node[u].status # "over")
      /\ \A u \in Tids : node'[u].status = "over" <=> node[u].status = "over"
      /\ \A u \in Tids : node'[u].status = "none" => node[u].status = "none"
  BY <1>1, <1>n, ScheduleStep, TaskFacts DEF Merged, EndedOK
<1>3. /\ listed' \subseteq listed /\ cur'.tid \in listed /\ node'[cur'.tid].status = "run"
      /\ cur'.status = "run" /\ \A p \in freed' : p \in Tids /\ (p \in freed \/ node'[p].status = "over")
  BY <1>1, <1>n, ScheduleStep
<1>4. \A p \in Tids : Ended(p)' => Ended(p)
  BY <1>1, <1>2 DEF Ended
<1>5. ASSUME NEW p \in Tids, Ended(p)'
      PROVE  /\ \A u \in listed' : PidOf[u] = p => node'[u].status = "over"
             /\ PidOf[cur'.tid] # p
  <2>1. \A u \in listed : PidOf[u] = p => node'[u].status = "over"
    BY <1>2, <1>4, <1>5, TaskFacts DEF EndedOK
  <2> QED BY <2>1, <1>3
<1>6. \A u \in Tids : pc'[u].op = "create" => pc'[u] = pc[u]
  BY TaskFacts DEF TickSchedules, Yield, Woken, Idling, CallState
<1>7. \A u \in Tids : pc'[u].op = "create" => PidOf[pc'[u].on] \in {pc'[u].on, PidOf[u]}
  BY <1>6 DEF EndedOK
<1>8. \A u \in listed' : node'[PidOf[u]].status # "none"
  BY <1>2, <1>3, TaskFacts DEF EndedOK
<1>9. \A p \in freed' : node'[p].status = "over"
  BY <1>2, <1>3 DEF EndedOK
<1> QED BY <1>3, <1>5, <1>7, <1>8, <1>9 DEF EndedOK

(* A new task is a main task, or a thread of the process that creates it, which
   has not ended. *)
LEMMA InsertEnded ==
  ASSUME IInv, EndedOK, stuck = "no", NEW u \in Tids, node[u].status = "none", Insert(u),
         PidOf[u] # u => PidOf[u] = PidOf[cur.tid] /\ ~Ended(PidOf[u]),
         UNCHANGED <<cur, freed, alone>>,
         pc'[cur.tid] = pc[cur.tid]
           \/ (~Ended(PidOf[cur.tid]) /\ pc'[cur.tid].op # "create"),
         \A v \in Tids \ {cur.tid} : pc'[v] = pc[v]
  PROVE  EndedOK'
<1>1. /\ listed' = listed \cup {u} /\ \A v \in Tids \ {u} : node'[v] = node[v]
      /\ node'[u].status \in {"run", "over"}
  BY TaskFacts DEF Insert, InsertTail, NodeState
<1>2. PidOf[cur.tid] # u
  BY TaskFacts DEF EndedOK
<1>3. ASSUME NEW p \in Tids, Ended(p)', p # u
      PROVE  Ended(p)
  BY <1>1, <1>3 DEF Ended
<1>4. ASSUME NEW p \in Tids, Ended(p)', NEW v \in listed', PidOf[v] = p
      PROVE  node'[v].status = "over"
  <2>1. CASE p = u
    <3>1. v = u
      BY <1>1, <1>4, <2>1 DEF EndedOK
    <3> QED BY <1>4, <2>1, <3>1 DEF Ended
  <2>2. CASE p # u
    <3>1. Ended(p) /\ v # u
      BY <1>3, <1>4, <2>2
    <3>2. v \in listed /\ v \in Tids
      BY <1>1, <1>4, <3>1, TaskFacts
    <3> QED BY <1>1, <1>4, <3>1, <3>2 DEF EndedOK
  <2> QED BY <2>1, <2>2
<1>5. ASSUME NEW p \in Tids, Ended(p)', PidOf[cur.tid] = p
      PROVE  pc'[cur.tid].op \in {"bye", "sleep", "yield"}
  BY <1>2, <1>3, <1>5 DEF EndedOK
<1>6. \A v \in listed' : node'[PidOf[v]].status # "none"
  BY <1>1, TaskFacts DEF EndedOK
<1>7. \A p \in freed : node'[p].status = "over"
  BY <1>1, TaskFacts DEF EndedOK
<1>8. cur.status = "over" => node'[cur.tid].status = "over"
  BY <1>1, TaskFacts DEF EndedOK
<1>9. \A v \in Tids : pc'[v].op = "create" => PidOf[pc'[v].on] \in {pc'[v].on, PidOf[v]}
  BY TaskFacts DEF EndedOK
<1> QED BY <1>4, <1>5, <1>6, <1>7, <1>8, <1>9 DEF EndedOK

LEMMA CreateEnded ==
  ASSUME IInv, EndedOK, NEW t \in Tids, Create(t) \/ IpiCreate(t)
  PROVE  EndedOK'
<1>0. stuck = "no"
  BY DEF Create, IpiCreate, Runs
<1>1. Idling.op = "idle"
  BY DEF Idling
<1>2. CASE Create(t)
  <2> DEFINE u == pc[t].on
  <2>1. /\ cur.tid = t /\ pc[t].op = "create" /\ Insert(u) /\ UNCHANGED <<cur, freed, alone>>
        /\ pc'[t].op = "idle" /\ \A v \in Tids \ {t} : pc'[v] = pc[v]
    BY <1>1, <1>2, TaskFacts DEF Create, Runs
  <2>2. u \in Tids /\ node[u].status = "none" /\ PidOf[u] \in {u, PidOf[t]}
    BY <2>1, TaskFacts DEF IInv, CallsOK, EndedOK
  <2>3. ~Ended(PidOf[t])
    BY <1>0, <2>1, TaskFacts DEF EndedOK
  <2> HIDE DEF u
  <2> QED BY <2>1, <2>2, <2>3, <1>0, InsertEnded
<1>3. CASE IpiCreate(t) /\ lock = None
  <2>1. /\ PidOf[t] = t /\ node[t].status = "none" /\ Insert(t)
        /\ UNCHANGED <<cur, freed, alone>> /\ pc' = Woken
    BY <1>3 DEF IpiCreate
  <2>2. \A v \in Tids \ {cur.tid} : pc'[v] = pc[v]
    BY <2>1, TaskFacts DEF Woken
  <2>3. CASE pc[cur.tid].op # "halted"
    <3>1. pc'[cur.tid] = pc[cur.tid]
      BY <2>1, <2>3, TaskFacts DEF Woken
    <3> QED BY <2>1, <2>2, <3>1, <1>0, InsertEnded
  <2>4. CASE pc[cur.tid].op = "halted"
    <3>1. pc'[cur.tid].op = "idle"
      BY <1>1, <2>1, <2>4, TaskFacts DEF Woken
    <3>2. ~Ended(PidOf[cur.tid])
      BY <1>0, <2>4, TaskFacts DEF EndedOK
    <3> QED BY <2>1, <2>2, <3>1, <3>2, <1>0, InsertEnded
  <2> QED BY <2>3, <2>4
<1>4. CASE IpiCreate(t) /\ lock # None
  <2>1. UNCHANGED <<listed, node, cur, freed, alone, pc>>
    BY <1>4 DEF IpiCreate
  <2> QED BY <1>0, <2>1 DEF EndedOK, Ended
<1> QED BY <1>2, <1>3, <1>4

(* A call that ends the tasks S and the caller t, and leaves no thread of a main
   task among them that it does not remember *)
LEMMA MarkEnded ==
  ASSUME IInv, EndedOK, stuck = "no", NEW t \in Tids, NEW S \in SUBSET Tids, cur.tid = t,
         UNCHANGED <<listed, freed>>, alone \subseteq alone',
         \A v \in Tids : node'[v].status = IF v \in S \cup {t} THEN "over" ELSE node[v].status,
         cur'.tid = t, pc'[t].op = "bye", \A v \in Tids \ {t} : pc'[v] = pc[v],
         \A p \in S \cup {t} : PidOf[p] = p =>
            p \in alone' \/ \A u \in listed : PidOf[u] = p => node'[u].status = "over"
  PROVE  EndedOK'
<1>1. ASSUME NEW p \in Tids, Ended(p)', NEW u \in listed, PidOf[u] = p
      PROVE  node'[u].status = "over"
  <2>1. CASE p \in S \cup {t}
    BY <1>1, <2>1 DEF Ended
  <2>2. CASE p \notin S \cup {t}
    <3>1. Ended(p)
      BY <1>1, <2>2 DEF Ended
    <3> QED BY <1>1, <3>1, TaskFacts DEF EndedOK
  <2> QED BY <2>1, <2>2
<1>2. \A u \in listed : node'[PidOf[u]].status # "none"
  BY TaskFacts DEF EndedOK
<1>3. \A p \in freed : node'[p].status = "over"
  BY TaskFacts DEF EndedOK
<1>4. \A v \in Tids : pc'[v].op = "create" => PidOf[pc'[v].on] \in {pc'[v].on, PidOf[v]}
  BY DEF EndedOK
<1> QED BY <1>1, <1>2, <1>3, <1>4 DEF EndedOK

LEMMA EndEnded ==
  ASSUME IInv, EndedOK, NEW t \in Tids, Exit(t) \/ EndThread(t)
  PROVE  EndedOK'
<1>0. stuck = "no"
  BY DEF Exit, EndThread, Runs
<1>1. ASSUME NEW u, NEW S \in SUBSET Tids, Mark(t, u, S), u \in listed, cur.tid = t
      PROVE  /\ \A v \in Tids : node'[v].status = IF v \in S \cup {t} THEN "over" ELSE node[v].status
             /\ cur'.tid = t /\ pc'[t].op = "bye" /\ \A v \in Tids \ {t} : pc'[v] = pc[v]
  <2>1. /\ node' = [v \in Tids |-> IF v \in S \cup {t}
                       THEN [node[v] EXCEPT !.status = "over"] ELSE node[v]]
        /\ cur' = [cur EXCEPT !.status = "over"] /\ pc' = [pc EXCEPT ![t].op = "bye"]
    BY <1>1 DEF Mark
  <2>2. \A v \in Tids : [node[v] EXCEPT !.status = "over"].status = "over"
    BY TaskFacts DEF NodeState
  <2>3. \A v \in Tids : node'[v].status = IF v \in S \cup {t} THEN "over" ELSE node[v].status
    BY <2>1, <2>2
  <2>4. cur'.tid = t
    BY <1>1, <2>1, TaskFacts DEF CopyState
  <2>5. pc'[t].op = "bye" /\ \A v \in Tids \ {t} : pc'[v] = pc[v]
    BY <2>1, TaskFacts DEF CallState
  <2> QED BY <2>3, <2>4, <2>5
<1>2. ASSUME NEW u, NEW S, Mark(t, u, S), u \notin listed
      PROVE  UNCHANGED <<node, cur, pc>>
  BY <1>2 DEF Mark
<1>3. CASE Exit(t)
  <2> DEFINE p == PidOf[t]
  <2>1. cur.tid = t /\ Mark(t, p, TasksOf(p)) /\ UNCHANGED <<listed, freed, alone>>
    BY <1>3 DEF Exit, Runs
  <2>2. TasksOf(p) \in SUBSET Tids /\ t \in TasksOf(p) /\ \A v \in TasksOf(p) : PidOf[v] = p
    BY <2>1, TaskFacts DEF TasksOf
  <2>3. CASE p \in listed
    <3>1. /\ \A v \in Tids : node'[v].status
                = IF v \in TasksOf(p) \cup {t} THEN "over" ELSE node[v].status
          /\ cur'.tid = t /\ pc'[t].op = "bye" /\ \A v \in Tids \ {t} : pc'[v] = pc[v]
      BY <1>1, <2>1, <2>2, <2>3
    <3>2. \A u \in listed : PidOf[u] = p => node'[u].status = "over"
      BY <3>1, TaskFacts DEF TasksOf
    <3> HIDE DEF p
    <3> QED BY <2>1, <2>2, <3>1, <3>2, <1>0, MarkEnded
  <2>4. CASE p \notin listed
    BY <1>0, <1>2, <2>1, <2>4 DEF EndedOK, Ended
  <2> QED BY <2>3, <2>4
<1>4. CASE EndThread(t)
  <2> DEFINE u == pc[t].on
  <2>1. /\ cur.tid = t /\ Mark(t, u, {u}) /\ UNCHANGED <<listed, freed>>
        /\ alone' = alone \cup Orphaned({t, u}) /\ {u} \in SUBSET Tids
    BY <1>4, TaskFacts DEF EndThread, Runs
  <2> HIDE DEF u
  <2>2. CASE u \in listed
    <3>1. /\ \A v \in Tids : node'[v].status = IF v \in {u} \cup {t} THEN "over" ELSE node[v].status
          /\ cur'.tid = t /\ pc'[t].op = "bye" /\ \A v \in Tids \ {t} : pc'[v] = pc[v]
      BY <1>1, <2>1, <2>2
    <3>2. ASSUME NEW p \in {u} \cup {t}, PidOf[p] = p, p \notin alone',
                 NEW v \in listed, PidOf[v] = p
          PROVE  node'[v].status = "over"
      <4>1. v \in TasksOf(p) /\ p \in {t, u} /\ v \in Tids
        BY <3>2, TaskFacts DEF TasksOf
      <4>2. v \in {t, u} \/ node[v].status = "over"
        BY <2>1, <3>2, <4>1 DEF Orphaned
      <4> QED BY <3>1, <4>1, <4>2
    <3> QED BY <2>1, <3>1, <3>2, <1>0, MarkEnded
  <2>3. CASE u \notin listed
    <3>1. UNCHANGED <<node, cur, pc>>
      BY <1>2, <2>1, <2>3
    <3>2. \A p \in Tids : Ended(p)' => Ended(p)
      BY <2>1, <3>1 DEF Ended
    <3> QED BY <1>0, <2>1, <3>1, <3>2 DEF EndedOK
  <2> QED BY <2>2, <2>3
<1> QED BY <1>3, <1>4

(* Kill remembers that it ends a main task alone; pause finds no task that has
   ended. *)
LEMMA SetStatusEnded ==
  ASSUME IInv, EndedOK, NEW t \in Tids, SetStatus(t)
  PROVE  EndedOK'
<1> DEFINE u == pc[t].on
<1>1. /\ stuck = "no" /\ cur.tid = t /\ pc[t].op \in {"kill", "pause", "resume"}
      /\ UNCHANGED <<listed, freed, cur>> /\ alone \subseteq alone' /\ u \in Tids
      /\ pc'[t].op = "idle" /\ \A v \in Tids \ {t} : pc'[v] = pc[v]
  BY TaskFacts DEF SetStatus, Runs, Idling
<1>2. \/ UNCHANGED <<node, alone>>
      \/ /\ u \in listed /\ node[u].status = "run" /\ \A v \in Tids \ {u} : node'[v] = node[v]
         /\ node'[u].status \in {"over", "suspend", "run"}
         /\ node'[u].status = "over" /\ PidOf[u] = u => u \in alone'
  BY TaskFacts DEF SetStatus, NodeState
<1>3. ~Ended(PidOf[t])
  BY <1>1, TaskFacts DEF EndedOK
<1> HIDE DEF u
<1>4. \A p \in Tids : Ended(p)' => Ended(p)
  BY <1>1, <1>2 DEF Ended
<1>5. ASSUME NEW p \in Tids, Ended(p)'
      PROVE  /\ \A v \in listed : PidOf[v] = p => node'[v].status = "over"
             /\ PidOf[t] # p
  BY <1>1, <1>2, <1>3, <1>4, <1>5, TaskFacts DEF EndedOK
<1>6. \A v \in listed : node'[PidOf[v]].status # "none"
  BY <1>1, <1>2, TaskFacts DEF EndedOK
<1>7. \A p \in freed : node'[p].status = "over"
  BY <1>1, <1>2, TaskFacts DEF EndedOK
<1>8. cur.status = "over" => node'[cur.tid].status = "over"
  BY <1>1, <1>2, TaskFacts DEF EndedOK
<1>9. \A v \in Tids : pc'[v].op = "create" => PidOf[pc'[v].on] \in {pc'[v].on, PidOf[v]}
  BY <1>1 DEF EndedOK
<1> QED BY <1>1, <1>5, <1>6, <1>7, <1>8, <1>9 DEF EndedOK

LEMMA EndedNext ==
  ASSUME IInv, EndedOK, [Next]_vars
  PROVE  EndedOK'
<1>1. CASE UNCHANGED vars
  BY <1>1 DEF vars, EndedOK, Ended
<1>2. ASSUME NEW t \in Tids, Call(t) \/ Compute(t) \/ DeviceIrq PROVE EndedOK'
  BY <1>2, QuietEnded DEF Call
<1>3. ASSUME NEW t \in Tids, Work(t) PROVE EndedOK'
  BY <1>3, QuietEnded, ScheduleEnded, CreateEnded, EndEnded, SetStatusEnded DEF Work
<1>4. ASSUME NEW t \in Tids, IpiCreate(t) \/ TickSchedules PROVE EndedOK'
  BY <1>4, CreateEnded, ScheduleEnded
<1> QED BY <1>1, <1>2, <1>3, <1>4, SchedAssumption DEF Next

(* process.cpp:49-50: for any number of processes and threads, the reaper frees
   the memory of a process after its last thread, unless the main task was ended
   by a call that ends one task. *)
THEOREM MemoryGoesLast == Spec => []MemoryAfterThreads
<1>1. Init => EndedOK
  BY SchedAssumption DEF Init, EndedOK, Ended, Idling
<1>2. IInv /\ EndedOK => MemoryAfterThreads
  BY TaskFacts, SchedAssumption DEF MemoryAfterThreads, EndedOK, Ended
<1>3. IInv /\ EndedOK /\ [Next]_vars => EndedOK'
  BY EndedNext
<1> QED BY <1>1, <1>2, <1>3, Invariant, PTL DEF Spec
=============================================================================
