-------------------------------- MODULE Priority --------------------------------
(***************************************************************************)
(* Which of the ready tasks a schedule picks (PrioritySchedule of           *)
(* kernel/taskPriority.cpp): the one with the highest score.  A score is a  *)
(* base, bounded, that depends on what the tasks did so far (CPU ratio,     *)
(* windows, allocations, sleeps), and two ages: delta grows with every      *)
(* schedule that picks another task, delay is given to the task that waits  *)
(* longest.  Some tasks have no delta: those that have not run yet, those   *)
(* that were always halted when the timer fired and those marked            *)
(* TASK_REALTIME.  The ages must overcome any base.                         *)
(***************************************************************************)
EXTENDS Integers, Sequences, SequencesExt, FiniteSets, FiniteSetsExt

CONSTANTS
    Tasks,
    Idle,             \* the task that never sleeps for long
    Flat,             \* tasks without delta
    Ring,             \* the tasks in list order
    STATIC_PRIORITY,
    Bases             \* what the base of a score may be

ASSUME PriorityAssumption ==
    /\ IsFiniteSet(Tasks) /\ Idle \in Tasks
    /\ Flat \subseteq Tasks
    /\ Ring \in Seq(Tasks) /\ Len(Ring) = Cardinality(Tasks)
    /\ \A t \in Tasks : \E i \in DOMAIN Ring : Ring[i] = t
    /\ STATIC_PRIORITY \in Nat \ {0}
    /\ Bases \subseteq Nat /\ Bases # {}

VARIABLES
    run,       \* the running task
    asleep,    \* tasks with sleep left
    waits,     \* all tasks, the one that ran longest ago first (prev_tick)
    delta,     \* of each task
    delay      \* of each task

vars == <<run, asleep, waits, delta, delay>>

-----------------------------------------------------------------------------

(* The ready tasks in list order, from the running one on *)
Counted ==
    LET i == CHOOSE j \in DOMAIN Ring : Ring[j] = run
        order == SubSeq(Ring, i, Len(Ring)) \o SubSeq(Ring, 1, i - 1)
    IN SelectSeq(order, LAMBDA t : t \notin asleep)

Longer(t, u) ==
    \E i, j \in DOMAIN waits : i < j /\ waits[i] = t /\ waits[j] = u

(* Mutant: only the first task is ever compared. *)
FirstCounted(c, j) == c[1]

(* Of the first j tasks of c, the one that waits longest *)
LongestOf(c, j) ==
    CHOOSE t \in {c[i] : i \in 1 .. j} : \A i \in 1 .. j : c[i] # t => Longer(t, c[i])

(* The j-th ready task gives delay_delta, which grows with j, to the one that
   has waited longest up to then. *)
Delayed(c) ==
    [t \in Tasks |->
        delay[t] + SumSet({(j - 1) * STATIC_PRIORITY :
                              j \in {i \in DOMAIN c : LongestOf(c, i) = t}})]

Dynamic(t) == IF t \in Flat THEN STATIC_PRIORITY ELSE delta[t]

Score(c, base, t) == base[t] + Dynamic(t) + Delayed(c)[t]

(* QuickSortd puts one of the tasks with the highest score last. *)
Best(c, base) ==
    {t \in ToSet(c) : \A u \in ToSet(c) : Score(c, base, u) <= Score(c, base, t)}

Halved(d) == d \div 2

-----------------------------------------------------------------------------

Init ==
    /\ run = Idle
    /\ asleep = {}
    /\ waits = Append(SelectSeq(Ring, LAMBDA t : t # Idle), Idle)
    /\ delta = [t \in Tasks |-> STATIC_PRIORITY]
    /\ delay = [t \in Tasks |-> 0]

(* A schedule that picks v: the copy of the running task loses its delta and
   half its delay and replaces the node of the task unless that was picked. *)
Pick(c, v) ==
    LET aged == Delayed(c)
        others == ToSet(c) \ {v, run}
    IN
    /\ run' = v
    /\ delta' = [t \in Tasks |->
            CASE t \in {v, run} -> 0
              [] t \in others -> Dynamic(t) + STATIC_PRIORITY
              [] OTHER -> delta[t]]
    /\ delay' = [t \in Tasks |->
            CASE t = v -> Halved(aged[t])
              [] t = run /\ t # v -> Halved(delay[t])
              [] OTHER -> aged[t]]
    /\ waits' = Append(SelectSeq(waits, LAMBDA t : t # run), run)

Schedule ==
    /\ \E base \in [ToSet(Counted) -> Bases] :
          \E v \in Best(Counted, base) : Pick(Counted, v)
    /\ UNCHANGED asleep

(* The running task goes to sleep; the schedule it then enters is the next. *)
Sleep ==
    /\ run # Idle /\ run \notin asleep
    /\ asleep' = asleep \cup {run}
    /\ UNCHANGED <<run, waits, delta, delay>>

Wake(t) ==
    /\ t \in asleep /\ t # run
    /\ asleep' = asleep \ {t}
    /\ UNCHANGED <<run, waits, delta, delay>>

Next == Schedule \/ Sleep \/ \E t \in Tasks : Wake(t)

(* The timer keeps firing. *)
Spec == Init /\ [][Next]_vars /\ WF_vars(Schedule)

-----------------------------------------------------------------------------
(* No starvation: a ready task runs in the end, whatever the bases, the sleeps
   and the wake-ups of the others are, also a task that has no delta. *)
NoStarvation == \A t \in Tasks : t \notin asleep ~> run = t

=============================================================================
