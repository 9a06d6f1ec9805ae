----------------------------- MODULE SchedulerMC ----------------------------
(* One CPU with its idle task and a process a with a second thread ab, both
   to be created. *)
EXTENDS Scheduler

CONSTANTS idle, a, ab

TwoTids == {idle, a, ab}
PidOfTwo == [t \in TwoTids |-> IF t = ab THEN a ELSE t]
=============================================================================
