----------------------------- MODULE ApicTimerMC -----------------------------
(* Three tasks, two slots; the callback of one task ends by removing its
   timer. *)
EXTENDS ApicTimer

CONSTANTS a, b, c

MCTasks == {a, b, c}
MCOnce == {b}
=============================================================================
