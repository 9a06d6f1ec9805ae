------------------------------ MODULE PriorityMC ------------------------------
(* The idle task, a realtime task and an ordinary one. *)
EXTENDS Priority

CONSTANTS idle, rt, app

MCTasks == {idle, rt, app}
MCRing == <<idle, rt, app>>
=============================================================================
