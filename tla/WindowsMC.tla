------------------------------ MODULE WindowsMC ------------------------------
(* The Explorer and a console a share a CPU, b has one of its own and is a
   second console or another program.  There is room for all three windows,
   unless z, which was killed, left its own; a may be killed. *)
EXTENDS Windows

CONSTANTS c1, c2, e, a, b, z

MCCpus == {c1, c2}
MCTasks == {e, a, b, z}
MCCpuOf == [t \in MCTasks |-> IF t = b THEN c2 ELSE c1]
MCFirst == [c \in MCCpus |-> IF c = c2 THEN b ELSE e]
MCLeft == <<z>>
MCNamings == {[t \in MCTasks |-> t], [t \in MCTasks |-> IF t = b THEN a ELSE t]}
=============================================================================
