----------------------------- MODULE PhysMemMC ------------------------------
(* Two CPUs: a process of the first creates a second thread of its own and a
   process on the second, or the handler of the second creates that one. *)
EXTENDS PhysMem

CONSTANTS p1, p1b, q, c1, c2

MainTasks == {p1, p1b, q}
MainCpuOf == [t \in MainTasks |-> IF t = q THEN c2 ELSE c1]
MainPidOf == [t \in MainTasks |-> IF t = p1b THEN p1 ELSE t]

TwoCpus == {c1, c2}
OneProcess == {p1}
=============================================================================
