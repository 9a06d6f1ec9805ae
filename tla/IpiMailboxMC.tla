----------------------------- MODULE IpiMailboxMC -----------------------------
(* Safe: three CPUs, two tasks on the first, so that an interrupt can stray;
   three messages for the second CPU, so that its slots run out, and one for
   the third.  Live: two CPUs with one task each and two messages each way,
   enough for the handlers to cross. *)
EXTENDS IpiMailbox

CONSTANTS c1, c2, c3, s, t, u, v, m1, m2, m3, n1, n2, k

CpuOfAny == [x \in {s, t, u, v} |-> IF x = u THEN c2 ELSE IF x = v THEN c3 ELSE c1]
TargetOfAny == [m \in {m1, m2, m3, n1, n2, k} |->
    IF m \in {n1, n2} THEN c1 ELSE IF m = k THEN c3 ELSE c2]

SafeCpus == {c1, c2, c3}
SafeTasks == {s, t, u, v}
SafeFirst == [c \in SafeCpus |-> IF c = c3 THEN v ELSE IF c = c2 THEN u ELSE s]
SafeMsgs == {m1, m2, m3, k}
SafeTargetOf == [m \in SafeMsgs |-> TargetOfAny[m]]

LiveCpus == {c1, c2}
LiveTasks == {s, u}
LiveCpuOf == [x \in LiveTasks |-> CpuOfAny[x]]
LiveFirst == [c \in LiveCpus |-> SafeFirst[c]]
LiveMsgs == {m1, m2, n1, n2}
LiveTargetOf == [m \in LiveMsgs |-> TargetOfAny[m]]
=============================================================================
