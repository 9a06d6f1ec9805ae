------------------------------ MODULE UserMemoryMC ------------------------------
(* One process with two threads, or two processes that are made one after the
   other in memory never used before.  The fast heap has one block of either of
   two classes; the second heap is twice as long as the first. *)
EXTENDS UserMemory, TLC

CONSTANTS proc1, proc2, thread1, thread2, zero

MCClasses == <<[size |-> 2, count |-> 1], [size |-> 6, count |-> 1]>>
MCThreadsOfOne == [x \in {thread1, thread2} |-> proc1]
MCThreadOfEach == [x \in {thread1, thread2} |-> IF x = thread1 THEN proc1 ELSE proc2]
Symmetry == Permutations({thread1, thread2})
MCLayouts == [Procs -> {zero}]
=============================================================================
