------------------------------ MODULE BlockStore ------------------------------
(***************************************************************************)
(* What the physical-memory allocator promises: a set of blocks, no two of *)
(* which overlap, all inside the arena, that changes by handing out one    *)
(* block of free bytes or by giving back blocks as they were handed out -  *)
(* never by moving, growing, shrinking or splitting one.                   *)
(***************************************************************************)
EXTENDS Integers

CONSTANTS Base, Limit

VARIABLE store

Apart(b, d) == b.addr + b.size <= d.addr \/ d.addr + d.size <= b.addr

Fits(b) == Base < b.addr /\ b.addr + b.size <= Limit

Init == store = {}

Take(b) ==
    /\ Fits(b)
    /\ \A d \in store : Apart(b, d)
    /\ store' = store \cup {b}

Give(S) == store' = store \ S

Next ==
    \/ \E a, n \in 1 .. Limit : Take([addr |-> a, size |-> n])
    \/ \E S \in SUBSET store : Give(S)

Spec == Init /\ [][Next]_store
=============================================================================
