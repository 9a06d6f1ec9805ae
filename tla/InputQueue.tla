------------------------------ MODULE InputQueue ------------------------------
(***************************************************************************)
(* What the ring of a keyboard or a mouse promises: a queue that gives its  *)
(* entries once and in order, and forgets them all when one comes that it   *)
(* has no room for.                                                         *)
(***************************************************************************)
EXTENDS Integers, Sequences

CONSTANTS
    Codes,
    Room      \* the entries it can hold

VARIABLES
    queue,
    got       \* the entry that was last given

Put(c) ==
    /\ queue' = IF Len(queue) = Room THEN <<>> ELSE Append(queue, c)
    /\ UNCHANGED got

Get ==
    /\ queue # <<>>
    /\ got' = Head(queue)
    /\ queue' = Tail(queue)

Next == (\E c \in Codes : Put(c)) \/ Get
=============================================================================
