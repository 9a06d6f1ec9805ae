--------------------------------- MODULE KList ---------------------------------
(***************************************************************************)
(* The doubly linked rings of kernel/ListEntry.cpp, which hold the tasks of *)
(* a CPU, the memory descriptors and the windows.  The head is outside the  *)
(* ring: head.next is the first node, head.prev the last one, both are zero *)
(* when the list is empty, and so are the links of a node in no list.  Each *)
(* operation runs under a lock of its caller and is one step here.          *)
(***************************************************************************)
EXTENDS Integers, Sequences, FiniteSets

CONSTANTS
    Nodes,
    Null       \* the zero link

ASSUME NullAssumption == Null \notin Nodes /\ IsFiniteSet(Nodes)

VARIABLES
    next,      \* links of the nodes
    prev,
    head       \* links of the head

links == <<next, prev, head>>

Links == Nodes \cup {Null}

-----------------------------------------------------------------------------
(* What the loops of the code see *)

(* SearchList: the loop reaches n, that is, every set with the first node that
   is closed under next has n. *)
SearchList(n) ==
    \A S \in SUBSET Nodes :
        {head.next} \ {Null} \subseteq S /\ (\A m \in S : {next[m]} \ {Null} \subseteq S)
            => n \in S

(* The node k links after n *)
After(n, k) ==
    LET at[i \in Nat] == IF i = 0 THEN n
                         ELSE IF at[i - 1] = Null THEN Null ELSE next[at[i - 1]]
    IN at[k]

(* GetListSize: the loop counts until a zero link or the first node again. *)
GetListSize ==
    IF head.next = Null THEN 0
    ELSE CHOOSE k \in 1 .. Cardinality(Nodes) :
            /\ After(head.next, k) \in {Null, head.next}
            /\ \A j \in 1 .. k - 1 : After(head.next, j) \notin {Null, head.next}

(* The list as its users see it *)
Contents == [i \in 1 .. GetListSize |-> After(head.next, i - 1)]

-----------------------------------------------------------------------------

InitListEntry ==
    /\ next = [n \in Nodes |-> Null]
    /\ prev = [n \in Nodes |-> Null]
    /\ head = [next |-> Null, prev |-> Null]

(* Both inserts put n between the last and the first node, unless only one
   link of the head is zero. *)
LinkAtEnds(n) ==
    /\ (head.next = Null) = (head.prev = Null)
    /\ IF head.next = Null
       THEN next' = [next EXCEPT ![n] = n] /\ prev' = [prev EXCEPT ![n] = n]
       ELSE /\ next' = [next EXCEPT ![head.prev] = n, ![n] = head.next]
            /\ prev' = [prev EXCEPT ![head.next] = n, ![n] = head.prev]

(* Mutant: the head always takes n as its first node. *)
HeadFirst(n, end) ==
    IF head.next = Null THEN [next |-> n, prev |-> n] ELSE [head EXCEPT !.next = n]

(* The head of an empty list gets both links, another one the link at an end. *)
HeadWith(n, end) ==
    IF head.next = Null THEN [next |-> n, prev |-> n] ELSE [head EXCEPT ![end] = n]

(* The callers insert nodes that are in no list. *)
Unlinked(n) == next[n] = Null /\ prev[n] = Null

InsertListTail(n) ==
    /\ Unlinked(n)
    /\ LinkAtEnds(n)
    /\ head' = HeadWith(n, "prev")

InsertListHead(n) ==
    /\ Unlinked(n)
    /\ LinkAtEnds(n)
    /\ head' = HeadWith(n, "next")

HeadWithout(n) ==
    IF head.next = n /\ head.prev = n THEN [next |-> Null, prev |-> Null]
    ELSE IF head.next = n THEN [head EXCEPT !.next = next[n]]
    ELSE IF head.prev = n THEN [head EXCEPT !.prev = prev[n]]
    ELSE head

(* Mutant: the links of the removed node stay. *)
UnlinkOnly(n) ==
    /\ next' = [next EXCEPT ![prev[n]] = next[n]]
    /\ prev' = [prev EXCEPT ![next[n]] = prev[n]]

(* The neighbours are joined, then the links of n become zero. *)
Unlink(n) ==
    /\ next' = [next EXCEPT ![prev[n]] = next[n], ![n] = Null]
    /\ prev' = [prev EXCEPT ![next[n]] = prev[n], ![n] = Null]

(* RemoveList searches the list for n; n may be in no list. *)
RemoveList(n) ==
    /\ SearchList(n)
    /\ Unlink(n)
    /\ head' = HeadWithout(n)

(* RemoveNode only tests whether n has a link. *)
RemoveNode(n) ==
    /\ next[n] # Null \/ prev[n] # Null
    /\ Unlink(n)
    /\ head' = HeadWithout(n)

Change(n) == InsertListTail(n) \/ InsertListHead(n) \/ RemoveList(n) \/ RemoveNode(n)

ListNext == \E n \in Nodes : Change(n)

RingSpec == InitListEntry /\ [][ListNext]_links

-----------------------------------------------------------------------------
LinksOK ==
    /\ next \in [Nodes -> Links]
    /\ prev \in [Nodes -> Links]
    /\ head \in [next : Links, prev : Links]

(* The listed nodes are exactly those with links, so that the test RemoveNode
   makes and the search RemoveList makes agree; the links of two neighbours
   agree; and those of the head are the ends of one ring. *)
RingShape ==
    LET S == {n \in Nodes : next[n] # Null} IN
    /\ LinksOK
    /\ S = {n \in Nodes : prev[n] # Null}
    /\ \A n \in Nodes : n \in S <=> SearchList(n)
    /\ \A n \in S : prev[next[n]] = n /\ next[prev[n]] = n
    /\ S # {} => next[head.prev] = head.next

(* The list behaves as the sequence its users have in mind, operation by
   operation: an insertion adds its node at the end it names, a removal leaves
   the others in their order. *)
Abstract == INSTANCE ListSpec WITH list <- Contents
ListBehaves ==
    /\ Abstract!Init
    /\ [][\A n \in Nodes :
            /\ InsertListTail(n) => Abstract!InsertTail(n)
            /\ InsertListHead(n) => Abstract!InsertHead(n)
            /\ RemoveList(n) \/ RemoveNode(n) => Abstract!RemoveNode(n)]_links

=============================================================================
