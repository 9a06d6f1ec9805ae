------------------------------- MODULE ListSpec -------------------------------
(* What the users of kernel/ListEntry.cpp rely on: a list is a sequence of
   different nodes; a node is added at either end and removed anywhere. *)
EXTENDS Sequences, SequencesExt

CONSTANT Nodes

VARIABLE list

Init == list = <<>>

InsertTail(n) == n \notin ToSet(list) /\ list' = Append(list, n)

InsertHead(n) == n \notin ToSet(list) /\ list' = <<n>> \o list

RemoveNode(n) == \E i \in DOMAIN list : list[i] = n /\ list' = RemoveAt(list, i)

=============================================================================
