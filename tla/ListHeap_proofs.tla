----------------------------- MODULE ListHeap_proofs ---------------------------
(***************************************************************************)
(* Proofs about the two structures of the kernel that a loop walks along:   *)
(* the rings of kernel/ListEntry.cpp, for any set of nodes, and the heaps   *)
(* of kernel/heap.cpp, for any length.                                      *)
(***************************************************************************)
EXTENDS KList, UserMemory, SequenceTheorems, FiniteSetTheorems, WellFoundedInduction, TLAPS

-----------------------------------------------------------------------------
(* The links form one ring after any number of insertions and removals.
   SearchList is reachability: a node is found if it is in every set with the
   first node that next does not lead out of.  Each step turns such a set after
   it into one before it. *)

Linked == {n \in Nodes : next[n] # Null}

(* S has the first node and next does not lead out of it. *)
Closed(S) ==
    {head.next} \ {Null} \subseteq S /\ \A m \in S : {next[m]} \ {Null} \subseteq S

(* RingShape without the search *)
LinksAgree ==
    /\ LinksOK
    /\ \A n \in Nodes : next[n] = Null <=> prev[n] = Null
    /\ \A n \in Linked : /\ next[n] \in Linked /\ prev[n] \in Linked
                         /\ prev[next[n]] = n /\ next[prev[n]] = n
    /\ head.next = Null <=> head.prev = Null
    /\ head.next = Null <=> Linked = {}
    /\ Linked # {} => /\ head.next \in Linked /\ head.prev \in Linked
                      /\ next[head.prev] = head.next

(* There is one ring only. *)
OneRing == \A S \in SUBSET Nodes : Closed(S) => Linked \subseteq S

RingInv == LinksAgree /\ OneRing

(* A search finds the nodes that have links. *)
LEMMA SearchFindsLinked ==
  ASSUME RingInv, NEW n \in Nodes
  PROVE  n \in Linked <=> SearchList(n)
<1> USE NullAssumption
<1>1. Linked \in SUBSET Nodes
  BY DEF Linked
<1>2. Closed(Linked)
  BY DEF RingInv, LinksAgree, Closed, Linked, LinksOK, Links
<1>3. SearchList(n) <=> \A S \in SUBSET Nodes : Closed(S) => n \in S
  BY DEF SearchList, Closed
<1> QED BY <1>1, <1>2, <1>3 DEF RingInv, OneRing

LEMMA RingInit == InitListEntry => RingInv
BY NullAssumption DEF InitListEntry, RingInv, LinksAgree, OneRing, Linked, LinksOK, Links

(* What an insertion does to the links, for either end. *)
LEMMA InsertLinks ==
  ASSUME RingInv, NEW n \in Nodes, NEW end \in {"next", "prev"},
         Unlinked(n), LinkAtEnds(n), head' = HeadWith(n, end)
  PROVE  LinksAgree' /\ Linked' = Linked \cup {n}
<1> USE NullAssumption DEF RingInv, LinksAgree, LinksOK, Links, Unlinked, LinkAtEnds, HeadWith
<1>1. CASE head.next = Null
  <2>1. Linked = {}
    BY <1>1
  <2>2. /\ next' = [next EXCEPT ![n] = n] /\ prev' = [prev EXCEPT ![n] = n]
        /\ head' = [next |-> n, prev |-> n]
    BY <1>1
  <2> QED BY <2>1, <2>2 DEF Linked
<1>2. CASE head.next # Null
  <2>1. /\ head.next \in Linked /\ head.prev \in Linked /\ n \notin Linked
        /\ next[head.prev] = head.next
    BY <1>2 DEF Linked
  <2>2. /\ next' = [next EXCEPT ![head.prev] = n, ![n] = head.next]
        /\ prev' = [prev EXCEPT ![head.next] = n, ![n] = head.prev]
        /\ head' = [head EXCEPT ![end] = n]
    BY <1>2
  <2> QED BY <2>1, <2>2 DEF Linked
<1> QED BY <1>1, <1>2

LEMMA InsertKeeps ==
  ASSUME RingInv, NEW n \in Nodes, InsertListTail(n) \/ InsertListHead(n)
  PROVE  RingInv'
<1> USE NullAssumption
<1>1. PICK end \in {"next", "prev"} :
        Unlinked(n) /\ LinkAtEnds(n) /\ head' = HeadWith(n, end)
  BY DEF InsertListTail, InsertListHead
<1>2. LinksAgree' /\ Linked' = Linked \cup {n}
  BY <1>1, InsertLinks
<1>3. ASSUME NEW S \in SUBSET Nodes, Closed(S)'
      PROVE  Linked' \subseteq S
  <2>1. CASE head.next = Null
    BY <1>1, <1>2, <1>3, <2>1
       DEF RingInv, LinksAgree, Closed, LinkAtEnds, HeadWith, LinksOK, Links, Unlinked
  <2>2. CASE head.next # Null
    <3>1. /\ head.next \in Linked /\ head.prev \in Linked /\ n \notin Linked
          /\ \A m \in Linked : next[m] \in Linked
      BY <2>2, <1>1 DEF RingInv, LinksAgree, Unlinked, Linked
    <3>2. /\ \A m \in Nodes : next'[m] = IF m = n THEN head.next
                                         ELSE IF m = head.prev THEN n ELSE next[m]
          /\ head'.next \in {head.next, n}
      BY <1>1, <2>2, <3>1 DEF RingInv, LinksAgree, LinksOK, LinkAtEnds, HeadWith, Linked
    <3>3. head.next \in S
      BY <1>3, <3>1, <3>2 DEF Closed, Linked
    <3>4. Closed(S \ {n})
      BY <1>3, <3>1, <3>2, <3>3, <2>2 DEF Closed, Linked, RingInv, LinksAgree, LinksOK, Links
    <3>5. Linked \subseteq S
      BY <3>4 DEF RingInv, OneRing
    <3> QED BY <3>5, <3>1, <3>2, <1>2, <1>3 DEF Closed, Linked
  <2> QED BY <2>1, <2>2
<1> QED BY <1>2, <1>3 DEF RingInv, OneRing

(* What a removal does to the links. *)
LEMMA UnlinkLinks ==
  ASSUME RingInv, NEW n \in Linked, Unlink(n), head' = HeadWithout(n)
  PROVE  LinksAgree' /\ Linked' = Linked \ {n}
<1> USE NullAssumption DEF RingInv, LinksAgree, LinksOK, Links, Unlink, HeadWithout
<1>1. /\ next[n] \in Linked /\ prev[n] \in Linked /\ n \in Nodes
      /\ next[n] \in Nodes /\ prev[n] \in Nodes
  BY DEF Linked
<1>2. /\ \A m \in Nodes : next'[m] = IF m = n THEN Null
                                     ELSE IF m = prev[n] THEN next[n] ELSE next[m]
      /\ \A m \in Nodes : prev'[m] = IF m = n THEN Null
                                     ELSE IF m = next[n] THEN prev[n] ELSE prev[m]
      /\ next' \in [Nodes -> Links] /\ prev' \in [Nodes -> Links]
  BY <1>1
<1>3. Linked' = Linked \ {n}
  BY <1>1, <1>2 DEF Linked
<1>4. CASE head.next = n /\ head.prev = n
  <2>1. next[n] = n /\ Closed({n})
    BY <1>4, <1>1 DEF Closed
  <2>2. Linked = {n}
    BY <2>1, <1>1 DEF OneRing
  <2>3. head' = [next |-> Null, prev |-> Null]
    BY <1>4
  <2> QED BY <1>2, <1>3, <2>2, <2>3 DEF Linked
<1>5. CASE head.next # n \/ head.prev # n
  <2>1. /\ head.next \in Linked /\ head.prev \in Linked /\ next[head.prev] = head.next
    BY <1>1
  <2>2. /\ head'.next = IF head.next = n THEN next[n] ELSE head.next
        /\ head'.prev = IF head.prev = n THEN prev[n] ELSE head.prev
        /\ head' \in [next : Links, prev : Links]
    BY <1>5, <1>1
  <2>3. \A m \in Linked : /\ next[m] = next[n] => m = n
                          /\ prev[m] = prev[n] => m = n
    OBVIOUS
  <2>4. \A m \in Linked \ {n} : /\ next'[m] \in Linked \ {n} /\ prev'[m] \in Linked \ {n}
                                /\ prev'[next'[m]] = m /\ next'[prev'[m]] = m
    BY <1>1, <1>2, <2>3 DEF Linked
  <2>5. /\ head'.next \in Linked \ {n} /\ head'.prev \in Linked \ {n}
        /\ next'[head'.prev] = head'.next
    BY <1>1, <1>2, <1>5, <2>1, <2>2, <2>3 DEF Linked
  <2> QED BY <1>2, <1>3, <2>2, <2>4, <2>5 DEF Linked
<1> QED BY <1>4, <1>5

LEMMA RemoveKeeps ==
  ASSUME RingInv, NEW n \in Nodes, RemoveList(n) \/ RemoveNode(n)
  PROVE  RingInv'
<1> USE NullAssumption
<1>1. n \in Linked /\ Unlink(n) /\ head' = HeadWithout(n)
  BY SearchFindsLinked DEF RemoveList, RemoveNode, RingInv, LinksAgree, Linked
<1>2. LinksAgree' /\ Linked' = Linked \ {n}
  BY <1>1, UnlinkLinks
<1>3. ASSUME NEW S \in SUBSET Nodes, Closed(S)'
      PROVE  Linked' \subseteq S
  <2>1. /\ prev[n] \in Linked /\ next[n] \in Linked /\ next[prev[n]] = n
        /\ head.next \in Linked /\ head.prev \in Linked /\ next[head.prev] = head.next
        /\ next \in [Nodes -> Links] /\ head \in [next : Links, prev : Links]
    BY <1>1 DEF RingInv, LinksAgree, LinksOK
  <2>2. \A m \in Nodes : next'[m] = IF m = n THEN Null
                                    ELSE IF m = prev[n] THEN next[n] ELSE next[m]
    BY <1>1, <2>1 DEF Unlink, Linked
  <2>3. \A m \in Linked : next[m] = n => m = prev[n]
    BY <1>1 DEF RingInv, LinksAgree
  <2>4. head.next # n => head'.next = head.next
    BY <1>1, <2>1 DEF HeadWithout
  <2>5. head.next = n /\ head.prev # n => head'.next = next[n]
    BY <1>1, <2>1 DEF HeadWithout
  <2>6. CASE head.next # n
    <3> DEFINE T == (S \ {n}) \cup (IF prev[n] \in S THEN {n} ELSE {})
    <3>1. \A m \in S : {next'[m]} \ {Null} \subseteq S
      BY <1>3 DEF Closed
    <3>2. \A m \in T : {next[m]} \ {Null} \subseteq T
      <4>1. ASSUME NEW m \in T, next[m] # Null PROVE next[m] \in T
        <5>1. CASE m = n
          <6>1. next[m] = next[n] /\ n \in Linked
            BY <5>1, <1>1
          <6>2. CASE prev[n] \in S /\ prev[n] # n
            BY <5>1, <6>2, <2>1, <2>2, <3>1 DEF Linked
          <6>3. CASE prev[n] = n
            BY <5>1, <6>3, <2>1
          <6> QED BY <5>1, <6>2, <6>3
        <5>2. CASE m # n
          BY <5>2, <4>1, <2>1, <2>2, <2>3, <3>1 DEF Linked
        <5> QED BY <5>1, <5>2
      <4> QED BY <4>1
    <3>3. head.next \in S
      BY <1>3, <2>1, <2>4, <2>6 DEF Closed, Linked
    <3>4. T \in SUBSET Nodes /\ Closed(T)
      BY <3>2, <3>3, <2>6 DEF Closed
    <3>5. Linked \subseteq T
      BY <3>4 DEF RingInv, OneRing
    <3> QED BY <3>5, <1>2
  <2>7. CASE head.next = n /\ head.prev # n
    <3>1. next[n] \in S
      BY <1>3, <2>1, <2>5, <2>7 DEF Closed, Linked
    <3>2. \A m \in S : {next'[m]} \ {Null} \subseteq S
      BY <1>3 DEF Closed
    <3>3. S \cup {n} \in SUBSET Nodes /\ Closed(S \cup {n})
      BY <3>1, <3>2, <2>1, <2>2, <2>7 DEF Closed, Linked
    <3>4. Linked \subseteq S \cup {n}
      BY <3>3 DEF RingInv, OneRing
    <3> QED BY <3>4, <1>2
  <2>8. CASE head.next = n /\ head.prev = n
    <3>1. Closed({n})
      BY <2>1, <2>8 DEF Closed
    <3> QED BY <3>1, <1>2 DEF RingInv, OneRing
  <2> QED BY <2>6, <2>7, <2>8
<1> QED BY <1>2, <1>3 DEF RingInv, OneRing

LEMMA RingInvariant == RingSpec => []RingInv
<1>1. RingInv /\ [ListNext]_links => RingInv'
  <2> SUFFICES ASSUME RingInv, [ListNext]_links PROVE RingInv'
    OBVIOUS
  <2>1. CASE UNCHANGED links
    BY <2>1 DEF links, RingInv, LinksAgree, OneRing, LinksOK, Linked, Closed
  <2>2. ASSUME NEW n \in Nodes, Change(n) PROVE RingInv'
    BY <2>2, InsertKeeps, RemoveKeeps DEF Change
  <2> QED BY <2>1, <2>2 DEF ListNext
<1> QED BY <1>1, RingInit, PTL DEF RingSpec

(* The nodes with links are those a search finds, and they form one ring whose
   ends the head holds, whatever was inserted and removed. *)
THEOREM OneRingAlways == RingSpec => []RingShape
<1>1. RingInv => RingShape
  <2> SUFFICES ASSUME RingInv PROVE RingShape
    OBVIOUS
  <2>1. \A n \in Nodes : n \in Linked <=> SearchList(n)
    BY SearchFindsLinked
  <2> QED BY <2>1, NullAssumption DEF RingShape, RingInv, LinksAgree, Linked, LinksOK
<1> QED BY <1>1, RingInvariant, PTL

-----------------------------------------------------------------------------
(* The ring as a sequence: s lists the linked nodes in the order of next. *)
IsList(s) ==
    /\ s \in Seq(Nodes)
    /\ \A i, j \in 1 .. Len(s) : s[i] = s[j] => i = j
    /\ \A n \in Nodes : n \in Linked <=> \E i \in 1 .. Len(s) : s[i] = n
    /\ \A i \in 1 .. Len(s) - 1 : next[s[i]] = s[i + 1]
    /\ Len(s) # 0 => head.next = s[1] /\ head.prev = s[Len(s)]

(* A set of numbers has a least one. *)
LEMMA LeastNat ==
  ASSUME NEW T, T \subseteq Nat, T # {}
  PROVE  \E m \in T : \A k \in T : m <= k
<1> DEFINE R == {p \in Nat \X Nat : p[1] < p[2]}
<1>1. IsWellFoundedOn(R, Nat)
  BY NatLessThanWellFounded DEF OpToRel
<1> HIDE DEF R
<1>2. PICK m \in T : \A k \in T : <<k, m>> \notin R
  BY <1>1, WFMin
<1>3. \A k \in T : ~ (k < m)
  BY <1>2 DEF R
<1> QED BY <1>3

(* What the loop along next sees is known from any function that steps as it
   does. *)
LEMMA WalkIs ==
  ASSUME NEW n, NEW g,
         g = [i \in Nat |-> IF i = 0 THEN n
                            ELSE IF g[i - 1] = Null THEN Null ELSE next[g[i - 1]]],
         NEW k \in Nat
  PROVE  After(n, k) = g[k]
<1> DEFINE at == CHOOSE f : f = [i \in Nat |-> IF i = 0 THEN n
                                               ELSE IF f[i - 1] = Null THEN Null
                                               ELSE next[f[i - 1]]]
<1>1. After(n, k) = at[k]
  BY Zenon DEF After
<1>2. at = [i \in Nat |-> IF i = 0 THEN n
                          ELSE IF at[i - 1] = Null THEN Null ELSE next[at[i - 1]]]
  <2>1. \E f : f = [i \in Nat |-> IF i = 0 THEN n
                                  ELSE IF f[i - 1] = Null THEN Null ELSE next[f[i - 1]]]
    OBVIOUS
  <2> QED BY <2>1, Zenon
<1> HIDE DEF at
<1> DEFINE T == {i \in Nat : at[i] # g[i]}
<1>3. T = {}
  <2> SUFFICES ASSUME T # {} PROVE FALSE
    OBVIOUS
  <2>1. PICK m \in T : \A i \in T : m <= i
    BY LeastNat
  <2>2. m \in Nat /\ at[m] # g[m] /\ m # 0
    BY <1>2
  <2>3. m - 1 \in Nat /\ m - 1 \notin T
    BY <2>1, <2>2
  <2>4. at[m - 1] = g[m - 1]
    BY <2>3
  <2> QED BY <1>2, <2>2, <2>4
<1> QED BY <1>1, <1>3

(* In a ring of L the number after r is r + 1, or 0 again. *)
LEMMA ModNext ==
  ASSUME NEW L \in Nat, L > 0, NEW i \in Nat, i # 0
  PROVE  /\ (i - 1) % L \in 0 .. L - 1 /\ i % L \in 0 .. L - 1
         /\ i % L = IF (i - 1) % L = L - 1 THEN 0 ELSE ((i - 1) % L) + 1
<1>1. ASSUME NEW q \in Int, NEW r \in 0 .. L - 1 PROVE (q * L + r) % L = r
  BY <1>1
<1> DEFINE q == (i - 1) \div L
           r == (i - 1) % L
<1>2. q \in Int /\ r \in 0 .. L - 1 /\ i - 1 = L * q + r
  OBVIOUS
<1>3. i % L \in 0 .. L - 1
  OBVIOUS
<1> HIDE DEF q, r
<1>4. CASE r = L - 1
  <2>1. i = (q + 1) * L + 0
    BY <1>2, <1>4
  <2> QED BY <2>1, <1>1, <1>2, <1>3, <1>4 DEF r
<1>5. CASE r # L - 1
  <2>1. i = q * L + (r + 1) /\ r + 1 \in 0 .. L - 1
    BY <1>2, <1>5
  <2> QED BY <2>1, <1>1, <1>2, <1>3, <1>5 DEF r
<1> QED BY <1>4, <1>5

LEMMA ModSmall ==
  ASSUME NEW L \in Nat, NEW i \in 0 .. L
  PROVE  L > 0 => i % L = IF i = L THEN 0 ELSE i
OBVIOUS

(* The loop passes the nodes of the ring in order, again and again. *)
LEMMA WalkRing ==
  ASSUME RingInv, NEW s, IsList(s), Len(s) # 0, NEW k \in 0 .. Len(s)
  PROVE  After(head.next, k) = IF k = Len(s) THEN s[1] ELSE s[k + 1]
<1> DEFINE L == Len(s)
           g == [i \in Nat |-> s[(i % L) + 1]]
<1>1. L \in Nat /\ L > 0 /\ s \in Seq(Nodes) /\ head.next = s[1] /\ head.prev = s[L]
  BY LenProperties DEF IsList
<1>2. \A i \in 1 .. L : s[i] \in Nodes /\ s[i] # Null
  BY <1>1, ElementOfSeq, NullAssumption
<1>3. Linked # {} /\ next[s[L]] = s[1]
  <2>1. s[L] \in Nodes /\ s[L] \in Linked
    BY <1>1, <1>2 DEF IsList
  <2> QED BY <2>1, <1>1 DEF RingInv, LinksAgree
<1>4. \A i \in 1 .. L - 1 : next[s[i]] = s[i + 1]
  BY DEF IsList
<1> HIDE DEF L
<1>5. ASSUME NEW i \in Nat
      PROVE  g[i] = IF i = 0 THEN head.next
                    ELSE IF g[i - 1] = Null THEN Null ELSE next[g[i - 1]]
  <2>1. CASE i = 0
    <3>1. 0 % L = 0
      BY <1>1, ModSmall
    <3> QED BY <3>1, <2>1, <1>1
  <2>2. CASE i # 0
    <3> DEFINE r == (i - 1) % L
    <3>1. r \in 0 .. L - 1 /\ i % L = IF r = L - 1 THEN 0 ELSE r + 1
      BY <1>1, <2>2, ModNext
    <3>2. g[i - 1] = s[r + 1] /\ g[i] = s[(i % L) + 1]
      BY <2>2
    <3> HIDE DEF r, g
    <3>3. r + 1 \in 1 .. L
      BY <3>1, <1>1
    <3>4. g[i - 1] # Null
      BY <3>2, <3>3, <1>2
    <3>5. CASE r = L - 1
      BY <3>1, <3>2, <3>4, <3>5, <2>2, <1>1, <1>3
    <3>6. CASE r # L - 1
      <4>1. r + 1 \in 1 .. L - 1 /\ i % L = r + 1
        BY <3>1, <3>6, <1>1
      <4>2. next[s[r + 1]] = s[r + 1 + 1]
        BY <4>1, <1>4
      <4> QED BY <4>1, <4>2, <3>2, <3>4, <2>2
    <3> QED BY <3>5, <3>6
  <2> QED BY <2>1, <2>2
<1>6. g = [i \in Nat |-> IF i = 0 THEN head.next
                         ELSE IF g[i - 1] = Null THEN Null ELSE next[g[i - 1]]]
  BY <1>5, Zenon
<1>7. k \in Nat /\ g[k] = s[(k % L) + 1]
  BY <1>1 DEF L
<1> HIDE DEF g
<1>8. After(head.next, k) = g[k]
  BY <1>6, <1>7, WalkIs
<1>9. k % L = IF k = L THEN 0 ELSE k
  BY <1>1, ModSmall DEF L
<1> QED BY <1>1, <1>7, <1>8, <1>9 DEF L

(* There are no more listed nodes than nodes. *)
LEMMA ListFits ==
  ASSUME NEW s, IsList(s)
  PROVE  Len(s) <= Cardinality(Nodes) /\ Cardinality(Nodes) \in Nat
<1>1. Len(s) \in Nat /\ s \in [1 .. Len(s) -> Nodes]
  BY LenProperties DEF IsList
<1>2. s \in Injection(1 .. Len(s), Nodes)
  BY <1>1 DEF IsList, Injection, IsInjective
<1>3. Cardinality(1 .. Len(s)) = Len(s)
  BY <1>1, FS_Interval
<1> QED BY <1>1, <1>2, <1>3, FS_Injection, FS_CardinalityType, NullAssumption

(* What the users see is that sequence. *)
LEMMA ContentsIs ==
  ASSUME RingInv, NEW s, IsList(s)
  PROVE  Contents = s
<1>1. Len(s) \in Nat /\ s \in Seq(Nodes)
  BY LenProperties DEF IsList
<1>2. GetListSize = Len(s)
  <2>1. CASE Len(s) = 0
    <3>1. Linked = {}
      BY <2>1 DEF IsList, Linked
    <3> QED BY <3>1, <2>1 DEF RingInv, LinksAgree, GetListSize
  <2>2. CASE Len(s) # 0
    <3> DEFINE Ends(k) == /\ After(head.next, k) \in {Null, head.next}
                          /\ \A j \in 1 .. k - 1 : After(head.next, j) \notin {Null, head.next}
    <3>1. head.next = s[1] /\ head.next # Null
      BY <2>2, <1>1, ElementOfSeq, NullAssumption DEF IsList
    <3>2. After(head.next, Len(s)) = head.next
      BY <1>1, <2>2, <3>1, WalkRing
    <3>3. ASSUME NEW j \in 1 .. Len(s) - 1
          PROVE  After(head.next, j) \notin {Null, head.next}
      <4>1. After(head.next, j) = s[j + 1]
        BY <1>1, <2>2, WalkRing
      <4>2. s[j + 1] # s[1]
        BY <1>1 DEF IsList
      <4>3. s[j + 1] # Null
        BY <1>1, ElementOfSeq, NullAssumption
      <4> QED BY <4>1, <4>2, <4>3, <3>1
    <3>4. Len(s) \in 1 .. Cardinality(Nodes) /\ Ends(Len(s))
      BY <1>1, <2>2, <3>2, <3>3, ListFits
    <3>5. ASSUME NEW k \in 1 .. Cardinality(Nodes), Ends(k)
          PROVE  k = Len(s)
      <4>1. ~ (k < Len(s))
        BY <1>1, <3>3, <3>5, ListFits
      <4>2. ~ (k > Len(s))
        <5>1. k > Len(s) => Len(s) \in 1 .. k - 1
          BY <1>1, <2>2, ListFits
        <5> QED BY <5>1, <3>2, <3>5
      <4> QED BY <4>1, <4>2, <1>1, ListFits
    <3> HIDE DEF Ends
    <3>6. (CHOOSE k \in 1 .. Cardinality(Nodes) : Ends(k)) = Len(s)
      BY <3>4, <3>5, Zenon
    <3>7. GetListSize = CHOOSE k \in 1 .. Cardinality(Nodes) : Ends(k)
      BY <3>1, Zenon DEF GetListSize, Ends
    <3> QED BY <3>6, <3>7
  <2> QED BY <2>1, <2>2
<1>3. ASSUME NEW i \in 1 .. Len(s) PROVE After(head.next, i - 1) = s[i]
  BY <1>1, WalkRing
<1>4. Contents = [i \in 1 .. Len(s) |-> After(head.next, i - 1)]
  BY <1>2, Zenon DEF Contents
<1>5. s = [i \in 1 .. Len(s) |-> s[i]]
  BY <1>1
<1> QED BY <1>3, <1>4, <1>5, Zenon

LEMMA ListNow == \A s : RingInv /\ IsList(s) => Contents = s
BY ContentsIs

LEMMA ListThen == (\A s : RingInv /\ IsList(s) => Contents = s)'
BY ListNow, PTL

(* Facts of a list that every step needs *)
LEMMA ListFacts ==
  ASSUME RingInv, NEW s, IsList(s)
  PROVE  /\ Len(s) \in Nat /\ s \in Seq(Nodes)
         /\ \A i \in 1 .. Len(s) : s[i] \in Linked /\ s[i] \in Nodes /\ s[i] # Null
         /\ Len(s) = 0 <=> head.next = Null
         /\ next \in [Nodes -> Links] /\ prev \in [Nodes -> Links]
         /\ head \in [next : Links, prev : Links]
         /\ head.next = Null <=> head.prev = Null
<1>1. Len(s) \in Nat /\ s \in Seq(Nodes)
  BY LenProperties DEF IsList
<1>2. \A i \in 1 .. Len(s) : s[i] \in Nodes /\ s[i] # Null
  BY <1>1, ElementOfSeq, NullAssumption
<1>3. \A i \in 1 .. Len(s) : s[i] \in Linked
  BY <1>2 DEF IsList
<1>4. Len(s) = 0 => Linked = {}
  BY DEF IsList, Linked
<1>5. Len(s) # 0 => head.next = s[1]
  BY DEF IsList
<1> QED BY <1>1, <1>2, <1>3, <1>4, <1>5 DEF RingInv, LinksAgree, LinksOK

LEMMA TailAdds ==
  ASSUME RingInv, NEW s, IsList(s), NEW n \in Nodes, InsertListTail(n)
  PROVE  IsList(Append(s, n))' /\ \A i \in 1 .. Len(s) : s[i] # n
<1> DEFINE L == Len(s)
           t == Append(s, n)
<1>1. /\ L \in Nat /\ s \in Seq(Nodes)
      /\ \A i \in 1 .. L : s[i] \in Linked /\ s[i] \in Nodes /\ s[i] # Null
      /\ L = 0 <=> head.next = Null
      /\ next \in [Nodes -> Links] /\ prev \in [Nodes -> Links]
      /\ head \in [next : Links, prev : Links] /\ (head.next = Null <=> head.prev = Null)
  BY ListFacts
<1>2. Unlinked(n) /\ LinkAtEnds(n) /\ head' = HeadWith(n, "prev")
  BY DEF InsertListTail
<1>3. LinksAgree' /\ Linked' = Linked \cup {n} /\ n \notin Linked
  BY <1>2, InsertLinks DEF Unlinked, Linked
<1>4. \A i \in 1 .. L : s[i] # n
  BY <1>1, <1>3
<1>5. /\ t \in Seq(Nodes) /\ Len(t) = L + 1 /\ t[L + 1] = n
      /\ \A i \in 1 .. L : t[i] = s[i]
  BY <1>1, AppendProperties
<1>6. /\ \A i, j \in 1 .. L : s[i] = s[j] => i = j
      /\ \A m \in Nodes : m \in Linked <=> \E i \in 1 .. L : s[i] = m
      /\ \A i \in 1 .. L - 1 : next[s[i]] = s[i + 1]
      /\ L # 0 => head.next = s[1] /\ head.prev = s[L]
  BY DEF IsList
<1> HIDE DEF L, t
<1>7. \A i, j \in 1 .. Len(t) : t[i] = t[j] => i = j
  <2> SUFFICES ASSUME NEW i \in 1 .. L + 1, NEW j \in 1 .. L + 1, t[i] = t[j] PROVE i = j
    BY <1>5
  <2>1. (i \in 1 .. L \/ i = L + 1) /\ (j \in 1 .. L \/ j = L + 1)
    BY <1>1
  <2> QED BY <2>1, <1>4, <1>5, <1>6
<1>8. \A m \in Nodes : m \in Linked' <=> \E i \in 1 .. Len(t) : t[i] = m
  <2> SUFFICES ASSUME NEW m \in Nodes
               PROVE  m \in Linked \cup {n} <=> \E i \in 1 .. L + 1 : t[i] = m
    BY <1>3, <1>5
  <2>1. \A i \in 1 .. L + 1 : i \in 1 .. L \/ i = L + 1
    BY <1>1
  <2>2. L + 1 \in 1 .. L + 1 /\ \A i \in 1 .. L : i \in 1 .. L + 1
    BY <1>1
  <2> QED BY <2>1, <2>2, <1>5, <1>6
<1>9. /\ \A i \in 1 .. Len(t) - 1 : next'[t[i]] = t[i + 1]
      /\ head'.next = t[1] /\ head'.prev = t[Len(t)]
  <2>1. CASE L = 0
    <3>1. head' = [next |-> n, prev |-> n]
      BY <2>1, <1>1, <1>2 DEF HeadWith
    <3> QED BY <3>1, <2>1, <1>5
  <2>2. CASE L # 0
    <3>1. /\ next' = [next EXCEPT ![head.prev] = n, ![n] = head.next]
          /\ head' = [head EXCEPT !["prev"] = n]
      BY <2>2, <1>1, <1>2 DEF LinkAtEnds, HeadWith
    <3>2. head.prev = s[L] /\ s[L] \in Nodes /\ L \in 1 .. L /\ s[L] # n
      BY <2>2, <1>1, <1>4, <1>6
    <3>3. \A m \in Nodes \ {n} : next'[m] = IF m = s[L] THEN n ELSE next[m]
      BY <3>1, <3>2, <1>1
    <3>4. ASSUME NEW i \in 1 .. L PROVE next'[t[i]] = t[i + 1]
      <4>1. CASE i = L
        BY <4>1, <3>2, <3>3, <1>1, <1>4, <1>5
      <4>2. CASE i # L
        <5>1. i \in 1 .. L - 1 /\ i + 1 \in 1 .. L
          BY <4>2, <1>1
        <5>2. s[i] # s[L] /\ s[i] # n /\ s[i] \in Nodes
          BY <4>2, <3>2, <1>1, <1>4, <1>6
        <5> QED BY <5>1, <5>2, <3>3, <1>5, <1>6
      <4> QED BY <4>1, <4>2
    <3>5. head'.next = head.next /\ head'.prev = n
      BY <3>1, <1>1
    <3>6. Len(t) - 1 = L /\ t[1] = s[1]
      BY <2>2, <1>1, <1>5
    <3> QED BY <3>4, <3>5, <3>6, <2>2, <1>5, <1>6
  <2> QED BY <2>1, <2>2
<1>10. IsList(t)'
  BY <1>5, <1>7, <1>8, <1>9 DEF IsList
<1> QED BY <1>4, <1>10 DEF t, L

LEMMA HeadAdds ==
  ASSUME RingInv, NEW s, IsList(s), NEW n \in Nodes, InsertListHead(n)
  PROVE  IsList(<<n>> \o s)' /\ \A i \in 1 .. Len(s) : s[i] # n
<1> DEFINE L == Len(s)
           t == <<n>> \o s
<1>1. /\ L \in Nat /\ s \in Seq(Nodes)
      /\ \A i \in 1 .. L : s[i] \in Linked /\ s[i] \in Nodes /\ s[i] # Null
      /\ L = 0 <=> head.next = Null
      /\ next \in [Nodes -> Links] /\ prev \in [Nodes -> Links]
      /\ head \in [next : Links, prev : Links] /\ (head.next = Null <=> head.prev = Null)
  BY ListFacts
<1>2. Unlinked(n) /\ LinkAtEnds(n) /\ head' = HeadWith(n, "next")
  BY DEF InsertListHead
<1>3. LinksAgree' /\ Linked' = Linked \cup {n} /\ n \notin Linked
  BY <1>2, InsertLinks DEF Unlinked, Linked
<1>4. \A i \in 1 .. L : s[i] # n
  BY <1>1, <1>3
<1>5. /\ t \in Seq(Nodes) /\ Len(t) = L + 1 /\ t[1] = n
      /\ \A i \in 2 .. L + 1 : t[i] = s[i - 1]
  <2>1. <<n>> \in Seq(Nodes) /\ Len(<<n>>) = 1 /\ <<n>>[1] = n
    OBVIOUS
  <2>2. /\ t \in Seq(Nodes) /\ Len(t) = 1 + L
        /\ \A i \in 1 .. 1 + L : t[i] = IF i <= 1 THEN <<n>>[i] ELSE s[i - 1]
    BY <2>1, <1>1, ConcatProperties
  <2> HIDE DEF t, L
  <2>3. 1 \in 1 .. 1 + L /\ 1 + L = L + 1
    BY <1>1
  <2>4. t[1] = n
    BY <2>1, <2>2, <2>3
  <2>5. \A i \in 2 .. L + 1 : i \in 1 .. 1 + L /\ ~ (i <= 1)
    BY <1>1
  <2> QED BY <2>2, <2>3, <2>4, <2>5
<1>6. /\ \A i, j \in 1 .. L : s[i] = s[j] => i = j
      /\ \A m \in Nodes : m \in Linked <=> \E i \in 1 .. L : s[i] = m
      /\ \A i \in 1 .. L - 1 : next[s[i]] = s[i + 1]
      /\ L # 0 => head.next = s[1] /\ head.prev = s[L]
  BY DEF IsList
<1> HIDE DEF L, t
<1>7. \A i \in 1 .. L + 1 : i = 1 \/ (i \in 2 .. L + 1 /\ i - 1 \in 1 .. L)
  BY <1>1
<1>8. \A i, j \in 1 .. Len(t) : t[i] = t[j] => i = j
  <2> SUFFICES ASSUME NEW i \in 1 .. L + 1, NEW j \in 1 .. L + 1, t[i] = t[j] PROVE i = j
    BY <1>5
  <2>1. i # 1 /\ j # 1 => i - 1 = j - 1
    BY <1>5, <1>6, <1>7
  <2>2. i = 1 <=> j = 1
    BY <1>4, <1>5, <1>7
  <2> QED BY <2>1, <2>2, <1>1, <1>5
<1>9. \A m \in Nodes : m \in Linked' <=> \E i \in 1 .. Len(t) : t[i] = m
  <2> SUFFICES ASSUME NEW m \in Nodes
               PROVE  m \in Linked \cup {n} <=> \E i \in 1 .. L + 1 : t[i] = m
    BY <1>3, <1>5
  <2>1. ASSUME NEW i \in 1 .. L PROVE i + 1 \in 1 .. L + 1 /\ t[i + 1] = s[i]
    <3>1. i + 1 \in 2 .. L + 1 /\ i + 1 \in 1 .. L + 1 /\ (i + 1) - 1 = i
      BY <1>1
    <3>2. t[i + 1] = s[(i + 1) - 1]
      BY <3>1, <1>5
    <3> QED BY <3>1, <3>2
  <2>2. 1 \in 1 .. L + 1
    BY <1>1
  <2>3. ASSUME NEW i \in 1 .. L + 1, t[i] = m PROVE m \in Linked \cup {n}
    BY <2>3, <1>5, <1>6, <1>7
  <2>4. ASSUME m \in Linked \cup {n} PROVE \E i \in 1 .. L + 1 : t[i] = m
    BY <2>1, <2>2, <2>4, <1>5, <1>6
  <2> QED BY <2>3, <2>4
<1>10. /\ \A i \in 1 .. Len(t) - 1 : next'[t[i]] = t[i + 1]
       /\ head'.next = t[1] /\ head'.prev = t[Len(t)]
  <2>1. CASE L = 0
    <3>1. head' = [next |-> n, prev |-> n]
      BY <2>1, <1>1, <1>2 DEF HeadWith
    <3> QED BY <3>1, <2>1, <1>5
  <2>2. CASE L # 0
    <3>1. /\ next' = [next EXCEPT ![head.prev] = n, ![n] = head.next]
          /\ head' = [head EXCEPT !["next"] = n]
      BY <2>2, <1>1, <1>2 DEF LinkAtEnds, HeadWith
    <3>2. /\ head.prev = s[L] /\ head.next = s[1] /\ s[L] \in Nodes /\ L \in 1 .. L
          /\ s[L] # n
      BY <2>2, <1>1, <1>4, <1>6
    <3>3. /\ \A m \in Nodes \ {n, s[L]} : next'[m] = next[m]
          /\ next'[n] = s[1]
      BY <3>1, <3>2, <1>1
    <3>4. ASSUME NEW i \in 1 .. L PROVE next'[t[i]] = t[i + 1]
      <4>1. i + 1 \in 2 .. L + 1 /\ t[i + 1] = s[i]
        BY <1>1, <1>5
      <4>2. CASE i = 1
        BY <4>1, <4>2, <3>3, <1>5
      <4>3. CASE i # 1
        <5>1. i - 1 \in 1 .. L - 1 /\ i - 1 \in 1 .. L /\ i \in 2 .. L + 1 /\ i - 1 # L
              /\ (i - 1) + 1 = i
          BY <4>3, <1>1
        <5>2. s[i - 1] # s[L] /\ s[i - 1] # n /\ s[i - 1] \in Nodes
          BY <5>1, <3>2, <1>1, <1>4, <1>6
        <5>3. next[s[i - 1]] = s[i]
          BY <5>1, <1>6
        <5> QED BY <5>1, <5>2, <5>3, <4>1, <3>3, <1>5
      <4> QED BY <4>2, <4>3
    <3>5. head'.next = n /\ head'.prev = head.prev
      BY <3>1, <1>1
    <3>6. Len(t) - 1 = L /\ t[L + 1] = s[L]
      <4>1. L + 1 \in 2 .. L + 1 /\ (L + 1) - 1 = L
        BY <2>2, <1>1
      <4> QED BY <4>1, <1>5
    <3> QED BY <3>2, <3>4, <3>5, <3>6, <1>5
  <2> QED BY <2>1, <2>2
<1>11. IsList(t)'
  BY <1>5, <1>8, <1>9, <1>10 DEF IsList
<1> QED BY <1>4, <1>11 DEF t, L

(* A sequence without its place k *)
LEMMA WithoutPlace ==
  ASSUME NEW s \in Seq(Nodes), NEW k \in 1 .. Len(s)
  PROVE  /\ Len(s) \in Nat
         /\ Abstract!RemoveAt(s, k) \in Seq(Nodes)
         /\ Len(Abstract!RemoveAt(s, k)) = Len(s) - 1
         /\ \A i \in 1 .. Len(s) - 1 :
               Abstract!RemoveAt(s, k)[i] = IF i < k THEN s[i] ELSE s[i + 1]
<1> DEFINE L == Len(s)
           a == SubSeq(s, 1, k - 1)
           b == SubSeq(s, k + 1, L)
<1>1. L \in Nat /\ \A i \in 1 .. L : s[i] \in Nodes
  BY LenProperties, ElementOfSeq
<1>2. /\ a \in Seq(Nodes) /\ Len(a) = k - 1
      /\ \A i \in 1 .. k - 1 : a[i] = s[i]
  <2>1. /\ 1 \in Int /\ k - 1 \in Int /\ 1 .. k - 1 \subseteq 1 .. L
        /\ (1 <= k - 1 \/ k - 1 = 0) /\ k \in Int
    BY <1>1
  <2>2. \A i \in 1 .. k - 1 : s[i] \in Nodes
    BY <1>1, <2>1
  <2>3. /\ a \in Seq(Nodes) /\ Len(a) = (IF 1 <= k - 1 THEN (k - 1) - 1 + 1 ELSE 0)
        /\ \A i \in 1 .. (k - 1) - 1 + 1 : a[i] = s[1 + i - 1]
    BY <2>1, <2>2, SubSeqProperties
  <2> HIDE DEF a
  <2>4. (k - 1) - 1 + 1 = k - 1 /\ \A i \in 1 .. k - 1 : 1 + i - 1 = i
    BY <2>1
  <2> QED BY <2>1, <2>3, <2>4
<1>3. /\ b \in Seq(Nodes) /\ Len(b) = L - k
      /\ \A i \in 1 .. L - k : b[i] = s[k + i]
  <2>1. /\ k + 1 \in Int /\ L \in Int /\ k + 1 .. L \subseteq 1 .. L
        /\ (k + 1 <= L \/ L - k = 0) /\ k \in Int
    BY <1>1
  <2>2. \A i \in k + 1 .. L : s[i] \in Nodes
    BY <1>1, <2>1
  <2>3. /\ b \in Seq(Nodes) /\ Len(b) = (IF k + 1 <= L THEN L - (k + 1) + 1 ELSE 0)
        /\ \A i \in 1 .. L - (k + 1) + 1 : b[i] = s[(k + 1) + i - 1]
    BY <2>1, <2>2, SubSeqProperties
  <2> HIDE DEF b, L
  <2>4. L - (k + 1) + 1 = L - k /\ \A i \in 1 .. L - k : (k + 1) + i - 1 = k + i
    BY <2>1
  <2> QED BY <2>1, <2>3, <2>4
<1>4. Abstract!RemoveAt(s, k) = a \o b
  BY DEF Abstract!RemoveAt
<1> HIDE DEF a, b, L
<1>5. /\ a \o b \in Seq(Nodes) /\ Len(a \o b) = Len(a) + Len(b)
      /\ \A i \in 1 .. Len(a) + Len(b) :
            (a \o b)[i] = IF i <= Len(a) THEN a[i] ELSE b[i - Len(a)]
  BY <1>2, <1>3, ConcatProperties
<1>6. Len(a) + Len(b) = L - 1
  BY <1>1, <1>2, <1>3
<1>7. ASSUME NEW i \in 1 .. L - 1
      PROVE  (a \o b)[i] = IF i < k THEN s[i] ELSE s[i + 1]
  <2>1. (a \o b)[i] = IF i <= k - 1 THEN a[i] ELSE b[i - (k - 1)]
    BY <1>2, <1>5, <1>6
  <2>2. CASE i < k
    <3>1. i <= k - 1 /\ i \in 1 .. k - 1
      BY <2>2, <1>1
    <3> QED BY <2>1, <2>2, <3>1, <1>2
  <2>3. CASE ~ (i < k)
    <3>1. ~ (i <= k - 1) /\ i - (k - 1) \in 1 .. L - k /\ k + (i - (k - 1)) = i + 1
      BY <2>3, <1>1
    <3> QED BY <2>1, <2>3, <3>1, <1>3
  <2> QED BY <2>2, <2>3
<1> QED BY <1>1, <1>4, <1>5, <1>6, <1>7 DEF L

LEMMA RemovalTakes ==
  ASSUME RingInv, NEW s, IsList(s), NEW n \in Nodes, RemoveList(n) \/ RemoveNode(n)
  PROVE  \E k \in 1 .. Len(s) : s[k] = n /\ IsList(Abstract!RemoveAt(s, k))'
<1> DEFINE L == Len(s)
<1>1. /\ L \in Nat /\ s \in Seq(Nodes)
      /\ \A i \in 1 .. L : s[i] \in Linked /\ s[i] \in Nodes /\ s[i] # Null
      /\ next \in [Nodes -> Links] /\ prev \in [Nodes -> Links]
      /\ head \in [next : Links, prev : Links]
  BY ListFacts
<1>2. /\ \A i, j \in 1 .. L : s[i] = s[j] => i = j
      /\ \A m \in Nodes : m \in Linked <=> \E i \in 1 .. L : s[i] = m
      /\ \A i \in 1 .. L - 1 : next[s[i]] = s[i + 1]
      /\ L # 0 => head.next = s[1] /\ head.prev = s[L]
  BY DEF IsList
<1>3. n \in Linked /\ Unlink(n) /\ head' = HeadWithout(n)
  BY SearchFindsLinked DEF RemoveList, RemoveNode, RingInv, LinksAgree, Linked
<1>4. Linked' = Linked \ {n}
  BY <1>3, UnlinkLinks
<1>5. PICK k \in 1 .. L : s[k] = n
  BY <1>2, <1>3
<1> DEFINE t == Abstract!RemoveAt(s, k)
<1>6. /\ t \in Seq(Nodes) /\ Len(t) = L - 1
      /\ \A i \in 1 .. L - 1 : t[i] = IF i < k THEN s[i] ELSE s[i + 1]
  BY <1>1, <1>5, WithoutPlace
<1> HIDE DEF L, t
<1> DEFINE at(i) == IF i < k THEN i ELSE i + 1
<1>7. \A i \in 1 .. L - 1 : at(i) \in 1 .. L /\ at(i) # k /\ t[i] = s[at(i)]
  BY <1>1, <1>6
<1>8. \A j \in 1 .. L : j # k => \E i \in 1 .. L - 1 : at(i) = j
  <2> SUFFICES ASSUME NEW j \in 1 .. L, j # k PROVE \E i \in 1 .. L - 1 : at(i) = j
    OBVIOUS
  <2>1. CASE j < k
    <3>1. j \in 1 .. L - 1 /\ at(j) = j
      BY <2>1, <1>1, <1>5
    <3> QED BY <3>1
  <2>2. CASE j > k
    <3>1. j - 1 \in 1 .. L - 1 /\ at(j - 1) = j
      BY <2>2, <1>1
    <3> QED BY <3>1
  <2> QED BY <2>1, <2>2, <1>1, <1>5
<1>9. \A i, j \in 1 .. Len(t) : t[i] = t[j] => i = j
  <2> SUFFICES ASSUME NEW i \in 1 .. L - 1, NEW j \in 1 .. L - 1, t[i] = t[j] PROVE i = j
    BY <1>6
  <2>1. at(i) = at(j)
    BY <1>2, <1>7
  <2>2. k \in Int /\ i \in Int /\ j \in Int
    BY <1>1, <1>5
  <2> HIDE DEF L
  <2> QED BY <2>1, <2>2
<1>10. \A m \in Nodes : m \in Linked' <=> \E i \in 1 .. Len(t) : t[i] = m
  <2> SUFFICES ASSUME NEW m \in Nodes
               PROVE  m \in Linked \ {n} <=> \E i \in 1 .. L - 1 : t[i] = m
    BY <1>4, <1>6
  <2>1. ASSUME NEW i \in 1 .. L - 1, t[i] = m PROVE m \in Linked \ {n}
    <3>1. at(i) \in 1 .. L /\ at(i) # k /\ t[i] = s[at(i)]
      BY <1>7
    <3> HIDE DEF at
    <3>2. s[at(i)] \in Linked /\ s[at(i)] # s[k]
      BY <3>1, <1>1, <1>2, <1>5
    <3> QED BY <2>1, <3>1, <3>2, <1>5
  <2>2. ASSUME m \in Linked \ {n} PROVE \E i \in 1 .. L - 1 : t[i] = m
    <3>1. PICK j \in 1 .. L : s[j] = m
      BY <2>2, <1>2
    <3>2. PICK i \in 1 .. L - 1 : at(i) = j
      BY <3>1, <2>2, <1>5, <1>8
    <3> QED BY <3>1, <3>2, <1>7
  <2> QED BY <2>1, <2>2
<1>11. next[s[L]] = s[1]
  BY <1>1, <1>2, <1>3, <1>5 DEF RingInv, LinksAgree
<1>12. prev[n] = IF k = 1 THEN s[L] ELSE s[k - 1]
  <2>1. \A m \in Linked : prev[next[m]] = m
    BY DEF RingInv, LinksAgree
  <2>2. CASE k = 1
    <3>1. s[L] \in Linked /\ next[s[L]] = n
      BY <2>2, <1>1, <1>5, <1>11
    <3> QED BY <2>1, <2>2, <3>1
  <2>3. CASE k # 1
    <3>1. k - 1 \in 1 .. L /\ k - 1 \in 1 .. L - 1 /\ (k - 1) + 1 = k
      BY <2>3, <1>1
    <3>2. s[k - 1] \in Linked /\ next[s[k - 1]] = n
      BY <3>1, <1>1, <1>2, <1>5
    <3> QED BY <2>1, <2>3, <3>2
  <2> QED BY <2>2, <2>3
<1>13. \A m \in Nodes \ {n} : next'[m] = IF m = prev[n] THEN next[n] ELSE next[m]
  <2>1. next' = [next EXCEPT ![prev[n]] = next[n], ![n] = Null]
    BY <1>3 DEF Unlink
  <2> QED BY <2>1, <1>1
<1>14. ASSUME NEW i \in 1 .. L - 2
       PROVE  next'[t[i]] = t[i + 1]
  <2>1. /\ i \in 1 .. L - 1 /\ i + 1 \in 1 .. L - 1
        /\ t[i] = s[at(i)] /\ t[i + 1] = s[at(i + 1)]
        /\ at(i) \in 1 .. L /\ at(i) # k
    BY <1>1, <1>7
  <2>2. t[i] \in Nodes \ {n}
    BY <2>1, <1>1, <1>2, <1>5
  <2>3. CASE i = k - 1
    <3>1. /\ k # 1 /\ at(i) = k - 1 /\ at(i + 1) = k + 1 /\ k \in 1 .. L - 1
      BY <2>3, <1>1
    <3>2. t[i] = prev[n] /\ next[n] = s[k + 1]
      BY <3>1, <2>1, <1>2, <1>5, <1>12
    <3> QED BY <3>1, <3>2, <2>1, <2>2, <1>13
  <2>4. CASE i # k - 1
    <3>1. /\ at(i + 1) = at(i) + 1 /\ at(i) \in 1 .. L - 1
          /\ at(i) # L /\ at(i) # k - 1 /\ (k # 1 => k - 1 \in 1 .. L) /\ L \in 1 .. L
      BY <2>4, <1>1
    <3>2. next[s[at(i)]] = s[at(i) + 1]
      BY <3>1, <1>2
    <3>3. s[at(i)] # prev[n]
      BY <3>1, <2>1, <1>2, <1>12
    <3> QED BY <3>1, <3>2, <3>3, <2>1, <2>2, <1>13
  <2> QED BY <2>3, <2>4
<1>15. ASSUME Len(t) # 0
       PROVE  head'.next = t[1] /\ head'.prev = t[Len(t)]
  <2>1. /\ L > 1 /\ 1 \in 1 .. L - 1 /\ L - 1 \in 1 .. L - 1 /\ 1 \in 1 .. L /\ L \in 1 .. L
        /\ head.next = s[1] /\ head.prev = s[L] /\ s[1] # s[L]
    BY <1>1, <1>2, <1>6, <1>15
  <2>2. /\ head.next = n <=> k = 1
        /\ head.prev = n <=> k = L
    BY <2>1, <1>2, <1>5
  <2>3. /\ t[1] = IF k = 1 THEN s[2] ELSE s[1]
        /\ t[L - 1] = IF k = L THEN s[L - 1] ELSE s[L]
    <3>1. /\ at(1) = IF k = 1 THEN 2 ELSE 1
          /\ at(L - 1) = IF k = L THEN L - 1 ELSE L
      BY <2>1, <1>1
    <3> QED BY <3>1, <2>1, <1>7
  <2>4. CASE k = 1
    <3>1. head' = [head EXCEPT !.next = next[n]]
      BY <2>1, <2>2, <2>4, <1>3 DEF HeadWithout
    <3>2. next[n] = s[2]
      BY <2>1, <2>4, <1>2, <1>5
    <3> QED BY <3>1, <3>2, <2>1, <2>3, <2>4, <1>1, <1>6
  <2>5. CASE k = L
    <3>1. head' = [head EXCEPT !.prev = prev[n]]
      BY <2>1, <2>2, <2>5, <1>3 DEF HeadWithout
    <3>2. prev[n] = s[L - 1]
      BY <2>1, <2>5, <1>12
    <3> QED BY <3>1, <3>2, <2>1, <2>3, <2>5, <1>1, <1>6
  <2>6. CASE k # 1 /\ k # L
    <3>1. head' = head
      BY <2>2, <2>6, <1>3 DEF HeadWithout
    <3> QED BY <3>1, <2>1, <2>3, <2>6, <1>6
  <2> QED BY <2>4, <2>5, <2>6
<1>16. IsList(t)'
  <2>1. \A i \in 1 .. Len(t) - 1 : next'[t[i]] = t[i + 1]
    <3>1. Len(t) - 1 = L - 2
      BY <1>1, <1>6
    <3> QED BY <3>1, <1>14
  <2> QED BY <2>1, <1>6, <1>9, <1>10, <1>15 DEF IsList
<1> QED BY <1>5, <1>16 DEF t, L

(* The links form a list. *)
IsSome == \E s : IsList(s)

LEMMA EmptyFirst == InitListEntry => IsList(<< >>) /\ Contents = << >>
<1> SUFFICES ASSUME InitListEntry PROVE IsList(<< >>) /\ Contents = << >>
  OBVIOUS
<1>1. << >> \in Seq(Nodes) /\ Len(<< >>) = 0 /\ Linked = {}
  BY DEF InitListEntry, Linked
<1>2. IsList(<< >>)
  BY <1>1 DEF IsList
<1> QED BY <1>2, RingInit, ContentsIs

(* Every operation of the links is that of the sequence. *)
LEMMA OperationsAre ==
  ASSUME RingInv, RingInv', IsSome, NEW n \in Nodes
  PROVE  /\ InsertListTail(n) => IsSome' /\ Abstract!InsertTail(n)
         /\ InsertListHead(n) => IsSome' /\ Abstract!InsertHead(n)
         /\ RemoveList(n) \/ RemoveNode(n) => IsSome' /\ Abstract!RemoveNode(n)
<1>1. PICK s : IsList(s)
  BY DEF IsSome
<1>2. Contents = s
  BY <1>1, ContentsIs
<1>3. \A t : IsList(t)' => Contents' = t
  BY ListThen
<1>4. Len(s) \in Nat /\ DOMAIN s = 1 .. Len(s)
  BY <1>1, LenProperties DEF IsList
<1>5. ASSUME InsertListTail(n) PROVE IsSome' /\ Abstract!InsertTail(n)
  <2>1. IsList(Append(s, n))' /\ \A i \in 1 .. Len(s) : s[i] # n
    BY <1>1, <1>5, TailAdds
  <2>2. Contents' = Append(Contents, n)
    BY <2>1, <1>2, <1>3
  <2>3. n \notin Abstract!ToSet(Contents)
    BY <2>1, <1>2, <1>4 DEF Abstract!ToSet
  <2> QED BY <2>1, <2>2, <2>3 DEF IsSome, Abstract!InsertTail
<1>6. ASSUME InsertListHead(n) PROVE IsSome' /\ Abstract!InsertHead(n)
  <2>1. IsList(<<n>> \o s)' /\ \A i \in 1 .. Len(s) : s[i] # n
    BY <1>1, <1>6, HeadAdds
  <2>2. Contents' = <<n>> \o Contents
    BY <2>1, <1>2, <1>3
  <2>3. n \notin Abstract!ToSet(Contents)
    BY <2>1, <1>2, <1>4 DEF Abstract!ToSet
  <2> QED BY <2>1, <2>2, <2>3 DEF IsSome, Abstract!InsertHead
<1>7. ASSUME RemoveList(n) \/ RemoveNode(n) PROVE IsSome' /\ Abstract!RemoveNode(n)
  <2>1. PICK k \in 1 .. Len(s) : s[k] = n /\ IsList(Abstract!RemoveAt(s, k))'
    BY <1>1, <1>7, RemovalTakes
  <2>2. Contents' = Abstract!RemoveAt(Contents, k)
    BY <2>1, <1>2, <1>3
  <2> QED BY <2>1, <2>2, <1>2, <1>4 DEF IsSome, Abstract!RemoveNode
<1> QED BY <1>5, <1>6, <1>7

LEMMA SomeKeeps == RingInv /\ RingInv' /\ IsSome /\ [ListNext]_links => IsSome'
<1> SUFFICES ASSUME RingInv, RingInv', IsSome, [ListNext]_links PROVE IsSome'
  OBVIOUS
<1>1. CASE UNCHANGED links
  BY <1>1 DEF links, IsSome, IsList, Linked
<1>2. ASSUME NEW n \in Nodes, Change(n) PROVE IsSome'
  BY <1>2, OperationsAre DEF Change
<1> QED BY <1>1, <1>2 DEF ListNext

(* The rings behave as sequences, operation by operation, for any finite set of
   nodes: InsertListTail and InsertListHead add a node at the end they name,
   RemoveList and RemoveNode leave the others in their order
   (kernel/ListEntry.cpp). *)
THEOREM RingIsList == RingSpec => ListBehaves
<1>1. RingInv /\ RingInv' /\ IsSome /\ [ListNext]_links =>
        [\A n \in Nodes :
            /\ InsertListTail(n) => Abstract!InsertTail(n)
            /\ InsertListHead(n) => Abstract!InsertHead(n)
            /\ RemoveList(n) \/ RemoveNode(n) => Abstract!RemoveNode(n)]_links
  BY OperationsAre
<1>2. InitListEntry => Abstract!Init /\ IsSome
  BY EmptyFirst DEF Abstract!Init, IsSome
<1> QED BY <1>1, <1>2, SomeKeeps, RingInvariant, PTL DEF RingSpec, ListBehaves

-----------------------------------------------------------------------------
(* The blocks of a heap lie one behind the other and no tag that has become data
   can be taken for one of a block: every search, split and join keeps that. *)

Tags == [addr : Nat, size : Nat, used : BOOLEAN]

(* The blocks of m are at the places C, one behind the other, and E is the
   place behind the last. *)
ChainIs(m, C, E) ==
    /\ C \subseteq 1 .. Len(m) /\ E \in 1 .. Len(m) + 1
    /\ 1 \in C \cup {E}
    /\ \A q \in C \cup {E} : q = 1 \/ \E p \in C : Behind(m, p) = q
    /\ \A p \in C : p < E /\ Behind(m, p) \in C \cup {E}
    /\ \A p \in C, q \in C \cup {E} : p < q => Behind(m, p) <= q
    /\ \A p \in C : m[p].addr = p + 1 /\ m[p + 1 + m[p].size] = m[p]
    /\ \A p \in C : ~m[p].used /\ Behind(m, p) \in C => m[Behind(m, p)].used
    /\ \A q \in E .. Len(m) : m[q] = Zero

(* No tag that stayed behind as data can be taken for that of a block. *)
NoneStale(m, C) == \A q \in 1 .. Len(m) \ C : m[q].addr = q + 1 => ~TagsMatch(m, q + 1)

LEMMA TagFacts ==
  ASSUME NEW m \in Seq(Tags)
  PROVE  /\ Len(m) \in Nat /\ DOMAIN m = 1 .. Len(m)
         /\ \A p \in 1 .. Len(m) : /\ m[p] \in Tags /\ m[p].size \in Nat /\ m[p].addr \in Nat
                                   /\ m[p].used \in BOOLEAN
                                   /\ Behind(m, p) \in Nat /\ Behind(m, p) >= p + 2
<1>1. Len(m) \in Nat /\ DOMAIN m = 1 .. Len(m) /\ \A p \in 1 .. Len(m) : m[p] \in Tags
  BY ElementOfSeq, LenProperties
<1>2. ASSUME NEW p \in 1 .. Len(m)
      PROVE  /\ m[p].size \in Nat /\ m[p].addr \in Nat /\ m[p].used \in BOOLEAN
             /\ p + m[p].size + 2 \in Nat /\ p + m[p].size + 2 >= p + 2
  <2>1. m[p].size \in Nat /\ m[p].addr \in Nat /\ m[p].used \in BOOLEAN
    BY <1>1 DEF Tags
  <2> QED BY <2>1, <1>1
<1> QED BY <1>1, <1>2 DEF Behind

(* There is a function that collects the places from each on: what is in every
   set that has the place and that the blocks do not lead out of. *)
LEMMA WalkExists ==
  ASSUME NEW m \in Seq(Tags)
  PROVE  \E f : f = [p \in Nat |-> IF p \notin DOMAIN m \/ IsVirgin(m, p) THEN {}
                                   ELSE {p} \cup f[Behind(m, p)]]
<1> DEFINE B == {p \in Nat : p \in DOMAIN m /\ ~IsVirgin(m, p)}
           Kept(S) == \A x \in S : x \in B => Behind(m, x) \in S
           Reach(p) == {q \in B : \A S \in SUBSET Nat : p \in S /\ Kept(S) => q \in S}
           f == [p \in Nat |-> Reach(p)]
<1>1. \A p \in B : Behind(m, p) \in Nat
  BY TagFacts
<1> HIDE DEF B
<1>2. ASSUME NEW p \in Nat, p \notin B PROVE Reach(p) = {}
  <2>1. {p} \in SUBSET Nat /\ p \in {p} /\ Kept({p})
    BY <1>2
  <2>2. \A q \in B : q # p
    BY <1>2
  <2> QED BY <2>1, <2>2
<1>3. ASSUME NEW p \in Nat, p \in B PROVE Reach(p) = {p} \cup Reach(Behind(m, p))
  <2>1. ASSUME NEW q \in Reach(p), q # p PROVE q \in Reach(Behind(m, p))
    <3> SUFFICES ASSUME NEW S \in SUBSET Nat, Behind(m, p) \in S, Kept(S) PROVE q \in S
      BY <2>1
    <3>1. S \cup {p} \in SUBSET Nat /\ p \in S \cup {p} /\ Kept(S \cup {p})
      OBVIOUS
    <3> HIDE DEF Kept
    <3> QED BY <2>1, <3>1
  <2>2. ASSUME NEW q \in Reach(Behind(m, p)) PROVE q \in Reach(p)
    <3> SUFFICES ASSUME NEW S \in SUBSET Nat, p \in S, Kept(S) PROVE q \in S
      BY <2>2
    <3>1. Behind(m, p) \in S
      BY <1>3
    <3> HIDE DEF Kept
    <3> QED BY <2>2, <3>1
  <2>3. p \in Reach(p)
    BY <1>3
  <2> HIDE DEF Reach
  <2>4. Reach(p) \subseteq {p} \cup Reach(Behind(m, p))
    BY <2>1
  <2> QED BY <2>2, <2>3, <2>4
<1> HIDE DEF Reach
<1>4. ASSUME NEW p \in Nat
      PROVE  f[p] = IF p \notin DOMAIN m \/ IsVirgin(m, p) THEN {}
                    ELSE {p} \cup f[Behind(m, p)]
  <2>1. p \in B <=> ~(p \notin DOMAIN m \/ IsVirgin(m, p))
    BY DEF B
  <2> QED BY <2>1, <1>1, <1>2, <1>3
<1>5. f = [p \in Nat |-> IF p \notin DOMAIN m \/ IsVirgin(m, p) THEN {}
                         ELSE {p} \cup f[Behind(m, p)]]
  BY <1>4
<1> QED BY <1>5

(* The walk from the base passes the blocks. *)
LEMMA ChainFound ==
  ASSUME NEW m \in Seq(Tags), NEW C, NEW E, ChainIs(m, C, E)
  PROVE  Chain(m) = C
<1> DEFINE from == CHOOSE f : f = [p \in Nat |-> IF p \notin DOMAIN m \/ IsVirgin(m, p) THEN {}
                                                 ELSE {p} \cup f[Behind(m, p)]]
<1>1. Chain(m) = from[1]
  BY Zenon DEF Chain
<1>2. from = [p \in Nat |-> IF p \notin DOMAIN m \/ IsVirgin(m, p) THEN {}
                            ELSE {p} \cup from[Behind(m, p)]]
  BY WalkExists, Zenon
<1>3. \A p \in Nat : from[p] = IF p \notin DOMAIN m \/ IsVirgin(m, p) THEN {}
                               ELSE {p} \cup from[Behind(m, p)]
  BY <1>2
<1> HIDE DEF from
<1>4. /\ Len(m) \in Nat /\ DOMAIN m = 1 .. Len(m)
      /\ C \subseteq 1 .. Len(m) /\ E \in 1 .. Len(m) + 1 /\ 1 \in C \cup {E}
      /\ \A p \in C : p < E /\ Behind(m, p) \in C \cup {E} /\ m[p].addr = p + 1
      /\ \A p \in C, q \in C \cup {E} : p < q => Behind(m, p) <= q
      /\ \A p \in C : Behind(m, p) >= p + 2
      /\ \A q \in E .. Len(m) : m[q] = Zero
  BY TagFacts DEF ChainIs
<1>4a. \A p \in C \cup {E} : p \in Nat
  BY <1>4
<1>4b. \A p \in C : ~(E <= p)
  BY <1>4, <1>4a
<1> DEFINE Rest(p) == {q \in C : p <= q}
           T == {k \in Nat : \E p \in C \cup {E} : k = Len(m) + 1 - p /\ from[p] # Rest(p)}
<1>5. T = {}
  <2> SUFFICES ASSUME T # {} PROVE FALSE
    OBVIOUS
  <2>1. PICK k \in T : \A j \in T : k <= j
    BY LeastNat
  <2>2. PICK p \in C \cup {E} : k = Len(m) + 1 - p /\ from[p] # Rest(p)
    OBVIOUS
  <2>3. CASE p = E
    <3>1. E \notin DOMAIN m \/ IsVirgin(m, E)
      BY <1>4 DEF IsVirgin
    <3>2. E \in Nat
      BY <1>4
    <3>2a. from[E] = {}
      BY <3>1, <3>2, <1>3
    <3>3. Rest(E) = {}
      BY <1>4b
    <3> QED BY <3>2a, <3>3, <2>2, <2>3
  <2>4. CASE p \in C
    <3> DEFINE n == Behind(m, p)
    <3>1. n \in C \cup {E} /\ n \in Nat /\ n > p /\ p \in Nat
      <4>1. n \in C \cup {E} /\ n >= p + 2
        BY <2>4, <1>4
      <4>2. n \in Nat /\ p \in Nat
        BY <2>4, <4>1, <1>4a
      <4> HIDE DEF n
      <4> QED BY <4>1, <4>2
    <3>2. ~IsVirgin(m, p) /\ p \in DOMAIN m
      BY <2>4, <1>4 DEF IsVirgin, Zero
    <3>3. from[p] = {p} \cup from[n]
      BY <3>1, <3>2, <1>3
    <3> HIDE DEF n
    <3>4. Len(m) + 1 - n \in Nat /\ Len(m) + 1 - n < k
      BY <3>1, <2>2, <1>4
    <3>5. from[n] = Rest(n)
      BY <3>1, <3>4, <2>1
    <3>6. \A q \in C : p <= q <=> q = p \/ n <= q
      <4> SUFFICES ASSUME NEW q \in C PROVE p <= q <=> q = p \/ n <= q
        OBVIOUS
      <4>1. q \in Nat
        BY <1>4
      <4>2. p < q => n <= q
        BY <2>4, <1>4 DEF n
      <4> QED BY <3>1, <4>1, <4>2
    <3>7. Rest(p) = {p} \cup Rest(n)
      BY <2>4, <3>6
    <3> QED BY <2>2, <3>3, <3>5, <3>7
  <2> QED BY <2>3, <2>4
<1>6. from[1] = Rest(1)
  <2>1. Len(m) + 1 - 1 \in Nat
    BY <1>4
  <2> QED BY <2>1, <1>4, <1>5
<1>7. Rest(1) = C
  <2>1. \A q \in C : 1 <= q
    BY <1>4
  <2> QED BY <2>1
<1> QED BY <1>1, <1>6, <1>7

LEMMA ChainFacts ==
  ASSUME NEW m \in Seq(Tags), NEW C, NEW E, ChainIs(m, C, E)
  PROVE  /\ Len(m) \in Nat /\ DOMAIN m = 1 .. Len(m) /\ E \in Nat \ {0} /\ E <= Len(m) + 1
         /\ \A p \in C : /\ p \in 1 .. Len(m) /\ p \in Nat /\ p >= 1 /\ p < E
                         /\ m[p] \in Tags /\ m[p].size \in Nat /\ m[p].used \in BOOLEAN
                         /\ m[p].addr = p + 1 /\ m[p + 1 + m[p].size] = m[p]
                         /\ Behind(m, p) = p + m[p].size + 2
                         /\ Behind(m, p) \in C \cup {E} /\ Behind(m, p) <= Len(m) + 1
                         /\ ~IsVirgin(m, p)
         /\ \A p \in C, q \in C \cup {E} : p < q => Behind(m, p) <= q
         /\ \A q \in C \cup {E} : q = 1 \/ \E p \in C : Behind(m, p) = q
         /\ 1 \in C \cup {E}
         /\ \A q \in E .. Len(m) : m[q] = Zero
<1>1. /\ C \subseteq 1 .. Len(m) /\ E \in 1 .. Len(m) + 1 /\ 1 \in C \cup {E}
      /\ \A p \in C : p < E /\ Behind(m, p) \in C \cup {E}
      /\ \A p \in C : m[p].addr = p + 1 /\ m[p + 1 + m[p].size] = m[p]
      /\ \A p \in C, q \in C \cup {E} : p < q => Behind(m, p) <= q
      /\ \A q \in C \cup {E} : q = 1 \/ \E p \in C : Behind(m, p) = q
      /\ \A q \in E .. Len(m) : m[q] = Zero
  BY DEF ChainIs
<1>2. Len(m) \in Nat /\ DOMAIN m = 1 .. Len(m)
  BY TagFacts
<1>3. E \in Nat \ {0} /\ E <= Len(m) + 1
  BY <1>1, <1>2
<1>4. ASSUME NEW p \in C
      PROVE  /\ p \in 1 .. Len(m) /\ p \in Nat /\ p >= 1 /\ p < E
             /\ m[p] \in Tags /\ m[p].size \in Nat /\ m[p].used \in BOOLEAN
             /\ Behind(m, p) = p + m[p].size + 2
             /\ Behind(m, p) <= Len(m) + 1
             /\ ~IsVirgin(m, p)
  <2>1. p \in 1 .. Len(m) /\ p \in Nat /\ p >= 1 /\ p < E
    BY <1>1, <1>2
  <2>2. m[p] \in Tags /\ m[p].size \in Nat /\ m[p].used \in BOOLEAN
    BY <2>1, TagFacts
  <2>3. Behind(m, p) = p + m[p].size + 2
    BY DEF Behind
  <2>4. Behind(m, p) <= Len(m) + 1
    <3>1. E \in 1 .. Len(m) + 1 /\ \A q \in C : q \in 1 .. Len(m) + 1
      BY <1>1, <1>2
    <3>2. Behind(m, p) \in 1 .. Len(m) + 1
      BY <3>1, <1>1
    <3> QED BY <3>2, <1>2
  <2>5. ~IsVirgin(m, p)
    <3>1. m[p].addr # 0
      BY <1>1, <2>1
    <3> QED BY <3>1 DEF IsVirgin, Zero
  <2> QED BY <2>1, <2>2, <2>3, <2>4, <2>5
<1> QED BY <1>1, <1>2, <1>3, <1>4

LEMMA ChainPlaces ==
  ASSUME NEW m \in Seq(Tags), NEW C, NEW E, ChainIs(m, C, E)
  PROVE  \A p \in C : p \in 1 .. Len(m) /\ p \in Nat /\ p >= 1 /\ p < E
BY ChainFacts

LEMMA ChainTags ==
  ASSUME NEW m \in Seq(Tags), NEW C, NEW E, ChainIs(m, C, E), NEW p \in C
  PROVE  /\ m[p] \in Tags /\ m[p].size \in Nat /\ m[p].used \in BOOLEAN
         /\ m[p].addr = p + 1 /\ m[p + 1 + m[p].size] = m[p]
         /\ Behind(m, p) = p + m[p].size + 2
         /\ Behind(m, p) \in C \cup {E} /\ Behind(m, p) <= Len(m) + 1
         /\ Behind(m, p) \in Nat /\ ~IsVirgin(m, p)
<1>1. p \in Nat
  BY ChainPlaces
<1> QED BY <1>1, ChainFacts

(* The search ends at a block or behind the last one, and goes on at every block
   before. *)
LEMMA SearchEnds ==
  ASSUME NEW m \in Seq(Tags), NEW C, NEW E, ChainIs(m, C, E), NEW s \in Nat
  PROVE  \E p \in C \cup {E} :
            /\ ~GoesOn(m, p, s) /\ \A r \in C : r < p => GoesOn(m, r, s)
            /\ Found(m, s) = IF InHeap(m, p, s) /\ Serves(m, p, s) THEN p ELSE 0
<1> DEFINE Ends(q) == ~GoesOn(m, q, s) /\ \A r \in C : r < q => GoesOn(m, r, s)
           p == CHOOSE q \in C \cup {E} : Ends(q)
           Places == {1} \cup {Behind(m, r) : r \in C}
<1>1. Chain(m) = C
  BY ChainFound
<1>2. Places = C \cup {E}
  BY ChainFacts
<1>3. \E q \in C \cup {E} : Ends(q)
  <2> DEFINE T == {q \in C \cup {E} : ~GoesOn(m, q, s)}
  <2>1. E \in T
    <3>1. ASSUME InHeap(m, E, s) PROVE IsVirgin(m, E)
      <4>1. E \in E .. Len(m)
        BY <3>1, ChainFacts DEF InHeap
      <4> QED BY <4>1, ChainFacts DEF IsVirgin
    <3> QED BY <3>1 DEF GoesOn, Serves
  <2>2. T \subseteq Nat
    <3>1. E \in Nat /\ \A q \in C : q \in Nat
      BY ChainFacts
    <3> QED BY <3>1
  <2>3. PICK q \in T : \A r \in T : q <= r
    BY <2>1, <2>2, LeastNat
  <2>4. \A r \in C : r < q => r \notin T
    <3>1. q \in Nat /\ \A r \in C : r \in Nat
      BY <2>2, ChainFacts
    <3> QED BY <3>1, <2>3
  <2> QED BY <2>3, <2>4
<1>4. p \in C \cup {E} /\ Ends(p)
  BY <1>3
<1> DEFINE first == CHOOSE q \in {1} \cup {Behind(m, r) : r \in Chain(m)} :
                       ~GoesOn(m, q, s) /\ \A r \in Chain(m) : r < q => GoesOn(m, r, s)
<1>5. Found(m, s) = IF InHeap(m, first, s) /\ Serves(m, first, s) THEN first ELSE 0
  BY Zenon DEF Found
<1>6. first = p
  BY <1>1, <1>2
<1> HIDE DEF p, first
<1> QED BY <1>4, <1>5, <1>6

(* What holds of a chain of blocks is what Tiled asks. *)
LEMMA ChainTiles ==
  ASSUME NEW m \in Seq(Tags), NEW C, NEW E, ChainIs(m, C, E)
  PROVE  IsTiled(m)
<1>1. Chain(m) = C
  BY ChainFound
<1>2. \A p \in C : ~m[p].used /\ Behind(m, p) \in C => m[Behind(m, p)].used
  BY DEF ChainIs
<1>3. ASSUME NEW q \in DOMAIN m, \A p \in C : Behind(m, p) <= q
      PROVE  IsVirgin(m, q)
  <2>1. q \in Nat /\ q >= 1 /\ q <= Len(m)
    BY ChainFacts
  <2>2. E <= q
    BY <1>3, <2>1, ChainFacts
  <2>3. q \in E .. Len(m)
    BY <2>1, <2>2, ChainFacts
  <2> QED BY <2>3, ChainFacts DEF IsVirgin
<1> QED BY <1>1, <1>2, <1>3, ChainFacts DEF IsTiled

(* The search misses room only behind a free block of size zero. *)
LEMMA RoomFound ==
  ASSUME NEW m \in Seq(Tags), NEW C, NEW E, ChainIs(m, C, E), NEW s \in Nat,
         Found(m, s) = 0, NEW p \in Room(m, s)
  PROVE  \E q \in Chain(m) : q <= p /\ ~m[q].used /\ m[q].size = 0
<1>1. Chain(m) = C
  BY ChainFound
<1>2. PICK e \in C \cup {E} :
         /\ ~GoesOn(m, e, s) /\ \A r \in C : r < e => GoesOn(m, r, s)
         /\ Found(m, s) = IF InHeap(m, e, s) /\ Serves(m, e, s) THEN e ELSE 0
  BY SearchEnds
<1>3. e \in Nat /\ e # 0 /\ Len(m) \in Nat
  BY ChainFacts
<1>4. ~(InHeap(m, e, s) /\ Serves(m, e, s))
  BY <1>2, <1>3
<1>5. \/ p \in C /\ ~m[p].used /\ (m[p].size = s \/ m[p].size >= s + 4)
      \/ p \in DOMAIN m /\ p + s + 1 <= Len(m) /\ \A q \in C : Behind(m, q) <= p
  BY <1>1 DEF Room
<1>6. p \in Nat /\ p + s + 2 <= 1 + Len(m)
  <2>1. CASE p \in C /\ ~m[p].used /\ (m[p].size = s \/ m[p].size >= s + 4)
    <3>1. p \in Nat /\ m[p].size \in Nat /\ p + m[p].size + 2 <= Len(m) + 1
      BY <2>1, ChainFacts
    <3> QED BY <3>1, <2>1, <1>3
  <2>2. CASE p \in DOMAIN m /\ p + s + 1 <= Len(m)
    <3>1. p \in Nat
      BY <2>2, ChainFacts
    <3> QED BY <3>1, <2>2, <1>3
  <2> QED BY <1>5, <2>1, <2>2
<1>7. CASE e <= p
  <2>1. InHeap(m, e, s)
    BY <1>3, <1>6, <1>7 DEF InHeap
  <2>2. e \in C
    <3> SUFFICES ASSUME e = E PROVE FALSE
      BY <1>2
    <3>1. E \in E .. Len(m)
      BY <2>1, <1>3 DEF InHeap
    <3>2. IsVirgin(m, E)
      BY <3>1, ChainFacts DEF IsVirgin
    <3> QED BY <3>2, <2>1, <1>4 DEF Serves
  <2>3. ~m[e].used /\ ~IsFree(m, e)
    BY <1>2, <1>4, <2>1 DEF GoesOn
  <2>4. m[e].addr # 0
    BY <2>2, <1>3, ChainFacts
  <2>5. m[e].size = 0
    BY <2>3, <2>4 DEF IsFree
  <2> QED BY <1>1, <1>7, <2>2, <2>3, <2>5
<1>8. CASE p < e
  <2>1. p \in C
    <3> SUFFICES ASSUME \A q \in C : Behind(m, q) <= p, p \in DOMAIN m PROVE FALSE
      BY <1>5
    <3>1. p >= 1
      BY ChainFacts
    <3>2. e = 1 \/ \E q \in C : Behind(m, q) = e
      BY <1>2, ChainFacts
    <3> QED BY <3>1, <3>2, <1>3, <1>6, <1>8
  <2>2. /\ ~m[p].used /\ m[p].addr # 0 /\ m[p].size \in Nat
        /\ m[p].size = s \/ m[p].size >= s + 4
    <3>1. m[p].addr = p + 1 /\ m[p].size \in Nat
      BY <2>1, ChainFacts
    <3>2. p \notin DOMAIN m \/ ~(\A q \in C : Behind(m, q) <= p)
      <4>1. Behind(m, p) = p + m[p].size + 2
        BY <2>1, ChainFacts
      <4> QED BY <4>1, <2>1, <3>1, <1>6
    <3> QED BY <3>1, <3>2, <1>5, <1>6
  <2>3. ~Serves(m, p, s) /\ p <= p
    BY <2>1, <1>2, <1>8, <1>6 DEF GoesOn
  <2>4. m[p].size = 0
    <3> SUFFICES ASSUME m[p].size # 0 PROVE FALSE
      OBVIOUS
    <3>1. IsFree(m, p)
      BY <2>2 DEF IsFree
    <3>2. m[p].size = s \/ m[p].size > s + 2
      BY <2>2
    <3> QED BY <3>1, <3>2, <2>3 DEF Serves, IsSplit
  <2> QED BY <1>1, <2>1, <2>2, <2>3, <2>4
<1> QED BY <1>3, <1>6, <1>7, <1>8
-----------------------------------------------------------------------------
(* The step that all changes of a heap come down to: the blocks between two
   places, or the zero memory from the last block on, become one block. *)

Joined(C, a, b) == {q \in C : q < a \/ b <= q} \cup {a}

JoinedEnd(E, a, b) == IF a = E THEN b ELSE E

(* w is m with one block from a to b. *)
Became(m, w, C, E, a, b) ==
    /\ w \in Seq(Tags) /\ Len(w) = Len(m)
    /\ a \in C \cup {E} /\ b \in Nat /\ a + 2 <= b /\ b <= Len(m) + 1
    /\ a # E => b \in C \cup {E}
    /\ \A q \in 1 .. Len(m) : q < a \/ b <= q => w[q] = m[q]
    /\ w[a].addr = a + 1 /\ w[a].size = b - a - 2 /\ w[b - 1] = w[a]
    /\ ~w[a].used => /\ \A p \in C : Behind(m, p) = a => m[p].used
                     /\ b \in C => m[b].used

LEMMA OneBlock ==
  ASSUME NEW m \in Seq(Tags), NEW C, NEW E, ChainIs(m, C, E),
         NEW w, NEW a, NEW b, Became(m, w, C, E, a, b)
  PROVE  ChainIs(w, Joined(C, a, b), JoinedEnd(E, a, b))
<1> DEFINE D == Joined(C, a, b)
           F == JoinedEnd(E, a, b)
           L == Len(m)
<1>0. /\ a \in C \cup {E} /\ b \in Nat /\ a + 2 <= b /\ b <= L + 1
      /\ a # E => b \in C \cup {E}
      /\ \A q \in 1 .. L : q < a \/ b <= q => w[q] = m[q]
      /\ w[a].addr = a + 1 /\ w[a].size = b - a - 2 /\ w[b - 1] = w[a]
  BY DEF Became
<1>1. /\ L \in Nat /\ E \in Nat \ {0} /\ E <= L + 1 /\ a \in Nat \ {0} /\ a <= E
      /\ \A p \in C : p \in 1 .. L /\ p \in Nat /\ p >= 1 /\ p < E
  <2>1. L \in Nat /\ E \in Nat \ {0} /\ E <= L + 1
    BY ChainFacts
  <2>2. ASSUME NEW p \in C PROVE p \in 1 .. L /\ p \in Nat /\ p >= 1 /\ p < E
    BY ChainPlaces
  <2>3. a \in Nat \ {0} /\ a <= E
    BY <1>0, <2>1, <2>2
  <2> QED BY <2>1, <2>2, <2>3
<1>2. ASSUME NEW p \in C
      PROVE  /\ m[p].size \in Nat /\ Behind(m, p) = p + m[p].size + 2
             /\ Behind(m, p) \in C \cup {E} /\ Behind(m, p) <= L + 1
             /\ m[p].addr = p + 1 /\ m[p + 1 + m[p].size] = m[p]
  BY ChainTags
<1>3. /\ \A p \in C, q \in C \cup {E} : p < q => Behind(m, p) <= q
      /\ \A q \in C \cup {E} : q = 1 \/ \E p \in C : Behind(m, p) = q
      /\ 1 \in C \cup {E}
      /\ \A q \in E .. L : m[q] = Zero
  BY ChainFacts
<1>4. /\ F \in Nat /\ F >= b /\ F <= L + 1 /\ a < F
      /\ a = E => F = b
      /\ a # E => F = E
  <2>1. a # E => b <= E
    BY <1>0, <1>1
  <2> QED BY <2>1, <1>0, <1>1 DEF JoinedEnd
<1>5. \A q \in D : q = a \/ (q \in C /\ q < a) \/ (q \in C /\ b <= q /\ a # E /\ a < q)
  <2> SUFFICES ASSUME NEW q \in C, b <= q PROVE a # E /\ a < q
    BY DEF Joined
  <2> QED BY <1>0, <1>1
<1>6. a \in D /\ \A q \in C : q < a \/ b <= q => q \in D
  BY DEF Joined
<1>7. \A q \in D \ {a} : w[q] = m[q] /\ Behind(w, q) = Behind(m, q)
  <2> SUFFICES ASSUME NEW q \in D, q # a PROVE w[q] = m[q]
    BY DEF Behind
  <2> QED BY <1>0, <1>1, <1>5
<1>8. Behind(w, a) = b
  BY <1>0, <1>1 DEF Behind
<1> HIDE DEF D, F, L
<1>9. ASSUME NEW p \in C, p < a
      PROVE  p \in D /\ Behind(m, p) \in D /\ Behind(m, p) <= a
  <2> DEFINE n == Behind(m, p)
  <2>0. n \in Nat /\ n \in C \cup {E} /\ a \in Nat /\ a <= E /\ E \in Nat
    BY <1>0, <1>1, <1>2
  <2>1. n <= a
    BY <1>0, <1>3, <1>9
  <2> HIDE DEF n
  <2>2. n \in C \/ n = a
    BY <2>0, <2>1
  <2>3. n < a \/ n = a
    BY <2>0, <2>1
  <2> USE DEF n
  <2> QED BY <1>6, <1>9, <2>1, <2>2, <2>3
<1>10. ASSUME NEW p \in C, b <= p, a # E
       PROVE  p \in D /\ Behind(m, p) \in D \cup {F} /\ Behind(m, p) > b
  <2> DEFINE n == Behind(m, p)
  <2>0. n \in C \cup {E} /\ F = E /\ n = p + m[p].size + 2 /\ m[p].size \in Nat /\ p \in Nat
    BY <1>0, <1>1, <1>2, <1>4, <1>10
  <2> HIDE DEF n
  <2>1. n > b /\ b <= n
    BY <1>0, <2>0, <1>10
  <2>2. n \in D \cup {F}
    BY <1>6, <2>0, <2>1
  <2> QED BY <1>6, <1>10, <2>1, <2>2 DEF n
<1>11. D \subseteq 1 .. L /\ F \in 1 .. L + 1 /\ a \in 1 .. L
  <2>1. a \in 1 .. L
    <3>1. L \in Nat /\ a \in Nat \ {0} /\ a + 2 <= b /\ b <= L + 1
      BY <1>0, <1>1 DEF L
    <3> QED BY <1>0, <3>1
  <2>2. F \in 1 .. L + 1
    BY <1>0, <1>1, <1>4
  <2> QED BY <2>1, <2>2, <1>0, <1>1, <1>5
<1>12. 1 \in D \cup {F}
  <2>1. CASE 1 = E
    <3>1. a = 1
      BY <2>1, <1>0, <1>1
    <3> QED BY <3>1, <1>6
  <2>2. CASE 1 \in C
    <3>1. 1 < a \/ a = 1
      BY <1>0, <1>1
    <3> QED BY <3>1, <2>2, <1>6
  <2> QED BY <2>1, <2>2, <1>3
<1>13. \A q \in D \cup {F} : q = 1 \/ \E p \in D : Behind(w, p) = q
  <2>1. ASSUME NEW q \in C \cup {E}, q <= a PROVE q = 1 \/ \E p \in D : Behind(w, p) = q
    <3> SUFFICES ASSUME q # 1 PROVE \E p \in D : Behind(w, p) = q
      OBVIOUS
    <3>1. PICK p \in C : Behind(m, p) = q
      BY <1>3
    <3>2. p < a /\ p # a
      <4>1. p \in Nat /\ m[p].size \in Nat /\ q = p + m[p].size + 2 /\ a \in Nat
        BY <3>1, <1>0, <1>1, <1>2
      <4> QED BY <4>1, <2>1
    <3>3. p \in D
      BY <3>2, <1>9
    <3> QED BY <3>1, <3>2, <3>3, <1>7
  <2>2. ASSUME NEW q \in C \cup {E}, b <= q, a # E PROVE \E p \in D : Behind(w, p) = q
    <3>1. CASE q = b
      BY <3>1, <1>6, <1>8
    <3>2. CASE q # b
      <4>0. q \in Nat /\ q > b /\ q # 1
        BY <3>2, <2>2, <1>0, <1>1
      <4>1. PICK p \in C : Behind(m, p) = q
        BY <4>0, <1>3
      <4>2. ~ (p < b)
        BY <1>0, <4>0, <4>1, <1>3, <2>2
      <4>3. p \in Nat /\ b <= p /\ p # a
        BY <4>2, <1>0, <1>1
      <4>4. p \in D
        BY <4>3, <2>2, <1>10
      <4> QED BY <4>1, <4>3, <4>4, <1>7
    <3> QED BY <3>1, <3>2
  <2>3. CASE a = E
    <3>1. ASSUME NEW q \in D \cup {F} PROVE q = b \/ (q \in C \cup {E} /\ q <= a)
      <4>1. CASE q \in D
        <5>1. q = a \/ (q \in C /\ q < a)
          BY <4>1, <2>3, <1>5
        <5>2. a \in Nat /\ q \in Nat /\ a \in C \cup {E}
          BY <5>1, <1>0, <1>1
        <5> QED BY <5>1, <5>2
      <4>2. CASE q = F
        BY <4>2, <2>3, <1>4
      <4> QED BY <4>1, <4>2
    <3> QED BY <3>1, <2>1, <1>6, <1>8
  <2>4. CASE a # E
    <3>1. ASSUME NEW q \in D \cup {F} PROVE q \in C \cup {E} /\ (q <= a \/ b <= q)
      <4>1. CASE q \in D
        <5>1. q = a \/ (q \in C /\ q < a) \/ (q \in C /\ b <= q)
          BY <4>1, <1>5
        <5>2. a \in Nat /\ q \in Nat /\ a \in C \cup {E}
          BY <5>1, <1>0, <1>1
        <5> QED BY <5>1, <5>2
      <4>2. CASE q = F
        BY <4>2, <2>4, <1>4
      <4> QED BY <4>1, <4>2
    <3> QED BY <3>1, <2>1, <2>2, <2>4
  <2> QED BY <2>3, <2>4
<1>14. \A p \in D : p < F /\ Behind(w, p) \in D \cup {F}
  <2> SUFFICES ASSUME NEW p \in D PROVE p < F /\ Behind(w, p) \in D \cup {F}
    OBVIOUS
  <2>1. CASE p = a
    <3>1. b \in D \cup {F}
      <4>1. CASE a = E
        BY <4>1, <1>4
      <4>2. CASE a # E
        <5>1. b \in C \/ b = F
          BY <1>0, <4>2, <1>4
        <5> QED BY <1>0, <5>1, <1>6
      <4> QED BY <4>1, <4>2
    <3> QED BY <2>1, <3>1, <1>4, <1>8
  <2>2. CASE p \in C /\ p < a
    <3>1. Behind(w, p) = Behind(m, p)
      BY <2>2, <1>0, <1>1, <1>7
    <3>2. p < F
      BY <2>2, <1>0, <1>1, <1>4
    <3> QED BY <3>1, <3>2, <2>2, <1>9
  <2>3. CASE p \in C /\ b <= p /\ a # E /\ a < p
    <3>1. Behind(w, p) = Behind(m, p)
      BY <2>3, <1>0, <1>1, <1>7
    <3>2. p < F
      BY <2>3, <1>0, <1>1, <1>4
    <3> QED BY <3>1, <3>2, <2>3, <1>10
  <2> QED BY <2>1, <2>2, <2>3, <1>5
<1>15. \A p \in D, q \in D \cup {F} : p < q => Behind(w, p) <= q
  <2> SUFFICES ASSUME NEW p \in D, NEW q \in D \cup {F}, p < q PROVE Behind(w, p) <= q
    OBVIOUS
  <2>0. q \in Nat /\ p \in Nat
    BY <1>0, <1>1, <1>4, <1>5
  <2>1. CASE p = a
    <3>1. b <= q
      BY <2>0, <2>1, <1>0, <1>1, <1>4, <1>5
    <3> QED BY <2>1, <3>1, <1>8
  <2>2. CASE p \in C /\ p < a
    <3>1. Behind(w, p) = Behind(m, p) /\ Behind(m, p) <= a /\ Behind(m, p) \in Nat
      <4>1. p # a
        BY <2>2, <1>0, <1>1
      <4>2. Behind(m, p) \in Nat
        BY <2>0, <2>2, <1>2
      <4> QED BY <4>1, <4>2, <2>2, <1>7, <1>9
    <3>2. CASE q \in C \cup {E}
      BY <3>1, <3>2, <2>2, <1>3
    <3>3. CASE q \notin C \cup {E}
      <4>1. q = b
        BY <1>0, <3>3, <1>4, <1>5
      <4> QED BY <4>1, <3>1, <1>0, <1>1
    <3> QED BY <3>2, <3>3
  <2>3. CASE p \in C /\ b <= p /\ a # E /\ a < p
    <3>1. Behind(w, p) = Behind(m, p) /\ q \in C \cup {E}
      BY <2>3, <1>0, <1>1, <1>4, <1>5, <1>7
    <3> QED BY <3>1, <2>3, <1>3
  <2> QED BY <2>1, <2>2, <2>3, <1>5
<1>16. \A p \in D : w[p].addr = p + 1 /\ w[p + 1 + w[p].size] = w[p]
  <2> SUFFICES ASSUME NEW p \in D PROVE w[p].addr = p + 1 /\ w[p + 1 + w[p].size] = w[p]
    OBVIOUS
  <2>1. CASE p = a
    <3>1. p + 1 + w[p].size = b - 1
      BY <2>1, <1>0, <1>1
    <3> QED BY <1>0, <2>1, <3>1
  <2>2. CASE p \in C /\ (p < a \/ b <= p) /\ p # a
    <3> DEFINE e == p + 1 + m[p].size
    <3>1. w[p] = m[p] /\ m[p].addr = p + 1 /\ m[e] = m[p]
      BY <2>2, <1>2, <1>7
    <3>2. e \in 1 .. L /\ (e < a \/ b <= e)
      <4>1. Behind(m, p) = e + 1 /\ e \in Nat /\ e >= 1 /\ e <= L
        <5>1. /\ Behind(m, p) = p + m[p].size + 2 /\ m[p].size \in Nat /\ p \in Nat /\ p >= 1
              /\ Behind(m, p) <= L + 1 /\ L \in Nat
          BY <2>2, <1>0, <1>1, <1>2
        <5> QED BY <5>1
      <4>2. CASE p < a
        <5>1. Behind(m, p) <= a
          BY <4>2, <2>2, <1>9
        <5> QED BY <4>1, <5>1, <1>0, <1>1
      <4>3. CASE b <= p
        <5>1. p <= e
          <6>1. m[p].size \in Nat /\ p \in Nat
            BY <2>2, <1>0, <1>1, <1>2
          <6> QED BY <6>1
        <5> QED BY <4>1, <4>3, <5>1, <2>2, <1>0, <1>1
      <4> QED BY <4>2, <4>3, <2>2
    <3>3. w[e] = m[e]
      BY <1>0, <3>2 DEF L
    <3> HIDE DEF e
    <3>4. p + 1 + w[p].size = e
      BY <3>1 DEF e
    <3> QED BY <3>1, <3>3, <3>4
  <2> QED BY <2>1, <2>2, <1>0, <1>1, <1>5
<1>17. \A p \in D : ~w[p].used /\ Behind(w, p) \in D => w[Behind(w, p)].used
  <2>0. /\ \A p \in C : ~m[p].used /\ Behind(m, p) \in C => m[Behind(m, p)].used
        /\ ~w[a].used => /\ \A p \in C : Behind(m, p) = a => m[p].used
                         /\ b \in C => m[b].used
    BY DEF ChainIs, Became
  <2> SUFFICES ASSUME NEW p \in D, ~w[p].used, Behind(w, p) \in D PROVE w[Behind(w, p)].used
    OBVIOUS
  <2>1. CASE p = a
    <3>1. b \in C /\ b # a
      BY <2>1, <1>0, <1>1, <1>5, <1>8
    <3>2. b \in D
      BY <3>1, <1>0, <1>1, <1>6
    <3> QED BY <2>0, <2>1, <3>1, <3>2, <1>7, <1>8
  <2>2. CASE p \in C /\ p # a
    <3>1. w[p] = m[p] /\ Behind(w, p) = Behind(m, p)
      BY <2>2, <1>7
    <3>2. CASE Behind(m, p) = a
      BY <2>0, <3>1, <3>2, <2>2
    <3>3. CASE Behind(m, p) # a
      <4>1. Behind(m, p) \in C
        BY <3>1, <3>3, <1>5
      <4> QED BY <3>1, <3>3, <4>1, <2>0, <2>2, <1>7
    <3> QED BY <3>2, <3>3
  <2> QED BY <2>1, <2>2, <1>5
<1>18. \A q \in F .. L : w[q] = Zero
  <2> SUFFICES ASSUME NEW q \in F .. L PROVE w[q] = Zero
    OBVIOUS
  <2>1. q \in Nat /\ b <= q /\ E <= q /\ q <= L /\ q >= 1
    BY <1>0, <1>1, <1>4
  <2>2. w[q] = m[q] /\ q \in E .. L
    BY <2>1, <1>0, <1>1 DEF L
  <2> QED BY <2>2, <1>3
<1> QED BY <1>11, <1>12, <1>13, <1>14, <1>15, <1>16, <1>17, <1>18 DEF Became, ChainIs, D, F, L

(* w is m with the free block at p cut in two at n, the second one free. *)
WasCut(m, w, C, p, n) ==
    /\ w \in Seq(Tags) /\ Len(w) = Len(m)
    /\ p \in C /\ ~m[p].used /\ n \in Nat /\ p + 2 <= n /\ n + 2 <= Behind(m, p)
    /\ \A q \in 1 .. Len(m) : q < p \/ Behind(m, p) <= q => w[q] = m[q]
    /\ w[p].addr = p + 1 /\ w[p].size = n - p - 2 /\ w[n - 1] = w[p] /\ w[p].used
    /\ w[n].addr = n + 1 /\ w[n].size = Behind(m, p) - n - 2
    /\ w[Behind(m, p) - 1] = w[n]

LEMMA TwoBlocks ==
  ASSUME NEW m \in Seq(Tags), NEW C, NEW E, ChainIs(m, C, E),
         NEW w, NEW p, NEW n, WasCut(m, w, C, p, n)
  PROVE  ChainIs(w, C \cup {n}, E)
<1> DEFINE b == Behind(m, p)
           L == Len(m)
           D == C \cup {n}
<1>0. /\ p \in C /\ n \in Nat /\ p + 2 <= n /\ n + 2 <= b
      /\ \A q \in 1 .. L : q < p \/ b <= q => w[q] = m[q]
      /\ w[p].addr = p + 1 /\ w[p].size = n - p - 2 /\ w[n - 1] = w[p] /\ w[p].used
      /\ w[n].addr = n + 1 /\ w[n].size = b - n - 2
      /\ w[b - 1] = w[n]
  BY DEF WasCut
<1>1. L \in Nat /\ E \in Nat /\ E <= L + 1 /\ \A x \in C : x \in 1 .. L /\ x \in Nat /\ x >= 1 /\ x < E
  BY ChainPlaces, ChainFacts
<1>2. ASSUME NEW x \in C
      PROVE  /\ m[x].size \in Nat /\ Behind(m, x) = x + m[x].size + 2 /\ Behind(m, x) \in Nat
             /\ Behind(m, x) \in C \cup {E} /\ Behind(m, x) <= L + 1
             /\ m[x].addr = x + 1 /\ m[x + 1 + m[x].size] = m[x]
  BY ChainTags
<1>3. /\ \A x \in C, q \in C \cup {E} : x < q => Behind(m, x) <= q
      /\ \A q \in C \cup {E} : q = 1 \/ \E x \in C : Behind(m, x) = q
      /\ 1 \in C \cup {E}
      /\ \A q \in E .. L : m[q] = Zero
  BY ChainFacts
<1>4. b \in C \cup {E} /\ b \in Nat /\ b <= L + 1 /\ b <= E /\ p \in Nat /\ p >= 1
  BY <1>0, <1>1, <1>2
<1> HIDE DEF b, L, D
<1>5. Behind(w, p) = n /\ Behind(w, n) = b
  <2>1. p + w[p].size + 2 = n /\ n + w[n].size + 2 = b
    BY <1>0, <1>4
  <2> QED BY <2>1 DEF Behind
<1>6. ASSUME NEW x \in C, x # p
      PROVE  (x < p /\ Behind(m, x) <= p) \/ (b <= x /\ b < Behind(m, x) /\ n < x)
  <2>1. x \in Nat /\ p \in Nat
    BY <1>1, <1>4
  <2>2. x < p => Behind(m, x) <= p
    BY <1>0, <1>3
  <2>3. p < x => b <= x
    BY <1>0, <1>3 DEF b
  <2>4. x < Behind(m, x)
    <3>1. m[x].size \in Nat /\ Behind(m, x) = x + m[x].size + 2
      BY <1>2
    <3> QED BY <2>1, <3>1
  <2>5. Behind(m, x) \in Nat
    BY <1>2
  <2> QED BY <1>0, <1>4, <1>6, <2>1, <2>2, <2>3, <2>4, <2>5
<1>7. ASSUME NEW x \in C, x # p
      PROVE  w[x] = m[x] /\ Behind(w, x) = Behind(m, x) /\ Behind(m, x) # b
  <2>1. x < p \/ b <= x
    BY <1>6, <1>7
  <2>2. w[x] = m[x]
    BY <2>1, <1>0, <1>1
  <2>3. Behind(m, x) # b
    <3>1. Behind(m, x) \in Nat
      BY <1>2
    <3> QED BY <3>1, <1>0, <1>4, <1>6, <1>7
  <2> QED BY <2>2, <2>3 DEF Behind
<1>8. n \notin C \cup {E} /\ n < E
  <2>1. n < E
    BY <1>0, <1>4, <1>1
  <2>2. n # p
    BY <1>0, <1>4
  <2>3. ASSUME n \in C PROVE FALSE
    <3>1. n < p \/ n < n
      BY <1>6, <2>2, <2>3
    <3> QED BY <3>1, <1>0, <1>4
  <2>4. n # E
    BY <2>1, <1>0, <1>1
  <2> QED BY <2>1, <2>3, <2>4
<1>9. D \subseteq 1 .. L /\ E \in 1 .. L + 1 /\ 1 \in D \cup {E}
  <2>1. n \in 1 .. L
    BY <1>0, <1>1, <1>4
  <2>2. E \in 1 .. L + 1
    BY <1>0, <1>1, <1>4
  <2> QED BY <2>1, <2>2, <1>1, <1>3 DEF D
<1>10. \A q \in D \cup {E} : q = 1 \/ \E x \in D : Behind(w, x) = q
  <2> SUFFICES ASSUME NEW q \in D \cup {E}, q # 1 PROVE \E x \in D : Behind(w, x) = q
    OBVIOUS
  <2>1. CASE q = n
    BY <2>1, <1>0, <1>5 DEF D
  <2>2. CASE q # n
    <3>1. q \in C \cup {E}
      BY <2>2 DEF D
    <3>2. PICK x \in C : Behind(m, x) = q
      BY <3>1, <1>3
    <3>3. CASE x = p
      BY <3>2, <3>3, <1>5 DEF b, D
    <3>4. CASE x # p
      BY <3>2, <3>4, <1>7 DEF D
    <3> QED BY <3>3, <3>4
  <2> QED BY <2>1, <2>2
<1>11. \A x \in D : x < E /\ Behind(w, x) \in D \cup {E}
  <2> SUFFICES ASSUME NEW x \in D PROVE x < E /\ Behind(w, x) \in D \cup {E}
    OBVIOUS
  <2>1. CASE x = n
    BY <2>1, <1>4, <1>5, <1>8 DEF D
  <2>2. CASE x = p
    BY <2>2, <1>0, <1>1, <1>5 DEF D
  <2>3. CASE x \in C /\ x # p
    BY <2>3, <1>1, <1>2, <1>7 DEF D
  <2> QED BY <2>1, <2>2, <2>3 DEF D
<1>12. \A x \in D, q \in D \cup {E} : x < q => Behind(w, x) <= q
  <2> SUFFICES ASSUME NEW x \in D, NEW q \in D \cup {E}, x < q PROVE Behind(w, x) <= q
    OBVIOUS
  <2>0. q \in Nat /\ x \in Nat /\ (q = n \/ q \in C \cup {E})
    BY <1>0, <1>1 DEF D
  <2>1. CASE x = n
    <3>1. q \in C \cup {E} /\ p < q
      BY <2>0, <2>1, <1>0, <1>4
    <3>2. b <= q
      BY <3>1, <1>0, <1>3 DEF b
    <3> QED BY <2>1, <3>2, <1>5
  <2>2. CASE x = p
    <3>1. q \in C \cup {E} => b <= q
      BY <2>2, <1>0, <1>3 DEF b
    <3> QED BY <2>0, <2>2, <3>1, <1>0, <1>4, <1>5
  <2>3. CASE x \in C /\ x # p
    <3>1. Behind(w, x) = Behind(m, x) /\ Behind(m, x) \in Nat
      BY <2>3, <1>2, <1>7
    <3>2. CASE q \in C \cup {E}
      BY <2>3, <3>1, <3>2, <1>3
    <3>3. CASE q = n
      <4>1. x < p /\ Behind(m, x) <= p
        <5>1. ~ (n < x)
          BY <2>0, <3>3, <1>0
        <5> QED BY <2>3, <5>1, <1>6
      <4> QED BY <3>1, <3>3, <4>1, <1>0, <1>4
    <3> QED BY <2>0, <3>2, <3>3
  <2> QED BY <2>1, <2>2, <2>3 DEF D
<1>13. \A x \in D : w[x].addr = x + 1 /\ w[x + 1 + w[x].size] = w[x]
  <2> SUFFICES ASSUME NEW x \in D PROVE w[x].addr = x + 1 /\ w[x + 1 + w[x].size] = w[x]
    OBVIOUS
  <2>1. CASE x = n
    <3>1. n + 1 + w[n].size = b - 1
      BY <1>0, <1>4
    <3> QED BY <2>1, <3>1, <1>0
  <2>2. CASE x = p
    <3>1. p + 1 + w[p].size = n - 1
      BY <1>0, <1>4
    <3> QED BY <2>2, <3>1, <1>0
  <2>3. CASE x \in C /\ x # p
    <3> DEFINE e == x + 1 + m[x].size
    <3>1. w[x] = m[x] /\ m[x].addr = x + 1 /\ m[e] = m[x]
      BY <2>3, <1>2, <1>7
    <3>2. e \in Nat /\ Behind(m, x) = e + 1 /\ e + 1 <= L + 1 /\ e >= 1 /\ x <= e
      <4>1. m[x].size \in Nat /\ x \in Nat /\ x >= 1
        BY <2>3, <1>1, <1>2
      <4>2. Behind(m, x) = x + m[x].size + 2 /\ Behind(m, x) <= L + 1
        BY <2>3, <1>2
      <4>3. L \in Nat
        BY <1>1
      <4> DEFINE z == m[x].size
                 y == Behind(m, x)
      <4>4. e = x + 1 + z /\ z \in Nat /\ x \in Nat /\ x >= 1 /\ y = x + z + 2 /\ y <= L + 1
        BY <4>1, <4>2
      <4> HIDE DEF e, z, y, L
      <4>5. e \in Nat /\ y = e + 1 /\ e + 1 <= L + 1 /\ e >= 1 /\ x <= e
        BY <4>3, <4>4
      <4> QED BY <4>5 DEF y
    <3> HIDE DEF e
    <3>3. e \in 1 .. L
      BY <3>2, <1>1
    <3>4. e < p \/ b <= e
      <4>1. (x < p /\ Behind(m, x) <= p) \/ b <= x
        BY <2>3, <1>6
      <4>2. x \in Nat
        BY <2>3, <1>1
      <4> QED BY <3>2, <4>1, <4>2, <1>4
    <3>5. w[e] = m[e]
      BY <3>3, <3>4, <1>0
    <3> QED BY <3>1, <3>5 DEF e
  <2> QED BY <2>1, <2>2, <2>3 DEF D
<1>14. \A x \in D : ~w[x].used /\ Behind(w, x) \in D => w[Behind(w, x)].used
  <2>0. /\ \A x \in C : ~m[x].used /\ Behind(m, x) \in C => m[Behind(m, x)].used
        /\ ~m[p].used
    BY DEF ChainIs, WasCut
  <2> SUFFICES ASSUME NEW x \in D, ~w[x].used, Behind(w, x) \in D PROVE w[Behind(w, x)].used
    OBVIOUS
  <2>1. CASE x = n
    <3>1. b \in C /\ b # p
      <4>1. b # n /\ b # p
        BY <1>0, <1>4
      <4> QED BY <4>1, <2>1, <1>5 DEF D
    <3>2. m[b].used
      BY <3>1, <2>0, <1>0 DEF b
    <3> QED BY <2>1, <3>1, <3>2, <1>5, <1>7
  <2>2. CASE x = p
    BY <2>2, <1>0
  <2>3. CASE x \in C /\ x # p
    <3>1. w[x] = m[x] /\ Behind(w, x) = Behind(m, x) /\ Behind(m, x) \in C
      BY <2>3, <1>2, <1>7, <1>8 DEF D
    <3>2. m[Behind(m, x)].used
      BY <3>1, <2>0, <2>3
    <3>3. Behind(m, x) # p
      BY <3>2, <2>0
    <3> QED BY <3>1, <3>2, <3>3, <1>7
  <2> QED BY <2>1, <2>2, <2>3 DEF D
<1>15. \A q \in E .. L : w[q] = Zero
  <2> SUFFICES ASSUME NEW q \in E .. L PROVE w[q] = Zero
    OBVIOUS
  <2>1. q \in 1 .. L /\ b <= q
    BY <1>0, <1>1, <1>4
  <2> QED BY <2>1, <1>0, <1>3
<1>16. L = Len(w)
  BY DEF WasCut, L
<1> QED BY <1>9, <1>10, <1>11, <1>12, <1>13, <1>14, <1>15, <1>16 DEF ChainIs, D

(* Places X of m got another tag in w; the blocks, at C, are at D now. *)
Retagged(m, w, C, D, X) ==
    /\ w \in Seq(Tags) /\ Len(w) = Len(m)
    /\ \A q \in 1 .. Len(m) \ X : w[q] = m[q]
    /\ \A e \in X : (e \in C /\ w[e].addr = e + 1) \/ \E x \in D : w[e].addr = x + 1
    /\ \A q \in C \ D : ~TagsMatch(w, q + 1)

LEMMA StaleKept ==
  ASSUME NEW m \in Seq(Tags), NEW C, C \subseteq 1 .. Len(m), NoneStale(m, C),
         NEW w, NEW D, D \subseteq 1 .. Len(m), NEW X, Retagged(m, w, C, D, X)
  PROVE  NoneStale(w, D)
<1>1. Len(m) \in Nat /\ DOMAIN m = 1 .. Len(m)
  BY TagFacts
<1>2. w \in Seq(Tags) /\ Len(w) = Len(m)
  BY DEF Retagged
<1>3. DOMAIN w = 1 .. Len(m) /\ \A q \in 1 .. Len(m) : w[q].size \in Nat
  BY <1>2, TagFacts
<1> SUFFICES ASSUME NEW q \in 1 .. Len(m) \ D, w[q].addr = q + 1, TagsMatch(w, q + 1)
             PROVE  FALSE
  BY <1>2 DEF NoneStale
<1> DEFINE e == q + 1 + w[q].size
<1>4. q \in Nat /\ e \in 1 .. Len(m) /\ w[e] = w[q] /\ e > q
  <2>1. q \in Nat /\ w[q].size \in Nat /\ (q + 1) - 1 = q
    <3>1. q \in 1 .. Len(m)
      OBVIOUS
    <3>2. q \in Nat
      BY <1>1, <3>1
    <3>3. (q + 1) - 1 = q
      BY <3>2
    <3> QED BY <1>3, <3>1, <3>2, <3>3
  <2>2. e \in DOMAIN w /\ w[e] = w[q]
    BY <2>1 DEF TagsMatch
  <2> QED BY <2>1, <2>2, <1>3
<1> HIDE DEF e
<1>5. q \notin C \/ q \in D
  BY DEF Retagged
<1>6. \A x \in D : x \in Nat /\ x + 1 # q + 1
  BY <1>4
<1>7. q \notin X /\ e \notin X
  <2>1. \A x \in X : (x \in C /\ w[x].addr = x + 1) \/ \E y \in D : w[x].addr = y + 1
    BY DEF Retagged
  <2>2. q \notin X
    BY <2>1, <1>5, <1>6
  <2>3. e \notin X
    <3>1. e + 1 # q + 1
      BY <1>4
    <3> QED BY <2>1, <3>1, <1>4, <1>6
  <2> QED BY <2>2, <2>3
<1>8. w[q] = m[q] /\ w[e] = m[e]
  BY <1>4, <1>7 DEF Retagged
<1>9. m[q].addr = q + 1 /\ TagsMatch(m, q + 1)
  <2>1. (q + 1) - 1 = q /\ (q + 1) + m[q].size = e
    BY <1>4, <1>8 DEF e
  <2>2. m[(q + 1) + m[q].size] = m[q]
    BY <2>1, <1>4, <1>8
  <2> QED BY <2>1, <2>2, <1>1, <1>4, <1>8 DEF TagsMatch
<1> QED BY <1>5, <1>9 DEF NoneStale

(* w is m with the tag t at two places. *)
Written(m, w, p, e, t) ==
    /\ w \in Seq(Tags) /\ Len(w) = Len(m) /\ w[p] = t /\ w[e] = t
    /\ \A q \in 1 .. Len(m) : q # p /\ q # e => w[q] = m[q]

LEMMA TaggedIs ==
  ASSUME NEW m \in Seq(Tags), NEW p \in Nat \ {0}, NEW s \in Nat, p + 1 + s <= Len(m),
         NEW used \in BOOLEAN
  PROVE  Written(m, Tagged(m, p, s, used), p, p + 1 + s, [addr |-> p + 1, size |-> s, used |-> used])
<1> DEFINE t == [addr |-> p + 1, size |-> s, used |-> used]
           e == p + 1 + s
           w == Tagged(m, p, s, used)
<1>1. /\ Len(m) \in Nat /\ p \in 1 .. Len(m) /\ e \in 1 .. Len(m)
      /\ m \in [1 .. Len(m) -> Tags] /\ t \in Tags
  <2>1. Len(m) \in Nat /\ p \in 1 .. Len(m) /\ e \in 1 .. Len(m)
    BY TagFacts
  <2>2. m \in [1 .. Len(m) -> Tags]
    BY LenProperties
  <2>3. t \in Tags
    BY DEF Tags
  <2> QED BY <2>1, <2>2, <2>3
<1> HIDE DEF e, t, w
<1>2. w = [[m EXCEPT ![p] = t] EXCEPT ![e] = t]
  BY DEF Tagged, e, t, w
<1>3. w \in [1 .. Len(m) -> Tags]
  BY <1>1, <1>2
<1>4. w \in Seq(Tags) /\ Len(w) = Len(m)
  <2>1. w \in Seq(Tags)
    BY <1>1, <1>3, SeqDef
  <2>2. Len(w) \in Nat /\ 1 .. Len(w) = 1 .. Len(m)
    BY <2>1, <1>3, LenProperties
  <2> QED BY <2>1, <2>2, <1>1
<1>5. w[p] = t /\ w[e] = t /\ \A q \in 1 .. Len(m) : q # p /\ q # e => w[q] = m[q]
  BY <1>1, <1>2
<1> QED BY <1>4, <1>5 DEF Written, e, t, w

(* A heap as CreateHeap and any sequence of allocations and frees leave it *)
HeapOK(m) == m \in Seq(Tags) /\ \E C, E : ChainIs(m, C, E) /\ NoneStale(m, C)

LEMMA UsedAre ==
  ASSUME NEW m \in Seq(Tags), NEW C, NEW E, ChainIs(m, C, E)
  PROVE  UsedBlocks(m) = {[addr |-> q + 1, size |-> m[q].size] : q \in {x \in C : m[x].used}}
BY ChainFound DEF UsedBlocks

(* w has a used block more than m, at p. *)
Gained(m, w, C, D, p) ==
    /\ p \in D /\ w[p].used /\ (p \in C => ~m[p].used)
    /\ \A q \in C : q # p /\ m[q].used => q \in D /\ w[q] = m[q]
    /\ \A q \in D : q # p /\ w[q].used => q \in C /\ w[q] = m[q]

LEMMA UsedGained ==
  ASSUME NEW m \in Seq(Tags), NEW C, NEW E, ChainIs(m, C, E),
         NEW w \in Seq(Tags), NEW D, NEW F, ChainIs(w, D, F),
         NEW p, Gained(m, w, C, D, p)
  PROVE  UsedBlocks(w) = UsedBlocks(m) \cup {[addr |-> p + 1, size |-> w[p].size]}
<1>1. /\ UsedBlocks(m) = {[addr |-> q + 1, size |-> m[q].size] : q \in {x \in C : m[x].used}}
      /\ UsedBlocks(w) = {[addr |-> q + 1, size |-> w[q].size] : q \in {x \in D : w[x].used}}
  BY UsedAre
<1>2. ASSUME NEW q \in C, m[q].used PROVE q \in D /\ w[q].used /\ w[q] = m[q]
  BY <1>2 DEF Gained
<1>3. ASSUME NEW q \in D, w[q].used PROVE q = p \/ (q \in C /\ m[q].used /\ w[q] = m[q])
  BY <1>3 DEF Gained
<1>4. p \in D /\ w[p].used
  BY DEF Gained
<1>5. UsedBlocks(w) \subseteq UsedBlocks(m) \cup {[addr |-> p + 1, size |-> w[p].size]}
  BY <1>1, <1>3
<1>6. UsedBlocks(m) \cup {[addr |-> p + 1, size |-> w[p].size]} \subseteq UsedBlocks(w)
  BY <1>1, <1>2, <1>4
<1> QED BY <1>5, <1>6

(* w has the used blocks of m but for one at p. *)
Lost(m, w, C, D, p) ==
    /\ \A q \in C : q # p /\ m[q].used => q \in D /\ w[q] = m[q]
    /\ \A q \in D : w[q].used => q \in C /\ q # p /\ w[q] = m[q]

LEMMA UsedLost ==
  ASSUME NEW m \in Seq(Tags), NEW C, NEW E, ChainIs(m, C, E),
         NEW w \in Seq(Tags), NEW D, NEW F, ChainIs(w, D, F),
         NEW p \in Nat, Lost(m, w, C, D, p)
  PROVE  UsedBlocks(w) = {b \in UsedBlocks(m) : b.addr # p + 1}
<1>1. /\ UsedBlocks(m) = {[addr |-> q + 1, size |-> m[q].size] : q \in {x \in C : m[x].used}}
      /\ UsedBlocks(w) = {[addr |-> q + 1, size |-> w[q].size] : q \in {x \in D : w[x].used}}
  BY UsedAre
<1>2. \A q \in C : q \in Nat
  BY ChainPlaces
<1>3. ASSUME NEW q \in C, m[q].used, q # p PROVE q \in D /\ w[q].used /\ w[q] = m[q]
  BY <1>3 DEF Lost
<1>4. ASSUME NEW q \in D, w[q].used PROVE q \in C /\ q # p /\ m[q].used /\ w[q] = m[q]
  BY <1>4 DEF Lost
<1>5. ASSUME NEW b \in UsedBlocks(w) PROVE b \in UsedBlocks(m) /\ b.addr # p + 1
  <2>1. PICK q \in D : w[q].used /\ b = [addr |-> q + 1, size |-> w[q].size]
    BY <1>1
  <2>2. q \in C /\ q # p /\ m[q].used /\ w[q] = m[q] /\ b.addr = q + 1
    BY <1>4, <2>1
  <2>3. q + 1 # p + 1
    BY <1>2, <2>2
  <2> QED BY <1>1, <2>1, <2>2, <2>3
<1>6. ASSUME NEW b \in UsedBlocks(m), b.addr # p + 1 PROVE b \in UsedBlocks(w)
  <2>1. PICK q \in C : m[q].used /\ b = [addr |-> q + 1, size |-> m[q].size]
    BY <1>1
  <2>2. q # p
    BY <1>6, <2>1
  <2> QED BY <1>1, <1>3, <2>1, <2>2
<1> QED BY <1>5, <1>6

(* An allocation of s at p that leaves w *)
Allocated(m, w, p, s) ==
    /\ HeapOK(w) /\ Len(w) = Len(m)
    /\ UsedBlocks(w) = UsedBlocks(m) \cup {[addr |-> p + 1, size |-> s]}

LEMMA SplitKeeps ==
  ASSUME NEW m \in Seq(Tags), NEW C, NEW E, ChainIs(m, C, E), NoneStale(m, C),
         NEW s \in Nat, NEW p \in C \cup {E}, InHeap(m, p, s), IsSplit(m, p, s)
  PROVE  Allocated(m, Split(m, p, s), p, s)
<1> DEFINE n == p + s + 2
           b == Behind(m, p)
           r == m[p].size - s - 2
           u == Tagged(m, p, s, TRUE)
           w == Tagged(u, n, r, FALSE)
<1>0. Len(m) \in Nat /\ C \subseteq 1 .. Len(m)
  BY ChainFacts, ChainPlaces
<1>1. p \in C /\ ~m[p].used
  <2>1. ~m[p].used /\ m[p].size # 0
    BY DEF IsSplit, IsFree
  <2>2. ASSUME p = E PROVE FALSE
    <3>1. E \in E .. Len(m)
      <4>1. E \in Nat /\ E + s + 2 <= 1 + Len(m)
        BY <2>2, ChainFacts DEF InHeap
      <4> QED BY <4>1, <1>0
    <3>2. m[p] = Zero
      BY <2>2, <3>1, ChainFacts
    <3> QED BY <2>1, <3>2 DEF Zero
  <2> QED BY <2>1, <2>2
<1>2. p \in Nat \ {0} /\ m[p].size \in Nat /\ b = p + m[p].size + 2 /\ b <= Len(m) + 1
  BY <1>1, ChainPlaces, ChainTags
<1>3. m[p].size > s + 2
  BY DEF IsSplit
<1>4. n \in Nat \ {0} /\ r \in Nat /\ n + 1 + r = b - 1 /\ p + 1 + s = n - 1
  <2> DEFINE z == m[p].size
  <2>1. p \in Nat \ {0} /\ z \in Nat /\ b = p + z + 2 /\ z > s + 2 /\ r = z - s - 2
    BY <1>2, <1>3
  <2> HIDE DEF z, b, r
  <2> QED BY <2>1
<1>5. b \in Nat /\ p + 2 <= n /\ n + 2 <= b /\ n - 1 <= Len(m) /\ b - 1 <= Len(m)
  <2> HIDE DEF b, r
  <2>1. b \in Nat /\ p + 2 <= n /\ n + 2 <= b
    BY <1>2, <1>3
  <2> HIDE DEF n
  <2> QED BY <1>0, <1>2, <1>4, <2>1
<1>6. /\ u \in Seq(Tags) /\ Len(u) = Len(m)
      /\ u[p] = [addr |-> p + 1, size |-> s, used |-> TRUE] /\ u[n - 1] = u[p]
      /\ \A q \in 1 .. Len(m) : q # p /\ q # n - 1 => u[q] = m[q]
  <2>0. TRUE \in BOOLEAN /\ FALSE \in BOOLEAN
    OBVIOUS
  <2>1. p + 1 + s <= Len(m)
    BY <1>4, <1>5
  <2>2. Written(m, u, p, p + 1 + s, [addr |-> p + 1, size |-> s, used |-> TRUE])
    BY <1>2, <2>0, <2>1, TaggedIs
  <2> QED BY <1>4, <2>2 DEF Written
<1>7. /\ w \in Seq(Tags) /\ Len(w) = Len(u)
      /\ w[n] = [addr |-> n + 1, size |-> r, used |-> FALSE] /\ w[b - 1] = w[n]
      /\ \A q \in 1 .. Len(u) : q # n /\ q # b - 1 => w[q] = u[q]
  <2>0. TRUE \in BOOLEAN /\ FALSE \in BOOLEAN
    OBVIOUS
  <2>1. n + 1 + r <= Len(u)
    BY <1>4, <1>5, <1>6
  <2>2. Written(u, w, n, n + 1 + r, [addr |-> n + 1, size |-> r, used |-> FALSE])
    BY <1>4, <1>6, <2>0, <2>1, TaggedIs
  <2> QED BY <1>4, <2>2 DEF Written
<1>8. Split(m, p, s) = w
  BY DEF Split
<1> HIDE DEF n, b, r, u, w
<1>9. p \in 1 .. Len(m) /\ n - 1 \in 1 .. Len(m) /\ n \in 1 .. Len(m)
  BY <1>0, <1>1, <1>4, <1>5
<1>10. w[p] = u[p] /\ w[n - 1] = u[n - 1]
  <2>1. p # n /\ p # b - 1 /\ n - 1 # n /\ n - 1 # b - 1
    BY <1>2, <1>4, <1>5
  <2> QED BY <1>6, <1>7, <1>9, <2>1
<1>11. \A q \in 1 .. Len(m) : q < p \/ b <= q => w[q] = m[q]
  <2> SUFFICES ASSUME NEW q \in 1 .. Len(m), q < p \/ b <= q PROVE w[q] = m[q]
    OBVIOUS
  <2>1. q # p /\ q # n - 1 /\ q # n /\ q # b - 1
    BY <1>2, <1>4, <1>5
  <2> QED BY <1>6, <1>7, <2>1
<1>12. WasCut(m, w, C, p, n)
  <2>1. w[p].addr = p + 1 /\ w[p].size = n - p - 2 /\ w[n - 1] = w[p] /\ w[p].used
    <3>1. s = n - p - 2
      BY <1>2, <1>4
    <3>2. w[p] = [addr |-> p + 1, size |-> s, used |-> TRUE] /\ w[n - 1] = w[p]
      BY <1>6, <1>10
    <3> QED BY <3>1, <3>2
  <2>2. w[n].addr = n + 1 /\ w[n].size = b - n - 2 /\ w[b - 1] = w[n]
    BY <1>4, <1>5, <1>7
  <2> QED BY <1>1, <1>4, <1>5, <1>6, <1>7, <1>11, <2>1, <2>2 DEF WasCut, b
<1>13. ChainIs(w, C \cup {n}, E)
  BY <1>12, TwoBlocks
<1>14. Retagged(m, w, C, C \cup {n}, {p, n - 1, n, b - 1})
  <2>1. \A q \in 1 .. Len(m) \ {p, n - 1, n, b - 1} : w[q] = m[q]
    BY <1>6, <1>7
  <2>2. w[p].addr = p + 1 /\ w[n - 1].addr = p + 1 /\ w[n].addr = n + 1 /\ w[b - 1].addr = n + 1
    BY <1>6, <1>7, <1>10
  <2> QED BY <1>1, <1>6, <1>7, <2>1, <2>2 DEF Retagged
<1>15. NoneStale(w, C \cup {n})
  BY <1>0, <1>9, <1>14, StaleKept
<1>16. Gained(m, w, C, C \cup {n}, p)
  <2>1. w[p].used /\ ~w[n].used
    BY <1>6, <1>7, <1>10
  <2>2. ASSUME NEW q \in C, q # p PROVE w[q] = m[q]
    <3>1. q \in Nat /\ q \in 1 .. Len(m)
      BY ChainPlaces
    <3>2. p < q => b <= q
      BY <1>1, ChainFacts DEF b
    <3> QED BY <1>2, <1>11, <2>2, <3>1, <3>2
  <2> QED BY <1>1, <2>1, <2>2 DEF Gained
<1>17. UsedBlocks(w) = UsedBlocks(m) \cup {[addr |-> p + 1, size |-> w[p].size]}
  BY <1>6, <1>7, <1>13, <1>16, UsedGained
<1>18. w[p].size = s
  BY <1>6, <1>10
<1> QED BY <1>6, <1>7, <1>8, <1>13, <1>15, <1>17, <1>18 DEF HeapOK, Allocated

LEMMA WholeKeeps ==
  ASSUME NEW m \in Seq(Tags), NEW C, NEW E, ChainIs(m, C, E), NoneStale(m, C),
         NEW s \in Nat, NEW p \in C \cup {E}, InHeap(m, p, s),
         p = E \/ (m[p].size = s /\ ~m[p].used)
  PROVE  Allocated(m, Tagged(m, p, s, TRUE), p, s)
<1> DEFINE b == p + s + 2
           w == Tagged(m, p, s, TRUE)
           D == Joined(C, p, b)
<1>0. Len(m) \in Nat /\ C \subseteq 1 .. Len(m) /\ E \in Nat \ {0}
  BY ChainFacts, ChainPlaces
<1>1. p \in Nat \ {0} /\ b \in Nat /\ p + 2 <= b /\ b <= Len(m) + 1
  <2>1. p \in Nat \ {0}
    BY <1>0
  <2> QED BY <1>0, <2>1 DEF InHeap
<1>2. /\ w \in Seq(Tags) /\ Len(w) = Len(m)
      /\ w[p] = [addr |-> p + 1, size |-> s, used |-> TRUE] /\ w[b - 1] = w[p]
      /\ \A q \in 1 .. Len(m) : q # p /\ q # b - 1 => w[q] = m[q]
  <2>0. TRUE \in BOOLEAN /\ FALSE \in BOOLEAN
    OBVIOUS
  <2>1. p + 1 + s <= Len(m) /\ p + 1 + s = b - 1
    BY <1>0, <1>1
  <2>2. Written(m, w, p, p + 1 + s, [addr |-> p + 1, size |-> s, used |-> TRUE])
    BY <1>1, <2>0, <2>1, TaggedIs
  <2> QED BY <2>1, <2>2 DEF Written
<1>3. p # E => p \in C /\ b = Behind(m, p) /\ b \in C \cup {E}
  <2> SUFFICES ASSUME p # E PROVE b = Behind(m, p) /\ b \in C \cup {E}
    OBVIOUS
  <2>1. b = Behind(m, p)
    BY DEF Behind
  <2> QED BY <2>1, ChainTags
<1> HIDE DEF b, w, D
<1>4. Became(m, w, C, E, p, b)
  <2>1. w[p].addr = p + 1 /\ w[p].size = b - p - 2 /\ w[p].used
    BY <1>1, <1>2 DEF b
  <2>2. \A q \in 1 .. Len(m) : q < p \/ b <= q => w[q] = m[q]
    <3> SUFFICES ASSUME NEW q \in 1 .. Len(m), q < p \/ b <= q PROVE w[q] = m[q]
      OBVIOUS
    <3>1. q # p /\ q # b - 1
      BY <1>1
    <3> QED BY <1>2, <3>1
  <2> QED BY <1>1, <1>2, <1>3, <2>1, <2>2 DEF Became
<1>5. ChainIs(w, D, JoinedEnd(E, p, b))
  BY <1>4, OneBlock DEF D
<1>6. C \subseteq D /\ p \in D
  <2> SUFFICES ASSUME NEW q \in C PROVE q < p \/ b <= q \/ q = p
    BY DEF D, Joined
  <2>1. q \in Nat /\ q < E
    BY ChainPlaces
  <2>2. p # E /\ p < q => b <= q
    BY <1>3, ChainFacts
  <2> QED BY <1>1, <2>1, <2>2
<1>7. D \subseteq 1 .. Len(m)
  <2>1. p \in 1 .. Len(m)
    BY <1>0, <1>1
  <2> QED BY <1>0, <2>1 DEF D, Joined
<1>8. Retagged(m, w, C, D, {p, b - 1})
  <2>1. w[p].addr = p + 1 /\ w[b - 1].addr = p + 1
    BY <1>2
  <2> QED BY <1>2, <1>6, <2>1 DEF Retagged
<1>9. NoneStale(w, D)
  BY <1>0, <1>7, <1>8, StaleKept
<1>10. Gained(m, w, C, D, p)
  <2>1. w[p].used /\ (p \in C => ~m[p].used)
    <3>1. E \notin C
      BY <1>0, ChainPlaces
    <3> QED BY <1>2, <3>1
  <2>2. ASSUME NEW q \in D, q # p PROVE q \in C /\ w[q] = m[q]
    <3>1. q \in C /\ (q < p \/ b <= q)
      BY <2>2 DEF D, Joined
    <3>2. q # b - 1
      BY <1>0, <1>1, <3>1
    <3> QED BY <1>0, <1>2, <2>2, <3>1, <3>2
  <2> QED BY <1>6, <2>1, <2>2 DEF Gained
<1>11. UsedBlocks(w) = UsedBlocks(m) \cup {[addr |-> p + 1, size |-> w[p].size]}
  BY <1>2, <1>5, <1>10, UsedGained
<1>12. w[p].size = s
  BY <1>2
<1> QED BY <1>2, <1>5, <1>9, <1>11, <1>12 DEF HeapOK, Allocated, w

(* __heapAlloc *)
LEMMA AllocKeeps ==
  ASSUME NEW m, HeapOK(m), NEW s \in Nat, Found(m, s) # 0
  PROVE  Allocated(m, HeapAlloc(m, s), Found(m, s), s) /\ Found(m, s) \in Nat \ {0}
<1>1. m \in Seq(Tags)
  BY DEF HeapOK
<1>2. PICK C, E : ChainIs(m, C, E) /\ NoneStale(m, C)
  BY DEF HeapOK
<1>3. PICK p \in C \cup {E} :
         Found(m, s) = IF InHeap(m, p, s) /\ Serves(m, p, s) THEN p ELSE 0
  BY <1>1, <1>2, SearchEnds
<1>4. Found(m, s) = p /\ InHeap(m, p, s) /\ Serves(m, p, s)
  BY <1>3
<1>5. HeapAlloc(m, s) = IF IsSplit(m, p, s) THEN Split(m, p, s) ELSE Tagged(m, p, s, TRUE)
  BY <1>4 DEF HeapAlloc
<1>8. Found(m, s) \in Nat \ {0}
  BY <1>1, <1>2, <1>4, ChainPlaces, ChainFacts
<1>6. CASE IsSplit(m, p, s)
  <2>1. Allocated(m, Split(m, p, s), p, s)
    BY <1>1, <1>2, <1>4, <1>6, SplitKeeps
  <2> QED BY <1>4, <1>5, <1>6, <1>8, <2>1
<1>7. CASE ~IsSplit(m, p, s)
  <2>1. p = E \/ (m[p].size = s /\ ~m[p].used)
    <3> SUFFICES ASSUME p \in C, IsVirgin(m, p) PROVE FALSE
      BY <1>4, <1>7 DEF Serves, IsFree
    <3> QED BY <1>1, <1>2, ChainTags
  <2>2. Allocated(m, Tagged(m, p, s, TRUE), p, s)
    BY <1>1, <1>2, <1>4, <2>1, WholeKeeps
  <2> QED BY <1>4, <1>5, <1>7, <1>8, <2>2
<1> QED BY <1>6, <1>7

(* What a freed block is joined with *)
LEMMA JoinPlaces ==
  ASSUME NEW m \in Seq(Tags), NEW C, NEW E, ChainIs(m, C, E), NEW p \in C
  PROVE  /\ JoinBegin(m, p) \in C /\ JoinBegin(m, p) <= p
         /\ \/ JoinBegin(m, p) = p /\ \A r \in C : Behind(m, r) = p => m[r].used
            \/ JoinBegin(m, p) < p /\ Behind(m, JoinBegin(m, p)) = p /\ ~m[JoinBegin(m, p)].used
         /\ \/ JoinEnd(m, p) = Behind(m, p) /\ (Behind(m, p) \in C => m[Behind(m, p)].used)
            \/ /\ Behind(m, p) \in C /\ ~m[Behind(m, p)].used
               /\ JoinEnd(m, p) = Behind(m, Behind(m, p))
<1>1. /\ p \in Nat /\ p >= 1 /\ Len(m) \in Nat
      /\ \A q \in C \cup {E} : q = 1 \/ \E r \in C : Behind(m, r) = q
      /\ \A q \in E .. Len(m) : m[q] = Zero
      /\ E \in Nat /\ E >= 1
  BY ChainPlaces, ChainFacts
<1>2. ASSUME NEW r \in C, Behind(m, r) = p PROVE Before(m, p) = r /\ r < p /\ p > 1
  <2>1. /\ r \in Nat /\ r >= 1 /\ m[r].size \in Nat /\ m[r + 1 + m[r].size] = m[r]
        /\ p = r + m[r].size + 2
    BY <1>2, ChainPlaces, ChainTags
  <2>2. r + 1 + m[r].size = p - 1
    BY <2>1
  <2>3. m[p - 1] = m[r]
    BY <2>1, <2>2
  <2>4. p - 2 - m[p - 1].size = r
    <3> DEFINE z == m[r].size
    <3>1. r \in Nat /\ z \in Nat /\ p = r + z + 2 /\ m[p - 1].size = z
      BY <2>1, <2>3
    <3> HIDE DEF z
    <3>2. p - 2 - z = r
      BY <3>1
    <3> QED BY <3>1, <3>2
  <2>5. r < p /\ p > 1
    <3> DEFINE z == m[r].size
    <3>1. r \in Nat /\ r >= 1 /\ z \in Nat /\ p = r + z + 2
      BY <2>1
    <3> HIDE DEF z
    <3> QED BY <3>1
  <2> QED BY <2>4, <2>5 DEF Before
<1>3. /\ JoinBegin(m, p) \in C /\ JoinBegin(m, p) <= p
      /\ \/ JoinBegin(m, p) = p /\ \A r \in C : Behind(m, r) = p => m[r].used
         \/ JoinBegin(m, p) < p /\ Behind(m, JoinBegin(m, p)) = p /\ ~m[JoinBegin(m, p)].used
  <2>1. CASE p > 1 /\ ~m[Before(m, p)].used
    <3>1. JoinBegin(m, p) = Before(m, p)
      BY <2>1 DEF JoinBegin
    <3>2. PICK r \in C : Behind(m, r) = p
      BY <1>1, <2>1
    <3>3. r \in Nat
      BY ChainPlaces
    <3> QED BY <2>1, <3>1, <3>2, <3>3, <1>1, <1>2
  <2>2. CASE ~(p > 1 /\ ~m[Before(m, p)].used)
    <3>1. JoinBegin(m, p) = p
      BY <2>2 DEF JoinBegin
    <3>2. \A r \in C : Behind(m, r) = p => m[r].used
      BY <1>2, <2>2
    <3> QED BY <3>1, <3>2, <1>1
  <2> QED BY <2>1, <2>2
<1>4. \/ JoinEnd(m, p) = Behind(m, p) /\ (Behind(m, p) \in C => m[Behind(m, p)].used)
      \/ /\ Behind(m, p) \in C /\ ~m[Behind(m, p)].used
         /\ JoinEnd(m, p) = Behind(m, Behind(m, p))
  <2> DEFINE n == Behind(m, p)
  <2>1. n \in C \cup {E} /\ n \in Nat
    BY ChainTags
  <2>2. n \in C => n <= Len(m) /\ m[n].addr # 0
    <3> SUFFICES ASSUME n \in C PROVE n <= Len(m) /\ m[n].addr # 0
      OBVIOUS
    <3> HIDE DEF n
    <3>1. n \in 1 .. Len(m) /\ m[n].addr = n + 1
      BY ChainPlaces, ChainTags
    <3> QED BY <3>1
  <2>3. JoinEnd(m, p) = IF n <= Len(m) /\ ~(m[n].addr = 0 /\ m[n].size = 0) /\ ~m[n].used
                        THEN Behind(m, n) ELSE n
    BY DEF JoinEnd
  <2> HIDE DEF n
  <2>4. CASE n <= Len(m) /\ ~(m[n].addr = 0 /\ m[n].size = 0) /\ ~m[n].used
    <3>1. n \in C
      <4> SUFFICES ASSUME n = E PROVE FALSE
        BY <2>1
      <4>1. n \in E .. Len(m)
        BY <2>1, <2>4, <1>1
      <4> QED BY <4>1, <2>4, <1>1 DEF Zero
    <3> QED BY <2>3, <2>4, <3>1 DEF n
  <2>5. CASE ~(n <= Len(m) /\ ~(m[n].addr = 0 /\ m[n].size = 0) /\ ~m[n].used)
    <3>1. JoinEnd(m, p) = n
      BY <2>3, <2>5
    <3>2. n \in C => m[n].used
      BY <2>2, <2>5
    <3> QED BY <3>1, <3>2 DEF n
  <2> QED BY <2>4, <2>5
<1> QED BY <1>3, <1>4

(* __heapFree *)
LEMMA FreeKeeps ==
  ASSUME NEW m, HeapOK(m), NEW addr \in 2 .. Len(m)
  PROVE  /\ HeapOK(HeapFree(m, addr)) /\ Len(HeapFree(m, addr)) = Len(m)
         /\ UsedBlocks(HeapFree(m, addr)) = {x \in UsedBlocks(m) : x.addr # addr}
<1>1. m \in Seq(Tags) /\ Len(m) \in Nat
  BY TagFacts DEF HeapOK
<1>2. PICK C, E : ChainIs(m, C, E) /\ NoneStale(m, C)
  BY DEF HeapOK
<1> DEFINE p == addr - 1
           n == Behind(m, p)
           a == JoinBegin(m, p)
           b == JoinEnd(m, p)
           u == [m EXCEPT ![p].used = FALSE]
           w == Tagged(u, a, b - a - 2, FALSE)
           D == Joined(C, a, b)
<1>3. CASE ~TagsMatch(m, addr)
  <2>1. HeapFree(m, addr) = m
    BY <1>3 DEF HeapFree
  <2>2. ASSUME NEW x \in UsedBlocks(m), x.addr = addr PROVE FALSE
    <3>1. PICK q \in C : x = [addr |-> q + 1, size |-> m[q].size]
      BY <1>1, <1>2, UsedAre
    <3>2. /\ q \in Nat /\ m[q].size \in Nat /\ m[q].addr = q + 1 /\ m[q + 1 + m[q].size] = m[q]
          /\ q + m[q].size + 2 <= Len(m) + 1
      BY <1>1, <1>2, ChainPlaces, ChainTags
    <3>3. addr = q + 1 /\ (q + 1) - 1 = q
      <4>1. x.addr = q + 1
        BY <3>1
      <4>2. (q + 1) - 1 = q
        BY <3>2
      <4> QED BY <2>2, <4>1, <4>2
    <3>4. q + 1 + m[q].size \in 1 .. Len(m) /\ DOMAIN m = 1 .. Len(m)
      BY <1>1, <3>2, TagFacts
    <3>5. TagsMatch(m, q + 1)
      BY <3>2, <3>3, <3>4 DEF TagsMatch
    <3> QED BY <1>3, <3>3, <3>5
  <2> QED BY <2>1, <2>2
<1>4. CASE TagsMatch(m, addr)
  <2>1. HeapFree(m, addr) = w
    BY <1>4 DEF HeapFree
  <2>2. p \in C
    <3>1. p \in 1 .. Len(m) /\ p + 1 = addr
      BY <1>1
    <3>2. m[p].addr = addr
      BY <1>4 DEF TagsMatch
    <3> HIDE DEF p
    <3> QED BY <1>2, <1>4, <3>1, <3>2 DEF NoneStale
  <2> HIDE DEF p, w
  <2>3. /\ p \in Nat /\ p >= 1 /\ p \in 1 .. Len(m) /\ m[p].size \in Nat /\ m[p] \in Tags
        /\ m[p].addr = p + 1 /\ m[p + 1 + m[p].size] = m[p]
        /\ n = p + m[p].size + 2 /\ n \in Nat /\ n <= Len(m) + 1 /\ n \in C \cup {E}
    BY <1>1, <1>2, <2>2, ChainPlaces, ChainTags
  <2>4. /\ a \in C /\ a <= p
        /\ \/ a = p /\ \A r \in C : Behind(m, r) = p => m[r].used
           \/ a < p /\ Behind(m, a) = p /\ ~m[a].used
        /\ \/ b = n /\ (n \in C => m[n].used)
           \/ n \in C /\ ~m[n].used /\ b = Behind(m, n)
    BY <1>1, <1>2, <2>2, JoinPlaces
  <2> HIDE DEF a, b, n
  <2>5. a \in Nat /\ a >= 1 /\ C \subseteq 1 .. Len(m) /\ \A q \in C : q \in Nat
    BY <1>1, <1>2, <2>4, ChainPlaces
  <2>6. /\ b \in C \cup {E} /\ b \in Nat /\ b <= Len(m) + 1 /\ n <= b
        /\ b # n => n + 2 <= b /\ n \in C /\ m[n].size \in Nat /\ b = n + m[n].size + 2 /\ m[n].addr = n + 1
    <3>1. CASE n \in C /\ b = Behind(m, n)
      <4>1. /\ b \in C \cup {E} /\ b \in Nat /\ b <= Len(m) + 1 /\ m[n].size \in Nat
            /\ b = n + m[n].size + 2 /\ m[n].addr = n + 1
        BY <1>1, <1>2, <3>1, ChainTags
      <4>2. n + 2 <= b /\ n <= b
        <5>0. n \in Nat
          BY <2>3
        <5>1. \A z \in Nat : n + 2 <= n + z + 2 /\ n <= n + z + 2
          BY <5>0
        <5> QED BY <4>1, <5>1
      <4> QED BY <3>1, <4>1, <4>2
    <3> QED BY <2>3, <2>4, <3>1
  <2>7. /\ u \in Seq(Tags) /\ Len(u) = Len(m)
        /\ u[p] = [m[p] EXCEPT !.used = FALSE]
        /\ \A q \in 1 .. Len(m) : q # p => u[q] = m[q]
    <3>1. [m[p] EXCEPT !.used = FALSE] \in Tags
      BY <2>3 DEF Tags
    <3>2. u = [m EXCEPT ![p] = [m[p] EXCEPT !.used = FALSE]]
      OBVIOUS
    <3> DEFINE t == [m[p] EXCEPT !.used = FALSE]
    <3> HIDE DEF t, u
    <3>3. u = [m EXCEPT ![p] = t] /\ t \in Tags
      BY <3>1, <3>2 DEF t
    <3>4. m \in [1 .. Len(m) -> Tags]
      BY <1>1, LenProperties
    <3>5. u \in Seq(Tags) /\ Len(u) = Len(m)
      BY <1>1, <2>3, <3>3, ExceptSeq
    <3>6. u[p] = t /\ \A q \in 1 .. Len(m) : q # p => u[q] = m[q]
      <4>1. p \in 1 .. Len(m)
        BY <2>3
      <4> QED BY <3>3, <3>4, <4>1
    <3> QED BY <3>5, <3>6 DEF t
  <2>8. p + 2 <= n /\ p + 2 <= b /\ a + 2 <= b /\ p < b - 1 /\ a < n
    <3> DEFINE z == m[p].size
    <3>1. p \in Nat /\ z \in Nat /\ n = p + z + 2
      BY <2>3
    <3>2. b \in Nat /\ n <= b /\ a \in Nat /\ a <= p
      BY <2>4, <2>5, <2>6
    <3> HIDE DEF z
    <3>3. p + 2 <= n /\ n \in Nat
      BY <3>1
    <3> QED BY <3>1, <3>2, <3>3
  <2>9. Written(u, w, a, b - 1, [addr |-> a + 1, size |-> b - a - 2, used |-> FALSE])
    <3>1. b - a - 2 \in Nat /\ a + 1 + (b - a - 2) = b - 1 /\ b - 1 <= Len(u) /\ a \in Nat \ {0}
      BY <1>1, <2>5, <2>6, <2>7, <2>8
    <3>2. FALSE \in BOOLEAN
      OBVIOUS
    <3> HIDE DEF u
    <3>3. Written(u, w, a, a + 1 + (b - a - 2), [addr |-> a + 1, size |-> b - a - 2, used |-> FALSE])
      BY <2>7, <3>1, <3>2, TaggedIs DEF w
    <3> QED BY <3>1, <3>3
  <2> HIDE DEF u, D
  <2>10. /\ w \in Seq(Tags) /\ Len(w) = Len(m)
         /\ w[a].addr = a + 1 /\ w[a].size = b - a - 2 /\ ~w[a].used /\ w[b - 1] = w[a]
         /\ \A q \in 1 .. Len(m) : q # a /\ q # b - 1 /\ q # p => w[q] = m[q]
         /\ a # p => w[p] = [m[p] EXCEPT !.used = FALSE]
    <3>1. p # b - 1
      <4>1. p \in Nat /\ b \in Nat
        BY <2>3, <2>6
      <4> QED BY <2>8, <4>1
    <3>2. /\ w \in Seq(Tags) /\ Len(w) = Len(u) /\ w[b - 1] = w[a]
          /\ w[a] = [addr |-> a + 1, size |-> b - a - 2, used |-> FALSE]
          /\ \A q \in 1 .. Len(u) : q # a /\ q # b - 1 => w[q] = u[q]
      BY <2>9 DEF Written
    <3>3. a # p => w[p] = u[p]
      BY <2>3, <2>7, <3>1, <3>2
    <3>4. \A q \in 1 .. Len(m) : q # a /\ q # b - 1 /\ q # p => w[q] = m[q]
      BY <2>7, <3>2
    <3>5. w[a].addr = a + 1 /\ w[a].size = b - a - 2 /\ ~w[a].used
      BY <3>2
    <3> QED BY <2>7, <3>2, <3>3, <3>4, <3>5
  <2>11. \A x \in C : ~m[x].used /\ Behind(m, x) \in C => m[Behind(m, x)].used
    BY <1>2 DEF ChainIs
  <2>12. Became(m, w, C, E, a, b)
    <3>1. \A q \in 1 .. Len(m) : q < a \/ b <= q => w[q] = m[q]
      <4> SUFFICES ASSUME NEW q \in 1 .. Len(m), q < a \/ b <= q PROVE w[q] = m[q]
        OBVIOUS
      <4>1. q # a /\ q # b - 1 /\ q # p
        BY <2>3, <2>4, <2>5, <2>6, <2>8
      <4> QED BY <2>10, <4>1
    <3>2. \A r \in C : Behind(m, r) = a => m[r].used
      BY <2>4, <2>11
    <3>3. b \in C => m[b].used
      BY <2>4, <2>11
    <3> QED BY <2>4, <2>6, <2>8, <2>10, <3>1, <3>2, <3>3 DEF Became
  <2>13. ChainIs(w, D, JoinedEnd(E, a, b))
    BY <1>1, <1>2, <2>12, OneBlock DEF D
  <2>14. a \in D /\ D \subseteq 1 .. Len(m)
    BY <2>4, <2>5 DEF D, Joined
  <2>15. ASSUME NEW q \in C \ D PROVE (q = p /\ a # p) \/ (q = n /\ b # n)
    <3>1. q \in Nat /\ a < q /\ q < b
      <4>1. q \in C /\ q # a /\ ~(q < a) /\ ~(b <= q)
        BY DEF D, Joined
      <4>2. q \in Nat /\ a \in Nat /\ b \in Nat
        BY <2>5, <2>6, <4>1
      <4> QED BY <4>1, <4>2
    <3>2. \A x \in C, y \in C \cup {E} : x < y => Behind(m, x) <= y
      BY <1>1, <1>2, ChainFacts
    <3>3. p <= q
      <4>1. a < p /\ Behind(m, a) = p => p <= q
        <5>1. Behind(m, a) <= q
          BY <2>4, <3>1, <3>2
        <5> QED BY <5>1
      <4>2. a = p \/ (a < p /\ Behind(m, a) = p)
        BY <2>4
      <4> QED BY <2>3, <3>1, <4>1, <4>2
    <3>4. p < q => n <= q
      BY <2>2, <3>2 DEF n
    <3>5. n < q => b <= q
      BY <2>3, <2>4, <3>1, <3>2
    <3> QED BY <2>3, <2>4, <2>5, <2>6, <3>1, <3>3, <3>4, <3>5
  <2>16. ASSUME NEW q \in C \ D, TagsMatch(w, q + 1) PROVE FALSE
    <3>0. q \in Nat /\ (q + 1) - 1 = q
      BY <2>5
    <3>1. w[q].addr = q + 1 /\ w[q + 1 + w[q].size] = w[q]
      BY <2>16, <3>0 DEF TagsMatch
    <3>2. CASE q = n /\ b # n
      <4>1. n # a /\ n # b - 1 /\ n # p /\ n \in 1 .. Len(m)
        <5>1. n + 2 <= b /\ b <= Len(m) + 1 /\ b \in Nat /\ n \in Nat
          BY <2>3, <2>6, <3>2
        <5>2. n \in 1 .. Len(m) /\ n # b - 1
          <6>1. Len(m) \in Nat /\ p \in Nat /\ p + 2 <= n
            BY <1>1, <2>3, <2>8
          <6> HIDE DEF n, b
          <6> QED BY <5>1, <6>1
        <5>3. n # a /\ n # p
          BY <2>3, <2>5, <2>8
        <5> QED BY <5>2, <5>3
      <4>2. w[n] = m[n] /\ n + 1 + m[n].size = b - 1
        <5>1. \A z \in Nat : b = n + z + 2 => n + 1 + z = b - 1
          BY <2>3
        <5>2. w[n] = m[n]
          BY <2>10, <4>1
        <5> QED BY <2>6, <3>2, <5>1, <5>2
      <4> QED BY <2>5, <2>10, <3>1, <3>2, <4>1, <4>2
    <3>3. CASE q = p /\ a # p
      <4>1. w[p] = [m[p] EXCEPT !.used = FALSE] /\ w[p].size = m[p].size /\ w[p].used = FALSE
        BY <2>3, <2>10, <3>3 DEF Tags
      <4>2. p + 1 + m[p].size = n - 1
        BY <2>3
      <4>3. w[n - 1] = w[p]
        BY <3>1, <3>3, <4>1, <4>2
      <4>4. CASE b = n
        <5>1. w[p].addr = a + 1
          BY <2>10, <4>3, <4>4
        <5> QED BY <2>3, <2>5, <3>1, <3>3, <5>1
      <4>5. CASE b # n
        <5>1. n - 1 # a /\ n - 1 # p /\ n - 1 # b - 1 /\ n - 1 \in 1 .. Len(m)
          <6>1. n + 2 <= b /\ b <= Len(m) + 1 /\ b \in Nat /\ n \in Nat
            BY <2>3, <2>6, <4>5
          <6>2. n - 1 # p /\ n - 1 # b - 1 /\ n - 1 >= 1 /\ n - 1 <= Len(m)
            <7> DEFINE L == Len(m)
            <7>1. L \in Nat /\ p \in Nat /\ p >= 1 /\ p + 2 <= n /\ b <= L + 1
              BY <1>1, <2>3, <2>8, <6>1
            <7> HIDE DEF L
            <7>2. n - 1 # p /\ n - 1 # b - 1 /\ n - 1 >= 1 /\ n - 1 <= L
              BY <6>1, <7>1
            <7> QED BY <7>2 DEF L
          <6>3. n - 1 # a
            BY <2>3, <2>4, <2>5, <2>8, <6>1
          <6> QED BY <1>1, <6>1, <6>2, <6>3
        <5>2. w[n - 1] = m[n - 1] /\ m[n - 1] = m[p]
          BY <2>3, <2>10, <4>2, <5>1
        <5>3. m[p].used
          BY <2>2, <2>4, <2>11, <3>3
        <5> QED BY <4>1, <4>3, <5>2, <5>3
      <4> QED BY <4>4, <4>5
    <3> QED BY <2>15, <3>2, <3>3
  <2>17. Retagged(m, w, C, D, {a, b - 1, p})
    <3>1. a = p \/ w[p].addr = p + 1
      BY <2>3, <2>10 DEF Tags
    <3> QED BY <2>2, <2>10, <2>14, <2>16, <3>1 DEF Retagged
  <2>18. NoneStale(w, D)
    BY <1>1, <1>2, <2>5, <2>14, <2>17, StaleKept
  <2>19. Lost(m, w, C, D, p)
    <3>1. ASSUME NEW q \in C, q # p, m[q].used PROVE q \in D /\ w[q] = m[q]
      <4>1. q \in D
        BY <2>4, <2>15, <3>1
      <4>2. q # a
        BY <2>4, <3>1
      <4> QED BY <2>12, <2>5, <4>1, <4>2 DEF D, Joined, Became
    <3>2. ASSUME NEW q \in D, w[q].used PROVE q \in C /\ q # p /\ w[q] = m[q]
      <4>1. q # a
        BY <2>10, <3>2
      <4>2. q \in C /\ (q < a \/ b <= q)
        BY <4>1 DEF D, Joined
      <4>3. q # p
        BY <2>3, <2>4, <2>5, <2>6, <2>8, <4>2
      <4> QED BY <2>12, <2>5, <4>2, <4>3 DEF Became
    <3> QED BY <3>1, <3>2 DEF Lost
  <2>20. UsedBlocks(w) = {x \in UsedBlocks(m) : x.addr # p + 1}
    BY <1>1, <1>2, <2>3, <2>10, <2>13, <2>19, UsedLost
  <2>21. p + 1 = addr
    BY <1>1 DEF p
  <2> QED BY <2>1, <2>10, <2>13, <2>18, <2>20, <2>21 DEF HeapOK
<1> QED BY <1>3, <1>4

LEMMA EmptyIsOK ==
  ASSUME NEW n \in Nat
  PROVE  HeapOK(EmptyHeap(n)) /\ Len(EmptyHeap(n)) = n /\ UsedBlocks(EmptyHeap(n)) = {}
<1> DEFINE m == EmptyHeap(n)
<1>1. Zero \in Tags
  BY DEF Zero, Tags
<1>2. m \in [1 .. n -> Tags] /\ \A q \in 1 .. n : m[q] = Zero
  BY <1>1 DEF EmptyHeap
<1> HIDE DEF m
<1>3. m \in Seq(Tags)
  BY <1>2, SeqDef
<1>4. Len(m) = n
  <2>1. Len(m) \in Nat /\ 1 .. Len(m) = 1 .. n
    BY <1>2, <1>3, LenProperties
  <2> QED BY <2>1
<1>5. ChainIs(m, {}, 1)
  BY <1>2, <1>4 DEF ChainIs
<1>6. NoneStale(m, {})
  <2>1. ASSUME NEW q \in 1 .. n PROVE m[q].addr # q + 1
    BY <1>2 DEF Zero
  <2> QED BY <1>4, <2>1 DEF NoneStale
<1>7. UsedBlocks(m) = {}
  BY <1>3, <1>5, UsedAre
<1> QED BY <1>3, <1>4, <1>5, <1>6, <1>7 DEF HeapOK, m

(* Functions defined by recursion over numbers: they exist, and the values are
   numbers.  G is the step. *)
LEMMA StepsExist ==
  ASSUME NEW n \in Nat, NEW c \in Nat, NEW G \in [Nat \X Nat -> Nat]
  PROVE  \E f \in [0 .. n -> Nat] : f[0] = c /\ \A i \in 1 .. n : f[i] = G[<<i, f[i - 1]>>]
<1> DEFINE Is(f, k) == /\ f \in [0 .. k -> Nat]
                       /\ f[0] = c /\ \A i \in 1 .. k : f[i] = G[<<i, f[i - 1]>>]
           T == {k \in Nat : ~\E f : Is(f, k)}
<1>1. T = {}
  <2> SUFFICES ASSUME T # {} PROVE FALSE
    OBVIOUS
  <2>1. PICK k \in T : \A j \in T : k <= j
    BY LeastNat
  <2>2. CASE k = 0
    <3>1. Is([i \in 0 .. 0 |-> c], 0)
      OBVIOUS
    <3> QED BY <2>2, <3>1
  <2>3. CASE k # 0
    <3>1. k - 1 \in Nat /\ k \in Nat /\ k - 1 < k /\ ~ (k <= k - 1)
      BY <2>3
    <3>2. k - 1 \notin T
      <4> HIDE DEF T
      <4> QED BY <2>1, <3>1
    <3>3. PICK g : Is(g, k - 1)
      BY <3>1, <3>2
    <3> DEFINE f == [i \in 0 .. k |-> IF i < k THEN g[i] ELSE G[<<k, g[k - 1]>>]]
    <3>4. g[k - 1] \in Nat /\ G[<<k, g[k - 1]>>] \in Nat /\ \A i \in 0 .. k : i < k => g[i] \in Nat
      BY <3>1, <3>3
    <3>5. f \in [0 .. k -> Nat] /\ f[0] = c
      <4>1. f \in [0 .. k -> Nat]
        BY <3>4
      <4>2. f[0] = g[0] /\ g[0] = c
        BY <3>1, <3>3
      <4> QED BY <4>1, <4>2
    <3>6. ASSUME NEW i \in 1 .. k PROVE f[i] = G[<<i, f[i - 1]>>]
      <4>1. f[i - 1] = g[i - 1]
        BY <3>1
      <4>2. CASE i = k
        <5>1. f[i] = G[<<k, g[k - 1]>>]
          BY <3>1, <4>2
        <5> QED BY <4>1, <4>2, <5>1
      <4>3. CASE i < k
        <5>1. f[i] = g[i] /\ i \in 1 .. k - 1
          BY <3>1, <4>3
        <5>2. g[i] = G[<<i, g[i - 1]>>]
          BY <3>3, <5>1
        <5> QED BY <4>1, <5>1, <5>2
      <4> QED BY <3>1, <4>2, <4>3
    <3>7. Is(f, k)
      <4> HIDE DEF f
      <4> QED BY <3>5, <3>6
    <3> QED BY <3>7
  <2> QED BY <2>2, <2>3
<1> QED BY <1>1

LEMMA StepsAreNat ==
  ASSUME NEW n \in Nat, NEW c \in Nat, NEW G \in [Nat \X Nat -> Nat],
         NEW f, f[0] = c, \A i \in 1 .. n : f[i - 1] \in Nat => f[i] = G[<<i, f[i - 1]>>]
  PROVE  \A i \in 0 .. n : f[i] \in Nat
<1> DEFINE T == {k \in Nat : k <= n /\ f[k] \notin Nat}
<1>1. T = {}
  <2> SUFFICES ASSUME T # {} PROVE FALSE
    OBVIOUS
  <2>1. PICK k \in T : \A j \in T : k <= j
    BY LeastNat
  <2>2. k # 0
    OBVIOUS
  <2>3. k - 1 \in Nat /\ k - 1 < k /\ k - 1 <= n /\ ~ (k <= k - 1) /\ k \in 1 .. n
    BY <2>2
  <2>4. f[k - 1] \in Nat
    <3>1. k - 1 \notin T
      <4> HIDE DEF T
      <4> QED BY <2>1, <2>3
    <3> QED BY <2>3, <3>1
  <2>5. f[k] \in Nat
    BY <2>3, <2>4
  <2> QED BY <2>5
<1> QED BY <1>1

LEMMA LimitIsNat ==
  ASSUME NEW n \in 0 .. Heaps
  PROVE  HeapLimit[n] \in Nat
<1> DEFINE G == [x \in Nat \X Nat |-> 2 * x[2]]
<1>1. HeapSize \in Nat /\ Heaps \in Nat /\ G \in [Nat \X Nat -> Nat]
  BY UserMemoryAssumption
<1>2. \A i, x \in Nat : G[<<i, x>>] = 2 * x
  OBVIOUS
<1> HIDE DEF G
<1>3. PICK f \in [0 .. Heaps -> Nat] :
         f[0] = HeapSize /\ \A i \in 1 .. Heaps : f[i] = G[<<i, f[i - 1]>>]
  BY <1>1, StepsExist
<1>4. f = [i \in 0 .. Heaps |-> IF i = 0 THEN HeapSize ELSE 2 * f[i - 1]]
  <2>1. ASSUME NEW i \in 0 .. Heaps PROVE f[i] = IF i = 0 THEN HeapSize ELSE 2 * f[i - 1]
    <3> SUFFICES ASSUME i # 0 PROVE f[i] = 2 * f[i - 1]
      BY <1>3
    <3>1. i \in 1 .. Heaps /\ i \in Nat /\ f[i - 1] \in Nat
      BY <1>1, <1>3
    <3> QED BY <1>2, <1>3, <3>1
  <2> QED BY <2>1
<1>5. HeapLimit = [i \in 0 .. Heaps |-> IF i = 0 THEN HeapSize ELSE 2 * HeapLimit[i - 1]]
  BY <1>4, Zenon DEF HeapLimit
<1>6. HeapLimit[0] = HeapSize
  BY <1>1, <1>5
<1>7. ASSUME NEW i \in 1 .. Heaps, HeapLimit[i - 1] \in Nat
      PROVE  HeapLimit[i] = G[<<i, HeapLimit[i - 1]>>]
  <2>1. i \in 0 .. Heaps /\ i # 0 /\ i \in Nat
    BY <1>1
  <2> QED BY <1>2, <1>5, <1>7, <2>1
<1> QED BY <1>1, <1>6, <1>7, StepsAreNat

LEMMA ClassFacts ==
  /\ Len(Classes) \in Nat /\ DOMAIN Classes = 1 .. Len(Classes)
  /\ \A k \in DOMAIN Classes : Classes[k].size \in Nat \ {0} /\ Classes[k].count \in Nat
  /\ \A k \in 1 .. Len(Classes) + 1 : ClassBase[k] \in Nat
  /\ ClassBase[1] = 1
  /\ \A k \in DOMAIN Classes :
        ClassBase[k + 1] = ClassBase[k] + Classes[k].size * Classes[k].count
<1> DEFINE L == Len(Classes)
           G == [x \in Nat \X Nat |->
                   IF x[1] \in 1 .. L THEN x[2] + Classes[x[1]].size * Classes[x[1]].count ELSE 0]
<1>1. L \in Nat /\ DOMAIN Classes = 1 .. L
  BY UserMemoryAssumption, LenProperties
<1>2. ASSUME NEW k \in 1 .. L PROVE Classes[k].size \in Nat \ {0} /\ Classes[k].count \in Nat
  <2>1. Classes[k] \in [size : Nat \ {0}, count : Nat]
    BY UserMemoryAssumption, ElementOfSeq
  <2> QED BY <2>1
<1> HIDE DEF L
<1>3. \A k \in 1 .. L : Classes[k].size * Classes[k].count \in Nat
  BY <1>2
<1>4. G \in [Nat \X Nat -> Nat] /\ \A i \in 1 .. L, x \in Nat : G[<<i, x>>] = x + Classes[i].size * Classes[i].count
  <2>1. ASSUME NEW x \in Nat \X Nat PROVE G[x] \in Nat
    BY <1>3
  <2>2. \A i \in 1 .. L : i \in Nat
    BY <1>1
  <2> QED BY <2>1, <2>2
<1> HIDE DEF G
<1>5. PICK f \in [0 .. L -> Nat] : f[0] = 1 /\ \A i \in 1 .. L : f[i] = G[<<i, f[i - 1]>>]
  <2> DEFINE one == 1
  <2>1. one \in Nat
    OBVIOUS
  <2> HIDE DEF one
  <2>2. \E f \in [0 .. L -> Nat] : f[0] = one /\ \A i \in 1 .. L : f[i] = G[<<i, f[i - 1]>>]
    BY <1>1, <1>4, <2>1, StepsExist, Zenon
  <2> QED BY <2>2 DEF one
<1> DEFINE g == [k \in 1 .. L + 1 |-> f[k - 1]]
           Step(h, k) == IF k = 1 THEN 1 ELSE h[k - 1] + Classes[k - 1].size * Classes[k - 1].count
<1>6. g = [k \in 1 .. L + 1 |-> Step(g, k)]
  <2>1. ASSUME NEW k \in 1 .. L + 1 PROVE g[k] = Step(g, k)
    <3>1. CASE k = 1
      <4>1. g[k] = f[0]
        BY <1>1, <3>1
      <4> QED BY <1>5, <3>1, <4>1
    <3>2. CASE k # 1
      <4>1. k - 1 \in 1 .. L /\ g[k] = f[k - 1] /\ g[k - 1] = f[(k - 1) - 1] /\ f[(k - 1) - 1] \in Nat
        BY <1>1, <3>2
      <4>2. f[k - 1] = f[(k - 1) - 1] + Classes[k - 1].size * Classes[k - 1].count
        BY <1>4, <1>5, <4>1
      <4> QED BY <3>2, <4>1, <4>2
    <3> QED BY <3>1, <3>2
  <2> QED BY <2>1
<1>7. ClassBase = [k \in 1 .. L + 1 |-> Step(ClassBase, k)]
  BY <1>6, Zenon DEF ClassBase, L
<1>8. ClassBase[1] = 1
  BY <1>1, <1>7
<1>9. ASSUME NEW k \in 1 .. L PROVE ClassBase[k + 1] = ClassBase[k] + Classes[k].size * Classes[k].count
  <2>1. k + 1 \in 1 .. L + 1 /\ k + 1 # 1 /\ (k + 1) - 1 = k
    BY <1>1
  <2> QED BY <1>7, <2>1
<1> DEFINE h == [k \in 0 .. L |-> ClassBase[k + 1]]
<1>10. \A k \in 0 .. L : h[k] \in Nat
  <2>1. h[0] = 1
    BY <1>1, <1>8
  <2>2. ASSUME NEW k \in 1 .. L, h[k - 1] \in Nat PROVE h[k] = G[<<k, h[k - 1]>>]
    <3>1. h[k] = ClassBase[k + 1] /\ h[k - 1] = ClassBase[k]
      BY <1>1
    <3> QED BY <1>4, <1>9, <2>2, <3>1
  <2> DEFINE one == 1
  <2>3. one \in Nat /\ h[0] = one
    BY <2>1
  <2> HIDE DEF h, one
  <2> QED BY <1>1, <1>4, <2>2, <2>3, StepsAreNat
<1>11. ASSUME NEW k \in 1 .. L + 1 PROVE ClassBase[k] \in Nat
  <2>1. k - 1 \in 0 .. L /\ h[k - 1] = ClassBase[k]
    BY <1>1
  <2> QED BY <1>10, <2>1
<1> QED BY <1>1, <1>2, <1>8, <1>9, <1>11 DEF L

-----------------------------------------------------------------------------
(* The blocks of the fast heap do not overlap, and each has a mark of its own. *)

LEMMA ClassesRise ==
  ASSUME NEW k \in DOMAIN Classes, NEW j \in 1 .. Len(Classes) + 1, k < j
  PROVE  ClassBase[k + 1] <= ClassBase[j]
<1> DEFINE L == Len(Classes)
           T == {d \in Nat : k + 1 + d \in 1 .. L + 1 /\ ~ (ClassBase[k + 1] <= ClassBase[k + 1 + d])}
<1>1. /\ L \in Nat /\ DOMAIN Classes = 1 .. L
      /\ \A x \in 1 .. L + 1 : ClassBase[x] \in Nat
      /\ \A x \in 1 .. L : /\ ClassBase[x + 1] = ClassBase[x] + Classes[x].size * Classes[x].count
                           /\ Classes[x].size \in Nat /\ Classes[x].count \in Nat
  BY ClassFacts
<1> HIDE DEF L
<1>2. T = {}
  <2> SUFFICES ASSUME T # {} PROVE FALSE
    OBVIOUS
  <2>1. PICK d \in T : \A e \in T : d <= e
    BY LeastNat
  <2>2. d # 0
    <3> SUFFICES ASSUME d = 0 PROVE FALSE
      OBVIOUS
    <3>1. k + 1 + d = k + 1 /\ ClassBase[k + 1] \in Nat
      BY <1>1
    <3> QED BY <3>1
  <2> DEFINE x == k + d
  <2>3. /\ d - 1 \in Nat /\ ~ (d <= d - 1) /\ k + 1 + (d - 1) = x /\ k + 1 + d = x + 1
        /\ x \in 1 .. L /\ x \in 1 .. L + 1 /\ k + 1 \in 1 .. L + 1 /\ x + 1 \in 1 .. L + 1
    <3>1. k \in Nat /\ 1 <= k /\ k <= L /\ L \in Nat
      BY <1>1
    <3>2. d \in Nat /\ k + 1 + d \in 1 .. L + 1
      OBVIOUS
    <3> HIDE DEF T
    <3> QED BY <2>2, <3>1, <3>2
  <2> HIDE DEF x
  <2>4. ClassBase[k + 1] <= ClassBase[x]
    <3>1. d - 1 \notin T
      <4> HIDE DEF T
      <4> QED BY <2>1, <2>3
    <3> QED BY <2>3, <3>1
  <2>5. Classes[x].size * Classes[x].count \in Nat
    <3>1. \A u, v \in Nat : u * v \in Nat
      OBVIOUS
    <3>2. Classes[x].size \in Nat /\ Classes[x].count \in Nat
      BY <1>1, <2>3
    <3> QED BY <3>1, <3>2
  <2>6. ClassBase[k + 1] <= ClassBase[x + 1]
    <3>1. \A u, v, z \in Nat : u <= v => u <= v + z
      OBVIOUS
    <3>2. ClassBase[k + 1] \in Nat /\ ClassBase[x] \in Nat
      BY <1>1, <2>3
    <3>3. ClassBase[x + 1] = ClassBase[x] + Classes[x].size * Classes[x].count
      BY <1>1, <2>3
    <3> QED BY <2>4, <2>5, <3>1, <3>2, <3>3
  <2> QED BY <2>3, <2>6
<1>3. j - (k + 1) \in Nat /\ k + 1 + (j - (k + 1)) = j
  BY <1>1 DEF L
<1> QED BY <1>2, <1>3 DEF L

LEMMA BlockPlaces ==
  ASSUME NEW k \in DOMAIN Classes, NEW a \in ClassBlocks(k)
  PROVE  /\ a \in Nat /\ 1 <= a /\ ClassBase[k] <= a /\ a + Classes[k].size <= ClassBase[k + 1]
         /\ Classes[k].size \in Nat \ {0}
<1> DEFINE size == Classes[k].size
           n == Classes[k].count
<1>1. /\ Len(Classes) \in Nat /\ DOMAIN Classes = 1 .. Len(Classes) /\ size \in Nat \ {0} /\ n \in Nat
      /\ ClassBase[k] \in Nat /\ ClassBase[1] = 1 /\ ClassBase[k + 1] = ClassBase[k] + size * n
  BY ClassFacts
<1>2. PICK i \in 0 .. n - 1 : a = ClassBase[k] + i * size
  BY DEF ClassBlocks
<1>3. 1 <= ClassBase[k]
  <2>1. CASE k = 1
    BY <1>1, <2>1
  <2>2. CASE k # 1
    <3>1. 1 \in DOMAIN Classes /\ 1 < k /\ k \in 1 .. Len(Classes) + 1
      BY <1>1, <2>2
    <3>2. ClassBase[1 + 1] <= ClassBase[k]
      BY <3>1, ClassesRise
    <3>3. /\ ClassBase[1 + 1] = 1 + Classes[1].size * Classes[1].count
          /\ Classes[1].size \in Nat /\ Classes[1].count \in Nat
      BY <3>1, ClassFacts
    <3>4. Classes[1].size * Classes[1].count \in Nat
      BY <3>3
    <3> QED BY <1>1, <3>2, <3>3, <3>4
  <2> QED BY <2>1, <2>2
<1> HIDE DEF size, n
<1>4. i * size \in Nat /\ i * size + size <= size * n
  <2>1. \A x, y, z \in Nat : x < y => x * z \in Nat /\ x * z + z <= z * y
    OBVIOUS
  <2>2. i \in Nat /\ i < n
    BY <1>1
  <2> QED BY <1>1, <2>1, <2>2
<1>5. size * n \in Nat
  BY <1>1
<1>6. a \in Nat /\ ClassBase[k] <= a /\ a + size <= ClassBase[k + 1]
  <2>1. \A u, v, x, y \in Nat : v + x <= y => u + v \in Nat /\ u <= u + v /\ u + v + x <= u + y
    OBVIOUS
  <2> QED BY <1>1, <1>2, <1>4, <1>5, <2>1
<1> QED BY <1>1, <1>3, <1>6 DEF size

LEMMA ClassBlocksApart ==
  ASSUME NEW k \in DOMAIN Classes, NEW a \in ClassBlocks(k),
         NEW j \in DOMAIN Classes, NEW b \in ClassBlocks(j), k # j \/ a # b
  PROVE  a + Classes[k].size <= b \/ b + Classes[j].size <= a
<1>1. /\ Len(Classes) \in Nat /\ DOMAIN Classes = 1 .. Len(Classes)
      /\ \A x \in 1 .. Len(Classes) + 1 : ClassBase[x] \in Nat
  BY ClassFacts
<1>2. /\ a \in Nat /\ ClassBase[k] <= a /\ a + Classes[k].size <= ClassBase[k + 1]
      /\ b \in Nat /\ ClassBase[j] <= b /\ b + Classes[j].size <= ClassBase[j + 1]
      /\ Classes[k].size \in Nat \ {0} /\ Classes[j].size \in Nat \ {0}
  BY BlockPlaces
<1>3. /\ k \in 1 .. Len(Classes) + 1 /\ k + 1 \in 1 .. Len(Classes) + 1
      /\ j \in 1 .. Len(Classes) + 1 /\ j + 1 \in 1 .. Len(Classes) + 1
  BY <1>1
<1>4. CASE k < j
  <2>1. ClassBase[k + 1] <= ClassBase[j]
    BY <1>3, <1>4, ClassesRise
  <2> QED BY <1>1, <1>2, <1>3, <2>1
<1>5. CASE j < k
  <2>1. ClassBase[j + 1] <= ClassBase[k]
    BY <1>3, <1>5, ClassesRise
  <2> QED BY <1>1, <1>2, <1>3, <2>1
<1>6. CASE j = k
  <2> DEFINE size == Classes[k].size
             n == Classes[k].count
             base == ClassBase[k]
  <2>1. size \in Nat /\ n \in Nat /\ base \in Nat
    BY ClassFacts
  <2>2. PICK x \in 0 .. n - 1 : a = base + x * size
    BY DEF ClassBlocks
  <2>3. PICK y \in 0 .. n - 1 : b = base + y * size
    BY <1>6 DEF ClassBlocks
  <2> HIDE DEF size, n, base
  <2>4. x # y /\ x \in Nat /\ y \in Nat
    BY <1>6, <2>1, <2>2, <2>3
  <2>5. \A u, v, z \in Nat : u < v => u * z + z <= v * z /\ u * z \in Nat /\ v * z \in Nat
    OBVIOUS
  <2>6. CASE x < y
    <3>1. x * size + size <= y * size /\ x * size \in Nat /\ y * size \in Nat
      BY <2>1, <2>4, <2>5, <2>6
    <3>2. a + size <= b
      BY <2>1, <2>2, <2>3, <3>1
    <3> QED BY <3>2 DEF size
  <2>7. CASE y < x
    <3>1. y * size + size <= x * size /\ x * size \in Nat /\ y * size \in Nat
      BY <2>1, <2>4, <2>5, <2>7
    <3>2. b + size <= a
      BY <2>1, <2>2, <2>3, <3>1
    <3> QED BY <1>6, <3>2 DEF size
  <2> QED BY <2>4, <2>6, <2>7
<1> QED BY <1>3, <1>4, <1>5, <1>6

LEMMA MarksDiffer ==
  ASSUME NEW k \in DOMAIN Classes, NEW a \in ClassBlocks(k),
         NEW j \in DOMAIN Classes, NEW b \in ClassBlocks(j), k # j \/ a # b
  PROVE  MarkOf(k, a) # MarkOf(j, b) /\ a # b
<1>1. a + Classes[k].size <= b \/ b + Classes[j].size <= a
  BY ClassBlocksApart
<1>2. /\ a \in Nat /\ b \in Nat /\ Classes[k].size \in Nat \ {0} /\ Classes[j].size \in Nat \ {0}
  BY BlockPlaces
<1> QED BY <1>1, <1>2 DEF MarkOf

(* The blocks of a fast heap with the marks F *)
Marked(F) ==
    {[addr |-> b[2], size |-> Classes[b[1]].size] :
        b \in {c \in UNION {{k} \X ClassBlocks(k) : k \in DOMAIN Classes} :
                  MarkOf(c[1], c[2]) \in F}}

LEMMA MarkedAre ==
  \A F, x : x \in Marked(F) <=> \E k \in DOMAIN Classes : \E a \in ClassBlocks(k) :
                                   MarkOf(k, a) \in F /\ x = [addr |-> a, size |-> Classes[k].size]
<1> DEFINE Pairs == UNION {{k} \X ClassBlocks(k) : k \in DOMAIN Classes}
<1> SUFFICES ASSUME NEW F, NEW x
             PROVE  x \in Marked(F) <=> \E k \in DOMAIN Classes : \E a \in ClassBlocks(k) :
                                           MarkOf(k, a) \in F /\ x = [addr |-> a, size |-> Classes[k].size]
  OBVIOUS
<1>1. ASSUME NEW k \in DOMAIN Classes, NEW a \in ClassBlocks(k) PROVE <<k, a>> \in Pairs
  BY <1>1
<1>2. ASSUME NEW c \in Pairs PROVE c[1] \in DOMAIN Classes /\ c[2] \in ClassBlocks(c[1])
  BY <1>2
<1>3. ASSUME x \in Marked(F)
      PROVE  \E k \in DOMAIN Classes : \E a \in ClassBlocks(k) :
                MarkOf(k, a) \in F /\ x = [addr |-> a, size |-> Classes[k].size]
  <2>1. PICK c \in Pairs : MarkOf(c[1], c[2]) \in F /\ x = [addr |-> c[2], size |-> Classes[c[1]].size]
    BY <1>3 DEF Marked
  <2> QED BY <1>2, <2>1
<1>4. ASSUME NEW k \in DOMAIN Classes, NEW a \in ClassBlocks(k),
             MarkOf(k, a) \in F, x = [addr |-> a, size |-> Classes[k].size]
      PROVE  x \in Marked(F)
  <2>1. <<k, a>> \in Pairs /\ <<k, a>>[1] = k /\ <<k, a>>[2] = a
    BY <1>1
  <2> HIDE DEF Pairs
  <2>2. \E c \in Pairs : MarkOf(c[1], c[2]) \in F /\ x = [addr |-> c[2], size |-> Classes[c[1]].size]
    BY <1>4, <2>1
  <2> QED BY <2>2 DEF Marked, Pairs
<1> QED BY <1>3, <1>4

LEMMA MarkGained ==
  ASSUME NEW F, NEW k \in DOMAIN Classes, NEW a \in ClassBlocks(k)
  PROVE  Marked(F \cup {MarkOf(k, a)}) = Marked(F) \cup {[addr |-> a, size |-> Classes[k].size]}
<1>1. \A j \in DOMAIN Classes : \A b \in ClassBlocks(j) :
         MarkOf(j, b) = MarkOf(k, a) => j = k /\ b = a
  BY MarksDiffer
<1>2. ASSUME NEW x \in Marked(F \cup {MarkOf(k, a)})
      PROVE  x \in Marked(F) \/ x = [addr |-> a, size |-> Classes[k].size]
  BY <1>1, MarkedAre
<1>3. ASSUME NEW x, x \in Marked(F) \/ x = [addr |-> a, size |-> Classes[k].size]
      PROVE  x \in Marked(F \cup {MarkOf(k, a)})
  BY <1>3, MarkedAre
<1> QED BY <1>2, <1>3

LEMMA MarkLost ==
  ASSUME NEW F, NEW k \in DOMAIN Classes, NEW a \in ClassBlocks(k)
  PROVE  Marked(F \ {MarkOf(ClassOf(a), a)}) = {x \in Marked(F) : x.addr # a}
<1>1. ClassOf(a) = k
  <2>1. ClassBase[k] <= a /\ a < ClassBase[k + 1]
    <3> DEFINE z == ClassBase[k + 1]
               y == Classes[k].size
    <3>1. /\ ClassBase[k] <= a /\ a \in Nat /\ y \in Nat \ {0} /\ a + y <= z
      BY BlockPlaces
    <3>2. z \in Nat
      <4>1. Len(Classes) \in Nat /\ k \in 1 .. Len(Classes)
        BY ClassFacts
      <4>2. k + 1 \in 1 .. Len(Classes) + 1
        BY <4>1
      <4> QED BY <4>2, ClassFacts
    <3> HIDE DEF z, y
    <3>3. a < z
      BY <3>1, <3>2
    <3> QED BY <3>1, <3>3 DEF z
  <2>2. ASSUME NEW j \in DOMAIN Classes, ClassBase[j] <= a, a < ClassBase[j + 1] PROVE j = k
    <3>1. /\ Len(Classes) \in Nat /\ DOMAIN Classes = 1 .. Len(Classes)
          /\ \A x \in 1 .. Len(Classes) + 1 : ClassBase[x] \in Nat
      BY ClassFacts
    <3>2. /\ k \in 1 .. Len(Classes) + 1 /\ k + 1 \in 1 .. Len(Classes) + 1
          /\ j \in 1 .. Len(Classes) + 1 /\ j + 1 \in 1 .. Len(Classes) + 1 /\ a \in Nat
      BY <3>1, BlockPlaces
    <3>3. j < k => ClassBase[j + 1] <= ClassBase[k]
      BY <3>2, ClassesRise
    <3>4. k < j => ClassBase[k + 1] <= ClassBase[j]
      BY <3>2, ClassesRise
    <3> QED BY <2>1, <2>2, <3>1, <3>2, <3>3, <3>4
  <2> QED BY <2>1, <2>2 DEF ClassOf
<1>2. \A j \in DOMAIN Classes : \A b \in ClassBlocks(j) :
         /\ MarkOf(j, b) = MarkOf(k, a) => j = k /\ b = a
         /\ b = a => j = k
  BY MarksDiffer
<1>3. ASSUME NEW x \in Marked(F \ {MarkOf(k, a)}) PROVE x \in Marked(F) /\ x.addr # a
  BY <1>2, MarkedAre
<1>4. ASSUME NEW x \in Marked(F), x.addr # a PROVE x \in Marked(F \ {MarkOf(k, a)})
  BY <1>2, <1>4, MarkedAre
<1> QED BY <1>1, <1>3, <1>4

-----------------------------------------------------------------------------
Ops == {"idle", "heap", "new", "whole", "low"}

MemTypeOK ==
    /\ pc \in [Threads -> [op : Ops, size : Nat, num : Nat, cnt : Nat]]
    /\ count \in [Procs -> Nat]
    /\ mem \in [HeapIds -> Seq(Tags)]

(* m may be what heap h holds. *)
HeapMayBe(h, m) == HeapOK(m) /\ Len(m) <= HeapLimit[h[2]]

HeapInv == MemTypeOK /\ \A h \in HeapIds : HeapMayBe(h, mem[h])

LEMMA AlignIsNat == \A s \in Nat : AlignSize(s) \in Nat
BY DEF AlignSize

LEMMA HeapNumbers == \A h \in HeapIds : h[2] \in 0 .. Heaps /\ HeapLimit[h[2]] \in Nat
<1>1. Heaps \in Nat
  BY UserMemoryAssumption
<1>2. \A h \in HeapIds : h[2] \in 0 .. Heaps
  BY <1>1 DEF HeapIds
<1> QED BY <1>2, LimitIsNat

LEMMA HeapInit == Init => HeapInv
<1> SUFFICES ASSUME Init PROVE HeapInv
  OBVIOUS
<1>1. EmptyHeap(0) = << >>
  BY DEF EmptyHeap
<1>2. HeapOK(<< >>) /\ << >> \in Seq(Tags) /\ Len(<< >>) = 0
  BY <1>1, EmptyIsOK DEF HeapOK
<1>6. \A h \in HeapIds : HeapMayBe(h, << >>)
  BY <1>2, HeapNumbers DEF HeapMayBe
<1>3. \A h \in HeapIds : mem[h] = << >>
  BY DEF Init
<1>4. pc \in [Threads -> [op : Ops, size : Nat, num : Nat, cnt : Nat]]
  BY DEF Init, Idle, Ops
<1>5. count \in [Procs -> Nat] /\ mem \in [HeapIds -> Seq(Tags)]
  BY <1>2 DEF Init
<1> QED BY <1>3, <1>4, <1>5, <1>6 DEF HeapInv, MemTypeOK

(* One heap changes, or, of an area that is none, none does. *)
LEMMA MemKept ==
  ASSUME HeapInv, NEW h, NEW m, mem' = [mem EXCEPT ![h] = m], h \in HeapIds => HeapMayBe(h, m)
  PROVE  mem' \in [HeapIds -> Seq(Tags)] /\ \A i \in HeapIds : HeapMayBe(i, mem'[i])
<1>1. mem \in [HeapIds -> Seq(Tags)] /\ \A i \in HeapIds : HeapMayBe(i, mem[i])
  BY DEF HeapInv, MemTypeOK
<1>2. h \in HeapIds => m \in Seq(Tags)
  BY DEF HeapMayBe, HeapOK
<1> QED BY <1>1, <1>2

LEMMA ServedKeeps ==
  ASSUME HeapInv, NEW t \in Threads, NEW h, HeapServes(t, h), UNCHANGED count
  PROVE  HeapInv'
<1> DEFINE s == AlignSize(pc[t].size)
<1>1. /\ Found(mem[h], s) # 0
      /\ mem' = [mem EXCEPT ![h] = HeapAlloc(mem[h], s)]
      /\ pc' = [pc EXCEPT ![t] = Idle]
  BY DEF HeapServes, Served
<1>2. s \in Nat
  BY AlignIsNat DEF HeapInv, MemTypeOK
<1> HIDE DEF s
<1>3. h \in HeapIds => HeapMayBe(h, HeapAlloc(mem[h], s))
  BY <1>1, <1>2, AllocKeeps DEF HeapInv, HeapMayBe, Allocated
<1>4. mem' \in [HeapIds -> Seq(Tags)] /\ \A i \in HeapIds : HeapMayBe(i, mem'[i])
  BY <1>1, <1>3, MemKept
<1>5. Idle \in [op : Ops, size : Nat, num : Nat, cnt : Nat]
  BY DEF Idle, Ops
<1>6. pc' \in [Threads -> [op : Ops, size : Nat, num : Nat, cnt : Nat]]
  BY <1>1, <1>5 DEF HeapInv, MemTypeOK
<1> QED BY <1>4, <1>6 DEF HeapInv, MemTypeOK

LEMMA HeapNext == HeapInv /\ [Next]_vars => HeapInv'
<1> SUFFICES ASSUME HeapInv, [Next]_vars PROVE HeapInv'
  OBVIOUS
<1> DEFINE Rec == [op : Ops, size : Nat, num : Nat, cnt : Nat]
<1>1. /\ pc \in [Threads -> Rec] /\ count \in [Procs -> Nat] /\ mem \in [HeapIds -> Seq(Tags)]
      /\ \A h \in HeapIds : HeapMayBe(h, mem[h])
  BY DEF HeapInv, MemTypeOK
<1>2. Idle \in Rec /\ ProcOf \in [Threads -> Procs] /\ Requests \subseteq Nat
  BY UserMemoryAssumption DEF Idle, Ops
<1>3. \A h \in HeapIds : HeapMayBe(h, EmptyHeap(HeapLimit[h[2]]))
  <2> SUFFICES ASSUME NEW h \in HeapIds PROVE HeapMayBe(h, EmptyHeap(HeapLimit[h[2]]))
    OBVIOUS
  <2>1. HeapLimit[h[2]] \in Nat
    BY HeapNumbers
  <2> HIDE DEF HeapIds
  <2> QED BY <2>1, EmptyIsOK DEF HeapMayBe
<1>4. ASSUME NEW p \in Procs, InitProcess(p) PROVE HeapInv'
  <2>1. /\ mem' = [mem EXCEPT ![<<p, 0>>] = EmptyHeap(HeapLimit[0])]
        /\ count' = [count EXCEPT ![p] = 1] /\ pc' = pc
    BY <1>4 DEF InitProcess
  <2>2. mem' \in [HeapIds -> Seq(Tags)] /\ \A i \in HeapIds : HeapMayBe(i, mem'[i])
    BY <1>3, <2>1, MemKept DEF HeapIds
  <2> QED BY <1>1, <2>1, <2>2 DEF HeapInv, MemTypeOK
<1>5. ASSUME NEW t \in Threads, SearchHeap(t) PROVE HeapInv'
  <2>1. CASE HeapServes(t, HeapOf(ProcOf[t], pc[t].num))
    BY <1>5, <2>1, ServedKeeps DEF SearchHeap
  <2>2. CASE pc' = [pc EXCEPT ![t].num = pc[t].num + 1] /\ UNCHANGED <<mem, live>>
    <3>1. pc[t].num + 1 \in Nat
      BY <1>1
    <3>2. pc' \in [Threads -> Rec]
      BY <1>1, <2>2, <3>1
    <3> QED BY <1>1, <1>5, <2>2, <3>2 DEF HeapInv, MemTypeOK, SearchHeap
  <2> QED BY <1>5, <2>1, <2>2 DEF SearchHeap
<1>6. ASSUME NEW t \in Threads, CreateHeap(t) PROVE HeapInv'
  <2> DEFINE p == ProcOf[t]
             n == count[p]
  <2>1. p \in Procs /\ n \in Nat
    BY <1>1, <1>2
  <2>2. /\ \/ /\ mem' = [mem EXCEPT ![<<p, n>>] = EmptyHeap(HeapLimit[n])]
              /\ count' = [count EXCEPT ![p] = n + 1]
           \/ mem' = mem /\ count' = count
        /\ pc' = [pc EXCEPT ![t].op = "new", ![t].num = n]
    BY <1>6 DEF CreateHeap, Counted
  <2> HIDE DEF n, p
  <2>3. pc' \in [Threads -> Rec]
    <3>1. "new" \in Ops
      BY DEF Ops
    <3> DEFINE r == [pc[t] EXCEPT !.op = "new", !.num = n]
    <3>2. pc' = [pc EXCEPT ![t] = r] /\ pc \in [Threads -> Rec]
      BY <1>1, <2>2
    <3>3. r \in Rec
      BY <2>1, <3>1, <3>2
    <3> HIDE DEF r
    <3> QED BY <3>2, <3>3
  <2>4. mem' \in [HeapIds -> Seq(Tags)] /\ \A i \in HeapIds : HeapMayBe(i, mem'[i])
    <3>1. CASE mem' = mem
      BY <3>1 DEF HeapInv, MemTypeOK
    <3>2. CASE mem' = [mem EXCEPT ![<<p, n>>] = EmptyHeap(HeapLimit[n])]
      <4> DEFINE h == <<p, n>>
                 m == EmptyHeap(HeapLimit[n])
      <4>1. h[2] = n
        OBVIOUS
      <4>2. h \in HeapIds => HeapMayBe(h, m)
        BY <1>3, <4>1
      <4>3. mem' = [mem EXCEPT ![h] = m]
        BY <3>2
      <4> HIDE DEF h, m
      <4> QED BY <4>2, <4>3, MemKept
    <3> QED BY <2>2, <3>1, <3>2
  <2>5. count' \in [Procs -> Nat]
    BY <1>1, <2>1, <2>2 DEF Ops
  <2> QED BY <2>3, <2>4, <2>5 DEF HeapInv, MemTypeOK
<1>7. ASSUME NEW t \in Threads, SearchNew(t) PROVE HeapInv'
  <2>1. CASE HeapServes(t, HeapOf(ProcOf[t], pc[t].num))
    BY <1>7, <2>1, ServedKeeps DEF SearchNew
  <2>2. CASE (Go(t, "whole") \/ Go(t, "low")) /\ UNCHANGED <<mem, live>>
    <3>0. pc \in [Threads -> Rec]
      BY <1>1
    <3>1. pc' \in [Threads -> Rec]
      <4>1. ASSUME NEW op \in Ops, Go(t, op) PROVE pc' \in [Threads -> Rec]
        BY <3>0, <4>1 DEF Go
      <4>2. "whole" \in Ops /\ "low" \in Ops
        BY DEF Ops
      <4> QED BY <2>2, <4>1, <4>2
    <3> QED BY <1>1, <1>7, <2>2, <3>1 DEF HeapInv, MemTypeOK, SearchNew
  <2> QED BY <1>7, <2>1, <2>2 DEF SearchNew
<1>8. ASSUME NEW t \in Threads, MallocWhole(t) PROVE HeapInv'
  <2>1. pc' = [pc EXCEPT ![t] = Idle] /\ UNCHANGED <<mem, count>>
    BY <1>8 DEF MallocWhole, Served
  <2>2. pc' \in [Threads -> Rec]
    BY <1>1, <1>2, <2>1
  <2> QED BY <1>1, <2>1, <2>2 DEF HeapInv, MemTypeOK
<1>9. ASSUME NEW t \in Threads, NEW s \in Requests, FastAlloc(t, s) PROVE HeapInv'
  <2>1. pc' = [pc EXCEPT ![t] = Idle] /\ UNCHANGED <<mem, count>>
    BY <1>9 DEF FastAlloc, Served
  <2>2. pc' \in [Threads -> Rec]
    BY <1>1, <1>2, <2>1
  <2> QED BY <1>1, <2>1, <2>2 DEF HeapInv, MemTypeOK
<1>10. ASSUME NEW t \in Threads, NEW s \in Requests, FastFails(t, s) PROVE HeapInv'
  <2>1. /\ pc' = [pc EXCEPT ![t] = [op |-> "heap", size |-> s, num |-> 0, cnt |-> count[ProcOf[t]]]]
        /\ UNCHANGED <<mem, count>>
    BY <1>10 DEF FastFails
  <2>2. count[ProcOf[t]] \in Nat /\ s \in Nat
    BY <1>1, <1>2
  <2>3. pc' \in [Threads -> Rec]
    BY <1>1, <2>1, <2>2 DEF Ops
  <2> QED BY <1>1, <2>1, <2>3 DEF HeapInv, MemTypeOK
<1>11. ASSUME NEW t \in Threads, NEW area \in Areas, NEW addr \in Addresses(area), Free(t, area, addr)
       PROVE  HeapInv'
  <2>1. UNCHANGED <<pc, count>>
    BY <1>11 DEF Free
  <2>2. CASE mem' = mem
    BY <1>1, <2>1, <2>2 DEF HeapInv, MemTypeOK
  <2>3. CASE mem' = [mem EXCEPT ![area] = HeapFree(mem[area], addr)]
    <3>1. area \in HeapIds => addr \in 2 .. Len(mem[area])
      BY DEF Addresses
    <3>2. area \in HeapIds => HeapMayBe(area, HeapFree(mem[area], addr))
      BY <1>1, <3>1, FreeKeeps DEF HeapMayBe
    <3>3. mem' \in [HeapIds -> Seq(Tags)] /\ \A i \in HeapIds : HeapMayBe(i, mem'[i])
      BY <2>3, <3>2, MemKept
    <3> QED BY <1>1, <2>1, <3>3 DEF HeapInv, MemTypeOK
  <2> QED BY <1>11, <2>2, <2>3 DEF Free, FastFree, WholeFree
<1>12. CASE UNCHANGED vars
  BY <1>1, <1>12 DEF HeapInv, MemTypeOK, vars
<1> QED
  BY <1>4, <1>5, <1>6, <1>7, <1>8, <1>9, <1>10, <1>11, <1>12 DEF Next

THEOREM HeapInvariant == Spec => []HeapInv
<1> QED BY HeapInit, HeapNext, PTL DEF Spec

(* For every set of processes, threads, tables and requests: the blocks of every
   heap tile it up to memory that is still zero, with the same tag at both ends,
   and no two free blocks are neighbours (__heapAlloc, __heapFree). *)
THEOREM HeapsAreTiled == Spec => []Tiled
<1>1. HeapInv => Tiled
  BY ChainTiles DEF HeapInv, HeapMayBe, HeapOK, Tiled
<1> QED BY <1>1, HeapInvariant, PTL

(* The search of a heap fails only when there is no room, or when a free block
   of size zero hides it (the break in __heapAlloc). *)
THEOREM SearchMissesNothing == Spec => []NoRoomMissed
<1>1. HeapInv => NoRoomMissed
  <2> SUFFICES ASSUME HeapInv, NEW h \in HeapIds, NEW r \in Requests,
                      Found(mem[h], AlignSize(r)) = 0,
                      NEW p \in Room(mem[h], AlignSize(r))
               PROVE  \E q \in Chain(mem[h]) : q <= p /\ ~mem[h][q].used /\ mem[h][q].size = 0
    BY DEF NoRoomMissed
  <2>1. mem[h] \in Seq(Tags) /\ \E C, E : ChainIs(mem[h], C, E)
    BY DEF HeapInv, HeapMayBe, HeapOK
  <2>2. AlignSize(r) \in Nat
    BY AlignIsNat, UserMemoryAssumption
  <2> QED BY <2>1, <2>2, RoomFound
<1> QED BY <1>1, HeapInvariant, PTL

-----------------------------------------------------------------------------
(* Every area is a store of blocks. *)

(* Where a block and its tags lie *)
Around(b) == [addr |-> b.addr - 1, size |-> b.size + 2]

LEMMA HeapBlocks ==
  ASSUME NEW h \in HeapIds
  PROVE  /\ BlocksIn(h) = {Around(b) : b \in UsedBlocks(mem[h])}
         /\ BlocksIn(h)' = {Around(b) : b \in UsedBlocks(mem'[h])}
         /\ LimitOf(h) = HeapLimit[h[2]] + 1
BY DEF BlocksIn, FastBlocks, LimitOf, Around

LEMMA UsedPlaces ==
  ASSUME NEW m, HeapOK(m)
  PROVE  /\ \A b \in UsedBlocks(m) :
               b.addr - 1 \in Nat \ {0} /\ b.size \in Nat /\ b.addr - 1 + b.size + 2 <= Len(m) + 1
         /\ \A b, d \in UsedBlocks(m) :
               b # d => \/ b.addr - 1 + b.size + 2 <= d.addr - 1
                        \/ d.addr - 1 + d.size + 2 <= b.addr - 1
<1>1. PICK C, E : m \in Seq(Tags) /\ ChainIs(m, C, E)
  BY DEF HeapOK
<1>2. UsedBlocks(m) = {[addr |-> q + 1, size |-> m[q].size] : q \in {x \in C : m[x].used}}
  BY <1>1, UsedAre
<1>3. ASSUME NEW b \in UsedBlocks(m)
      PROVE  \E q \in C : /\ b = [addr |-> q + 1, size |-> m[q].size] /\ b.addr - 1 = q /\ q \in Nat \ {0}
                          /\ b.size \in Nat /\ Behind(m, q) = q + b.size + 2
                          /\ Behind(m, q) <= Len(m) + 1
  <2>1. PICK q \in C : b = [addr |-> q + 1, size |-> m[q].size]
    BY <1>2
  <2>2. q \in Nat \ {0}
    BY <1>1, ChainPlaces
  <2>3. m[q].size \in Nat /\ Behind(m, q) = q + m[q].size + 2 /\ Behind(m, q) <= Len(m) + 1
    BY <1>1, ChainTags
  <2>4. b.addr - 1 = q
    BY <2>1, <2>2
  <2> QED BY <2>1, <2>2, <2>3, <2>4
<1>4. ASSUME NEW b \in UsedBlocks(m), NEW d \in UsedBlocks(m), b # d
      PROVE  \/ b.addr - 1 + b.size + 2 <= d.addr - 1
             \/ d.addr - 1 + d.size + 2 <= b.addr - 1
  <2>1. PICK p \in C : /\ b = [addr |-> p + 1, size |-> m[p].size] /\ b.addr - 1 = p /\ p \in Nat \ {0}
                       /\ Behind(m, p) = p + b.size + 2
    BY <1>3
  <2>2. PICK q \in C : /\ d = [addr |-> q + 1, size |-> m[q].size] /\ d.addr - 1 = q /\ q \in Nat \ {0}
                       /\ Behind(m, q) = q + d.size + 2
    BY <1>3
  <2>3. p # q
    BY <1>4, <2>1, <2>2
  <2>4. /\ p < q => Behind(m, p) <= q
        /\ q < p => Behind(m, q) <= p
    BY <1>1, ChainFacts
  <2> QED BY <2>1, <2>2, <2>3, <2>4
<1> QED BY <1>3, <1>4

LEMMA AllocStep ==
  ASSUME HeapInv, NEW h \in HeapIds, NEW s \in Nat, Found(mem[h], s) # 0,
         mem'[h] = HeapAlloc(mem[h], s)
  PROVE  AreaStep(h)
<1> DEFINE m == mem[h]
           w == mem'[h]
           p == Found(m, s)
           n == [addr |-> p + 1, size |-> s]
           new == Around(n)
<1>1. HeapOK(m) /\ Len(m) <= HeapLimit[h[2]]
  BY DEF HeapInv, HeapMayBe
<1>2. /\ HeapOK(w) /\ Len(w) = Len(m) /\ p \in Nat \ {0}
      /\ UsedBlocks(w) = UsedBlocks(m) \cup {n}
  BY <1>1, AllocKeeps DEF Allocated
<1> HIDE DEF m, w, p, n
<1>3. /\ BlocksIn(h) = {Around(b) : b \in UsedBlocks(m)}
      /\ BlocksIn(h)' = {Around(b) : b \in UsedBlocks(w)}
      /\ LimitOf(h) = HeapLimit[h[2]] + 1
  BY HeapBlocks DEF m, w
<1>4. BlocksIn(h)' = BlocksIn(h) \cup {new}
  BY <1>2, <1>3
<1>5. CASE new \in BlocksIn(h)
  <2>1. BlocksIn(h) = BlocksIn(h)'
    BY <1>4, <1>5
  <2> QED BY <2>1 DEF AreaStep
<1>6. CASE new \notin BlocksIn(h)
  <2>0. /\ \A b \in UsedBlocks(w) :
              b.addr - 1 \in Nat \ {0} /\ b.size \in Nat /\ b.addr - 1 + b.size + 2 <= Len(w) + 1
        /\ \A b, d \in UsedBlocks(w) :
              b # d => \/ b.addr - 1 + b.size + 2 <= d.addr - 1
                       \/ d.addr - 1 + d.size + 2 <= b.addr - 1
    BY <1>2, UsedPlaces
  <2>1. Store(h)!Fits(new)
    <3>1. /\ new.addr = n.addr - 1 /\ new.size = n.size + 2 /\ n \in UsedBlocks(w)
          /\ n.addr - 1 \in Nat \ {0} /\ n.size \in Nat /\ n.addr - 1 + n.size + 2 <= Len(w) + 1
      BY <1>2, <2>0 DEF Around
    <3>2. Len(w) \in Nat /\ HeapLimit[h[2]] \in Nat
      BY <1>2, HeapNumbers, TagFacts DEF HeapOK
    <3> HIDE DEF new
    <3>3. 0 < new.addr /\ new.addr + new.size <= HeapLimit[h[2]] + 1
      <4>1. \A x, y, l, k \in Nat : x + y + 2 <= l + 1 /\ l <= k => x + (y + 2) <= k + 1
        OBVIOUS
      <4>2. Len(w) <= HeapLimit[h[2]] /\ n.addr - 1 \in Nat
        BY <1>1, <1>2, <3>1
      <4>3. n.addr - 1 + (n.size + 2) <= HeapLimit[h[2]] + 1
        BY <3>1, <3>2, <4>1, <4>2
      <4>4. 0 < n.addr - 1
        <5>1. \A x \in Nat \ {0} : 0 < x
          OBVIOUS
        <5> QED BY <3>1, <5>1
      <4>5. new.addr = n.addr - 1 /\ new.size = n.size + 2
        BY <3>1
      <4> QED BY <4>3, <4>4, <4>5, Zenon
    <3> QED BY <1>3, <3>3 DEF Store!Fits
  <2>2. ASSUME NEW d \in BlocksIn(h) PROVE Store(h)!Apart(new, d)
    <3>1. PICK b \in UsedBlocks(m) : d = Around(b)
      BY <1>3
    <3>2. b # n /\ b \in UsedBlocks(w) /\ n \in UsedBlocks(w)
      BY <1>2, <1>6, <3>1
    <3>3. \/ n.addr - 1 + n.size + 2 <= b.addr - 1
          \/ b.addr - 1 + b.size + 2 <= n.addr - 1
      BY <2>0, <3>2
    <3>4. /\ new.addr = n.addr - 1 /\ new.size = n.size + 2
          /\ d.addr = b.addr - 1 /\ d.size = b.size + 2
      BY <3>1 DEF Around
    <3>5. n.addr - 1 \in Nat /\ n.size \in Nat /\ b.addr - 1 \in Nat /\ b.size \in Nat
      BY <2>0, <3>2
    <3> HIDE DEF new
    <3>6. new.addr + new.size <= d.addr \/ d.addr + d.size <= new.addr
      BY <3>3, <3>4, <3>5
    <3> QED BY <3>6 DEF Store!Apart
  <2>3. new \in BlocksIn(h)' \ BlocksIn(h)
    BY <1>4, <1>6
  <2> HIDE DEF new
  <2>4. Store(h)!Take(new)
    BY <1>4, <2>1, <2>2 DEF Store!Take
  <2> QED BY <2>3, <2>4 DEF AreaStep
<1> QED BY <1>5, <1>6

(* Blocks are only given back. *)
LEMMA LessStep ==
  ASSUME NEW area, BlocksIn(area)' \subseteq BlocksIn(area)
  PROVE  AreaStep(area)
<1>1. BlocksIn(area)' = BlocksIn(area) \ (BlocksIn(area) \ BlocksIn(area)')
  OBVIOUS
<1>2. Store(area)!Give(BlocksIn(area) \ BlocksIn(area)')
  BY <1>1 DEF Store!Give
<1> QED BY <1>2 DEF AreaStep

LEMMA SameStep ==
  ASSUME NEW area, BlocksIn(area)' = BlocksIn(area)
  PROVE  AreaStep(area)
BY DEF AreaStep

OtherAreas == Areas \ HeapIds

LEMMA OtherAreasAre ==
  ASSUME NEW area \in OtherAreas
  PROVE  /\ \/ \E p \in Procs : area = FastHeap(p) /\ area[1] = p /\ area[1] # None
            \/ \E k \in 1 .. Wholes : area = Physical(k) /\ area[1] = None /\ area[2] = k
         /\ LimitOf(area) = IF area[1] # None THEN ClassBase[Len(Classes) + 1] ELSE Page + 1
         /\ BlocksIn(area) = IF area[1] # None THEN Marked(fast[area[1]])
                             ELSE IF whole[area[2]] = None THEN {} ELSE {[addr |-> 1, size |-> Page]}
         /\ BlocksIn(area)' = IF area[1] # None THEN Marked(fast'[area[1]])
                              ELSE IF whole'[area[2]] = None THEN {} ELSE {[addr |-> 1, size |-> Page]}
<1>1. area \notin HeapIds
  BY DEF OtherAreas
<1>2. \/ \E p \in Procs : area = FastHeap(p)
      \/ \E k \in 1 .. Wholes : area = Physical(k)
  BY DEF OtherAreas, Areas
<1>3. \A p \in Procs : FastHeap(p)[1] = p /\ p # None
  BY UserMemoryAssumption DEF FastHeap
<1>4. \A k \in 1 .. Wholes : Physical(k)[1] = None /\ Physical(k)[2] = k
  BY DEF Physical
<1>5. LimitOf(area) = IF area[1] # None THEN ClassBase[Len(Classes) + 1] ELSE Page + 1
  BY <1>1 DEF LimitOf
<1>6. BlocksIn(area) = IF area[1] # None THEN Marked(fast[area[1]])
                       ELSE IF whole[area[2]] = None THEN {} ELSE {[addr |-> 1, size |-> Page]}
  BY <1>1 DEF BlocksIn, FastBlocks, Marked
<1>7. BlocksIn(area)' = IF area[1] # None THEN Marked(fast'[area[1]])
                        ELSE IF whole'[area[2]] = None THEN {} ELSE {[addr |-> 1, size |-> Page]}
  BY <1>1 DEF BlocksIn, FastBlocks, Marked
<1> QED BY <1>2, <1>3, <1>4, <1>5, <1>6, <1>7

AreaTypes == fast \in [Procs -> SUBSET Int] /\ whole \in [1 .. Wholes -> Procs \cup {None}]

LEMMA AreaTypesInit == Init => AreaTypes
BY DEF Init, AreaTypes

(* What the operations do to the fast heaps and the blocks of physical memory *)
LEMMA OtherSteps ==
  ASSUME AreaTypes, Next
  PROVE  \/ UNCHANGED <<fast, whole>>
         \/ /\ UNCHANGED whole
            /\ \E p \in Procs : \E k \in DOMAIN Classes : \E a \in ClassBlocks(k) :
                  fast' = [fast EXCEPT ![p] = fast[p] \cup {MarkOf(k, a)}]
         \/ /\ UNCHANGED whole
            /\ \E p \in Procs : \E k \in DOMAIN Classes : \E a \in ClassBlocks(k) :
                  fast' = [fast EXCEPT ![p] = fast[p] \ {MarkOf(ClassOf(a), a)}]
         \/ UNCHANGED fast /\ \E k \in 1 .. Wholes, x \in Procs \cup {None} :
               whole' = [whole EXCEPT ![k] = x]
<1>0. ProcOf \in [Threads -> Procs] /\ None \notin Procs
  BY UserMemoryAssumption
<1>1. ASSUME NEW p \in Procs, InitProcess(p) PROVE UNCHANGED <<fast, whole>>
  BY <1>1 DEF InitProcess
<1>2. ASSUME NEW t \in Threads, SearchHeap(t) \/ CreateHeap(t) \/ SearchNew(t)
      PROVE  UNCHANGED <<fast, whole>>
  BY <1>2 DEF SearchHeap, CreateHeap, SearchNew
<1>3. ASSUME NEW t \in Threads, MallocWhole(t)
      PROVE  /\ UNCHANGED fast
             /\ \/ UNCHANGED whole
                \/ \E k \in 1 .. Wholes, x \in Procs \cup {None} : whole' = [whole EXCEPT ![k] = x]
  BY <1>0, <1>3 DEF MallocWhole
<1>4. ASSUME NEW t \in Threads, NEW s \in Requests, FastAlloc(t, s)
      PROVE  /\ UNCHANGED whole
             /\ \E p \in Procs : \E k \in DOMAIN Classes : \E a \in ClassBlocks(k) :
                   fast' = [fast EXCEPT ![p] = fast[p] \cup {MarkOf(k, a)}]
  BY <1>0, <1>4 DEF FastAlloc, FreeFast
<1>5. ASSUME NEW t \in Threads, NEW s \in Requests, FastFails(t, s) PROVE UNCHANGED <<fast, whole>>
  BY <1>5 DEF FastFails
<1>6. ASSUME NEW t \in Threads, NEW area \in Areas, NEW addr \in Addresses(area), Free(t, area, addr)
      PROVE  \/ UNCHANGED <<fast, whole>>
             \/ /\ UNCHANGED whole
                /\ \E p \in Procs : \E k \in DOMAIN Classes : \E a \in ClassBlocks(k) :
                      fast' = [fast EXCEPT ![p] = fast[p] \ {MarkOf(ClassOf(a), a)}]
             \/ UNCHANGED fast /\ \E k \in 1 .. Wholes, x \in Procs \cup {None} :
                   whole' = [whole EXCEPT ![k] = x]
  <2> DEFINE p == ProcOf[t]
  <2>1. p \in Procs
    BY <1>0
  <2>2. CASE area = FastHeap(p) /\ FastFree(p, addr)
    <3>1. area \notin HeapIds /\ area[1] = p
      BY <2>1, <2>2, UserMemoryAssumption DEF FastHeap, HeapIds
    <3>2. \E k \in DOMAIN Classes : addr \in ClassBlocks(k)
      BY <1>0, <2>1, <3>1 DEF Addresses
    <3> QED BY <2>1, <2>2, <3>2 DEF FastFree
  <2>3. CASE UNCHANGED <<fast, whole>>
    BY <2>3
  <2>4. CASE area[1] = None /\ WholeFree(area)
    <3>1. \E k \in 1 .. Wholes : area = Physical(k)
      BY <1>0, <2>4 DEF Areas, HeapIds, FastHeap
    <3>2. PICK k \in 1 .. Wholes : area[2] = k
      BY <3>1 DEF Physical
    <3>3. whole' = [whole EXCEPT ![k] = None] /\ UNCHANGED fast
      BY <2>4, <3>2 DEF WholeFree
    <3> QED BY <3>3
  <2> QED BY <1>6, <2>2, <2>3, <2>4 DEF Free
<1> QED BY <1>1, <1>2, <1>3, <1>4, <1>5, <1>6 DEF Next

LEMMA AreaTypesNext == AreaTypes /\ [Next]_vars => AreaTypes'
<1> SUFFICES ASSUME AreaTypes, [Next]_vars PROVE AreaTypes'
  OBVIOUS
<1>1. CASE Next
  <2>1. ASSUME NEW k \in DOMAIN Classes, NEW a \in ClassBlocks(k) PROVE MarkOf(k, a) \in Int
    BY BlockPlaces DEF MarkOf
  <2>2. CASE UNCHANGED <<fast, whole>>
    BY <2>2 DEF AreaTypes
  <2>3. CASE /\ UNCHANGED whole
             /\ \E p \in Procs : \E k \in DOMAIN Classes : \E a \in ClassBlocks(k) :
                   fast' = [fast EXCEPT ![p] = fast[p] \cup {MarkOf(k, a)}]
    BY <2>1, <2>3 DEF AreaTypes
  <2>4. CASE /\ UNCHANGED whole
             /\ \E p \in Procs : \E k \in DOMAIN Classes : \E a \in ClassBlocks(k) :
                   fast' = [fast EXCEPT ![p] = fast[p] \ {MarkOf(ClassOf(a), a)}]
    BY <2>4 DEF AreaTypes
  <2>5. CASE UNCHANGED fast /\ \E k \in 1 .. Wholes, x \in Procs \cup {None} :
                whole' = [whole EXCEPT ![k] = x]
    BY <2>5 DEF AreaTypes
  <2> QED BY <1>1, <2>2, <2>3, <2>4, <2>5, OtherSteps
<1>2. CASE UNCHANGED vars
  BY <1>2 DEF AreaTypes, vars
<1> QED BY <1>1, <1>2

LEMMA OneMoreStep ==
  ASSUME NEW area, NEW new, BlocksIn(area)' = BlocksIn(area) \cup {new},
         Store(area)!Fits(new), \A d \in BlocksIn(area) : d # new => Store(area)!Apart(new, d)
  PROVE  AreaStep(area)
<1>1. CASE new \in BlocksIn(area)
  <2>1. BlocksIn(area)' = BlocksIn(area)
    BY <1>1
  <2> QED BY <2>1, SameStep
<1>2. CASE new \notin BlocksIn(area)
  <2>1. Store(area)!Take(new)
    BY <1>2 DEF Store!Take
  <2>2. new \in BlocksIn(area)' \ BlocksIn(area)
    BY <1>2
  <2> QED BY <2>1, <2>2 DEF AreaStep
<1> QED BY <1>1, <1>2

LEMMA MarkStep ==
  ASSUME AreaTypes, NEW area \in OtherAreas, UNCHANGED whole,
         NEW p \in Procs, NEW k \in DOMAIN Classes, NEW a \in ClassBlocks(k),
         fast' = [fast EXCEPT ![p] = fast[p] \cup {MarkOf(k, a)}]
  PROVE  AreaStep(area)
<1> DEFINE new == [addr |-> a, size |-> Classes[k].size]
<1>1. fast'[p] = fast[p] \cup {MarkOf(k, a)} /\ \A q \in Procs : q # p => fast'[q] = fast[q]
  BY DEF AreaTypes
<1>2. CASE area = FastHeap(p) /\ area[1] = p /\ area[1] # None
  <2>1. /\ BlocksIn(area) = Marked(fast[p]) /\ BlocksIn(area)' = Marked(fast'[p])
        /\ LimitOf(area) = ClassBase[Len(Classes) + 1]
    BY <1>2, OtherAreasAre
  <2>2. BlocksIn(area)' = BlocksIn(area) \cup {new}
    BY <1>1, <2>1, MarkGained
  <2>3. /\ a \in Nat /\ 1 <= a /\ a + Classes[k].size <= ClassBase[k + 1]
        /\ Classes[k].size \in Nat
    BY BlockPlaces
  <2>4. Store(area)!Fits(new)
    <3>1. Len(Classes) \in Nat /\ k \in 1 .. Len(Classes)
      BY ClassFacts
    <3>2. k + 1 \in 1 .. Len(Classes) + 1 /\ Len(Classes) + 1 \in 1 .. Len(Classes) + 1 /\ k < Len(Classes) + 1
      BY <3>1
    <3>3. ClassBase[k + 1] \in Nat /\ ClassBase[Len(Classes) + 1] \in Nat
      BY <3>2, ClassFacts
    <3>4. ClassBase[k + 1] <= ClassBase[Len(Classes) + 1]
      BY <3>2, ClassesRise
    <3>5. 0 < a /\ a + Classes[k].size <= ClassBase[Len(Classes) + 1]
      BY <2>3, <3>3, <3>4
    <3> QED BY <2>1, <3>5 DEF Store!Fits
  <2>5. ASSUME NEW d \in BlocksIn(area), d # new PROVE Store(area)!Apart(new, d)
    <3>1. PICK j \in DOMAIN Classes : \E b \in ClassBlocks(j) :
             d = [addr |-> b, size |-> Classes[j].size]
      BY <2>1, MarkedAre
    <3>2. PICK b \in ClassBlocks(j) : d = [addr |-> b, size |-> Classes[j].size]
      BY <3>1
    <3>3. k # j \/ a # b
      BY <2>5, <3>2
    <3>4. a + Classes[k].size <= b \/ b + Classes[j].size <= a
      BY <3>3, ClassBlocksApart
    <3> QED BY <3>2, <3>4 DEF Store!Apart
  <2> HIDE DEF new
  <2> QED BY <2>2, <2>4, <2>5, OneMoreStep
<1>3. CASE ~(area = FastHeap(p) /\ area[1] = p /\ area[1] # None)
  <2>1. CASE area[1] = None
    <3>1. BlocksIn(area)' = BlocksIn(area)
      BY <2>1, OtherAreasAre
    <3> QED BY <3>1, SameStep
  <2>2. CASE area[1] # None
    <3>1. PICK q \in Procs : area = FastHeap(q) /\ area[1] = q
      BY <2>2, OtherAreasAre
    <3>2. q # p
      BY <1>3, <2>2, <3>1
    <3>3. fast'[area[1]] = fast[area[1]]
      BY <1>1, <3>1, <3>2
    <3>4. BlocksIn(area)' = BlocksIn(area)
      BY <2>2, <3>3, OtherAreasAre
    <3> QED BY <3>4, SameStep
  <2> QED BY <2>1, <2>2
<1> QED BY <1>2, <1>3

LEMMA UnmarkStep ==
  ASSUME AreaTypes, NEW area \in OtherAreas, UNCHANGED whole,
         NEW p \in Procs, NEW k \in DOMAIN Classes, NEW a \in ClassBlocks(k),
         fast' = [fast EXCEPT ![p] = fast[p] \ {MarkOf(ClassOf(a), a)}]
  PROVE  AreaStep(area)
<1>1. \A q \in Procs : Marked(fast'[q]) \subseteq Marked(fast[q])
  <2>1. fast'[p] = fast[p] \ {MarkOf(ClassOf(a), a)} /\ \A q \in Procs : q # p => fast'[q] = fast[q]
    BY DEF AreaTypes
  <2>2. Marked(fast'[p]) \subseteq Marked(fast[p])
    <3> DEFINE F == fast[p]
    <3> HIDE DEF F
    <3>1. Marked(F \ {MarkOf(ClassOf(a), a)}) = {x \in Marked(F) : x.addr # a}
      BY MarkLost
    <3>2. Marked(F \ {MarkOf(ClassOf(a), a)}) \subseteq Marked(F)
      BY <3>1
    <3> QED BY <2>1, <3>2 DEF F
  <2> QED BY <2>1, <2>2
<1>2. BlocksIn(area)' \subseteq BlocksIn(area)
  <2>1. CASE area[1] = None
    BY <2>1, OtherAreasAre
  <2>2. CASE area[1] # None
    <3>1. area[1] \in Procs
      BY <2>2, OtherAreasAre
    <3>2. Marked(fast'[area[1]]) \subseteq Marked(fast[area[1]])
      BY <1>1, <3>1
    <3> QED BY <2>2, <3>2, OtherAreasAre
  <2> QED BY <2>1, <2>2
<1> QED BY <1>2, LessStep

LEMMA WholeStep ==
  ASSUME AreaTypes, NEW area \in OtherAreas, UNCHANGED fast,
         NEW k \in 1 .. Wholes, NEW x \in Procs \cup {None}, whole' = [whole EXCEPT ![k] = x]
  PROVE  AreaStep(area)
<1> DEFINE page == [addr |-> 1, size |-> Page]
<1>1. CASE area = Physical(k) /\ area[1] = None /\ area[2] = k
  <2>1. whole'[k] = x
    BY DEF AreaTypes
  <2>2. /\ BlocksIn(area) = IF whole[k] = None THEN {} ELSE {page}
        /\ BlocksIn(area)' = IF x = None THEN {} ELSE {page}
        /\ LimitOf(area) = Page + 1
    BY <1>1, <2>1, OtherAreasAre
  <2>3. CASE x = None
    <3>1. BlocksIn(area)' \subseteq BlocksIn(area)
      BY <2>2, <2>3
    <3> QED BY <3>1, LessStep
  <2>4. CASE x # None
    <3>1. BlocksIn(area)' = BlocksIn(area) \cup {page} /\ BlocksIn(area) \subseteq {page}
      BY <2>2, <2>4
    <3>2. Store(area)!Fits(page)
      <4>1. 0 < 1 /\ 1 + Page <= Page + 1
        BY UserMemoryAssumption
      <4> QED BY <2>2, <4>1 DEF Store!Fits
    <3> HIDE DEF page
    <3> QED BY <3>1, <3>2, OneMoreStep
  <2> QED BY <2>3, <2>4
<1>2. CASE ~(area = Physical(k) /\ area[1] = None /\ area[2] = k)
  <2>1. \A j \in 1 .. Wholes : j # k => whole'[j] = whole[j]
    BY DEF AreaTypes
  <2>2. BlocksIn(area)' = BlocksIn(area)
    BY <1>2, <2>1, OtherAreasAre
  <2> QED BY <2>2, SameStep
<1> QED BY <1>1, <1>2

LEMMA OtherAreaSteps ==
  ASSUME AreaTypes, Next
  PROVE  UNCHANGED <<fast, whole>> \/ \A area \in Areas \ HeapIds : AreaStep(area)
<1> SUFFICES ASSUME ~UNCHANGED <<fast, whole>>, NEW area \in OtherAreas PROVE AreaStep(area)
  BY DEF OtherAreas
<1> QED BY OtherSteps, MarkStep, UnmarkStep, WholeStep

(* What the operations do to the heaps *)
LEMMA HeapSteps ==
  ASSUME HeapInv, Next
  PROVE  \/ mem' = mem
         \/ \E h \in HeapIds : mem' = [mem EXCEPT ![h] = EmptyHeap(HeapLimit[h[2]])]
         \/ \E h : \E s \in Nat : /\ Found(mem[h], s) # 0
                                  /\ mem' = [mem EXCEPT ![h] = HeapAlloc(mem[h], s)]
         \/ \E h : \E addr \in 2 .. Len(mem[h]) : mem' = [mem EXCEPT ![h] = HeapFree(mem[h], addr)]
<1>0. /\ \A t \in Threads : AlignSize(pc[t].size) \in Nat
      /\ \A t \in Threads : ProcOf[t] \in Procs
      /\ \A p \in Procs : count[p] \in Nat
      /\ Heaps \in Nat \ {0}
  BY AlignIsNat, UserMemoryAssumption DEF HeapInv, MemTypeOK
<1>1. ASSUME NEW p \in Procs, InitProcess(p)
      PROVE  \E h \in HeapIds : mem' = [mem EXCEPT ![h] = EmptyHeap(HeapLimit[h[2]])]
  <2>1. <<p, 0>> \in HeapIds /\ <<p, 0>>[2] = 0
    BY <1>0 DEF HeapIds
  <2>2. mem' = [mem EXCEPT ![<<p, 0>>] = EmptyHeap(HeapLimit[0])]
    BY <1>1 DEF InitProcess
  <2> QED BY <2>1, <2>2
<1>2. ASSUME NEW t \in Threads, NEW h, HeapServes(t, h)
      PROVE  \E s \in Nat : Found(mem[h], s) # 0 /\ mem' = [mem EXCEPT ![h] = HeapAlloc(mem[h], s)]
  BY <1>0, <1>2 DEF HeapServes
<1>3. ASSUME NEW t \in Threads, CreateHeap(t)
      PROVE  \/ mem' = mem
             \/ \E h \in HeapIds : mem' = [mem EXCEPT ![h] = EmptyHeap(HeapLimit[h[2]])]
  <2> DEFINE p == ProcOf[t]
             n == count[p]
  <2>1. p \in Procs /\ n \in Nat
    BY <1>0
  <2>2. mem' = mem \/ (n < Heaps /\ mem' = [mem EXCEPT ![<<p, n>>] = EmptyHeap(HeapLimit[n])])
    BY <1>3 DEF CreateHeap, Counted
  <2> HIDE DEF n, p
  <2>3. n < Heaps => <<p, n>> \in HeapIds /\ <<p, n>>[2] = n
    BY <1>0, <2>1 DEF HeapIds
  <2> QED BY <2>2, <2>3
<1>4. ASSUME NEW t \in Threads, SearchHeap(t) \/ SearchNew(t)
      PROVE  mem' = mem \/ \E h : HeapServes(t, h)
  BY <1>4 DEF SearchHeap, SearchNew
<1>5. ASSUME NEW t \in Threads, NEW s \in Requests, MallocWhole(t) \/ FastAlloc(t, s) \/ FastFails(t, s)
      PROVE  mem' = mem
  BY <1>5 DEF MallocWhole, FastAlloc, FastFails
<1>5a. ASSUME NEW t \in Threads, MallocWhole(t) PROVE mem' = mem
  BY <1>5a DEF MallocWhole
<1>6. ASSUME NEW t \in Threads, NEW area \in Areas, NEW addr \in Addresses(area), Free(t, area, addr)
      PROVE  \/ mem' = mem
             \/ /\ area \in HeapIds => addr \in 2 .. Len(mem[area])
                /\ mem' = [mem EXCEPT ![area] = HeapFree(mem[area], addr)]
  BY <1>6 DEF Free, FastFree, WholeFree, Addresses
<1>7. ASSUME NEW h, NEW m, h \notin HeapIds, mem' = [mem EXCEPT ![h] = m] PROVE mem' = mem
  BY <1>7 DEF HeapInv, MemTypeOK
<1>8. CASE \E t \in Threads, area \in Areas : \E addr \in Addresses(area) : Free(t, area, addr)
  BY <1>6, <1>7, <1>8
<1> QED BY <1>1, <1>2, <1>3, <1>4, <1>5, <1>5a, <1>8 DEF Next

LEMMA HeapAreaSteps ==
  ASSUME HeapInv, Next, NEW h \in HeapIds
  PROVE  mem'[h] = mem[h] \/ AreaStep(h)
<1>1. mem \in [HeapIds -> Seq(Tags)] /\ HeapOK(mem[h]) /\ HeapLimit[h[2]] \in Nat
  BY HeapNumbers DEF HeapInv, MemTypeOK, HeapMayBe
<1>2. CASE mem'[h] = mem[h]
  BY <1>2
<1>3. CASE mem'[h] = EmptyHeap(HeapLimit[h[2]])
  <2>1. UsedBlocks(mem'[h]) = {}
    BY <1>1, <1>3, EmptyIsOK
  <2>2. BlocksIn(h)' = {}
    BY <2>1, HeapBlocks
  <2> QED BY <2>2, LessStep
<1>4. CASE \E s \in Nat : Found(mem[h], s) # 0 /\ mem'[h] = HeapAlloc(mem[h], s)
  BY <1>4, AllocStep
<1>5. CASE \E addr \in 2 .. Len(mem[h]) : mem'[h] = HeapFree(mem[h], addr)
  <2>1. UsedBlocks(mem'[h]) \subseteq UsedBlocks(mem[h])
    BY <1>1, <1>5, FreeKeeps
  <2>2. BlocksIn(h)' \subseteq BlocksIn(h)
    BY <2>1, HeapBlocks
  <2> QED BY <2>2, LessStep
<1>6. ASSUME NEW i, NEW m, mem' = [mem EXCEPT ![i] = m] PROVE mem'[h] = mem[h] \/ (i = h /\ mem'[h] = m)
  BY <1>1, <1>6
<1> QED BY <1>2, <1>3, <1>4, <1>5, <1>6, HeapSteps

(* For every set of processes, threads, tables, classes and requests: each heap,
   fast heap and block of physical memory hands out and takes back blocks as a
   store of blocks does (__malloc, __free). *)
THEOREM AreasStayStores == Spec => AreasAreStores
<1>1. HeapInv /\ AreaTypes /\ [Next]_vars =>
         [/\ \A h \in HeapIds : mem'[h] = mem[h] \/ AreaStep(h)
          /\ UNCHANGED <<fast, whole>> \/ \A area \in Areas \ HeapIds : AreaStep(area)]_vars
  BY HeapAreaSteps, OtherAreaSteps
<1>2. Spec => []AreaTypes
  BY AreaTypesInit, AreaTypesNext, PTL DEF Spec
<1> QED BY <1>1, <1>2, HeapInvariant, PTL DEF Spec, AreasAreStores

-----------------------------------------------------------------------------
(* Used, as what it is computed from: the marks of the fast heap, the number of
   heaps with the used blocks of each, and the blocks of physical memory *)
UsedWith(p, F, n, U, W) ==
    Located(FastHeap(p), Marked(F))
    \cup (UNION {Located(<<p, i>>, U[i]) : i \in 0 .. n - 1})
    \cup {[area |-> Physical(k), addr |-> 1, size |-> Page] : k \in W}

Without(S, area, addr) == {b \in S : b.area # area \/ b.addr # addr}

LEMMA UsedWithIs ==
  \A p, F, n, U, W, x :
     x \in UsedWith(p, F, n, U, W) <=>
        \/ \E b \in Marked(F) : x = [area |-> FastHeap(p), addr |-> b.addr, size |-> b.size]
        \/ \E i \in 0 .. n - 1 : \E b \in U[i] :
              x = [area |-> <<p, i>>, addr |-> b.addr, size |-> b.size]
        \/ \E k \in W : x = [area |-> Physical(k), addr |-> 1, size |-> Page]
<1> SUFFICES ASSUME NEW p, NEW F, NEW n, NEW U, NEW W, NEW x
             PROVE  x \in UsedWith(p, F, n, U, W) <=>
                \/ \E b \in Marked(F) : x = [area |-> FastHeap(p), addr |-> b.addr, size |-> b.size]
                \/ \E i \in 0 .. n - 1 : \E b \in U[i] :
                      x = [area |-> <<p, i>>, addr |-> b.addr, size |-> b.size]
                \/ \E k \in W : x = [area |-> Physical(k), addr |-> 1, size |-> Page]
  OBVIOUS
<1> DEFINE B == UNION {Located(<<p, i>>, U[i]) : i \in 0 .. n - 1}
           C == {[area |-> Physical(k), addr |-> 1, size |-> Page] : k \in W}
<1>1. x \in Located(FastHeap(p), Marked(F)) <=>
         \E b \in Marked(F) : x = [area |-> FastHeap(p), addr |-> b.addr, size |-> b.size]
  BY DEF Located
<1>2. x \in B <=> \E i \in 0 .. n - 1 : x \in Located(<<p, i>>, U[i])
  OBVIOUS
<1>3. \A i : x \in Located(<<p, i>>, U[i]) <=>
                \E b \in U[i] : x = [area |-> <<p, i>>, addr |-> b.addr, size |-> b.size]
  BY DEF Located
<1>4. x \in C <=> \E k \in W : x = [area |-> Physical(k), addr |-> 1, size |-> Page]
  OBVIOUS
<1>5. UsedWith(p, F, n, U, W) = Located(FastHeap(p), Marked(F)) \cup B \cup C
  BY DEF UsedWith
<1> HIDE DEF B, C
<1> QED BY <1>1, <1>2, <1>3, <1>4, <1>5

LEMMA AreasDiffer ==
  ASSUME NEW p \in Procs
  PROVE  /\ \A i \in Nat : FastHeap(p) # <<p, i>>
         /\ \A k : FastHeap(p) # Physical(k) /\ \A i : <<p, i>> # Physical(k)
BY UserMemoryAssumption DEF FastHeap, Physical

LEMMA MarkedGained ==
  ASSUME NEW p, NEW F, NEW G, NEW n, NEW U, NEW W, NEW new, Marked(G) = Marked(F) \cup {new}
  PROVE  UsedWith(p, G, n, U, W) =
            UsedWith(p, F, n, U, W) \cup {[area |-> FastHeap(p), addr |-> new.addr, size |-> new.size]}
<1> DEFINE L == UsedWith(p, G, n, U, W)
           R == UsedWith(p, F, n, U, W) \cup {[area |-> FastHeap(p), addr |-> new.addr, size |-> new.size]}
<1>1. ASSUME NEW x PROVE x \in L <=> x \in R
  BY UsedWithIs
<1> QED BY <1>1

LEMMA MarkedLost ==
  ASSUME NEW p \in Procs, NEW F, NEW G, NEW n \in Nat, NEW U, NEW W, NEW a,
         Marked(G) = {b \in Marked(F) : b.addr # a}
  PROVE  UsedWith(p, G, n, U, W) = Without(UsedWith(p, F, n, U, W), FastHeap(p), a)
<1> DEFINE L == UsedWith(p, G, n, U, W)
           R == Without(UsedWith(p, F, n, U, W), FastHeap(p), a)
<1>1. \A i \in 0 .. n - 1 : FastHeap(p) # <<p, i>>
  BY AreasDiffer
<1>2. \A k : FastHeap(p) # Physical(k)
  BY AreasDiffer
<1>3. ASSUME NEW x PROVE x \in L <=> x \in R
  BY <1>1, <1>2, UsedWithIs DEF Without
<1> QED BY <1>3

(* Heap i has other blocks, the heaps before n else the same. *)
Changed(U, V, n, i, S) == \A j \in 0 .. n - 1 : V[j] = IF j = i THEN S ELSE U[j]

LEMMA BlocksGained ==
  ASSUME NEW p, NEW F, NEW n \in Nat, NEW U, NEW V, NEW W, NEW i \in 0 .. n - 1, NEW new,
         NEW S, S = U[i] \cup {new}, Changed(U, V, n, i, S)
  PROVE  UsedWith(p, F, n, V, W) =
            UsedWith(p, F, n, U, W) \cup {[area |-> <<p, i>>, addr |-> new.addr, size |-> new.size]}
<1> DEFINE L == UsedWith(p, F, n, V, W)
           R == UsedWith(p, F, n, U, W) \cup {[area |-> <<p, i>>, addr |-> new.addr, size |-> new.size]}
<1>1. ASSUME NEW x PROVE x \in L <=> x \in R
  BY UsedWithIs DEF Changed
<1> QED BY <1>1

LEMMA BlocksLost ==
  ASSUME NEW p \in Procs, NEW F, NEW n \in Nat, NEW U, NEW V, NEW W, NEW i \in 0 .. n - 1, NEW a,
         NEW S, S = {b \in U[i] : b.addr # a}, Changed(U, V, n, i, S)
  PROVE  UsedWith(p, F, n, V, W) = Without(UsedWith(p, F, n, U, W), <<p, i>>, a)
<1> DEFINE L == UsedWith(p, F, n, V, W)
           R == Without(UsedWith(p, F, n, U, W), <<p, i>>, a)
<1>1. FastHeap(p) # <<p, i>>
  BY AreasDiffer
<1>2. \A k : <<p, i>> # Physical(k)
  BY AreasDiffer
<1>3. \A j : <<p, j>> = <<p, i>> => j = i
  OBVIOUS
<1>4. ASSUME NEW x \in L PROVE x \in R
  <2>1. CASE \E j \in 0 .. n - 1 : \E b \in V[j] :
                x = [area |-> <<p, j>>, addr |-> b.addr, size |-> b.size]
    <3>1. PICK j \in 0 .. n - 1 : \E b \in V[j] :
                x = [area |-> <<p, j>>, addr |-> b.addr, size |-> b.size]
      BY <2>1
    <3>2. PICK b \in V[j] : x = [area |-> <<p, j>>, addr |-> b.addr, size |-> b.size]
      BY <3>1
    <3>3. b \in U[j] /\ (j = i => b.addr # a)
      BY <3>2 DEF Changed
    <3>4. x.area = <<p, j>> /\ x.addr = b.addr
      BY <3>2
    <3>5. x \in UsedWith(p, F, n, U, W)
      BY <3>2, <3>3, UsedWithIs
    <3>6. x.area # <<p, i>> \/ x.addr # a
      BY <1>3, <3>3, <3>4
    <3> QED BY <3>5, <3>6 DEF Without
  <2>2. CASE \E b \in Marked(F) : x = [area |-> FastHeap(p), addr |-> b.addr, size |-> b.size]
    <3>1. x \in UsedWith(p, F, n, U, W) /\ x.area = FastHeap(p)
      BY <2>2, UsedWithIs
    <3> QED BY <1>1, <3>1 DEF Without
  <2>3. CASE \E k \in W : x = [area |-> Physical(k), addr |-> 1, size |-> Page]
    <3>1. x \in UsedWith(p, F, n, U, W) /\ \E k : x.area = Physical(k)
      BY <2>3, UsedWithIs
    <3> QED BY <1>2, <3>1 DEF Without
  <2> QED BY <2>1, <2>2, <2>3, UsedWithIs
<1>5. ASSUME NEW x \in R PROVE x \in L
  <2>0. x \in UsedWith(p, F, n, U, W) /\ (x.area # <<p, i>> \/ x.addr # a)
    BY DEF Without
  <2>1. CASE \E j \in 0 .. n - 1 : \E b \in U[j] :
                x = [area |-> <<p, j>>, addr |-> b.addr, size |-> b.size]
    <3>1. PICK j \in 0 .. n - 1 : \E b \in U[j] :
                x = [area |-> <<p, j>>, addr |-> b.addr, size |-> b.size]
      BY <2>1
    <3>2. PICK b \in U[j] : x = [area |-> <<p, j>>, addr |-> b.addr, size |-> b.size]
      BY <3>1
    <3>3. x.area = <<p, j>> /\ x.addr = b.addr
      BY <3>2
    <3>4. b \in V[j]
      BY <2>0, <3>2, <3>3 DEF Changed
    <3> QED BY <3>2, <3>4, UsedWithIs
  <2> QED BY <2>0, <2>1, UsedWithIs
<1> QED BY <1>4, <1>5

LEMMA WholeGained ==
  ASSUME NEW p, NEW F, NEW n, NEW U, NEW W, NEW k
  PROVE  UsedWith(p, F, n, U, W \cup {k}) =
            UsedWith(p, F, n, U, W) \cup {[area |-> Physical(k), addr |-> 1, size |-> Page]}
<1> DEFINE L == UsedWith(p, F, n, U, W \cup {k})
           R == UsedWith(p, F, n, U, W) \cup {[area |-> Physical(k), addr |-> 1, size |-> Page]}
<1>1. ASSUME NEW x PROVE x \in L <=> x \in R
  BY UsedWithIs
<1> QED BY <1>1

LEMMA WholeLost ==
  ASSUME NEW p \in Procs, NEW F, NEW n \in Nat, NEW U, NEW W, NEW k
  PROVE  UsedWith(p, F, n, U, W \ {k}) = Without(UsedWith(p, F, n, U, W), Physical(k), 1)
<1> DEFINE L == UsedWith(p, F, n, U, W \ {k})
           R == Without(UsedWith(p, F, n, U, W), Physical(k), 1)
<1>1. FastHeap(p) # Physical(k)
  BY AreasDiffer
<1>2. \A i \in 0 .. n - 1 : <<p, i>> # Physical(k)
  BY AreasDiffer
<1>3. \A j : Physical(j) = Physical(k) => j = k
  BY DEF Physical
<1>4. ASSUME NEW x PROVE x \in L <=> x \in R
  BY <1>1, <1>2, <1>3, UsedWithIs DEF Without
<1> QED BY <1>4

(* A heap that the process cannot find, or not yet *)
LEMMA NotFoundLost ==
  ASSUME NEW p \in Procs, NEW F, NEW n \in Nat, NEW U, NEW W, NEW area, NEW a,
         area \in HeapIds, \A i \in 0 .. n - 1 : area # <<p, i>>
  PROVE  Without(UsedWith(p, F, n, U, W), area, a) = UsedWith(p, F, n, U, W)
<1> DEFINE R == UsedWith(p, F, n, U, W)
<1>1. area # FastHeap(p) /\ \A k : area # Physical(k)
  BY UserMemoryAssumption DEF HeapIds, FastHeap, Physical
<1>2. ASSUME NEW x \in R PROVE x.area # area
  BY <1>1, UsedWithIs
<1> HIDE DEF R
<1>3. Without(R, area, a) = R
  BY <1>2 DEF Without
<1> QED BY <1>3 DEF R

LEMMA HeapAdded ==
  ASSUME NEW p, NEW F, NEW n \in Nat, NEW U, NEW V, NEW W,
         \A j \in 0 .. n - 1 : V[j] = U[j], V[n] = {}
  PROVE  UsedWith(p, F, n + 1, V, W) = UsedWith(p, F, n, U, W)
<1> DEFINE L == UsedWith(p, F, n + 1, V, W)
           R == UsedWith(p, F, n, U, W)
<1>1. 0 .. n + 1 - 1 = (0 .. n - 1) \cup {n}
  OBVIOUS
<1>2. ASSUME NEW x PROVE x \in L <=> x \in R
  BY <1>1, UsedWithIs
<1> QED BY <1>2

LEMMA SameBlocks ==
  ASSUME NEW p, NEW F, NEW n \in Nat, NEW U, NEW V, NEW W, \A j \in 0 .. n - 1 : V[j] = U[j]
  PROVE  UsedWith(p, F, n, V, W) = UsedWith(p, F, n, U, W)
<1> DEFINE L == UsedWith(p, F, n, V, W)
           R == UsedWith(p, F, n, U, W)
<1>1. ASSUME NEW x PROVE x \in L <=> x \in R
  BY UsedWithIs
<1> QED BY <1>1

HeapsUsed(p) == [i \in 0 .. Heaps - 1 |-> UsedBlocks(mem[<<p, i>>])]

WholeOf(p) == {k \in 1 .. Wholes : whole[k] = p}

(* Processes that are several have tables of their own, and there are no blocks
   of physical memory, which __free takes from whoever has them. *)
Separate ==
    \A p, q \in Procs : p # q => Wholes = 0 /\ \A l \in Layouts : l[p] # l[q]

(* A search under way is over heaps that the process has. *)
SearchOK(t) ==
    /\ pc[t].op # "idle" => ProcOf[t] \in made
    /\ pc[t].op = "heap" => pc[t].num <= pc[t].cnt /\ pc[t].cnt <= count[ProcOf[t]]
    /\ pc[t].op = "new" => pc[t].num <= count[ProcOf[t]]

TableIs(p) == \A n \in 0 .. Heaps : HeapOf(p, n) = IF n < count[p] THEN <<p, n>> ELSE None

TableInv ==
    /\ tableOf \in Layouts
    /\ table \in [Tables -> [0 .. Heaps -> HeapIds \cup {None}]]
    /\ count \in [Procs -> 0 .. Heaps]
    /\ \A p \in Procs : p \notin made => count[p] = 0
    /\ \A p \in Procs : TableIs(p)
    /\ \A t \in Threads : SearchOK(t)

LEMMA TableInit == Init => TableInv
<1> SUFFICES ASSUME Init PROVE TableInv
  OBVIOUS
<1>1. Heaps \in Nat \ {0} /\ Layouts \subseteq [Procs -> Tables]
  BY UserMemoryAssumption
<1>2. \A p \in Procs : TableIs(p)
  <2>1. \A p \in Procs : tableOf[p] \in Tables
    BY <1>1 DEF Init
  <2>2. \A p \in Procs, n \in 0 .. Heaps : HeapOf(p, n) = None
    BY <2>1 DEF Init, HeapOf
  <2> QED BY <2>2 DEF Init, TableIs
<1>3. \A t \in Threads : SearchOK(t)
  BY DEF Init, Idle, SearchOK
<1> QED BY <1>1, <1>2, <1>3 DEF Init, TableInv

LEMMA SearchKept ==
  ASSUME HeapInv, TableInv, UNCHANGED <<made, tableOf, table, count>>, NEW t \in Threads, NEW r,
         pc' = [pc EXCEPT ![t] = r], r.op # "idle" => ProcOf[t] \in made,
         r.op = "heap" => r.num <= r.cnt /\ r.cnt <= count[ProcOf[t]],
         r.op = "new" => r.num <= count[ProcOf[t]]
  PROVE  TableInv'
<1>1. \A u \in Threads : pc'[u] = IF u = t THEN r ELSE pc[u]
  BY DEF HeapInv, MemTypeOK
<1>2. \A u \in Threads : SearchOK(u)'
  BY <1>1 DEF TableInv, SearchOK
<1>3. \A p \in Procs : TableIs(p)'
  BY DEF TableInv, TableIs, HeapOf
<1> QED BY <1>2, <1>3 DEF TableInv

LEMMA MadeKeepsTables ==
  ASSUME Separate, HeapInv, TableInv, NEW p \in Procs, InitProcess(p)
  PROVE  TableInv'
<1>1. Heaps \in Nat \ {0} /\ tableOf \in [Procs -> Tables] /\ count[p] = 0
  BY UserMemoryAssumption DEF TableInv, InitProcess
<1>2. /\ made' = made \cup {p} /\ table' = [table EXCEPT ![tableOf[p]][0] = <<p, 0>>]
      /\ count' = [count EXCEPT ![p] = 1] /\ UNCHANGED <<tableOf, pc>>
  BY DEF InitProcess
<1>3. <<p, 0>> \in HeapIds
  BY <1>1 DEF HeapIds
<1>4. /\ table' \in [Tables -> [0 .. Heaps -> HeapIds \cup {None}]]
      /\ count' \in [Procs -> 0 .. Heaps]
  BY <1>1, <1>2, <1>3 DEF TableInv
<1>5. ASSUME NEW q \in Procs PROVE TableIs(q)'
  <2>1. CASE q = p
    <3>1. \A n \in 0 .. Heaps : table'[tableOf[p]][n] = IF n = 0 THEN <<p, 0>> ELSE table[tableOf[p]][n]
      BY <1>1, <1>2 DEF TableInv
    <3>2. \A n \in 0 .. Heaps : table[tableOf[p]][n] = None
      <4>1. \A n \in 0 .. Heaps : table[tableOf[p]][n] = IF n < count[p] THEN <<p, n>> ELSE None
        BY DEF TableInv, TableIs, HeapOf
      <4>2. \A n \in 0 .. Heaps : ~(n < count[p])
        BY <1>1
      <4> QED BY <4>1, <4>2
    <3>3. count'[p] = 1
      BY <1>2 DEF TableInv
    <3> QED BY <1>2, <2>1, <3>1, <3>2, <3>3 DEF TableIs, HeapOf
  <2>2. CASE q # p
    <3>1. tableOf[q] # tableOf[p] /\ tableOf[q] \in Tables
      BY <1>1, <2>2 DEF Separate, TableInv
    <3>2. table'[tableOf[q]] = table[tableOf[q]] /\ count'[q] = count[q]
      BY <1>2, <2>2, <3>1 DEF TableInv
    <3> QED BY <1>2, <3>2 DEF TableInv, TableIs, HeapOf
  <2> QED BY <2>1, <2>2
<1>6. \A q \in Procs : q \notin made' => count'[q] = 0
  BY <1>2 DEF TableInv
<1>7. ASSUME NEW t \in Threads PROVE SearchOK(t)'
  <2>1. ProcOf[t] \in Procs
    BY UserMemoryAssumption
  <2>2. ProcOf[t] # p => count'[ProcOf[t]] = count[ProcOf[t]]
    BY <1>2, <2>1 DEF TableInv
  <2>3. ProcOf[t] = p => pc[t].op = "idle"
    BY DEF TableInv, SearchOK, InitProcess
  <2> QED BY <1>2, <2>2, <2>3 DEF TableInv, SearchOK
<1> QED BY <1>2, <1>4, <1>5, <1>6, <1>7 DEF TableInv

LEMMA CreateKeepsTables ==
  ASSUME Separate, HeapInv, TableInv, NEW t \in Threads, CreateHeap(t)
  PROVE  TableInv'
<1> DEFINE p == ProcOf[t]
           n == count[p]
<1>1. /\ p \in Procs /\ n \in 0 .. Heaps /\ Heaps \in Nat \ {0} /\ tableOf \in [Procs -> Tables]
      /\ n \in Nat
  BY UserMemoryAssumption DEF TableInv
<1>2. /\ pc' = [pc EXCEPT ![t].op = "new", ![t].num = n] /\ UNCHANGED <<made, tableOf>>
      /\ p \in made /\ pc[t] \in [op : Ops, size : Nat, num : Nat, cnt : Nat]
  BY DEF CreateHeap, Counted, HeapInv, MemTypeOK, TableInv, SearchOK, At
<1>3. CASE UNCHANGED <<table, count>>
  <2> DEFINE r == [pc[t] EXCEPT !.op = "new", !.num = n]
  <2>1. pc' = [pc EXCEPT ![t] = r] /\ r.op = "new" /\ r.num = n
    BY <1>2 DEF HeapInv, MemTypeOK
  <2>2. n <= n /\ r.op # "heap" /\ UNCHANGED <<made, tableOf, table, count>>
    BY <1>1, <1>2, <1>3, <2>1
  <2> HIDE DEF r
  <2> QED BY <1>2, <2>1, <2>2, SearchKept
<1>4. CASE /\ n < Heaps /\ count' = [count EXCEPT ![p] = n + 1]
           /\ table' = [table EXCEPT ![tableOf[p]][n] = <<p, n>>]
  <2>1. <<p, n>> \in HeapIds /\ n + 1 \in 0 .. Heaps
    BY <1>1, <1>4 DEF HeapIds
  <2>2. tableOf[p] \in Tables
    BY <1>1
  <2> HIDE DEF n, p
  <2>3. /\ table' \in [Tables -> [0 .. Heaps -> HeapIds \cup {None}]]
        /\ count' \in [Procs -> 0 .. Heaps]
    BY <1>1, <1>4, <2>1, <2>2 DEF TableInv
  <2>4. count'[p] = n + 1 /\ \A q \in Procs : q # p => count'[q] = count[q]
    BY <1>1, <1>4 DEF TableInv
  <2>5. ASSUME NEW q \in Procs PROVE TableIs(q)'
    <3>1. CASE q = p
      <4>1. \A i \in 0 .. Heaps : table'[tableOf[p]][i] = IF i = n THEN <<p, n>> ELSE table[tableOf[p]][i]
        BY <1>1, <1>4, <2>2 DEF TableInv
      <4>2. \A i \in 0 .. Heaps : table[tableOf[p]][i] = IF i < n THEN <<p, i>> ELSE None
        BY <1>1 DEF TableInv, TableIs, HeapOf, n
      <4>3. \A i \in 0 .. Heaps : table'[tableOf[p]][i] = IF i < n + 1 THEN <<p, i>> ELSE None
        BY <1>1, <4>1, <4>2
      <4> QED BY <1>2, <2>4, <3>1, <4>3 DEF TableIs, HeapOf
    <3>2. CASE q # p
      <4>1. tableOf[q] # tableOf[p] /\ tableOf[q] \in Tables
        BY <1>1, <3>2 DEF Separate, TableInv
      <4>2. table'[tableOf[q]] = table[tableOf[q]] /\ count'[q] = count[q]
        BY <1>4, <2>4, <3>2, <4>1 DEF TableInv
      <4> QED BY <1>2, <4>2 DEF TableInv, TableIs, HeapOf
    <3> QED BY <3>1, <3>2
  <2>6. \A q \in Procs : q \notin made' => count'[q] = 0
    BY <1>2, <2>4 DEF TableInv
  <2>7. ASSUME NEW u \in Threads PROVE SearchOK(u)'
    <3>1. ProcOf[u] \in Procs /\ count[ProcOf[u]] \in Nat /\ count'[ProcOf[u]] \in Nat
      BY <2>3, UserMemoryAssumption DEF TableInv
    <3>2. count[ProcOf[u]] <= count'[ProcOf[u]]
      BY <1>1, <2>4, <3>1 DEF n
    <3>3. CASE u = t
      <4>1. pc'[t].op = "new" /\ pc'[t].num = n
        BY <1>2 DEF HeapInv, MemTypeOK
      <4>2. ProcOf[u] = p
        BY <3>3 DEF p
      <4> QED BY <1>1, <1>2, <2>4, <3>3, <4>1, <4>2 DEF SearchOK
    <3>4. CASE u # t
      <4>1. pc'[u] = pc[u] /\ pc[u].num \in Nat /\ pc[u].cnt \in Nat
        BY <1>2, <3>4 DEF HeapInv, MemTypeOK
      <4> QED BY <1>2, <3>1, <3>2, <4>1 DEF TableInv, SearchOK
    <3> QED BY <3>3, <3>4
  <2> QED BY <1>2, <2>3, <2>5, <2>6, <2>7 DEF TableInv
<1> QED BY <1>3, <1>4 DEF CreateHeap, Counted

LEMMA TableNext == Separate /\ HeapInv /\ TableInv /\ [Next]_vars => TableInv'
<1> SUFFICES ASSUME Separate, HeapInv, TableInv, [Next]_vars PROVE TableInv'
  OBVIOUS
<1>0. /\ \A t \in Threads : ProcOf[t] \in Procs
      /\ \A p \in Procs : count[p] \in Nat
      /\ pc \in [Threads -> [op : Ops, size : Nat, num : Nat, cnt : Nat]]
  BY UserMemoryAssumption DEF TableInv, HeapInv, MemTypeOK
<1>1. ASSUME NEW p \in Procs, InitProcess(p) PROVE TableInv'
  BY <1>1, MadeKeepsTables
<1>2. ASSUME NEW t \in Threads, UNCHANGED <<made, tableOf, table, count>>, pc' = [pc EXCEPT ![t] = Idle]
      PROVE  TableInv'
  BY <1>2, SearchKept DEF Idle
<1>3. ASSUME NEW t \in Threads, UNCHANGED <<made, tableOf, table, count>>, ~At(t, "idle"),
             NEW op \in {"whole", "low"}, Go(t, op)
      PROVE  TableInv'
  <2> DEFINE r == [pc[t] EXCEPT !.op = op]
  <2>1. pc' = [pc EXCEPT ![t] = r] /\ r.op = op
    BY <1>0, <1>3 DEF Go
  <2>2. ProcOf[t] \in made
    BY <1>3 DEF TableInv, SearchOK, At
  <2> HIDE DEF r
  <2> QED BY <1>3, <2>1, <2>2, SearchKept
<1>4. ASSUME NEW t \in Threads, SearchHeap(t) PROVE TableInv'
  <2>1. UNCHANGED <<made, tableOf, table, count>> /\ pc[t].op = "heap" /\ pc[t].num < pc[t].cnt
    BY <1>4 DEF SearchHeap, At
  <2>2. CASE pc' = [pc EXCEPT ![t] = Idle]
    BY <1>2, <2>1, <2>2
  <2>3. CASE pc' = [pc EXCEPT ![t].num = pc[t].num + 1]
    <3> DEFINE r == [pc[t] EXCEPT !.num = pc[t].num + 1]
    <3>1. /\ pc' = [pc EXCEPT ![t] = r] /\ r.op = "heap" /\ r.num = pc[t].num + 1 /\ r.cnt = pc[t].cnt
          /\ pc[t].num \in Nat /\ pc[t].cnt \in Nat
      BY <1>0, <2>1, <2>3
    <3>2. ProcOf[t] \in made /\ pc[t].cnt <= count[ProcOf[t]]
      BY <2>1 DEF TableInv, SearchOK
    <3> HIDE DEF r
    <3>3. r.num <= r.cnt
      BY <2>1, <3>1
    <3> QED BY <2>1, <3>1, <3>2, <3>3, SearchKept
  <2> QED BY <1>4, <2>2, <2>3 DEF SearchHeap, HeapServes, Served
<1>5. ASSUME NEW t \in Threads, CreateHeap(t) PROVE TableInv'
  BY <1>5, CreateKeepsTables
<1>6. ASSUME NEW t \in Threads, SearchNew(t) PROVE TableInv'
  <2>1. UNCHANGED <<made, tableOf, table, count>> /\ ~At(t, "idle")
    BY <1>6 DEF SearchNew, At
  <2>2. pc' = [pc EXCEPT ![t] = Idle] \/ Go(t, "whole") \/ Go(t, "low")
    BY <1>6 DEF SearchNew, HeapServes, Served
  <2> QED BY <1>2, <1>3, <2>1, <2>2
<1>7. ASSUME NEW t \in Threads, MallocWhole(t) PROVE TableInv'
  BY <1>2, <1>7 DEF MallocWhole, Served
<1>8. ASSUME NEW t \in Threads, NEW s \in Requests, FastAlloc(t, s) PROVE TableInv'
  BY <1>2, <1>8 DEF FastAlloc, Served
<1>9. ASSUME NEW t \in Threads, NEW s \in Requests, FastFails(t, s) PROVE TableInv'
  <2> DEFINE r == [op |-> "heap", size |-> s, num |-> 0, cnt |-> count[ProcOf[t]]]
  <2>1. /\ UNCHANGED <<made, tableOf, table, count>> /\ pc' = [pc EXCEPT ![t] = r]
        /\ ProcOf[t] \in made
    BY <1>9 DEF FastFails
  <2>2. count[ProcOf[t]] \in Nat
    BY <1>0
  <2>3. r.op = "heap" /\ r.num <= r.cnt /\ r.cnt <= count[ProcOf[t]]
    BY <2>2
  <2> HIDE DEF r
  <2> QED BY <2>1, <2>3, SearchKept
<1>10. ASSUME NEW t \in Threads, NEW area \in Areas, NEW addr \in Addresses(area), Free(t, area, addr)
       PROVE  TableInv'
  BY <1>10 DEF Free, TableInv, TableIs, HeapOf, SearchOK
<1>11. CASE UNCHANGED vars
  BY <1>11 DEF vars, TableInv, TableIs, HeapOf, SearchOK
<1> QED BY <1>1, <1>4, <1>5, <1>6, <1>7, <1>8, <1>9, <1>10, <1>11 DEF Next

NowUsed(p) == UsedWith(p, fast[p], count[p], HeapsUsed(p), WholeOf(p))

LiveInv == DOMAIN live = Procs /\ \A p \in Procs : live[p] = NowUsed(p)

LEMMA UsedIsNowUsed == TableInv => \A p \in Procs : Used(p) = NowUsed(p)
<1> SUFFICES ASSUME TableInv, NEW p \in Procs PROVE Used(p) = NowUsed(p)
  OBVIOUS
<1> DEFINE A == {Located(h, UsedBlocks(mem[h])) : h \in Known(p)}
           B == {Located(<<p, i>>, HeapsUsed(p)[i]) : i \in 0 .. count[p] - 1}
<1>1. count[p] \in 0 .. Heaps /\ Heaps \in Nat
  BY UserMemoryAssumption DEF TableInv
<1>2. \A i \in 0 .. count[p] - 1 : HeapOf(p, i) = <<p, i>> /\ i \in 0 .. Heaps - 1
  <2>1. \A i \in 0 .. count[p] - 1 : i \in 0 .. Heaps /\ i < count[p] /\ i \in 0 .. Heaps - 1
    BY <1>1
  <2> QED BY <2>1 DEF TableInv, TableIs
<1>3. A = B
  <2>1. \A i \in 0 .. count[p] - 1 : Located(<<p, i>>, HeapsUsed(p)[i]) = Located(<<p, i>>, UsedBlocks(mem[<<p, i>>]))
    BY <1>2 DEF HeapsUsed
  <2>2. Known(p) = {<<p, i>> : i \in 0 .. count[p] - 1}
    BY <1>2 DEF Known
  <2>3. \A i \in 0 .. count[p] - 1 : Located(<<p, i>>, HeapsUsed(p)[i]) \in A
    BY <2>1, <2>2
  <2>4. \A h \in Known(p) : Located(h, UsedBlocks(mem[h])) \in B
    BY <2>1, <2>2
  <2> QED BY <2>3, <2>4
<1> DEFINE C == {[area |-> Physical(k), addr |-> 1, size |-> Page] : k \in WholeOf(p)}
<1>4. Used(p) = Located(FastHeap(p), FastBlocks(p)) \cup (UNION A) \cup C
  BY DEF Used, WholeOf
<1>5. NowUsed(p) = Located(FastHeap(p), Marked(fast[p])) \cup (UNION B) \cup C
  BY DEF NowUsed, UsedWith
<1>6. FastBlocks(p) = Marked(fast[p])
  BY DEF FastBlocks, Marked
<1> HIDE DEF A, B, C
<1> QED BY <1>3, <1>4, <1>5, <1>6

LEMMA LiveInit == Init => LiveInv
<1> SUFFICES ASSUME Init, NEW p \in Procs PROVE {} = NowUsed(p)
  BY DEF Init, LiveInv
<1>1. Marked(fast[p]) = {}
  BY MarkedAre DEF Init
<1>2. count[p] = 0 /\ WholeOf(p) = {}
  BY UserMemoryAssumption DEF Init, WholeOf
<1>3. \A x : x \notin NowUsed(p)
  BY <1>1, <1>2, UsedWithIs DEF NowUsed
<1> QED BY <1>3

(* The heaps when one of them changes *)
LEMMA HeapsNext ==
  ASSUME HeapInv, NEW h, NEW m, mem' = [mem EXCEPT ![h] = m]
  PROVE  \A i \in HeapIds : mem'[i] = IF i = h THEN m ELSE mem[i]
BY DEF HeapInv, MemTypeOK

LEMMA HeapNamed ==
  \A p, q \in Procs, n, i \in 0 .. Heaps - 1 :
     <<q, i>> \in HeapIds /\ (<<q, i>> = <<p, n>> <=> q = p /\ i = n)
BY DEF HeapIds

LEMMA CountPlaces ==
  ASSUME TableInv, NEW p \in Procs
  PROVE  /\ count[p] \in Nat /\ count[p] <= Heaps /\ Heaps \in Nat
         /\ \A i \in 0 .. count[p] - 1 : i \in 0 .. Heaps - 1 /\ i < count[p]
BY UserMemoryAssumption DEF TableInv

(* Making a heap changes nothing in what is used. *)
LEMMA MadeKeepsLive ==
  ASSUME HeapInv, TableInv, LiveInv, UNCHANGED <<fast, whole, live>>,
         NEW p \in Procs, NEW n \in 0 .. Heaps - 1, n = count[p],
         count' = [count EXCEPT ![p] = n + 1], mem' = [mem EXCEPT ![<<p, n>>] = EmptyHeap(HeapLimit[n])]
  PROVE  LiveInv'
<1> SUFFICES ASSUME NEW q \in Procs PROVE NowUsed(q)' = NowUsed(q)
  BY DEF LiveInv
<1>0. n \in Nat /\ HeapLimit[n] \in Nat /\ n \in 0 .. Heaps
  BY LimitIsNat, CountPlaces
<1>1. UsedBlocks(EmptyHeap(HeapLimit[n])) = {}
  BY <1>0, EmptyIsOK
<1>2. fast'[q] = fast[q] /\ WholeOf(q)' = WholeOf(q)
  BY DEF WholeOf
<1>3. \A i \in 0 .. Heaps - 1 :
         HeapsUsed(q)'[i] = IF q = p /\ i = n THEN {} ELSE HeapsUsed(q)[i]
  <2> DEFINE m == EmptyHeap(HeapLimit[n])
  <2>1. mem' = [mem EXCEPT ![<<p, n>>] = m] /\ UsedBlocks(m) = {}
    BY <1>1
  <2> HIDE DEF m
  <2>2. \A i \in HeapIds : mem'[i] = IF i = <<p, n>> THEN m ELSE mem[i]
    BY <2>1, HeapsNext
  <2>3. \A i \in 0 .. Heaps - 1 : mem'[<<q, i>>] = IF q = p /\ i = n THEN m ELSE mem[<<q, i>>]
    BY <2>2, HeapNamed
  <2> QED BY <2>1, <2>3 DEF HeapsUsed
<1>4. CASE q = p
  <2>1. count'[q] = n + 1 /\ count[q] = n
    BY <1>4 DEF TableInv
  <2>2. \A j \in 0 .. n - 1 : HeapsUsed(q)'[j] = HeapsUsed(q)[j]
    <3>1. \A j \in 0 .. n - 1 : j \in 0 .. Heaps - 1 /\ j # n
      BY <1>0, UserMemoryAssumption
    <3> QED BY <1>3, <3>1
  <2>3. HeapsUsed(q)'[n] = {}
    BY <1>3, <1>4
  <2>4. UsedWith(q, fast[q], n + 1, HeapsUsed(q)', WholeOf(q)) = UsedWith(q, fast[q], n, HeapsUsed(q), WholeOf(q))
    BY <1>0, <2>2, <2>3, HeapAdded
  <2> QED BY <1>2, <2>1, <2>4 DEF NowUsed
<1>5. CASE q # p
  <2>1. count'[q] = count[q] /\ count[q] \in Nat
    BY <1>5 DEF TableInv
  <2>2. \A j \in 0 .. count[q] - 1 : HeapsUsed(q)'[j] = HeapsUsed(q)[j]
    BY <1>3, <1>5, CountPlaces
  <2>3. UsedWith(q, fast[q], count[q], HeapsUsed(q)', WholeOf(q)) = NowUsed(q)
    BY <2>1, <2>2, SameBlocks DEF NowUsed
  <2> QED BY <1>2, <2>1, <2>3 DEF NowUsed
<1> QED BY <1>4, <1>5

(* A block of heap n is given or given back: m is the heap, S what the process
   has afterwards. *)
OneBlockLess(p, n, m, S) ==
    \E a : /\ UsedBlocks(m) = {b \in UsedBlocks(mem[<<p, n>>]) : b.addr # a}
           /\ S = Without(live[p], <<p, n>>, a)

OneBlockMore(p, n, m, S) ==
    \E new : /\ UsedBlocks(m) = UsedBlocks(mem[<<p, n>>]) \cup {new}
             /\ S = live[p] \cup {[area |-> <<p, n>>, addr |-> new.addr, size |-> new.size]}

LEMMA HeapKeepsLive ==
  ASSUME HeapInv, TableInv, LiveInv, UNCHANGED <<fast, whole, count>>,
         NEW p \in Procs, NEW n \in 0 .. count[p] - 1, NEW m, mem' = [mem EXCEPT ![<<p, n>>] = m],
         NEW S, live' = [live EXCEPT ![p] = S],
         OneBlockMore(p, n, m, S) \/ OneBlockLess(p, n, m, S)
  PROVE  LiveInv'
<1>0. DOMAIN live' = Procs /\ \A q \in Procs : live'[q] = IF q = p THEN S ELSE live[q]
  BY DEF LiveInv
<1> SUFFICES ASSUME NEW q \in Procs PROVE live'[q] = NowUsed(q)'
  BY <1>0 DEF LiveInv
<1>1. n \in 0 .. Heaps - 1 /\ count[q] \in Nat /\ HeapsUsed(p)[n] = UsedBlocks(mem[<<p, n>>])
  BY CountPlaces DEF HeapsUsed
<1>2. fast'[q] = fast[q] /\ WholeOf(q)' = WholeOf(q) /\ count'[q] = count[q]
  BY DEF WholeOf
<1>3. \A i \in 0 .. count[q] - 1 :
         HeapsUsed(q)'[i] = IF q = p /\ i = n THEN UsedBlocks(m) ELSE HeapsUsed(q)[i]
  <2> SUFFICES ASSUME NEW i \in 0 .. count[q] - 1
               PROVE  HeapsUsed(q)'[i] = IF q = p /\ i = n THEN UsedBlocks(m) ELSE HeapsUsed(q)[i]
    OBVIOUS
  <2>1. i \in 0 .. Heaps - 1
    BY CountPlaces
  <2>2. \A j \in HeapIds : mem'[j] = IF j = <<p, n>> THEN m ELSE mem[j]
    BY HeapsNext
  <2>3. mem'[<<q, i>>] = IF q = p /\ i = n THEN m ELSE mem[<<q, i>>]
    BY <1>1, <2>1, <2>2, HeapNamed
  <2> QED BY <2>1, <2>3 DEF HeapsUsed
<1>4. NowUsed(q)' = UsedWith(q, fast[q], count[q], HeapsUsed(q)', WholeOf(q))
  BY <1>2 DEF NowUsed
<1>5. live[q] = UsedWith(q, fast[q], count[q], HeapsUsed(q), WholeOf(q))
  BY DEF LiveInv, NowUsed
<1>6. CASE q # p
  BY <1>0, <1>1, <1>3, <1>4, <1>5, <1>6, SameBlocks
<1>7. ASSUME q = p, NEW new, UsedBlocks(m) = UsedBlocks(mem[<<p, n>>]) \cup {new},
             S = live[p] \cup {[area |-> <<p, n>>, addr |-> new.addr, size |-> new.size]}
      PROVE  live'[q] = NowUsed(q)'
  <2> DEFINE U == HeapsUsed(q)
             V == HeapsUsed(q)'
             F == fast[q]
             W == WholeOf(q)
             c == count[q]
             B == U[n] \cup {new}
  <2>0. n \in 0 .. c - 1 /\ q \in Procs /\ c \in Nat
    BY <1>1, <1>7
  <2>1. Changed(U, V, c, n, B) /\ B = U[n] \cup {new}
    BY <1>1, <1>3, <1>7 DEF Changed
  <2> HIDE DEF U, V, F, W, c, B
  <2>2. UsedWith(q, F, c, V, W) = UsedWith(q, F, c, U, W) \cup {[area |-> <<q, n>>, addr |-> new.addr, size |-> new.size]}
    BY <2>0, <2>1, BlocksGained
  <2> QED BY <1>0, <1>4, <1>5, <1>7, <2>2 DEF U, V, F, W, c
<1>8. ASSUME q = p, NEW a, UsedBlocks(m) = {b \in UsedBlocks(mem[<<p, n>>]) : b.addr # a},
             S = Without(live[p], <<p, n>>, a)
      PROVE  live'[q] = NowUsed(q)'
  <2> DEFINE U == HeapsUsed(q)
             V == HeapsUsed(q)'
             F == fast[q]
             W == WholeOf(q)
             c == count[q]
             B == {b \in U[n] : b.addr # a}
  <2>0. n \in 0 .. c - 1 /\ q \in Procs /\ c \in Nat
    BY <1>1, <1>8
  <2>1. Changed(U, V, c, n, B) /\ B = {b \in U[n] : b.addr # a}
    BY <1>1, <1>3, <1>8 DEF Changed
  <2> HIDE DEF U, V, F, W, c, B
  <2>2. UsedWith(q, F, c, V, W) = Without(UsedWith(q, F, c, U, W), <<q, n>>, a)
    BY <2>0, <2>1, BlocksLost
  <2> QED BY <1>0, <1>4, <1>5, <1>8, <2>2 DEF U, V, F, W, c
<1> QED BY <1>6, <1>7, <1>8 DEF OneBlockMore, OneBlockLess

(* A block of the fast heap is given or given back. *)
LEMMA FastKeepsLive ==
  ASSUME AreaTypes, TableInv, LiveInv, UNCHANGED <<count, mem, whole>>,
         NEW p \in Procs, NEW G, fast' = [fast EXCEPT ![p] = G],
         NEW S, live' = [live EXCEPT ![p] = S],
         \/ \E new : /\ Marked(G) = Marked(fast[p]) \cup {new}
                     /\ S = live[p] \cup {[area |-> FastHeap(p), addr |-> new.addr, size |-> new.size]}
         \/ \E a : /\ Marked(G) = {b \in Marked(fast[p]) : b.addr # a}
                   /\ S = Without(live[p], FastHeap(p), a)
  PROVE  LiveInv'
<1>0. DOMAIN live' = Procs /\ \A q \in Procs : live'[q] = IF q = p THEN S ELSE live[q]
  BY DEF LiveInv
<1> SUFFICES ASSUME NEW q \in Procs PROVE live'[q] = NowUsed(q)'
  BY <1>0 DEF LiveInv
<1>1. fast'[q] = IF q = p THEN G ELSE fast[q]
  BY DEF AreaTypes
<1>2. HeapsUsed(q)' = HeapsUsed(q) /\ WholeOf(q)' = WholeOf(q) /\ count'[q] = count[q] /\ count[q] \in Nat
  BY CountPlaces DEF WholeOf, HeapsUsed
<1>3. NowUsed(q)' = UsedWith(q, fast'[q], count[q], HeapsUsed(q), WholeOf(q))
  BY <1>2 DEF NowUsed
<1>4. live[q] = UsedWith(q, fast[q], count[q], HeapsUsed(q), WholeOf(q))
  BY DEF LiveInv, NowUsed
<1>5. CASE q # p
  BY <1>0, <1>1, <1>3, <1>4, <1>5
<1>6. ASSUME q = p, NEW new, Marked(G) = Marked(fast[p]) \cup {new},
             S = live[p] \cup {[area |-> FastHeap(p), addr |-> new.addr, size |-> new.size]}
      PROVE  live'[q] = NowUsed(q)'
  BY <1>0, <1>1, <1>3, <1>4, <1>6, MarkedGained
<1>7. ASSUME q = p, NEW a, Marked(G) = {b \in Marked(fast[p]) : b.addr # a},
             S = Without(live[p], FastHeap(p), a)
      PROVE  live'[q] = NowUsed(q)'
  BY <1>0, <1>1, <1>2, <1>3, <1>4, <1>7, MarkedLost
<1> QED BY <1>5, <1>6, <1>7

(* A block of physical memory is given, or given back to whoever asks. *)
LEMMA WholeKeepsLive ==
  ASSUME Separate, AreaTypes, TableInv, LiveInv, UNCHANGED <<count, mem, fast>>,
         NEW p \in Procs, NEW k \in 1 .. Wholes,
         \/ /\ whole[k] = None /\ whole' = [whole EXCEPT ![k] = p]
            /\ live' = [live EXCEPT ![p] =
                           live[p] \cup {[area |-> Physical(k), addr |-> 1, size |-> Page]}]
         \/ /\ whole' = [whole EXCEPT ![k] = None]
            /\ live' = [live EXCEPT ![p] = Without(live[p], Physical(k), 1)]
  PROVE  LiveInv'
<1>1. \A q \in Procs : q = p
  BY UserMemoryAssumption DEF Separate
<1>2. DOMAIN live' = Procs
  BY DEF LiveInv
<1> SUFFICES live'[p] = NowUsed(p)'
  BY <1>1, <1>2 DEF LiveInv
<1> DEFINE W == WholeOf(p)
<1>3. HeapsUsed(p)' = HeapsUsed(p) /\ fast'[p] = fast[p] /\ count'[p] = count[p] /\ count[p] \in Nat
  BY CountPlaces DEF HeapsUsed
<1>4. NowUsed(p)' = UsedWith(p, fast[p], count[p], HeapsUsed(p), W')
  BY <1>3 DEF NowUsed
<1>5. live[p] = UsedWith(p, fast[p], count[p], HeapsUsed(p), W)
  BY DEF LiveInv, NowUsed
<1>6. \A j \in 1 .. Wholes : j # k => whole'[j] = whole[j]
  BY DEF AreaTypes
<1>7. CASE /\ whole[k] = None /\ whole' = [whole EXCEPT ![k] = p]
           /\ live' = [live EXCEPT ![p] = live[p] \cup {[area |-> Physical(k), addr |-> 1, size |-> Page]}]
  <2>1. W' = W \cup {k}
    BY <1>6, <1>7 DEF AreaTypes, WholeOf
  <2>2. live'[p] = live[p] \cup {[area |-> Physical(k), addr |-> 1, size |-> Page]}
    BY <1>7 DEF LiveInv
  <2> HIDE DEF W
  <2> QED BY <1>4, <1>5, <2>1, <2>2, WholeGained
<1>8. CASE /\ whole' = [whole EXCEPT ![k] = None]
           /\ live' = [live EXCEPT ![p] = Without(live[p], Physical(k), 1)]
  <2>1. W' = W \ {k}
    BY <1>6, <1>8, UserMemoryAssumption DEF AreaTypes, WholeOf
  <2>2. live'[p] = Without(live[p], Physical(k), 1)
    BY <1>8 DEF LiveInv
  <2> HIDE DEF W
  <2> QED BY <1>3, <1>4, <1>5, <2>1, <2>2, WholeLost
<1> QED BY <1>7, <1>8

(* An address in a heap that the process cannot find *)
LEMMA ElsewhereKeepsLive ==
  ASSUME TableInv, LiveInv, UNCHANGED <<count, mem, fast, whole>>,
         NEW p \in Procs, NEW area \in HeapIds \ Known(p), NEW addr,
         live' = [live EXCEPT ![p] = Without(live[p], area, addr)]
  PROVE  LiveInv'
<1>1. count[p] \in Nat /\ \A i \in 0 .. count[p] - 1 : i \in 0 .. Heaps - 1 /\ i \in 0 .. Heaps /\ i < count[p]
  BY CountPlaces
<1>2. \A i \in 0 .. count[p] - 1 : area # <<p, i>>
  <2>1. \A i \in 0 .. count[p] - 1 : HeapOf(p, i) = <<p, i>>
    BY <1>1 DEF TableInv, TableIs
  <2> QED BY <2>1 DEF Known
<1>3. Without(live[p], area, addr) = live[p]
  <2>1. live[p] = UsedWith(p, fast[p], count[p], HeapsUsed(p), WholeOf(p))
    BY DEF LiveInv, NowUsed
  <2> QED BY <1>1, <1>2, <2>1, NotFoundLost
<1>4. DOMAIN live' = Procs /\ \A q \in Procs : live'[q] = live[q]
  BY <1>3 DEF LiveInv
<1>5. \A q \in Procs : NowUsed(q)' = NowUsed(q)
  BY DEF NowUsed, HeapsUsed, WholeOf
<1> QED BY <1>4, <1>5 DEF LiveInv

LEMMA FreeKeepsLive ==
  ASSUME Separate, HeapInv, AreaTypes, TableInv, LiveInv, NEW t \in Threads,
         NEW area \in Areas, NEW addr \in Addresses(area), Free(t, area, addr)
  PROVE  LiveInv'
<1> DEFINE p == ProcOf[t]
<1>1. p \in Procs /\ None \notin Procs
  BY UserMemoryAssumption
<1>2. UNCHANGED count /\ live' = [live EXCEPT ![p] = Without(live[p], area, addr)]
  BY DEF Free, Without
<1> HIDE DEF p
<1>3. CASE area = FastHeap(p) /\ FastFree(p, addr)
  <2>1. area \notin HeapIds /\ area[1] = p
    BY <1>1, <1>3 DEF FastHeap, HeapIds
  <2>2. PICK k \in DOMAIN Classes : addr \in ClassBlocks(k)
    BY <1>1, <2>1 DEF Addresses
  <2> DEFINE G == fast[p] \ {MarkOf(ClassOf(addr), addr)}
  <2>3. fast' = [fast EXCEPT ![p] = G] /\ UNCHANGED <<mem, whole>>
    BY <1>3 DEF FastFree
  <2>4. Marked(G) = {b \in Marked(fast[p]) : b.addr # addr}
    BY <2>2, MarkLost
  <2> HIDE DEF G
  <2> QED BY <1>1, <1>2, <1>3, <2>3, <2>4, FastKeepsLive
<1>4. CASE area \in Known(p) /\ mem' = [mem EXCEPT ![area] = HeapFree(mem[area], addr)]
           /\ UNCHANGED <<fast, whole>>
  <2>1. /\ count[p] \in Nat
        /\ \A i \in 0 .. count[p] - 1 : i \in 0 .. Heaps - 1 /\ i \in 0 .. Heaps /\ i < count[p]
    BY <1>1, CountPlaces
  <2>2. PICK n \in 0 .. count[p] - 1 : area = HeapOf(p, n)
    BY <1>4 DEF Known
  <2>3. area = <<p, n>> /\ area \in HeapIds
    BY <1>1, <2>1, <2>2 DEF TableInv, TableIs, HeapIds
  <2>4. addr \in 2 .. Len(mem[area]) /\ HeapOK(mem[area])
    BY <2>3 DEF Addresses, HeapInv, HeapMayBe
  <2>5. UsedBlocks(HeapFree(mem[area], addr)) = {b \in UsedBlocks(mem[area]) : b.addr # addr}
    BY <2>4, FreeKeeps
  <2> DEFINE m == HeapFree(mem[area], addr)
             S == Without(live[p], area, addr)
  <2>6. /\ mem' = [mem EXCEPT ![<<p, n>>] = m] /\ live' = [live EXCEPT ![p] = S]
        /\ UNCHANGED <<fast, whole, count>>
    BY <1>2, <1>4, <2>3
  <2>7. OneBlockLess(p, n, m, S)
    BY <2>3, <2>5 DEF OneBlockLess
  <2> HIDE DEF m, S
  <2> QED BY <1>1, <2>6, <2>7, HeapKeepsLive
<1>5. CASE area[1] = None /\ WholeFree(area)
  <2>1. PICK k \in 1 .. Wholes : area = Physical(k)
    BY <1>1, <1>5 DEF Areas, HeapIds, FastHeap
  <2>2. area[2] = k /\ area \notin HeapIds
    BY <1>1, <2>1 DEF Physical, HeapIds
  <2>3. addr = 1
    BY <1>5, <2>2 DEF Addresses
  <2>4. whole' = [whole EXCEPT ![k] = None] /\ UNCHANGED <<mem, fast>>
    BY <1>5, <2>2 DEF WholeFree
  <2> QED BY <1>1, <1>2, <2>1, <2>3, <2>4, WholeKeepsLive
<1>6. CASE area \in HeapIds \ Known(p) /\ UNCHANGED <<fast, mem, whole>>
  BY <1>1, <1>2, <1>6, ElsewhereKeepsLive
<1> QED BY <1>3, <1>4, <1>5, <1>6 DEF Free, p

LEMMA ServesKeepsLive ==
  ASSUME HeapInv, TableInv, LiveInv, UNCHANGED <<count, fast, whole>>,
         NEW t \in Threads, NEW n \in 0 .. count[ProcOf[t]] - 1, HeapServes(t, HeapOf(ProcOf[t], n))
  PROVE  LiveInv'
<1> DEFINE p == ProcOf[t]
           h == <<p, n>>
           s == AlignSize(pc[t].size)
<1>1. p \in Procs /\ s \in Nat
  BY AlignIsNat, UserMemoryAssumption DEF HeapInv, MemTypeOK
<1>2. /\ count[p] \in Nat
      /\ \A i \in 0 .. count[p] - 1 : i \in 0 .. Heaps - 1 /\ i \in 0 .. Heaps /\ i < count[p]
  BY <1>1, CountPlaces
<1>3. HeapOf(p, n) = h /\ h \in HeapIds
  BY <1>1, <1>2 DEF TableInv, TableIs, HeapIds
<1>4. /\ Found(mem[h], s) # 0 /\ mem' = [mem EXCEPT ![h] = HeapAlloc(mem[h], s)]
      /\ live' = [live EXCEPT ![p] =
                     live[p] \cup {[area |-> h, addr |-> Found(mem[h], s) + 1, size |-> s]}]
  BY <1>3 DEF HeapServes, Served
<1>5. HeapOK(mem[h])
  BY <1>3 DEF HeapInv, HeapMayBe
<1> DEFINE new == [addr |-> Found(mem[h], s) + 1, size |-> s]
<1> HIDE DEF s
<1>6. UsedBlocks(HeapAlloc(mem[h], s)) = UsedBlocks(mem[h]) \cup {new}
  BY <1>1, <1>4, <1>5, AllocKeeps DEF Allocated
<1> DEFINE m == HeapAlloc(mem[h], s)
           S == live[p] \cup {[area |-> h, addr |-> new.addr, size |-> new.size]}
<1>7. mem' = [mem EXCEPT ![h] = m] /\ live' = [live EXCEPT ![p] = S] /\ n \in 0 .. count[p] - 1
  BY <1>4
<1>8. OneBlockMore(p, n, m, S)
  BY <1>6 DEF OneBlockMore
<1> HIDE DEF m, S, p
<1> QED BY <1>1, <1>7, <1>8, HeapKeepsLive

LEMMA LiveNext ==
  Separate /\ HeapInv /\ AreaTypes /\ TableInv /\ LiveInv /\ [Next]_vars => LiveInv'
<1> SUFFICES ASSUME Separate, HeapInv, AreaTypes, TableInv, LiveInv, [Next]_vars PROVE LiveInv'
  OBVIOUS
<1>0. /\ \A t \in Threads : ProcOf[t] \in Procs
      /\ \A p \in Procs : count[p] \in Nat /\ count[p] <= Heaps
      /\ Heaps \in Nat \ {0}
      /\ pc \in [Threads -> [op : Ops, size : Nat, num : Nat, cnt : Nat]]
  BY CountPlaces, UserMemoryAssumption DEF HeapInv, MemTypeOK
<1>1. CASE UNCHANGED <<count, fast, mem, whole, live>>
  BY <1>1 DEF LiveInv, NowUsed, HeapsUsed, WholeOf
<1>2. ASSUME NEW p \in Procs, InitProcess(p) PROVE LiveInv'
  <2>1. count[p] = 0 /\ 0 \in 0 .. Heaps - 1
    BY <1>0, <1>2 DEF InitProcess, TableInv
  <2>2. /\ UNCHANGED <<fast, whole, live>> /\ count' = [count EXCEPT ![p] = 0 + 1]
        /\ mem' = [mem EXCEPT ![<<p, 0>>] = EmptyHeap(HeapLimit[0])]
    BY <1>2 DEF InitProcess
  <2> QED BY <2>1, <2>2, MadeKeepsLive
<1>3. ASSUME NEW t \in Threads, SearchHeap(t) PROVE LiveInv'
  <2> DEFINE n == pc[t].num
  <2>1. n \in 0 .. count[ProcOf[t]] - 1 /\ UNCHANGED <<count, fast, whole>>
    <3>1. pc[t].num \in Nat /\ pc[t].cnt \in Nat /\ count[ProcOf[t]] \in Nat
      BY <1>0
    <3>2. pc[t].num < pc[t].cnt /\ pc[t].cnt <= count[ProcOf[t]]
      BY <1>3 DEF SearchHeap, TableInv, SearchOK, At
    <3>3. UNCHANGED <<count, fast, whole>>
      BY <1>3 DEF SearchHeap
    <3> QED BY <3>1, <3>2, <3>3
  <2>2. HeapServes(t, HeapOf(ProcOf[t], n)) \/ UNCHANGED <<mem, live>>
    BY <1>3 DEF SearchHeap
  <2> HIDE DEF n
  <2> QED BY <1>1, <2>1, <2>2, ServesKeepsLive
<1>4. ASSUME NEW t \in Threads, CreateHeap(t) PROVE LiveInv'
  <2> DEFINE p == ProcOf[t]
             n == count[p]
  <2>1. p \in Procs /\ n \in Nat /\ UNCHANGED <<fast, whole, live>>
    BY <1>0, <1>4 DEF CreateHeap
  <2>2. CASE /\ n < Heaps /\ mem' = [mem EXCEPT ![<<p, n>>] = EmptyHeap(HeapLimit[n])]
             /\ count' = [count EXCEPT ![p] = n + 1]
    <3>1. n \in 0 .. Heaps - 1 /\ n = count[p]
      BY <1>0, <2>1, <2>2
    <3> HIDE DEF n, p
    <3> QED BY <2>1, <2>2, <3>1, MadeKeepsLive
  <2>3. CASE UNCHANGED <<mem, count>>
    BY <1>1, <2>1, <2>3
  <2> QED BY <1>4, <2>2, <2>3 DEF CreateHeap, Counted
<1>5. ASSUME NEW t \in Threads, SearchNew(t) PROVE LiveInv'
  <2> DEFINE n == pc[t].num
  <2>1. UNCHANGED <<count, fast, whole>> /\ n \in Nat /\ n <= count[ProcOf[t]]
    BY <1>0, <1>5 DEF SearchNew, At, TableInv, SearchOK
  <2>2. CASE HeapOf(ProcOf[t], n) # None
    <3>1. n \in 0 .. Heaps /\ ProcOf[t] \in Procs
      BY <1>0, <2>1
    <3>2. n < count[ProcOf[t]]
      BY <2>2, <3>1 DEF TableInv, TableIs
    <3>3. n \in 0 .. count[ProcOf[t]] - 1
      BY <1>0, <2>1, <3>1, <3>2
    <3>4. HeapServes(t, HeapOf(ProcOf[t], n)) \/ UNCHANGED <<mem, live>>
      BY <1>5 DEF SearchNew
    <3> HIDE DEF n
    <3> QED BY <1>1, <2>1, <3>3, <3>4, ServesKeepsLive
  <2>3. CASE HeapOf(ProcOf[t], n) = None
    BY <1>1, <1>5, <2>1, <2>3 DEF SearchNew
  <2> QED BY <2>2, <2>3
<1>6. ASSUME NEW t \in Threads, MallocWhole(t) PROVE LiveInv'
  <2>1. UNCHANGED <<count, mem, fast>> /\ ProcOf[t] \in Procs
    BY <1>0, <1>6 DEF MallocWhole
  <2>2. CASE UNCHANGED <<whole, live>>
    BY <1>1, <2>1, <2>2
  <2>3. ASSUME NEW k \in 1 .. Wholes, whole[k] = None, whole' = [whole EXCEPT ![k] = ProcOf[t]],
               Served(t, [area |-> Physical(k), addr |-> 1, size |-> Page])
        PROVE  LiveInv'
    BY <2>1, <2>3, WholeKeepsLive DEF Served
  <2> QED BY <1>6, <2>2, <2>3 DEF MallocWhole
<1>7. ASSUME NEW t \in Threads, NEW s \in Requests, FastAlloc(t, s) PROVE LiveInv'
  <2> DEFINE p == ProcOf[t]
  <2>1. PICK k \in DOMAIN Classes, a \in 1 .. ClassBase[Len(Classes) + 1] :
           /\ a \in FreeFast(p, k) /\ fast' = [fast EXCEPT ![p] = fast[p] \cup {MarkOf(k, a)}]
           /\ Served(t, [area |-> FastHeap(p), addr |-> a, size |-> Classes[k].size])
    BY <1>7 DEF FastAlloc
  <2>2. p \in Procs /\ UNCHANGED <<count, mem, whole>> /\ a \in ClassBlocks(k)
    BY <1>0, <1>7, <2>1 DEF FastAlloc, FreeFast
  <2> DEFINE G == fast[p] \cup {MarkOf(k, a)}
             new == [addr |-> a, size |-> Classes[k].size]
  <2>3. Marked(G) = Marked(fast[p]) \cup {new}
    BY <2>2, MarkGained
  <2>4. /\ fast' = [fast EXCEPT ![p] = G]
        /\ live' = [live EXCEPT ![p] =
                       live[p] \cup {[area |-> FastHeap(p), addr |-> new.addr, size |-> new.size]}]
    BY <2>1 DEF Served
  <2> HIDE DEF G, new, p
  <2> QED BY <2>2, <2>3, <2>4, FastKeepsLive
<1>8. ASSUME NEW t \in Threads, NEW s \in Requests, FastFails(t, s) PROVE LiveInv'
  BY <1>1, <1>8 DEF FastFails
<1>9. ASSUME NEW t \in Threads, NEW area \in Areas, NEW addr \in Addresses(area), Free(t, area, addr)
      PROVE  LiveInv'
  BY <1>9, FreeKeepsLive
<1>10. CASE UNCHANGED vars
  BY <1>1, <1>10 DEF vars
<1> QED BY <1>2, <1>3, <1>4, <1>5, <1>6, <1>7, <1>8, <1>9, <1>10 DEF Next

(* For a process alone, or processes with tables of their own and no blocks of
   physical memory: what is marked as used, in the areas a process can find, is
   what it was given and has not given back (__malloc, __free), whatever its
   threads do at once. *)
THEOREM UsedStaysLive ==
  ASSUME Separate
  PROVE  Spec => []UsedIsLive
<1>1. Init => TableInv /\ LiveInv
  BY TableInit, LiveInit
<1>2. HeapInv /\ AreaTypes /\ TableInv /\ LiveInv /\ [Next]_vars => TableInv' /\ LiveInv'
  BY Separate, TableNext, LiveNext
<1>3. Spec => []AreaTypes
  BY AreaTypesInit, AreaTypesNext, PTL DEF Spec
<1>4. TableInv /\ LiveInv => UsedIsLive
  BY UsedIsNowUsed DEF LiveInv, UsedIsLive
<1> QED BY <1>1, <1>2, <1>3, <1>4, HeapInvariant, PTL DEF Spec

=============================================================================
