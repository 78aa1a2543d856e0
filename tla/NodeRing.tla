------------------------------ MODULE NodeRing ------------------------------
(***************************************************************************)
(* The lists of flujos/src/list.c as the code keeps them: a head pointer   *)
(* for each list and, in every node, a next and a prev pointer that close  *)
(* the list into a ring.  One thread at a time works on a list, so an      *)
(* operation is one step; the pointers it writes are written in the code's *)
(* order.  The rings implement NodeLists.                                  *)
(*                                                                         *)
(* Operators named Bug... are mutants of the definition that follows them. *)
(***************************************************************************)
EXTENDS Integers, FiniteSets, NodeList, SequenceTheorems, FiniteSetTheorems,
        NaturalsInduction, WellFoundedInduction, TLAPS

CONSTANTS
  Nodes,      \* addresses of node_l structures
  Lists,      \* the variables that point at lists
  NULL

NullAssumption == NULL \notin Nodes /\ IsFiniteSet(Nodes)

VARIABLES
  next, prev,   \* the pointers in each node
  head          \* head[L]: *list

vars == <<next, prev, head>>

\* Writing through a NULL pointer is what the code's tests avoid.
Set(f, n, v) == IF n = NULL THEN f ELSE [f EXCEPT ![n] = v]

Init ==
  /\ next = [n \in Nodes |-> NULL] /\ prev = [n \in Nodes |-> NULL]
  /\ head = [L \in Lists |-> NULL]

\* A node that is in no list: fresh, or unlinked before.
Loose(n) == next[n] = NULL
-----------------------------------------------------------------------------
(***************************************************************************)
(* list_prepend_node and, before *list moves on, list_append_node.         *)
(***************************************************************************)
Insert(L, n) ==
  LET here == head[L] IN
  IF here = NULL
  THEN /\ prev' = [prev EXCEPT ![n] = n]
       /\ next' = [next EXCEPT ![n] = n]
  ELSE /\ prev' = [prev EXCEPT ![n] = prev[here], ![here] = n]
       /\ next' = Set([next EXCEPT ![n] = here], prev[here], n)

list_prepend(L, n) ==
  /\ Loose(n)
  /\ Insert(L, n)
  /\ head' = [head EXCEPT ![L] = n]

\* *list goes on to the node after the new one: the first node of before.
BugHeadBehind(L, n) == head' = [head EXCEPT ![L] = n]
AppendHead(L, n) == head' = [head EXCEPT ![L] = next'[n]]

list_append(L, n) ==
  /\ Loose(n)
  /\ Insert(L, n)
  /\ AppendHead(L, n)

\* The pointers f of a node that has left its ring.
Cleared(f, n) == [f EXCEPT ![n] = NULL]

Cut(L, n) ==
  LET p == prev[n]  x == next[n] IN
  /\ IF x = n
     THEN /\ head' = [head EXCEPT ![L] = NULL]
          /\ next' = Cleared(next, n)
          /\ prev' = Cleared(prev, n)
     ELSE /\ next' = Cleared(Set(next, p, x), n)
          /\ prev' = Cleared(Set(prev, x, p), n)
          /\ head' = [head EXCEPT ![L] = IF @ = n THEN x ELSE @]

\* A list as its users see it: list_get_next_node from the head on ends the walk
\* where it would come back to the head; list_get_prev_node from the last node
\* (head->prev) ends it at the head.  At most Cardinality(Nodes) steps either way.
Walk(L) ==
  LET W[i \in 0 .. Cardinality(Nodes)] ==
        IF i = 0 \/ head[L] = NULL THEN <<>>
        ELSE LET w == W[i - 1] IN
             IF w = <<>> THEN <<head[L]>>
             ELSE IF next[Last(w)] = head[L] THEN w ELSE Append(w, next[Last(w)])
  IN W[Cardinality(Nodes)]

WalkBack(L) ==
  LET W[i \in 0 .. Cardinality(Nodes)] ==
        IF i = 0 \/ head[L] = NULL THEN <<>>
        ELSE LET w == W[i - 1] IN
             IF w = <<>> THEN <<prev[head[L]]>>
             ELSE IF Last(w) = head[L] THEN w ELSE Append(w, prev[Last(w)])
  IN W[Cardinality(Nodes)]

\* cleanup_flows and updateFlowTable unlink a node they have reached through L.
list_unlink_node(L, n) == n \in ToSet(Walk(L)) /\ Cut(L, n)

list_pop_first(L) == head[L] # NULL /\ Cut(L, head[L])

\* The two prev pointers of a splice: e .. le is the ring that grows, f .. lf the
\* one it takes in.
PrevSpliced(e, le, f, lf) == [prev EXCEPT ![e] = lf, ![f] = le]

\* The end of cleanup_flows: the ring F is hung into the ring E, behind its last.
splice(F, E) ==
  /\ F # E /\ head[F] # NULL
  /\ LET first_expired == head[E]
         last_expired_flags == prev[head[F]]
         first_expired_flags == head[F]
     IN IF first_expired # NULL
        THEN LET last_expired == prev[first_expired] IN
             /\ prev' = PrevSpliced(first_expired, last_expired,
                                     first_expired_flags, last_expired_flags)
             /\ next' = [next EXCEPT ![last_expired] = first_expired_flags,
                                     ![last_expired_flags] = first_expired]
             /\ head' = [head EXCEPT ![F] = NULL]
        ELSE /\ head' = [head EXCEPT ![E] = first_expired_flags, ![F] = NULL]
             /\ UNCHANGED <<next, prev>>
-----------------------------------------------------------------------------
Next ==
  \/ \E L \in Lists, n \in Nodes :
       list_prepend(L, n) \/ list_append(L, n) \/ list_unlink_node(L, n)
  \/ \E L \in Lists : list_pop_first(L)
  \/ \E F, E \in Lists : splice(F, E)

Spec == Init /\ [][Next]_vars
-----------------------------------------------------------------------------
(***************************************************************************)
(* Properties.                                                             *)
(***************************************************************************)
\* Walking a list backwards (list_get_last_node, list_get_prev_node), as
\* cleanup_flows does, meets the nodes of the forward walk in reverse order.
BothWaysAgree == \A L \in Lists : WalkBack(L) = Reverse(Walk(L))

\* A node that is loose is in no ring, and no pointer leads to it; every other
\* node is in exactly one.
LooseIsFree ==
  \A n \in Nodes :
    /\ Loose(n) => \A m \in Nodes : next[m] # n /\ prev[m] # n
    /\ Cardinality({L \in Lists : n \in ToSet(Walk(L))}) = (IF Loose(n) THEN 0 ELSE 1)

Seqs == INSTANCE NodeLists WITH lists <- [L \in Lists |-> Walk(L)]

\* The rings implement the lists of NodeLists, each operation of list.c the one of
\* the same name: list_append adds at the end, splice keeps both orders, and no
\* operation disturbs a list it is not called on.
OperationKept ==
  /\ Seqs!Next \/ \A L \in Lists : Walk(L)' = Walk(L)
  /\ \A L \in Lists, n \in Nodes :
       /\ list_prepend(L, n) => Seqs!Prepend(L, n)
       /\ list_append(L, n) => Seqs!Add(L, n)
       /\ list_unlink_node(L, n) => Seqs!Unlink(L, n)
  /\ \A L \in Lists : list_pop_first(L) => Seqs!Pop(L)
  /\ \A F, E \in Lists : splice(F, E) => Seqs!Splice(F, E)
ImplementsLists == Seqs!Init /\ [][OperationKept]_vars
-----------------------------------------------------------------------------
(***************************************************************************)
(* Proofs, for any number of nodes and lists: the rings of list.c          *)
(* implement the lists of NodeLists.                                       *)
(*                                                                         *)
(* The invariant RInv says that the lists which the walks meet are rings:  *)
(* the pointers of the node at each place lead to the places after and     *)
(* before it, no node is in two rings, and a node in none has no pointers. *)
(* Three things are shown: a walk along a ring meets its nodes (WalkMeets: *)
(* the first turn at which two walks differ does not exist); what each of  *)
(* the three ways to change pointers (Insert, Cut, splice) does to a ring; *)
(* and that no other ring notices (RepStep).                               *)
(***************************************************************************)
\* A set of numbers that is not empty has a least one: the induction of these proofs.
LEMMA LeastNat ==
  ASSUME NEW T \in SUBSET Nat, T # {}
  PROVE  \E m \in T : \A i \in T : m <= i
<1> DEFINE R == {p \in Nat \X Nat : p[1] < p[2]}
<1>1. IsWellFoundedOn(R, Nat)
  BY NatLessThanWellFounded DEF OpToRel
<1>2. PICK m \in T : \A y \in T : ~ (<<y, m>> \in R)
  BY ONLY <1>1, WFMin, T \in SUBSET Nat, T # {}
<1>3. \A y \in T : ~ (y < m)
  BY <1>2
<1> QED
  BY <1>2, <1>3

\* The place behind place i of a ring of k nodes, and the one before it.
After(k, i) == IF i = k THEN 1 ELSE i + 1
Before(k, i) == IF i = 1 THEN k ELSE i - 1

\* Node n is in the list l; no node is in it twice.
In(n, l) == \E i \in 1 .. Len(l) : l[i] = n

Once(l) == \A i, j \in 1 .. Len(l) : l[i] = l[j] => i = j

\* Through the head h and the pointers nx and pv the nodes of l form a ring.
Ring(l, h, nx, pv) ==
  /\ l \in Seq(Nodes) /\ Once(l)
  /\ IF l = <<>> THEN h = NULL ELSE h = l[1]
  /\ \A i \in 1 .. Len(l) :
       nx[l[i]] = l[After(Len(l), i)] /\ pv[l[i]] = l[Before(Len(l), i)]

\* One turn of a walk along the pointers p, forwards or backwards: w is what it
\* has met so far.
Forth(h, p, w) == IF w = <<>> THEN <<h>>
                  ELSE IF p[Last(w)] = h THEN w ELSE Append(w, p[Last(w)])
Back(h, p, w) == IF w = <<>> THEN <<p[h]>>
                 ELSE IF Last(w) = h THEN w ELSE Append(w, p[Last(w)])
Turn(way, h, p, w) == IF way = "forth" THEN Forth(h, p, w) ELSE Back(h, p, w)

\* W[i] is what the walk from h has met after i turns, and WalkAlong what it has met in all.
Walks(way, h, p, W) ==
  W = [i \in 0 .. Cardinality(Nodes) |->
         IF i = 0 \/ h = NULL THEN <<>> ELSE Turn(way, h, p, W[i - 1])]

WalkAlong(way, h, p) == (CHOOSE W : Walks(way, h, p, W))[Cardinality(Nodes)]

\* The walks of NodeRing are these.
LEMMA WalkIs ==
  ASSUME NEW L \in Lists
  PROVE  /\ Walk(L) = WalkAlong("forth", head[L], next)
         /\ WalkBack(L) = WalkAlong("back", head[L], prev)
  BY DEF Walk, WalkBack, WalkAlong, Walks, Turn, Forth, Back

\* A list without repetitions is no longer than there are nodes.
LEMMA NoLonger ==
  ASSUME IsFiniteSet(Nodes), NEW l \in Seq(Nodes), Once(l)
  PROVE  Len(l) <= Cardinality(Nodes) /\ Cardinality(Nodes) \in Nat
<1>1. l \in Injection(1 .. Len(l), Nodes)
  BY DEF Once, Injection, IsInjective
<1>2. Cardinality(1 .. Len(l)) = Len(l)
  <2>1. Len(l) \in Nat
    OBVIOUS
  <2>2. Cardinality(1 .. Len(l)) = IF 1 > Len(l) THEN 0 ELSE Len(l) - 1 + 1
    BY <2>1, FS_Interval
  <2> QED
    BY <2>1, <2>2
<1> QED
  BY <1>1, <1>2, FS_Injection, FS_CardinalityType

\* Only one function satisfies the equation of a walk.
LEMMA WalksUnique ==
  ASSUME Cardinality(Nodes) \in Nat, NEW d, NEW h, NEW p, NEW V, NEW W,
         Walks(d, h, p, V), Walks(d, h, p, W)
  PROVE  V = W
<1> DEFINE N == Cardinality(Nodes)
           T == {i \in 0 .. N : V[i] # W[i]}
           B(w) == Turn(d, h, p, w)
<1>1. N \in Nat /\ V = [i \in 0 .. N |-> IF i = 0 \/ h = NULL THEN <<>> ELSE B(V[i - 1])]
               /\ W = [i \in 0 .. N |-> IF i = 0 \/ h = NULL THEN <<>> ELSE B(W[i - 1])]
  BY DEF Walks
<1> HIDE DEF N, B
<1>2. CASE T = {}
  BY <1>1, <1>2
<1>3. CASE T # {}
  <2>1. T \in SUBSET Nat
    BY <1>1
  <2>2. PICK m \in T : \A i \in T : m <= i
    <3> HIDE DEF T
    <3> QED
      BY ONLY <1>3, <2>1, LeastNat
  <2>3. m \in 0 .. N /\ V[m] # W[m]
    BY <2>2
  <2>4. m # 0 /\ h # NULL
    BY <1>1, <2>3
  <2>5. m - 1 \in 0 .. N /\ m - 1 \notin T
    <3>1. N \in Nat /\ m \in 0 .. N /\ m # 0 /\ \A i \in T : m <= i
      BY <1>1, <2>2, <2>3, <2>4
    <3> HIDE DEF T
    <3> QED
      BY ONLY <3>1
  <2>6. V[m - 1] = W[m - 1]
    BY <2>5
  <2>7. V[m] = B(V[m - 1]) /\ W[m] = B(W[m - 1])
    BY <1>1, <2>3, <2>4
  <2> QED
    BY <2>3, <2>6, <2>7
<1> QED
  BY <1>2, <1>3

\* The first i members of s.
Prefix(s, i) == SubSeq(s, 1, i)

\* A sequence grows out of its prefixes, one member at a time.
LEMMA PrefixFacts ==
  ASSUME NEW S, NEW s \in Seq(S)
  PROVE  /\ Prefix(s, 0) = <<>> /\ Prefix(s, Len(s)) = s
         /\ \A i \in 1 .. Len(s) : Prefix(s, i) # <<>> /\ Last(Prefix(s, i)) = s[i]
         /\ \A i \in 0 .. Len(s) - 1 : Append(Prefix(s, i), s[i + 1]) = Prefix(s, i + 1)
<1>1. Len(s) \in Nat /\ \A i \in 1 .. Len(s) : s[i] \in S
  OBVIOUS
<1>2. \A i \in 0 .. Len(s) : /\ Prefix(s, i) \in Seq(S) /\ Len(Prefix(s, i)) = i
                             /\ \A j \in 1 .. i : Prefix(s, i)[j] = s[j]
  <2> TAKE i \in 0 .. Len(s)
  <2>1. \A j \in 1 .. i : s[j] \in S
    BY <1>1
  <2>2. /\ SubSeq(s, 1, i) \in Seq(S) /\ Len(SubSeq(s, 1, i)) = IF 1 <= i THEN i - 1 + 1 ELSE 0
        /\ \A j \in 1 .. i - 1 + 1 : SubSeq(s, 1, i)[j] = s[1 + j - 1]
    BY ONLY <1>1, <2>1, SubSeqProperties, i \in 0 .. Len(s)
  <2> QED
    BY <1>1, <2>2 DEF Prefix
<1>3. Prefix(s, 0) = <<>>
  BY <1>1, <1>2
<1>4. Prefix(s, Len(s)) = s
  BY <1>1, <1>2
<1>5. \A i \in 1 .. Len(s) : Prefix(s, i) # <<>> /\ Last(Prefix(s, i)) = s[i]
  BY <1>1, <1>2 DEF Last
<1>6. ASSUME NEW i \in 0 .. Len(s) - 1 PROVE Append(Prefix(s, i), s[i + 1]) = Prefix(s, i + 1)
  <2>1. i \in 0 .. Len(s) /\ i + 1 \in 0 .. Len(s) /\ i + 1 \in 1 .. Len(s)
    BY <1>1
  <2>2. PICK u \in Seq(S), v \in Seq(S), e \in S :
          u = Prefix(s, i) /\ v = Prefix(s, i + 1) /\ e = s[i + 1]
    BY <1>1, <1>2, <2>1
  <2>3. /\ Len(u) = i /\ Len(v) = i + 1
        /\ \A j \in 1 .. i : u[j] = s[j]
        /\ \A j \in 1 .. i + 1 : v[j] = s[j]
    BY <1>2, <2>1, <2>2
  <2>4. Append(u, e) \in Seq(S) /\ Len(Append(u, e)) = i + 1
    BY <2>2, <2>3
  <2>5. ASSUME NEW j \in 1 .. i + 1 PROVE Append(u, e)[j] = v[j]
    BY <2>1, <2>2, <2>3
  <2> QED
    BY <2>2, <2>3, <2>4, <2>5
<1> QED
  BY <1>3, <1>4, <1>5, <1>6

\* A walk whose turns meet the members of s one after the other is s.
Meets(d, h, p, s) ==
  /\ h = NULL <=> s = <<>>
  /\ \A i \in 0 .. Len(s) - 1 : Turn(d, h, p, Prefix(s, i)) = Prefix(s, i + 1)
  /\ s # <<>> => Turn(d, h, p, s) = s

\* What a walk that meets the members of s one after the other returns.
LEMMA WalkMeets ==
  ASSUME IsFiniteSet(Nodes), NEW d, NEW h, NEW p, NEW s \in Seq(Nodes), Once(s),
         Meets(d, h, p, s)
  PROVE  WalkAlong(d, h, p) = s
<1> DEFINE N == Cardinality(Nodes)
           At(i) == IF i <= Len(s) THEN Prefix(s, i) ELSE s
           G == [i \in 0 .. N |-> At(i)]
<1>1. N \in Nat /\ Len(s) \in 0 .. N
  BY NoLonger
<1>2. Prefix(s, 0) = <<>> /\ Prefix(s, Len(s)) = s
  BY PrefixFacts
<1> USE DEF Meets
<1>3. ASSUME NEW i \in 0 .. N
      PROVE  At(i) = IF i = 0 \/ h = NULL THEN <<>> ELSE Turn(d, h, p, G[i - 1])
  <2>1. CASE i = 0
    BY <1>1, <1>2, <2>1
  <2>2. CASE h = NULL /\ i # 0
    BY <1>1, <1>2, <2>2
  <2>3. CASE i # 0 /\ h # NULL
    <3>1. s # <<>> /\ i - 1 \in 0 .. N /\ G[i - 1] = At(i - 1) /\ Len(s) > 0
      BY <1>1, <2>3
    <3>2. CASE i <= Len(s)
      <4>1. i - 1 \in 0 .. Len(s) - 1 /\ (i - 1) + 1 = i /\ i - 1 <= Len(s)
        BY <1>1, <2>3, <3>2
      <4>2. Turn(d, h, p, Prefix(s, i - 1)) = Prefix(s, i)
        BY <4>1
      <4> QED
        BY <2>3, <3>1, <3>2, <4>1, <4>2
    <3>3. CASE i > Len(s)
      <4>1. At(i - 1) = s /\ At(i) = s
        BY <1>1, <1>2, <2>3, <3>3
      <4> QED
        BY <2>3, <3>1, <4>1
    <3> QED
      BY <1>1, <3>2, <3>3
  <2> QED
    BY <2>1, <2>2, <2>3
<1>4. Walks(d, h, p, G)
  <2>1. G = [i \in 0 .. N |-> IF i = 0 \/ h = NULL THEN <<>> ELSE Turn(d, h, p, G[i - 1])]
    BY <1>3
  <2> QED
    BY <2>1 DEF Walks
<1>5. (CHOOSE W : Walks(d, h, p, W)) = G
  <2> HIDE DEF G
  <2> QED
    BY <1>1, <1>4, WalksUnique
<1>6. WalkAlong(d, h, p) = G[N]
  BY <1>5 DEF WalkAlong
<1>7. At(N) = s
  BY <1>1, <1>2
<1> QED
  BY <1>1, <1>6, <1>7

\* The walks along a ring meet its nodes, in order and in reverse order.
LEMMA RingWalk ==
  ASSUME NULL \notin Nodes, IsFiniteSet(Nodes), NEW l, NEW h, NEW nx, NEW pv,
         Ring(l, h, nx, pv)
  PROVE  WalkAlong("forth", h, nx) = l /\ WalkAlong("back", h, pv) = Reverse(l)
<1> DEFINE k == Len(l)
           r == Reverse(l)
<1>1. l \in Seq(Nodes) /\ k \in Nat /\ DOMAIN l = 1 .. k /\ Once(l)
      /\ \A i \in 1 .. k : l[i] \in Nodes
  BY DEF Ring
<1>2. h = NULL <=> l = <<>>
  BY <1>1 DEF Ring
<1>3. k > 0 => h = l[1]
  BY <1>1 DEF Ring
<1>4. \A i \in 1 .. k : nx[l[i]] = l[After(k, i)] /\ pv[l[i]] = l[Before(k, i)]
  BY DEF Ring
<1>5. l = <<>> <=> k = 0
  BY <1>1
<1> HIDE DEF k
<1>6. WalkAlong("forth", h, nx) = l
  <2>1. ASSUME NEW i \in 0 .. k - 1 PROVE Turn("forth", h, nx, Prefix(l, i)) = Prefix(l, i + 1)
    <3>1. Append(Prefix(l, i), l[i + 1]) = Prefix(l, i + 1)
      BY <1>1, PrefixFacts DEF k
    <3>2. CASE i = 0
      <4>1. Prefix(l, 0) = <<>> /\ Append(<<>>, h) = <<h>>
        BY <1>1, PrefixFacts
      <4>2. k > 0 /\ i + 1 = 1
        BY <1>1, <2>1, <3>2
      <4>3. Append(<<>>, h) = Prefix(l, i + 1)
        BY <1>3, <3>1, <3>2, <4>1, <4>2
      <4> QED
        BY <3>2, <4>1, <4>3 DEF Turn, Forth
    <3>3. CASE i > 0
      <4>1. i \in 1 .. k /\ i + 1 \in 1 .. k /\ After(k, i) = i + 1 /\ k > 0 /\ 1 \in 1 .. k
            /\ i + 1 # 1
        BY <1>1, <2>1, <3>3 DEF After
      <4>2. Prefix(l, i) # <<>> /\ Last(Prefix(l, i)) = l[i]
        BY <1>1, <4>1, PrefixFacts DEF k
      <4>3. nx[l[i]] = l[i + 1] /\ l[i + 1] # l[1]
        BY <1>1, <1>4, <4>1 DEF Once, k
      <4> QED
        BY <1>3, <3>1, <4>1, <4>2, <4>3 DEF Turn, Forth
    <3>4. i = 0 \/ i > 0
      BY <1>1, <2>1
    <3> QED
      BY <3>2, <3>3, <3>4
  <2>2. ASSUME l # <<>> PROVE Turn("forth", h, nx, l) = l
    <3>1. k \in 1 .. k /\ After(k, k) = 1 /\ k > 0
      BY <1>1, <1>5, <2>2 DEF After
    <3>2. Last(l) = l[k] /\ nx[l[k]] = h
      BY <1>3, <1>4, <3>1 DEF Last, k
    <3> QED
      BY <2>2, <3>2 DEF Turn, Forth
  <2>3. Meets("forth", h, nx, l)
    BY <1>2, <2>1, <2>2 DEF Meets, k
  <2> QED
    BY <1>1, <2>3, WalkMeets
<1>7. /\ r \in Seq(Nodes) /\ Len(r) = k /\ (r = <<>> <=> l = <<>>)
      /\ \A i \in 1 .. k : r[i] = l[k - i + 1]
  BY <1>1, <1>5 DEF Reverse, k
<1>8. Once(r)
  <2> SUFFICES ASSUME NEW i \in 1 .. k, NEW j \in 1 .. k, r[i] = r[j] PROVE i = j
    BY <1>7 DEF Once
  <2>1. k - i + 1 \in 1 .. k /\ k - j + 1 \in 1 .. k
    BY <1>1
  <2>2. l[k - i + 1] = l[k - j + 1]
    BY <1>7
  <2>3. k - i + 1 = k - j + 1
    BY <1>1, <2>1, <2>2 DEF Once, k
  <2> QED
    BY <1>1, <2>3
<1> HIDE DEF r
<1>9. WalkAlong("back", h, pv) = r
  <2>1. ASSUME NEW i \in 0 .. k - 1 PROVE Turn("back", h, pv, Prefix(r, i)) = Prefix(r, i + 1)
    <3>1. Append(Prefix(r, i), r[i + 1]) = Prefix(r, i + 1)
      BY <1>7, PrefixFacts
    <3>2. CASE i = 0
      <4>1. Prefix(r, 0) = <<>> /\ Append(<<>>, pv[h]) = <<pv[h]>>
        BY <1>7, PrefixFacts
      <4>2. k > 0 /\ 1 \in 1 .. k /\ Before(k, 1) = k /\ k - 1 + 1 = k
        BY <1>1, <2>1 DEF Before
      <4>3. pv[h] = r[1]
        BY <1>3, <1>4, <1>7, <4>2
      <4>4. Append(<<>>, pv[h]) = Prefix(r, i + 1)
        <5>1. i + 1 = 1
          BY <3>2
        <5> QED
          BY <3>1, <3>2, <4>1, <4>3, <5>1
      <4> QED
        BY <3>2, <4>1, <4>4 DEF Turn, Back
    <3>3. CASE i > 0
      <4>1. /\ i \in 1 .. k /\ i + 1 \in 1 .. k /\ k > 0 /\ 1 \in 1 .. k
            /\ k - i + 1 \in 1 .. k /\ k - i + 1 # 1
            /\ Before(k, k - i + 1) = k - (i + 1) + 1
        BY <1>1, <2>1, <3>3 DEF Before
      <4>2. Prefix(r, i) # <<>> /\ Last(Prefix(r, i)) = r[i]
        BY <1>7, <4>1, PrefixFacts
      <4>3. pv[r[i]] = r[i + 1]
        BY <1>4, <1>7, <4>1
      <4>4. r[i] # h
        BY <1>1, <1>3, <1>7, <4>1 DEF Once, k
      <4> QED
        BY <3>1, <4>2, <4>3, <4>4 DEF Turn, Back
    <3>4. i = 0 \/ i > 0
      BY <1>1, <2>1
    <3> QED
      BY <3>2, <3>3, <3>4
  <2>2. ASSUME r # <<>> PROVE Turn("back", h, pv, r) = r
    <3>1. k \in 1 .. k /\ k - k + 1 = 1 /\ k > 0
      BY <1>1, <1>5, <1>7, <2>2
    <3>2. Last(r) = h
      BY <1>3, <1>7, <3>1 DEF Last
    <3> QED
      BY <2>2, <3>2 DEF Turn, Back
  <2>3. h = NULL <=> r = <<>>
    BY <1>2, <1>7
  <2>4. \A i \in 0 .. Len(r) - 1 : Turn("back", h, pv, Prefix(r, i)) = Prefix(r, i + 1)
    BY <1>7, <2>1
  <2>5. Meets("back", h, pv, r)
    BY <2>2, <2>3, <2>4 DEF Meets
  <2> QED
    BY <1>7, <1>8, <2>5, WalkMeets
<1> QED
  BY <1>6, <1>9 DEF r

\* The lists ls are what the heads hd and the pointers nx and pv show: a ring for each, no
\* node in two of them, and no pointers in a node that is in none.
Rep(ls, hd, nx, pv) ==
  /\ ls = [L \in Lists |-> ls[L]] /\ hd = [L \in Lists |-> hd[L]]
  /\ nx \in [Nodes -> Nodes \cup {NULL}] /\ pv \in [Nodes -> Nodes \cup {NULL}]
  /\ \A L \in Lists : Ring(ls[L], hd[L], nx, pv)
  /\ \A L, M \in Lists, n \in Nodes : In(n, ls[L]) /\ In(n, ls[M]) => L = M
  /\ \A n \in Nodes : (\A L \in Lists : ~ In(n, ls[L])) => nx[n] = NULL /\ pv[n] = NULL

\* List L becomes l2, and the pointers change in no node outside the two, except that a node
\* that leaves is cleared.
Changes(ls, nx, pv, L, l2, nx2, pv2) ==
  /\ \A n \in Nodes : ~ In(n, ls[L]) /\ ~ In(n, l2) => nx2[n] = nx[n] /\ pv2[n] = pv[n]
  /\ \A n \in Nodes : In(n, ls[L]) /\ ~ In(n, l2) => nx2[n] = NULL /\ pv2[n] = NULL
  /\ \A n \in Nodes, M \in Lists : In(n, l2) /\ In(n, ls[M]) => M = L

\* A ring does not depend on the pointers of nodes outside it.
LEMMA RingKept ==
  ASSUME NEW l, NEW h, NEW nx, NEW pv, NEW nx2, NEW pv2, Ring(l, h, nx, pv),
         \A n \in Nodes : In(n, l) => nx2[n] = nx[n] /\ pv2[n] = pv[n]
  PROVE  Ring(l, h, nx2, pv2)
  BY DEF Ring, In

\* To show the rings after an operation on one list it is enough to show that list's ring.
LEMMA RepStep ==
  ASSUME NEW ls, NEW hd, NEW nx, NEW pv, Rep(ls, hd, nx, pv), NEW L \in Lists, NEW l2, NEW h2,
         NEW nx2 \in [Nodes -> Nodes \cup {NULL}], NEW pv2 \in [Nodes -> Nodes \cup {NULL}],
         Ring(l2, h2, nx2, pv2), Changes(ls, nx, pv, L, l2, nx2, pv2)
  PROVE  Rep([ls EXCEPT ![L] = l2], [hd EXCEPT ![L] = h2], nx2, pv2)
<1> DEFINE ls2 == [ls EXCEPT ![L] = l2]
           hd2 == [hd EXCEPT ![L] = h2]
<1>1. /\ ls2 = [M \in Lists |-> ls2[M]] /\ hd2 = [M \in Lists |-> hd2[M]]
      /\ ls2[L] = l2 /\ hd2[L] = h2
      /\ \A M \in Lists : M # L => ls2[M] = ls[M] /\ hd2[M] = hd[M]
  BY DEF Rep
<1> HIDE DEF ls2, hd2
<1>2. ASSUME NEW M \in Lists PROVE Ring(ls2[M], hd2[M], nx2, pv2)
  <2>1. CASE M # L
    <3>1. Ring(ls[M], hd[M], nx, pv)
      BY DEF Rep
    <3>2. \A n \in Nodes : In(n, ls[M]) => nx2[n] = nx[n] /\ pv2[n] = pv[n]
      BY <2>1 DEF Rep, Changes
    <3> QED
      BY <1>1, <2>1, <3>1, <3>2, RingKept
  <2> QED
    BY <1>1, <2>1
<1>3. \A K, M \in Lists, n \in Nodes : In(n, ls2[K]) /\ In(n, ls2[M]) => K = M
  BY <1>1 DEF Rep, Changes
<1>4. \A n \in Nodes : (\A M \in Lists : ~ In(n, ls2[M])) => nx2[n] = NULL /\ pv2[n] = NULL
  BY <1>1 DEF Rep, Changes
<1> QED
  BY <1>1, <1>2, <1>3, <1>4 DEF Rep, ls2, hd2

\* The pointers of all nodes.
Pointers == [Nodes -> Nodes \cup {NULL}]

\* What Insert of node n does to the pointers around the list l.
Inserted(l, n, nx, pv, nx2, pv2) ==
  /\ nx2 \in Pointers /\ pv2 \in Pointers
  /\ nx2[n] = (IF l = <<>> THEN n ELSE l[1])
  /\ pv2[n] = (IF l = <<>> THEN n ELSE l[Len(l)])
  /\ \A m \in Nodes \ {n} :
       /\ nx2[m] = (IF l # <<>> /\ m = l[Len(l)] THEN n ELSE nx[m])
       /\ pv2[m] = (IF l # <<>> /\ m = l[1] THEN n ELSE pv[m])

\* Insert changes the pointers as Inserted says.
LEMMA InsertPointers ==
  ASSUME NULL \notin Nodes, NEW l, NEW h, NEW nx \in Pointers, NEW pv \in Pointers,
         Ring(l, h, nx, pv), NEW n \in Nodes, ~ In(n, l), NEW nx2, NEW pv2,
         IF h = NULL THEN pv2 = [pv EXCEPT ![n] = n] /\ nx2 = [nx EXCEPT ![n] = n]
         ELSE /\ pv2 = [pv EXCEPT ![n] = pv[h], ![h] = n]
              /\ nx2 = Set([nx EXCEPT ![n] = h], pv[h], n)
  PROVE  Inserted(l, n, nx, pv, nx2, pv2)
<1>1. l \in Seq(Nodes) /\ Len(l) \in Nat /\ (l = <<>> <=> Len(l) = 0)
      /\ \A i \in 1 .. Len(l) : l[i] \in Nodes
  BY DEF Ring
<1>2. CASE l = <<>>
  BY <1>1, <1>2 DEF Ring, Inserted, Pointers
<1>3. CASE l # <<>>
  <2>1. PICK a \in Nodes, z \in Nodes : a = l[1] /\ z = l[Len(l)] /\ a # n /\ z # n
    BY <1>1, <1>3 DEF In
  <2>2. h = a /\ h # NULL /\ pv[h] = z /\ z # NULL
    BY <1>1, <1>3, <2>1 DEF Ring, Before
  <2>3. pv2 = [pv EXCEPT ![n] = z, ![a] = n] /\ nx2 = [nx EXCEPT ![n] = a, ![z] = n]
    BY <2>2 DEF Set
  <2>4. nx2 \in Pointers /\ pv2 \in Pointers
    BY <2>1, <2>3 DEF Pointers
  <2>5. nx2[n] = a /\ pv2[n] = z
    BY <2>1, <2>3 DEF Pointers
  <2>6. \A m \in Nodes \ {n} : /\ nx2[m] = (IF m = z THEN n ELSE nx[m])
                               /\ pv2[m] = (IF m = a THEN n ELSE pv[m])
    BY <2>1, <2>3 DEF Pointers
  <2> QED
    BY <1>3, <2>1, <2>4, <2>5, <2>6 DEF Inserted
<1> QED
  BY <1>2, <1>3

\* What a ring says of its head.
LEMMA RingFacts ==
  ASSUME NEW l, NEW h, NEW nx, NEW pv, Ring(l, h, nx, pv)
  PROVE  /\ l \in Seq(Nodes) /\ Len(l) \in Nat /\ (l = <<>> <=> Len(l) = 0)
         /\ \A i \in 1 .. Len(l) : l[i] \in Nodes
         /\ \A i, j \in 1 .. Len(l) : l[i] = l[j] => i = j
         /\ \A i \in 1 .. Len(l) :
              nx[l[i]] = l[After(Len(l), i)] /\ pv[l[i]] = l[Before(Len(l), i)]
  BY DEF Ring, Once

\* An inserted node that becomes the head gives the ring of the list with it in front.
LEMMA PrependRing ==
  ASSUME NEW l, NEW h, NEW nx, NEW pv, Ring(l, h, nx, pv),
         NEW n \in Nodes, ~ In(n, l), NEW nx2, NEW pv2, Inserted(l, n, nx, pv, nx2, pv2)
  PROVE  Ring(<<n>> \o l, n, nx2, pv2) /\ \A m \in Nodes : In(m, <<n>> \o l) <=> m = n \/ In(m, l)
<1>1. /\ l \in Seq(Nodes) /\ Len(l) \in Nat /\ (l = <<>> <=> Len(l) = 0)
      /\ \A i \in 1 .. Len(l) : l[i] \in Nodes
      /\ \A i, j \in 1 .. Len(l) : l[i] = l[j] => i = j
      /\ \A i \in 1 .. Len(l) :
           nx[l[i]] = l[After(Len(l), i)] /\ pv[l[i]] = l[Before(Len(l), i)]
  BY ONLY Ring(l, h, nx, pv), RingFacts
<1>2. PICK k \in Nat : k = Len(l)
  BY <1>1
<1>3. PICK u \in Seq(Nodes) : /\ u = <<n>> \o l /\ Len(u) = k + 1 /\ u[1] = n
                              /\ \A i \in 1 .. k : u[i + 1] = l[i]
  <2>1. <<n>> \in Seq(Nodes) /\ Len(<<n>>) = 1 /\ <<n>>[1] = n
    OBVIOUS
  <2>2. /\ <<n>> \o l \in Seq(Nodes) /\ Len(<<n>> \o l) = 1 + k
        /\ \A i \in 1 .. 1 + k : (<<n>> \o l)[i] = IF i <= 1 THEN <<n>>[i] ELSE l[i - 1]
    BY <1>1, <1>2, <2>1, ConcatProperties
  <2>3. 1 \in 1 .. 1 + k /\ 1 + k = k + 1
        /\ \A i \in 1 .. k : i + 1 \in 1 .. 1 + k /\ ~ (i + 1 <= 1) /\ (i + 1) - 1 = i
    BY <1>2
  <2>4. (<<n>> \o l)[1] = n /\ \A i \in 1 .. k : (<<n>> \o l)[i + 1] = l[i]
    BY <2>1, <2>2, <2>3
  <2> QED
    BY <2>2, <2>3, <2>4
<1>4. \A i \in 1 .. k : l[i] # n
  BY <1>2 DEF In
<1>5. \A j \in 1 .. k + 1 : j = 1 \/ (j - 1 \in 1 .. k /\ u[j] = l[j - 1])
  BY <1>2, <1>3
<1>6. ASSUME NEW i \in 1 .. k + 1, NEW j \in 1 .. k + 1, u[i] = u[j] PROVE i = j
  <2>1. CASE i = 1 \/ j = 1
    BY <1>3, <1>4, <1>5, <1>6, <2>1
  <2>2. CASE i # 1 /\ j # 1
    <3>1. i - 1 \in 1 .. k /\ j - 1 \in 1 .. k /\ l[i - 1] = l[j - 1]
      BY <1>5, <1>6, <2>2
    <3>2. i - 1 = j - 1
      BY <1>1, <1>2, <3>1
    <3> QED
      BY <1>2, <3>2
  <2> QED
    BY <2>1, <2>2
<1>7. \A m \in Nodes : In(m, u) <=> m = n \/ In(m, l)
  <2> TAKE m \in Nodes
  <2>1. 1 \in 1 .. k + 1 /\ \A i \in 1 .. k : i + 1 \in 1 .. k + 1
    BY <1>2
  <2>2. ASSUME In(m, u) PROVE m = n \/ In(m, l)
    BY <1>2, <1>3, <1>5, <2>2 DEF In
  <2>3. ASSUME In(m, l) PROVE In(m, u)
    <3>1. PICK i \in 1 .. k : l[i] = m
      BY <1>2, <2>3 DEF In
    <3>2. i + 1 \in 1 .. k + 1 /\ u[i + 1] = m
      BY <1>3, <2>1, <3>1
    <3> QED
      BY <1>3, <3>2 DEF In
  <2> QED
    BY <1>3, <2>1, <2>2, <2>3 DEF In
<1>8. ASSUME NEW j \in 1 .. k + 1 PROVE nx2[u[j]] = u[After(k + 1, j)]
  <2>1. CASE j = 1
    BY <1>1, <1>2, <1>3, <2>1 DEF Inserted, After
  <2>2. CASE j = k + 1 /\ j # 1
    BY <1>1, <1>2, <1>3, <1>4, <1>5, <2>2 DEF Inserted, After
  <2>3. CASE j # k + 1 /\ j # 1
    <3>1. j - 1 \in 1 .. k /\ u[j] = l[j - 1] /\ j - 1 # k /\ After(k + 1, j) = j + 1
          /\ After(k, j - 1) = j /\ j \in 1 .. k /\ k \in 1 .. k
      BY <1>2, <1>5, <2>3 DEF After
    <3>2. l[j - 1] # n /\ l[j - 1] # l[k] /\ l[j - 1] \in Nodes
      BY <1>1, <1>2, <1>4, <3>1
    <3>3. nx2[l[j - 1]] = nx[l[j - 1]]
      BY <1>2, <3>2 DEF Inserted
    <3>4. nx[l[j - 1]] = l[j]
      BY <1>1, <1>2, <3>1
    <3> QED
      BY <1>3, <3>1, <3>3, <3>4
  <2> QED
    BY <2>1, <2>2, <2>3
<1>9. ASSUME NEW j \in 1 .. k + 1 PROVE pv2[u[j]] = u[Before(k + 1, j)]
  <2>1. CASE j = 1
    BY <1>1, <1>2, <1>3, <2>1 DEF Inserted, Before
  <2>2. CASE j = 2
    BY <1>1, <1>2, <1>3, <1>4, <1>5, <2>2 DEF Inserted, Before
  <2>3. CASE j # 1 /\ j # 2
    <3>1. j - 1 \in 1 .. k /\ u[j] = l[j - 1] /\ j - 1 # 1 /\ Before(k + 1, j) = j - 1
          /\ Before(k, j - 1) = j - 2 /\ j - 2 \in 1 .. k /\ 1 \in 1 .. k /\ (j - 2) + 1 = j - 1
      BY <1>2, <1>5, <2>3 DEF Before
    <3>2. l[j - 1] # n /\ l[j - 1] # l[1] /\ l[j - 1] \in Nodes
      BY <1>1, <1>2, <1>4, <3>1
    <3>3. pv2[l[j - 1]] = pv[l[j - 1]]
      BY <1>2, <3>2 DEF Inserted
    <3>4. pv[l[j - 1]] = l[j - 2]
      BY <1>1, <1>2, <3>1
    <3>5. u[j - 1] = l[j - 2]
      BY <1>3, <3>1
    <3> QED
      BY <3>1, <3>3, <3>4, <3>5
  <2> QED
    BY <2>1, <2>2, <2>3
<1>10. Ring(u, n, nx2, pv2)
  <2>1. Once(u)
    BY <1>3, <1>6 DEF Once
  <2>2. \A i \in 1 .. Len(u) : nx2[u[i]] = u[After(Len(u), i)] /\ pv2[u[i]] = u[Before(Len(u), i)]
    BY <1>3, <1>8, <1>9
  <2>3. u # <<>>
    BY <1>2, <1>3
  <2> QED
    BY <1>3, <2>1, <2>2, <2>3 DEF Ring
<1> QED
  BY <1>3, <1>7, <1>10

\* One that does not become the head gives the ring of the list with it at the end.
LEMMA AppendRing ==
  ASSUME NEW l, NEW h, NEW nx, NEW pv, Ring(l, h, nx, pv),
         NEW n \in Nodes, ~ In(n, l), NEW nx2, NEW pv2, Inserted(l, n, nx, pv, nx2, pv2)
  PROVE  Ring(Append(l, n), nx2[n], nx2, pv2)
         /\ \A m \in Nodes : In(m, Append(l, n)) <=> m = n \/ In(m, l)
<1>1. /\ l \in Seq(Nodes) /\ Len(l) \in Nat /\ (l = <<>> <=> Len(l) = 0)
      /\ \A i \in 1 .. Len(l) : l[i] \in Nodes
      /\ \A i, j \in 1 .. Len(l) : l[i] = l[j] => i = j
      /\ \A i \in 1 .. Len(l) :
           nx[l[i]] = l[After(Len(l), i)] /\ pv[l[i]] = l[Before(Len(l), i)]
  BY ONLY Ring(l, h, nx, pv), RingFacts
<1>2. PICK k \in Nat : k = Len(l)
  BY <1>1
<1>3. PICK u \in Seq(Nodes) : /\ u = Append(l, n) /\ Len(u) = k + 1 /\ u[k + 1] = n
                              /\ \A i \in 1 .. k : u[i] = l[i]
  <2>1. /\ Append(l, n) \in Seq(Nodes) /\ Len(Append(l, n)) = k + 1
        /\ Append(l, n)[k + 1] = n /\ \A i \in 1 .. k : Append(l, n)[i] = l[i]
    BY <1>1, <1>2, AppendProperties
  <2> QED
    BY <2>1
<1>4. \A i \in 1 .. k : l[i] # n
  BY <1>2 DEF In
<1>5. \A j \in 1 .. k + 1 : j = k + 1 \/ (j \in 1 .. k /\ u[j] = l[j])
  BY <1>2, <1>3
<1>6. \A i, j \in 1 .. k + 1 : u[i] = u[j] => i = j
  BY <1>1, <1>2, <1>3, <1>4, <1>5
<1>7. \A m \in Nodes : In(m, u) <=> m = n \/ In(m, l)
  <2>1. k + 1 \in 1 .. k + 1 /\ \A i \in 1 .. k : i \in 1 .. k + 1
    BY <1>2
  <2> QED
    BY <1>1, <1>2, <1>3, <1>5, <2>1 DEF In
<1>8. ASSUME NEW j \in 1 .. k + 1 PROVE nx2[u[j]] = u[After(k + 1, j)]
  <2>1. CASE j = k + 1
    BY <1>1, <1>2, <1>3, <2>1 DEF Inserted, After
  <2>2. CASE j = k
    BY <1>1, <1>2, <1>3, <1>4, <1>5, <2>2 DEF Inserted, After
  <2>3. CASE j # k + 1 /\ j # k
    <3>1. j \in 1 .. k /\ After(k + 1, j) = j + 1 /\ After(k, j) = j + 1 /\ j + 1 \in 1 .. k
          /\ k \in 1 .. k
      BY <1>2, <1>5, <2>3 DEF After
    <3>2. l[j] # n /\ l[j] # l[k] /\ l[j] \in Nodes
      BY <1>1, <1>2, <1>4, <2>3, <3>1
    <3>3. nx2[l[j]] = nx[l[j]]
      BY <1>2, <3>2 DEF Inserted
    <3>4. nx[l[j]] = l[j + 1]
      BY <1>1, <1>2, <3>1
    <3> QED
      BY <1>3, <3>1, <3>3, <3>4
  <2> QED
    BY <2>1, <2>2, <2>3
<1>9. ASSUME NEW j \in 1 .. k + 1 PROVE pv2[u[j]] = u[Before(k + 1, j)]
  <2>1. CASE j = k + 1
    BY <1>1, <1>2, <1>3, <2>1 DEF Inserted, Before
  <2>2. CASE j = 1 /\ j # k + 1
    BY <1>1, <1>2, <1>3, <1>4, <1>5, <2>2 DEF Inserted, Before
  <2>3. CASE j # 1 /\ j # k + 1
    <3>1. j \in 1 .. k /\ Before(k + 1, j) = j - 1 /\ Before(k, j) = j - 1 /\ j - 1 \in 1 .. k
          /\ 1 \in 1 .. k
      BY <1>2, <1>5, <2>3 DEF Before
    <3>2. l[j] # n /\ l[j] # l[1] /\ l[j] \in Nodes
      BY <1>1, <1>2, <1>4, <2>3, <3>1
    <3>3. pv2[l[j]] = pv[l[j]]
      BY <1>2, <3>2 DEF Inserted
    <3>4. pv[l[j]] = l[j - 1]
      BY <1>1, <1>2, <3>1
    <3> QED
      BY <1>3, <3>1, <3>3, <3>4
  <2> QED
    BY <2>1, <2>2, <2>3
<1>10. nx2[n] = u[1]
  BY <1>1, <1>2, <1>3 DEF Inserted
<1>11. Ring(u, nx2[n], nx2, pv2)
  <2>1. Once(u)
    BY <1>3, <1>6 DEF Once
  <2>2. \A i \in 1 .. Len(u) : nx2[u[i]] = u[After(Len(u), i)] /\ pv2[u[i]] = u[Before(Len(u), i)]
    BY <1>3, <1>8, <1>9
  <2>3. u # <<>>
    BY <1>2, <1>3
  <2> QED
    BY <1>3, <1>10, <2>1, <2>2, <2>3 DEF Ring
<1> QED
  BY <1>3, <1>7, <1>11

\* The place that place i of a list without its place j had.
Kept(j, i) == IF i < j THEN i ELSE i + 1

\* The places of a list without its place j, and their neighbours.
LEMMA KeptPlaces ==
  ASSUME NEW k \in Nat, k > 1, NEW j \in 1 .. k, NEW i \in 1 .. k - 1
  PROVE  /\ Kept(j, i) \in 1 .. k /\ Kept(j, i) # j
         /\ After(k - 1, i) \in 1 .. k - 1 /\ Before(k - 1, i) \in 1 .. k - 1
         /\ Kept(j, After(k - 1, i))
              = IF Kept(j, i) = Before(k, j) THEN After(k, j) ELSE After(k, Kept(j, i))
         /\ Kept(j, Before(k - 1, i))
              = IF Kept(j, i) = After(k, j) THEN Before(k, j) ELSE Before(k, Kept(j, i))
  BY DEF Kept, After, Before

\* What Cut of the node at place j of the list l does to the pointers.
Removed(l, j, nx, pv, nx2, pv2) ==
  /\ nx2 \in Pointers /\ pv2 \in Pointers
  /\ nx2[l[j]] = NULL /\ pv2[l[j]] = NULL
  /\ \A m \in Nodes \ {l[j]} :
       /\ nx2[m] = (IF m = l[Before(Len(l), j)] THEN l[After(Len(l), j)] ELSE nx[m])
       /\ pv2[m] = (IF m = l[After(Len(l), j)] THEN l[Before(Len(l), j)] ELSE pv[m])

\* Cut changes the pointers as Removed says.
LEMMA CutPointers ==
  ASSUME NULL \notin Nodes, NEW l, NEW h, NEW nx \in Pointers, NEW pv \in Pointers,
         Ring(l, h, nx, pv), NEW j \in 1 .. Len(l), NEW nx2, NEW pv2,
         IF nx[l[j]] = l[j] THEN nx2 = Cleared(nx, l[j]) /\ pv2 = Cleared(pv, l[j])
         ELSE /\ nx2 = Cleared(Set(nx, pv[l[j]], nx[l[j]]), l[j])
              /\ pv2 = Cleared(Set(pv, nx[l[j]], pv[l[j]]), l[j])
  PROVE  /\ Removed(l, j, nx, pv, nx2, pv2)
         /\ nx[l[j]] = l[j] <=> Len(l) = 1
<1>1. /\ l \in Seq(Nodes) /\ Len(l) \in Nat /\ (l = <<>> <=> Len(l) = 0)
      /\ \A i \in 1 .. Len(l) : l[i] \in Nodes
      /\ \A a, b \in 1 .. Len(l) : l[a] = l[b] => a = b
      /\ \A i \in 1 .. Len(l) :
           nx[l[i]] = l[After(Len(l), i)] /\ pv[l[i]] = l[Before(Len(l), i)]
  BY ONLY Ring(l, h, nx, pv), RingFacts
<1>2. PICK k \in Nat : k = Len(l) /\ k > 0
  BY <1>1
<1>3. /\ After(k, j) \in 1 .. k /\ Before(k, j) \in 1 .. k
      /\ After(k, j) = j <=> k = 1
      /\ Before(k, j) = j <=> k = 1
  BY <1>2 DEF After, Before
<1>4. PICK n \in Nodes, x \in Nodes, p \in Nodes :
        /\ n = l[j] /\ x = l[After(k, j)] /\ p = l[Before(k, j)]
        /\ nx[n] = x /\ pv[n] = p /\ (x = n <=> k = 1) /\ (p = n <=> k = 1)
  BY <1>1, <1>2, <1>3
<1>5. CASE k = 1
  <2>1. nx2 = [nx EXCEPT ![n] = NULL] /\ pv2 = [pv EXCEPT ![n] = NULL]
    BY <1>4, <1>5 DEF Cleared
  <2>2. nx2 \in Pointers /\ pv2 \in Pointers /\ nx2[n] = NULL /\ pv2[n] = NULL
        /\ \A m \in Nodes \ {n} : nx2[m] = nx[m] /\ pv2[m] = pv[m]
    BY <2>1 DEF Pointers
  <2>3. \A m \in Nodes \ {n} : m # x /\ m # p
    BY <1>4, <1>5
  <2> QED
    BY <1>2, <1>4, <1>5, <2>2, <2>3 DEF Removed
<1>6. CASE k # 1
  <2>1. x # NULL /\ p # NULL /\ x # n /\ p # n
    BY <1>4, <1>6
  <2>2. /\ nx2 = [[nx EXCEPT ![p] = x] EXCEPT ![n] = NULL]
        /\ pv2 = [[pv EXCEPT ![x] = p] EXCEPT ![n] = NULL]
    BY <1>4, <2>1 DEF Cleared, Set
  <2>3. nx2 \in Pointers /\ pv2 \in Pointers /\ nx2[n] = NULL /\ pv2[n] = NULL
    BY <2>2 DEF Pointers
  <2>4. \A m \in Nodes \ {n} : /\ nx2[m] = (IF m = p THEN x ELSE nx[m])
                               /\ pv2[m] = (IF m = x THEN p ELSE pv[m])
    BY <2>2 DEF Pointers
  <2> QED
    BY <1>2, <1>4, <1>6, <2>3, <2>4 DEF Removed
<1> QED
  BY <1>5, <1>6

\* u is l without place j.
Without(l, j, u) ==
  /\ u \in Seq(Nodes) /\ Len(u) = Len(l) - 1
  /\ \A i \in 1 .. Len(l) - 1 : u[i] = l[Kept(j, i)]

\* A node that is cut out leaves the ring of the list without it.
LEMMA CutRing ==
  ASSUME NEW l, NEW h, NEW nx, NEW pv, Ring(l, h, nx, pv), NEW j \in 1 .. Len(l),
         NEW nx2, NEW pv2, Removed(l, j, nx, pv, nx2, pv2), NEW u, Without(l, j, u), NEW h2,
         h2 = IF Len(l) = 1 THEN NULL ELSE IF h = l[j] THEN nx[l[j]] ELSE h
  PROVE  Ring(u, h2, nx2, pv2) /\ \A m \in Nodes : In(m, u) <=> m # l[j] /\ In(m, l)
<1>1. /\ l \in Seq(Nodes) /\ Len(l) \in Nat /\ (l = <<>> <=> Len(l) = 0)
      /\ \A i \in 1 .. Len(l) : l[i] \in Nodes
      /\ \A a, b \in 1 .. Len(l) : l[a] = l[b] => a = b
      /\ \A i \in 1 .. Len(l) :
           nx[l[i]] = l[After(Len(l), i)] /\ pv[l[i]] = l[Before(Len(l), i)]
  BY ONLY Ring(l, h, nx, pv), RingFacts
<1>2. PICK k \in Nat : k = Len(l) /\ k > 0 /\ j \in 1 .. k
  BY <1>1
<1>3. u \in Seq(Nodes) /\ Len(u) = k - 1 /\ \A i \in 1 .. k - 1 : u[i] = l[Kept(j, i)]
  BY <1>2 DEF Without
<1>4. \A i \in 1 .. k - 1 : Kept(j, i) \in 1 .. k /\ Kept(j, i) # j
  BY <1>2 DEF Kept
<1>5. \A a, b \in 1 .. k - 1 : Kept(j, a) = Kept(j, b) => a = b
  BY <1>2 DEF Kept
<1>6. \A a \in 1 .. k : a # j => \E i \in 1 .. k - 1 : Kept(j, i) = a
  <2> TAKE a \in 1 .. k
  <2> HAVE a # j
  <2>1. CASE a < j
    <3>1. a \in 1 .. k - 1 /\ Kept(j, a) = a
      BY <1>2, <2>1 DEF Kept
    <3> QED
      BY <3>1
  <2>2. CASE a > j
    <3>1. a - 1 \in 1 .. k - 1 /\ Kept(j, a - 1) = a
      BY <1>2, <2>2 DEF Kept
    <3> QED
      BY <3>1
  <2> QED
    BY <1>2, <2>1, <2>2
<1>7. Once(u)
  <2> SUFFICES ASSUME NEW a \in 1 .. k - 1, NEW b \in 1 .. k - 1, u[a] = u[b] PROVE a = b
    BY <1>3 DEF Once
  <2>1. Kept(j, a) = Kept(j, b)
    BY <1>1, <1>2, <1>3, <1>4
  <2> QED
    BY <1>5, <2>1
<1>8. ASSUME NEW m \in Nodes PROVE In(m, u) <=> m # l[j] /\ In(m, l)
  <2>1. ASSUME In(m, u) PROVE m # l[j] /\ In(m, l)
    <3>1. PICK i \in 1 .. k - 1 : m = l[Kept(j, i)]
      BY <1>3, <2>1 DEF In
    <3> QED
      BY <1>1, <1>2, <1>4, <3>1 DEF In
  <2>2. ASSUME m # l[j], In(m, l) PROVE In(m, u)
    <3>1. PICK a \in 1 .. k : l[a] = m /\ a # j
      BY <1>2, <2>2 DEF In
    <3>2. PICK i \in 1 .. k - 1 : Kept(j, i) = a
      BY <1>6, <3>1
    <3> QED
      BY <1>3, <3>1, <3>2 DEF In
  <2> QED
    BY <2>1, <2>2
<1>9. ASSUME NEW i \in 1 .. k - 1
      PROVE  nx2[u[i]] = u[After(k - 1, i)] /\ pv2[u[i]] = u[Before(k - 1, i)]
  <2>1. k > 1
    BY <1>2
  <2>2. PICK a \in 1 .. k : a = Kept(j, i) /\ a # j
    BY <1>4
  <2>3. /\ After(k - 1, i) \in 1 .. k - 1 /\ Before(k - 1, i) \in 1 .. k - 1
        /\ Kept(j, After(k - 1, i)) = IF a = Before(k, j) THEN After(k, j) ELSE After(k, a)
        /\ Kept(j, Before(k - 1, i)) = IF a = After(k, j) THEN Before(k, j) ELSE Before(k, a)
    <3>1. k \in Nat /\ j \in 1 .. k /\ i \in 1 .. k - 1
      BY <1>2
    <3>2. /\ After(k - 1, i) \in 1 .. k - 1 /\ Before(k - 1, i) \in 1 .. k - 1
          /\ Kept(j, After(k - 1, i))
               = IF Kept(j, i) = Before(k, j) THEN After(k, j) ELSE After(k, Kept(j, i))
          /\ Kept(j, Before(k - 1, i))
               = IF Kept(j, i) = After(k, j) THEN Before(k, j) ELSE Before(k, Kept(j, i))
      BY ONLY <2>1, <3>1, KeptPlaces
    <3> QED
      BY <2>2, <3>2
  <2>4. After(k, j) \in 1 .. k /\ Before(k, j) \in 1 .. k
    BY <1>2 DEF After, Before
  <2>5. u[i] = l[a] /\ l[a] \in Nodes /\ l[a] # l[j]
    BY <1>1, <1>2, <1>3, <2>2
  <2>6. /\ l[a] = l[Before(k, j)] <=> a = Before(k, j)
        /\ l[a] = l[After(k, j)] <=> a = After(k, j)
    BY <1>1, <1>2, <2>4
  <2>7. /\ nx2[l[a]] = (IF a = Before(k, j) THEN l[After(k, j)] ELSE l[After(k, a)])
        /\ pv2[l[a]] = (IF a = After(k, j) THEN l[Before(k, j)] ELSE l[Before(k, a)])
    BY <1>1, <1>2, <2>5, <2>6 DEF Removed
  <2>8. /\ u[After(k - 1, i)] = l[Kept(j, After(k - 1, i))]
        /\ u[Before(k - 1, i)] = l[Kept(j, Before(k - 1, i))]
    BY <1>3, <2>3
  <2> QED
    BY <2>3, <2>5, <2>7, <2>8
<1>10. IF u = <<>> THEN h2 = NULL ELSE h2 = u[1]
  <2>1. u = <<>> <=> k = 1
    BY <1>2, <1>3
  <2>2. CASE k # 1
    <3>1. h = l[1] /\ 1 \in 1 .. k /\ 1 \in 1 .. k - 1
      BY <1>1, <1>2, <2>2 DEF Ring
    <3>2. CASE j = 1
      <4>1. Kept(j, 1) = 2 /\ After(k, j) = 2
        BY <1>2, <2>2, <3>2 DEF Kept, After
      <4> QED
        BY <1>1, <1>2, <1>3, <2>1, <2>2, <3>1, <3>2, <4>1
    <3>3. CASE j # 1
      <4>1. Kept(j, 1) = 1 /\ l[1] # l[j]
        BY <1>1, <1>2, <3>1, <3>3 DEF Kept
      <4> QED
        BY <1>2, <1>3, <2>1, <2>2, <3>1, <4>1
    <3> QED
      BY <3>2, <3>3
  <2> QED
    BY <1>2, <2>1, <2>2
<1>11. \A i \in 1 .. Len(u) : nx2[u[i]] = u[After(Len(u), i)] /\ pv2[u[i]] = u[Before(Len(u), i)]
  BY <1>3, <1>9
<1>12. Ring(u, h2, nx2, pv2)
  BY <1>3, <1>7, <1>10, <1>11 DEF Ring
<1> QED
  BY <1>8, <1>12

\* What the splice of cleanup_flows does to the pointers of the lists e and f.
Spliced(e, f, nx, pv, nx2, pv2) ==
  /\ nx2 \in Pointers /\ pv2 \in Pointers
  /\ \A m \in Nodes :
       /\ nx2[m] = (IF m = f[Len(f)] THEN e[1] ELSE IF m = e[Len(e)] THEN f[1] ELSE nx[m])
       /\ pv2[m] = (IF m = f[1] THEN e[Len(e)] ELSE IF m = e[1] THEN f[Len(f)] ELSE pv[m])

\* Two lists with no node in common.
Apart(e, f) == \A m \in Nodes : ~ (In(m, e) /\ In(m, f))

\* Two rings that are spliced are the ring of the one list behind the other.
LEMMA SpliceRing ==
  ASSUME NEW e, NEW h, NEW nx, NEW pv, Ring(e, h, nx, pv), e # <<>>,
         NEW f, NEW g, Ring(f, g, nx, pv), f # <<>>, Apart(e, f),
         NEW nx2, NEW pv2, Spliced(e, f, nx, pv, nx2, pv2)
  PROVE  Ring(e \o f, h, nx2, pv2) /\ \A m \in Nodes : In(m, e \o f) <=> In(m, e) \/ In(m, f)
<1>1. /\ e \in Seq(Nodes) /\ Len(e) \in Nat /\ (e = <<>> <=> Len(e) = 0)
      /\ \A i \in 1 .. Len(e) : e[i] \in Nodes
      /\ \A a, b \in 1 .. Len(e) : e[a] = e[b] => a = b
      /\ \A i \in 1 .. Len(e) :
           nx[e[i]] = e[After(Len(e), i)] /\ pv[e[i]] = e[Before(Len(e), i)]
  BY ONLY Ring(e, h, nx, pv), RingFacts
<1>2. /\ f \in Seq(Nodes) /\ Len(f) \in Nat /\ (f = <<>> <=> Len(f) = 0)
      /\ \A i \in 1 .. Len(f) : f[i] \in Nodes
      /\ \A a, b \in 1 .. Len(f) : f[a] = f[b] => a = b
      /\ \A i \in 1 .. Len(f) :
           nx[f[i]] = f[After(Len(f), i)] /\ pv[f[i]] = f[Before(Len(f), i)]
  BY ONLY Ring(f, g, nx, pv), RingFacts
<1>3. PICK k \in Nat, l \in Nat : k = Len(e) /\ l = Len(f) /\ k > 0 /\ l > 0
  BY <1>1, <1>2
<1>4. PICK u \in Seq(Nodes) : /\ u = e \o f /\ Len(u) = k + l
                              /\ \A i \in 1 .. k : u[i] = e[i]
                              /\ \A i \in 1 .. l : u[k + i] = f[i]
  <2>1. /\ e \o f \in Seq(Nodes) /\ Len(e \o f) = k + l
        /\ \A i \in 1 .. k + l : (e \o f)[i] = IF i <= k THEN e[i] ELSE f[i - k]
    BY <1>1, <1>2, <1>3, ConcatProperties
  <2>2. \A i \in 1 .. k : i \in 1 .. k + l /\ i <= k
    BY <1>3
  <2>3. \A i \in 1 .. l : k + i \in 1 .. k + l /\ ~ (k + i <= k) /\ (k + i) - k = i
    BY <1>3
  <2>4. (\A i \in 1 .. k : (e \o f)[i] = e[i]) /\ \A i \in 1 .. l : (e \o f)[k + i] = f[i]
    BY <2>1, <2>2, <2>3
  <2> QED
    BY <2>1, <2>4
<1>5. \A i \in 1 .. k, j \in 1 .. l : e[i] # f[j]
  BY <1>1, <1>3 DEF Apart, In
<1>6. \A i \in 1 .. k + l :
        i \in 1 .. k \/ (i - k \in 1 .. l /\ k + (i - k) = i /\ u[i] = f[i - k])
  <2> TAKE i \in 1 .. k + l
  <2>1. i \in 1 .. k \/ (i - k \in 1 .. l /\ k + (i - k) = i)
    BY <1>3
  <2>2. ASSUME i - k \in 1 .. l, k + (i - k) = i PROVE u[i] = f[i - k]
    <3>1. u[k + (i - k)] = f[i - k]
      BY <1>4, <2>2
    <3> QED
      BY <2>2, <3>1
  <2> QED
    BY <2>1, <2>2
<1>7. Once(u)
  <2> SUFFICES ASSUME NEW a \in 1 .. k + l, NEW b \in 1 .. k + l, u[a] = u[b] PROVE a = b
    BY <1>4 DEF Once
  <2>1. CASE a \in 1 .. k /\ b \in 1 .. k
    BY <1>1, <1>3, <1>4, <2>1
  <2>2. CASE a \in 1 .. k /\ b \notin 1 .. k
    BY <1>4, <1>5, <1>6, <2>2
  <2>3. CASE a \notin 1 .. k /\ b \in 1 .. k
    BY <1>4, <1>5, <1>6, <2>3
  <2>4. CASE a \notin 1 .. k /\ b \notin 1 .. k
    <3>1. a - k \in 1 .. l /\ b - k \in 1 .. l /\ f[a - k] = f[b - k]
      BY <1>6, <2>4
    <3>2. a - k = b - k
      BY <1>2, <1>3, <3>1
    <3> QED
      BY <1>3, <3>2
  <2> QED
    BY <2>1, <2>2, <2>3, <2>4
<1>8. ASSUME NEW m \in Nodes PROVE In(m, u) <=> In(m, e) \/ In(m, f)
  <2>1. ASSUME In(m, u) PROVE In(m, e) \/ In(m, f)
    <3>1. PICK i \in 1 .. k + l : u[i] = m
      BY <1>4, <2>1 DEF In
    <3>2. i \in 1 .. k \/ (i - k \in 1 .. l /\ u[i] = f[i - k])
      BY <1>6
    <3> QED
      BY <1>3, <1>4, <3>1, <3>2 DEF In
  <2>2. ASSUME In(m, e) PROVE In(m, u)
    <3>1. PICK i \in 1 .. k : e[i] = m
      BY <1>3, <2>2 DEF In
    <3>2. i \in 1 .. k + l /\ u[i] = m
      BY <1>3, <1>4, <3>1
    <3> QED
      BY <1>4, <3>2 DEF In
  <2>3. ASSUME In(m, f) PROVE In(m, u)
    <3>1. PICK i \in 1 .. l : f[i] = m
      BY <1>3, <2>3 DEF In
    <3>2. k + i \in 1 .. k + l /\ u[k + i] = m
      BY <1>3, <1>4, <3>1
    <3> QED
      BY <1>4, <3>2 DEF In
  <2> QED
    BY <2>1, <2>2, <2>3
<1>9. 1 \in 1 .. k /\ k \in 1 .. k /\ 1 \in 1 .. l /\ l \in 1 .. l
  BY <1>3
<1>10. /\ \A m \in Nodes : nx2[m] = (IF m = f[l] THEN e[1] ELSE IF m = e[k] THEN f[1] ELSE nx[m])
       /\ \A m \in Nodes : pv2[m] = (IF m = f[1] THEN e[k] ELSE IF m = e[1] THEN f[l] ELSE pv[m])
  BY <1>3 DEF Spliced
<1>11. ASSUME NEW i \in 1 .. k + l PROVE nx2[u[i]] = u[After(k + l, i)]
  <2>1. CASE i \in 1 .. k
    <3>1. u[i] = e[i] /\ e[i] \in Nodes /\ e[i] # f[l]
      BY <1>1, <1>3, <1>4, <1>5, <1>9, <2>1
    <3>2. CASE i = k
      <4>1. After(k + l, i) = k + 1 /\ u[k + 1] = f[1]
        BY <1>3, <1>4, <1>9, <3>2 DEF After
      <4> QED
        BY <1>10, <3>1, <3>2, <4>1
    <3>3. CASE i # k
      <4>1. After(k + l, i) = i + 1 /\ After(k, i) = i + 1 /\ i + 1 \in 1 .. k
        BY <1>3, <2>1, <3>3 DEF After
      <4>2. e[i] # e[k]
        BY <1>1, <1>3, <1>9, <2>1, <3>3
      <4>3. nx[e[i]] = e[i + 1]
        BY <1>1, <1>3, <2>1, <4>1
      <4>4. u[i + 1] = e[i + 1]
        BY <1>4, <4>1
      <4> QED
        BY <1>10, <3>1, <4>1, <4>2, <4>3, <4>4
    <3> QED
      BY <3>2, <3>3
  <2>2. CASE i \notin 1 .. k
    <3>1. PICK j \in 1 .. l : j = i - k /\ i = k + j /\ u[i] = f[j] /\ f[j] \in Nodes
      BY <1>2, <1>3, <1>6, <2>2
    <3>2. CASE j = l
      <4>1. After(k + l, i) = 1 /\ u[1] = e[1]
        BY <1>3, <1>4, <1>9, <3>1, <3>2 DEF After
      <4> QED
        BY <1>10, <3>1, <3>2, <4>1
    <3>3. CASE j # l
      <4>1. After(k + l, i) = k + (j + 1) /\ After(l, j) = j + 1 /\ j + 1 \in 1 .. l
        BY <1>3, <3>1, <3>3 DEF After
      <4>2. f[j] # f[l] /\ f[j] # e[k]
        BY <1>2, <1>3, <1>5, <1>9, <3>3
      <4>3. nx[f[j]] = f[j + 1]
        BY <1>2, <1>3, <4>1
      <4>4. u[k + (j + 1)] = f[j + 1]
        BY <1>4, <4>1
      <4> QED
        BY <1>10, <3>1, <4>1, <4>2, <4>3, <4>4
    <3> QED
      BY <3>2, <3>3
  <2> QED
    BY <2>1, <2>2
<1>12. ASSUME NEW i \in 1 .. k + l PROVE pv2[u[i]] = u[Before(k + l, i)]
  <2>1. CASE i \in 1 .. k
    <3>1. u[i] = e[i] /\ e[i] \in Nodes /\ e[i] # f[1]
      BY <1>1, <1>3, <1>4, <1>5, <1>9, <2>1
    <3>2. CASE i = 1
      <4>1. Before(k + l, i) = k + l /\ u[k + l] = f[l]
        BY <1>3, <1>4, <1>9, <3>2 DEF Before
      <4> QED
        BY <1>10, <3>1, <3>2, <4>1
    <3>3. CASE i # 1
      <4>1. Before(k + l, i) = i - 1 /\ Before(k, i) = i - 1 /\ i - 1 \in 1 .. k
        BY <1>3, <2>1, <3>3 DEF Before
      <4>2. e[i] # e[1]
        BY <1>1, <1>3, <1>9, <2>1, <3>3
      <4>3. pv[e[i]] = e[i - 1]
        BY <1>1, <1>3, <2>1, <4>1
      <4>4. u[i - 1] = e[i - 1]
        BY <1>4, <4>1
      <4> QED
        BY <1>10, <3>1, <4>1, <4>2, <4>3, <4>4
    <3> QED
      BY <3>2, <3>3
  <2>2. CASE i \notin 1 .. k
    <3>1. PICK j \in 1 .. l : j = i - k /\ i = k + j /\ u[i] = f[j] /\ f[j] \in Nodes
      BY <1>2, <1>3, <1>6, <2>2
    <3>2. CASE j = 1
      <4>1. Before(k + l, i) = k /\ u[k] = e[k]
        BY <1>3, <1>4, <1>9, <3>1, <3>2 DEF Before
      <4> QED
        BY <1>10, <3>1, <3>2, <4>1
    <3>3. CASE j # 1
      <4>1. Before(k + l, i) = k + (j - 1) /\ Before(l, j) = j - 1 /\ j - 1 \in 1 .. l
        BY <1>3, <3>1, <3>3 DEF Before
      <4>2. f[j] # f[1] /\ f[j] # e[1]
        BY <1>2, <1>3, <1>5, <1>9, <3>3
      <4>3. pv[f[j]] = f[j - 1]
        BY <1>2, <1>3, <4>1
      <4>4. u[k + (j - 1)] = f[j - 1]
        BY <1>4, <4>1
      <4> QED
        BY <1>10, <3>1, <4>1, <4>2, <4>3, <4>4
    <3> QED
      BY <3>2, <3>3
  <2> QED
    BY <2>1, <2>2
<1>13. h = u[1] /\ u # <<>>
  BY <1>3, <1>4, <1>9 DEF Ring
<1>14. \A i \in 1 .. Len(u) : nx2[u[i]] = u[After(Len(u), i)] /\ pv2[u[i]] = u[Before(Len(u), i)]
  BY <1>4, <1>11, <1>12
<1>15. Ring(u, h, nx2, pv2)
  BY <1>4, <1>7, <1>13, <1>14 DEF Ring
<1> QED
  BY <1>4, <1>8, <1>15

\* The lists as NodeLists sees them.
Abs == [L \in Lists |-> Walk(L)]
\* The invariant.
RInv == Rep(Abs, head, next, prev)

\* The lists that the pointers represent are the ones a walk meets.
LEMMA RepWalk ==
  ASSUME NullAssumption, NEW ls, NEW hd, NEW nx, NEW pv, Rep(ls, hd, nx, pv), NEW L \in Lists
  PROVE  WalkAlong("forth", hd[L], nx) = ls[L] /\ WalkAlong("back", hd[L], pv) = Reverse(ls[L])
<1>1. Ring(ls[L], hd[L], nx, pv)
  BY DEF Rep
<1> QED
  BY <1>1, RingWalk DEF NullAssumption

\* The same of the next state's walks.
LEMMA WalkIsNext ==
  ASSUME NEW L \in Lists
  PROVE  Walk(L)' = WalkAlong("forth", head[L]', next')
  BY DEF Walk, WalkAlong, Walks, Turn, Forth

\* Lists that represent the new pointers are the new lists.
LEMMA NewLists ==
  ASSUME NullAssumption, NEW ls, Rep(ls, head', next', prev')
  PROVE  RInv' /\ Abs' = ls
<1>1. ASSUME NEW L \in Lists PROVE Walk(L)' = ls[L]
  <2>1. PICK hd, nx, pv : hd = head' /\ nx = next' /\ pv = prev'
    OBVIOUS
  <2>2. Rep(ls, hd, nx, pv)
    BY <2>1
  <2>3. WalkAlong("forth", hd[L], nx) = ls[L]
    BY ONLY <2>2, RepWalk, NullAssumption, L \in Lists
  <2>4. Walk(L)' = WalkAlong("forth", hd[L], nx)
    BY <2>1, WalkIsNext
  <2> QED
    BY <2>3, <2>4
<1>2. Abs' = [L \in Lists |-> ls[L]]
  BY <1>1 DEF Abs
<1>3. ls = [L \in Lists |-> ls[L]]
  BY DEF Rep
<1>4. Abs' = ls
  BY <1>2, <1>3
<1> QED
  BY <1>4 DEF RInv

\* At first every list is empty and every node is loose.
LEMMA InitRInv == NullAssumption /\ Init => RInv /\ Seqs!Init
<1> SUFFICES ASSUME NullAssumption, Init PROVE RInv /\ Seqs!Init
  OBVIOUS
<1> DEFINE ls == [L \in Lists |-> <<>>]
<1>1. \A L \in Lists : Ring(ls[L], head[L], next, prev)
  BY DEF Ring, Once, Init
<1>2. Rep(ls, head, next, prev)
  BY <1>1 DEF Rep, In, Init
<1>3. ASSUME NEW L \in Lists PROVE Walk(L) = ls[L]
  <2>1. Walk(L) = WalkAlong("forth", head[L], next)
    BY WalkIs
  <2> HIDE DEF ls
  <2>2. WalkAlong("forth", head[L], next) = ls[L]
    BY ONLY <1>2, RepWalk, NullAssumption, L \in Lists
  <2> QED
    BY <2>1, <2>2
<1>4. Abs = ls
  BY <1>3 DEF Abs
<1> QED
  BY <1>2, <1>4 DEF RInv, Seqs!Init, Abs

\* What the invariant says of one list.
LEMMA AbsFacts ==
  ASSUME RInv
  PROVE  /\ next \in Pointers /\ prev \in Pointers
         /\ \A L \in Lists : Ring(Abs[L], head[L], next, prev) /\ Abs[L] \in Seq(Nodes)
         /\ \A L, M \in Lists, n \in Nodes : In(n, Abs[L]) /\ In(n, Abs[M]) => L = M
         /\ \A n \in Nodes :
              (\A L \in Lists : ~ In(n, Abs[L])) => next[n] = NULL /\ prev[n] = NULL
         /\ \A L \in Lists, n \in Nodes : In(n, Abs[L]) => next[n] \in Nodes /\ prev[n] \in Nodes
<1>1. /\ next \in Pointers /\ prev \in Pointers
      /\ \A L \in Lists : Ring(Abs[L], head[L], next, prev)
      /\ \A L, M \in Lists, n \in Nodes : In(n, Abs[L]) /\ In(n, Abs[M]) => L = M
      /\ \A n \in Nodes : (\A L \in Lists : ~ In(n, Abs[L])) => next[n] = NULL /\ prev[n] = NULL
  BY DEF RInv, Rep, Pointers
<1>2. \A L \in Lists : Abs[L] \in Seq(Nodes)
  BY <1>1 DEF Ring
<1>3. ASSUME NEW L \in Lists, NEW n \in Nodes, In(n, Abs[L])
      PROVE  next[n] \in Nodes /\ prev[n] \in Nodes
  <2>1. PICK l : l = Abs[L]
    OBVIOUS
  <2>2. Ring(l, head[L], next, prev)
    BY <1>1, <2>1
  <2>3. PICK i \in 1 .. Len(l) : l[i] = n
    BY <1>3, <2>1 DEF In
  <2>4. /\ Len(l) \in Nat /\ \A j \in 1 .. Len(l) : l[j] \in Nodes
        /\ next[n] = l[After(Len(l), i)] /\ prev[n] = l[Before(Len(l), i)]
    BY <2>2, <2>3, RingFacts
  <2>5. After(Len(l), i) \in 1 .. Len(l) /\ Before(Len(l), i) \in 1 .. Len(l)
    BY <2>4 DEF After, Before
  <2> QED
    BY <2>4, <2>5
<1> QED
  BY <1>1, <1>2, <1>3

\* The loose nodes are those in no list.
LEMMA LooseIs ==
  ASSUME NullAssumption, RInv, NEW n \in Nodes
  PROVE  Loose(n) <=> \A L \in Lists : ~ In(n, Abs[L])
<1>1. /\ (\A L \in Lists : ~ In(n, Abs[L])) => next[n] = NULL
      /\ \A L \in Lists : In(n, Abs[L]) => next[n] \in Nodes
  BY AbsFacts
<1> QED
  BY <1>1 DEF Loose, NullAssumption

\* An insertion before or behind the first node, as a step of the invariant.
LEMMA InsertStep ==
  ASSUME NullAssumption, RInv, NEW L \in Lists, NEW n \in Nodes, Loose(n), Insert(L, n), NEW u,
         \/ u = <<n>> \o Abs[L] /\ head' = [head EXCEPT ![L] = n]
         \/ u = Append(Abs[L], n) /\ head' = [head EXCEPT ![L] = next'[n]]
  PROVE  RInv' /\ Abs' = [Abs EXCEPT ![L] = u]
<1>1. PICK l, h, nx2, pv2 : l = Abs[L] /\ h = head[L] /\ nx2 = next' /\ pv2 = prev'
  OBVIOUS
<1>2. /\ next \in Pointers /\ prev \in Pointers /\ Ring(l, h, next, prev)
      /\ \A M \in Lists : ~ In(n, Abs[M])
  BY <1>1, AbsFacts, LooseIs
<1>3. IF h = NULL THEN pv2 = [prev EXCEPT ![n] = n] /\ nx2 = [next EXCEPT ![n] = n]
      ELSE /\ pv2 = [prev EXCEPT ![n] = prev[h], ![h] = n]
           /\ nx2 = Set([next EXCEPT ![n] = h], prev[h], n)
  BY <1>1 DEF Insert
<1>4. ~ In(n, l) /\ NULL \notin Nodes
  BY <1>1, <1>2 DEF NullAssumption
<1>5. Inserted(l, n, next, prev, nx2, pv2)
  BY ONLY <1>2, <1>3, <1>4, n \in Nodes, InsertPointers
<1>6. PICK h2 : Ring(u, h2, nx2, pv2) /\ head' = [head EXCEPT ![L] = h2]
                /\ \A m \in Nodes : In(m, u) <=> m = n \/ In(m, l)
  <2>1. Ring(<<n>> \o l, n, nx2, pv2) /\ \A m \in Nodes : In(m, <<n>> \o l) <=> m = n \/ In(m, l)
    BY ONLY <1>2, <1>4, <1>5, n \in Nodes, PrependRing
  <2>2. Ring(Append(l, n), nx2[n], nx2, pv2)
        /\ \A m \in Nodes : In(m, Append(l, n)) <=> m = n \/ In(m, l)
    BY ONLY <1>2, <1>4, <1>5, n \in Nodes, AppendRing
  <2>3. CASE u = <<n>> \o Abs[L] /\ head' = [head EXCEPT ![L] = n]
    BY <1>1, <2>1, <2>3
  <2>4. CASE u = Append(Abs[L], n) /\ head' = [head EXCEPT ![L] = next'[n]]
    BY <1>1, <2>2, <2>4
  <2> QED
    BY <2>3, <2>4
<1>7. nx2 \in Pointers /\ pv2 \in Pointers
  BY <1>5 DEF Inserted
<1>8. Changes(Abs, next, prev, L, u, nx2, pv2)
  <2>1. ASSUME NEW m \in Nodes, ~ In(m, Abs[L]), ~ In(m, u)
        PROVE  nx2[m] = next[m] /\ pv2[m] = prev[m]
    <3>1. m # n /\ ~ In(m, l)
      BY <1>1, <1>6, <2>1
    <3>2. l # <<>> => m # l[Len(l)] /\ m # l[1]
      <4>1. l \in Seq(Nodes)
        BY <1>2 DEF Ring
      <4> QED
        BY <3>1, <4>1 DEF In
    <3> QED
      BY <1>5, <3>1, <3>2 DEF Inserted
  <2>2. \A m \in Nodes : In(m, Abs[L]) => In(m, u)
    BY <1>1, <1>6
  <2>3. \A m \in Nodes, M \in Lists : In(m, u) /\ In(m, Abs[M]) => M = L
    BY <1>1, <1>2, <1>6, AbsFacts
  <2> QED
    BY <2>1, <2>2, <2>3 DEF Changes
<1>9. Rep([Abs EXCEPT ![L] = u], [head EXCEPT ![L] = h2], nx2, pv2)
  BY <1>6, <1>7, <1>8, RepStep DEF RInv, Pointers
<1> QED
  BY <1>1, <1>6, <1>9, NewLists

\* The removal of a node, as a step of the invariant.
LEMMA CutStep ==
  ASSUME NullAssumption, RInv, NEW L \in Lists, NEW j \in 1 .. Len(Abs[L]), Cut(L, Abs[L][j]),
         NEW u, Without(Abs[L], j, u)
  PROVE  RInv' /\ Abs' = [Abs EXCEPT ![L] = u]
<1>1. PICK l, h, nx2, pv2 : l = Abs[L] /\ h = head[L] /\ nx2 = next' /\ pv2 = prev'
  OBVIOUS
<1>2. /\ next \in Pointers /\ prev \in Pointers /\ Ring(l, h, next, prev)
      /\ j \in 1 .. Len(l) /\ NULL \notin Nodes
  BY <1>1, AbsFacts DEF NullAssumption
<1>3. IF next[l[j]] = l[j] THEN nx2 = Cleared(next, l[j]) /\ pv2 = Cleared(prev, l[j])
      ELSE /\ nx2 = Cleared(Set(next, prev[l[j]], next[l[j]]), l[j])
           /\ pv2 = Cleared(Set(prev, next[l[j]], prev[l[j]]), l[j])
  BY <1>1 DEF Cut
<1>4. Removed(l, j, next, prev, nx2, pv2) /\ (next[l[j]] = l[j] <=> Len(l) = 1)
  BY ONLY <1>2, <1>3, CutPointers
<1>5. PICK h2 : h2 = IF Len(l) = 1 THEN NULL ELSE IF h = l[j] THEN next[l[j]] ELSE h
  OBVIOUS
<1>6. head' = [head EXCEPT ![L] = h2]
  BY <1>1, <1>4, <1>5 DEF Cut, RInv, Rep
<1>7. Ring(u, h2, nx2, pv2) /\ \A m \in Nodes : In(m, u) <=> m # l[j] /\ In(m, l)
  <2>1. Without(l, j, u)
    BY <1>1
  <2> QED
    BY ONLY <1>2, <1>4, <1>5, <2>1, CutRing
<1>8. nx2 \in Pointers /\ pv2 \in Pointers
  BY <1>4 DEF Removed
<1>9. Changes(Abs, next, prev, L, u, nx2, pv2)
  <2>1. ASSUME NEW m \in Nodes, ~ In(m, Abs[L])
        PROVE  nx2[m] = next[m] /\ pv2[m] = prev[m]
    <3>1. ~ In(m, l) /\ Len(l) \in Nat
      BY <1>1, <1>2, <2>1 DEF Ring
    <3>2. After(Len(l), j) \in 1 .. Len(l) /\ Before(Len(l), j) \in 1 .. Len(l)
      BY <1>2, <3>1 DEF After, Before
    <3>3. m # l[j] /\ m # l[After(Len(l), j)] /\ m # l[Before(Len(l), j)]
      BY <1>2, <3>1, <3>2 DEF In
    <3> QED
      BY <1>4, <3>3 DEF Removed
  <2>2. ASSUME NEW m \in Nodes, In(m, Abs[L]), ~ In(m, u)
        PROVE  nx2[m] = NULL /\ pv2[m] = NULL
    BY <1>1, <1>4, <1>7, <2>2 DEF Removed
  <2>3. \A m \in Nodes, M \in Lists : In(m, u) /\ In(m, Abs[M]) => M = L
    BY <1>1, <1>7, AbsFacts
  <2> QED
    BY <2>1, <2>2, <2>3 DEF Changes
<1>10. Rep([Abs EXCEPT ![L] = u], [head EXCEPT ![L] = h2], nx2, pv2)
  BY <1>7, <1>8, <1>9, RepStep DEF RInv, Pointers
<1> QED
  BY <1>1, <1>6, <1>10, NewLists

\* splice changes the pointers as Spliced says when neither ring is empty.
LEMMA SplicePointers ==
  ASSUME NULL \notin Nodes, NEW e, NEW h, NEW nx \in Pointers, NEW pv \in Pointers,
         Ring(e, h, nx, pv), h # NULL, NEW f, NEW g, Ring(f, g, nx, pv), g # NULL, Apart(e, f),
         NEW nx2, nx2 = [nx EXCEPT ![pv[h]] = g, ![pv[g]] = h],
         NEW pv2, pv2 = [pv EXCEPT ![h] = pv[g], ![g] = pv[h]]
  PROVE  Spliced(e, f, nx, pv, nx2, pv2)
<1>1. /\ e \in Seq(Nodes) /\ Len(e) \in Nat /\ (e = <<>> <=> Len(e) = 0)
      /\ \A i \in 1 .. Len(e) : e[i] \in Nodes
      /\ \A i \in 1 .. Len(e) : pv[e[i]] = e[Before(Len(e), i)]
  BY ONLY Ring(e, h, nx, pv), RingFacts
<1>2. /\ f \in Seq(Nodes) /\ Len(f) \in Nat /\ (f = <<>> <=> Len(f) = 0)
      /\ \A i \in 1 .. Len(f) : f[i] \in Nodes
      /\ \A i \in 1 .. Len(f) : pv[f[i]] = f[Before(Len(f), i)]
  BY ONLY Ring(f, g, nx, pv), RingFacts
<1>3. PICK k \in Nat, l \in Nat : /\ k = Len(e) /\ l = Len(f) /\ k > 0 /\ l > 0
                                  /\ h = e[1] /\ g = f[1]
  <2>1. e # <<>> /\ f # <<>> /\ h = e[1] /\ g = f[1]
    BY DEF Ring
  <2>2. Len(e) \in Nat /\ Len(f) \in Nat /\ Len(e) > 0 /\ Len(f) > 0
    <3>1. Len(e) \in Nat /\ Len(f) \in Nat /\ Len(e) # 0 /\ Len(f) # 0
      BY <1>1, <1>2, <2>1
    <3> QED
      BY ONLY <3>1
  <2> QED
    BY ONLY <2>1, <2>2
<1>4. 1 \in 1 .. k /\ k \in 1 .. k /\ 1 \in 1 .. l /\ l \in 1 .. l
      /\ Before(k, 1) = k /\ Before(l, 1) = l
  BY <1>3 DEF Before
<1>5. PICK p \in Nodes, q \in Nodes : p = e[k] /\ q = f[l] /\ pv[h] = p /\ pv[g] = q
  BY <1>1, <1>2, <1>3, <1>4
<1>6. h \in Nodes /\ g \in Nodes
  BY <1>1, <1>2, <1>3, <1>4
<1>7. p # q /\ h # g
  BY <1>3, <1>4, <1>5, <1>6 DEF Apart, In
<1>8. nx2 = [nx EXCEPT ![p] = g, ![q] = h] /\ pv2 = [pv EXCEPT ![h] = q, ![g] = p]
  BY <1>5
<1>9. nx2 \in Pointers /\ pv2 \in Pointers
  BY <1>5, <1>6, <1>8 DEF Pointers
<1>10. \A m \in Nodes : /\ nx2[m] = (IF m = q THEN h ELSE IF m = p THEN g ELSE nx[m])
                        /\ pv2[m] = (IF m = g THEN p ELSE IF m = h THEN q ELSE pv[m])
  BY <1>5, <1>6, <1>7, <1>8 DEF Pointers
<1>11. \A m \in Nodes :
         /\ nx2[m] = (IF m = f[Len(f)] THEN e[1] ELSE IF m = e[Len(e)] THEN f[1] ELSE nx[m])
         /\ pv2[m] = (IF m = f[1] THEN e[Len(e)] ELSE IF m = e[1] THEN f[Len(f)] ELSE pv[m])
  <2>1. e[1] = h /\ e[Len(e)] = p /\ f[1] = g /\ f[Len(f)] = q
    BY <1>3, <1>5
  <2> QED
    BY ONLY <1>10, <2>1
<1> QED
  BY <1>9, <1>11 DEF Spliced

\* The end of cleanup_flows as a relation between pointers.
Splices(F, E, hd, nx, pv, hd2, nx2, pv2) ==
  IF hd[E] # NULL
  THEN /\ pv2 = [pv EXCEPT ![hd[E]] = pv[hd[F]], ![hd[F]] = pv[hd[E]]]
       /\ nx2 = [nx EXCEPT ![pv[hd[E]]] = hd[F], ![pv[hd[F]]] = hd[E]]
       /\ hd2 = [hd EXCEPT ![F] = NULL]
  ELSE hd2 = [hd EXCEPT ![E] = hd[F], ![F] = NULL] /\ nx2 = nx /\ pv2 = pv

\* The splice gives the rings of both lists, and disturbs no other.
LEMMA RepSplice ==
  ASSUME NULL \notin Nodes, NEW ls, NEW hd, NEW nx, NEW pv, Rep(ls, hd, nx, pv),
         NEW F \in Lists, NEW E \in Lists, F # E, hd[F] # NULL, NEW nx2, NEW pv2, NEW hd2,
         Splices(F, E, hd, nx, pv, hd2, nx2, pv2)
  PROVE  Rep([ls EXCEPT ![E] = ls[E] \o ls[F], ![F] = <<>>], hd2, nx2, pv2)
<1>1. PICK e, f, h, g : e = ls[E] /\ f = ls[F] /\ h = hd[E] /\ g = hd[F]
  OBVIOUS
<1>2. /\ nx \in Pointers /\ pv \in Pointers /\ Ring(e, h, nx, pv) /\ Ring(f, g, nx, pv)
      /\ Apart(e, f) /\ g # NULL
      /\ e \in Seq(Nodes) /\ f \in Seq(Nodes) /\ f # <<>>
  BY <1>1 DEF Rep, Pointers, Apart, Ring
<1>3. PICK h2 : /\ Ring(e \o f, h2, nx2, pv2) /\ nx2 \in Pointers /\ pv2 \in Pointers
                /\ hd2 = [hd EXCEPT ![E] = h2, ![F] = NULL]
                /\ \A m \in Nodes : In(m, e \o f) <=> In(m, e) \/ In(m, f)
                /\ \A m \in Nodes : ~ In(m, e) /\ ~ In(m, f) => nx2[m] = nx[m] /\ pv2[m] = pv[m]
  <2>1. CASE h # NULL
    <3>1. /\ nx2 = [nx EXCEPT ![pv[h]] = g, ![pv[g]] = h]
          /\ pv2 = [pv EXCEPT ![h] = pv[g], ![g] = pv[h]]
      BY <1>1, <2>1 DEF Splices
    <3>2. Spliced(e, f, nx, pv, nx2, pv2)
      BY ONLY <1>2, <2>1, <3>1, SplicePointers, NULL \notin Nodes
    <3>3. e # <<>>
      BY <1>2, <2>1 DEF Ring
    <3>4. Ring(e \o f, h, nx2, pv2) /\ \A m \in Nodes : In(m, e \o f) <=> In(m, e) \/ In(m, f)
      BY ONLY <1>2, <3>2, <3>3, SpliceRing
    <3>5. hd2 = [hd EXCEPT ![E] = h, ![F] = NULL]
      BY <1>1, <2>1 DEF Rep, Splices
    <3>6. ASSUME NEW m \in Nodes, ~ In(m, e), ~ In(m, f)
          PROVE  nx2[m] = nx[m] /\ pv2[m] = pv[m]
      <4>1. /\ Len(e) \in 1 .. Len(e) /\ 1 \in 1 .. Len(e)
            /\ Len(f) \in 1 .. Len(f) /\ 1 \in 1 .. Len(f)
        BY <1>2, <3>3
      <4>2. m # e[1] /\ m # e[Len(e)] /\ m # f[1] /\ m # f[Len(f)]
        BY <3>6, <4>1 DEF In
      <4> QED
        BY <3>2, <4>2 DEF Spliced
    <3> QED
      BY <3>2, <3>4, <3>5, <3>6 DEF Spliced
  <2>2. CASE h = NULL
    <3>1. e = <<>> /\ e \o f = f
      BY <1>2, <2>2 DEF Ring
    <3>2. nx2 = nx /\ pv2 = pv /\ hd2 = [hd EXCEPT ![E] = g, ![F] = NULL]
      BY <1>1, <2>2 DEF Splices
    <3>3. \A m \in Nodes : ~ In(m, e)
      BY <3>1 DEF In
    <3> QED
      BY <1>2, <3>1, <3>2, <3>3
  <2> QED
    BY <2>1, <2>2
<1>4. PICK ls2 : ls2 = [ls EXCEPT ![E] = ls[E] \o ls[F], ![F] = <<>>]
  OBVIOUS
<1>5. /\ ls2 = [M \in Lists |-> ls2[M]] /\ hd2 = [M \in Lists |-> hd2[M]]
      /\ ls2[E] = e \o f /\ hd2[E] = h2 /\ ls2[F] = <<>> /\ hd2[F] = NULL
      /\ \A M \in Lists : M # E /\ M # F => ls2[M] = ls[M] /\ hd2[M] = hd[M]
  BY <1>1, <1>3, <1>4 DEF Rep
<1>6. ASSUME NEW M \in Lists PROVE Ring(ls2[M], hd2[M], nx2, pv2)
  <2>1. CASE M = E
    BY <1>3, <1>5, <2>1
  <2>2. CASE M = F
    BY <1>5, <2>2 DEF Ring, Once
  <2>3. CASE M # E /\ M # F
    <3>1. Ring(ls[M], hd[M], nx, pv)
      BY DEF Rep
    <3>2. \A n \in Nodes : In(n, ls[M]) => ~ In(n, e) /\ ~ In(n, f)
      BY <1>1, <2>3 DEF Rep
    <3>3. \A n \in Nodes : In(n, ls[M]) => nx2[n] = nx[n] /\ pv2[n] = pv[n]
      BY <1>3, <3>2
    <3>4. Ring(ls[M], hd[M], nx2, pv2)
      BY ONLY <3>1, <3>3, RingKept
    <3> QED
      BY <1>5, <2>3, <3>4
  <2> QED
    BY <2>1, <2>2, <2>3
<1>7. \A m \in Nodes : ~ In(m, ls2[F])
  BY <1>5 DEF In
<1>8. ASSUME NEW K \in Lists, NEW M \in Lists, NEW n \in Nodes, In(n, ls2[K]), In(n, ls2[M])
      PROVE  K = M
  <2>1. \A I, J \in Lists : In(n, ls[I]) /\ In(n, ls[J]) => I = J
    BY DEF Rep
  <2>2. ASSUME NEW I \in Lists, In(n, ls2[I])
        PROVE  I # F /\ ((I = E /\ In(n, ls[F])) \/ In(n, ls[I]))
    <3>1. I # F
      BY ONLY <1>7, <2>2, n \in Nodes
    <3>2. CASE I = E
      <4>1. In(n, e \o f)
        BY ONLY <1>5, <2>2, <3>2
      <4>2. In(n, e) \/ In(n, f)
        BY ONLY <1>3, <4>1, n \in Nodes
      <4> QED
        BY ONLY <1>1, <3>1, <3>2, <4>2
    <3>3. CASE I # E
      BY ONLY <1>5, <2>2, <3>1, <3>3, I \in Lists
    <3> QED
      BY <3>2, <3>3
  <2>3. \A I \in Lists : In(n, ls2[I]) /\ In(n, ls[F]) => I = E
    BY <2>1, <2>2
  <2> QED
    BY <1>8, <2>1, <2>2, <2>3
<1>9. \A n \in Nodes : (\A M \in Lists : ~ In(n, ls2[M])) => nx2[n] = NULL /\ pv2[n] = NULL
  <2> TAKE n \in Nodes
  <2> HAVE \A M \in Lists : ~ In(n, ls2[M])
  <2>1. ~ In(n, e) /\ ~ In(n, f)
    BY <1>3, <1>5
  <2>2. \A M \in Lists : ~ In(n, ls[M])
    BY <1>1, <1>5, <2>1
  <2> QED
    BY <1>3, <2>1, <2>2 DEF Rep
<1> QED
  BY <1>3, <1>4, <1>5, <1>6, <1>8, <1>9 DEF Rep, Pointers

\* The splice of cleanup_flows, as a step of the invariant.
LEMMA SpliceStep ==
  ASSUME NullAssumption, RInv, NEW F \in Lists, NEW E \in Lists, splice(F, E)
  PROVE  RInv' /\ Abs' = [Abs EXCEPT ![E] = Abs[E] \o Abs[F], ![F] = <<>>]
<1>1. PICK ls, nx2, pv2, hd2 : ls = Abs /\ nx2 = next' /\ pv2 = prev' /\ hd2 = head'
  OBVIOUS
<1>2. F # E /\ head[F] # NULL /\ NULL \notin Nodes /\ Rep(ls, head, next, prev)
  BY <1>1 DEF splice, NullAssumption, RInv
<1>3. Splices(F, E, head, next, prev, hd2, nx2, pv2)
  BY <1>1 DEF splice, PrevSpliced, Splices
<1>4. Rep([ls EXCEPT ![E] = ls[E] \o ls[F], ![F] = <<>>], hd2, nx2, pv2)
  BY ONLY <1>2, <1>3, RepSplice, F \in Lists, E \in Lists
<1> QED
  BY <1>1, <1>4, NewLists

\* In is membership.
LEMMA InIs ==
  ASSUME NEW l \in Seq(Nodes), NEW n
  PROVE  (n \in ToSet(l) <=> In(n, l)) /\ (n \in Seqs!ToSet(l) <=> In(n, l))
  BY DEF ToSet, Seqs!ToSet, In

\* RemoveAt moves the members behind the one it removes up by one place.
LEMMA RemovedAt ==
  ASSUME NEW l \in Seq(Nodes), NEW k \in 1 .. Len(l)
  PROVE  Without(l, k, Seqs!RemoveAt(l, k))
<1> DEFINE p == SubSeq(l, 1, k - 1)
           q == SubSeq(l, k + 1, Len(l))
           u == Seqs!RemoveAt(l, k)
<1>1. /\ Len(l) \in Nat /\ k \in Nat /\ 1 <= k /\ k <= Len(l)
      /\ \A i \in 1 .. Len(l) : l[i] \in Nodes
  OBVIOUS
<1>2. u = p \o q
  BY DEF Seqs!RemoveAt
<1>3. p \in Seq(Nodes) /\ Len(p) = k - 1 /\ \A i \in 1 .. k - 1 : p[i] = l[i]
  <2>1. \A i \in 1 .. k - 1 : l[i] \in Nodes
    BY <1>1
  <2>2. 1 \in Int /\ k - 1 \in Int
    BY <1>1
  <2>3. /\ p \in Seq(Nodes) /\ Len(p) = IF 1 <= k - 1 THEN k - 1 - 1 + 1 ELSE 0
        /\ \A i \in 1 .. k - 1 - 1 + 1 : p[i] = l[1 + i - 1]
    BY ONLY <2>1, <2>2, SubSeqProperties DEF p
  <2> HIDE DEF p
  <2>4. Len(p) = k - 1
    BY ONLY <1>1, <2>3
  <2>5. \A i \in 1 .. k - 1 : i \in 1 .. k - 1 - 1 + 1 /\ 1 + i - 1 = i
    BY ONLY <1>1
  <2> QED
    BY <2>3, <2>4, <2>5
<1>4. q \in Seq(Nodes) /\ Len(q) = Len(l) - k /\ \A i \in 1 .. Len(l) - k : q[i] = l[k + i]
  <2>1. \A i \in k + 1 .. Len(l) : l[i] \in Nodes
    BY <1>1
  <2>2. k + 1 \in Int /\ Len(l) \in Int
    BY <1>1
  <2>3. /\ q \in Seq(Nodes) /\ Len(q) = IF k + 1 <= Len(l) THEN Len(l) - (k + 1) + 1 ELSE 0
        /\ \A i \in 1 .. Len(l) - (k + 1) + 1 : q[i] = l[k + 1 + i - 1]
    BY ONLY <2>1, <2>2, SubSeqProperties DEF q
  <2> HIDE DEF q
  <2>4. Len(q) = Len(l) - k
    BY ONLY <1>1, <2>3
  <2>5. \A i \in 1 .. Len(l) - k : i \in 1 .. Len(l) - (k + 1) + 1 /\ k + 1 + i - 1 = k + i
    BY ONLY <1>1
  <2> QED
    BY <2>3, <2>4, <2>5
<1> HIDE DEF p, q, u
<1>5. /\ u \in Seq(Nodes) /\ Len(u) = Len(p) + Len(q)
      /\ \A i \in 1 .. Len(p) + Len(q) : u[i] = IF i <= Len(p) THEN p[i] ELSE q[i - Len(p)]
  BY ONLY <1>2, <1>3, <1>4, ConcatProperties
<1>6. Len(p) + Len(q) = Len(l) - 1
  BY ONLY <1>1, <1>3, <1>4
<1>7. ASSUME NEW i \in 1 .. Len(l) - 1 PROVE u[i] = l[Kept(k, i)]
  <2>1. u[i] = IF i <= k - 1 THEN p[i] ELSE q[i - (k - 1)]
    BY <1>3, <1>5, <1>6
  <2>2. CASE i < k
    <3>1. i <= k - 1 /\ i \in 1 .. k - 1 /\ Kept(k, i) = i
      BY ONLY <1>1, <2>2, i \in 1 .. Len(l) - 1 DEF Kept
    <3> QED
      BY <1>3, <2>1, <2>2, <3>1
  <2>3. CASE ~ (i < k)
    <3>1. /\ ~ (i <= k - 1) /\ i - (k - 1) \in 1 .. Len(l) - k /\ k + (i - (k - 1)) = i + 1
          /\ Kept(k, i) = i + 1
      BY ONLY <1>1, <2>3, i \in 1 .. Len(l) - 1 DEF Kept
    <3> QED
      BY <1>4, <2>1, <2>3, <3>1
  <2> QED
    BY <2>2, <2>3
<1> QED
  BY <1>5, <1>6, <1>7 DEF u, Without

\* A list without a node is the list without its place.
LEMMA UnlinkIs ==
  ASSUME NEW l \in Seq(Nodes), Once(l), NEW j \in 1 .. Len(l)
  PROVE  Seqs!list_unlink(l, l[j]) = Seqs!RemoveAt(l, j)
<1>1. Seqs!FirstMatch(l, {l[j]}) = {j}
  BY DEF Seqs!FirstMatch, Once
<1> QED
  BY <1>1 DEF Seqs!list_unlink

\* A list without its first place is its tail.
LEMMA TailIs ==
  ASSUME NEW l \in Seq(Nodes), l # <<>>
  PROVE  Without(l, 1, Tail(l))
<1>1. Tail(l) \in Seq(Nodes) /\ Len(Tail(l)) = Len(l) - 1
  OBVIOUS
<1>2. \A i \in 1 .. Len(l) - 1 : Tail(l)[i] = l[i + 1] /\ Kept(1, i) = i + 1
  BY <1>1 DEF Kept
<1> QED
  BY <1>1, <1>2 DEF Without

\* list_prepend_node puts the node in front of its list.
LEMMA Prepends ==
  ASSUME NullAssumption, RInv, NEW L \in Lists, NEW n \in Nodes, list_prepend(L, n)
  PROVE  RInv' /\ Seqs!Prepend(L, n)
<1>1. RInv' /\ Abs' = [Abs EXCEPT ![L] = <<n>> \o Abs[L]]
  BY InsertStep DEF list_prepend
<1>2. ~ Seqs!Linked(n)
  <2>1. \A M \in Lists : ~ In(n, Abs[M]) /\ Abs[M] \in Seq(Nodes)
    BY LooseIs, AbsFacts DEF list_prepend
  <2>2. \A M \in Lists : n \notin Seqs!ToSet(Abs[M])
    BY <2>1, InIs
  <2> QED
    BY <2>2 DEF Seqs!Linked, Abs
<1> QED
  BY <1>1, <1>2 DEF Seqs!Prepend, Seqs!list_prepend_node, Abs

\* list_append_node puts the node behind the last one, though it moves *list.
LEMMA Appends ==
  ASSUME NullAssumption, RInv, NEW L \in Lists, NEW n \in Nodes, list_append(L, n)
  PROVE  RInv' /\ Seqs!Add(L, n)
<1>1. RInv' /\ Abs' = [Abs EXCEPT ![L] = Append(Abs[L], n)]
  BY InsertStep DEF list_append, AppendHead
<1>2. ~ Seqs!Linked(n)
  <2>1. \A M \in Lists : ~ In(n, Abs[M]) /\ Abs[M] \in Seq(Nodes)
    BY LooseIs, AbsFacts DEF list_append
  <2>2. \A M \in Lists : n \notin Seqs!ToSet(Abs[M])
    BY <2>1, InIs
  <2> QED
    BY <2>2 DEF Seqs!Linked, Abs
<1> QED
  BY <1>1, <1>2 DEF Seqs!Add, Seqs!list_append_node, Abs

\* list_unlink takes the node out of its list, wherever it stands.
LEMMA Unlinks ==
  ASSUME NullAssumption, RInv, NEW L \in Lists, NEW n \in Nodes, list_unlink_node(L, n)
  PROVE  RInv' /\ Seqs!Unlink(L, n)
<1>1. PICK l : l = Abs[L] /\ l = Walk(L) /\ l \in Seq(Nodes) /\ Once(l)
  BY AbsFacts DEF Abs, Ring
<1>2. In(n, l) /\ n \in Seqs!ToSet(l)
  BY <1>1, InIs DEF list_unlink_node
<1>3. PICK j \in 1 .. Len(l) : l[j] = n
  BY <1>2 DEF In
<1>4. Seqs!list_unlink(l, n) = Seqs!RemoveAt(l, j) /\ Without(l, j, Seqs!RemoveAt(l, j))
  BY <1>1, <1>3, UnlinkIs, RemovedAt
<1>5. RInv' /\ Abs' = [Abs EXCEPT ![L] = Seqs!list_unlink(l, n)]
  <2>1. PICK u : u = Seqs!list_unlink(l, n)
    OBVIOUS
  <2>2. Without(Abs[L], j, u) /\ j \in 1 .. Len(Abs[L]) /\ Cut(L, Abs[L][j])
    BY <1>1, <1>3, <1>4, <2>1 DEF list_unlink_node
  <2>3. RInv' /\ Abs' = [Abs EXCEPT ![L] = u]
    BY <2>2, CutStep
  <2> QED
    BY <2>1, <2>3
<1> QED
  BY <1>1, <1>2, <1>5 DEF Seqs!Unlink, Abs

\* list_pop_first_node takes the first node.
LEMMA Pops ==
  ASSUME NullAssumption, RInv, NEW L \in Lists, list_pop_first(L)
  PROVE  RInv' /\ Seqs!Pop(L)
<1>1. PICK l : /\ l = Abs[L] /\ l = Walk(L) /\ l \in Seq(Nodes)
               /\ l # <<>> /\ head[L] = l[1]
  <2>1. Ring(Abs[L], head[L], next, prev) /\ Abs[L] \in Seq(Nodes)
    BY AbsFacts
  <2>2. Abs[L] # <<>> /\ head[L] = Abs[L][1]
    BY <2>1 DEF Ring, list_pop_first
  <2> QED
    BY <2>1, <2>2 DEF Abs
<1>2. 1 \in 1 .. Len(l) /\ Without(l, 1, Tail(l))
  BY <1>1, TailIs
<1>3. PICK u : u = Tail(l)
  OBVIOUS
<1>4. Without(Abs[L], 1, u) /\ 1 \in 1 .. Len(Abs[L]) /\ Cut(L, Abs[L][1])
  BY <1>1, <1>2, <1>3 DEF list_pop_first
<1>5. RInv' /\ Abs' = [Abs EXCEPT ![L] = u]
  BY <1>4, CutStep
<1>6. Seqs!list_pop_first_node(l) = u
  BY <1>1, <1>3 DEF Seqs!list_pop_first_node
<1> QED
  BY <1>1, <1>5, <1>6 DEF Seqs!Pop, Abs

\* cleanup_flows puts the flows with flags behind the expired ones.
LEMMA Splicing ==
  ASSUME NullAssumption, RInv, NEW F \in Lists, NEW E \in Lists, splice(F, E)
  PROVE  RInv' /\ Seqs!Splice(F, E)
<1>1. RInv' /\ Abs' = [Abs EXCEPT ![E] = Abs[E] \o Abs[F], ![F] = <<>>]
  BY SpliceStep
<1>2. F # E
  BY DEF splice
<1> QED
  BY <1>1, <1>2 DEF Seqs!Splice, Abs

\* Every operation is the list operation of the same name and keeps the invariant.
LEMMA StepKept ==
  ASSUME NullAssumption, RInv, Next
  PROVE  RInv' /\ OperationKept
<1>1. RInv' /\ Seqs!Next
  BY Prepends, Appends, Unlinks, Pops, Splicing DEF Next, Seqs!Next
<1> QED
  BY <1>1, Prepends, Appends, Unlinks, Pops, Splicing DEF OperationKept

\* A step, or none, keeps it.
LEMMA RInvStep ==
  ASSUME NullAssumption
  PROVE  RInv /\ [Next]_vars => RInv'
<1>1. RInv /\ UNCHANGED vars => RInv'
  BY DEF RInv, vars, Abs, Walk
<1> QED
  BY <1>1, StepKept

\* The invariant holds in every state.
LEMMA RInvInductive ==
  ASSUME NullAssumption
  PROVE  Spec => []RInv
  BY InitRInv, RInvStep, PTL DEF Spec

\* The rings of list.c implement lists, for any number of nodes and of lists: each operation on
\* pointers is the operation of the same name on sequences, and disturbs no other list.
THEOREM RingsImplementLists ==
  ASSUME NullAssumption
  PROVE  Spec => ImplementsLists
<1>1. RInv /\ [Next]_vars => [OperationKept]_vars
  BY StepKept
<1> QED
  BY <1>1, InitRInv, RInvInductive, PTL DEF Spec, ImplementsLists

\* Where the invariant holds a walk back meets the nodes of the walk forward in reverse order.
LEMMA RInvAgrees ==
  ASSUME NullAssumption
  PROVE  RInv => BothWaysAgree
<1> SUFFICES ASSUME RInv, NEW L \in Lists PROVE WalkBack(L) = Reverse(Walk(L))
  BY DEF BothWaysAgree
<1>1. WalkBack(L) = WalkAlong("back", head[L], prev)
  BY WalkIs
<1>2. WalkAlong("back", head[L], prev) = Reverse(Abs[L])
  BY RepWalk DEF RInv
<1> QED
  BY <1>1, <1>2 DEF Abs

\* Where it holds nodes without a pointer are in no list, and the others in one.
LEMMA RInvLoose ==
  ASSUME NullAssumption
  PROVE  RInv => LooseIsFree
<1> SUFFICES ASSUME RInv, NEW n \in Nodes
    PROVE  /\ Loose(n) => \A m \in Nodes : next[m] # n /\ prev[m] # n
           /\ Cardinality({L \in Lists : n \in ToSet(Walk(L))}) = (IF Loose(n) THEN 0 ELSE 1)
  BY DEF LooseIsFree
<1>1. ASSUME Loose(n), NEW m \in Nodes PROVE next[m] # n /\ prev[m] # n
  <2>1. \A L \in Lists : ~ In(n, Abs[L])
    BY <1>1, LooseIs
  <2>2. CASE \A L \in Lists : ~ In(m, Abs[L])
    BY <2>2, AbsFacts DEF NullAssumption
  <2>3. CASE \E L \in Lists : In(m, Abs[L])
    <3>1. PICK L \in Lists : In(m, Abs[L])
      BY <2>3
    <3>2. PICK l : l = Abs[L]
      OBVIOUS
    <3>3. Ring(l, head[L], next, prev)
      BY <3>2, AbsFacts
    <3>4. PICK i \in 1 .. Len(l) : l[i] = m
      BY <3>1, <3>2 DEF In
    <3>5. Len(l) \in Nat /\ next[m] = l[After(Len(l), i)] /\ prev[m] = l[Before(Len(l), i)]
      BY <3>3, <3>4, RingFacts
    <3>6. After(Len(l), i) \in 1 .. Len(l) /\ Before(Len(l), i) \in 1 .. Len(l)
      BY <3>5 DEF After, Before
    <3>7. In(next[m], l) /\ In(prev[m], l)
      BY <3>5, <3>6 DEF In
    <3> QED
      BY <2>1, <3>2, <3>7
  <2> QED
    BY <2>2, <2>3
<1>2. \A L \in Lists : n \in ToSet(Walk(L)) <=> In(n, Abs[L])
  <2>1. \A L \in Lists : Abs[L] \in Seq(Nodes) /\ Abs[L] = Walk(L)
    BY AbsFacts DEF Abs
  <2> QED
    BY <2>1, InIs
<1>3. CASE Loose(n)
  <2>1. {L \in Lists : n \in ToSet(Walk(L))} = {}
    BY <1>2, <1>3, LooseIs
  <2> QED
    BY <1>1, <1>3, <2>1, FS_EmptySet
<1>4. CASE ~ Loose(n)
  <2>1. PICK L \in Lists : In(n, Abs[L])
    BY <1>4, LooseIs
  <2>2. \A M \in Lists : In(n, Abs[M]) => M = L
    BY <2>1, AbsFacts
  <2>3. {M \in Lists : n \in ToSet(Walk(M))} = {L}
    BY <1>2, <2>1, <2>2
  <2>4. Cardinality({L}) = 1
    BY FS_Singleton
  <2> QED
    BY <1>4, <2>3, <2>4
<1> QED
  BY <1>3, <1>4

\* Walking a list backwards, as cleanup_flows does, meets the nodes of the forward walk in
\* reverse order, after any sequence of operations.
THEOREM WalksAgree ==
  ASSUME NullAssumption
  PROVE  Spec => []BothWaysAgree
  BY RInvAgrees, RInvInductive, PTL

\* A node with no next pointer is in no list and no pointer leads to it; every other node is in
\* exactly one list: none is lost between two lists, and none is in both.
THEOREM LooseNodesAreFree ==
  ASSUME NullAssumption
  PROVE  Spec => []LooseIsFree
  BY RInvLoose, RInvInductive, PTL
=============================================================================
