------------------------------ MODULE NodeList ------------------------------
(***************************************************************************)
(* The operations of flujos/src/list.c on a list, seen as the sequence of  *)
(* its nodes from *list onwards.  The code threads the nodes on a circular *)
(* doubly linked ring; which pointer each operation writes is the subject  *)
(* of NodeRing, which shows that the rings implement these sequences.      *)
(***************************************************************************)
EXTENDS Integers, SequencesExt

\* NULL when the list is empty, otherwise its first node.
list_get_first_node(l, null) == IF l = <<>> THEN null ELSE Head(l)

\* (*list)->prev: on a ring, the node before the first one is the last one.
list_get_last_node(l, null) == IF l = <<>> THEN null ELSE Last(l)

\* Mutant: the new node is hung before the first one and *list is left alone.
BugHeadStays(l, n) == Append(l, n)
list_prepend_node(l, n) == <<n>> \o l

list_append_node(l, n) == Append(l, n)

list_pop_first_node(l) == IF l = <<>> THEN l ELSE Tail(l)

\* The position of the first node, from the head on, that is in S: a set of one
\* index, or of none.
FirstMatch(l, S) ==
  {i \in 1 .. Len(l) : l[i] \in S /\ \A j \in 1 .. i - 1 : l[j] \notin S}

\* S: the nodes for which the comparison function answers 0.
list_search(l, S, null) ==
  LET I == FirstMatch(l, S) IN IF I = {} THEN null ELSE l[CHOOSE i \in I : TRUE]

list_unlink(l, n) ==
  LET I == FirstMatch(l, {n}) IN IF I = {} THEN l ELSE RemoveAt(l, CHOOSE i \in I : TRUE)
=============================================================================
