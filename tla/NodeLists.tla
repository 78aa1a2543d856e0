----------------------------- MODULE NodeLists -----------------------------
(***************************************************************************)
(* What list.c promises its users: named lists of nodes, each node in at   *)
(* most one of them, changed by the operations of NodeList and by          *)
(* cleanup_flows' own splice.                                              *)
(***************************************************************************)
EXTENDS NodeList

CONSTANTS Nodes, Lists

VARIABLE lists      \* lists[L]: the nodes of L in order

Linked(n) == \E L \in Lists : n \in ToSet(lists[L])

Init == lists = [L \in Lists |-> <<>>]

Prepend(L, n) == ~ Linked(n) /\ lists' = [lists EXCEPT ![L] = list_prepend_node(@, n)]

Add(L, n) == ~ Linked(n) /\ lists' = [lists EXCEPT ![L] = list_append_node(@, n)]

Unlink(L, n) == n \in ToSet(lists[L]) /\ lists' = [lists EXCEPT ![L] = list_unlink(@, n)]

Pop(L) == lists' = [lists EXCEPT ![L] = list_pop_first_node(@)]

Splice(F, E) ==
  /\ F # E
  /\ lists' = [lists EXCEPT ![E] = @ \o lists[F], ![F] = <<>>]

Next ==
  \/ \E L \in Lists, n \in Nodes : Prepend(L, n) \/ Add(L, n) \/ Unlink(L, n)
  \/ \E L \in Lists : Pop(L)
  \/ \E F, E \in Lists : Splice(F, E)

Spec == Init /\ [][Next]_lists
=============================================================================
