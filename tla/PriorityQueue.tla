--------------------------- MODULE PriorityQueue ---------------------------
(***************************************************************************)
(* What a minqueue_t promises to link_sim.c: a set of items of which the   *)
(* smallest ones can be seen and taken out, one at a time.                 *)
(***************************************************************************)
EXTENDS FiniteSets

CONSTANTS
  Item,        (* What can be queued.                               *)
  cmp(_, _)    (* The key comparison of the user: ? left > right.   *)

VARIABLE items (* The items in the queue. *)

(* The items that minq_peek may return. *)
Smallest == {x \in items : \A y \in items : ~cmp(x, y)}

Init == items = {}

Insert(x) ==
  /\ x \notin items
  /\ items' = items \cup {x}

(* Items whose keys are equal leave in any order. *)
Remove(x) ==
  /\ x \in Smallest
  /\ items' = items \ {x}

Next == \E x \in Item : Insert(x) \/ Remove(x)

Spec == Init /\ [][Next]_items
=============================================================================
