------------------------------ MODULE MinQueue ------------------------------
(***************************************************************************)
(* The binary heap of min_queue.c, that holds the delayed packets of       *)
(* link_sim.  The root is slot 0, yet the children of x are 2x and 2x + 1  *)
(* as in a heap rooted at 1: slot 0 has one child, slot 1.                 *)
(*                                                                         *)
(* An operation is broken at every iteration of its loop, so that pc says  *)
(* where the program is: "idle" between two calls, "up" in the loop of     *)
(* minq_push, "down" in the one of minq_pop.  No call starts before the    *)
(* previous one has returned: link_sim has one thread.                     *)
(*                                                                         *)
(* The definitions called Mutant... are plausible mistakes in the one that *)
(* follows them, and are used nowhere else.                                *)
(***************************************************************************)
EXTENDS Integers, FiniteSets

CONSTANTS
  Item,             (* The pointers that can be queued.                       *)
  cmp(_, _),        (* minq_key_cmp: ? left > right.                          *)
  NULL,             (* The contents of a slot that was never written.         *)
  SLOTS_PER_MALLOC

(* cmp compares the keys of the items: a strict weak order. *)
ASSUME MinQueueAssumption ==
  /\ SLOTS_PER_MALLOC \in Nat \ {0}
  /\ NULL \notin Item
  /\ \A a, b \in Item : cmp(a, b) => ~cmp(b, a)
  /\ \A a, b, c \in Item : ~cmp(a, b) /\ ~cmp(b, c) => ~cmp(a, c)

VARIABLES
  e,                (* The array of slots. *)
  size,             (* The number of items in the queue. *)
  alloc,            (* The number of allocated slots. *)
  pc,               (* Where the program is. *)
  i,                (* The local variable i of minq_push, current of minq_pop. *)
  v                 (* The argument of minq_push. *)

vars == <<e, size, alloc, pc, i, v>>

MutantLCHILD(x) == 2 * x + 1

LCHILD(x) == 2 * x

PARENT(x) == x \div 2

(* The queue as minq_new returns it. *)
Init ==
  /\ e = [k \in 0 .. SLOTS_PER_MALLOC - 1 |-> NULL]
  /\ size = 0
  /\ alloc = SLOTS_PER_MALLOC
  /\ pc = "idle"
  /\ i = 0
  /\ v = NULL

(* The items in the queue.  While minq_push looks for the place of v, slot *)
(* i is a hole.                                                            *)
Stored ==
  IF pc = "up" THEN {e[k] : k \in (0 .. size - 1) \ {i}} \cup {v}
               ELSE {e[k] : k \in 0 .. size - 1}

-----------------------------------------------------------------------------
(* The array can hold one more item; realloc has to succeed when it is full. *)
MutantGrown ==
  IF size > alloc
  THEN [k \in 0 .. size + SLOTS_PER_MALLOC - 1 |-> IF k < alloc THEN e[k] ELSE NULL]
  ELSE e

Grown ==
  IF size = alloc
  THEN [k \in 0 .. size + SLOTS_PER_MALLOC - 1 |-> IF k < alloc THEN e[k] ELSE NULL]
  ELSE e

(* minq_push up to its loop. *)
minq_push(x) ==
  /\ pc = "idle"
  /\ x \notin Stored
  /\ e' = Grown
  /\ alloc' = IF size = alloc THEN size + SLOTS_PER_MALLOC ELSE alloc
  /\ size' = size + 1
  /\ i' = size
  /\ v' = x
  /\ pc' = "up"

(* minq_push when realloc fails: it returns -1. *)
minq_push_fails ==
  /\ pc = "idle"
  /\ size = alloc
  /\ UNCHANGED vars

(* The condition of the loop of minq_push. *)
Rises == i # 0 /\ cmp(e[PARENT(i)], v)

(* The parent moves down, the insertion point one level up. *)
MoveParentDown ==
  /\ pc = "up"
  /\ Rises
  /\ e' = [e EXCEPT ![i] = e[PARENT(i)]]
  /\ i' = PARENT(i)
  /\ UNCHANGED <<size, alloc, pc, v>>

Insert ==
  /\ pc = "up"
  /\ ~Rises
  /\ e' = [e EXCEPT ![i] = v]
  /\ pc' = "idle"
  /\ UNCHANGED <<size, alloc, i, v>>

-----------------------------------------------------------------------------
MutantHasChild(k) == IF LCHILD(k) >= size THEN 0 ELSE LCHILD(k)

(* The smallest child of slot k, or 0. *)
has_child(k) ==
  LET left == LCHILD(k)
      right == left + 1
  IN  IF left >= size THEN 0
      ELSE IF right < size /\ cmp(e[left], e[right]) THEN right
      ELSE left

(* minq_pop up to its loop: the last item takes the place of the root.     *)
(* Popping an empty queue does nothing.                                    *)
MutantPop ==
  /\ pc = "idle"
  /\ size > 0
  /\ e' = [e EXCEPT ![0] = e[size - 1]]
  /\ UNCHANGED size
  /\ i' = 0
  /\ pc' = "down"
  /\ UNCHANGED <<alloc, v>>

minq_pop ==
  /\ pc = "idle"
  /\ size > 0
  /\ e' = [e EXCEPT ![0] = e[size - 1]]
  /\ size' = size - 1
  /\ i' = 0
  /\ pc' = "down"
  /\ UNCHANGED <<alloc, v>>

(* The condition of the loop of minq_pop. *)
Sinks == has_child(i) # 0 /\ cmp(e[i], e[has_child(i)])

Swap ==
  /\ pc = "down"
  /\ Sinks
  /\ LET min_child == has_child(i)
     IN  /\ e' = [e EXCEPT ![i] = e[min_child], ![min_child] = e[i]]
         /\ i' = min_child
  /\ UNCHANGED <<size, alloc, pc, v>>

Popped ==
  /\ pc = "down"
  /\ ~Sinks
  /\ pc' = "idle"
  /\ UNCHANGED <<e, size, alloc, i, v>>

Next ==
  \/ \E x \in Item : minq_push(x)
  \/ minq_push_fails
  \/ MoveParentDown
  \/ Insert
  \/ minq_pop
  \/ Swap
  \/ Popped

Spec == Init /\ [][Next]_vars

-----------------------------------------------------------------------------
minq_empty == size = 0

(* What minq_peek returns when the queue is not empty. *)
minq_peek == e[0]

(* Type invariant; the slots in use are allocated and have been written. *)
MinQueueTypeOK ==
  /\ size \in Nat
  /\ alloc \in Nat
  /\ size <= alloc
  /\ e \in [0 .. alloc - 1 -> Item \cup {NULL}]
  /\ pc \in {"idle", "up", "down"}
  /\ i \in Nat
  /\ v \in Item \cup {NULL}
  /\ Stored \subseteq Item

(* Between two calls no item is smaller than its parent, the invariant     *)
(* that min_queue.c lines 39-40 set themselves, ties being allowed.  A     *)
(* push or a pop that stops its loop too early breaks it for a later call. *)
HeapOrder ==
  pc = "idle" => \A k \in 1 .. size - 1 : ~cmp(e[PARENT(k)], e[k])

(* Nothing is queued twice: the loops move every pointer to exactly one    *)
(* slot.  link_sim frees what it pops, so a pointer left in two slots      *)
(* would be sent, then freed, twice.                                       *)
NothingTwice == Cardinality(Stored) = size

(* The heap is a priority queue: no item is lost or comes back while the   *)
(* loops move the items about, and minq_pop takes out the one that         *)
(* minq_peek shows, a smallest one.                                        *)
Promise == INSTANCE PriorityQueue WITH items <- Stored

IsPriorityQueue == Promise!Spec
=============================================================================
