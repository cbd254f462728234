---------------------------- MODULE MinQueueProofs ----------------------------
(***************************************************************************)
(* The heap of min_queue.c is a priority queue, for every set of items,    *)
(* every comparison that is a strict weak order and every size.            *)
(*                                                                         *)
(* Content is the array with v in the hole that minq_push moves upwards:   *)
(* an iteration of either loop exchanges slot i and its parent or child.   *)
(***************************************************************************)
EXTENDS MinQueue, FiniteSetTheorems, WellFoundedInduction, TLAPS

Content == IF pc = "up" THEN [e EXCEPT ![i] = v] ELSE e

Used == 0 .. size - 1

Types ==
  /\ size \in Nat /\ alloc \in Nat /\ size <= alloc
  /\ e \in [0 .. alloc - 1 -> Item \cup {NULL}]
  /\ pc \in {"idle", "up", "down"}
  /\ i \in Nat /\ v \in Item \cup {NULL}
  /\ pc = "up" => i \in Used /\ v \in Item
  /\ \A k \in Used : Content[k] \in Item

Distinct == \A j, k \in Used : Content[j] = Content[k] => j = k

InPlace(k) == ~cmp(Content[PARENT(k)], Content[k])

(* Only slot i may be out of place, with respect to its parent in the loop *)
(* of minq_push, to its children in the one of minq_pop; its parent and    *)
(* its children are in order.                                              *)
Ordered ==
  /\ \A k \in 1 .. size - 1 :
       \/ InPlace(k)
       \/ pc = "up" /\ k = i
       \/ pc = "down" /\ PARENT(k) = i
  /\ pc # "idle" /\ i # 0 =>
       \A k \in 1 .. size - 1 : PARENT(k) = i => ~cmp(Content[PARENT(i)], Content[k])

Inv == Types /\ Distinct /\ Ordered

-----------------------------------------------------------------------------
LEMMA ParentIs ==
  ASSUME NEW k \in Nat
  PROVE  /\ PARENT(k) \in Nat /\ PARENT(k) <= k
         /\ k # 0 => PARENT(k) < k
         /\ k = 2 * PARENT(k) \/ k = 2 * PARENT(k) + 1
BY DEF PARENT

LEMMA ParentOf ==
  ASSUME NEW k \in Nat, NEW p \in Nat, k = 2 * p \/ k = 2 * p + 1
  PROVE  PARENT(k) = p
BY DEF PARENT

(* The array f with the contents of slots a and b exchanged. *)
Exchanged(f, g, a, b) ==
  \A k \in Used : g[k] = IF k = a THEN f[b] ELSE IF k = b THEN f[a] ELSE f[k]

(* Outside of the loop of minq_push, and in it, what is stored. *)
LEMMA StoredIsContent ==
  ASSUME Types
  PROVE  /\ Stored = {Content[k] : k \in Used}
         /\ Content \in [0 .. alloc - 1 -> Item \cup {NULL}]
         /\ Used \subseteq 0 .. alloc - 1
<1>1. Used \subseteq 0 .. alloc - 1
  BY DEF Used, Types
<1>2. CASE pc = "up"
  <2>1. Content = [e EXCEPT ![i] = v] /\ i \in Used /\ v \in Item
    BY <1>2 DEF Content, Types
  <2>2. Stored = {e[k] : k \in Used \ {i}} \cup {v}
    BY <1>2 DEF Stored, Used
  <2>3. Content[i] = v /\ \A k \in Used \ {i} : Content[k] = e[k]
    BY <1>1, <2>1 DEF Types
  <2>4. Content \in [0 .. alloc - 1 -> Item \cup {NULL}]
    BY <2>1 DEF Types
  <2> QED
    BY <1>1, <2>1, <2>2, <2>3, <2>4
<1>3. CASE pc # "up"
  BY <1>1, <1>3 DEF Stored, Content, Used, Types
<1> QED
  BY <1>2, <1>3

Contents == {Content[k] : k \in Used}

LEMMA StoredIsContentNext == Types' => Stored' = Contents'
<1>1. Types => Stored = Contents
  BY StoredIsContent DEF Contents
<1>2. (Types => Stored = Contents)'
  BY <1>1, PTL
<1> QED
  BY <1>2

-----------------------------------------------------------------------------
(* has_child returns the smallest child that is out of place, if any.      *)
LEMMA HasChild ==
  ASSUME Inv, pc = "down"
  PROVE  /\ Sinks => /\ has_child(i) \in Used /\ has_child(i) > i /\ i \in Used
                     /\ PARENT(has_child(i)) = i
                     /\ cmp(e[i], e[has_child(i)])
                     /\ \A k \in 1 .. size - 1 :
                          PARENT(k) = i => ~cmp(e[has_child(i)], e[k])
         /\ ~Sinks => \A k \in 1 .. size - 1 : PARENT(k) = i => ~cmp(e[i], e[k])
<1> DEFINE m == has_child(i)
<1>1. i \in Nat /\ size \in Nat /\ (\A k \in Used : e[k] \in Item)
  BY DEF Inv, Types, Content
<1>2. m = IF 2 * i >= size THEN 0
          ELSE IF 2 * i + 1 < size /\ cmp(e[2 * i], e[2 * i + 1]) THEN 2 * i + 1
          ELSE 2 * i
  BY DEF has_child, LCHILD
<1>3. \A k \in 1 .. size - 1 : PARENT(k) = i <=> (k = 2 * i \/ k = 2 * i + 1)
  BY <1>1, ParentIs, ParentOf
<1>4. Sinks <=> (m # 0 /\ cmp(e[i], e[m]))
  BY DEF Sinks
<1> HIDE DEF m
<1>5. m # 0 => /\ m \in 1 .. size - 1 /\ (m = 2 * i \/ m = 2 * i + 1) /\ m > i /\ i < size
  BY <1>1, <1>2
<1>6. m # 0 => \A k \in 1 .. size - 1 : PARENT(k) = i => ~cmp(e[m], e[k])
  <2> SUFFICES ASSUME m # 0, NEW k \in 1 .. size - 1, PARENT(k) = i
               PROVE  ~cmp(e[m], e[k])
    OBVIOUS
  <2>1. m \in Used /\ k \in Used /\ e[m] \in Item /\ e[k] \in Item
    BY <1>1, <1>5 DEF Used
  <2>2. ~cmp(e[k], e[k])
    BY <2>1, MinQueueAssumption
  <2>3. CASE k = m
    BY <2>2, <2>3
  <2>4. CASE k = 2 * i + 1 /\ m = 2 * i
    BY <1>1, <1>2, <2>4
  <2>5. CASE k = 2 * i /\ m = 2 * i + 1
    <3>1. cmp(e[k], e[m])
      BY <1>1, <1>2, <2>5
    <3> QED
      BY <2>1, <3>1, MinQueueAssumption
  <2> QED
    BY <1>3, <1>5, <2>3, <2>4, <2>5
<1>7. ASSUME ~(m # 0 /\ cmp(e[i], e[m])), NEW k \in 1 .. size - 1, PARENT(k) = i
      PROVE  ~cmp(e[i], e[k])
  <2>1. k = 2 * i \/ k = 2 * i + 1
    BY <1>3, <1>7
  <2>2. k \in Used /\ e[k] \in Item
    BY <1>1 DEF Used
  <2>3. CASE m # 0
    <3>1. m \in Used /\ i \in Used /\ ~cmp(e[i], e[m]) /\ ~cmp(e[m], e[k])
      BY <1>1, <1>5, <1>6, <1>7, <2>3 DEF Used
    <3> QED
      BY <1>1, <2>2, <3>1, MinQueueAssumption
  <2>4. CASE m = 0 /\ i = 0
    <3>1. k = 1 /\ size > 1
      BY <1>1, <2>1, <2>4
    <3>2. 2 * i = 0 /\ 2 * i + 1 = 1
      BY <2>4
    <3>3. ~cmp(e[0], e[1])
      BY <1>1, <1>2, <2>4, <3>1, <3>2
    <3> QED
      BY <2>4, <3>1, <3>3
  <2>5. CASE m = 0 /\ i # 0
    BY <1>1, <1>2, <2>1, <2>5
  <2> QED
    BY <2>3, <2>4, <2>5
<1> QED
  BY <1>1, <1>3, <1>4, <1>5, <1>6, <1>7, ParentOf DEF Used, m

-----------------------------------------------------------------------------
(* The loop of minq_push. *)

LEMMA RiseExchanges ==
  ASSUME Inv, MoveParentDown
  PROVE  /\ i \in Used \ {0} /\ PARENT(i) \in Used /\ PARENT(i) < i
         /\ cmp(Content[PARENT(i)], Content[i])
         /\ Exchanged(Content, Content', i, PARENT(i))
         /\ i' = PARENT(i) /\ pc = "up" /\ UNCHANGED <<size, alloc, pc, v>>
         /\ e' \in [0 .. alloc - 1 -> Item \cup {NULL}]
<1>1. /\ pc = "up" /\ i \in Used /\ i # 0 /\ cmp(e[PARENT(i)], v)
      /\ e' = [e EXCEPT ![i] = e[PARENT(i)]] /\ i' = PARENT(i)
      /\ UNCHANGED <<size, alloc, pc, v>>
  BY DEF Inv, Types, MoveParentDown, Rises
<1>2. i \in Nat /\ size \in Nat /\ size <= alloc /\ alloc \in Nat /\ v \in Item
      /\ e \in [0 .. alloc - 1 -> Item \cup {NULL}]
  BY <1>1 DEF Inv, Types
<1>3. PARENT(i) \in Nat /\ PARENT(i) < i
  BY <1>1, <1>2, ParentIs
<1>4. PARENT(i) \in Used /\ Used \subseteq 0 .. alloc - 1 /\ i \in 0 .. alloc - 1
  BY <1>1, <1>2, <1>3 DEF Used
<1>5. Content = [e EXCEPT ![i] = v] /\ Content' = [e' EXCEPT ![PARENT(i)] = v]
  BY <1>1 DEF Content
<1>6. e' \in [0 .. alloc - 1 -> Item \cup {NULL}]
  BY <1>1, <1>2, <1>4
<1>7. Content[i] = v /\ \A k \in Used \ {i} : Content[k] = e[k]
  BY <1>2, <1>4, <1>5
<1>8. Content'[PARENT(i)] = v /\ Content'[i] = e[PARENT(i)]
      /\ \A k \in Used \ {i, PARENT(i)} : Content'[k] = e[k]
  BY <1>1, <1>2, <1>3, <1>4, <1>5, <1>6
<1>9. Exchanged(Content, Content', i, PARENT(i))
  BY <1>3, <1>4, <1>7, <1>8 DEF Exchanged
<1> QED
  BY <1>1, <1>3, <1>4, <1>6, <1>7, <1>9

(* Exchanging two slots keeps the types and the items apart.               *)
LEMMA ExchangeKeeps ==
  ASSUME Inv, NEW a \in Used, NEW b \in Used, Exchanged(Content, Content', a, b),
         UNCHANGED <<size, alloc, pc, v>>, i' \in Used,
         e' \in [0 .. alloc - 1 -> Item \cup {NULL}]
  PROVE  Types' /\ Distinct' /\ Stored' = Stored
<1>1. \A k \in Used : Content'[k] \in Item
  BY DEF Exchanged, Inv, Types
<1>2. Used' = Used /\ i' \in Nat
  BY DEF Used, Inv, Types
<1>3. Types'
  BY <1>1, <1>2 DEF Inv, Types
<1>4. /\ {Content'[k] : k \in Used} = {Content[k] : k \in Used}
      /\ \A j, k \in Used : Content'[j] = Content'[k] => j = k
  <2> DEFINE f == Content
             g == Content'
  <2>1. Exchanged(f, g, a, b) /\ \A j, k \in Used : f[j] = f[k] => j = k
    BY DEF Inv, Distinct
  <2> HIDE DEF f, g
  <2>2. g[a] = f[b] /\ g[b] = f[a] /\ \A k \in Used \ {a, b} : g[k] = f[k]
    BY <2>1 DEF Exchanged
  <2>3. ASSUME NEW x \in {f[k] : k \in Used} PROVE x \in {g[k] : k \in Used}
    BY <2>2
  <2>4. ASSUME NEW x \in {g[k] : k \in Used} PROVE x \in {f[k] : k \in Used}
    BY <2>2
  <2>5. ASSUME NEW j \in Used, NEW k \in Used, g[j] = g[k]
        PROVE  j = k
    BY <2>1, <2>2, <2>5
  <2> QED
    BY <2>3, <2>4, <2>5 DEF f, g
<1>5. Stored = {Content[k] : k \in Used}
  BY StoredIsContent DEF Inv
<1>6. Stored' = {Content'[k] : k \in Used}
  BY <1>2, <1>3, StoredIsContentNext DEF Contents
<1> QED
  BY <1>2, <1>3, <1>4, <1>5, <1>6 DEF Distinct

LEMMA RiseStep ==
  ASSUME Inv, MoveParentDown
  PROVE  Inv' /\ Stored' = Stored
<1> DEFINE p == PARENT(i)
           C == Content
           D == Content'
<1>1. /\ i \in Used /\ i # 0 /\ p \in Used /\ p < i /\ cmp(C[p], C[i])
      /\ Exchanged(C, D, i, p)
      /\ i' = p /\ pc = "up" /\ pc' = "up" /\ size' = size
  BY RiseExchanges
<1>2. Types' /\ Distinct' /\ Stored' = Stored
  BY RiseExchanges, ExchangeKeeps
<1>3. \A k \in Used : C[k] \in Item
  BY DEF Inv, Types
<1>4. /\ D[i] = C[p] /\ D[p] = C[i] /\ \A k \in Used \ {i, p} : D[k] = C[k]
  BY <1>1 DEF Exchanged
<1>5. \A k \in 1 .. size - 1 : k # i => ~cmp(C[PARENT(k)], C[k])
  BY <1>1 DEF Inv, Ordered, InPlace
<1>6. \A k \in 1 .. size - 1 : PARENT(k) = i => ~cmp(C[p], C[k])
  BY <1>1 DEF Inv, Ordered
<1>7. \A k \in 1 .. size - 1 : k \in Used /\ k \in Nat /\ PARENT(k) \in Used /\ PARENT(k) < k
  BY ParentIs DEF Inv, Types, Used
<1>8. p # 0 => PARENT(p) \in Used /\ PARENT(p) < p /\ p \in 1 .. size - 1
  <2> SUFFICES ASSUME p # 0 PROVE PARENT(p) \in Used /\ PARENT(p) < p /\ p \in 1 .. size - 1
    OBVIOUS
  <2>1. p \in Used
    BY <1>1
  <2> HIDE DEF p
  <2>2. p \in 1 .. size - 1
    BY <2>1 DEF Used, Inv, Types
  <2> QED
    BY <1>7, <2>2
<1>9. i \in Nat /\ p \in Nat /\ size \in Nat
  BY <1>1 DEF Used, Inv, Types
<1> HIDE DEF C, D
<1>10. ASSUME NEW k \in 1 .. size - 1, k # p
       PROVE  ~cmp(D[PARENT(k)], D[k])
  <2>0. k \in Used /\ PARENT(k) \in Used /\ PARENT(k) < k /\ k \in Nat
    BY <1>7
  <2>1. CASE k = i
    BY <1>1, <1>3, <1>4, <2>1, MinQueueAssumption
  <2>2. CASE k # i /\ PARENT(k) = i
    BY <1>4, <1>6, <1>10, <2>0, <2>2
  <2>3. CASE k # i /\ PARENT(k) = p
    <3>1. ~cmp(C[p], C[k])
      BY <1>5, <2>3
    <3>2. ~cmp(C[i], C[p])
      BY <1>1, <1>3, MinQueueAssumption
    <3>3. ~cmp(C[i], C[k])
      BY <1>1, <1>3, <2>0, <3>1, <3>2, MinQueueAssumption
    <3> QED
      BY <1>4, <1>10, <2>0, <2>3, <3>3
  <2>4. CASE k # i /\ PARENT(k) # i /\ PARENT(k) # p
    BY <1>4, <1>5, <1>10, <2>0, <2>4
  <2> QED
    BY <2>1, <2>2, <2>3, <2>4
<1>11. ASSUME p # 0, NEW k \in 1 .. size - 1, PARENT(k) = p
       PROVE  ~cmp(D[PARENT(p)], D[k])
  <2>1. D[PARENT(p)] = C[PARENT(p)] /\ ~cmp(C[PARENT(p)], C[p])
    <3>1. PARENT(p) # i /\ PARENT(p) # p /\ PARENT(p) \in Used
      BY <1>1, <1>8, <1>9, <1>11, ParentIs
    <3> QED
      BY <1>1, <1>4, <1>5, <1>8, <1>9, <1>11, <3>1
  <2>2. CASE k = i
    BY <1>4, <2>1, <2>2
  <2>3. CASE k # i
    <3>1. ~cmp(C[p], C[k]) /\ k # p /\ k \in Used
      BY <1>5, <1>7, <1>11, <2>3
    <3>2. ~cmp(C[PARENT(p)], C[k])
      BY <1>1, <1>3, <1>8, <1>11, <2>1, <3>1, MinQueueAssumption
    <3> QED
      BY <1>4, <2>1, <2>3, <3>1, <3>2
  <2> QED
    BY <2>2, <2>3
<1> QED
  BY <1>1, <1>2, <1>10, <1>11 DEF Inv, Ordered, InPlace, C, D

(* v gets the place that was found for it.                                 *)
LEMMA InsertStep ==
  ASSUME Inv, Insert
  PROVE  Inv' /\ Stored' = Stored
<1>1. /\ pc = "up" /\ pc' = "idle" /\ e' = [e EXCEPT ![i] = v]
      /\ UNCHANGED <<size, alloc, i, v>> /\ ~Rises
  BY DEF Insert
<1>2. Content' = Content /\ Used' = Used /\ e' = Content
  BY <1>1 DEF Content, Used
<1>3. Content \in [0 .. alloc - 1 -> Item \cup {NULL}] /\ Stored = {Content[k] : k \in Used}
  BY StoredIsContent DEF Inv
<1>4. Types'
  BY <1>1, <1>2, <1>3 DEF Inv, Types
<1>5. Stored' = Stored
  BY <1>2, <1>3, <1>4, StoredIsContentNext DEF Contents
<1>6. Distinct'
  BY <1>2 DEF Inv, Distinct
<1>7. i # 0 => InPlace(i)
  <2> SUFFICES ASSUME i # 0 PROVE InPlace(i)
    OBVIOUS
  <2>1. ~cmp(e[PARENT(i)], v)
    BY <1>1 DEF Rises
  <2>2. i \in Used /\ i \in 0 .. alloc - 1 /\ PARENT(i) \in Nat /\ PARENT(i) < i
    BY <1>1, ParentIs DEF Inv, Types, Used
  <2>3. PARENT(i) \in 0 .. alloc - 1
    BY <2>2 DEF Inv, Types
  <2>4. Content[i] = v /\ Content[PARENT(i)] = e[PARENT(i)]
    BY <1>1, <2>2, <2>3 DEF Inv, Types, Content
  <2> QED
    BY <2>1, <2>4 DEF InPlace
<1>8. Ordered'
  BY <1>1, <1>2, <1>7 DEF Inv, Ordered, InPlace
<1> QED
  BY <1>4, <1>5, <1>6, <1>8 DEF Inv

(* minq_push up to its loop: v in a new last slot.                         *)
LEMMA PushStep ==
  ASSUME Inv, NEW x \in Item, minq_push(x)
  PROVE  Inv' /\ x \notin Stored /\ Stored' = Stored \cup {x} /\ size' = size + 1
<1>1. /\ pc = "idle" /\ x \notin Stored /\ e' = Grown
      /\ alloc' = (IF size = alloc THEN size + SLOTS_PER_MALLOC ELSE alloc)
      /\ size' = size + 1 /\ i' = size /\ v' = x /\ pc' = "up"
  BY DEF minq_push
<1>2. /\ size \in Nat /\ alloc \in Nat /\ size <= alloc /\ SLOTS_PER_MALLOC \in Nat \ {0}
      /\ e \in [0 .. alloc - 1 -> Item \cup {NULL}]
      /\ Content = e /\ \A k \in Used : e[k] \in Item
  BY <1>1, MinQueueAssumption DEF Inv, Types, Content
<1>3. /\ e' \in [0 .. alloc' - 1 -> Item \cup {NULL}]
      /\ \A k \in Used : e'[k] = e[k]
      /\ size < alloc' /\ alloc' \in Nat
  <2>1. CASE size = alloc
    <3>1. e' = [k \in 0 .. size + SLOTS_PER_MALLOC - 1 |-> IF k < alloc THEN e[k] ELSE NULL]
          /\ alloc' = size + SLOTS_PER_MALLOC
      BY <1>1, <2>1 DEF Grown
    <3>2. \A k \in 0 .. size + SLOTS_PER_MALLOC - 1 :
             k < alloc => k \in 0 .. alloc - 1
      BY <1>2
    <3>3. e' \in [0 .. alloc' - 1 -> Item \cup {NULL}]
      BY <1>2, <3>1, <3>2
    <3>4. \A k \in Used : e'[k] = e[k]
      BY <1>2, <2>1, <3>1 DEF Used
    <3> QED
      BY <1>2, <3>1, <3>3, <3>4
  <2>2. CASE size # alloc
    BY <1>1, <1>2, <2>2 DEF Grown
  <2> QED
    BY <2>1, <2>2
<1>4. Content' = [e' EXCEPT ![size] = x] /\ Used' = Used \cup {size} /\ size \notin Used
  BY <1>1, <1>2 DEF Content, Used
<1>5. Content'[size] = x /\ \A k \in Used : Content'[k] = e[k]
  <2> DEFINE n == alloc'
  <2>1. size \in Nat /\ n \in Nat /\ size < n
    BY <1>2, <1>3
  <2> HIDE DEF n
  <2>2. size \in 0 .. n - 1
    BY <2>1
  <2>3. \A k \in Used : k # size
    BY <2>1 DEF Used
  <2>4. \A k \in Used : k \in 0 .. n - 1
    BY <2>1 DEF Used
  <2>5. DOMAIN e' = 0 .. alloc' - 1
    BY <1>3
  <2> QED
    BY <1>3, <1>4, <2>2, <2>3, <2>4, <2>5 DEF n
<1>6. Types'
  BY <1>1, <1>2, <1>3, <1>4, <1>5 DEF Types
<1>7. Stored = {e[k] : k \in Used}
  BY <1>2, StoredIsContent DEF Inv
<1>8. Stored' = Stored \cup {x}
  <2>1. Stored' = {Content'[k] : k \in Used'}
    BY <1>6, StoredIsContentNext DEF Contents
  <2> QED
    BY <1>4, <1>5, <1>7, <2>1
<1>9. Distinct'
  <2>1. \A k \in Used : Content'[k] # x
    BY <1>1, <1>5, <1>7
  <2>2. \A j, k \in Used : Content'[j] = Content'[k] => j = k
    BY <1>2, <1>5 DEF Inv, Distinct
  <2> QED
    BY <1>4, <1>5, <2>1, <2>2 DEF Distinct
<1>10. Ordered'
  <2>1. \A k \in 1 .. size - 1 : ~cmp(e[PARENT(k)], e[k])
    BY <1>1, <1>2 DEF Inv, Ordered, InPlace
  <2>2. \A k \in 1 .. size - 1 : k \in Used /\ PARENT(k) \in Used
    BY <1>2, ParentIs DEF Used
  <2>3. \A k \in 1 .. size' - 1 : k = i' \/ InPlace(k)'
    BY <1>1, <1>2, <1>5, <2>1, <2>2 DEF InPlace
  <2>4. \A k \in 1 .. size' - 1 : i' # 0 => PARENT(k) # i'
    BY <1>1, <1>2, ParentIs
  <2> QED
    BY <1>1, <2>3, <2>4 DEF Ordered
<1> QED
  BY <1>1, <1>6, <1>8, <1>9, <1>10 DEF Inv

-----------------------------------------------------------------------------
(* The loop of minq_pop. *)

LEMMA SinkExchanges ==
  ASSUME Inv, Swap
  PROVE  LET m == has_child(i)
         IN  /\ i \in Used /\ m \in Used /\ i < m /\ PARENT(m) = i
             /\ cmp(Content[i], Content[m])
             /\ \A k \in 1 .. size - 1 : PARENT(k) = i => ~cmp(Content[m], Content[k])
             /\ Exchanged(Content, Content', i, m)
             /\ i' = m /\ pc = "down" /\ UNCHANGED <<size, alloc, pc, v>>
             /\ e' \in [0 .. alloc - 1 -> Item \cup {NULL}]
<1> DEFINE m == has_child(i)
<1>1. /\ pc = "down" /\ Sinks
      /\ e' = [e EXCEPT ![i] = e[m], ![m] = e[i]] /\ i' = m
      /\ UNCHANGED <<size, alloc, pc, v>>
  BY DEF Swap
<1>2. Content = e /\ Content' = e'
  BY <1>1 DEF Content
<1>3. /\ m \in Used /\ m > i /\ i \in Used /\ PARENT(m) = i /\ cmp(e[i], e[m])
      /\ \A k \in 1 .. size - 1 : PARENT(k) = i => ~cmp(e[m], e[k])
  BY <1>1, HasChild
<1> HIDE DEF m
<1>4. i \in 0 .. alloc - 1 /\ m \in 0 .. alloc - 1 /\ i # m
      /\ e \in [0 .. alloc - 1 -> Item \cup {NULL}] /\ Used \subseteq 0 .. alloc - 1
  BY <1>3 DEF Inv, Types, Used
<1>5. e' \in [0 .. alloc - 1 -> Item \cup {NULL}]
  BY <1>1, <1>4
<1>6. Exchanged(e, e', i, m)
  BY <1>1, <1>4 DEF Exchanged
<1> QED
  BY <1>1, <1>2, <1>3, <1>5, <1>6 DEF m

LEMMA SinkStep ==
  ASSUME Inv, Swap
  PROVE  Inv' /\ Stored' = Stored
<1> DEFINE m == has_child(i)
           C == Content
           D == Content'
<1>1. /\ i \in Used /\ m \in Used /\ i < m /\ PARENT(m) = i /\ cmp(C[i], C[m])
      /\ \A k \in 1 .. size - 1 : PARENT(k) = i => ~cmp(C[m], C[k])
      /\ Exchanged(C, D, i, m)
      /\ i' = m /\ pc = "down" /\ pc' = "down" /\ size' = size
  BY SinkExchanges
<1>2. Types' /\ Distinct' /\ Stored' = Stored
  BY SinkExchanges, ExchangeKeeps
<1>3. \A k \in Used : C[k] \in Item
  BY DEF Inv, Types
<1> HIDE DEF m
<1>4. /\ D[i] = C[m] /\ D[m] = C[i] /\ \A k \in Used \ {i, m} : D[k] = C[k]
  BY <1>1 DEF Exchanged
<1>5. \A k \in 1 .. size - 1 : PARENT(k) # i => ~cmp(C[PARENT(k)], C[k])
  BY <1>1 DEF Inv, Ordered, InPlace
<1>6. i # 0 => \A k \in 1 .. size - 1 : PARENT(k) = i => ~cmp(C[PARENT(i)], C[k])
  BY <1>1 DEF Inv, Ordered
<1>7. \A k \in 1 .. size - 1 : k \in Used /\ k \in Nat /\ PARENT(k) \in Used /\ PARENT(k) < k
  BY ParentIs DEF Inv, Types, Used
<1>8. i \in Nat /\ m \in Nat /\ size \in Nat /\ m \in 1 .. size - 1
  BY <1>1 DEF Used, Inv, Types
<1> HIDE DEF C, D
<1>9. ASSUME NEW k \in 1 .. size - 1, PARENT(k) # m
      PROVE  ~cmp(D[PARENT(k)], D[k])
  <2>0. k \in Used /\ PARENT(k) \in Used /\ PARENT(k) < k /\ k \in Nat
    BY <1>7
  <2>1. CASE k = m
    BY <1>1, <1>3, <1>4, <2>1, MinQueueAssumption
  <2>2. CASE k = i
    <3>1. PARENT(i) # i /\ PARENT(i) # m /\ i # 0
      BY <1>1, <1>8, <2>0, <2>2
    <3>2. D[PARENT(k)] = C[PARENT(i)] /\ D[k] = C[m]
      BY <1>4, <2>0, <2>2, <3>1
    <3> QED
      BY <1>1, <1>6, <1>8, <3>1, <3>2
  <2>3. CASE PARENT(k) = i /\ k # m
    BY <1>1, <1>4, <1>8, <2>0, <2>3
  <2>4. CASE PARENT(k) # i /\ k # i /\ k # m
    BY <1>4, <1>5, <1>9, <2>0, <2>4
  <2> QED
    BY <2>1, <2>2, <2>3, <2>4
<1>10. ASSUME NEW k \in 1 .. size - 1, PARENT(k) = m
       PROVE  ~cmp(D[PARENT(m)], D[k])
  <2>1. ~cmp(C[m], C[k]) /\ k \in Used /\ k # m /\ k # i
    BY <1>1, <1>5, <1>7, <1>8, <1>10
  <2> QED
    BY <1>1, <1>4, <2>1
<1> QED
  BY <1>1, <1>2, <1>9, <1>10 DEF Inv, Ordered, InPlace, C, D

(* Nothing is smaller below slot i: the loop ends.                         *)
LEMMA PoppedStep ==
  ASSUME Inv, Popped
  PROVE  Inv' /\ Stored' = Stored
<1>1. /\ pc = "down" /\ ~Sinks /\ pc' = "idle" /\ UNCHANGED <<e, size, alloc, i, v>>
  BY DEF Popped
<1>2. Content = e /\ Content' = e /\ Used' = Used
  BY <1>1 DEF Content, Used
<1>3. Types' /\ Distinct'
  BY <1>1, <1>2 DEF Inv, Types, Distinct
<1>4. Stored' = Stored
  BY <1>1 DEF Stored
<1>5. \A k \in 1 .. size - 1 : InPlace(k)
  BY <1>1, <1>2, HasChild DEF Inv, Ordered, InPlace
<1>6. Ordered'
  BY <1>1, <1>2, <1>5 DEF Ordered, InPlace
<1> QED
  BY <1>3, <1>4, <1>6 DEF Inv

-----------------------------------------------------------------------------
(* minq_pop up to its loop. *)

LEMMA RootIsSmallest ==
  ASSUME Inv, pc = "idle"
  PROVE  \A k \in Used : ~cmp(e[0], e[k])
<1> DEFINE T == {k \in Used : cmp(e[0], e[k])}
<1>1. /\ \A k \in Used : e[k] \in Item
      /\ \A k \in 1 .. size - 1 : ~cmp(e[PARENT(k)], e[k])
      /\ size \in Nat
  BY DEF Inv, Types, Ordered, InPlace, Content
<1> SUFFICES ASSUME T # {} PROVE FALSE
  OBVIOUS
<1>2. T \subseteq Nat
  BY DEF Used
<1>3. PICK k \in T : \A j \in T : <<j, k>> \notin OpToRel(<, Nat)
  BY <1>2, NatLessThanWellFounded, WFMin, Zenon
<1>4. \A j \in T : ~(j < k)
  BY <1>2, <1>3 DEF OpToRel
<1>5. k \in Used /\ 0 \in Used /\ cmp(e[0], e[k])
  BY <1>1 DEF Used
<1>6. k # 0
  BY <1>1, <1>5, MinQueueAssumption
<1>7. k \in 1 .. size - 1 /\ PARENT(k) \in Used /\ PARENT(k) < k
  BY <1>1, <1>5, <1>6, ParentIs DEF Used
<1>8. ~cmp(e[0], e[PARENT(k)]) /\ ~cmp(e[PARENT(k)], e[k])
  BY <1>1, <1>4, <1>7
<1> QED
  BY <1>1, <1>5, <1>7, <1>8, MinQueueAssumption

LEMMA PopStep ==
  ASSUME Inv, minq_pop
  PROVE  /\ Inv' /\ size' = size - 1
         /\ e[0] \in Stored /\ Stored' = Stored \ {e[0]}
         /\ \A y \in Stored : ~cmp(e[0], y)
<1>1. /\ pc = "idle" /\ size > 0 /\ e' = [e EXCEPT ![0] = e[size - 1]]
      /\ size' = size - 1 /\ i' = 0 /\ pc' = "down" /\ UNCHANGED <<alloc, v>>
  BY DEF minq_pop
<1>2. /\ size \in Nat /\ alloc \in Nat /\ size <= alloc
      /\ e \in [0 .. alloc - 1 -> Item \cup {NULL}]
      /\ \A k \in Used : e[k] \in Item
      /\ Content = e /\ Content' = e'
  BY <1>1 DEF Inv, Types, Content
<1>3. Used' = 0 .. size - 2 /\ Used = Used' \cup {size - 1} /\ size - 1 \notin Used' /\ 0 \in Used
      /\ Used \subseteq 0 .. alloc - 1
  BY <1>1, <1>2 DEF Used
<1>4. Stored = {e[k] : k \in Used}
  BY <1>2, StoredIsContent DEF Inv
<1>5. e' \in [0 .. alloc - 1 -> Item \cup {NULL}]
      /\ \A k \in Used' : e'[k] = IF k = 0 THEN e[size - 1] ELSE e[k]
  BY <1>1, <1>2, <1>3
<1>6. Types'
  <2>1. size' \in Nat /\ size' <= alloc
    BY <1>1, <1>2
  <2>2. \A k \in Used' : Content'[k] \in Item
    <3>1. size - 1 \in Used
      BY <1>3
    <3> QED
      BY <1>2, <1>3, <1>5, <3>1
  <2>3. v \in Item \cup {NULL}
    BY DEF Inv, Types
  <2> QED
    BY <1>1, <1>2, <1>5, <2>1, <2>2, <2>3 DEF Types
<1>7. \A j, k \in Used : e[j] = e[k] => j = k
  BY <1>2 DEF Inv, Distinct
<1>8. Distinct'
  BY <1>2, <1>3, <1>5, <1>7 DEF Distinct
<1>9. Stored' = Stored \ {e[0]}
  <2>1. Stored' = {e'[k] : k \in Used'}
    BY <1>2, <1>6, StoredIsContentNext DEF Contents
  <2>2. ASSUME NEW k \in Used' PROVE e'[k] \in {e[j] : j \in Used} \ {e[0]}
    BY <1>3, <1>5, <1>7
  <2>3. ASSUME NEW j \in Used, e[j] # e[0] PROVE e[j] \in {e'[k] : k \in Used'}
    <3>1. CASE j = size - 1
      <4>1. 0 \in Used' /\ e'[0] = e[j]
        BY <1>1, <1>2, <1>3, <1>5, <2>3, <3>1
      <4> QED
        BY <4>1
    <3>2. CASE j # size - 1
      <4>1. j \in Used' /\ e'[j] = e[j]
        BY <1>3, <1>5, <2>3, <3>2
      <4> QED
        BY <4>1
    <3> QED
      BY <3>1, <3>2
  <2> QED
    BY <1>4, <2>1, <2>2, <2>3
<1>10. Ordered'
  <2>1. ASSUME NEW k \in 1 .. size' - 1, PARENT(k) # 0
        PROVE  ~cmp(e'[PARENT(k)], e'[k])
    <3>1. k \in Used' /\ k # 0 /\ k \in 1 .. size - 1 /\ PARENT(k) \in Used'
      <4>1. k \in 1 .. size - 2 /\ k \in Nat
        BY <1>1, <1>2
      <4>2. PARENT(k) \in Nat /\ PARENT(k) < k
        BY <4>1, ParentIs
      <4> QED
        BY <1>2, <1>3, <4>1, <4>2
    <3>2. ~cmp(e[PARENT(k)], e[k])
      BY <1>1, <1>2, <3>1 DEF Inv, Ordered, InPlace
    <3> QED
      BY <1>5, <2>1, <3>1, <3>2
  <2> QED
    BY <1>1, <1>2, <2>1 DEF Ordered, InPlace
<1>11. \A y \in Stored : ~cmp(e[0], y)
  BY <1>1, <1>4, RootIsSmallest
<1> QED
  BY <1>1, <1>3, <1>4, <1>6, <1>8, <1>9, <1>10, <1>11 DEF Inv

-----------------------------------------------------------------------------
(* The theorems. *)

(* What a step does to the set of the stored items.                        *)
LEMMA Effect ==
  ASSUME Inv, [Next]_vars
  PROVE  /\ Inv'
         /\ \/ Stored' = Stored /\ size' = size
            \/ \E x \in Item : x \notin Stored /\ Stored' = Stored \cup {x} /\ size' = size + 1
            \/ \E x \in Stored : /\ \A y \in Stored : ~cmp(x, y)
                                 /\ Stored' = Stored \ {x} /\ size' = size - 1
<1>1. CASE UNCHANGED vars
  <2>1. UNCHANGED <<e, size, alloc, pc, i, v>>
    BY <1>1 DEF vars
  <2> QED
    BY <2>1 DEF Inv, Types, Distinct, Ordered, InPlace, Content, Used, Stored
<1>2. ASSUME NEW x \in Item, minq_push(x)
      PROVE  Inv' /\ x \notin Stored /\ Stored' = Stored \cup {x} /\ size' = size + 1
  BY <1>2, PushStep
<1>3. CASE minq_push_fails
  BY <1>1, <1>3 DEF minq_push_fails
<1>4. CASE MoveParentDown
  BY <1>4, RiseStep DEF MoveParentDown
<1>5. CASE Insert
  BY <1>5, InsertStep DEF Insert
<1>6. CASE minq_pop
  BY <1>6, PopStep
<1>7. CASE Swap
  BY <1>7, SinkStep DEF Swap
<1>8. CASE Popped
  BY <1>8, PoppedStep DEF Popped
<1> QED
  BY <1>1, <1>2, <1>3, <1>4, <1>5, <1>6, <1>7, <1>8 DEF Next

LEMMA InvInit == Init => Inv /\ Stored = {} /\ size = 0
<1> SUFFICES ASSUME Init PROVE Inv /\ Stored = {} /\ size = 0
  OBVIOUS
<1>1. /\ size = 0 /\ alloc = SLOTS_PER_MALLOC /\ pc = "idle" /\ i = 0 /\ v = NULL
      /\ e = [k \in 0 .. SLOTS_PER_MALLOC - 1 |-> NULL]
  BY DEF Init
<1>2. Used = {}
  BY <1>1 DEF Used
<1>3. Types
  BY <1>1, <1>2, MinQueueAssumption DEF Types
<1>4. Distinct /\ Ordered
  BY <1>1, <1>2 DEF Distinct, Ordered
<1>5. Stored = {}
  BY <1>2, <1>3, StoredIsContent
<1> QED
  BY <1>1, <1>3, <1>4, <1>5 DEF Inv

LEMMA AlwaysInv == Spec => []Inv
<1>1. Init => Inv
  BY InvInit
<1>2. Inv /\ [Next]_vars => Inv'
  BY Effect
<1> QED
  BY <1>1, <1>2, PTL DEF Spec

(* MinQueueTypeOK: the type invariant; the slots in use are allocated and  *)
(* have been written.                                                      *)
THEOREM HeapTypes == Spec => []MinQueueTypeOK
<1>1. Inv => MinQueueTypeOK
  <2> SUFFICES ASSUME Inv PROVE MinQueueTypeOK
    OBVIOUS
  <2>1. Stored \subseteq Item
    BY StoredIsContent DEF Inv, Types
  <2> QED
    BY <2>1 DEF Inv, Types, MinQueueTypeOK
<1> QED
  BY <1>1, AlwaysInv, PTL

(* HeapOrder: both loops stop only when the heap is in order again.        *)
THEOREM HeapIsOrdered == Spec => []HeapOrder
<1>1. Inv => HeapOrder
  BY DEF Inv, Ordered, InPlace, Content, HeapOrder
<1> QED
  BY <1>1, AlwaysInv, PTL

(* NothingTwice: an item is in one slot only.                              *)
THEOREM HoldsEachOnce == Spec => []NothingTwice
<1> DEFINE Count == IsFiniteSet(Stored) /\ NothingTwice
<1>1. Init => Count
  BY InvInit, FS_EmptySet DEF NothingTwice
<1>2. Inv /\ Count /\ [Next]_vars => Count'
  <2> SUFFICES ASSUME Inv, Count, [Next]_vars PROVE Count'
    OBVIOUS
  <2>1. CASE Stored' = Stored /\ size' = size
    BY <2>1 DEF NothingTwice
  <2>2. ASSUME NEW x \in Item, x \notin Stored, Stored' = Stored \cup {x}, size' = size + 1
        PROVE  Count'
    BY <2>2, FS_AddElement DEF NothingTwice
  <2>3. ASSUME NEW x \in Stored, Stored' = Stored \ {x}, size' = size - 1
        PROVE  Count'
    BY <2>3, FS_RemoveElement DEF NothingTwice
  <2> QED
    BY <2>1, <2>2, <2>3, Effect
<1>3. Count => NothingTwice
  OBVIOUS
<1> QED
  BY <1>1, <1>2, <1>3, AlwaysInv, PTL DEF Spec

(* IsPriorityQueue: the heap keeps what PriorityQueue promises to          *)
(* link_sim; every iteration of the loops is a stuttering step of it.      *)
THEOREM HeapIsPriorityQueue == Spec => IsPriorityQueue
<1>1. Init => Promise!Init
  BY InvInit DEF Promise!Init
<1>2. Inv /\ [Next]_vars => [Promise!Next]_Stored
  <2> SUFFICES ASSUME Inv, [Next]_vars PROVE [Promise!Next]_Stored
    OBVIOUS
  <2>1. CASE Stored' = Stored
    BY <2>1
  <2>2. ASSUME NEW x \in Item, x \notin Stored, Stored' = Stored \cup {x}
        PROVE  Promise!Next
    BY <2>2 DEF Promise!Next, Promise!Insert
  <2>3. ASSUME NEW x \in Stored, \A y \in Stored : ~cmp(x, y), Stored' = Stored \ {x}
        PROVE  Promise!Next
    <3>1. x \in Item
      BY StoredIsContent DEF Inv, Types
    <3> QED
      BY <2>3, <3>1 DEF Promise!Next, Promise!Remove, Promise!Smallest
  <2> QED
    BY <2>1, <2>2, <2>3, Effect
<1> QED
  BY <1>1, <1>2, AlwaysInv, PTL DEF Spec, IsPriorityQueue, Promise!Spec
=============================================================================
