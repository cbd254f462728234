--------------------------- MODULE ReceiverProofs ---------------------------
(***************************************************************************)
(* The receiver's invariants, for every sequence number space, window and  *)
(* file, and against every stream of datagrams.                            *)
(*                                                                         *)
(* The inductive invariant Inv is the conjunction of the invariants that   *)
(* TLC checks.  Its heart is BufferOrdered: the offsets of the buffered    *)
(* packets grow at least as fast as their slots, starting from 1.  Hence   *)
(* the head is never the expected packet, at most MAX_WINDOW_SIZE - 1      *)
(* packets are ever buffered, and insert_pkt has a free slot to shift into.*)
(***************************************************************************)
EXTENDS Receiver, SeqNumProofs, SequenceTheorems

Inv ==
  /\ ReceiverTypeOK
  /\ WindowCountsFreeSlots
  /\ BufferOrdered
  /\ NoDanglingPacket
  /\ WindowNeverCloses
  /\ WrittenInSequence

Buffers == [Slots -> Packet \cup {NULL}]

(* The first n slots of b, and only they, hold packets. *)
Packed(b, n) == \A i \in Slots : b[i] # NULL <=> i < n

(* BufferOrdered, for an array b and a last written packet l. *)
Ordered(b, l) ==
  \A i \in Slots : b[i] # NULL =>
    /\ i + 1 <= Dist(l, b[i].seqnum)
    /\ Dist(l, b[i].seqnum) < MAX_WINDOW_SIZE
    /\ \A j \in Slots : j < i /\ b[j] # NULL =>
         i - j <= Dist(l, b[i].seqnum) - Dist(l, b[j].seqnum)

-----------------------------------------------------------------------------
(* refresh moves the packets of slots k .. n - 1 to the front. *)
LEMMA RefreshShifts ==
  ASSUME NEW b \in Buffers,
         NEW k \in 0 .. MAX_WINDOW_SIZE, NEW n \in k .. MAX_WINDOW_SIZE,
         \A i \in Slots : b[i] # NULL <=> k <= i /\ i < n
  PROVE  refresh(b) =
           [j \in Slots |-> IF j + k \in Slots THEN b[j + k] ELSE NULL]
<1>1. CASE k < n
  <2>1. k \in Slots /\ b[k] # NULL
    BY <1>1, SeqNumAssumption DEF Slots
  <2>2. \A j \in 0 .. k - 1 : b[j] = NULL
    BY <1>1, SeqNumAssumption DEF Slots
  <2>3. \A i \in Slots : (b[i] # NULL /\ \A j \in 0 .. i - 1 : b[j] = NULL) => i = k
    <3> SUFFICES ASSUME NEW i \in Slots, b[i] # NULL,
                        \A j \in 0 .. i - 1 : b[j] = NULL
                 PROVE  i = k
      OBVIOUS
    <3>1. k <= i
      OBVIOUS
    <3>2. ~(k < i)
      BY <2>1 DEF Slots
    <3> QED
      BY <3>1, <3>2 DEF Slots
  <2>4. FirstOccupied(b) = k
    BY <2>1, <2>2, <2>3 DEF FirstOccupied
  <2> QED
    BY <2>1, <2>4 DEF refresh
<1>2. CASE k = n
  <2>1. \A i \in Slots : b[i] = NULL
    BY <1>2, SeqNumAssumption DEF Slots
  <2>2. refresh(b) = b
    BY <2>1 DEF refresh
  <2>3. b = [j \in Slots |-> IF j + k \in Slots THEN b[j + k] ELSE NULL]
    BY <2>1 DEF Buffers
  <2> QED
    BY <2>2, <2>3
<1> QED
  BY <1>1, <1>2

(* A packed array is left alone. *)
LEMMA RefreshPacked ==
  ASSUME NEW b \in Buffers, NEW n \in 0 .. MAX_WINDOW_SIZE, Packed(b, n)
  PROVE  refresh(b) = b
<1>1. \A i \in Slots : b[i] # NULL <=> 0 <= i /\ i < n
  BY SeqNumAssumption DEF Packed, Slots
<1>2. 0 \in 0 .. MAX_WINDOW_SIZE
  BY SeqNumAssumption
<1>3. refresh(b) = [j \in Slots |-> IF j + 0 \in Slots THEN b[j + 0] ELSE NULL]
  BY <1>1, <1>2, RefreshShifts
<1>4. \A j \in Slots : j + 0 = j
  BY SeqNumAssumption DEF Slots
<1> QED
  BY <1>3, <1>4 DEF Buffers

LEMMA BufferedDist ==
  ASSUME NEW b \in Buffers, NEW l \in SeqNums, NEW i \in Slots, b[i] # NULL
  PROVE  /\ b[i] \in Packet
         /\ b[i].seqnum \in SeqNums
         /\ Dist(l, b[i].seqnum) \in 0 .. SeqSpace - 1
<1>1. b[i] \in Packet
  BY DEF Buffers
<1>2. b[i].seqnum \in SeqNums
  BY <1>1 DEF Packet
<1> QED
  BY <1>1, <1>2, DistValue

(* A place is always left for the expected packet. *)
LEMMA RoomLeft ==
  ASSUME NEW b \in Buffers, NEW n \in 0 .. MAX_WINDOW_SIZE, NEW l \in SeqNums,
         Packed(b, n), Ordered(b, l)
  PROVE  n < MAX_WINDOW_SIZE
<1> SUFFICES ASSUME n = MAX_WINDOW_SIZE PROVE FALSE
  BY SeqNumAssumption
<1>1. n - 1 \in Slots
  BY SeqNumAssumption DEF Slots
<1>2. b[n - 1] # NULL
  BY <1>1, SeqNumAssumption DEF Packed, Slots
<1>3. /\ (n - 1) + 1 <= Dist(l, b[n - 1].seqnum)
      /\ Dist(l, b[n - 1].seqnum) < MAX_WINDOW_SIZE
  BY <1>1, <1>2 DEF Ordered
<1>4. Dist(l, b[n - 1].seqnum) \in 0 .. SeqSpace - 1
  BY <1>1, <1>2, BufferedDist
<1> QED
  BY <1>3, <1>4, SeqNumAssumption

(* Inserting p at slot m, where its offset falls between its neighbours',  *)
(* keeps the array packed and ordered.                                     *)
LEMMA InsertKeepsOrder ==
  ASSUME NEW b \in Buffers, NEW n \in 0 .. MAX_WINDOW_SIZE - 1,
         NEW l \in SeqNums, NEW p \in Packet, NEW m \in 0 .. n,
         Packed(b, n), Ordered(b, l),
         1 <= Dist(l, p.seqnum), Dist(l, p.seqnum) < MAX_WINDOW_SIZE,
         \A j \in 0 .. m - 1 : Dist(l, b[j].seqnum) < Dist(l, p.seqnum),
         m < n => Dist(l, p.seqnum) < Dist(l, b[m].seqnum),
         NEW c,
         c = [j \in Slots |-> IF j < m THEN b[j] ELSE IF j = m THEN p ELSE b[j - 1]]
  PROVE  c \in Buffers /\ Packed(c, n + 1) /\ Ordered(c, l)
<1> DEFINE o == [i \in 0 .. n - 1 |-> Dist(l, b[i].seqnum)]
           d == Dist(l, p.seqnum)
<1>1. p.seqnum \in SeqNums /\ d \in 0 .. SeqSpace - 1
  BY DistValue DEF Packet
<1>2. \A i \in 0 .. n - 1 : i \in Slots /\ b[i] # NULL
  BY SeqNumAssumption DEF Packed, Slots
<1>3. \A i \in 0 .. n - 1 : o[i] \in 0 .. SeqSpace - 1
  BY <1>2, BufferedDist
<1>4. \A i \in 0 .. n - 1 : i + 1 <= o[i] /\ o[i] < MAX_WINDOW_SIZE
  BY <1>2 DEF Ordered
<1>5. \A i, j \in 0 .. n - 1 : j < i => i - j <= o[i] - o[j]
  BY <1>2 DEF Ordered
<1>6. \A j \in 0 .. m - 1 : o[j] < d
  BY SeqNumAssumption
<1>7. m < n => d < o[m]
  BY SeqNumAssumption
<1>8. p # NULL
  BY WireAssumption
<1>9. 1 <= d /\ d < MAX_WINDOW_SIZE
  OBVIOUS
<1> HIDE DEF o, d
<1>10. m + 1 <= d
  <2>1. CASE m = 0
    BY <2>1, <1>9
  <2>2. CASE m # 0
    <3>1. m - 1 \in 0 .. n - 1 /\ m - 1 \in 0 .. m - 1
      BY <2>2, SeqNumAssumption
    <3>2. (m - 1) + 1 <= o[m - 1] /\ o[m - 1] < d
      BY <3>1, <1>4, <1>6
    <3>3. o[m - 1] \in Int /\ d \in Int
      BY <3>1, <1>1, <1>3, SeqNumAssumption
    <3> QED
      BY <3>2, <3>3
  <2> QED
    BY <2>1, <2>2
<1>11. \A j \in 0 .. m - 1 : m - j <= d - o[j]
  <2> SUFFICES ASSUME NEW j \in 0 .. m - 1 PROVE m - j <= d - o[j]
    OBVIOUS
  <2>1. m - 1 \in 0 .. n - 1 /\ m - 1 \in 0 .. m - 1 /\ j \in 0 .. n - 1
    BY SeqNumAssumption
  <2>2. o[m - 1] < d /\ o[m - 1] \in Int /\ o[j] \in Int /\ d \in Int
    BY <2>1, <1>1, <1>3, <1>6, SeqNumAssumption
  <2>3. CASE j = m - 1
    BY <2>2, <2>3, SeqNumAssumption
  <2>4. CASE j < m - 1
    <3>1. (m - 1) - j <= o[m - 1] - o[j]
      BY <2>1, <2>4, <1>5
    <3> QED
      BY <3>1, <2>2, SeqNumAssumption
  <2> QED
    BY <2>3, <2>4, SeqNumAssumption
<1>12. \A i \in m .. n - 1 : i + 1 - m <= o[i] - d
  <2> SUFFICES ASSUME NEW i \in m .. n - 1 PROVE i + 1 - m <= o[i] - d
    OBVIOUS
  <2>1. m \in 0 .. n - 1 /\ i \in 0 .. n - 1
    BY SeqNumAssumption
  <2>2. d < o[m] /\ o[m] \in Int /\ o[i] \in Int /\ d \in Int
    BY <2>1, <1>1, <1>3, <1>7, SeqNumAssumption
  <2>3. CASE i = m
    BY <2>2, <2>3, SeqNumAssumption
  <2>4. CASE m < i
    <3>1. i - m <= o[i] - o[m]
      BY <2>1, <2>4, <1>5
    <3> QED
      BY <3>1, <2>2, SeqNumAssumption
  <2> QED
    BY <2>3, <2>4, SeqNumAssumption
(* Slot i of c holds packet At(i) of b, or p. *)
<1>13. /\ \A i \in Slots : i < m => c[i] = b[i] /\ i \in 0 .. n - 1
       /\ \A i \in Slots : i = m => c[i] = p
       /\ \A i \in Slots : m < i => c[i] = b[i - 1] /\ i - 1 \in Slots
  BY SeqNumAssumption DEF Slots
<1>14. c \in Buffers
  BY <1>13, SeqNumAssumption DEF Buffers, Slots
<1>15. Packed(c, n + 1)
  <2> SUFFICES ASSUME NEW i \in Slots PROVE c[i] # NULL <=> i < n + 1
    BY DEF Packed
  <2>1. CASE i < m
    BY <2>1, <1>13, SeqNumAssumption DEF Packed, Slots
  <2>2. CASE i = m
    BY <2>2, <1>8, <1>13, SeqNumAssumption DEF Slots
  <2>3. CASE m < i
    BY <2>3, <1>13, SeqNumAssumption DEF Packed, Slots
  <2> QED
    BY <2>1, <2>2, <2>3, SeqNumAssumption DEF Slots
<1>16. \A i \in Slots : c[i] # NULL =>
         /\ i < m => i \in 0 .. n - 1 /\ Dist(l, c[i].seqnum) = o[i]
         /\ i = m => Dist(l, c[i].seqnum) = d
         /\ m < i => i - 1 \in m .. n - 1 /\ Dist(l, c[i].seqnum) = o[i - 1]
  <2> SUFFICES ASSUME NEW i \in Slots, c[i] # NULL
               PROVE  /\ i < m => i \in 0 .. n - 1 /\ Dist(l, c[i].seqnum) = o[i]
                      /\ i = m => Dist(l, c[i].seqnum) = d
                      /\ m < i => i - 1 \in m .. n - 1
                                    /\ Dist(l, c[i].seqnum) = o[i - 1]
    OBVIOUS
  <2>1. ASSUME i < m PROVE i \in 0 .. n - 1 /\ Dist(l, c[i].seqnum) = o[i]
    BY <2>1, <1>13 DEF o
  <2>2. ASSUME i = m PROVE Dist(l, c[i].seqnum) = d
    BY <2>2, <1>13 DEF d
  <2>3. ASSUME m < i PROVE i - 1 \in m .. n - 1 /\ Dist(l, c[i].seqnum) = o[i - 1]
    <3>1. i < n + 1
      BY <1>15 DEF Packed
    <3>2. i - 1 \in m .. n - 1 /\ i - 1 \in 0 .. n - 1
      BY <3>1, <2>3, SeqNumAssumption DEF Slots
    <3> QED
      BY <3>2, <2>3, <1>13 DEF o
  <2> QED
    BY <2>1, <2>2, <2>3
<1>17. ASSUME NEW i \in Slots, c[i] # NULL
       PROVE  i + 1 <= Dist(l, c[i].seqnum) /\ Dist(l, c[i].seqnum) < MAX_WINDOW_SIZE
  <2>1. CASE i < m
    BY <2>1, <1>16, <1>17, <1>4
  <2>2. CASE i = m
    BY <2>2, <1>16, <1>17, <1>9, <1>10
  <2>3. CASE m < i
    <3>1. i - 1 \in m .. n - 1 /\ i - 1 \in 0 .. n - 1
      BY <2>3, <1>16, <1>17, SeqNumAssumption
    <3>2. (i - 1) + 1 - m <= o[i - 1] - d
      BY <3>1, <1>12
    <3>3. o[i - 1] \in Int /\ d \in Int /\ o[i - 1] < MAX_WINDOW_SIZE
      BY <3>1, <1>1, <1>3, <1>4, SeqNumAssumption
    <3>4. i + 1 <= o[i - 1]
      BY <3>2, <3>3, <1>10, SeqNumAssumption DEF Slots
    <3> QED
      BY <3>3, <3>4, <2>3, <1>16, <1>17
  <2> QED
    BY <2>1, <2>2, <2>3, SeqNumAssumption DEF Slots
<1>18. ASSUME NEW i \in Slots, c[i] # NULL, NEW j \in Slots, j < i, c[j] # NULL
       PROVE  i - j <= Dist(l, c[i].seqnum) - Dist(l, c[j].seqnum)
  <2>1. CASE i < m
    BY <2>1, <1>16, <1>18, <1>5, SeqNumAssumption DEF Slots
  <2>2. CASE i = m
    <3>1. j \in 0 .. m - 1
      BY <2>2, <1>18, SeqNumAssumption DEF Slots
    <3>2. m - j <= d - o[j]
      BY <3>1, <1>11
    <3> QED
      BY <3>1, <3>2, <2>2, <1>16, <1>18, SeqNumAssumption
  <2>3. CASE m < i /\ j < m
    <3>1. i - 1 \in m .. n - 1 /\ j \in 0 .. m - 1
      <4>1. i - 1 \in m .. n - 1
        BY <2>3, <1>16, <1>18
      <4> QED
        BY <4>1, <2>3, SeqNumAssumption DEF Slots
    <3>2. m - j <= d - o[j] /\ (i - 1) + 1 - m <= o[i - 1] - d
      BY <3>1, <1>11, <1>12
    <3>3. o[i - 1] \in Int /\ o[j] \in Int /\ d \in Int
      <4>1. i - 1 \in 0 .. n - 1 /\ j \in 0 .. n - 1
        BY <3>1, SeqNumAssumption
      <4> QED
        BY <4>1, <1>1, <1>3, SeqNumAssumption
    <3>4. i - j <= o[i - 1] - o[j]
      <4> DEFINE x == o[i - 1]
                 y == o[j]
      <4>1. i \in Int /\ j \in Int /\ m \in Int
        BY <3>1 DEF Slots
      <4>2. x \in Int /\ y \in Int /\ d \in Int /\ m - j <= d - y /\ (i - 1) + 1 - m <= x - d
        BY <3>2, <3>3
      <4> HIDE DEF x, y
      <4>3. i - j <= x - y
        BY <4>1, <4>2
      <4> QED
        BY <4>3 DEF x, y
    <3> QED
      BY <3>4, <2>3, <1>16, <1>18
  <2>4. CASE m < i /\ j = m
    <3>1. i - 1 \in m .. n - 1
      BY <2>4, <1>16, <1>18
    <3>2. (i - 1) + 1 - m <= o[i - 1] - d
      BY <3>1, <1>12
    <3>3. i - j <= o[i - 1] - d
      BY <3>1, <3>2, <2>4, SeqNumAssumption
    <3> QED
      BY <3>3, <2>4, <1>16, <1>18
  <2>5. CASE m < i /\ m < j
    <3>1. i - 1 \in 0 .. n - 1 /\ j - 1 \in 0 .. n - 1 /\ j - 1 < i - 1
      <4>1. i - 1 \in m .. n - 1 /\ j - 1 \in m .. n - 1
        BY <2>5, <1>16, <1>18
      <4> QED
        BY <4>1, <1>18, SeqNumAssumption DEF Slots
    <3>2. (i - 1) - (j - 1) <= o[i - 1] - o[j - 1]
      BY <3>1, <1>5
    <3>3. i - j <= o[i - 1] - o[j - 1]
      BY <3>2, SeqNumAssumption DEF Slots
    <3> QED
      BY <3>3, <2>5, <1>16, <1>18
  <2> QED
    BY <2>1, <2>2, <2>3, <2>4, <2>5, SeqNumAssumption DEF Slots
<1>19. Ordered(c, l)
  BY <1>17, <1>18 DEF Ordered
<1> QED
  BY <1>14, <1>15, <1>19

(* Dropping the k packets that follow l + 1 in sequence, and moving the    *)
(* window past them, keeps the array packed and ordered.                   *)
LEMMA DrainKeepsOrder ==
  ASSUME NEW b \in Buffers, NEW n \in 0 .. MAX_WINDOW_SIZE - 1,
         NEW l \in SeqNums, NEW k \in 0 .. n,
         Packed(b, n), Ordered(b, l),
         k < n => b[k].seqnum # Wrap(l + 2 + k),
         NEW c, c = [j \in Slots |-> IF j + k \in Slots THEN b[j + k] ELSE NULL]
  PROVE  c \in Buffers /\ Packed(c, n - k) /\ Ordered(c, Wrap(l + 1 + k))
<1> DEFINE o == [i \in 0 .. n - 1 |-> Dist(l, b[i].seqnum)]
<1>1. \A i \in 0 .. n - 1 : i \in Slots /\ b[i] # NULL
  BY SeqNumAssumption DEF Packed, Slots
<1>2. \A i \in 0 .. n - 1 : o[i] \in 0 .. SeqSpace - 1
  BY <1>1, BufferedDist
<1>3. \A i \in 0 .. n - 1 : i + 1 <= o[i] /\ o[i] < MAX_WINDOW_SIZE
  BY <1>1 DEF Ordered
<1>4. \A i, j \in 0 .. n - 1 : j < i => i - j <= o[i] - o[j]
  BY <1>1 DEF Ordered
<1>5. k < n => o[k] # k + 1
  <2> SUFFICES ASSUME k < n, o[k] = k + 1 PROVE FALSE
    OBVIOUS
  <2>1. k \in 0 .. n - 1 /\ k + 1 \in 0 .. SeqSpace - 1 /\ l + 1 + (k + 1) = l + 2 + k
    BY SeqNumAssumption DEF SeqNums
  <2>2. Dist(l, Wrap(l + 1 + (k + 1))) = k + 1
    BY <2>1, DistAt
  <2>3. b[k].seqnum \in SeqNums
    BY <2>1, <1>1, BufferedDist
  <2>4. Wrap(l + 2 + k) \in SeqNums
    BY WrapType, SeqNumAssumption DEF SeqNums
  <2>5. Dist(l, b[k].seqnum) = Dist(l, Wrap(l + 2 + k))
    BY <2>1, <2>2
  <2> QED
    BY <2>3, <2>4, <2>5, DistInjective
<1>6. \A i \in k .. n - 1 : i + 2 <= o[i]
  <2> SUFFICES ASSUME NEW i \in k .. n - 1 PROVE i + 2 <= o[i]
    OBVIOUS
  <2>1. k \in 0 .. n - 1 /\ i \in 0 .. n - 1
    BY SeqNumAssumption
  <2>2. o[k] \in Int /\ o[i] \in Int /\ k + 1 <= o[k] /\ o[k] # k + 1
    BY <2>1, <1>2, <1>3, <1>5, SeqNumAssumption
  <2>3. CASE i = k
    BY <2>2, <2>3, SeqNumAssumption
  <2>4. CASE k < i
    <3>1. i - k <= o[i] - o[k]
      BY <2>1, <2>4, <1>4
    <3> QED
      BY <3>1, <2>2, SeqNumAssumption
  <2> QED
    BY <2>3, <2>4, SeqNumAssumption
<1>7. \A i \in k .. n - 1 : Dist(Wrap(l + 1 + k), b[i].seqnum) = o[i] - (k + 1)
  <2> SUFFICES ASSUME NEW i \in k .. n - 1
               PROVE  Dist(Wrap(l + 1 + k), b[i].seqnum) = o[i] - (k + 1)
    OBVIOUS
  <2>1. i \in 0 .. n - 1 /\ k + 1 \in 0 .. SeqSpace - 1 /\ l + (k + 1) = l + 1 + k
    BY SeqNumAssumption DEF SeqNums
  <2>2. k + 1 <= Dist(l, b[i].seqnum)
    <3>1. i + 2 <= o[i]
      BY <1>6
    <3>2. o[i] \in Int
      BY <2>1, <1>2, SeqNumAssumption
    <3>3. k + 1 <= o[i]
      BY <3>1, <3>2
    <3> QED
      BY <3>3, <2>1
  <2>3. b[i].seqnum \in SeqNums
    BY <2>1, <1>1, BufferedDist
  <2>4. Dist(Wrap(l + (k + 1)), b[i].seqnum) = Dist(l, b[i].seqnum) - (k + 1)
    BY <2>1, <2>2, <2>3, DistMove
  <2> QED
    BY <2>1, <2>4
<1> HIDE DEF o
<1>8. \A i \in Slots : c[i] = IF i + k \in Slots THEN b[i + k] ELSE NULL
  OBVIOUS
<1>9. c \in Buffers
  BY SeqNumAssumption DEF Buffers, Slots
<1>10. Packed(c, n - k)
  <2> SUFFICES ASSUME NEW i \in Slots PROVE c[i] # NULL <=> i < n - k
    BY DEF Packed
  <2>1. CASE i + k \in Slots
    <3>1. b[i + k] # NULL <=> i + k < n
      BY <2>1 DEF Packed
    <3> QED
      BY <2>1, <3>1, <1>8, SeqNumAssumption DEF Slots
  <2>2. CASE i + k \notin Slots
    BY <2>2, <1>8, SeqNumAssumption DEF Slots
  <2> QED
    BY <2>1, <2>2
<1>11. ASSUME NEW i \in Slots, c[i] # NULL
       PROVE  /\ i + k \in k .. n - 1
              /\ c[i] = b[i + k]
              /\ Dist(Wrap(l + 1 + k), c[i].seqnum) = o[i + k] - (k + 1)
  <2>1. i + k \in k .. n - 1
    BY <1>10, <1>11, SeqNumAssumption DEF Packed, Slots
  <2>2. c[i] = b[i + k]
    BY <1>8, <1>11
  <2> QED
    BY <2>1, <2>2, <1>7
<1>12. Ordered(c, Wrap(l + 1 + k))
  <2>1. ASSUME NEW i \in Slots, c[i] # NULL
        PROVE  /\ i + 1 <= Dist(Wrap(l + 1 + k), c[i].seqnum)
               /\ Dist(Wrap(l + 1 + k), c[i].seqnum) < MAX_WINDOW_SIZE
    <3>1. i + k \in k .. n - 1 /\ i + k \in 0 .. n - 1
      BY <2>1, <1>11, SeqNumAssumption DEF Slots
    <3>2. (i + k) + 2 <= o[i + k] /\ o[i + k] < MAX_WINDOW_SIZE /\ o[i + k] \in Int
      BY <3>1, <1>2, <1>3, <1>6, SeqNumAssumption
    <3>3. i + 1 <= o[i + k] - (k + 1) /\ o[i + k] - (k + 1) < MAX_WINDOW_SIZE
      BY <3>2, SeqNumAssumption DEF Slots
    <3> QED
      BY <3>3, <2>1, <1>11
  <2>2. ASSUME NEW i \in Slots, c[i] # NULL, NEW j \in Slots, j < i, c[j] # NULL
        PROVE  i - j <= Dist(Wrap(l + 1 + k), c[i].seqnum)
                          - Dist(Wrap(l + 1 + k), c[j].seqnum)
    <3>1. i + k \in k .. n - 1 /\ j + k \in k .. n - 1
      BY <2>2, <1>11
    <3>2. i + k \in 0 .. n - 1 /\ j + k \in 0 .. n - 1 /\ j + k < i + k
      BY <3>1, <2>2, SeqNumAssumption DEF Slots
    <3>3. (i + k) - (j + k) <= o[i + k] - o[j + k]
      BY <3>2, <1>4
    <3>4. o[i + k] \in Int /\ o[j + k] \in Int
      BY <3>2, <1>2, SeqNumAssumption
    <3>5. i - j <= (o[i + k] - (k + 1)) - (o[j + k] - (k + 1))
      BY <3>3, <3>4, SeqNumAssumption DEF Slots
    <3> QED
      BY <3>5, <2>2, <1>11
  <2> QED
    BY <2>1, <2>2 DEF Ordered
<1> QED
  BY <1>9, <1>10, <1>12

-----------------------------------------------------------------------------
(* What the invariant says of the choices made in an iteration. *)
Buffered == MAX_WINDOW_SIZE - window_size

LEMMA InvFacts ==
  ASSUME Inv
  PROVE  /\ lastack \in SeqNums
         /\ receive_buffer \in Buffers
         /\ Buffered \in 0 .. MAX_WINDOW_SIZE - 1
         /\ Packed(receive_buffer, Buffered)
         /\ Ordered(receive_buffer, lastack)
BY SeqNumAssumption
   DEF Inv, ReceiverTypeOK, WindowCountsFreeSlots, BufferOrdered, WindowNeverCloses,
       Buffers, Packed, Ordered, Offset, Expected, Dist, Buffered

(* The head of the buffer is never the expected packet. *)
LEMMA HeadIsLater ==
  ASSUME Inv
  PROVE  ~HeadIsExpected
<1> SUFFICES ASSUME HeadIsExpected PROVE FALSE
  OBVIOUS
<1>1. 0 \in Slots /\ receive_buffer[0] # NULL
  BY SeqNumAssumption DEF Slots, HeadIsExpected
<1>2. 0 + 1 <= Dist(lastack, receive_buffer[0].seqnum)
  BY <1>1, InvFacts DEF Ordered
<1>3. Expected = Wrap(lastack + 1 + 0) /\ 0 \in 0 .. SeqSpace - 1
  BY InvFacts, SeqNumAssumption DEF Expected, Wrap, SeqNums
<1>4. Dist(lastack, Expected) = 0
  BY <1>3, InvFacts, DistAt
<1> QED
  BY <1>2, <1>4 DEF HeadIsExpected

(* The loop after a write stops inside the buffered packets. *)
LEMMA RunStops ==
  ASSUME Inv
  PROVE  /\ Run \in 0 .. Buffered
         /\ \A i \in 0 .. Run - 1 : Follows(i)
         /\ ~Follows(Run)
<1> DEFINE T == {i \in Slots : Follows(i)}
<1>1. PICK k \in 0 .. MAX_WINDOW_SIZE : /\ \A i \in 0 .. k - 1 : i \in T
                                        /\ k = MAX_WINDOW_SIZE \/ k \notin T
  BY LeastIndex, SeqNumAssumption
<1>2. \A i \in 0 .. k - 1 : Follows(i)
  BY <1>1
<1>3. k = MAX_WINDOW_SIZE \/ ~Follows(k)
  BY <1>1, SeqNumAssumption DEF Slots
<1>4. /\ Run \in 0 .. MAX_WINDOW_SIZE
      /\ \A i \in 0 .. Run - 1 : Follows(i)
      /\ Run = MAX_WINDOW_SIZE \/ ~Follows(Run)
  BY <1>2, <1>3 DEF Run
<1> HIDE DEF T
<1>5. Run <= Buffered
  <2> SUFFICES ASSUME Buffered < Run PROVE FALSE
    BY <1>4, InvFacts
  <2>1. Buffered \in 0 .. Run - 1 /\ Buffered \in Slots
    BY <1>4, InvFacts, SeqNumAssumption DEF Slots
  <2>2. receive_buffer[Buffered] # NULL
    BY <2>1, <1>4 DEF Follows
  <2>3. Buffered < Buffered
    BY <2>1, <2>2, InvFacts DEF Packed
  <2> QED
    BY <2>3, InvFacts
<1> QED
  BY <1>4, <1>5, InvFacts, SeqNumAssumption

(* insert_pkt always finds where to stop, at the latest after the buffered *)
(* packets.                                                                *)
LEMMA InsertionPlace ==
  ASSUME Inv, NEW p \in Packet
  PROVE  /\ InsertPoint(p) \in 0 .. Buffered
         /\ InsertStops(p, InsertPoint(p))
         /\ \A j \in 0 .. InsertPoint(p) - 1 : ~InsertStops(p, j)
<1> DEFINE T == {i \in Slots : InsertStops(p, i)}
<1>1. Buffered \in T /\ T \subseteq Nat
  BY InvFacts, SeqNumAssumption DEF Slots, InsertStops, Packed
<1>2. PICK m \in T : \A y \in T : m <= y
  BY <1>1, LeastElement
<1>3. m \in Slots /\ InsertStops(p, m) /\ \A j \in 0 .. m - 1 : ~InsertStops(p, j)
  <2>1. ASSUME NEW j \in 0 .. m - 1, InsertStops(p, j) PROVE FALSE
    <3>1. m \in Slots
      OBVIOUS
    <3>2. j \in Slots
      BY <3>1, SeqNumAssumption DEF Slots
    <3> QED
      BY <2>1, <3>1, <3>2, <1>2 DEF Slots
  <2> QED
    BY <2>1
<1>4. /\ InsertPoint(p) \in Slots
      /\ InsertStops(p, InsertPoint(p))
      /\ \A j \in 0 .. InsertPoint(p) - 1 : ~InsertStops(p, j)
  BY <1>3 DEF InsertPoint
<1>5. InsertPoint(p) <= Buffered
  <2> SUFFICES ASSUME Buffered < InsertPoint(p) PROVE FALSE
    BY <1>4, InvFacts DEF Slots
  <2>1. Buffered \in 0 .. InsertPoint(p) - 1
    BY <1>4, InvFacts DEF Slots
  <2> QED
    BY <2>1, <1>1, <1>4
<1> QED
  BY <1>4, <1>5, SeqNumAssumption, InvFacts DEF Slots

-----------------------------------------------------------------------------
(* The sequence numbers that follow the expected one, which is             *)
(* Wrap(Len(written)).                                                     *)
LEMMA NextNumbers ==
  ASSUME Inv, NEW d \in 0 .. SeqSpace - 1
  PROVE  /\ (lastack + 1 + d) % SeqSpace = Wrap(Len(written) + d)
         /\ (lastack + 1 + d) % SeqSpace \in SeqNums
<1>1. lastack + 1 \in Nat /\ Len(written) \in Nat /\ lastack + 1 + d \in Nat
  BY SeqNumAssumption DEF Inv, ReceiverTypeOK, SeqNums
<1>2. Wrap(lastack + 1) = Wrap(Len(written))
  BY DEF Inv, WrittenInSequence, Expected, Wrap
<1>3. Wrap((lastack + 1) + d) = Wrap(Len(written) + d)
  BY <1>1, <1>2, WrapCongruent
<1>4. Wrap((lastack + 1) + d) = (lastack + 1 + d) % SeqSpace
  BY DEF Wrap
<1> QED
  BY <1>1, <1>3, <1>4, WrapType

(* The answers of an iteration are well formed. *)
LEMMA AckType ==
  ASSUME Inv, NEW i \in 0 .. MAX_WINDOW_SIZE - 1, NEW free \in 0 .. MAX_WINDOW_SIZE
  PROVE  send_ack(i, free) \in Control
<1>1. i + 1 \in 0 .. SeqSpace - 1 /\ lastack + 1 + (i + 1) = lastack + 2 + i
  BY SeqNumAssumption, InvFacts DEF SeqNums
<1>2. (lastack + 2 + i) % SeqSpace \in SeqNums
  BY <1>1, NextNumbers
<1>3. Len(written) + 1 + i \in Nat
  BY DEF Inv, ReceiverTypeOK
<1> QED
  BY <1>2, <1>3 DEF send_ack, Control

LEMMA Initially ==
  ASSUME Init_R
  PROVE  Inv
<1> USE SeqNumAssumption
<1>1. lastack \in SeqNums /\ Expected = 0 /\ Wrap(0) = 0
  BY DEF Init_R, ReceiverInit, SeqNums, Expected, Wrap
<1>2. ReceiverTypeOK
  <2>1. written \in Seq(Packet) /\ acks \in Seq(Control)
    BY DEF Init_R, ReceiverInit
  <2>2. dangling \in BOOLEAN
    BY DEF Init_R, ReceiverInit
  <2>3. window_size \in 0 .. MAX_WINDOW_SIZE /\ receive_buffer \in [Slots -> Packet \cup {NULL}]
    BY DEF Init_R, ReceiverInit
  <2> QED
    BY <1>1, <2>1, <2>2, <2>3 DEF ReceiverTypeOK
<1>3. \A i \in Slots : receive_buffer[i] = NULL
  BY DEF Init_R, ReceiverInit
<1> QED
  BY <1>1, <1>2, <1>3
     DEF Inv, Init_R, ReceiverInit, WindowCountsFreeSlots, BufferOrdered, NoDanglingPacket,
         WindowNeverCloses, WrittenInSequence, Slots

(* A packet that is not expected, not there yet and inside the window is   *)
(* inserted between packets that come before it and packets that come after*)
LEMMA BufferStep ==
  ASSUME Inv, NEW p \in Packet, InWindow(p.seqnum), p.seqnum # Expected, Inserts(p)
  PROVE  /\ insert_pkt(p) \in Buffers
         /\ Packed(insert_pkt(p), Buffered + 1)
         /\ Ordered(insert_pkt(p), lastack)
         /\ refresh(insert_pkt(p)) = insert_pkt(p)
<1> DEFINE b == receive_buffer
           n == Buffered
           l == lastack
           m == InsertPoint(p)
           d == Dist(l, p.seqnum)
           c == [j \in Slots |-> IF j < m THEN b[j] ELSE IF j = m THEN p ELSE b[j - 1]]
<1>1. /\ l \in SeqNums /\ b \in Buffers /\ n \in 0 .. MAX_WINDOW_SIZE - 1
      /\ Packed(b, n) /\ Ordered(b, l)
  BY InvFacts
<1>2. m \in 0 .. n /\ InsertStops(p, m) /\ \A j \in 0 .. m - 1 : ~InsertStops(p, j)
  BY InsertionPlace
<1>3. m \in Slots
  BY <1>1, <1>2, SeqNumAssumption DEF Slots
<1>4. p.seqnum \in SeqNums /\ d \in 0 .. SeqSpace - 1
  BY <1>1, DistValue DEF Packet
<1>5. d < MAX_WINDOW_SIZE
  BY DEF InWindow, Offset, Expected, Dist
<1>6. 1 <= d
  <2>1. Expected = Wrap(l + 1 + 0) /\ 0 \in 0 .. SeqSpace - 1
    BY <1>1, SeqNumAssumption DEF Expected, Wrap, SeqNums
  <2>2. Dist(l, Expected) = 0 /\ Expected \in SeqNums
    BY <1>1, <2>1, DistAt, WrapType, SeqNumAssumption DEF SeqNums
  <2>3. d # 0
    BY <1>1, <1>4, <2>2, DistInjective
  <2> QED
    BY <1>4, <2>3
<1>7. ASSUME NEW j \in 0 .. m - 1 PROVE Dist(l, b[j].seqnum) < d
  <2>1. j \in Slots /\ ~InsertStops(p, j)
    <3>1. ~InsertStops(p, j)
      BY <1>2
    <3>2. \A k \in Slots : \A i \in 0 .. k - 1 : i \in Slots
      BY SeqNumAssumption DEF Slots
    <3> QED
      BY <1>3, <3>1, <3>2
  <2>2. b[j] # NULL /\ ~(compare_seqnums(l, p.seqnum, b[j].seqnum) <= 0)
    BY <2>1 DEF InsertStops
  <2>3. b[j].seqnum \in SeqNums /\ Dist(l, b[j].seqnum) \in 0 .. SeqSpace - 1
    BY <2>1, <2>2, <1>1, BufferedDist
  <2>4. compare_seqnums(l, p.seqnum, b[j].seqnum) = d - Dist(l, b[j].seqnum)
    BY <2>3, <1>1, <1>4, CompareIsDist
  <2> QED
    BY <2>2, <2>3, <2>4, <1>4
<1>8. ASSUME m < n PROVE d < Dist(l, b[m].seqnum)
  <2>1. b[m] # NULL
    BY <1>1, <1>3, <1>8 DEF Packed
  <2>2. b[m].seqnum \in SeqNums /\ Dist(l, b[m].seqnum) \in 0 .. SeqSpace - 1
    BY <2>1, <1>1, <1>3, BufferedDist
  <2>3. compare_seqnums(l, p.seqnum, b[m].seqnum) = d - Dist(l, b[m].seqnum)
    BY <2>2, <1>1, <1>4, CompareIsDist
  <2>4. compare_seqnums(l, p.seqnum, b[m].seqnum) <= 0
    BY <2>1, <1>2 DEF InsertStops
  <2>5. b[m].seqnum # p.seqnum
    BY <2>1 DEF Inserts
  <2>6. d # Dist(l, b[m].seqnum)
    BY <2>2, <2>5, <1>1, <1>4, DistInjective
  <2> QED
    BY <2>2, <2>3, <2>4, <2>6, <1>4
<1>9. insert_pkt(p) = c
  <2>1. CASE b[m] = NULL
    <3>1. m = n
      BY <2>1, <1>1, <1>2, <1>3 DEF Packed
    <3>2. \A j \in Slots : [b EXCEPT ![m] = p][j] = c[j]
      <4> SUFFICES ASSUME NEW j \in Slots PROVE [b EXCEPT ![m] = p][j] = c[j]
        OBVIOUS
      <4>1. CASE j <= m
        BY <4>1, <1>1, <1>2 DEF Buffers, Slots
      <4>2. CASE m < j
        <5>1. j - 1 \in Slots /\ b[j] = NULL /\ b[j - 1] = NULL
          BY <4>2, <3>1, <1>1, SeqNumAssumption DEF Packed, Slots
        <5> QED
          BY <5>1, <4>2, <1>1, <1>2 DEF Buffers
      <4> QED
        BY <4>1, <4>2, <1>3, SeqNumAssumption DEF Slots
    <3>3. [b EXCEPT ![m] = p] = c
      BY <3>2, <1>1 DEF Buffers
    <3> QED
      BY <3>3, <2>1 DEF insert_pkt
  <2>2. CASE b[m] # NULL
    BY <2>2 DEF insert_pkt
  <2> QED
    BY <2>1, <2>2
<1>10. c \in Buffers /\ Packed(c, n + 1) /\ Ordered(c, l)
  <2> HIDE DEF b, n, l, m, c
  <2>1. \A j \in 0 .. m - 1 : Dist(l, b[j].seqnum) < Dist(l, p.seqnum)
    BY <1>7
  <2>2. c = [j \in Slots |-> IF j < m THEN b[j] ELSE IF j = m THEN p ELSE b[j - 1]]
    BY DEF c
  <2> QED
    BY <2>1, <2>2, <1>1, <1>2, <1>5, <1>6, <1>8, InsertKeepsOrder
<1>11. refresh(c) = c
  <2> HIDE DEF b, n, l, m, c
  <2>1. n + 1 \in 0 .. MAX_WINDOW_SIZE
    BY <1>1, SeqNumAssumption
  <2> QED
    BY <2>1, <1>10, RefreshPacked
<1> QED
  BY <1>9, <1>10, <1>11

-----------------------------------------------------------------------------
(* The buffer and the window after the expected packet and its successors  *)
(* have been written.                                                      *)
LEMMA DrainStep ==
  ASSUME Inv, NEW status, NEW p, WriteExpected(status, p)
  PROVE  /\ lastack' \in SeqNums
         /\ window_size' = window_size + Run
         /\ dangling' = FALSE
         /\ receive_buffer' \in Buffers
         /\ Packed(receive_buffer', MAX_WINDOW_SIZE - window_size')
         /\ Ordered(receive_buffer', lastack')
<1> DEFINE b == receive_buffer
           n == Buffered
           l == lastack
           k == Run
           e == [i \in Slots |-> IF i < k THEN NULL ELSE b[i]]
           c == [j \in Slots |-> IF j + k \in Slots THEN b[j + k] ELSE NULL]
<1>1. /\ l \in SeqNums /\ b \in Buffers /\ n \in 0 .. MAX_WINDOW_SIZE - 1
      /\ Packed(b, n) /\ Ordered(b, l)
  BY InvFacts
<1>2. k \in 0 .. n /\ ~Follows(k)
  BY RunStops
<1>3. window_size' = window_size + k /\ dangling' = FALSE
  BY HeadIsLater DEF WriteExpected
<1>4. lastack' = Wrap(l + 1 + k) /\ lastack' \in SeqNums
  <2>1. lastack' = (l + 1 + k) % SeqSpace
    BY DEF WriteExpected
  <2>2. k \in 0 .. SeqSpace - 1
    BY <1>1, <1>2, SeqNumAssumption
  <2> QED
    BY <2>1, <2>2, NextNumbers DEF Wrap
<1>5. receive_buffer' = refresh(e)
  BY DEF WriteExpected
<1>6. k < n => b[k].seqnum # Wrap(l + 2 + k)
  <2> SUFFICES ASSUME k < n PROVE b[k].seqnum # Wrap(l + 2 + k)
    OBVIOUS
  <2>1. k \in Slots
    BY <1>1, <1>2, SeqNumAssumption DEF Slots
  <2>2. b[k] # NULL
    BY <2>1, <1>1 DEF Packed
  <2> QED
    BY <2>2, <1>2 DEF Follows, Wrap
<1> HIDE DEF b, n, l, k
<1>7. receive_buffer' = c
  <2>1. e \in Buffers
    BY <1>1 DEF Buffers
  <2>2. \A i \in Slots : e[i] # NULL <=> k <= i /\ i < n
    BY <1>1, <1>2, SeqNumAssumption DEF Packed, Slots
  <2>3. k \in 0 .. MAX_WINDOW_SIZE /\ n \in k .. MAX_WINDOW_SIZE
    BY <1>1, <1>2, SeqNumAssumption
  <2> HIDE DEF e
  <2>4. refresh(e) = [j \in Slots |-> IF j + k \in Slots THEN e[j + k] ELSE NULL]
    BY <2>1, <2>2, <2>3, RefreshShifts
  <2>5. \A j \in Slots : j + k \in Slots => e[j + k] = b[j + k]
    BY <1>1, <1>2, SeqNumAssumption DEF e, Slots
  <2> QED
    BY <1>5, <2>4, <2>5
<1> HIDE DEF e, c
<1>8. c \in Buffers /\ Packed(c, n - k) /\ Ordered(c, Wrap(l + 1 + k))
  <2>1. c = [j \in Slots |-> IF j + k \in Slots THEN b[j + k] ELSE NULL]
    BY DEF c
  <2> QED
    BY <2>1, <1>1, <1>2, <1>6, DrainKeepsOrder
<1>9. n - k = MAX_WINDOW_SIZE - window_size'
  BY <1>1, <1>2, <1>3, SeqNumAssumption DEF n, Buffered, Inv, ReceiverTypeOK
<1> QED
  BY <1>3, <1>4, <1>7, <1>8, <1>9 DEF k

(* The packets written and the answers sent in that iteration. *)
LEMMA WriteStep ==
  ASSUME Inv, NEW status, NEW p \in Packet, WriteExpected(status, p)
  PROVE  /\ written' \in Seq(Packet)
         /\ acks' \in Seq(Control)
         /\ WrittenInSequence'
<1> DEFINE k == Run
           N == Len(written)
           drained == [i \in 1 .. k |-> receive_buffer[i - 1]]
<1>1. /\ lastack \in SeqNums /\ Buffered \in 0 .. MAX_WINDOW_SIZE - 1
      /\ k \in 0 .. Buffered /\ \A i \in 0 .. k - 1 : Follows(i)
  BY InvFacts, RunStops
<1>2. /\ written \in Seq(Packet) /\ N \in Nat /\ acks \in Seq(Control)
      /\ window_size \in 0 .. MAX_WINDOW_SIZE
      /\ \A i \in 1 .. N : written[i].seqnum = Wrap(i - 1)
  BY DEF Inv, ReceiverTypeOK, WrittenInSequence
<1>3. \A i \in 1 .. k : /\ receive_buffer[i - 1] \in Packet
                        /\ receive_buffer[i - 1].seqnum = (lastack + 1 + i) % SeqSpace
  <2> SUFFICES ASSUME NEW i \in 1 .. k
               PROVE  /\ receive_buffer[i - 1] \in Packet
                      /\ receive_buffer[i - 1].seqnum = (lastack + 1 + i) % SeqSpace
    OBVIOUS
  <2>1. i - 1 \in 0 .. k - 1 /\ i - 1 \in Slots /\ lastack + 2 + (i - 1) = lastack + 1 + i
    BY <1>1, SeqNumAssumption DEF Slots, SeqNums
  <2> QED
    BY <2>1, <1>1, InvFacts, BufferedDist DEF Follows
<1>4. written' = written \o <<p>> \o drained
  BY DEF WriteExpected
<1>5. drained \in Seq(Packet) /\ Len(drained) = k
        /\ \A i \in 1 .. k : drained[i] = receive_buffer[i - 1]
  BY <1>1, <1>3
<1>6. acks' \in Seq(Control)
  <2> DEFINE drain == [i \in 1 .. k |-> send_ack(i, window_size + i)]
             break == IF k < MAX_WINDOW_SIZE THEN <<send_ack(k, window_size + k)>>
                      ELSE <<>>
  <2>1. acks' = acks \o drain \o break
    BY HeadIsLater DEF WriteExpected
  <2>2. \A i \in 0 .. k : send_ack(i, window_size + i) \in Control
    <3> SUFFICES ASSUME NEW i \in 0 .. k
                 PROVE  send_ack(i, window_size + i) \in Control
      OBVIOUS
    <3>1. i \in 0 .. MAX_WINDOW_SIZE - 1 /\ window_size + i \in 0 .. MAX_WINDOW_SIZE
      BY <1>1, <1>2, SeqNumAssumption DEF Buffered
    <3> QED
      BY <3>1, AckType
  <2>3. drain \in Seq(Control)
    BY <1>1, <2>2
  <2>4. break \in Seq(Control)
    BY <1>1, <2>2
  <2> QED
    BY <2>1, <2>3, <2>4, <1>2
<1> HIDE DEF drained
<1>7. written' \in Seq(Packet) /\ Len(written') = N + 1 + k
  <2>1. <<p>> \in Seq(Packet) /\ Len(<<p>>) = 1
    OBVIOUS
  <2>2. written \o <<p>> \in Seq(Packet) /\ Len(written \o <<p>>) = N + 1
    BY <1>2, <2>1, ConcatProperties
  <2>3. /\ (written \o <<p>>) \o drained \in Seq(Packet)
        /\ Len((written \o <<p>>) \o drained) = Len(written \o <<p>>) + Len(drained)
    BY <1>5, <2>2, ConcatProperties
  <2> QED
    BY <1>4, <1>5, <2>2, <2>3
<1>8. Expected' = Wrap(Len(written'))
  <2>1. lastack' = Wrap(lastack + 1 + k)
    BY DEF WriteExpected, Wrap
  <2>2. lastack + 1 + k \in Nat /\ 1 \in 0 .. SeqSpace - 1 /\ k + 1 \in 0 .. SeqSpace - 1
          /\ (lastack + 1 + k) + 1 = lastack + 1 + (k + 1)
    BY <1>1, SeqNumAssumption DEF SeqNums
  <2>3. Wrap(Wrap(lastack + 1 + k) + 1) = Wrap((lastack + 1 + k) + 1)
    BY <2>2, WrapWrap
  <2>4. (lastack + 1 + (k + 1)) % SeqSpace = Wrap(N + (k + 1))
    BY <2>2, NextNumbers
  <2>5. N + (k + 1) = Len(written')
    BY <1>1, <1>2, <1>7
  <2> QED
    BY <2>1, <2>2, <2>3, <2>4, <2>5 DEF Expected, Wrap
<1>9. \A i \in 1 .. Len(written') : written'[i].seqnum = Wrap(i - 1)
  <2> SUFFICES ASSUME NEW i \in 1 .. Len(written') PROVE written'[i].seqnum = Wrap(i - 1)
    OBVIOUS
  <2>1. CASE i <= N
    BY <2>1, <1>1, <1>2, <1>4, <1>5, <1>7
  <2>2. CASE i = N + 1
    <3>1. written'[i] = p
      BY <2>2, <1>1, <1>2, <1>4, <1>5
    <3>2. p.seqnum = Wrap(N)
      BY DEF WriteExpected, Inv, WrittenInSequence
    <3> QED
      BY <3>1, <3>2, <2>2, <1>2
  <2>3. CASE N + 1 < i
    <3>1. i - N - 1 \in 1 .. k /\ i - N - 1 \in 0 .. SeqSpace - 1 /\ N + (i - N - 1) = i - 1
      BY <2>3, <1>1, <1>2, <1>7, SeqNumAssumption
    <3>2. written'[i] = drained[i - N - 1]
      BY <2>3, <3>1, <1>1, <1>2, <1>4, <1>5
    <3>3. written'[i].seqnum = (lastack + 1 + (i - N - 1)) % SeqSpace
      BY <3>1, <3>2, <1>3, <1>5
    <3> QED
      BY <3>1, <3>3, NextNumbers
  <2> QED
    BY <2>1, <2>2, <2>3, <1>2, <1>7
<1> QED
  BY <1>6, <1>7, <1>8, <1>9 DEF WrittenInSequence

-----------------------------------------------------------------------------
LEMMA InvIsKept ==
  ASSUME Inv, [Next_R]_vars_R
  PROVE  Inv'
<1> USE DEF NoDanglingPacket
<1>1. /\ lastack \in SeqNums /\ receive_buffer \in Buffers
      /\ Buffered \in 0 .. MAX_WINDOW_SIZE - 1
      /\ Packed(receive_buffer, Buffered) /\ Ordered(receive_buffer, lastack)
      /\ refresh(receive_buffer) = receive_buffer
  BY InvFacts, RefreshPacked, SeqNumAssumption
<1>2. /\ written \in Seq(Packet) /\ acks \in Seq(Control) /\ dangling = FALSE
      /\ window_size \in 1 .. MAX_WINDOW_SIZE
  BY SeqNumAssumption DEF Inv, ReceiverTypeOK, WindowNeverCloses
(* The conjuncts in terms of the primed state. *)
<1>3. ASSUME lastack' \in SeqNums,
             window_size' \in 0 .. MAX_WINDOW_SIZE,
             receive_buffer' \in Buffers,
             Packed(receive_buffer', MAX_WINDOW_SIZE - window_size'),
             Ordered(receive_buffer', lastack'),
             written' \in Seq(Packet), acks' \in Seq(Control), dangling' = FALSE,
             WrittenInSequence'
      PROVE  Inv'
  <2> DEFINE W == MAX_WINDOW_SIZE
             w == window_size'
  <2>0. W \in Nat /\ w \in 0 .. W
    BY <1>3, SeqNumAssumption
  <2> HIDE DEF W, w
  <2>1. W - w \in 0 .. W
    BY <2>0
  <2>2. W - w < W
    BY <1>3, <2>1, RoomLeft DEF W, w
  <2>3. w >= 1
    BY <2>0, <2>2
  <2>4. dangling' \in BOOLEAN /\ ~dangling'
    BY <1>3
  <2>5. ReceiverTypeOK'
    BY <1>3, <2>4 DEF ReceiverTypeOK, Buffers
  <2>6. WindowCountsFreeSlots'
    BY <1>3 DEF WindowCountsFreeSlots, Packed
  <2>7. BufferOrdered'
    BY <1>3 DEF BufferOrdered, Ordered, Offset, Expected, Dist
  <2> QED
    BY <1>3, <2>3, <2>4, <2>5, <2>6, <2>7 DEF Inv, WindowNeverCloses, w
(* Steps that leave everything but the answers alone. *)
<1>4. ASSUME receiverVars' = receiverVars, acks' \in Seq(Control)
      PROVE  Inv'
  <2>1. /\ lastack' = lastack /\ window_size' = window_size /\ dangling' = dangling
        /\ receive_buffer' = receive_buffer /\ written' = written
    BY <1>4 DEF receiverVars
  <2>2. WrittenInSequence'
    BY <2>1 DEF Inv, WrittenInSequence, Expected
  <2>3. /\ window_size' \in 0 .. MAX_WINDOW_SIZE
        /\ MAX_WINDOW_SIZE - window_size' = Buffered
    BY <1>2, <2>1, SeqNumAssumption DEF Buffered
  <2> QED
    BY <1>1, <1>2, <1>3, <1>4, <2>1, <2>2, <2>3
<1>5. ASSUME NEW status \in Arrival, NEW p \in Packet, Receive(status, p)
      PROVE  Inv'
  <2>1. CASE Ignore(status, p)
    <3>1. receiverVars' = receiverVars /\ acks' = acks
      BY <2>1, <1>1 DEF Ignore, receiverVars
    <3> QED
      BY <3>1, <1>2, <1>4
  <2>2. CASE send_nack(status, p)
    <3>1. receiverVars' = receiverVars
      BY <2>2, <1>1 DEF send_nack, receiverVars
    <3>2. [type |-> "NACK", seqnum |-> p.seqnum, window |-> window_size,
           chunk |-> p.payload] \in Control
      BY <1>2, WireAssumption, SeqNumAssumption DEF Control, Packet, Chunk
    <3>3. acks' \in Seq(Control)
      BY <2>2, <3>2, <1>2 DEF send_nack
    <3> QED
      BY <3>1, <3>3, <1>4
  <2>3. CASE WriteExpected(status, p)
    <3>1. /\ lastack' \in SeqNums
          /\ window_size' = window_size + Run
          /\ dangling' = FALSE
          /\ receive_buffer' \in Buffers
          /\ Packed(receive_buffer', MAX_WINDOW_SIZE - window_size')
          /\ Ordered(receive_buffer', lastack')
      BY <2>3, DrainStep
    <3>2. written' \in Seq(Packet) /\ acks' \in Seq(Control) /\ WrittenInSequence'
      BY <2>3, WriteStep
    <3>3. window_size + Run \in 0 .. MAX_WINDOW_SIZE
      BY <1>1, <1>2, RunStops, SeqNumAssumption DEF Buffered
    <3> QED
      BY <3>1, <3>2, <3>3, <1>3
  <2>4. CASE Buffer(status, p) /\ Inserts(p)
    <3>1. /\ insert_pkt(p) \in Buffers
          /\ Packed(insert_pkt(p), Buffered + 1)
          /\ Ordered(insert_pkt(p), lastack)
          /\ refresh(insert_pkt(p)) = insert_pkt(p)
      BY <2>4, BufferStep DEF Buffer
    <3>2. /\ receive_buffer' = insert_pkt(p) /\ window_size' = window_size - 1
          /\ lastack' = lastack /\ written' = written /\ dangling' = dangling /\ acks' = acks
      BY <2>4, <3>1 DEF Buffer
    <3>3. /\ window_size' \in 0 .. MAX_WINDOW_SIZE
          /\ Buffered + 1 = MAX_WINDOW_SIZE - window_size'
      BY <3>2, <1>2, SeqNumAssumption DEF Buffered
    <3>4. WrittenInSequence'
      BY <3>2 DEF Inv, WrittenInSequence, Expected
    <3> QED
      BY <3>1, <3>2, <3>3, <3>4, <1>1, <1>2, <1>3
  <2>5. CASE Buffer(status, p) /\ ~Inserts(p)
    <3>1. receiverVars' = receiverVars /\ acks' = acks
      BY <2>5, <1>1 DEF Buffer, receiverVars
    <3> QED
      BY <3>1, <1>2, <1>4
  <2> QED
    BY <1>5, <2>1, <2>2, <2>3, <2>4, <2>5 DEF Receive
<1>6. CASE TakeAnswer
  <2>1. receiverVars' = receiverVars
    BY <1>6 DEF TakeAnswer
  <2>2. acks' \in Seq(Control)
    BY <1>6, <1>2, HeadTailProperties DEF TakeAnswer
  <2> QED
    BY <2>1, <2>2, <1>4
<1>7. CASE UNCHANGED vars_R
  BY <1>7, <1>2, <1>4 DEF vars_R
<1> QED
  BY <1>5, <1>6, <1>7 DEF Next_R

(* The receiver keeps its invariant whatever datagrams it is sent. *)
THEOREM ReceiverInvariant == Spec_R => []Inv
<1>1. Init_R => Inv
  BY Initially
<1>2. Inv /\ [Next_R]_vars_R => Inv'
  BY InvIsKept
<1> QED
  BY <1>1, <1>2, PTL DEF Spec_R

(* Types: lastack, window_size and the sequence numbers of the answers     *)
(* stay in their ranges.                                                   *)
THEOREM ReceiverTypes == Spec_R => []ReceiverTypeOK
<1>1. Inv => ReceiverTypeOK
  BY DEF Inv
<1> QED
  BY <1>1, ReceiverInvariant, PTL

(* The window told to the sender is the number of empty slots. *)
THEOREM WindowIsExact == Spec_R => []WindowCountsFreeSlots
<1>1. Inv => WindowCountsFreeSlots
  BY DEF Inv
<1> QED
  BY <1>1, ReceiverInvariant, PTL

(* The buffer holds packets of the window in circular order, each once. *)
THEOREM BufferStaysOrdered == Spec_R => []BufferOrdered
<1>1. Inv => BufferOrdered
  BY DEF Inv
<1> QED
  BY <1>1, ReceiverInvariant, PTL

(* remove_from_buffer never frees a packet that stays in the array. *)
THEOREM NothingDangles == Spec_R => []NoDanglingPacket
<1>1. Inv => NoDanglingPacket
  BY DEF Inv
<1> QED
  BY <1>1, ReceiverInvariant, PTL

(* The receiver always has a place left and never tells a window of 0. *)
THEOREM WindowStaysOpen == Spec_R => []WindowNeverCloses
<1>1. Inv => WindowNeverCloses
  BY DEF Inv
<1> QED
  BY <1>1, ReceiverInvariant, PTL

(* Packets are written in the order of their sequence numbers, however     *)
(* they arrive and however often the numbers wrap around.                  *)
THEOREM SequenceIsWritten == Spec_R => []WrittenInSequence
<1>1. Inv => WrittenInSequence
  BY DEF Inv
<1> QED
  BY <1>1, ReceiverInvariant, PTL

-----------------------------------------------------------------------------
(* What an iteration of the loop may never do: lose a packet that it has   *)
(* buffered, or write without telling the state that it leaves.            *)

Kept(i) ==
  \/ \E j \in Slots : receive_buffer'[j] = receive_buffer[i]
  \/ \E j \in Len(written) + 1 .. Len(written') : written'[j] = receive_buffer[i]

(* A packet inserted shifts the others by one slot at most. *)
LEMMA BufferKeeps ==
  ASSUME Inv, NEW status, NEW p \in Packet, Buffer(status, p),
         NEW i \in Slots, receive_buffer[i] # NULL
  PROVE  \E j \in Slots : receive_buffer'[j] = receive_buffer[i]
<1>1. CASE Inserts(p)
  <2> DEFINE m == InsertPoint(p)
  <2>1. receive_buffer' = insert_pkt(p)
    BY <1>1, BufferStep DEF Buffer
  <2>2. m \in 0 .. Buffered /\ Buffered \in 0 .. MAX_WINDOW_SIZE - 1 /\ i < Buffered
    BY InsertionPlace, InvFacts DEF Packed
  <2>3. m \in Slots /\ i + 1 \in Slots /\ i \in Nat /\ m \in Nat
    BY <2>2, SeqNumAssumption DEF Slots
  <2> HIDE DEF m
  <2>4. CASE receive_buffer[m] = NULL
    <3>1. receive_buffer' = [receive_buffer EXCEPT ![m] = p] /\ i # m
      BY <2>1, <2>4 DEF insert_pkt, m
    <3>2. receive_buffer'[i] = receive_buffer[i]
      BY <3>1, InvFacts DEF Buffers
    <3> QED
      BY <3>2
  <2>5. CASE receive_buffer[m] # NULL
    <3>1. receive_buffer' = [j \in Slots |-> IF j < m THEN receive_buffer[j]
                                             ELSE IF j = m THEN p ELSE receive_buffer[j - 1]]
      BY <2>1, <2>5 DEF insert_pkt, m
    <3>2. CASE i < m
      BY <3>1, <3>2
    <3>3. CASE ~(i < m)
      <4>1. ~(i + 1 < m) /\ i + 1 # m /\ (i + 1) - 1 = i
        BY <2>3, <3>3
      <4>2. receive_buffer'[i + 1] = receive_buffer[i]
        BY <2>3, <3>1, <4>1
      <4> QED
        BY <2>3, <4>2
    <3> QED
      BY <3>2, <3>3
  <2> QED
    BY <2>4, <2>5
<1>2. CASE ~Inserts(p)
  <2>1. receive_buffer' = receive_buffer
    BY <1>2, InvFacts, RefreshPacked, SeqNumAssumption DEF Buffer
  <2> QED
    BY <2>1
<1> QED
  BY <1>1, <1>2

(* The packets drained are written; refresh moves the others to the front. *)
LEMMA WriteKeeps ==
  ASSUME Inv, NEW status, NEW p \in Packet, WriteExpected(status, p),
         NEW i \in Slots, receive_buffer[i] # NULL
  PROVE  Kept(i)
<1> DEFINE k == Run
           n == Buffered
           N == Len(written)
           e == [j \in Slots |-> IF j < k THEN NULL ELSE receive_buffer[j]]
           drained == [j \in 1 .. k |-> receive_buffer[j - 1]]
<1>1. /\ receive_buffer \in Buffers /\ n \in 0 .. MAX_WINDOW_SIZE - 1 /\ k \in 0 .. n
      /\ \A j \in Slots : receive_buffer[j] # NULL <=> j < n
  BY InvFacts, RunStops DEF Packed
<1>2. written \in Seq(Packet) /\ N \in Nat
  BY DEF Inv, ReceiverTypeOK
<1>3. CASE i < k
  <2>1. \A j \in 1 .. k : receive_buffer[j - 1] \in Packet
    <3> SUFFICES ASSUME NEW j \in 1 .. k PROVE receive_buffer[j - 1] \in Packet
      OBVIOUS
    <3>1. j - 1 \in Slots /\ j - 1 < n
      BY <1>1, SeqNumAssumption DEF Slots
    <3> QED
      BY <1>1, <3>1 DEF Buffers
  <2>2. drained \in Seq(Packet) /\ Len(drained) = k
    BY <1>1, <2>1
  <2>3. i + 1 \in 1 .. k /\ (i + 1) - 1 = i
    BY <1>1, <1>3 DEF Slots
  <2>4. drained[i + 1] = receive_buffer[i]
    BY <2>3
  <2>5. written' = (written \o <<p>>) \o drained
    BY DEF WriteExpected
  <2> HIDE DEF drained, k, N
  <2>6. <<p>> \in Seq(Packet) /\ Len(<<p>>) = 1 /\ Len(written) = N
    BY DEF N
  <2>7. written \o <<p>> \in Seq(Packet) /\ Len(written \o <<p>>) = Len(written) + Len(<<p>>)
    BY <1>2, <2>6, ConcatProperties
  <2> DEFINE head == written \o <<p>>
  <2>8. head \in Seq(Packet) /\ Len(head) = N + 1 /\ written' = head \o drained
    BY <2>5, <2>6, <2>7
  <2> HIDE DEF head
  <2>9. /\ Len(head \o drained) = Len(head) + Len(drained)
        /\ \A j \in 1 .. Len(head) + Len(drained) :
             (head \o drained)[j] = IF j <= Len(head) THEN head[j] ELSE drained[j - Len(head)]
    BY <2>2, <2>8, ConcatProperties
  <2>10. N + 1 + (i + 1) \in 1 .. N + 1 + k /\ ~(N + 1 + (i + 1) <= N + 1)
         /\ (N + 1 + (i + 1)) - (N + 1) = i + 1 /\ N + 1 + (i + 1) \in N + 1 .. N + 1 + k
    BY <1>1, <1>2, <2>3
  <2>11. written'[N + 1 + (i + 1)] = receive_buffer[i] /\ Len(written') = N + 1 + k
    BY <2>2, <2>4, <2>8, <2>9, <2>10
  <2> QED
    BY <2>6, <2>10, <2>11 DEF Kept
<1>4. CASE ~(i < k)
  <2>1. e \in Buffers
    BY <1>1 DEF Buffers
  <2>2. \A j \in Slots : e[j] # NULL <=> k <= j /\ j < n
    BY <1>1, SeqNumAssumption DEF Slots
  <2>3. k \in 0 .. MAX_WINDOW_SIZE /\ n \in k .. MAX_WINDOW_SIZE
    BY <1>1, SeqNumAssumption
  <2>4. receive_buffer' = refresh(e) /\ e[i] = receive_buffer[i]
    BY <1>4 DEF WriteExpected
  <2> HIDE DEF e, k
  <2>5. receive_buffer' = [j \in Slots |-> IF j + k \in Slots THEN e[j + k] ELSE NULL]
    BY <2>1, <2>2, <2>3, <2>4, RefreshShifts
  <2>6. i - k \in Slots /\ (i - k) + k = i
    BY <1>1, <1>4, SeqNumAssumption DEF Slots
  <2>7. receive_buffer'[i - k] = receive_buffer[i]
    BY <2>4, <2>5, <2>6
  <2> QED
    BY <2>6, <2>7 DEF Kept
<1> QED
  BY <1>3, <1>4

(* The last answer of an iteration that writes. *)
LEMMA WriteTells ==
  ASSUME Inv, NEW status, NEW p \in Packet, WriteExpected(status, p)
  PROVE  /\ Len(acks') > Len(acks)
         /\ acks'[Len(acks')].type = "ACK"
         /\ acks'[Len(acks')].seqnum = Wrap(lastack' + 1)
         /\ acks'[Len(acks')].window = window_size'
<1> DEFINE k == Run
           drain == [i \in 1 .. k |-> send_ack(i, window_size + i)]
           answer == send_ack(k, window_size + k)
<1>1. /\ lastack \in SeqNums /\ Buffered \in 0 .. MAX_WINDOW_SIZE - 1 /\ k \in 0 .. Buffered
  BY InvFacts, RunStops
<1>2. acks \in Seq(Control) /\ window_size \in 0 .. MAX_WINDOW_SIZE
  BY DEF Inv, ReceiverTypeOK
<1>3. acks' = (acks \o drain) \o <<answer>>
  <2>1. k < MAX_WINDOW_SIZE
    BY <1>1, SeqNumAssumption
  <2> QED
    BY <2>1, HeadIsLater DEF WriteExpected
<1>4. \A i \in 0 .. k : send_ack(i, window_size + i) \in Control
  <2> SUFFICES ASSUME NEW i \in 0 .. k PROVE send_ack(i, window_size + i) \in Control
    OBVIOUS
  <2>1. i \in 0 .. MAX_WINDOW_SIZE - 1 /\ window_size + i \in 0 .. MAX_WINDOW_SIZE
    BY <1>1, <1>2, SeqNumAssumption DEF Buffered
  <2> QED
    BY <2>1, AckType
<1>5. drain \in Seq(Control) /\ answer \in Control /\ Len(drain) = k
  <2>1. \A i \in 1 .. k : send_ack(i, window_size + i) \in Control
    BY <1>1, <1>4
  <2>2. k \in 0 .. k
    BY <1>1
  <2> QED
    BY <1>1, <1>4, <2>1, <2>2
<1>6. /\ answer.type = "ACK" /\ answer.seqnum = Wrap(lastack' + 1)
      /\ answer.window = window_size'
  <2>1. lastack' = Wrap(lastack + 1 + k) /\ window_size' = window_size + k
    BY HeadIsLater DEF WriteExpected, Wrap
  <2>2. lastack + 1 + k \in Nat /\ 1 \in 0 .. SeqSpace - 1
        /\ (lastack + 1 + k) + 1 = lastack + 2 + k
    BY <1>1, SeqNumAssumption DEF SeqNums
  <2>3. Wrap(lastack' + 1) = (lastack + 2 + k) % SeqSpace
    <3>1. Wrap(Wrap(lastack + 1 + k) + 1) = Wrap((lastack + 1 + k) + 1)
      BY <2>2, WrapWrap
    <3> QED
      BY <2>1, <2>2, <3>1 DEF Wrap
  <2> QED
    BY <2>1, <2>3 DEF send_ack
<1> DEFINE s == acks \o drain
<1> HIDE DEF drain, answer, k
<1>7. s \in Seq(Control) /\ Len(s) = Len(acks) + k /\ Len(acks) \in Nat /\ Len(s) \in Nat
  <2>1. s \in Seq(Control) /\ Len(s) = Len(acks) + Len(drain)
    BY <1>2, <1>5, ConcatProperties
  <2> QED
    BY <1>1, <1>2, <1>5, <2>1
<1>8. acks' = s \o <<answer>>
  BY <1>3
<1> HIDE DEF s
<1>9. Len(acks') = Len(s) + 1 /\ acks'[Len(s) + 1] = answer
  <2>1. acks' = Append(s, answer)
    BY <1>5, <1>7, <1>8
  <2> QED
    BY <1>5, <1>7, <2>1, AppendProperties
<1>10. Len(acks') > Len(acks)
  BY <1>1, <1>7, <1>9
<1> QED
  BY <1>6, <1>9, <1>10

(* A packet accepted into the buffer is kept there or written: shifting,   *)
(* draining and refreshing lose none.                                      *)
THEOREM NoneIsLost == Spec_R => NoBufferedPacketLost
<1> DEFINE A == \A i \in Slots : receive_buffer[i] # NULL => Kept(i)
<1>1. Inv /\ [Next_R]_vars_R => [A]_vars_R
  <2> SUFFICES ASSUME Inv, Next_R, NEW i \in Slots, receive_buffer[i] # NULL PROVE Kept(i)
    OBVIOUS
  <2>1. CASE TakeAnswer
    BY <2>1 DEF TakeAnswer, receiverVars, Kept
  <2>2. ASSUME NEW status \in Arrival, NEW p \in Packet, Receive(status, p)
        PROVE  Kept(i)
    <3>1. CASE Ignore(status, p) \/ send_nack(status, p)
      <4>1. receive_buffer' = receive_buffer
        BY <3>1, InvFacts, RefreshPacked, SeqNumAssumption DEF Ignore, send_nack
      <4> QED
        BY <4>1 DEF Kept
    <3>2. CASE WriteExpected(status, p)
      BY <3>2, WriteKeeps
    <3>3. CASE Buffer(status, p)
      BY <3>3, BufferKeeps DEF Kept
    <3> QED
      BY <2>2, <3>1, <3>2, <3>3 DEF Receive
  <2> QED
    BY <2>1, <2>2 DEF Next_R
<1> QED
  BY <1>1, ReceiverInvariant, PTL DEF Spec_R, NoBufferedPacketLost, Kept

(* An iteration that writes answers; its last answer is an ACK for the     *)
(* number expected next and tells the free slots.                          *)
THEOREM WritesAreAcknowledged == Spec_R => WriteIsAcknowledged
<1> DEFINE last == acks'[Len(acks')]
           A == written' # written =>
                  /\ Len(acks') > Len(acks)
                  /\ last.type = "ACK"
                  /\ last.seqnum = Wrap(lastack' + 1)
                  /\ last.window = window_size'
<1>1. Inv /\ [Next_R]_vars_R => [A]_vars_R
  <2> SUFFICES ASSUME Inv, Next_R, written' # written PROVE A
    OBVIOUS
  <2>1. ~TakeAnswer
    BY DEF TakeAnswer, receiverVars
  <2>2. PICK status \in Arrival, p \in Packet : Receive(status, p)
    BY <2>1 DEF Next_R
  <2>3. WriteExpected(status, p)
    BY <2>2 DEF Receive, Ignore, send_nack, Buffer
  <2> QED
    BY <2>3, WriteTells
<1> QED
  BY <1>1, ReceiverInvariant, PTL DEF Spec_R, WriteIsAcknowledged
=============================================================================
