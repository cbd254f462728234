----------------------------- MODULE ChatProofs -----------------------------
(***************************************************************************)
(* The order of what the two chat programs print, for any number of        *)
(* messages and any queue with room for them.                              *)
(*                                                                         *)
(* The inductive invariant Inv continues the order of the printed messages *)
(* through the queue to the last message that its author has read from its *)
(* input.  That the next one finds room in the queue (RoomIsLeft) is part  *)
(* of it: only an input that has ended fills a queue, and after its end no *)
(* message is lost any more.                                               *)
(***************************************************************************)
EXTENDS Chat, SequenceTheorems, FiniteSetTheorems, TLAPS

Writers(p) == IF p = "server" THEN {"client", "stranger"} ELSE {"server"}

Message(p) == [from : Writers(p), msg : Nat]

Types ==
  /\ typed \in [Program -> 0 .. MaxTyped] /\ read \in [Program -> Nat]
  /\ DOMAIN eof = Program /\ DOMAIN inbox = Program /\ DOMAIN output = Program
  /\ \A p \in Program : /\ inbox[p] \in Seq(Message(p)) /\ output[p] \in Seq(Message(p))
                        /\ read[p] <= typed[p]
  /\ DOMAIN peer = Program /\ peer["client"] = "server"
  /\ pc \in [Program -> {"recvfrom", "connect", "select", "input", "socket"}]
  /\ pc["client"] \in {"select", "input", "socket"}
  /\ \A p \in Program : /\ pc[p] = "socket" => inbox[p] # <<>>
                        /\ pc[p] = "input" => InputReady(p)

(* The author of the first message, from the look at it to its reading. *)
FirstIsPeer ==
  /\ pc["server"] \in {"recvfrom", "connect"} => peer["server"] = NOBODY /\ first = NOBODY
  /\ pc["server"] \notin {"recvfrom", "connect"} => peer["server"] = source
  /\ pc["server"] # "recvfrom" => source \in {"client", "stranger"}
  /\ pc["server"] # "recvfrom" /\ first = NOBODY =>
       inbox["server"] # <<>> /\ Head(inbox["server"]).from = source
  /\ first \in {NOBODY, source}

-----------------------------------------------------------------------------
(* A message of q; not the empty datagram that its end of input sends. *)
Of(d, q) == d.from = q /\ d.msg # 0

(* The messages of q in the sequence s are n + 1, n + 2, ... *)
Continues(s, q, n) ==
  \A k \in 1 .. Len(s) : Of(s[k], q) =>
    \/ s[k].msg = n + 1 /\ \A i \in 1 .. k - 1 : ~Of(s[i], q)
    \/ \E j \in 1 .. k - 1 : /\ Of(s[j], q) /\ s[k].msg = s[j].msg + 1
                             /\ \A i \in j + 1 .. k - 1 : ~Of(s[i], q)

(* ... up to m. *)
EndsWith(s, q, n, m) ==
  \/ m = n /\ \A k \in 1 .. Len(s) : ~Of(s[k], q)
  \/ \E k \in 1 .. Len(s) : /\ Of(s[k], q) /\ s[k].msg = m
                            /\ \A i \in k + 1 .. Len(s) : ~Of(s[i], q)

(* How many messages of the other one p has printed. *)
CountPrinted(p) == Cardinality(Printed(p, Len(output[p])))

(* The server has not turned to the stranger. *)
Joined == peer["server"] \in {NOBODY, "client"}

(* What is printed continues in the queue, up to what has been read. *)
Ordered(p) ==
  \E m \in Nat :
    /\ Continues(inbox[p], Other(p), CountPrinted(p))
    /\ EndsWith(inbox[p], Other(p), CountPrinted(p), m)
    /\ Joined => m = read[Other(p)]

(* The input of p has ended, and all that was typed has been read. *)
Ended(p) == eof[p] /\ read[p] = typed[p]

RoomIsLeft ==
  /\ \A p \in Program : Ended(Other(p)) \/ Len(inbox[p]) <= read[Other(p)] + 1
  /\ peer["server"] = NOBODY
       /\ (\A i \in 1 .. Len(inbox["server"]) : inbox["server"][i].from # "stranger")
       => Ended("client") \/ Len(inbox["server"]) <= read["client"]

Inv ==
  /\ Types
  /\ FirstIsPeer
  /\ RoomIsLeft
  /\ \A p \in Program : Ordered(p)
  /\ PrintedInOrder

-----------------------------------------------------------------------------
(* Both ends of a queue. *)

(* What is not a message of q does not count. *)
LEMMA AppendOther ==
  ASSUME NEW S, NEW s \in Seq(S), NEW d \in S, NEW q, NEW n, NEW m, ~Of(d, q),
         Continues(s, q, n), EndsWith(s, q, n, m)
  PROVE  Continues(Append(s, d), q, n) /\ EndsWith(Append(s, d), q, n, m)
<1> DEFINE t == Append(s, d)
           N == Len(s)
<1>1. N \in Nat /\ Len(t) = N + 1 /\ t[N + 1] = d /\ \A i \in 1 .. N : t[i] = s[i]
  BY AppendProperties, LenProperties
<1> HIDE DEF t, N
<1>2. Continues(t, q, n)
  <2> SUFFICES ASSUME NEW k \in 1 .. N + 1, Of(t[k], q)
               PROVE  \/ t[k].msg = n + 1 /\ \A i \in 1 .. k - 1 : ~Of(t[i], q)
                      \/ \E j \in 1 .. k - 1 :
                           /\ Of(t[j], q) /\ t[k].msg = t[j].msg + 1
                           /\ \A i \in j + 1 .. k - 1 : ~Of(t[i], q)
    BY <1>1 DEF Continues
  <2>1. k \in 1 .. N
    BY <1>1
  <2>2. t[k] = s[k] /\ \A i \in 1 .. k - 1 : t[i] = s[i]
    BY <1>1, <2>1
  <2>3. \A j \in 1 .. k - 1 : \A i \in j + 1 .. k - 1 : t[i] = s[i]
    BY <2>1, <2>2
  <2> QED
    BY <2>1, <2>2, <2>3 DEF Continues, N
<1>3. CASE m = n /\ \A k \in 1 .. N : ~Of(s[k], q)
  <2>1. \A k \in 1 .. N + 1 : k \in 1 .. N \/ k = N + 1
    BY <1>1
  <2>2. \A k \in 1 .. N + 1 : ~Of(t[k], q)
    BY <1>1, <1>3, <2>1
  <2> QED
    BY <1>1, <1>2, <1>3, <2>2 DEF EndsWith, t
<1>4. CASE \E k \in 1 .. N : /\ Of(s[k], q) /\ s[k].msg = m
                            /\ \A i \in k + 1 .. N : ~Of(s[i], q)
  <2>1. PICK k \in 1 .. N : /\ Of(s[k], q) /\ s[k].msg = m
                            /\ \A i \in k + 1 .. N : ~Of(s[i], q)
    BY <1>4
  <2>2. k \in 1 .. N + 1 /\ t[k] = s[k]
    BY <1>1
  <2>3. \A i \in k + 1 .. N + 1 : i \in 1 .. N \/ i = N + 1
    BY <1>1
  <2>4. \A i \in k + 1 .. N + 1 : i \in k + 1 .. N \/ i = N + 1
    BY <1>1
  <2>5. \A i \in k + 1 .. N + 1 : ~Of(t[i], q)
    BY <1>1, <2>1, <2>3, <2>4
  <2> QED
    BY <1>1, <1>2, <2>1, <2>2, <2>5 DEF EndsWith, t
<1> QED
  BY <1>3, <1>4 DEF EndsWith, N

(* The next message of q continues the order. *)
LEMMA AppendNext ==
  ASSUME NEW S, NEW s \in Seq(S), NEW d \in S, NEW q, NEW n, NEW m, Of(d, q), d.msg = m + 1,
         Continues(s, q, n), EndsWith(s, q, n, m)
  PROVE  Continues(Append(s, d), q, n) /\ EndsWith(Append(s, d), q, n, m + 1)
<1> DEFINE t == Append(s, d)
           N == Len(s)
<1>1. N \in Nat /\ Len(t) = N + 1 /\ t[N + 1] = d /\ \A i \in 1 .. N : t[i] = s[i]
  BY AppendProperties, LenProperties
<1> HIDE DEF t, N
<1>2. EndsWith(t, q, n, m + 1)
  <2>1. N + 1 \in 1 .. Len(t) /\ N + 1 + 1 .. Len(t) = {}
    BY <1>1
  <2> QED
    BY <1>1, <2>1 DEF EndsWith
<1>3. ASSUME NEW k \in 1 .. N + 1, Of(t[k], q)
      PROVE  \/ t[k].msg = n + 1 /\ \A i \in 1 .. k - 1 : ~Of(t[i], q)
             \/ \E j \in 1 .. k - 1 : /\ Of(t[j], q) /\ t[k].msg = t[j].msg + 1
                                      /\ \A i \in j + 1 .. k - 1 : ~Of(t[i], q)
  <2>1. CASE k \in 1 .. N
    <3>2. t[k] = s[k] /\ \A i \in 1 .. k - 1 : t[i] = s[i]
      BY <1>1, <2>1
    <3>3. \A j \in 1 .. k - 1 : \A i \in j + 1 .. k - 1 : t[i] = s[i]
      BY <2>1, <3>2
    <3> QED
      BY <1>3, <2>1, <3>2, <3>3 DEF Continues, N
  <2>2. CASE k = N + 1
    <3>1. k - 1 = N /\ t[k] = d
      BY <1>1, <2>2
    <3>2. CASE m = n /\ \A i \in 1 .. N : ~Of(s[i], q)
      <4>1. \A i \in 1 .. k - 1 : ~Of(t[i], q)
        BY <1>1, <3>1, <3>2
      <4> QED
        BY <3>1, <3>2, <4>1
    <3>3. CASE \E j \in 1 .. N : /\ Of(s[j], q) /\ s[j].msg = m
                                /\ \A i \in j + 1 .. N : ~Of(s[i], q)
      <4>1. PICK j \in 1 .. N : /\ Of(s[j], q) /\ s[j].msg = m
                                /\ \A i \in j + 1 .. N : ~Of(s[i], q)
        BY <3>3
      <4>2. \A i \in j + 1 .. N : i \in 1 .. N
        BY <1>1
      <4>3. j \in 1 .. k - 1 /\ Of(t[j], q) /\ t[k].msg = t[j].msg + 1
        BY <1>1, <3>1, <4>1
      <4>4. \A i \in j + 1 .. k - 1 : ~Of(t[i], q)
        BY <1>1, <3>1, <4>1, <4>2
      <4> QED
        BY <4>3, <4>4
    <3> QED
      BY <3>2, <3>3 DEF EndsWith, N
  <2> QED
    BY <1>1, <2>1, <2>2
<1>4. Continues(t, q, n)
  BY <1>1, <1>3 DEF Continues
<1> QED
  BY <1>2, <1>4 DEF t

(* What was queued keeps its place. *)
LEMMA AppendFacts ==
  ASSUME NEW S, NEW s \in Seq(S), NEW d, Append(s, d) \in Seq(S)
  PROVE  /\ Len(Append(s, d)) = Len(s) + 1 /\ Len(s) \in Nat
         /\ \A i \in 1 .. Len(s) : Append(s, d)[i] = s[i]
  OBVIOUS

(* Taking the first message away moves the others by one place. *)
LEMMA TailShifts ==
  ASSUME NEW S, NEW s \in Seq(S), s # <<>>
  PROVE  /\ Len(s) \in Nat /\ Len(s) >= 1 /\ Len(Tail(s)) = Len(s) - 1
         /\ Tail(s) \in Seq(S) /\ Head(s) \in S /\ Head(s) = s[1]
         /\ \A i \in 1 .. Len(s) - 1 : Tail(s)[i] = s[i + 1]
<1>1. Len(s) \in Nat /\ Len(s) >= 1
  BY EmptySeq, LenProperties
<1>2. Head(s) = s[1]
  OBVIOUS
<1> QED
  BY <1>1, <1>2, HeadTailProperties

LEMMA TailOther ==
  ASSUME NEW S, NEW s \in Seq(S), s # <<>>, NEW q, NEW n, NEW m, ~Of(Head(s), q),
         Continues(s, q, n), EndsWith(s, q, n, m)
  PROVE  Continues(Tail(s), q, n) /\ EndsWith(Tail(s), q, n, m)
<1> DEFINE t == Tail(s)
           N == Len(s) - 1
<1>1. /\ N \in Nat /\ Len(s) = N + 1 /\ Len(t) = N /\ ~Of(s[1], q)
      /\ \A i \in 1 .. N : t[i] = s[i + 1]
  BY TailShifts
<1> HIDE DEF t, N
<1>2. ASSUME NEW k \in 1 .. N, Of(t[k], q)
      PROVE  \/ t[k].msg = n + 1 /\ \A i \in 1 .. k - 1 : ~Of(t[i], q)
             \/ \E j \in 1 .. k - 1 : /\ Of(t[j], q) /\ t[k].msg = t[j].msg + 1
                                      /\ \A i \in j + 1 .. k - 1 : ~Of(t[i], q)
  <2>1. k + 1 \in 1 .. Len(s) /\ t[k] = s[k + 1] /\ (k + 1) - 1 = k
    BY <1>1
  <2>2. \/ s[k + 1].msg = n + 1 /\ \A i \in 1 .. k : ~Of(s[i], q)
        \/ \E j \in 1 .. k : /\ Of(s[j], q) /\ s[k + 1].msg = s[j].msg + 1
                             /\ \A i \in j + 1 .. k : ~Of(s[i], q)
    BY <1>2, <2>1 DEF Continues
  <2>3. \A i \in 1 .. k - 1 : t[i] = s[i + 1] /\ i + 1 \in 1 .. k
    BY <1>1
  <2>4. CASE s[k + 1].msg = n + 1 /\ \A i \in 1 .. k : ~Of(s[i], q)
    BY <2>1, <2>3, <2>4
  <2>5. CASE \E j \in 1 .. k : /\ Of(s[j], q) /\ s[k + 1].msg = s[j].msg + 1
                              /\ \A i \in j + 1 .. k : ~Of(s[i], q)
    <3>1. PICK j \in 1 .. k : /\ Of(s[j], q) /\ s[k + 1].msg = s[j].msg + 1
                              /\ \A i \in j + 1 .. k : ~Of(s[i], q)
      BY <2>5
    <3>2. j # 1
      BY <1>1, <3>1
    <3>3. j - 1 \in 1 .. k - 1 /\ (j - 1) + 1 = j
      BY <3>2
    <3>4. t[j - 1] = s[j]
      BY <2>3, <3>3
    <3>5. \A i \in (j - 1) + 1 .. k - 1 : i \in 1 .. k - 1 /\ i + 1 \in j + 1 .. k
      BY <3>3
    <3>6. \A i \in (j - 1) + 1 .. k - 1 : ~Of(t[i], q)
      BY <2>3, <3>1, <3>5
    <3> QED
      BY <2>1, <3>1, <3>3, <3>4, <3>6
  <2> QED
    BY <2>2, <2>4, <2>5
<1>3. Continues(t, q, n)
  BY <1>1, <1>2 DEF Continues
<1>4. \A i \in 1 .. N : i + 1 \in 1 .. N + 1
  BY <1>1
<1>5. CASE m = n /\ \A k \in 1 .. N + 1 : ~Of(s[k], q)
  BY <1>1, <1>3, <1>4, <1>5 DEF EndsWith, t
<1>6. CASE \E k \in 1 .. N + 1 : /\ Of(s[k], q) /\ s[k].msg = m
                                /\ \A i \in k + 1 .. N + 1 : ~Of(s[i], q)
  <2>1. PICK k \in 1 .. N + 1 : /\ Of(s[k], q) /\ s[k].msg = m
                                /\ \A i \in k + 1 .. N + 1 : ~Of(s[i], q)
    BY <1>6
  <2>2. k # 1
    BY <1>1, <2>1
  <2>3. k - 1 \in 1 .. N /\ (k - 1) + 1 = k
    BY <1>1, <2>2
  <2>4. t[k - 1] = s[k]
    BY <1>1, <2>3
  <2>5. \A i \in (k - 1) + 1 .. N : i \in 1 .. N /\ i + 1 \in k + 1 .. N + 1
    BY <1>1, <2>3
  <2>6. \A i \in (k - 1) + 1 .. N : ~Of(t[i], q)
    BY <1>1, <2>1, <2>5
  <2> QED
    BY <1>1, <1>3, <2>1, <2>3, <2>4, <2>6 DEF EndsWith, t
<1> QED
  BY <1>1, <1>5, <1>6 DEF EndsWith

LEMMA TailNext ==
  ASSUME NEW S, NEW s \in Seq(S), s # <<>>, NEW q, NEW n \in Nat, NEW m, Of(Head(s), q),
         Continues(s, q, n), EndsWith(s, q, n, m)
  PROVE  /\ Head(s).msg = n + 1
         /\ Continues(Tail(s), q, n + 1) /\ EndsWith(Tail(s), q, n + 1, m)
<1> DEFINE t == Tail(s)
           N == Len(s) - 1
<1>1. /\ N \in Nat /\ Len(s) = N + 1 /\ Len(t) = N /\ Of(s[1], q) /\ Head(s) = s[1]
      /\ \A i \in 1 .. N : t[i] = s[i + 1]
  BY TailShifts
<1> HIDE DEF t, N
<1>2. s[1].msg = n + 1
  <2>1. 1 \in 1 .. Len(s) /\ 1 .. 1 - 1 = {}
    BY <1>1
  <2> QED
    BY <1>1, <2>1 DEF Continues
<1>3. ASSUME NEW k \in 1 .. N, Of(t[k], q)
      PROVE  \/ t[k].msg = (n + 1) + 1 /\ \A i \in 1 .. k - 1 : ~Of(t[i], q)
             \/ \E j \in 1 .. k - 1 : /\ Of(t[j], q) /\ t[k].msg = t[j].msg + 1
                                      /\ \A i \in j + 1 .. k - 1 : ~Of(t[i], q)
  <2>1. k + 1 \in 1 .. Len(s) /\ t[k] = s[k + 1] /\ (k + 1) - 1 = k /\ 1 \in 1 .. k
    BY <1>1
  <2>2. \E j \in 1 .. k : /\ Of(s[j], q) /\ s[k + 1].msg = s[j].msg + 1
                          /\ \A i \in j + 1 .. k : ~Of(s[i], q)
    BY <1>1, <1>3, <2>1 DEF Continues
  <2>3. \A i \in 1 .. k - 1 : t[i] = s[i + 1]
    BY <1>1
  <2>4. PICK j \in 1 .. k : /\ Of(s[j], q) /\ s[k + 1].msg = s[j].msg + 1
                            /\ \A i \in j + 1 .. k : ~Of(s[i], q)
    BY <2>2
  <2>5. CASE j = 1
    <3>1. \A i \in 1 .. k - 1 : i + 1 \in j + 1 .. k
      BY <2>5
    <3>2. \A i \in 1 .. k - 1 : ~Of(t[i], q)
      BY <2>3, <2>4, <3>1
    <3> QED
      BY <1>2, <2>1, <2>4, <2>5, <3>2
  <2>6. CASE j # 1
    <3>1. j - 1 \in 1 .. k - 1 /\ (j - 1) + 1 = j
      BY <2>6
    <3>2. t[j - 1] = s[j]
      BY <2>3, <3>1
    <3>3. \A i \in (j - 1) + 1 .. k - 1 : i \in 1 .. k - 1 /\ i + 1 \in j + 1 .. k
      BY <3>1
    <3>4. \A i \in (j - 1) + 1 .. k - 1 : ~Of(t[i], q)
      BY <2>3, <2>4, <3>3
    <3> QED
      BY <2>1, <2>4, <3>1, <3>2, <3>4
  <2> QED
    BY <2>5, <2>6
<1>4. Continues(t, q, n + 1)
  BY <1>1, <1>3 DEF Continues
<1>5. PICK k \in 1 .. N + 1 : /\ Of(s[k], q) /\ s[k].msg = m
                              /\ \A i \in k + 1 .. N + 1 : ~Of(s[i], q)
  <2>1. 1 \in 1 .. N + 1
    BY <1>1
  <2> QED
    BY <1>1, <2>1 DEF EndsWith
<1>6. \A i \in 1 .. N : i + 1 \in 1 .. N + 1
  BY <1>1
<1>7. CASE k = 1
  <2>1. \A i \in 1 .. N : i + 1 \in k + 1 .. N + 1
    BY <1>1, <1>7
  <2>2. \A i \in 1 .. N : ~Of(t[i], q)
    BY <1>1, <1>5, <2>1
  <2>3. m = n + 1
    BY <1>2, <1>5, <1>7
  <2> QED
    BY <1>1, <1>2, <1>4, <2>2, <2>3 DEF EndsWith, t
<1>8. CASE k # 1
  <2>1. k - 1 \in 1 .. N /\ (k - 1) + 1 = k
    BY <1>1, <1>8
  <2>2. t[k - 1] = s[k]
    BY <1>1, <2>1
  <2>3. \A i \in (k - 1) + 1 .. N : i \in 1 .. N /\ i + 1 \in k + 1 .. N + 1
    BY <1>1, <2>1
  <2>4. \A i \in (k - 1) + 1 .. N : ~Of(t[i], q)
    BY <1>1, <1>5, <2>3
  <2> QED
    BY <1>1, <1>2, <1>4, <1>5, <2>1, <2>2, <2>4 DEF EndsWith, t
<1> QED
  BY <1>7, <1>8

-----------------------------------------------------------------------------
(* What is printed. *)

LEMMA CountIsNat ==
  ASSUME NEW p \in Program, NEW k \in Nat
  PROVE  IsFiniteSet(Printed(p, k)) /\ Cardinality(Printed(p, k)) \in Nat
<1>1. IsFiniteSet(1 .. k) /\ Printed(p, k) \in SUBSET (1 .. k)
  BY FS_Interval DEF Printed
<1> QED
  BY <1>1, FS_Subset, FS_CardinalityType

(* A message more is printed: the earlier ones stay where they are. *)
LEMMA PrintMore ==
  ASSUME Types, NEW p \in Program, NEW d \in Message(p),
         output' = [output EXCEPT ![p] = Append(@, d)]
  PROVE  LET N == Len(output[p])
         IN  /\ N \in Nat /\ output'[p] \in Seq(Message(p)) /\ Len(output'[p]) = N + 1
             /\ output'[p][N + 1] = d
             /\ \A k \in 1 .. N : /\ output'[p][k] = output[p][k]
                                  /\ Printed(p, k)' = Printed(p, k)
             /\ \A k \in Nat : k = N + 1 =>
                  Printed(p, k)' =
                    IF d.from = Other(p) THEN Printed(p, N) \cup {k} ELSE Printed(p, N)
<1> DEFINE o == output[p]
           N == Len(o)
           t == Append(o, d)
<1>1. o \in Seq(Message(p)) /\ output'[p] = t
  BY DEF Types
<1>2. /\ N \in Nat /\ t \in Seq(Message(p)) /\ Len(t) = N + 1 /\ t[N + 1] = d
      /\ \A k \in 1 .. N : t[k] = o[k]
  BY <1>1, AppendProperties, LenProperties
<1> HIDE DEF t, N
<1>3. ASSUME NEW k \in 1 .. N
      PROVE  Printed(p, k)' = Printed(p, k)
  <2>1. \A j \in 1 .. k : t[j] = o[j]
    BY <1>2
  <2> QED
    BY <1>1, <2>1 DEF Printed
<1>4. 1 .. N + 1 = (1 .. N) \cup {N + 1}
  BY <1>2
<1>5. ASSUME NEW k \in Nat, k = N + 1
      PROVE  Printed(p, k)' = IF d.from = Other(p) THEN Printed(p, N) \cup {k} ELSE Printed(p, N)
  <2>1. Printed(p, k)' = {j \in 1 .. N + 1 : t[j].from = Other(p)}
    BY <1>1, <1>2, <1>5 DEF Printed
  <2>2. Printed(p, N) = {j \in 1 .. N : t[j].from = Other(p)}
    BY <1>2 DEF Printed
  <2> QED
    BY <1>2, <1>4, <1>5, <2>1, <2>2
<1> QED
  BY <1>1, <1>2, <1>3, <1>5 DEF N

-----------------------------------------------------------------------------
(* What the parts of the invariant need of a step. *)

LEMMA Others ==
  /\ Other("server") = "client" /\ Other("client") = "server"
  /\ \A p \in Program : Other(p) \in Program /\ Other(Other(p)) = p /\ Other(p) # p
  BY DEF Other, Program

LEMMA PrintedInOrderStays ==
  ASSUME PrintedInOrder, UNCHANGED output
  PROVE  PrintedInOrder' /\ \A p \in Program : CountPrinted(p)' = CountPrinted(p)
<1>1. \A p \in Program : \A k \in Nat : Printed(p, k)' = Printed(p, k)
  BY DEF Printed
<1> QED
  BY <1>1 DEF PrintedInOrder, CountPrinted, Printed

LEMMA OrderedStays ==
  ASSUME NEW p \in Program, Ordered(p), inbox'[p] = inbox[p], CountPrinted(p)' = CountPrinted(p),
         Joined' => Joined /\ read'[Other(p)] = read[Other(p)]
  PROVE  Ordered(p)'
  BY DEF Ordered

(* A datagram that reaches no program, or finds no room, changes nothing;  *)
(* otherwise it becomes the last one of the queue.                         *)
LEMMA QueuedFacts ==
  ASSUME Types, NEW to, NEW from, NEW msg \in Nat, to \in Program => from \in Writers(to),
         inbox' = Queued(to, from, msg)
  PROVE  /\ DOMAIN inbox' = Program
         /\ \A p \in Program :
              /\ inbox'[p] \in Seq(Message(p))
              /\ p = to /\ Accepts(p, from) =>
                   inbox'[p] = Append(inbox[p], [from |-> from, msg |-> msg])
              /\ p # to \/ ~Accepts(p, from) => inbox'[p] = inbox[p]
              /\ inbox[p] # <<>> => inbox'[p] # <<>> /\ Head(inbox'[p]) = Head(inbox[p])
              /\ Len(inbox'[p]) \in Nat /\ Len(inbox[p]) \in Nat
              /\ Len(inbox'[p]) <= Len(inbox[p]) + 1
<1> DEFINE d == [from |-> from, msg |-> msg]
<1>1. CASE to \in Program /\ Accepts(to, from)
  <2>1. inbox' = [inbox EXCEPT ![to] = Append(@, d)]
    BY <1>1 DEF Queued
  <2>2. DOMAIN inbox' = Program
    BY <2>1 DEF Types
  <2>3. ASSUME NEW p \in Program, p # to
        PROVE  inbox'[p] = inbox[p]
    BY <2>1, <2>3 DEF Types
  <2>4. inbox'[to] = Append(inbox[to], d)
    BY <1>1, <2>1 DEF Types
  <2>5. inbox[to] \in Seq(Message(to)) /\ d \in Message(to)
    BY <1>1 DEF Types, Message
  <2>6. /\ inbox'[to] \in Seq(Message(to)) /\ inbox'[to] # <<>>
        /\ Len(inbox'[to]) = Len(inbox[to]) + 1 /\ Len(inbox[to]) \in Nat
    BY <2>4, <2>5, AppendProperties, LenProperties
  <2>7. inbox[to] # <<>> => Head(inbox'[to]) = Head(inbox[to])
    BY <2>4, <2>5, HeadTailAppend
  <2>8. \A p \in Program : inbox[p] \in Seq(Message(p)) /\ Len(inbox[p]) \in Nat
    BY LenProperties DEF Types
  <2>9. ASSUME NEW p \in Program
        PROVE  /\ inbox'[p] \in Seq(Message(p))
               /\ p = to /\ Accepts(p, from) => inbox'[p] = Append(inbox[p], d)
               /\ p # to \/ ~Accepts(p, from) => inbox'[p] = inbox[p]
               /\ inbox[p] # <<>> => inbox'[p] # <<>> /\ Head(inbox'[p]) = Head(inbox[p])
               /\ Len(inbox'[p]) \in Nat /\ Len(inbox[p]) \in Nat
               /\ Len(inbox'[p]) <= Len(inbox[p]) + 1
    <3> HIDE DEF d
    <3>1. CASE p = to
      <4>1. inbox'[p] \in Seq(Message(p)) /\ inbox'[p] = Append(inbox[p], d)
        BY <2>4, <2>6, <3>1
      <4>2. inbox[p] # <<>> => inbox'[p] # <<>> /\ Head(inbox'[p]) = Head(inbox[p])
        BY <2>6, <2>7, <3>1
      <4>3. Len(inbox[p]) \in Nat /\ Len(inbox'[p]) = Len(inbox[p]) + 1
        BY <2>6, <3>1
      <4>4. Len(inbox'[p]) \in Nat /\ Len(inbox'[p]) <= Len(inbox[p]) + 1
        BY <4>3
      <4>5. Accepts(p, from)
        BY <1>1, <3>1
      <4> QED
        BY <3>1, <4>1, <4>2, <4>3, <4>4, <4>5
    <3>2. CASE p # to
      <4>1. inbox'[p] = inbox[p] /\ Len(inbox[p]) \in Nat /\ inbox[p] \in Seq(Message(p))
        BY <2>3, <2>8, <3>2
      <4> QED
        BY <3>2, <4>1
    <3> QED
      BY <3>1, <3>2
  <2> QED
    BY <2>2, <2>9
<1>2. CASE ~(to \in Program /\ Accepts(to, from))
  <2>1. inbox' = inbox
    BY <1>2 DEF Queued
  <2>2. \A p \in Program : inbox[p] \in Seq(Message(p)) /\ Len(inbox[p]) \in Nat
    BY LenProperties DEF Types
  <2>3. \A p \in Program : p = to => ~Accepts(p, from)
    BY <1>2
  <2> QED
    BY <2>1, <2>2, <2>3 DEF Types
<1> QED
  BY <1>1, <1>2

(* The queues are the same, or longer at their end: the first message is   *)
(* still the same.                                                         *)
LEMMA FirstStays ==
  ASSUME FirstIsPeer, UNCHANGED <<peer, source, first>>,
         pc'["server"] = pc["server"] \/
           {pc["server"], pc'["server"]} \subseteq {"select", "input", "socket"},
         inbox["server"] # <<>> =>
           inbox'["server"] # <<>> /\ Head(inbox'["server"]) = Head(inbox["server"])
  PROVE  FirstIsPeer'
  BY DEF FirstIsPeer

-----------------------------------------------------------------------------
(* The initial states and the steps. *)

LEMMA ChatInit == Init => Inv
<1> SUFFICES ASSUME Init
             PROVE  Inv
  OBVIOUS
<1> USE DEF Init
<1>1. Types
  <2>1. \A S : <<>> \in Seq(S)
    OBVIOUS
  <2>2. 0 \in 0 .. MaxTyped /\ 0 \in Nat /\ 0 <= 0
    BY ChatAssumption
  <2> QED
    BY <2>1, <2>2 DEF Types, Program
<1>2. FirstIsPeer
  BY DEF FirstIsPeer, Program
<1>3. RoomIsLeft
  <2>1. \A p \in Program : Len(inbox[p]) = 0 /\ read[p] = 0
    BY DEF Program
  <2> QED
    BY <2>1, Others DEF RoomIsLeft, Program
<1>4. ASSUME NEW p \in Program
      PROVE  Ordered(p) /\ Len(output[p]) = 0
  <2>1. inbox[p] = <<>> /\ output[p] = <<>> /\ read[Other(p)] = 0
    BY Others
  <2>2. Printed(p, 0) = {}
    BY DEF Printed
  <2>3. CountPrinted(p) = 0
    BY <2>1, <2>2, FS_EmptySet DEF CountPrinted
  <2>4. Continues(<<>>, Other(p), 0) /\ EndsWith(<<>>, Other(p), 0, 0)
    BY DEF Continues, EndsWith
  <2> QED
    BY <2>1, <2>3, <2>4 DEF Ordered
<1>5. PrintedInOrder
  BY <1>4 DEF PrintedInOrder
<1> QED
  BY <1>1, <1>2, <1>3, <1>4, <1>5 DEF Inv

LEMMA TypeStep ==
  ASSUME Inv, NEW p \in Program, Type(p)
  PROVE  Inv'
<1>1. /\ ~eof[p] /\ typed[p] < MaxTyped /\ typed' = [typed EXCEPT ![p] = @ + 1]
      /\ UNCHANGED <<read, eof, inbox, peer, source, output, first, pc>>
  BY DEF Type
<1>2. /\ \A q \in Program : typed'[q] \in 0 .. MaxTyped /\ typed[q] <= typed'[q]
      /\ \A q \in Program : q # p => typed'[q] = typed[q]
      /\ typed' \in [Program -> 0 .. MaxTyped]
  <2>1. typed \in [Program -> 0 .. MaxTyped] /\ MaxTyped \in Nat
    BY ChatAssumption DEF Inv, Types
  <2>2. typed[p] + 1 \in 0 .. MaxTyped /\ typed[p] <= typed[p] + 1
    BY <1>1, <2>1
  <2>3. typed' \in [Program -> 0 .. MaxTyped] /\ typed'[p] = typed[p] + 1
    BY <1>1, <2>1, <2>2
  <2>4. \A q \in Program : q # p => typed'[q] = typed[q]
    BY <1>1, <2>1
  <2>5. \A q \in Program : typed[q] <= typed[q]
    BY <2>1
  <2>6. \A q \in Program : typed[q] <= typed'[q]
    BY <2>2, <2>3, <2>4, <2>5
  <2> QED
    BY <2>3, <2>4, <2>6
<1>3. \A q \in Program : read[q] \in Nat /\ read[q] <= typed[q] /\ typed[q] \in Nat
  BY ChatAssumption DEF Inv, Types
<1>4. Types'
  <2>1. \A q \in Program : read[q] <= typed'[q] /\ (read[q] < typed[q] => read[q] < typed'[q])
    BY <1>2, <1>3, ChatAssumption
  <2> QED
    BY <1>1, <1>2, <2>1 DEF Inv, Types, InputReady
<1>5. \A q \in Program : Ended(q) => Ended(q)'
  BY <1>1, <1>2 DEF Ended
<1>6. FirstIsPeer'
  BY <1>1 DEF Inv, FirstIsPeer
<1>7. RoomIsLeft'
  BY <1>1, <1>5, Others DEF Inv, RoomIsLeft, Program
<1>8. (\A q \in Program : Ordered(q)') /\ PrintedInOrder'
  BY <1>1, PrintedInOrderStays, OrderedStays DEF Inv, Joined
<1> QED
  BY <1>4, <1>6, <1>7, <1>8 DEF Inv

LEMMA EndInputStep ==
  ASSUME Inv, NEW p \in Program, EndInput(p)
  PROVE  Inv'
<1>1. /\ eof' = [eof EXCEPT ![p] = TRUE]
      /\ UNCHANGED <<typed, read, inbox, peer, source, output, first, pc>>
  BY DEF EndInput
<1>2. DOMAIN eof' = Program /\ \A q \in Program : eof[q] => eof'[q]
  <2>1. DOMAIN eof = Program
    BY DEF Inv, Types
  <2>2. \A q \in Program : eof'[q] = IF q = p THEN TRUE ELSE eof[q]
    BY <1>1, <2>1, Zenon
  <2> QED
    BY <1>1, <2>1, <2>2, Zenon
<1>3. Types'
  <2>1. \A q \in Program : InputReady(q) => InputReady(q)'
    BY <1>1, <1>2 DEF InputReady
  <2> QED
    BY <1>1, <1>2, <2>1 DEF Inv, Types
<1>4. \A q \in Program : Ended(q) => Ended(q)'
  BY <1>1, <1>2 DEF Ended
<1>5. FirstIsPeer'
  BY <1>1 DEF Inv, FirstIsPeer
<1>6. RoomIsLeft'
  BY <1>1, <1>4, Others DEF Inv, RoomIsLeft, Program
<1>7. (\A q \in Program : Ordered(q)') /\ PrintedInOrder'
  BY <1>1, PrintedInOrderStays, OrderedStays DEF Inv, Joined
<1> QED
  BY <1>3, <1>5, <1>6, <1>7 DEF Inv

(* The stranger writes once: it takes the one place that is not for what   *)
(* is typed.                                                               *)
LEMMA StrangerStep ==
  ASSUME Inv, Stranger
  PROVE  Inv'
<1> DEFINE d == [from |-> "stranger", msg |-> 1]
<1>1. /\ peer["server"] = NOBODY
      /\ \A i \in 1 .. Len(inbox["server"]) : inbox["server"][i].from # "stranger"
      /\ inbox' = Queued("server", "stranger", 1)
      /\ UNCHANGED <<typed, read, eof, peer, source, output, first, pc>>
  BY DEF Stranger
<1>2. "server" \in Program /\ "client" \in Program /\ "stranger" \in Writers("server")
  BY DEF Program, Writers
<1>3. /\ DOMAIN inbox' = Program
      /\ \A p \in Program :
           /\ inbox'[p] \in Seq(Message(p))
           /\ p = "server" /\ Accepts(p, "stranger") => inbox'[p] = Append(inbox[p], d)
           /\ p # "server" \/ ~Accepts(p, "stranger") => inbox'[p] = inbox[p]
           /\ inbox[p] # <<>> => inbox'[p] # <<>> /\ Head(inbox'[p]) = Head(inbox[p])
           /\ Len(inbox'[p]) \in Nat /\ Len(inbox[p]) \in Nat
           /\ Len(inbox'[p]) <= Len(inbox[p]) + 1
  BY <1>1, <1>2, QueuedFacts DEF Inv
<1>4. Types'
  BY <1>1, <1>3 DEF Inv, Types, InputReady
<1>5. FirstIsPeer'
  BY <1>1, <1>2, <1>3, FirstStays DEF Inv
<1>6. RoomIsLeft'
  <2>1. UNCHANGED <<typed, read, eof>> /\ \A p \in Program : Ended(p)' = Ended(p)
    BY <1>1 DEF Ended
  <2>2. Ended("client") \/ Len(inbox["server"]) <= read["client"]
    BY <1>1 DEF Inv, RoomIsLeft
  <2>3. read["client"] \in Nat /\ Len(inbox["server"]) \in Nat /\ Len(inbox'["server"]) \in Nat
    BY <1>2, <1>3 DEF Inv, Types
  <2>4. Ended("client") \/ Len(inbox'["server"]) <= read["client"] + 1
    BY <1>2, <1>3, <2>2, <2>3
  <2>5. inbox'["client"] = inbox["client"]
    BY <1>2, <1>3
  <2>6. Ended("server") \/ Len(inbox'["client"]) <= read["server"] + 1
    BY <1>2, <2>5, Others DEF Inv, RoomIsLeft
  <2>7. \A p \in Program : Ended(Other(p)) \/ Len(inbox'[p]) <= read[Other(p)] + 1
    BY <2>4, <2>6, Others DEF Program
  <2>8. (\A i \in 1 .. Len(inbox'["server"]) : inbox'["server"][i].from # "stranger")
          => inbox'["server"] = inbox["server"]
    <3>1. CASE Accepts("server", "stranger")
      <4>1. inbox["server"] \in Seq(Message("server")) /\ d \in Message("server")
        BY <1>2 DEF Inv, Types, Message
      <4>2. inbox'["server"] = Append(inbox["server"], d)
        BY <1>2, <1>3, <3>1
      <4>3. /\ Len(inbox'["server"]) = Len(inbox["server"]) + 1
            /\ inbox'["server"][Len(inbox["server"]) + 1] = d
        BY <4>1, <4>2, AppendProperties
      <4>4. Len(inbox["server"]) + 1 \in 1 .. Len(inbox'["server"])
        BY <2>3, <4>3
      <4> QED
        BY <4>3, <4>4
    <3>2. CASE ~Accepts("server", "stranger")
      BY <1>2, <1>3, <3>2
    <3> QED
      BY <3>1, <3>2
  <2>9. \A p \in Program : (Ended(Other(p)) \/ Len(inbox[p]) <= read[Other(p)] + 1)'
    BY <2>1, <2>7, Others
  <2>10. ASSUME \A i \in 1 .. Len(inbox'["server"]) : inbox'["server"][i].from # "stranger"
         PROVE  (Ended("client") \/ Len(inbox["server"]) <= read["client"])'
    BY <1>2, <2>1, <2>2, <2>8, <2>10
  <2> QED
    BY <2>9, <2>10 DEF RoomIsLeft
<1>7. (\A p \in Program : CountPrinted(p)' = CountPrinted(p)) /\ PrintedInOrder'
  BY <1>1, PrintedInOrderStays DEF Inv
<1>8. ASSUME NEW p \in Program
      PROVE  Ordered(p)'
  <2>1. CASE inbox'[p] = inbox[p]
    BY <1>1, <1>7, <2>1, OrderedStays DEF Inv, Joined
  <2>2. CASE inbox'[p] # inbox[p]
    <3>1. p = "server" /\ inbox'[p] = Append(inbox[p], d)
      BY <1>3, <2>2
    <3>2. inbox[p] \in Seq(Message(p)) /\ d \in Message(p) /\ ~Of(d, Other(p))
      BY <1>2, <3>1, Others DEF Inv, Types, Message, Of
    <3>3. PICK m \in Nat : /\ Continues(inbox[p], Other(p), CountPrinted(p))
                           /\ EndsWith(inbox[p], Other(p), CountPrinted(p), m)
                           /\ Joined => m = read[Other(p)]
      BY DEF Inv, Ordered
    <3>4. /\ Continues(inbox'[p], Other(p), CountPrinted(p))
          /\ EndsWith(inbox'[p], Other(p), CountPrinted(p), m)
      BY <3>1, <3>2, <3>3, AppendOther
    <3> QED
      BY <1>1, <1>7, <3>3, <3>4 DEF Ordered, Joined
  <2> QED
    BY <2>1, <2>2
<1> QED
  BY <1>4, <1>5, <1>6, <1>7, <1>8 DEF Inv

LEMMA RecvfromStep ==
  ASSUME Inv, Recvfrom
  PROVE  Inv'
<1>1. /\ pc["server"] = "recvfrom" /\ inbox["server"] # <<>>
      /\ source' = Head(inbox["server"]).from
      /\ pc' = [pc EXCEPT !["server"] = "connect"]
      /\ UNCHANGED <<typed, read, eof, inbox, peer, output, first>>
  BY DEF Recvfrom
<1>2. /\ "server" \in Program /\ pc'["server"] = "connect"
      /\ \A p \in Program : p # "server" => pc'[p] = pc[p]
      /\ pc' \in [Program -> {"recvfrom", "connect", "select", "input", "socket"}]
  BY <1>1 DEF Inv, Types, Program
<1>3. Types'
  BY <1>1, <1>2 DEF Inv, Types, InputReady, Program
<1>4. source' \in {"client", "stranger"}
  <2>1. inbox["server"] \in Seq(Message("server"))
    BY <1>2 DEF Inv, Types
  <2>2. Head(inbox["server"]) \in Message("server")
    BY <1>1, <2>1, TailShifts
  <2> QED
    BY <1>1, <2>2 DEF Message, Writers
<1>5. FirstIsPeer'
  BY <1>1, <1>2, <1>4 DEF Inv, FirstIsPeer
<1>6. RoomIsLeft'
  BY <1>1, Others DEF Inv, RoomIsLeft, Ended
<1>7. (\A q \in Program : Ordered(q)') /\ PrintedInOrder'
  BY <1>1, PrintedInOrderStays, OrderedStays DEF Inv, Joined
<1> QED
  BY <1>3, <1>5, <1>6, <1>7 DEF Inv

LEMMA ConnectStep ==
  ASSUME Inv, Connect
  PROVE  Inv'
<1>1. /\ pc["server"] = "connect"
      /\ peer' = [peer EXCEPT !["server"] = source]
      /\ pc' = [pc EXCEPT !["server"] = "select"]
      /\ UNCHANGED <<typed, read, eof, inbox, source, output, first>>
  BY DEF Connect, Target
<1>2. /\ "server" \in Program /\ pc'["server"] = "select"
      /\ \A p \in Program : p # "server" => pc'[p] = pc[p]
      /\ pc' \in [Program -> {"recvfrom", "connect", "select", "input", "socket"}]
  BY <1>1 DEF Inv, Types, Program
<1>3. /\ DOMAIN peer' = Program /\ peer'["server"] = source /\ peer'["client"] = "server"
      /\ source \in {"client", "stranger"} /\ peer["server"] = NOBODY
  BY <1>1 DEF Inv, Types, FirstIsPeer, Program
<1>4. Types'
  BY <1>1, <1>2, <1>3 DEF Inv, Types, InputReady, Program
<1>5. FirstIsPeer'
  BY <1>1, <1>2, <1>3 DEF Inv, FirstIsPeer
<1>6. RoomIsLeft'
  <2>1. \A p \in Program : Ended(Other(p)) \/ Len(inbox[p]) <= read[Other(p)] + 1
    BY DEF Inv, RoomIsLeft
  <2>2. \A p \in Program : (Ended(Other(p)) \/ Len(inbox[p]) <= read[Other(p)] + 1)'
    BY <1>1, <2>1, Zenon DEF Ended
  <2>3. peer'["server"] # NOBODY
    BY <1>3, ChatAssumption
  <2> QED
    BY <2>2, <2>3, Zenon DEF RoomIsLeft
<1>7. (\A q \in Program : Ordered(q)') /\ PrintedInOrder'
  BY <1>1, <1>3, PrintedInOrderStays, OrderedStays DEF Inv, Joined
<1> QED
  BY <1>4, <1>5, <1>6, <1>7 DEF Inv

LEMMA SelectStep ==
  ASSUME Inv, NEW p \in Program, Select(p)
  PROVE  Inv'
<1>1. /\ pc[p] = "select"
      /\ \/ InputReady(p) /\ pc' = [pc EXCEPT ![p] = "input"]
         \/ inbox[p] # <<>> /\ pc' = [pc EXCEPT ![p] = "socket"]
      /\ UNCHANGED <<typed, read, eof, inbox, peer, source, output, first>>
  BY DEF Select, Watched
<1>2. /\ pc'[p] \in {"input", "socket"}
      /\ pc'[p] = "input" => InputReady(p)
      /\ pc'[p] = "socket" => inbox[p] # <<>>
      /\ \A q \in Program : q # p => pc'[q] = pc[q]
      /\ pc' \in [Program -> {"recvfrom", "connect", "select", "input", "socket"}]
  BY <1>1 DEF Inv, Types
<1>3. Types'
  BY <1>1, <1>2 DEF Inv, Types, InputReady, Program
<1>4. FirstIsPeer'
  <2>1. \/ pc'["server"] = pc["server"]
        \/ {pc["server"], pc'["server"]} \subseteq {"select", "input", "socket"}
    BY <1>1, <1>2 DEF Program
  <2> QED
    BY <1>1, <2>1, FirstStays DEF Inv
<1>5. RoomIsLeft'
  BY <1>1, Others DEF Inv, RoomIsLeft, Ended
<1>6. (\A q \in Program : Ordered(q)') /\ PrintedInOrder'
  BY <1>1, PrintedInOrderStays, OrderedStays DEF Inv, Joined
<1> QED
  BY <1>3, <1>4, <1>5, <1>6 DEF Inv

(* What is read of the input goes to the other one, while there is room:  *)
(* before the end of the input there always is.                            *)
LEMMA CopyInputStep ==
  ASSUME Inv, NEW p \in Program, CopyInput(p)
  PROVE  Inv'
<1> DEFINE to == peer[p]
           msg == IF read[p] < typed[p] THEN read[p] + 1 ELSE 0
           d == [from |-> p, msg |-> msg]
<1>1. /\ pc[p] = "input" /\ pc' = [pc EXCEPT ![p] = "select"]
      /\ UNCHANGED <<typed, eof, peer, source, output, first>>
      /\ inbox' = Queued(to, p, msg)
      /\ read[p] < typed[p] => read' = [read EXCEPT ![p] = @ + 1]
      /\ ~(read[p] < typed[p]) => read' = read
  BY DEF CopyInput
<1>2. /\ pc'[p] = "select"
      /\ \A q \in Program : q # p => pc'[q] = pc[q]
      /\ pc' \in [Program -> {"recvfrom", "connect", "select", "input", "socket"}]
  BY <1>1 DEF Inv, Types
<1>3. \A q \in Program : /\ read[q] \in Nat /\ typed[q] \in Nat
                         /\ read[q] <= typed[q] /\ typed[q] <= MaxTyped
  BY ChatAssumption DEF Inv, Types
<1>4. /\ read' \in [Program -> Nat]
      /\ \A q \in Program : q # p => read'[q] = read[q]
      /\ read[p] < typed[p] => read'[p] = read[p] + 1
      /\ ~(read[p] < typed[p]) => read'[p] = read[p] /\ read[p] = typed[p]
      /\ \A q \in Program : read[q] <= read'[q] /\ read'[q] <= typed[q]
  <2>1. CASE read[p] < typed[p]
    <3>1. \A q \in Program : read'[q] = IF q = p THEN read[p] + 1 ELSE read[q]
      BY <1>1, <2>1 DEF Inv, Types
    <3>2. read' \in [Program -> Nat]
      <4>1. read \in [Program -> Nat] /\ read[p] + 1 \in Nat
        BY <1>3 DEF Inv, Types
      <4> QED
        BY <1>1, <2>1, <4>1
    <3> QED
      BY <1>3, <2>1, <3>1, <3>2
  <2>2. CASE ~(read[p] < typed[p])
    BY <1>1, <1>3, <2>2 DEF Inv, Types
  <2> QED
    BY <2>1, <2>2
<1>5. msg \in Nat /\ InputReady(p)
  BY <1>1, <1>3 DEF Inv, Types
<1>6. ~(read[p] < typed[p]) => Ended(p)
  BY <1>3, <1>5 DEF InputReady, Ended
(* The end of the input stays where it is. *)
<1>7. \A q \in Program : Ended(q) => Ended(q)' /\ read'[q] = read[q]
  <2>1. ASSUME NEW q \in Program, read[q] = typed[q]
        PROVE  read'[q] = read[q]
    BY <1>3, <1>4, <2>1
  <2> QED
    BY <1>1, <2>1 DEF Ended
<1>8. /\ to \in Program => p \in Writers(to) /\ to = Other(p)
      /\ p = "client" => to = "server"
      /\ p = "server" => to \in {"client", "stranger"} /\ peer["server"] = source
  <2>1. CASE p = "client"
    BY <2>1, Others DEF Inv, Types, Writers
  <2>2. CASE p = "server"
    <3>1. pc["server"] \notin {"recvfrom", "connect"}
      BY <1>1, <2>2
    <3>2. to \in {"client", "stranger"} /\ peer["server"] = source
      BY <2>2, <3>1 DEF Inv, FirstIsPeer
    <3> QED
      BY <2>2, <3>2, Others DEF Program, Writers
  <2> QED
    BY <2>1, <2>2 DEF Program
<1> HIDE DEF to, msg
<1>9. /\ DOMAIN inbox' = Program
      /\ \A q \in Program :
           /\ inbox'[q] \in Seq(Message(q))
           /\ q = to /\ Accepts(q, p) => inbox'[q] = Append(inbox[q], d)
           /\ q # to \/ ~Accepts(q, p) => inbox'[q] = inbox[q]
           /\ inbox[q] # <<>> => inbox'[q] # <<>> /\ Head(inbox'[q]) = Head(inbox[q])
           /\ Len(inbox'[q]) \in Nat /\ Len(inbox[q]) \in Nat
           /\ Len(inbox'[q]) <= Len(inbox[q]) + 1
  BY <1>1, <1>5, <1>8, QueuedFacts DEF Inv
<1>10. Types'
  <2>1. \A q \in Program : pc'[q] = "input" => InputReady(q)'
    BY <1>1, <1>2, <1>4 DEF Inv, Types, InputReady
  <2>2. \A q \in Program : pc'[q] = "socket" => inbox'[q] # <<>>
    BY <1>2, <1>9 DEF Inv, Types
  <2>3. pc'["client"] \in {"select", "input", "socket"}
    BY <1>2 DEF Inv, Types, Program
  <2>4. \A q \in Program : inbox'[q] \in Seq(Message(q)) /\ read'[q] <= typed'[q]
    BY <1>1, <1>4, <1>9
  <2> QED
    BY <1>1, <1>2, <1>4, <1>9, <2>1, <2>2, <2>3, <2>4 DEF Inv, Types
<1>11. FirstIsPeer'
  <2>1. \/ pc'["server"] = pc["server"]
        \/ {pc["server"], pc'["server"]} \subseteq {"select", "input", "socket"}
    BY <1>1, <1>2 DEF Program
  <2>2. inbox["server"] # <<>> =>
          inbox'["server"] # <<>> /\ Head(inbox'["server"]) = Head(inbox["server"])
    BY <1>9 DEF Program
  <2> QED
    BY <1>1, <2>1, <2>2, FirstStays DEF Inv
(* One place more is taken only for what has been read. *)
<1>12. ASSUME NEW q \in Program
       PROVE  \/ inbox'[q] = inbox[q] /\ read[Other(q)] <= read'[Other(q)]
              \/ /\ q = to /\ p = Other(q)
                 /\ Ended(p) \/ (read[p] < typed[p] /\ read'[p] = read[p] + 1)
  BY <1>4, <1>6, <1>8, <1>9, Others
<1>13. RoomIsLeft'
  <2>1. ASSUME NEW q \in Program
        PROVE  (Ended(Other(q)) \/ Len(inbox[q]) <= read[Other(q)] + 1)'
    <3>1. Ended(Other(q)) \/ Len(inbox[q]) <= read[Other(q)] + 1
      BY DEF Inv, RoomIsLeft
    <3>2. CASE Ended(Other(q))
      BY <1>7, <3>2, Others
    <3>3. CASE ~Ended(Other(q))
      <4>1. Len(inbox[q]) <= read[Other(q)] + 1
        BY <3>1, <3>3
      <4>2. /\ Len(inbox[q]) \in Nat /\ Len(inbox'[q]) <= Len(inbox[q]) + 1
            /\ read[Other(q)] \in Nat /\ Len(inbox'[q]) \in Nat /\ read'[Other(q)] \in Nat
        BY <1>3, <1>4, <1>9, Others
      <4>3. \/ inbox'[q] = inbox[q] /\ read[Other(q)] <= read'[Other(q)]
            \/ read'[Other(q)] = read[Other(q)] + 1
        BY <1>12, <3>3
      <4>4. Len(inbox'[q]) <= read'[Other(q)] + 1
        BY <4>1, <4>2, <4>3
      <4> QED
        BY <4>4
    <3> QED
      BY <3>2, <3>3
  <2>2. ASSUME peer'["server"] = NOBODY,
               \A i \in 1 .. Len(inbox'["server"]) : inbox'["server"][i].from # "stranger"
        PROVE  (Ended("client") \/ Len(inbox["server"]) <= read["client"])'
    <3>1. "server" \in Program /\ "client" \in Program
      BY DEF Program
    <3>2. \A i \in 1 .. Len(inbox["server"]) : inbox["server"][i].from # "stranger"
      <4>1. CASE inbox'["server"] = inbox["server"]
        BY <2>2, <4>1
      <4>2. CASE inbox'["server"] = Append(inbox["server"], d)
        <5>1. inbox["server"] \in Seq(Message("server")) /\ inbox'["server"] \in Seq(Message("server"))
          BY <1>9, <3>1 DEF Inv, Types
        <5>2. /\ Len(inbox'["server"]) = Len(inbox["server"]) + 1
              /\ \A i \in 1 .. Len(inbox["server"]) : inbox'["server"][i] = inbox["server"][i]
          BY <1>8, <1>12, <4>2, <5>1, AppendFacts
        <5> QED
          BY <2>2, <5>2
      <4> QED
        BY <1>9, <3>1, <4>1, <4>2
    <3>3. Ended("client") \/ Len(inbox["server"]) <= read["client"]
      BY <1>1, <2>2, <3>2 DEF Inv, RoomIsLeft
    <3>4. CASE Ended("client")
      BY <1>7, <3>1, <3>4
    <3>5. CASE ~Ended("client")
      <4>1. /\ Len(inbox["server"]) \in Nat /\ Len(inbox'["server"]) <= Len(inbox["server"]) + 1
            /\ Len(inbox["server"]) <= read["client"] /\ read["client"] \in Nat
            /\ Len(inbox'["server"]) \in Nat /\ read'["client"] \in Nat
        BY <1>3, <1>4, <1>9, <3>1, <3>3, <3>5
      <4>2. \/ inbox'["server"] = inbox["server"] /\ read["client"] <= read'["client"]
            \/ read'["client"] = read["client"] + 1
        BY <1>12, <3>1, <3>5, Others
      <4>3. Len(inbox'["server"]) <= read'["client"]
        BY <4>1, <4>2
      <4> QED
        BY <4>3
    <3> QED
      BY <3>4, <3>5
  <2> QED
    BY <2>1, <2>2 DEF RoomIsLeft
<1>14. (\A q \in Program : CountPrinted(q)' = CountPrinted(q)) /\ PrintedInOrder'
  BY <1>1, PrintedInOrderStays DEF Inv
<1>15. Joined' = Joined
  BY <1>1 DEF Joined
<1>16. ASSUME NEW q \in Program
       PROVE  Ordered(q)'
  <2>1. CASE p # Other(q)
    <3>1. inbox'[q] = inbox[q]
      BY <1>12, <2>1
    <3>2. read'[Other(q)] = read[Other(q)]
      BY <1>4, <2>1, Others
    <3> QED
      BY <1>14, <1>15, <3>1, <3>2, OrderedStays DEF Inv
  <2>2. CASE p = Other(q) /\ ~Joined
    <3>1. CASE p = "client"
      <4>1. q = "server" /\ to = "server"
        BY <1>8, <2>2, <3>1, Others DEF Program
      <4>2. ~Accepts(q, p)
        BY <2>2, <3>1, <4>1 DEF Accepts, Joined
      <4> QED
        BY <1>9, <1>14, <1>15, <2>2, <4>2, OrderedStays DEF Inv
    <3>2. CASE p = "server"
      <4>1. q = "client" /\ to # q
        BY <1>8, <2>2, <3>2, Others DEF Program, Joined, to
      <4> QED
        BY <1>9, <1>14, <1>15, <2>2, <4>1, OrderedStays DEF Inv
    <3> QED
      BY <3>1, <3>2 DEF Program
  <2>3. CASE p = Other(q) /\ Joined
    <3>1. PICK m \in Nat : /\ Continues(inbox[q], Other(q), CountPrinted(q))
                           /\ EndsWith(inbox[q], Other(q), CountPrinted(q), m)
                           /\ Joined => m = read[Other(q)]
      BY DEF Inv, Ordered
    <3>2. m = read[p]
      BY <2>3, <3>1
    <3>3. inbox[q] \in Seq(Message(q))
      BY DEF Inv, Types
    <3>4. CASE ~(read[p] < typed[p])
      <4>1. read'[p] = read[p] /\ msg = 0
        BY <1>4, <3>4 DEF msg
      <4>2. CASE inbox'[q] = inbox[q]
        BY <1>14, <1>15, <2>3, <4>1, <4>2, OrderedStays DEF Inv
      <4>3. CASE inbox'[q] # inbox[q]
        <5>1. q = to /\ inbox'[q] = Append(inbox[q], d)
          BY <1>9, <4>3
        <5>2. d \in Message(q) /\ ~Of(d, Other(q))
          BY <1>5, <1>8, <4>1, <5>1 DEF Message, Of
        <5>3. /\ Continues(inbox'[q], Other(q), CountPrinted(q))
              /\ EndsWith(inbox'[q], Other(q), CountPrinted(q), m)
          BY <3>1, <3>3, <5>1, <5>2, AppendOther
        <5> QED
          BY <1>14, <1>15, <2>3, <3>2, <4>1, <5>3 DEF Ordered
      <4> QED
        BY <4>2, <4>3
    <3>5. CASE read[p] < typed[p]
      <4>1. read'[p] = read[p] + 1 /\ msg = read[p] + 1 /\ read[p] + 1 \in Nat
        BY <1>3, <1>4, <3>5 DEF msg
      <4>2. q = to /\ peer[q] \in {NOBODY, p}
        <5>1. CASE p = "client"
          BY <1>8, <2>3, <5>1, Others DEF Joined, Program
        <5>2. CASE p = "server"
          <6>1. q = "client" /\ peer["client"] = "server"
            BY <2>3, <5>2, Others DEF Inv, Types, Program
          <6>2. to = "client"
            BY <1>8, <2>3, <5>2, ChatAssumption DEF Joined, to
          <6> QED
            BY <5>2, <6>1, <6>2
        <5> QED
          BY <5>1, <5>2 DEF Program
      <4>3. Len(inbox[q]) < MaxQueue
        <5>1. ~Ended(p)
          BY <1>3, <3>5 DEF Ended
        <5>2. Len(inbox[q]) <= read[p] + 1
          BY <2>3, <5>1 DEF Inv, RoomIsLeft
        <5> QED
          BY <1>3, <1>9, <3>5, <5>2, ChatAssumption
      <4>4. inbox'[q] = Append(inbox[q], d)
        BY <1>9, <4>2, <4>3 DEF Accepts
      <4>5. d \in Message(q) /\ Of(d, Other(q)) /\ d.msg = m + 1
        BY <1>5, <1>8, <2>3, <3>2, <4>1, <4>2, <1>3 DEF Message, Of
      <4>6. /\ Continues(inbox'[q], Other(q), CountPrinted(q))
            /\ EndsWith(inbox'[q], Other(q), CountPrinted(q), m + 1)
        BY <3>1, <3>3, <4>4, <4>5, AppendNext
      <4>7. m + 1 \in Nat /\ m + 1 = read'[Other(q)]
        BY <2>3, <3>2, <4>1
      <4> QED
        BY <1>14, <4>6, <4>7 DEF Ordered
    <3> QED
      BY <3>4, <3>5
  <2> QED
    BY <2>1, <2>2, <2>3
<1> QED
  BY <1>10, <1>11, <1>13, <1>14, <1>16 DEF Inv

(* A datagram goes from the head of the queue to the end of the output,    *)
(* which the rest of the queue then continues.                             *)
LEMMA CopySocketStep ==
  ASSUME Inv, NEW p \in Program, CopySocket(p)
  PROVE  Inv'
<1> DEFINE d == Head(inbox[p])
           N == Len(output[p])
<1>1. /\ pc[p] = "socket" /\ pc' = [pc EXCEPT ![p] = "select"]
      /\ d.msg = 0 => output' = output
      /\ d.msg # 0 => output' = [output EXCEPT ![p] = Append(@, d)]
      /\ first' = IF p = "server" /\ first = NOBODY THEN d.from ELSE first
      /\ inbox' = [inbox EXCEPT ![p] = Tail(@)]
      /\ UNCHANGED <<typed, read, eof, peer, source>>
  BY DEF CopySocket
<1>2. /\ pc'[p] = "select"
      /\ \A q \in Program : q # p => pc'[q] = pc[q]
      /\ pc' \in [Program -> {"recvfrom", "connect", "select", "input", "socket"}]
  BY <1>1 DEF Inv, Types
<1>3. inbox[p] \in Seq(Message(p)) /\ inbox[p] # <<>> /\ output[p] \in Seq(Message(p))
  BY <1>1 DEF Inv, Types
<1>4. /\ d \in Message(p) /\ inbox'[p] = Tail(inbox[p]) /\ inbox'[p] \in Seq(Message(p))
      /\ Len(inbox[p]) \in Nat /\ Len(inbox'[p]) \in Nat /\ Len(inbox'[p]) <= Len(inbox[p])
  <2>1. inbox'[p] = Tail(inbox[p])
    BY <1>1 DEF Inv, Types
  <2>2. /\ Len(inbox[p]) \in Nat /\ Len(inbox[p]) >= 1
        /\ Len(Tail(inbox[p])) = Len(inbox[p]) - 1
        /\ Tail(inbox[p]) \in Seq(Message(p)) /\ d \in Message(p)
    BY <1>3, TailShifts
  <2> QED
    BY <2>1, <2>2
<1>5. \A q \in Program : q # p => inbox'[q] = inbox[q] /\ output'[q] = output[q]
  BY <1>1 DEF Inv, Types
<1>6. d.from \in Writers(p) /\ d.msg \in Nat
  BY <1>4 DEF Message
<1>7. /\ N \in Nat /\ CountPrinted(p) = Cardinality(Printed(p, N))
      /\ IsFiniteSet(Printed(p, N)) /\ CountPrinted(p) \in Nat
  <2>1. N \in Nat
    BY <1>3, LenProperties
  <2> QED
    BY <2>1, CountIsNat DEF CountPrinted
<1> HIDE DEF d, N
<1>8. /\ DOMAIN output' = Program /\ DOMAIN inbox' = Program
      /\ output'[p] \in Seq(Message(p))
  <2>1. CASE d.msg = 0
    BY <1>1, <1>3, <2>1 DEF Inv, Types
  <2>2. CASE d.msg # 0
    <3>1. output' = [output EXCEPT ![p] = Append(@, d)]
      BY <1>1, <2>2
    <3>2. output'[p] \in Seq(Message(p))
      BY <1>4, <3>1, PrintMore DEF Inv
    <3> QED
      BY <1>1, <3>1, <3>2 DEF Inv, Types
  <2> QED
    BY <2>1, <2>2
<1>9. Types'
  <2>1. \A q \in Program : inbox'[q] \in Seq(Message(q)) /\ output'[q] \in Seq(Message(q))
    BY <1>4, <1>5, <1>8 DEF Inv, Types
  <2>2. \A q \in Program : pc'[q] = "socket" => inbox'[q] # <<>>
    BY <1>2, <1>5 DEF Inv, Types
  <2>3. \A q \in Program : pc'[q] = "input" => InputReady(q)'
    BY <1>1, <1>2 DEF Inv, Types, InputReady
  <2>4. pc'["client"] \in {"select", "input", "socket"}
    BY <1>2 DEF Inv, Types, Program
  <2> QED
    BY <1>1, <1>2, <1>8, <2>1, <2>2, <2>3, <2>4 DEF Inv, Types
<1>10. FirstIsPeer'
  <2>1. CASE p = "client"
    <3>1. "server" \in Program /\ inbox'["server"] = inbox["server"] /\ first' = first
          /\ pc'["server"] = pc["server"]
      BY <1>1, <1>2, <1>5, <2>1 DEF Program
    <3> QED
      BY <1>1, <3>1, FirstStays DEF Inv
  <2>2. CASE p = "server"
    <3>1. peer["server"] = source /\ source \in {"client", "stranger"}
      BY <1>1, <2>2 DEF Inv, FirstIsPeer
    <3>2. first = NOBODY => d.from = source
      BY <1>1, <2>2 DEF Inv, FirstIsPeer, d
    <3>3. first' = source
      BY <1>1, <2>2, <3>2 DEF Inv, FirstIsPeer
    <3>4. source # NOBODY
      BY <3>1, ChatAssumption
    <3> QED
      BY <1>1, <1>2, <2>2, <3>1, <3>3, <3>4 DEF FirstIsPeer
  <2> QED
    BY <2>1, <2>2 DEF Program
<1>11. RoomIsLeft'
  <2>1. \A q \in Program : /\ Len(inbox'[q]) \in Nat /\ Len(inbox[q]) \in Nat
                           /\ Len(inbox'[q]) <= Len(inbox[q])
    <3>1. \A q \in Program : q # p => inbox'[q] = inbox[q] /\ Len(inbox[q]) \in Nat
      BY <1>5, LenProperties DEF Inv, Types
    <3>2. ASSUME NEW q \in Program
          PROVE  /\ Len(inbox'[q]) \in Nat /\ Len(inbox[q]) \in Nat
                 /\ Len(inbox'[q]) <= Len(inbox[q])
      <4>1. CASE q = p
        BY <1>4, <4>1
      <4>2. CASE q # p
        BY <3>1, <4>2
      <4> QED
        BY <4>1, <4>2
    <3> QED
      BY <3>2
  <2>2. \A q \in Program : Ended(q)' = Ended(q) /\ read'[q] = read[q] /\ read[q] \in Nat
    BY <1>1 DEF Ended, Inv, Types
  <2>3. \A q \in Program : Ended(Other(q)) \/ Len(inbox[q]) <= read[Other(q)] + 1
    BY DEF Inv, RoomIsLeft
  <2>4. ASSUME NEW q \in Program
        PROVE  (Ended(Other(q)) \/ Len(inbox[q]) <= read[Other(q)] + 1)'
    <3>1. /\ Other(q) \in Program /\ Ended(Other(q))' = Ended(Other(q))
          /\ read'[Other(q)] = read[Other(q)] /\ read[Other(q)] \in Nat
      BY <2>2, Others
    <3> QED
      BY <2>1, <2>3, <3>1
  <2>5. ASSUME peer'["server"] = NOBODY
        PROVE  inbox'["server"] = inbox["server"] /\ peer["server"] = NOBODY
    <3>1. p # "server"
      BY <1>1, <2>5, ChatAssumption DEF Inv, FirstIsPeer
    <3> QED
      BY <1>1, <1>5, <2>5, <3>1 DEF Program
  <2>6. ASSUME peer'["server"] = NOBODY,
               \A i \in 1 .. Len(inbox'["server"]) : inbox'["server"][i].from # "stranger"
        PROVE  (Ended("client") \/ Len(inbox["server"]) <= read["client"])'
    <3>1. Ended("client") \/ Len(inbox["server"]) <= read["client"]
      BY <2>5, <2>6 DEF Inv, RoomIsLeft
    <3>2. "client" \in Program
      BY DEF Program
    <3> QED
      BY <2>2, <2>5, <2>6, <3>1, <3>2
  <2> QED
    BY <2>4, <2>6 DEF RoomIsLeft
<1>12. ASSUME NEW q \in Program, q # p
       PROVE  /\ Ordered(q)'
              /\ \A k \in Nat : Printed(q, k)' = Printed(q, k)
  <2>1. inbox'[q] = inbox[q] /\ output'[q] = output[q]
    BY <1>5, <1>12
  <2>2. \A k \in Nat : Printed(q, k)' = Printed(q, k)
    BY <2>1 DEF Printed
  <2>3. CountPrinted(q)' = CountPrinted(q)
    BY <2>1 DEF CountPrinted, Printed
  <2> QED
    BY <1>1, <2>1, <2>2, <2>3, OrderedStays DEF Inv, Joined
<1>13. PICK m \in Nat : /\ Continues(inbox[p], Other(p), CountPrinted(p))
                        /\ EndsWith(inbox[p], Other(p), CountPrinted(p), m)
                        /\ Joined => m = read[Other(p)]
  BY DEF Inv, Ordered
(* The last message printed is in its place in the order. *)
<1>14. /\ Continues(inbox'[p], Other(p), CountPrinted(p)')
       /\ EndsWith(inbox'[p], Other(p), CountPrinted(p)', m)
       /\ \A k \in 1 .. Len(output'[p]) :
            output'[p][k].from = Other(p) => output'[p][k].msg = Cardinality(Printed(p, k)')
  <2>1. \A k \in 1 .. N :
          output[p][k].from = Other(p) => output[p][k].msg = Cardinality(Printed(p, k))
    BY DEF Inv, PrintedInOrder, N
  <2>2. CASE d.msg = 0
    <3>1. output' = output
      BY <1>1, <2>2
    <3>2. \A k \in Nat : Printed(p, k)' = Printed(p, k)
      BY <3>1 DEF Printed
    <3>3. CountPrinted(p)' = CountPrinted(p)
      BY <3>1 DEF CountPrinted, Printed
    <3>4. ~Of(d, Other(p))
      BY <2>2 DEF Of
    <3>5. /\ Continues(inbox'[p], Other(p), CountPrinted(p))
          /\ EndsWith(inbox'[p], Other(p), CountPrinted(p), m)
      BY <1>3, <1>4, <1>13, <3>4, TailOther DEF d
    <3>6. \A k \in 1 .. N : Printed(p, k)' = Printed(p, k)
      BY <1>7, <3>2
    <3> QED
      BY <2>1, <3>1, <3>3, <3>5, <3>6 DEF N
  <2>3. CASE d.msg # 0
    <3>1. /\ Len(output'[p]) = N + 1 /\ output'[p][N + 1] = d
          /\ \A k \in 1 .. N : output'[p][k] = output[p][k] /\ Printed(p, k)' = Printed(p, k)
          /\ \A k \in Nat : k = N + 1 =>
               Printed(p, k)' =
                 IF d.from = Other(p) THEN Printed(p, N) \cup {k} ELSE Printed(p, N)
      BY <1>1, <1>4, <2>3, PrintMore DEF Inv, N
    <3>2. \A k \in Nat : k = Len(output'[p]) => CountPrinted(p)' = Cardinality(Printed(p, k)')
      BY DEF CountPrinted, Printed
    <3>3. PICK K \in Nat : K = N + 1
      BY <1>7
    <3>4. K = Len(output'[p]) /\ CountPrinted(p)' = Cardinality(Printed(p, K)')
      BY <3>1, <3>2, <3>3
    <3>5. \A k \in 1 .. Len(output'[p]) : k \in 1 .. N \/ k = K
      BY <1>7, <3>3, <3>4
    <3>6. CASE d.from = Other(p)
      <4>1. Of(d, Other(p))
        BY <2>3, <3>6 DEF Of
      <4>2. /\ d.msg = CountPrinted(p) + 1
            /\ Continues(inbox'[p], Other(p), CountPrinted(p) + 1)
            /\ EndsWith(inbox'[p], Other(p), CountPrinted(p) + 1, m)
        BY <1>3, <1>4, <1>7, <1>13, <4>1, TailNext DEF d
      <4>3. Printed(p, K)' = Printed(p, N) \cup {K}
        BY <3>1, <3>3, <3>6
      <4>4. K \notin Printed(p, N)
        BY <1>7, <3>3 DEF Printed
      <4>5. Cardinality(Printed(p, K)') = CountPrinted(p) + 1
        <5>1. Cardinality(Printed(p, N) \cup {K}) = Cardinality(Printed(p, N)) + 1
          BY <1>7, <4>4, FS_AddElement
        <5> QED
          BY <1>7, <4>3, <5>1
      <4>6. output'[p][K].msg = Cardinality(Printed(p, K)')
        BY <3>1, <3>3, <4>2, <4>5
      <4> QED
        BY <2>1, <3>1, <3>4, <3>5, <4>2, <4>5, <4>6
    <3>7. CASE d.from # Other(p)
      <4>1. ~Of(d, Other(p))
        BY <3>7 DEF Of
      <4>2. /\ Continues(inbox'[p], Other(p), CountPrinted(p))
            /\ EndsWith(inbox'[p], Other(p), CountPrinted(p), m)
        BY <1>3, <1>4, <1>13, <4>1, TailOther DEF d
      <4>3. CountPrinted(p)' = CountPrinted(p)
        BY <1>7, <3>1, <3>3, <3>4, <3>7
      <4>4. output'[p][K].from # Other(p)
        BY <3>1, <3>3, <3>7
      <4> QED
        BY <2>1, <3>1, <3>5, <4>2, <4>3, <4>4
    <3> QED
      BY <3>6, <3>7
  <2> QED
    BY <2>2, <2>3
<1>15. Ordered(p)'
  BY <1>1, <1>13, <1>14 DEF Ordered, Joined
<1>16. PrintedInOrder'
  <2>1. ASSUME NEW q \in Program, q # p
        PROVE  \A k \in 1 .. Len(output'[q]) :
                 output'[q][k].from = Other(q) => output'[q][k].msg = Cardinality(Printed(q, k)')
    <3>1. output'[q] = output[q]
      BY <1>5, <2>1
    <3>2. \A k \in Nat : Printed(q, k)' = Printed(q, k)
      BY <1>12, <2>1
    <3>3. \A k \in 1 .. Len(output[q]) : k \in Nat
      OBVIOUS
    <3> QED
      BY <3>1, <3>2, <3>3 DEF Inv, PrintedInOrder
  <2> QED
    BY <1>14, <2>1 DEF PrintedInOrder
<1> QED
  BY <1>9, <1>10, <1>11, <1>12, <1>15, <1>16 DEF Inv

-----------------------------------------------------------------------------
(* The theorems. *)

LEMMA ChatStep == Inv /\ [Next]_vars => Inv'
<1> SUFFICES ASSUME Inv, [Next]_vars
             PROVE  Inv'
  OBVIOUS
<1>1. ASSUME NEW p \in Program, Loop(p)
      PROVE  Inv'
  BY <1>1, SelectStep, CopyInputStep, CopySocketStep DEF Loop
<1>2. CASE UNCHANGED vars
  <2>1. Types' /\ FirstIsPeer' /\ RoomIsLeft'
    BY <1>2 DEF vars, Inv, Types, FirstIsPeer, RoomIsLeft, InputReady, Ended
  <2>2. (\A q \in Program : Ordered(q)') /\ PrintedInOrder'
    BY <1>2, PrintedInOrderStays, OrderedStays DEF vars, Inv, Joined
  <2> QED
    BY <2>1, <2>2 DEF Inv
<1> QED
  BY <1>1, <1>2, TypeStep, EndInputStep, StrangerStep, RecvfromStep, ConnectStep DEF Next

LEMMA ChatInv == Spec => []Inv
<1> QED
  BY ChatInit, ChatStep, PTL DEF Spec

(* Whatever the number of messages and whoever writes, ends or stops, a    *)
(* program prints what was typed at the other one from the first message   *)
(* on, in order and without gaps.  (wait_for_client, read_write_loop)      *)
THEOREM MessagesAreInOrder == Spec => []PrintedInOrder
<1>1. Inv => PrintedInOrder
  BY DEF Inv
<1> QED
  BY <1>1, ChatInv, PTL

(* The server is connected to the author of the first datagram that its    *)
(* loop reads, even when others write between the look at that datagram    *)
(* and the connection.  (recvfrom and connect in wait_for_client)          *)
THEOREM FirstIsAnswered == Spec => []AnswersTheFirst
<1>1. Inv => AnswersTheFirst
  BY DEF Inv, FirstIsPeer, AnswersTheFirst
<1> QED
  BY <1>1, ChatInv, PTL
=============================================================================
