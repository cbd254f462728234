---------------------------- MODULE TransferProofs ----------------------------
(***************************************************************************)
(* Safety of the whole transfer, for every file, every window, every space *)
(* of sequence numbers and every delay that they bear, over a network that *)
(* loses, reorders, damages and repeats packets and that loses answers;    *)
(* and that it implements FileTransfer.                                    *)
(*                                                                         *)
(* Safe is the inductive invariant.  It ties three positions in the file:  *)
(* Base, the oldest chunk that the sender holds, Count, the one that the   *)
(* receiver expects, and offset, the next one to be read.  Base <= Count   *)
(* because ACKs never name more than what has been written; as they arrive *)
(* in order, none is older than the window when it is read.                *)
(***************************************************************************)
EXTENDS Transfer, ReceiverProofs

(* The packet of chunk c, and the oldest chunk that the sender holds.      *)
PacketOf(c) == [seqnum |-> Wrap(c), payload |-> c]

Base == offset - current_index_window

Count == Len(written)

(* The sender's window holds the chunks from Base on.                      *)
SenderFacts ==
  /\ offset \in 0 .. FileLen + 1
  /\ current_index_window \in 0 .. MAX_WINDOW_SIZE /\ current_index_window <= offset
  /\ limited_window_size \in 0 .. MAX_WINDOW_SIZE
  /\ finish \in BOOLEAN /\ (finish <=> offset = FileLen + 1)
  /\ seqnum = Wrap(offset)
  /\ window \in [Slots -> Packet \cup {NULL}]
  /\ \A i \in 0 .. current_index_window - 1 : window[i] = PacketOf(Base + i)
  /\ sender \in {"running", "exited", "failed"}

(* The receiver is ahead of the window's beginning, not of its end.        *)
Between == Base <= Count /\ Count <= offset

InFlight == \A p \in data : \E c \in 0 .. offset - 1 : p = PacketOf(c)

Held ==
  \A i \in Slots : receive_buffer[i] # NULL =>
    \E c \in Count + 1 .. offset - 1 : receive_buffer[i] = PacketOf(c)

(* Answers name chunks of the window; ACKs never go back.                  *)
AnswerFacts ==
  \A k \in 1 .. Len(acks) :
    /\ acks[k].seqnum = Wrap(acks[k].chunk)
    /\ Base <= acks[k].chunk
    /\ acks[k].type = "ACK" => acks[k].chunk <= Count
    /\ acks[k].type = "NACK" => acks[k].chunk <= offset - 1
    /\ \A j \in 1 .. k - 1 : acks[j].type = "ACK" => acks[j].chunk <= acks[k].chunk

Safe ==
  /\ Inv
  /\ SenderFacts
  /\ Between
  /\ InFlight
  /\ InOrderDelivery
  /\ Held
  /\ AnswerFacts
  /\ ExitMeansDelivered

-----------------------------------------------------------------------------
(* Distances between chunks and between their numbers. *)

LEMMA DistFromExpected ==
  ASSUME NEW last \in SeqNums, NEW s \in SeqNums, NEW e, e = (last + 1) % SeqSpace
  PROVE  e \in SeqNums /\ Dist(last, s) = IF s >= e THEN s - e ELSE s - e + SeqSpace
<1>1. Dist(last, s) = IF s <= last THEN s + SeqSpace - last - 1 ELSE s - last - 1
  BY DistValue
<1>2. CASE last = SeqSpace - 1
  <2>1. e = 0
    BY <1>2, SeqNumAssumption
  <2> QED
    BY <1>1, <1>2, <2>1, SeqNumAssumption DEF SeqNums
<1>3. CASE last < SeqSpace - 1
  <2>1. e = last + 1
    BY <1>3, SeqNumAssumption DEF SeqNums
  <2> QED
    BY <1>1, <1>3, <2>1, SeqNumAssumption DEF SeqNums
<1> QED
  BY <1>2, <1>3, SeqNumAssumption DEF SeqNums

(* How the numbers of two chunks less than SeqSpace apart compare.         *)
LEMMA WrapDifference ==
  ASSUME NEW a \in Nat, NEW b \in Nat, a <= b, b - a < SeqSpace
  PROVE  /\ Wrap(a) \in SeqNums /\ Wrap(b) \in SeqNums
         /\ \/ Wrap(b) - Wrap(a) = b - a
            \/ Wrap(b) - Wrap(a) = b - a - SeqSpace
<1>1. Wrap(a) \in SeqNums /\ Wrap(b) \in SeqNums
  BY WrapType
<1>2. b - a \in 0 .. SeqSpace - 1 /\ a + (b - a) = b
  BY SeqNumAssumption
<1>3. Wrap(b) = IF Wrap(a) + (b - a) < SeqSpace THEN Wrap(a) + (b - a)
                ELSE Wrap(a) + (b - a) - SeqSpace
  BY <1>2, WrapAdd
<1> QED
  BY <1>1, <1>3, SeqNumAssumption DEF SeqNums

(* How far chunk c is from the one that the receiver expects.              *)
LEMMA ChunkDist ==
  ASSUME Inv, NEW c \in Nat, Count - c <= MaxLag, c - Count < MAX_WINDOW_SIZE
  PROVE  /\ Count \in Nat
         /\ Dist(lastack, Wrap(c)) = IF c >= Count THEN c - Count ELSE c - Count + SeqSpace
<1>1. Count \in Nat /\ lastack \in SeqNums /\ (lastack + 1) % SeqSpace = Wrap(Count)
  BY DEF Inv, ReceiverTypeOK, WrittenInSequence, Expected, Count
<1>2. Wrap(c) \in SeqNums /\ Wrap(Count) \in SeqNums
  BY <1>1, WrapType
<1>3. Dist(lastack, Wrap(c)) = IF Wrap(c) >= Wrap(Count) THEN Wrap(c) - Wrap(Count)
                               ELSE Wrap(c) - Wrap(Count) + SeqSpace
  BY <1>1, <1>2, DistFromExpected
<1>4. CASE c >= Count
  <2>1. \/ Wrap(c) - Wrap(Count) = c - Count
        \/ Wrap(c) - Wrap(Count) = c - Count - SeqSpace
    BY <1>1, <1>4, WrapDifference, SeqNumAssumption
  <2> QED
    BY <1>1, <1>2, <1>3, <1>4, <2>1, SeqNumAssumption DEF SeqNums
<1>5. CASE c < Count
  <2>1. \/ Wrap(Count) - Wrap(c) = Count - c
        \/ Wrap(Count) - Wrap(c) = Count - c - SeqSpace
    BY <1>1, <1>5, WrapDifference, SeqNumAssumption, TransferAssumption
  <2> QED
    BY <1>1, <1>2, <1>3, <1>5, <2>1, SeqNumAssumption, TransferAssumption DEF SeqNums
<1> QED
  BY <1>1, <1>4, <1>5

(* Where the sender looks for the packet of an ACK or a NACK.              *)
LEMMA AckPosition ==
  ASSUME SenderFacts, NEW c \in Nat, Base <= c, c <= offset
  PROVE  Position(Wrap(c) - 1) = c - Base - 1
<1>1. offset \in Nat /\ current_index_window \in Nat /\ seqnum = Wrap(offset)
      /\ offset - c < SeqSpace
  BY SeqNumAssumption DEF SenderFacts, Base
<1>2. Wrap(c) \in SeqNums /\ Wrap(offset) \in SeqNums
      /\ \/ Wrap(offset) - Wrap(c) = offset - c
         \/ Wrap(offset) - Wrap(c) = offset - c - SeqSpace
  BY <1>1, WrapDifference
<1> QED
  BY <1>1, <1>2, SeqNumAssumption DEF Position, get_ack_position, Base, SeqNums

LEMMA NackPosition ==
  ASSUME SenderFacts, NEW c \in Nat, Base <= c, c < offset
  PROVE  Position(Wrap(c)) = c - Base
<1>1. offset \in Nat /\ current_index_window \in Nat /\ seqnum = Wrap(offset)
      /\ offset - c < SeqSpace
  BY SeqNumAssumption DEF SenderFacts, Base
<1>2. Wrap(c) \in SeqNums /\ Wrap(offset) \in SeqNums
      /\ \/ Wrap(offset) - Wrap(c) = offset - c
         \/ Wrap(offset) - Wrap(c) = offset - c - SeqSpace
  BY <1>1, WrapDifference
<1> QED
  BY <1>1, <1>2, SeqNumAssumption DEF Position, get_ack_position, Base, SeqNums

LEMMA PacketOfType ==
  ASSUME NEW c \in 0 .. FileLen
  PROVE  PacketOf(c) \in Packet
<1>1. Wrap(c) \in SeqNums
  BY WrapType, WireAssumption
<1> QED
  BY <1>1 DEF PacketOf, Packet, Chunk

LEMMA InFlightTypes ==
  ASSUME SenderFacts, InFlight, NEW p \in data
  PROVE  /\ p \in Packet /\ p.payload \in 0 .. offset - 1 /\ p = PacketOf(p.payload)
         /\ p.seqnum = Wrap(p.payload)
<1>1. PICK c \in 0 .. offset - 1 : p = PacketOf(c)
  BY DEF InFlight
<1>2. c \in 0 .. FileLen
  BY WireAssumption DEF SenderFacts
<1> QED
  BY <1>1, <1>2, PacketOfType DEF PacketOf

-----------------------------------------------------------------------------
LEMMA TailIs ==
  ASSUME NEW S, NEW s \in Seq(S), s # <<>>
  PROVE  Tail(s) = [i \in 1 .. Len(s) - 1 |-> s[i + 1]]
<1> DEFINE t == [i \in 1 .. Len(s) - 1 |-> s[i + 1]]
<1>1. Len(s) \in Nat \ {0} /\ \A i \in 1 .. Len(s) - 1 : s[i + 1] \in S
  OBVIOUS
<1>2. t \in Seq(S) /\ Len(t) = Len(s) - 1
  BY <1>1
<1>3. /\ Tail(s) \in Seq(S) /\ Len(Tail(s)) = Len(s) - 1
      /\ \A i \in 1 .. Len(Tail(s)) : Tail(s)[i] = t[i]
  BY HeadTailProperties
<1> QED
  BY <1>2, <1>3, SeqEqual

LEMMA FirstAnswer ==
  ASSUME acks \in Seq(Control), ReceiveAnswer(1)
  PROVE  acks # <<>> /\ acks' = Tail(acks)
<1>1. acks # <<>> /\ acks' = [i \in 1 .. Len(acks) - 1 |-> IF i < 1 THEN acks[i] ELSE acks[i + 1]]
  BY DEF ReceiveAnswer
<1>2. \A i \in 1 .. Len(acks) - 1 : ~(i < 1)
  OBVIOUS
<1> QED
  BY <1>1, <1>2, TailIs

(* For the receiver the transfer is one of the environments of Receiver.   *)
LEMMA ReceiverStep ==
  ASSUME Safe, [LossyNext]_vars
  PROVE  [Next_R]_vars_R /\ Inv'
<1> SUFFICES [Next_R]_vars_R
  BY InvIsKept DEF Safe
<1>1. acks \in Seq(Control)
  BY DEF Safe, Inv, ReceiverTypeOK
<1>2. CASE UNCHANGED vars
  BY <1>2 DEF vars, vars_R
<1>3. CASE LoseAnswer
  BY <1>3 DEF LoseAnswer, Next_R, TakeAnswer
<1>4. CASE UNCHANGED receiverVars /\ ReceiveAnswer(1)
  BY <1>1, <1>4, FirstAnswer DEF Next_R, TakeAnswer
<1>5. CASE UNCHANGED receiverVars /\ (SendNew \/ SelectFails \/ \E i \in Slots : Retransmit(i))
  BY <1>5 DEF SendNew, SelectFails, Retransmit, vars_R
<1>6. ASSUME NEW p \in data, LosePacket(p)
      PROVE  [Next_R]_vars_R
  BY <1>6 DEF LosePacket, vars_R
<1>7. ASSUME NEW p \in data, NEW status \in Arrival, Deliver(p, status)
      PROVE  [Next_R]_vars_R
  BY <1>7, InFlightTypes DEF Safe, Deliver, Next_R
<1> QED
  BY <1>2, <1>3, <1>4, <1>5, <1>6, <1>7 DEF LossyNext, Next, SenderStep, NetworkStep

(* What the sender's steps and losses leave alone on the receiver's side.  *)
LEMMA ReceiverUnchanged ==
  ASSUME Safe, UNCHANGED receiverVars, offset' \in Nat, offset <= offset'
  PROVE  InOrderDelivery' /\ Held' /\ Count' = Count /\ Count \in Nat
<1>1. /\ receive_buffer' = receive_buffer /\ written' = written
  BY DEF receiverVars
<1>2. Count' = Count /\ Count \in Nat
  BY <1>1 DEF Count, Safe, Inv, ReceiverTypeOK
<1>3. InOrderDelivery'
  BY <1>1 DEF Safe, InOrderDelivery
<1>4. \A c \in Count + 1 .. offset - 1 : c \in Count + 1 .. offset' - 1
  <2>1. offset \in Nat
    BY DEF Safe, SenderFacts
  <2> DEFINE a == Count + 1
             o == offset'
  <2>2. a \in Int /\ o \in Nat /\ offset <= o
    BY <1>2
  <2> HIDE DEF a, o
  <2>3. \A c \in a .. offset - 1 : c \in a .. o - 1
    BY <2>1, <2>2
  <2> QED
    BY <2>3 DEF a, o
<1>5. Held'
  BY <1>1, <1>2, <1>4 DEF Safe, Held
<1> QED
  BY <1>2, <1>3, <1>5

(* A copy of a packet of the window is sent.                               *)
LEMMA SentAgain ==
  ASSUME Safe, NEW i \in 0 .. current_index_window - 1, data' = data \cup {window[i]},
         UNCHANGED offset
  PROVE  InFlight'
<1>1. window[i] = PacketOf(Base + i) /\ Base + i \in 0 .. offset - 1
  BY DEF Safe, SenderFacts, Base
<1> QED
  BY <1>1 DEF Safe, InFlight

-----------------------------------------------------------------------------
(* The answers in flight, when nothing is added to them. *)

LEMMA AnswerTypes ==
  ASSUME Safe
  PROVE  /\ acks \in Seq(Control) /\ Len(acks) \in Nat
         /\ offset \in Nat /\ Base \in Nat /\ Count \in Nat
         /\ \A k \in 1 .. Len(acks) : acks[k] \in Control /\ acks[k].chunk \in Nat
<1>1. acks \in Seq(Control) /\ Count \in Nat
  BY DEF Safe, Inv, ReceiverTypeOK, Count
<1>2. offset \in Nat /\ Base \in Nat
  BY DEF Safe, SenderFacts, Base
<1>3. \A k \in 1 .. Len(acks) : acks[k] \in Control
  BY <1>1
<1> QED
  BY <1>1, <1>2, <1>3 DEF Control

LEMMA AnswersKept ==
  ASSUME Safe, UNCHANGED acks, Base' = Base, Count' = Count, offset' \in Nat, offset <= offset'
  PROVE  AnswerFacts'
<1> DEFINE o == offset'
<1>1. o \in Nat /\ offset <= o /\ offset \in Nat
  BY AnswerTypes
<1> HIDE DEF o
<1>2. \A k \in 1 .. Len(acks) : acks[k].chunk <= offset - 1 => acks[k].chunk <= o - 1
  BY <1>1, AnswerTypes
<1> QED
  BY <1>2 DEF Safe, AnswerFacts, o

LEMMA AnswerTaken ==
  ASSUME Safe, acks # <<>>, acks' = Tail(acks), UNCHANGED offset, Count' = Count,
         \A k \in 2 .. Len(acks) : Base' <= acks[k].chunk
  PROVE  AnswerFacts'
<1>1. /\ Len(acks) \in Nat \ {0} /\ Len(acks') = Len(acks) - 1
      /\ \A k \in 1 .. Len(acks) - 1 : acks'[k] = acks[k + 1]
  BY AnswerTypes, HeadTailProperties
<1> SUFFICES ASSUME NEW k \in 1 .. Len(acks) - 1
             PROVE  /\ acks'[k].seqnum = Wrap(acks'[k].chunk)
                    /\ Base' <= acks'[k].chunk
                    /\ acks'[k].type = "ACK" => acks'[k].chunk <= Count
                    /\ acks'[k].type = "NACK" => acks'[k].chunk <= offset - 1
                    /\ \A j \in 1 .. k - 1 :
                         acks'[j].type = "ACK" => acks'[j].chunk <= acks'[k].chunk
  BY <1>1 DEF AnswerFacts
<1>2. acks'[k] = acks[k + 1] /\ k + 1 \in 2 .. Len(acks) /\ k + 1 \in 1 .. Len(acks)
  BY <1>1
<1>3. \A j \in 1 .. k - 1 : acks'[j] = acks[j + 1] /\ j + 1 \in 1 .. (k + 1) - 1
  BY <1>1
<1> QED
  BY <1>2, <1>3 DEF Safe, AnswerFacts

-----------------------------------------------------------------------------
(* The steps of the sender and of the network. *)

LEMMA SendNewStep ==
  ASSUME Safe, SendNew, UNCHANGED receiverVars
  PROVE  /\ SenderFacts' /\ Between' /\ InFlight' /\ AnswerFacts' /\ ExitMeansDelivered'
         /\ offset' \in Nat /\ offset <= offset'
<1> DEFINE w == current_index_window
<1>1. /\ sender = "running" /\ MaySend
      /\ window' = [window EXCEPT ![w] = [seqnum |-> seqnum, payload |-> offset]]
      /\ data' = data \cup {[seqnum |-> seqnum, payload |-> offset]}
      /\ current_index_window' = w + 1
      /\ seqnum' = (seqnum + 1) % SeqSpace
      /\ offset' = offset + 1
      /\ UNCHANGED <<limited_window_size, sender, acks>>
  BY DEF SendNew
<1>2. finish' = (offset = FileLen)
  BY DEF SendNew, EndOfFile
<1>3. /\ offset \in 0 .. FileLen + 1 /\ w \in 0 .. MAX_WINDOW_SIZE /\ w <= offset
      /\ limited_window_size \in 0 .. MAX_WINDOW_SIZE /\ ~finish /\ offset # FileLen + 1
      /\ window \in [Slots -> Packet \cup {NULL}]
      /\ \A i \in 0 .. w - 1 : window[i] = PacketOf(Base + i)
      /\ seqnum = Wrap(offset)
  BY <1>1 DEF Safe, SenderFacts, MaySend
<1>4. w < MAX_WINDOW_SIZE /\ w \in Slots
  BY <1>1, <1>3, SeqNumAssumption DEF MaySend, Slots
<1>5. offset \in 0 .. FileLen /\ offset + 1 \in 0 .. FileLen + 1 /\ offset \in Nat
  BY <1>3, WireAssumption
<1>6. Base' = Base /\ Base + w = offset /\ Base \in Nat
  BY <1>1, <1>3, <1>5 DEF Base
<1>7. [seqnum |-> seqnum, payload |-> offset] = PacketOf(offset) /\ PacketOf(offset) \in Packet
  BY <1>3, <1>5, PacketOfType DEF PacketOf
<1>8. seqnum' = Wrap(offset + 1)
  <2>1. 1 \in 0 .. SeqSpace - 1
    BY SeqNumAssumption
  <2> QED
    BY <1>1, <1>3, <1>5, <2>1, WrapWrap DEF Wrap
<1> HIDE DEF w
<1>9. window' \in [Slots -> Packet \cup {NULL}]
      /\ \A i \in 0 .. w : window'[i] = PacketOf(Base + i)
  <2>1. window' = [window EXCEPT ![w] = PacketOf(offset)]
    BY <1>1, <1>7
  <2>2. \A i \in 0 .. w : i \in Slots
    BY <1>3, <1>4, SeqNumAssumption DEF Slots
  <2>3. window'[w] = PacketOf(offset) /\ \A i \in 0 .. w : i # w => window'[i] = window[i]
    BY <1>3, <1>4, <2>1, <2>2
  <2>4. \A i \in 0 .. w : i # w => i \in 0 .. w - 1
    BY <1>3
  <2> QED
    BY <1>3, <1>4, <1>6, <1>7, <2>1, <2>3, <2>4
<1>10. finish' \in BOOLEAN /\ (finish' <=> offset + 1 = FileLen + 1)
  <2>1. offset = FileLen <=> offset + 1 = FileLen + 1
    BY <1>5, WireAssumption
  <2> QED
    BY <1>2, <2>1, Zenon
<1>11. w + 1 \in 0 .. MAX_WINDOW_SIZE /\ w + 1 <= offset + 1 /\ (w + 1) - 1 = w
  BY <1>3, <1>4, <1>5, SeqNumAssumption
<1>12. SenderFacts'
  BY <1>1, <1>3, <1>5, <1>6, <1>8, <1>9, <1>10, <1>11 DEF SenderFacts, w
<1>13. Count' = Count /\ Count \in Nat
  BY AnswerTypes DEF Count, receiverVars
<1>14. Between'
  BY <1>1, <1>5, <1>6, <1>13 DEF Safe, Between
<1>15. InFlight'
  <2>1. ASSUME NEW p \in data' PROVE \E c \in 0 .. (offset + 1) - 1 : p = PacketOf(c)
    <3>1. CASE p \in data
      BY <1>5, <3>1 DEF Safe, InFlight
    <3>2. CASE p = PacketOf(offset)
      BY <1>5, <3>2
    <3> QED
      BY <1>1, <1>7, <3>1, <3>2
  <2> QED
    BY <1>1, <2>1 DEF InFlight
<1>16. offset' \in Nat /\ offset <= offset'
  BY <1>1, <1>5
<1>17. AnswerFacts'
  BY <1>1, <1>6, <1>13, <1>16, AnswersKept
<1>18. ExitMeansDelivered'
  BY <1>1 DEF ExitMeansDelivered
<1> QED
  BY <1>12, <1>14, <1>15, <1>16, <1>17, <1>18

(* A step that leaves the sender's own variables alone. *)
LEMMA SenderUnchanged ==
  ASSUME Safe, UNCHANGED senderVars
  PROVE  /\ SenderFacts' /\ Base' = Base /\ offset' = offset
         /\ sender' = sender /\ offset \in Nat
<1>1. /\ seqnum' = seqnum /\ window' = window /\ offset' = offset /\ finish' = finish
      /\ current_index_window' = current_index_window
      /\ limited_window_size' = limited_window_size /\ sender' = sender
  BY DEF senderVars
<1>2. SenderFacts'
  BY <1>1 DEF Safe, SenderFacts, Base
<1> QED
  BY <1>1, <1>2 DEF Base, Safe, SenderFacts

LEMMA SelectFailsStep ==
  ASSUME Safe, SelectFails, UNCHANGED receiverVars
  PROVE  SenderFacts' /\ Between' /\ InFlight' /\ AnswerFacts' /\ ExitMeansDelivered'
<1>1. /\ sender' = "failed" /\ acks' = acks /\ data' = data
      /\ UNCHANGED <<seqnum, window, current_index_window, limited_window_size, finish, offset>>
  BY DEF SelectFails
<1>2. SenderFacts' /\ Base' = Base /\ offset' = offset /\ offset \in Nat
  BY <1>1, AnswerTypes DEF Safe, SenderFacts, Base
<1>3. Count' = Count /\ written' = written
  BY DEF Count, receiverVars
<1>4. AnswerFacts'
  BY <1>1, <1>2, <1>3, AnswersKept
<1>5. Between' /\ InFlight' /\ ExitMeansDelivered'
  BY <1>1, <1>2, <1>3 DEF Safe, Between, InFlight, ExitMeansDelivered
<1> QED
  BY <1>2, <1>4, <1>5

LEMMA RetransmitStep ==
  ASSUME Safe, NEW i \in Slots, Retransmit(i), UNCHANGED receiverVars
  PROVE  SenderFacts' /\ Between' /\ InFlight' /\ AnswerFacts' /\ ExitMeansDelivered'
<1>1. UNCHANGED senderVars /\ acks' = acks /\ data' = data \cup {window[i]}
      /\ i \in 0 .. current_index_window - 1
  BY DEF Retransmit, Scanned
<1>2. SenderFacts' /\ Base' = Base /\ offset' = offset /\ sender' = sender /\ offset \in Nat
  BY <1>1, SenderUnchanged
<1>3. Count' = Count /\ written' = written
  BY DEF Count, receiverVars
<1>4. InFlight'
  BY <1>1, <1>2, SentAgain
<1>5. AnswerFacts'
  BY <1>1, <1>2, <1>3, AnswersKept
<1>6. Between' /\ ExitMeansDelivered'
  BY <1>2, <1>3 DEF Safe, Between, ExitMeansDelivered
<1> QED
  BY <1>2, <1>4, <1>5, <1>6

(* What is known of the answer that the sender reads. *)
LEMMA AnswerRead ==
  ASSUME Safe, ReceiveAnswer(1)
  PROVE  /\ acks # <<>> /\ acks' = Tail(acks) /\ sender = "running"
         /\ acks[1] \in Control /\ acks[1].seqnum = Wrap(acks[1].chunk)
         /\ acks[1].chunk \in Nat /\ Base <= acks[1].chunk
         /\ acks[1].type = "ACK" => acks[1].chunk <= Count
         /\ acks[1].type = "NACK" => acks[1].chunk <= offset - 1
         /\ \A k \in 2 .. Len(acks) : /\ Base <= acks[k].chunk
                                      /\ acks[1].type = "ACK" => acks[1].chunk <= acks[k].chunk
<1>1. acks # <<>> /\ acks' = Tail(acks) /\ sender = "running" /\ 1 \in 1 .. Len(acks)
  BY AnswerTypes, FirstAnswer DEF ReceiveAnswer
<1>2. \A k \in 2 .. Len(acks) : k \in 1 .. Len(acks) /\ 1 \in 1 .. k - 1
  BY AnswerTypes
<1> QED
  BY <1>1, <1>2, AnswerTypes DEF Safe, AnswerFacts

(* An ACK for chunk c makes c the oldest chunk of the window. *)
LEMMA AckStep ==
  ASSUME Safe, ReceiveAnswer(1), ReceiveAck(acks[1]), UNCHANGED receiverVars
  PROVE  SenderFacts' /\ Between' /\ InFlight' /\ AnswerFacts' /\ ExitMeansDelivered'
<1> DEFINE c == acks[1].chunk
           w == current_index_window
           b == Base
<1>1. /\ acks[1].type = "ACK" /\ acks[1].seqnum = Wrap(c) /\ c \in Nat
      /\ b <= c /\ c <= Count /\ acks # <<>> /\ acks' = Tail(acks)
      /\ acks[1].window \in 0 .. MAX_WINDOW_SIZE
      /\ \A k \in 2 .. Len(acks) : c <= acks[k].chunk
  BY AnswerRead DEF ReceiveAck, Control
<1>2. /\ offset \in 0 .. FileLen + 1 /\ offset \in Nat /\ w \in 0 .. MAX_WINDOW_SIZE /\ w <= offset
      /\ window \in [Slots -> Packet \cup {NULL}] /\ b = offset - w
      /\ finish \in BOOLEAN /\ (finish <=> offset = FileLen + 1) /\ seqnum = Wrap(offset)
      /\ \A i \in 0 .. w - 1 : window[i] = PacketOf(b + i)
      /\ Count \in Nat /\ Count <= offset
  BY AnswerTypes DEF Safe, SenderFacts, Between, Base
<1>3. c <= offset
  BY <1>1, <1>2
<1>4. Position(acks[1].seqnum - 1) = c - b - 1
  BY <1>1, <1>3, AckPosition DEF Safe
<1>5. c - b - 1 >= -1
  BY <1>1, <1>2
<1>6. /\ limited_window_size' = acks[1].window
      /\ window' = modify_buffer(c - b - 1, w - 1)
      /\ current_index_window' = (w - 1) - (c - b - 1)
      /\ sender' = IF w - 1 = c - b - 1 /\ finish THEN "exited" ELSE "running"
      /\ UNCHANGED <<seqnum, finish, offset, data>>
  BY <1>4, <1>5 DEF ReceiveAck
<1> HIDE DEF c, w, b
<1>7. (w - 1) - (c - b - 1) = offset - c /\ offset - (offset - c) = c
      /\ offset - c \in 0 .. MAX_WINDOW_SIZE /\ offset - c <= offset
  BY <1>1, <1>2, <1>3, SeqNumAssumption
<1>8. current_index_window' = offset - c /\ Base' = c
  BY <1>6, <1>7 DEF Base
<1>9. /\ window' \in [Slots -> Packet \cup {NULL}]
      /\ \A i \in 0 .. (offset - c) - 1 : window'[i] = PacketOf(c + i)
  <2>1. ASSUME NEW i \in Slots, i < offset - c
        PROVE  /\ i + (c - b - 1) + 1 \in Slots /\ i + (c - b - 1) + 1 \in 0 .. w - 1
               /\ b + (i + (c - b - 1) + 1) = c + i
    BY <1>1, <1>2, <2>1, SeqNumAssumption DEF Slots
  <2>2. window' = [i \in Slots |-> IF i < offset - c THEN window[i + (c - b - 1) + 1]
                                   ELSE IF i <= w - 1 THEN NULL ELSE window[i]]
    BY <1>6, <1>7 DEF modify_buffer
  <2>3. window' \in [Slots -> Packet \cup {NULL}]
    BY <1>2, <2>1, <2>2
  <2>4. ASSUME NEW i \in 0 .. (offset - c) - 1 PROVE window'[i] = PacketOf(c + i)
    <3>1. i \in Slots /\ i < offset - c
      BY <1>7, SeqNumAssumption DEF Slots
    <3>2. window'[i] = window[i + (c - b - 1) + 1]
      BY <2>2, <3>1
    <3> QED
      BY <1>2, <2>1, <3>1, <3>2
  <2> QED
    BY <2>3, <2>4
<1>10. SenderFacts'
  <2>1. sender' \in {"running", "exited"}
    BY <1>6
  <2> QED
    BY <1>1, <1>2, <1>6, <1>7, <1>8, <1>9, <2>1 DEF SenderFacts
<1>11. Count' = Count /\ written' = written
  BY DEF Count, receiverVars
<1>12. Between'
  BY <1>1, <1>2, <1>6, <1>8, <1>11 DEF Between
<1>13. InFlight'
  BY <1>6 DEF Safe, InFlight
<1>14. AnswerFacts'
  BY <1>1, <1>6, <1>8, <1>11, AnswerTaken
<1>15. ExitMeansDelivered'
  <2>1. ASSUME sender' = "exited" PROVE Count = FileLen + 1
    <3>1. w - 1 = c - b - 1 /\ finish
      BY <1>6, <2>1, Zenon
    <3>2. offset = c
      BY <1>1, <1>2, <3>1
    <3> QED
      BY <1>1, <1>2, <3>1, <3>2, WireAssumption
  <2> QED
    BY <1>11, <2>1 DEF ExitMeansDelivered, Count
<1> QED
  BY <1>10, <1>12, <1>13, <1>14, <1>15

(* A NACK names a packet of the window, which is sent again. *)
LEMMA NackStep ==
  ASSUME Safe, ReceiveAnswer(1), ReceiveNack(acks[1]), UNCHANGED receiverVars
  PROVE  SenderFacts' /\ Between' /\ InFlight' /\ AnswerFacts' /\ ExitMeansDelivered'
<1> DEFINE c == acks[1].chunk
<1>1. /\ acks[1].type = "NACK" /\ acks[1].seqnum = Wrap(c) /\ c \in Nat
      /\ Base <= c /\ c <= offset - 1 /\ acks # <<>> /\ acks' = Tail(acks)
      /\ acks[1].window \in 0 .. MAX_WINDOW_SIZE
      /\ \A k \in 2 .. Len(acks) : Base <= acks[k].chunk
  BY AnswerRead DEF ReceiveNack, Control
<1>2. offset \in Nat /\ c < offset /\ offset - Base = current_index_window
  BY <1>1, AnswerTypes DEF Safe, SenderFacts, Base
<1>3. Position(acks[1].seqnum) = c - Base
  BY <1>1, <1>2, NackPosition DEF Safe
<1>4. c - Base \in 0 .. current_index_window - 1
  <2>1. Base \in Nat /\ c \in Nat /\ Base <= c
    BY <1>1, AnswerTypes
  <2> HIDE DEF c
  <2> QED
    BY <1>2, <2>1
<1>5. /\ limited_window_size' = acks[1].window
      /\ data' = data \cup {window[c - Base]} /\ sender' = sender
      /\ UNCHANGED <<seqnum, window, current_index_window, finish, offset>>
  BY <1>3, <1>4 DEF ReceiveNack
<1> HIDE DEF c
<1>6. SenderFacts' /\ Base' = Base
  BY <1>1, <1>5 DEF Safe, SenderFacts, Base
<1>7. Count' = Count /\ written' = written
  BY DEF Count, receiverVars
<1>8. InFlight'
  BY <1>4, <1>5, SentAgain
<1>9. AnswerFacts'
  BY <1>1, <1>5, <1>6, <1>7, AnswerTaken
<1>10. Between' /\ ExitMeansDelivered'
  BY <1>5, <1>6, <1>7 DEF Safe, Between, ExitMeansDelivered
<1> QED
  BY <1>6, <1>8, <1>9, <1>10

LEMMA LoseAnswerStep ==
  ASSUME Safe, LoseAnswer
  PROVE  SenderFacts' /\ Between' /\ InFlight' /\ AnswerFacts' /\ ExitMeansDelivered'
<1>1. acks # <<>> /\ acks' = Tail(acks) /\ UNCHANGED <<senderVars, receiverVars, data>>
  BY DEF LoseAnswer
<1>2. SenderFacts' /\ Base' = Base /\ offset' = offset /\ sender' = sender
  BY <1>1, SenderUnchanged
<1>3. Count' = Count /\ written' = written
  BY <1>1 DEF Count, receiverVars
<1>4. \A k \in 2 .. Len(acks) : k \in 1 .. Len(acks)
  BY AnswerTypes
<1>5. AnswerFacts'
  <2>1. \A k \in 2 .. Len(acks) : Base' <= acks[k].chunk
    BY <1>2, <1>4 DEF Safe, AnswerFacts
  <2> QED
    BY <1>1, <1>2, <1>3, <2>1, AnswerTaken
<1>6. InFlight' /\ Between' /\ ExitMeansDelivered'
  BY <1>1, <1>2, <1>3 DEF Safe, InFlight, Between, ExitMeansDelivered
<1> QED
  BY <1>2, <1>5, <1>6

LEMMA LosePacketStep ==
  ASSUME Safe, NEW p \in data, LosePacket(p)
  PROVE  SenderFacts' /\ Between' /\ InFlight' /\ AnswerFacts' /\ ExitMeansDelivered'
<1>1. data' = data \ {p} /\ acks' = acks /\ UNCHANGED senderVars /\ UNCHANGED receiverVars
  BY DEF LosePacket
<1>2. SenderFacts' /\ Base' = Base /\ offset' = offset /\ sender' = sender /\ offset \in Nat
  BY <1>1, SenderUnchanged
<1>3. Count' = Count /\ written' = written
  BY <1>1 DEF Count, receiverVars
<1>4. AnswerFacts'
  BY <1>1, <1>2, <1>3, AnswersKept
<1>5. InFlight' /\ Between' /\ ExitMeansDelivered'
  BY <1>1, <1>2, <1>3 DEF Safe, InFlight, Between, ExitMeansDelivered
<1> QED
  BY <1>2, <1>4, <1>5

-----------------------------------------------------------------------------
(* The delivery of a packet. *)

(* A packet of the receiver's window is at or after the chunk it expects.  *)
LEMMA Arrived ==
  ASSUME Safe, NEW p \in data, Fresh(p)
  PROVE  /\ p \in Packet /\ p.payload \in 0 .. offset - 1 /\ p = PacketOf(p.payload)
         /\ p.seqnum = Wrap(p.payload)
         /\ InWindow(p.seqnum) => Count <= p.payload
         /\ InWindow(p.seqnum) /\ p.seqnum = Expected => p.payload = Count
<1> DEFINE c == p.payload
<1>1. /\ p \in Packet /\ c \in 0 .. offset - 1 /\ p = PacketOf(c) /\ p.seqnum = Wrap(c)
  BY InFlightTypes DEF Safe
<1>2. offset \in Nat /\ Count \in Nat /\ c \in Nat /\ Count - c <= MaxLag
  BY <1>1, AnswerTypes DEF Fresh, Count
<1>3. c - Count < MAX_WINDOW_SIZE
  BY <1>1, <1>2, SeqNumAssumption DEF Safe, SenderFacts, Between, Base
<1> HIDE DEF c
<1>4. Dist(lastack, p.seqnum) = IF c >= Count THEN c - Count ELSE c - Count + SeqSpace
  BY <1>1, <1>2, <1>3, ChunkDist DEF Safe
<1>5. Offset(p.seqnum) = Dist(lastack, p.seqnum)
  BY DEF Offset, Dist, Expected
<1>6. InWindow(p.seqnum) => Count <= c
  BY <1>2, <1>4, <1>5, SeqNumAssumption, TransferAssumption DEF InWindow
<1>7. InWindow(p.seqnum) /\ p.seqnum = Expected => c = Count
  <2> SUFFICES ASSUME InWindow(p.seqnum), p.seqnum = Expected PROVE c = Count
    OBVIOUS
  <2>1. lastack \in SeqNums /\ Expected = Wrap(lastack + 1 + 0) /\ 0 \in 0 .. SeqSpace - 1
    BY InvFacts, SeqNumAssumption DEF Safe, Expected, Wrap, SeqNums
  <2>2. Dist(lastack, p.seqnum) = 0
    BY <2>1, DistAt
  <2> QED
    BY <1>2, <1>4, <1>6, <2>2
<1> QED
  BY <1>1, <1>6, <1>7 DEF c

(* Answers that the receiver adds. *)
LEMMA AnswersAdded ==
  ASSUME Safe, NEW t \in Seq(Control), acks' = acks \o t,
         offset' = offset, Base' = Base, Count' \in Nat, Count <= Count',
         \A k \in 1 .. Len(t) :
           /\ t[k].seqnum = Wrap(t[k].chunk)
           /\ Count <= t[k].chunk
           /\ t[k].type = "ACK" => t[k].chunk <= Count'
           /\ t[k].type = "NACK" => t[k].chunk <= offset - 1
           /\ \A j \in 1 .. k - 1 : t[j].type = "ACK" => t[j].chunk <= t[k].chunk
  PROVE  AnswerFacts'
<1> DEFINE N == Len(acks)
           n == Count'
<1>1. /\ N \in Nat /\ Base \in Nat /\ Count \in Nat /\ n \in Nat /\ Count <= n
      /\ Base <= Count /\ Len(t) \in Nat
      /\ \A k \in 1 .. N : acks[k].chunk \in Nat
      /\ \A k \in 1 .. Len(t) : t[k].chunk \in Nat
  <2>1. \A k \in 1 .. Len(t) : t[k] \in Control
    OBVIOUS
  <2>2. \A k \in 1 .. Len(t) : t[k].chunk \in Nat
    BY <2>1 DEF Control
  <2>3. Base <= Count
    BY DEF Safe, Between
  <2>4. Len(t) \in Nat
    OBVIOUS
  <2> QED
    BY <2>2, <2>3, <2>4, AnswerTypes
<1>2. /\ Len(acks') = N + Len(t)
      /\ \A k \in 1 .. N + Len(t) : acks'[k] = IF k <= N THEN acks[k] ELSE t[k - N]
  BY AnswerTypes, ConcatProperties
<1>3. \A k \in 1 .. N :
        /\ acks[k].seqnum = Wrap(acks[k].chunk)
        /\ Base <= acks[k].chunk
        /\ acks[k].type = "ACK" => acks[k].chunk <= Count
        /\ acks[k].type = "NACK" => acks[k].chunk <= offset - 1
        /\ \A j \in 1 .. k - 1 : acks[j].type = "ACK" => acks[j].chunk <= acks[k].chunk
  BY DEF Safe, AnswerFacts
<1>4. \A k \in 1 .. Len(t) :
        /\ t[k].seqnum = Wrap(t[k].chunk)
        /\ Count <= t[k].chunk
        /\ t[k].type = "ACK" => t[k].chunk <= n
        /\ t[k].type = "NACK" => t[k].chunk <= offset - 1
        /\ \A j \in 1 .. k - 1 : t[j].type = "ACK" => t[j].chunk <= t[k].chunk
  OBVIOUS
<1> HIDE DEF N, n
<1>5. ASSUME NEW k \in 1 .. N + Len(t)
      PROVE  /\ acks'[k].seqnum = Wrap(acks'[k].chunk)
             /\ Base <= acks'[k].chunk
             /\ acks'[k].type = "ACK" => acks'[k].chunk <= n
             /\ acks'[k].type = "NACK" => acks'[k].chunk <= offset - 1
             /\ \A j \in 1 .. k - 1 : acks'[j].type = "ACK" => acks'[j].chunk <= acks'[k].chunk
  <2>1. CASE k <= N
    <3>1. k \in 1 .. N /\ acks'[k] = acks[k] /\ \A j \in 1 .. k - 1 : acks'[j] = acks[j]
      BY <1>1, <1>2, <2>1
    <3>2. \A j \in 1 .. k - 1 : acks[j].type = "ACK" => acks[j].chunk <= acks[k].chunk
      BY <1>3, <3>1
    <3>3. \A j \in 1 .. k - 1 : acks'[j].type = "ACK" => acks'[j].chunk <= acks'[k].chunk
      BY <3>1, <3>2
    <3>4. acks[k].chunk \in Nat /\ acks[k].seqnum = Wrap(acks[k].chunk) /\ Base <= acks[k].chunk
          /\ (acks[k].type = "ACK" => acks[k].chunk <= Count)
          /\ (acks[k].type = "NACK" => acks[k].chunk <= offset - 1)
      BY <1>1, <1>3, <3>1
    <3>5. acks[k].type = "ACK" => acks[k].chunk <= n
      BY <1>1, <3>4
    <3> QED
      BY <3>1, <3>3, <3>4, <3>5
  <2>2. CASE N < k
    <3> DEFINE m == k - N
    <3>1. m \in 1 .. Len(t) /\ acks'[k] = t[m]
      BY <1>1, <1>2, <2>2
    <3> HIDE DEF m
    <3>2. \A j \in 1 .. k - 1 : acks'[j].type = "ACK" => acks'[j].chunk <= acks'[k].chunk
      <4> SUFFICES ASSUME NEW j \in 1 .. k - 1, acks'[j].type = "ACK"
                   PROVE  acks'[j].chunk <= acks'[k].chunk
        OBVIOUS
      <4>1. CASE j <= N
        <5>1. j \in 1 .. N /\ acks'[j] = acks[j]
          BY <1>1, <1>2, <2>2, <4>1
        <5>2. acks[j].chunk \in Nat /\ acks[j].chunk <= Count
          BY <1>1, <1>3, <5>1
        <5>3. t[m].chunk \in Nat /\ Count <= t[m].chunk
          BY <1>1, <1>4, <3>1
        <5>4. Count \in Nat
          BY <1>1
        <5>5. acks[j].chunk <= t[m].chunk
          BY <5>2, <5>3, <5>4
        <5> QED
          BY <3>1, <5>1, <5>5
      <4>2. CASE N < j
        <5> DEFINE i == j - N
        <5>1. i \in 1 .. m - 1 /\ acks'[j] = t[i]
          BY <1>1, <1>2, <2>2, <4>2 DEF m
        <5> HIDE DEF i
        <5>2. \A h \in 1 .. m - 1 : t[h].type = "ACK" => t[h].chunk <= t[m].chunk
          BY <1>4, <3>1
        <5> QED
          BY <3>1, <5>1, <5>2
      <4>3. j <= N \/ N < j
        BY <1>1
      <4> QED
        BY <4>1, <4>2, <4>3, Zenon
    <3>3. t[m].chunk \in Nat /\ Count <= t[m].chunk /\ t[m].seqnum = Wrap(t[m].chunk)
          /\ (t[m].type = "ACK" => t[m].chunk <= n)
          /\ (t[m].type = "NACK" => t[m].chunk <= offset - 1)
      BY <1>1, <1>4, <3>1
    <3>4. Base <= t[m].chunk
      BY <1>1, <3>3
    <3> QED
      BY <3>1, <3>2, <3>3, <3>4
  <2>3. k <= N \/ N < k
    BY <1>1
  <2> QED
    BY <2>1, <2>2, <2>3, Zenon
<1> QED
  BY <1>2, <1>5 DEF AnswerFacts, n

(* The array of packets is refreshed already. *)
LEMMA Refreshed ==
  ASSUME Inv
  PROVE  refresh(receive_buffer) = receive_buffer
BY InvFacts, RefreshPacked, SeqNumAssumption

LEMMA NackSent ==
  ASSUME Safe, NEW p \in data, Fresh(p), NEW status, send_nack(status, p), UNCHANGED senderVars
  PROVE  AnswerFacts'
<1> DEFINE nack == [type |-> "NACK", seqnum |-> p.seqnum, window |-> window_size,
                    chunk |-> p.payload]
<1>1. /\ p \in Packet /\ p.payload \in 0 .. offset - 1 /\ p.seqnum = Wrap(p.payload)
      /\ Count <= p.payload
  BY Arrived DEF send_nack, NackDue
<1>2. nack \in Control
  BY <1>1, WireAssumption DEF Control, Packet, Chunk, Safe, Inv, ReceiverTypeOK
<1>3. acks' = acks \o <<nack>>
  BY <1>2, AnswerTypes DEF send_nack
<1>4. Count' = Count /\ Base' = Base /\ offset' = offset
  BY SenderUnchanged DEF send_nack, Count
<1>5. /\ nack.type = "NACK" /\ nack.seqnum = Wrap(nack.chunk) /\ Count <= nack.chunk
      /\ nack.chunk <= offset - 1
  BY <1>1, AnswerTypes
<1> HIDE DEF nack
<1>6. <<nack>> \in Seq(Control) /\ Len(<<nack>>) = 1
      /\ \A k \in 1 .. 1 : <<nack>>[k] = nack /\ 1 .. k - 1 = {}
  BY <1>2
<1>7. \A k \in 1 .. Len(<<nack>>) :
        /\ <<nack>>[k].seqnum = Wrap(<<nack>>[k].chunk)
        /\ Count <= <<nack>>[k].chunk
        /\ <<nack>>[k].type = "ACK" => <<nack>>[k].chunk <= Count'
        /\ <<nack>>[k].type = "NACK" => <<nack>>[k].chunk <= offset - 1
        /\ \A j \in 1 .. k - 1 : <<nack>>[j].type = "ACK" => <<nack>>[j].chunk <= <<nack>>[k].chunk
  BY <1>5, <1>6
<1>8. Count' \in Nat /\ Count <= Count'
  BY <1>4, AnswerTypes
<1> QED
  BY <1>3, <1>4, <1>6, <1>7, <1>8, AnswersAdded

(* A packet buffered is one that the receiver does not expect yet. *)
LEMMA BufferHolds ==
  ASSUME Safe, NEW p \in data, Fresh(p), NEW status, Buffer(status, p), UNCHANGED senderVars
  PROVE  Held'
<1>1. /\ p \in Packet /\ p.payload \in 0 .. offset - 1 /\ p = PacketOf(p.payload)
      /\ InWindow(p.seqnum) /\ p.seqnum # Expected /\ Count <= p.payload
  BY Arrived DEF Buffer
<1>2. Count' = Count /\ offset' = offset /\ Count \in Nat /\ offset \in Nat
  BY SenderUnchanged, AnswerTypes DEF Buffer, Count
<1>3. p.payload \in Count + 1 .. offset - 1
  <2>1. p.payload # Count
    <3>1. Expected = Wrap(Count)
      BY DEF Safe, Inv, WrittenInSequence, Count
    <3> QED
      BY <1>1, <3>1 DEF PacketOf
  <2> QED
    BY <1>1, <1>2, <2>1
<1>4. ASSUME NEW i \in Slots, receive_buffer'[i] # NULL
      PROVE  \E c \in Count + 1 .. offset - 1 : receive_buffer'[i] = PacketOf(c)
  <2>1. CASE Inserts(p)
    <3> DEFINE m == InsertPoint(p)
    <3>1. receive_buffer' = insert_pkt(p)
      BY <1>1, <2>1, BufferStep DEF Buffer, Safe
    <3>2. m \in 0 .. Buffered /\ Buffered \in 0 .. MAX_WINDOW_SIZE - 1
      BY <1>1, InsertionPlace, InvFacts DEF Safe
    <3>3. m \in Slots
      BY <3>2, SeqNumAssumption DEF Slots
    <3> HIDE DEF m
    <3>4. receive_buffer'[i] = p \/ \E j \in Slots : receive_buffer'[i] = receive_buffer[j]
      <4>1. CASE receive_buffer[m] = NULL
        <5>1. receive_buffer' = [receive_buffer EXCEPT ![m] = p]
          BY <3>1, <4>1 DEF insert_pkt, m
        <5> QED
          BY <3>3, <5>1, InvFacts DEF Safe, Buffers
      <4>2. CASE receive_buffer[m] # NULL
        <5>1. receive_buffer' = [j \in Slots |-> IF j < m THEN receive_buffer[j]
                                                 ELSE IF j = m THEN p ELSE receive_buffer[j - 1]]
          BY <3>1, <4>2 DEF insert_pkt, m
        <5>2. i < m \/ i = m \/ i - 1 \in Slots
          BY <3>3, SeqNumAssumption DEF Slots
        <5>3. CASE i < m
          BY <5>1, <5>3
        <5>4. CASE i = m
          BY <5>1, <5>4, <3>3, SeqNumAssumption DEF Slots
        <5>5. CASE m < i
          <6>1. ~(i < m) /\ i # m /\ i - 1 \in Slots
            BY <3>3, <5>5, SeqNumAssumption DEF Slots
          <6> QED
            BY <5>1, <6>1
        <5>6. i < m \/ i = m \/ m < i
          BY <3>3, SeqNumAssumption DEF Slots
        <5> QED
          BY <5>3, <5>4, <5>5, <5>6
      <4> QED
        BY <4>1, <4>2
    <3> QED
      BY <1>1, <1>3, <1>4, <3>4 DEF Safe, Held
  <2>2. CASE ~Inserts(p)
    <3>1. receive_buffer' = receive_buffer
      BY <2>2, Refreshed DEF Buffer, Safe
    <3> QED
      BY <1>4, <3>1 DEF Safe, Held
  <2> QED
    BY <2>1, <2>2
<1> QED
  BY <1>2, <1>4 DEF Held

(* The packets drained are those of the chunks that follow. *)
LEMMA Drained ==
  ASSUME Safe, NEW i \in 1 .. Run
  PROVE  /\ receive_buffer[i - 1] = PacketOf(Count + i) /\ Count + i <= offset - 1
<1>1. /\ lastack \in SeqNums /\ Run \in 0 .. Buffered /\ Buffered \in 0 .. MAX_WINDOW_SIZE - 1
      /\ \A j \in 0 .. Run - 1 : Follows(j)
  BY InvFacts, RunStops DEF Safe
<1>2. offset \in Nat /\ Count \in Nat /\ offset - Count <= MAX_WINDOW_SIZE
  BY AnswerTypes, SeqNumAssumption DEF Safe, SenderFacts, Between, Base
<1>3. /\ i - 1 \in Slots /\ i - 1 \in 0 .. Run - 1 /\ i \in 0 .. SeqSpace - 1
      /\ lastack + 2 + (i - 1) = lastack + 1 + i
  BY <1>1, SeqNumAssumption DEF Slots, SeqNums
<1>4. receive_buffer[i - 1] # NULL /\ receive_buffer[i - 1].seqnum = (lastack + 1 + i) % SeqSpace
  BY <1>1, <1>3 DEF Follows
<1>5. (lastack + 1 + i) % SeqSpace = Wrap(Count + i)
  BY <1>3, NextNumbers DEF Safe, Count
<1>6. PICK c \in Count + 1 .. offset - 1 : receive_buffer[i - 1] = PacketOf(c)
  BY <1>3, <1>4 DEF Safe, Held
<1>7. Wrap(c) = Wrap(Count + i)
  BY <1>4, <1>5, <1>6 DEF PacketOf
<1>8. c \in Nat /\ Count + i \in Nat /\ c - (Count + i) < SeqSpace /\ (Count + i) - c < SeqSpace
  BY <1>1, <1>2, SeqNumAssumption
<1>9. c = Count + i
  <2>1. CASE c <= Count + i
    <3>1. \/ Wrap(Count + i) - Wrap(c) = (Count + i) - c
          \/ Wrap(Count + i) - Wrap(c) = (Count + i) - c - SeqSpace
      BY <1>8, <2>1, WrapDifference
    <3>2. Wrap(c) \in SeqNums
      BY <1>8, WrapType
    <3> QED
      BY <1>7, <1>8, <3>1, <3>2, SeqNumAssumption DEF SeqNums
  <2>2. CASE Count + i <= c
    <3>1. \/ Wrap(c) - Wrap(Count + i) = c - (Count + i)
          \/ Wrap(c) - Wrap(Count + i) = c - (Count + i) - SeqSpace
      BY <1>8, <2>2, WrapDifference
    <3>2. Wrap(c) \in SeqNums
      BY <1>8, WrapType
    <3> QED
      BY <1>7, <1>8, <3>1, <3>2, SeqNumAssumption DEF SeqNums
  <2> QED
    BY <1>8, <2>1, <2>2
<1> QED
  BY <1>6, <1>9

(* The chunks written are the next ones of the file. *)
LEMMA WrittenInOrder ==
  ASSUME Safe, NEW p \in data, Fresh(p), NEW status, WriteExpected(status, p)
  PROVE  /\ InOrderDelivery' /\ Count' = Count + 1 + Run /\ Count + 1 + Run <= offset
         /\ Run \in 0 .. MAX_WINDOW_SIZE - 1 /\ Count < offset
<1> DEFINE k == Run
           N == Count
           drained == [i \in 1 .. k |-> receive_buffer[i - 1]]
<1>1. p \in Packet /\ p.payload = N /\ N \in 0 .. offset - 1
  BY Arrived DEF WriteExpected
<1>2. k \in 0 .. MAX_WINDOW_SIZE - 1 /\ N \in Nat /\ offset \in Nat /\ written \in Seq(Packet)
  BY RunStops, InvFacts, AnswerTypes, SeqNumAssumption DEF Safe, Inv, ReceiverTypeOK
<1>3. ASSUME NEW i \in 1 .. k
      PROVE  /\ receive_buffer[i - 1] \in Packet /\ receive_buffer[i - 1].payload = N + i
             /\ N + i <= offset - 1
  <2>1. receive_buffer[i - 1] = PacketOf(N + i) /\ N + i <= offset - 1
    BY Drained
  <2>2. N + i \in 0 .. FileLen
    BY <1>2, <2>1, WireAssumption DEF Safe, SenderFacts
  <2> QED
    BY <2>1, <2>2, PacketOfType DEF PacketOf
<1>4. written' = written \o <<p>> \o drained
  BY DEF WriteExpected
<1>5. drained \in Seq(Packet) /\ Len(drained) = k
        /\ \A i \in 1 .. k : drained[i].payload = N + i
  <2>1. \A i \in 1 .. k : receive_buffer[i - 1] \in Packet
    BY <1>3
  <2>2. \A i \in 1 .. k : receive_buffer[i - 1].payload = N + i
    BY <1>3
  <2>3. drained \in Seq(Packet) /\ Len(drained) = k
    BY <1>2, <2>1
  <2> QED
    BY <2>2, <2>3
<1>6. N + 1 + k <= offset
  <2>1. CASE k = 0
    BY <1>1, <1>2, <2>1
  <2>2. CASE k # 0
    <3>1. k \in 1 .. k
      BY <1>2, <2>2
    <3>2. N + k <= offset - 1
      BY <1>3, <3>1
    <3> QED
      BY <1>2, <3>2
  <2> QED
    BY <2>1, <2>2
<1>10. N = Len(written) /\ N = Count
  BY DEF Count
<1> HIDE DEF drained, k, N
<1>7. <<p>> \in Seq(Packet) /\ Len(<<p>>) = 1
  BY <1>1
<1>8. /\ written \o <<p>> \in Seq(Packet) /\ Len(written \o <<p>>) = N + 1
      /\ \A i \in 1 .. N + 1 : (written \o <<p>>)[i] = IF i <= N THEN written[i] ELSE p
  <2>1. written \in Seq(Packet) /\ Len(written) = N /\ N \in Nat
    BY <1>2, <1>10
  <2>2. /\ written \o <<p>> \in Seq(Packet) /\ Len(written \o <<p>>) = Len(written) + Len(<<p>>)
        /\ \A i \in 1 .. Len(written) + Len(<<p>>) :
             (written \o <<p>>)[i] = IF i <= Len(written) THEN written[i]
                                      ELSE <<p>>[i - Len(written)]
    BY <1>7, <2>1, ConcatProperties, Zenon
  <2>3. \A i \in 1 .. N + 1 : i <= N \/ i - N = 1
    BY <2>1
  <2> QED
    BY <1>7, <2>1, <2>2, <2>3
<1>9. Len(written') = N + 1 + k
      /\ \A i \in 1 .. N + 1 + k : written'[i] = IF i <= N + 1 THEN (written \o <<p>>)[i]
                                                 ELSE drained[i - (N + 1)]
  <2> DEFINE head == written \o <<p>>
  <2>1. written' = head \o drained /\ head \in Seq(Packet) /\ drained \in Seq(Packet)
    BY <1>4, <1>5, <1>8
  <2>2. Len(head) = N + 1 /\ Len(drained) = k
    BY <1>5, <1>8
  <2> HIDE DEF head
  <2>3. /\ Len(head \o drained) = Len(head) + Len(drained)
        /\ \A i \in 1 .. Len(head) + Len(drained) :
             (head \o drained)[i] = IF i <= Len(head) THEN head[i] ELSE drained[i - Len(head)]
    BY <2>1, ConcatProperties, Zenon
  <2> QED
    BY <2>1, <2>2, <2>3 DEF head
<1>11. ASSUME NEW i \in 1 .. N + 1 + k PROVE written'[i].payload = i - 1
  <2>1. CASE i <= N
    <3>1. written'[i] = written[i] /\ i \in 1 .. N
      BY <1>2, <1>8, <1>9, <2>1
    <3> QED
      BY <1>10, <3>1 DEF Safe, InOrderDelivery
  <2>2. CASE i = N + 1
    <3>1. written'[i] = p
      BY <1>2, <1>8, <1>9, <2>2
    <3> QED
      BY <1>1, <1>2, <2>2, <3>1
  <2>3. CASE N + 1 < i
    <3>1. written'[i] = drained[i - (N + 1)] /\ i - (N + 1) \in 1 .. k
      BY <1>2, <1>9, <2>3
    <3>2. written'[i].payload = N + (i - (N + 1))
      BY <1>5, <3>1
    <3> QED
      BY <1>2, <3>2
  <2>4. i <= N \/ i = N + 1 \/ N + 1 < i
    BY <1>2
  <2> QED
    BY <2>1, <2>2, <2>3, <2>4, Zenon
<1>12. InOrderDelivery'
  BY <1>9, <1>11 DEF InOrderDelivery
<1>13. Count' = N + 1 + k
  BY <1>9 DEF Count
<1> QED
  BY <1>1, <1>2, <1>6, <1>12, <1>13, <1>10 DEF k

(* What stays in the buffer is ahead of what has been written. *)
LEMMA WriteHolds ==
  ASSUME Safe, NEW p \in data, Fresh(p), NEW status, WriteExpected(status, p), UNCHANGED senderVars
  PROVE  Held'
<1> DEFINE k == Run
           n == Buffered
           b == receive_buffer
           e == [i \in Slots |-> IF i < k THEN NULL ELSE b[i]]
<1>1. /\ lastack \in SeqNums /\ b \in Buffers /\ n \in 0 .. MAX_WINDOW_SIZE - 1
      /\ k \in 0 .. n /\ \A i \in Slots : b[i] # NULL <=> i < n
  BY InvFacts, RunStops DEF Safe, Packed
<1>2. Ordered(b, lastack)
  BY InvFacts DEF Safe
<1>3. receive_buffer' = [j \in Slots |-> IF j + k \in Slots THEN e[j + k] ELSE NULL]
  <2>1. e \in Buffers
    BY <1>1 DEF Buffers
  <2>2. \A i \in Slots : e[i] # NULL <=> k <= i /\ i < n
    BY <1>1, SeqNumAssumption DEF Slots
  <2>3. k \in 0 .. MAX_WINDOW_SIZE /\ n \in k .. MAX_WINDOW_SIZE
    BY <1>1, SeqNumAssumption
  <2>4. receive_buffer' = refresh(e)
    BY DEF WriteExpected
  <2> HIDE DEF e
  <2> QED
    BY <2>1, <2>2, <2>3, <2>4, RefreshShifts
<1>4. Ordered(receive_buffer', lastack') /\ lastack' = Wrap(lastack + (k + 1))
  <2>1. lastack + 1 + k = lastack + (k + 1)
    BY <1>1 DEF SeqNums
  <2> QED
    BY <2>1, DrainStep DEF Safe, WriteExpected, Wrap
<1>5. Count' = Count + 1 + k /\ Count \in Nat /\ offset' = offset /\ offset \in Nat
  BY WrittenInOrder, AnswerTypes, SenderUnchanged
<1>6. ASSUME NEW j \in Slots, receive_buffer'[j] # NULL
      PROVE  \E c \in Count + 1 + k + 1 .. offset - 1 : receive_buffer'[j] = PacketOf(c)
  <2>1. j + k \in Slots /\ receive_buffer'[j] = e[j + k]
    BY <1>3, <1>6
  <2>2. e[j + k] = b[j + k] /\ b[j + k] # NULL
    BY <1>6, <2>1
  <2>3. PICK c \in Count + 1 .. offset - 1 : b[j + k] = PacketOf(c)
    BY <2>1, <2>2 DEF Safe, Held
  <2> DEFINE s == b[j + k].seqnum
             d == Dist(lastack, s)
  <2>4. s = Wrap(c) /\ s \in SeqNums /\ d \in 0 .. SeqSpace - 1
    BY <1>1, <2>1, <2>2, <2>3, BufferedDist DEF PacketOf
  <2>5. d = c - Count
    <3>1. c \in Nat /\ Count - c <= MaxLag /\ c - Count < MAX_WINDOW_SIZE /\ c >= Count
      BY <1>5, SeqNumAssumption, TransferAssumption DEF Safe, SenderFacts, Between, Base
    <3> QED
      BY <2>4, <3>1, ChunkDist DEF Safe
  <2>6. j + k + 1 <= d
    BY <1>2, <2>1, <2>2 DEF Ordered
  <2>7. j + 1 <= Dist(lastack', s)
    BY <1>4, <1>6, <2>1, <2>2 DEF Ordered
  <2> HIDE DEF d, s, e
  <2>8. k + 1 \in 0 .. SeqSpace - 1 /\ k + 1 <= d
    BY <1>1, <2>4, <2>6, SeqNumAssumption DEF Slots
  <2>9. Dist(lastack', s) = d - (k + 1)
    BY <1>1, <1>4, <2>4, <2>8, DistMove DEF d
  <2>10. j + 1 <= c - Count - (k + 1)
    BY <2>5, <2>7, <2>9
  <2>11. c \in Count + 1 + k + 1 .. offset - 1
    BY <1>1, <1>5, <2>10 DEF Slots
  <2> QED
    BY <2>1, <2>2, <2>3, <2>11
<1> HIDE DEF k
<1>7. Held'
  BY <1>5, <1>6 DEF Held
<1> QED
  BY <1>7

(* An ACK follows each drained packet, and a last one the drain. *)
LEMMA WriteAnswers ==
  ASSUME Safe, NEW p \in data, Fresh(p), NEW status, WriteExpected(status, p), UNCHANGED senderVars
  PROVE  AnswerFacts'
<1> DEFINE k == Run
           N == Count
           drain == [i \in 1 .. k |-> send_ack(i, window_size + i)]
           last == <<send_ack(k, window_size + k)>>
           t == drain \o last
<1>1. k \in 0 .. MAX_WINDOW_SIZE - 1 /\ Count' = N + 1 + k /\ N \in Nat
  BY WrittenInOrder, AnswerTypes
<1>2. acks' = acks \o drain \o last
  BY <1>1, HeadIsLater, SeqNumAssumption DEF WriteExpected, Safe
<1>3. ASSUME NEW i \in 0 .. k, NEW free \in 0 .. MAX_WINDOW_SIZE
      PROVE  /\ send_ack(i, free) \in Control /\ send_ack(i, free).type = "ACK"
             /\ send_ack(i, free).chunk = N + 1 + i
             /\ send_ack(i, free).seqnum = Wrap(N + 1 + i)
  <2>1. i \in 0 .. MAX_WINDOW_SIZE - 1
    BY <1>1, SeqNumAssumption
  <2>2. send_ack(i, free) \in Control
    BY <2>1, AckType DEF Safe
  <2>3. i + 1 \in 0 .. SeqSpace - 1 /\ lastack + 2 + i = lastack + 1 + (i + 1)
        /\ N + (i + 1) = N + 1 + i
    BY <1>1, <2>1, InvFacts, SeqNumAssumption DEF Safe, SeqNums
  <2>4. (lastack + 2 + i) % SeqSpace = Wrap(N + 1 + i)
    BY <2>3, NextNumbers DEF Safe, Count
  <2> QED
    BY <2>2, <2>4 DEF send_ack, Count
<1>4. \A i \in 0 .. k : window_size + i \in 0 .. MAX_WINDOW_SIZE
  <2>1. window_size \in 0 .. MAX_WINDOW_SIZE /\ window_size + k <= MAX_WINDOW_SIZE
    BY RunStops, SeqNumAssumption DEF Safe, Inv, ReceiverTypeOK, Buffered
  <2> QED
    BY <1>1, <2>1, SeqNumAssumption
<1>5. ASSUME NEW i \in 0 .. k
      PROVE  /\ send_ack(i, window_size + i) \in Control
             /\ send_ack(i, window_size + i).type = "ACK"
             /\ send_ack(i, window_size + i).chunk = N + 1 + i
             /\ send_ack(i, window_size + i).seqnum = Wrap(N + 1 + i)
  BY <1>3, <1>4
<1>6. drain \in Seq(Control) /\ Len(drain) = k
      /\ \A i \in 1 .. k : drain[i] = send_ack(i, window_size + i)
  <2>1. \A i \in 1 .. k : send_ack(i, window_size + i) \in Control
    BY <1>1, <1>5
  <2> QED
    BY <1>1, <2>1
<1>7. last \in Seq(Control) /\ Len(last) = 1 /\ last[1] = send_ack(k, window_size + k)
  <2>1. send_ack(k, window_size + k) \in Control
    BY <1>1, <1>5
  <2> QED
    BY <2>1
<1> HIDE DEF drain, last, k, N
<1>8. t \in Seq(Control) /\ Len(t) = k + 1
      /\ \A i \in 1 .. k + 1 : t[i] = IF i <= k THEN send_ack(i, window_size + i)
                                      ELSE send_ack(k, window_size + k)
  <2>1. drain \in Seq(Control) /\ last \in Seq(Control)
    BY <1>6, <1>7
  <2>2. t \in Seq(Control) /\ Len(t) = Len(drain) + Len(last)
        /\ \A i \in 1 .. Len(drain) + Len(last) :
             t[i] = IF i <= Len(drain) THEN drain[i] ELSE last[i - Len(drain)]
    BY <2>1, ConcatProperties
  <2>3. \A i \in 1 .. k + 1 : i <= k \/ i - k = 1
    BY <1>1
  <2> QED
    BY <1>1, <1>6, <1>7, <2>2, <2>3
<1>9. acks' = acks \o t
  <2>1. acks \in Seq(Control) /\ drain \in Seq(Control) /\ last \in Seq(Control)
    BY <1>6, <1>7, AnswerTypes
  <2>2. (acks \o drain) \o last = acks \o (drain \o last)
    BY <2>1, ConcatAssociative
  <2> QED
    BY <1>2, <2>2 DEF t
<1> HIDE DEF t
<1>10. ASSUME NEW i \in 1 .. k + 1
       PROVE  /\ t[i].type = "ACK" /\ t[i].seqnum = Wrap(t[i].chunk)
              /\ t[i].chunk = IF i <= k THEN N + 1 + i ELSE N + 1 + k
  <2>1. CASE i <= k
    <3>1. i \in 0 .. k /\ t[i] = send_ack(i, window_size + i)
      BY <1>1, <1>8, <2>1
    <3> QED
      BY <1>5, <2>1, <3>1
  <2>2. CASE ~(i <= k)
    <3>1. k \in 0 .. k /\ t[i] = send_ack(k, window_size + k)
      BY <1>1, <1>8, <2>2
    <3> QED
      BY <1>5, <2>2, <3>1
  <2> QED
    BY <2>1, <2>2
<1>11. Count' \in Nat /\ Count <= Count' /\ N = Count
  BY <1>1 DEF N
<1>12. ASSUME NEW i \in 1 .. Len(t)
       PROVE  /\ t[i].seqnum = Wrap(t[i].chunk)
              /\ Count <= t[i].chunk
              /\ t[i].type = "ACK" => t[i].chunk <= Count'
              /\ t[i].type = "NACK" => t[i].chunk <= offset - 1
              /\ \A j \in 1 .. i - 1 : t[j].type = "ACK" => t[j].chunk <= t[i].chunk
  <2>1. i \in 1 .. k + 1
    BY <1>8
  <2>2. t[i].type = "ACK" /\ t[i].seqnum = Wrap(t[i].chunk)
        /\ t[i].chunk = IF i <= k THEN N + 1 + i ELSE N + 1 + k
    BY <1>10, <2>1
  <2>3. N <= t[i].chunk /\ t[i].chunk <= N + 1 + k
    BY <1>1, <2>1, <2>2
  <2>4. \A j \in 1 .. i - 1 : t[j].chunk <= t[i].chunk
    <3> SUFFICES ASSUME NEW j \in 1 .. i - 1 PROVE t[j].chunk <= t[i].chunk
      OBVIOUS
    <3>1. j \in 1 .. k + 1 /\ j < i
      BY <1>1, <2>1
    <3>2. t[j].chunk = IF j <= k THEN N + 1 + j ELSE N + 1 + k
      BY <1>10, <3>1
    <3> QED
      BY <1>1, <2>1, <2>2, <3>1, <3>2
  <2> QED
    BY <1>1, <1>11, <2>2, <2>3, <2>4
<1>13. offset' = offset /\ Base' = Base
  BY SenderUnchanged
<1> QED
  BY <1>8, <1>9, <1>11, <1>12, <1>13, AnswersAdded

LEMMA DeliverStep ==
  ASSUME Safe, NEW p \in data, NEW status \in Arrival, Deliver(p, status)
  PROVE  /\ SenderFacts' /\ Between' /\ InFlight' /\ InOrderDelivery' /\ Held'
         /\ AnswerFacts' /\ ExitMeansDelivered'
<1>1. /\ UNCHANGED senderVars /\ Fresh(p) /\ Receive(status, p)
      /\ data' = data \/ data' = data \ {p}
  BY DEF Deliver
<1>2. SenderFacts' /\ Base' = Base /\ offset' = offset /\ sender' = sender /\ offset \in Nat
  BY <1>1, SenderUnchanged
<1>3. InFlight'
  BY <1>1, <1>2 DEF Safe, InFlight
<1>4. ASSUME written' = written
      PROVE  Count' = Count /\ Between' /\ InOrderDelivery' /\ ExitMeansDelivered'
  BY <1>2, <1>4 DEF Safe, Count, Between, InOrderDelivery, ExitMeansDelivered
<1>5. ASSUME written' = written, receive_buffer' = receive_buffer
      PROVE  Held'
  BY <1>2, <1>4, <1>5 DEF Safe, Held
<1>6. CASE Ignore(status, p)
  <2>1. written' = written /\ receive_buffer' = receive_buffer /\ acks' = acks
    BY <1>6, Refreshed DEF Ignore, Safe
  <2>2. AnswerFacts'
    BY <1>2, <1>4, <2>1, AnswersKept
  <2> QED
    BY <1>2, <1>3, <1>4, <1>5, <2>1, <2>2
<1>7. CASE send_nack(status, p)
  <2>1. written' = written /\ receive_buffer' = receive_buffer
    BY <1>7, Refreshed DEF send_nack, Safe
  <2>2. AnswerFacts'
    BY <1>1, <1>7, NackSent
  <2> QED
    BY <1>2, <1>3, <1>4, <1>5, <2>1, <2>2
<1>8. CASE Buffer(status, p)
  <2>1. written' = written /\ acks' = acks
    BY <1>8 DEF Buffer
  <2>2. AnswerFacts'
    BY <1>2, <1>4, <2>1, AnswersKept
  <2>3. Held'
    BY <1>1, <1>8, BufferHolds
  <2> QED
    BY <1>2, <1>3, <1>4, <2>1, <2>2, <2>3
<1>9. CASE WriteExpected(status, p)
  <2>1. /\ InOrderDelivery' /\ Count' = Count + 1 + Run /\ Count + 1 + Run <= offset
        /\ Run \in 0 .. MAX_WINDOW_SIZE - 1 /\ Count < offset
    BY <1>1, <1>9, WrittenInOrder
  <2>2. Between'
    <3>1. Base <= Count + 1 + Run
      BY <2>1, AnswerTypes, SeqNumAssumption DEF Safe, Between
    <3> QED
      BY <1>2, <2>1, <3>1 DEF Between
  <2>3. Held' /\ AnswerFacts'
    BY <1>1, <1>9, WriteHolds, WriteAnswers
  <2>4. sender # "exited"
    <3>1. Count # FileLen + 1
      BY <2>1, AnswerTypes, WireAssumption DEF Safe, SenderFacts
    <3> QED
      BY <3>1 DEF Safe, ExitMeansDelivered, Count
  <2>5. ExitMeansDelivered'
    BY <1>2, <2>4 DEF ExitMeansDelivered
  <2> QED
    BY <1>2, <1>3, <2>1, <2>2, <2>3, <2>5
<1> QED
  BY <1>1, <1>6, <1>7, <1>8, <1>9 DEF Receive

-----------------------------------------------------------------------------
(* Safe is inductive. *)

LEMMA SafeInitially ==
  ASSUME Init
  PROVE  Safe
<1> USE SeqNumAssumption, WireAssumption
<1>1. /\ written = <<>> /\ acks = <<>> /\ data = {} /\ offset = 0 /\ current_index_window = 0
      /\ receive_buffer = [i \in Slots |-> NULL] /\ window = [i \in Slots |-> NULL]
      /\ seqnum = 0 /\ limited_window_size = MAX_WINDOW_SIZE /\ sender = "running"
      /\ finish = FALSE
  BY DEF Init, SenderInit, ReceiverInit
<1>2. Inv
  BY Initially DEF Init, Init_R
<1>3. Base = 0 /\ Count = 0 /\ Wrap(0) = 0
  BY <1>1 DEF Base, Count, Wrap
<1>4. SenderFacts
  <2>1. finish \in BOOLEAN /\ (finish <=> offset = FileLen + 1)
    <3>1. 0 # FileLen + 1
      OBVIOUS
    <3> QED
      BY <1>1, <3>1, Zenon
  <2> QED
    BY <1>1, <1>3, <2>1 DEF SenderFacts
<1>5. Between /\ InFlight /\ Held
  BY <1>1, <1>3 DEF Between, InFlight, Held
<1>6. InOrderDelivery /\ AnswerFacts /\ ExitMeansDelivered
  BY <1>1 DEF InOrderDelivery, AnswerFacts, ExitMeansDelivered
<1> QED
  BY <1>2, <1>4, <1>5, <1>6 DEF Safe

LEMMA SafeIsKept ==
  ASSUME Safe, [LossyNext]_vars
  PROVE  Safe'
<1>1. Inv'
  BY ReceiverStep
(* The sender's steps and the losses leave the receiver alone. *)
<1>2. ASSUME UNCHANGED receiverVars, SenderFacts', offset <= offset',
             Between', InFlight', AnswerFacts', ExitMeansDelivered'
      PROVE  Safe'
  <2>1. offset' \in Nat
    BY <1>2 DEF SenderFacts
  <2>2. InOrderDelivery' /\ Held'
    BY <1>2, <2>1, ReceiverUnchanged
  <2> QED
    BY <1>1, <1>2, <2>2 DEF Safe
<1>3. offset \in Nat /\ offset <= offset
  BY AnswerTypes
<1>4. CASE UNCHANGED receiverVars /\ SendNew
  BY <1>2, <1>4, SendNewStep
<1>5. ASSUME NEW i \in Slots, UNCHANGED receiverVars, Retransmit(i)
      PROVE  Safe'
  <2>1. offset' = offset
    BY <1>5 DEF Retransmit, senderVars
  <2> QED
    BY <1>2, <1>3, <1>5, <2>1, RetransmitStep
<1>6. CASE UNCHANGED receiverVars /\ ReceiveAnswer(1)
  <2>1. CASE ReceiveAck(acks[1])
    <3>1. offset' = offset
      BY <2>1 DEF ReceiveAck
    <3> QED
      BY <1>2, <1>3, <1>6, <2>1, <3>1, AckStep
  <2>2. CASE ReceiveNack(acks[1])
    <3>1. offset' = offset
      BY <2>2 DEF ReceiveNack
    <3> QED
      BY <1>2, <1>3, <1>6, <2>2, <3>1, NackStep
  <2> QED
    BY <1>6, <2>1, <2>2 DEF ReceiveAnswer
<1>7. CASE LoseAnswer
  <2>1. UNCHANGED receiverVars /\ offset' = offset
    BY <1>7 DEF LoseAnswer, senderVars
  <2> QED
    BY <1>2, <1>3, <1>7, <2>1, LoseAnswerStep
<1>8. ASSUME NEW p \in data, LosePacket(p)
      PROVE  Safe'
  <2>1. UNCHANGED receiverVars /\ offset' = offset
    BY <1>8 DEF LosePacket, senderVars
  <2> QED
    BY <1>2, <1>3, <1>8, <2>1, LosePacketStep
<1>9. ASSUME NEW p \in data, NEW status \in Arrival, Deliver(p, status)
      PROVE  Safe'
  BY <1>1, <1>9, DeliverStep DEF Safe
<1>10. CASE UNCHANGED vars
  <2>1. UNCHANGED receiverVars /\ UNCHANGED senderVars /\ data' = data /\ acks' = acks
    BY <1>10 DEF vars
  <2>2. SenderFacts' /\ Base' = Base /\ offset' = offset /\ sender' = sender
    BY <2>1, SenderUnchanged
  <2>3. Count' = Count /\ written' = written
    BY <2>1 DEF Count, receiverVars
  <2>4. AnswerFacts'
    BY <1>3, <2>1, <2>2, <2>3, AnswersKept
  <2>5. Between' /\ InFlight' /\ ExitMeansDelivered'
    BY <2>1, <2>2, <2>3 DEF Safe, Between, InFlight, ExitMeansDelivered
  <2> QED
    BY <1>2, <1>3, <2>1, <2>2, <2>4, <2>5
<1>11. CASE UNCHANGED receiverVars /\ SelectFails
  <2>1. offset' = offset
    BY <1>11 DEF SelectFails
  <2> QED
    BY <1>2, <1>3, <1>11, <2>1, SelectFailsStep
<1> QED
  BY <1>4, <1>5, <1>6, <1>7, <1>8, <1>9, <1>10, <1>11 DEF LossyNext, Next, SenderStep, NetworkStep

LEMMA AlwaysSafe == LossySpec => []Safe
<1>1. Init => Safe
  BY SafeInitially
<1>2. Safe /\ [LossyNext]_vars => Safe'
  BY SafeIsKept
<1> QED
  BY <1>1, <1>2, PTL DEF LossySpec

-----------------------------------------------------------------------------
(* The sender's and the receiver's state, and what is in flight between    *)
(* them, keep their types.                                                 *)
THEOREM TransferTypes == LossySpec => []TypeOK
<1>1. Safe => TypeOK
  <2> SUFFICES ASSUME Safe PROVE TypeOK
    OBVIOUS
  <2>1. seqnum \in SeqNums
    BY WrapType, AnswerTypes DEF Safe, SenderFacts
  <2>2. data \subseteq Packet
    BY InFlightTypes DEF Safe
  <2> QED
    BY <2>1, <2>2 DEF Safe, Inv, SenderFacts, TypeOK
<1> QED
  BY <1>1, AlwaysSafe, PTL

(* The receiver writes the chunks of the file in order, each once. *)
THEOREM DeliveryIsInOrder == LossySpec => []InOrderDelivery
<1>1. Safe => InOrderDelivery
  BY DEF Safe
<1> QED
  BY <1>1, AlwaysSafe, PTL

(* No answer leads the sender out of its window. *)
THEOREM SenderStaysInBounds == LossySpec => []SenderInBounds
<1>1. Safe => SenderInBounds
  BY DEF Safe, SenderFacts, SenderInBounds
<1> QED
  BY <1>1, AlwaysSafe, PTL

(* Every chunk read and not written yet is in the sender's window, at the  *)
(* place where its number is looked for.                                   *)
THEOREM WindowHoldsTheUnwritten == LossySpec => []UnwrittenIsHeld
<1>1. Safe => UnwrittenIsHeld
  <2> SUFFICES ASSUME Safe, NEW c \in Count .. offset - 1
               PROVE  \E i \in 0 .. current_index_window - 1 : window[i] = PacketOf(c)
    BY DEF UnwrittenIsHeld, PacketOf, Count
  <2>1. c - Base \in 0 .. current_index_window - 1 /\ Base + (c - Base) = c
    <3>1. /\ offset \in Nat /\ Count \in Nat /\ current_index_window \in Nat
          /\ Base = offset - current_index_window /\ Base <= Count
      BY AnswerTypes DEF Safe, SenderFacts, Between, Base
    <3> QED
      BY <3>1
  <2> QED
    BY <2>1 DEF Safe, SenderFacts
<1> QED
  BY <1>1, AlwaysSafe, PTL

(* The sender reports success only once the whole file has been written.   *)
THEOREM SuccessMeansDelivered == LossySpec => []ExitMeansDelivered
<1>1. Safe => ExitMeansDelivered
  BY DEF Safe
<1> QED
  BY <1>1, AlwaysSafe, PTL

(* No packet is ahead of the receiver's window. *)
THEOREM SenderStaysInWindow == LossySpec => []NeverAheadOfReceiver
<1>1. Safe => NeverAheadOfReceiver
  <2> SUFFICES ASSUME Safe PROVE offset - Count <= MAX_WINDOW_SIZE
    BY DEF NeverAheadOfReceiver, Count
  <2> QED
    BY AnswerTypes, SeqNumAssumption DEF Safe, SenderFacts, Between, Base
<1> QED
  BY <1>1, AlwaysSafe, PTL

(* What a step shows of the two programs: chunks written, or success.      *)
LEMMA VisibleStep ==
  ASSUME Safe, [LossyNext]_vars
  PROVE  \/ written' = written /\ sender' = sender
         \/ written' = written /\ sender = "running" /\ sender' \in {"exited", "failed"}
         \/ sender' = sender /\ Count' \in Nat /\ Count < Count' /\ Count' <= FileLen + 1
<1>1. CASE UNCHANGED receiverVars /\ (SendNew \/ \E i \in Slots : Retransmit(i))
  BY <1>1 DEF SendNew, Retransmit, senderVars, receiverVars
<1>2. CASE UNCHANGED receiverVars /\ ReceiveAnswer(1)
  <2>1. written' = written /\ sender = "running" /\ Safe'
    BY <1>2, SafeIsKept DEF ReceiveAnswer, receiverVars
  <2>2. sender' \in {"running", "exited", "failed"}
    BY <2>1 DEF Safe, SenderFacts
  <2> QED
    BY <2>1, <2>2
<1>3. CASE LoseAnswer \/ (\E p \in data : LosePacket(p)) \/ UNCHANGED vars
  BY <1>3 DEF LoseAnswer, LosePacket, vars, senderVars, receiverVars
<1>4. ASSUME NEW p \in data, NEW status \in Arrival, Deliver(p, status)
      PROVE  /\ sender' = sender
             /\ \/ written' = written
                \/ Count' \in Nat /\ Count < Count' /\ Count' <= FileLen + 1
  <2>1. UNCHANGED senderVars /\ sender' = sender /\ Fresh(p) /\ Receive(status, p)
    BY <1>4 DEF Deliver, senderVars
  <2>2. CASE Ignore(status, p) \/ send_nack(status, p) \/ Buffer(status, p)
    BY <2>1, <2>2 DEF Ignore, send_nack, Buffer
  <2>3. CASE WriteExpected(status, p)
    <3> DEFINE k == Run
    <3>1. Count' = Count + 1 + k /\ Count + 1 + k <= offset /\ k \in 0 .. MAX_WINDOW_SIZE - 1
      BY <2>1, <2>3, WrittenInOrder
    <3> HIDE DEF k
    <3>2. /\ Count + 1 + k \in Nat /\ Count < Count + 1 + k /\ Count + 1 + k <= FileLen + 1
      <4>1. offset \in Nat /\ Count \in Nat /\ offset <= FileLen + 1 /\ k \in Nat
        BY <3>1, AnswerTypes, SeqNumAssumption, WireAssumption DEF Safe, SenderFacts
      <4> QED
        BY <3>1, <4>1, WireAssumption
    <3> QED
      BY <2>1, <3>1, <3>2
  <2> QED
    BY <2>1, <2>2, <2>3 DEF Receive
<1>5. CASE UNCHANGED receiverVars /\ SelectFails
  BY <1>5 DEF SelectFails, receiverVars
<1> QED
  BY <1>1, <1>2, <1>3, <1>4, <1>5 DEF LossyNext, Next, SenderStep, NetworkStep

(* The two programs and the network implement the specification of a file  *)
(* transfer: chunks come out in order, then the sender succeeds.           *)
THEOREM TransfersTheFile == LossySpec => ImplementsFileTransfer
<1> DEFINE output == [i \in 1 .. Len(written) |-> written[i].payload]
           success == (sender = "exited")
<1>1. Init => Abstract!Init
  <2> SUFFICES ASSUME Init PROVE output = <<>> /\ success = FALSE
    BY DEF Abstract!Init
  <2>1. written = <<>> /\ sender = "running"
    BY DEF Init, SenderInit, ReceiverInit
  <2> QED
    BY <2>1
<1>2. Safe /\ [LossyNext]_vars => [Abstract!Next]_<<output, success>>
  <2> SUFFICES ASSUME Safe, [LossyNext]_vars PROVE [Abstract!Next]_<<output, success>>
    OBVIOUS
  <2>1. Safe' /\ Count \in Nat
    BY SafeIsKept, AnswerTypes
  <2>2. output = Abstract!Prefix(Count) /\ output' = Abstract!Prefix(Count') /\ Len(output) = Count
    BY <2>1 DEF Abstract!Prefix, Safe, InOrderDelivery, Count
  <2>3. CASE written' = written /\ sender' = sender
    BY <2>3
  <2>4. CASE written' = written /\ sender = "running" /\ sender' = "exited"
    <3>1. ~success /\ success' = TRUE
      BY <2>4
    <3>2. output' = output
      BY <2>4
    <3>3. Count = FileLen + 1
      BY <2>1, <2>4 DEF Safe, ExitMeansDelivered, Count
    <3> QED
      BY <2>2, <3>1, <3>2, <3>3 DEF Abstract!Next, Abstract!Succeed
  <2>5. CASE sender' = sender /\ Count' \in Nat /\ Count < Count' /\ Count' <= FileLen + 1
    <3> DEFINE n == Count'
    <3>1. n \in Nat /\ Count < n /\ n <= FileLen + 1
      BY <2>5
    <3>2. output' = Abstract!Prefix(n)
      BY <2>2
    <3> HIDE DEF n
    <3>3. n \in Count + 1 .. FileLen + 1
      BY <2>1, <3>1, WireAssumption
    <3>4. n \in Len(output) + 1 .. FileLen + 1
      BY <2>2, <3>3
    <3>5. success' = success
      BY <2>5
    <3> HIDE DEF output, success
    <3> QED
      BY <3>2, <3>4, <3>5 DEF Abstract!Next, Abstract!Write, output, success
  <2>6. CASE written' = written /\ sender = "running" /\ sender' = "failed"
    <3>1. output' = output /\ success' = success
      BY <2>6
    <3> QED
      BY <3>1
  <2> QED
    BY <2>3, <2>4, <2>5, <2>6, VisibleStep
<1> QED
  BY <1>1, <1>2, AlwaysSafe, PTL DEF LossySpec, ImplementsFileTransfer, Abstract!Spec
=============================================================================
