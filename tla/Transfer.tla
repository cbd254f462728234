------------------------------ MODULE Transfer ------------------------------
(***************************************************************************)
(* sender and receiver, joined by the network.                             *)
(*                                                                         *)
(* DATA packets may be lost, delayed, reordered, cut after their header or *)
(* damaged (what linksim does to the traffic it relays, and what the       *)
(* statement of the protocol says of the network).  The set data holds the *)
(* packets in flight; as several copies of a packet may be, a delivery may *)
(* leave one behind.  The network forgets a copy before the receiver has   *)
(* advanced by more than MaxLag packets past it.                           *)
(*                                                                         *)
(* For the answers there are three networks: linksim's, which neither      *)
(* loses nor reorders them (Next); one that may lose them (LossyNext); one *)
(* that may reorder them as well (UnorderedNext).                          *)
(***************************************************************************)
EXTENDS Sender, Receiver

CONSTANT MaxLag     (* How far behind the receiver a copy may still arrive. *)

(* A copy of a packet that the receiver has written does not look new. *)
ASSUME TransferAssumption ==
  /\ MaxLag \in Nat
  /\ MaxLag + MAX_WINDOW_SIZE <= SeqSpace

vars == <<senderVars, receiverVars, data, acks>>

Init == SenderInit /\ ReceiverInit /\ acks = <<>>

Fresh(p) == Len(written) - p.payload <= MaxLag

(* The receiver reads a copy of packet p, in the condition the network     *)
(* left it in.                                                             *)
Deliver(p, status) ==
  /\ p \in data
  /\ Fresh(p)
  /\ Receive(status, p)
  /\ data' = data \/ data' = data \ {p}
  /\ UNCHANGED senderVars

LosePacket(p) ==
  /\ p \in data
  /\ data' = data \ {p}
  /\ UNCHANGED <<senderVars, receiverVars, acks>>

LoseAnswer ==
  /\ acks # <<>>
  /\ acks' = Tail(acks)
  /\ UNCHANGED <<senderVars, receiverVars, data>>

SenderStep ==
  /\ \/ \E i \in Slots : Retransmit(i)
     \/ SendNew
     \/ SelectFails
     \/ ReceiveAnswer(1)
  /\ UNCHANGED receiverVars

NetworkStep ==
  \E p \in data : LosePacket(p) \/ \E status \in Arrival : Deliver(p, status)

Next == SenderStep \/ NetworkStep

LossyNext == Next \/ LoseAnswer

UnorderedNext ==
  \/ LossyNext
  \/ \E k \in 2 .. Len(acks) : ReceiveAnswer(k) /\ UNCHANGED receiverVars

LossySpec == Init /\ [][LossyNext]_vars

UnorderedSpec == Init /\ [][UnorderedNext]_vars

(* The sender's loop never blocks for more than a second (the timeout of   *)
(* select), so each of its steps is weakly fair; a packet sent again and   *)
(* again ends up arriving intact, if the receiver runs.                    *)
Fairness ==
  /\ WF_vars(SendNew /\ UNCHANGED receiverVars)
  /\ WF_vars(ReceiveAnswer(1) /\ UNCHANGED receiverVars)
  /\ \A i \in Slots : WF_vars(Retransmit(i) /\ UNCHANGED receiverVars)
  /\ \A c \in Chunk :
       SF_vars(Deliver([seqnum |-> Wrap(c), payload |-> c], "PKT_OK"))

FairSpec == Init /\ [][Next]_vars /\ Fairness

FairLossySpec == Init /\ [][LossyNext]_vars /\ Fairness

-----------------------------------------------------------------------------
(* Types of the whole state. *)
TypeOK ==
  /\ ReceiverTypeOK
  /\ seqnum \in SeqNums
  /\ window \in [Slots -> Packet \cup {NULL}]
  /\ current_index_window \in 0 .. MAX_WINDOW_SIZE
  /\ limited_window_size \in 0 .. MAX_WINDOW_SIZE
  /\ finish \in BOOLEAN
  /\ offset \in 0 .. FileLen + 1
  /\ sender \in {"running", "exited", "failed", "undefined"}
  /\ data \subseteq Packet

(* The receiver writes the chunks of the file in order, each once: no loss,*)
(* retransmission, reordering or wrap-around of the sequence numbers shows *)
(* in its output.                                                          *)
InOrderDelivery == \A i \in 1 .. Len(written) : written[i].payload = i - 1

(* The sender never computes, from an answer of the receiver, a position   *)
(* outside its window.  (get_ack_position, modify_buffer, window[nack_pos])*)
SenderInBounds == sender # "undefined"

(* A chunk the receiver has not written can still be sent again: the       *)
(* sender holds it in its window, at the place its number says.            *)
UnwrittenIsHeld ==
  sender = "running" =>
    \A c \in Len(written) .. offset - 1 :
      \E i \in 0 .. current_index_window - 1 :
        window[i] = [seqnum |-> Wrap(c), payload |-> c]

(* The sender exits with success only when the receiver has written the    *)
(* whole file and its end.                                                 *)
ExitMeansDelivered == sender = "exited" => Len(written) = FileLen + 1

(* Every packet ever sent falls in the receiver's window or before it: the *)
(* receiver never throws away a packet for being too far ahead.            *)
NeverAheadOfReceiver == offset - Len(written) <= MAX_WINDOW_SIZE

(* The sender eventually gets through the whole file and exits, unless     *)
(* select fails.                                                           *)
TransferCompletes == <>(sender \in {"exited", "failed"})

(* The transfer implements its abstract specification. *)
Abstract == INSTANCE FileTransfer WITH
  output  <- [i \in 1 .. Len(written) |-> written[i].payload],
  success <- (sender = "exited")

ImplementsFileTransfer == Abstract!Spec
=============================================================================
