----------------------------- MODULE MCReceiver -----------------------------
(***************************************************************************)
(* The receiver against every stream of datagrams, for TLC.  Its answers   *)
(* are taken away before the next datagram (the receiver never reads them) *)
(* and the number of packets written is bounded.                           *)
(***************************************************************************)
EXTENDS Receiver

CONSTANT MaxWritten (* Bound on the number of packets written. *)

MCNext ==
  \/ /\ acks = <<>>
     /\ \E status \in Arrival, p \in Packet : Receive(status, p)
     /\ Len(written') <= MaxWritten
  \/ TakeAnswer

MCSpec == Init_R /\ [][MCNext]_vars_R
=============================================================================
