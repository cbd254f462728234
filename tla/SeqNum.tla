------------------------------- MODULE SeqNum -------------------------------
(***************************************************************************)
(* Circular sequence numbers of the selective repeat protocol.             *)
(*                                                                         *)
(* A sequence number is one byte of the header (uint8_t, 256 values) and   *)
(* a window holds MAX_WINDOW_SIZE = 31 packets.  Both are parameters here, *)
(* so that TLC can use small ones and the proofs cover all of them.        *)
(***************************************************************************)
EXTENDS Integers

CONSTANTS
  SeqSpace,         (* Number of sequence numbers: 256 in the code.        *)
  MAX_WINDOW_SIZE   (* Slots of the sender's and the receiver's window: 31 *)

ASSUME SeqNumAssumption ==
  /\ SeqSpace \in Nat
  /\ MAX_WINDOW_SIZE \in Nat \ {0}
  /\ 2 * MAX_WINDOW_SIZE <= SeqSpace

SeqNums == 0 .. SeqSpace - 1

(* Indices of the arrays window[] (sender) and receive_buffer[] (receiver). *)
Slots == 0 .. MAX_WINDOW_SIZE - 1

(* Truncation of an int to a sequence number: (x + 1) % 256, uint8_t. *)
Wrap(n) == n % SeqSpace

(* Difference seqnum1 - seqnum2 after both have been unrolled into the     *)
(* SeqSpace numbers that follow lastack.                                   *)
compare_seqnums(lastack, seqnum1, seqnum2) ==
  LET Unroll(s) == IF s <= lastack THEN s + SeqSpace ELSE s
  IN  Unroll(seqnum1) - Unroll(seqnum2)

(* Index in the sender's window of the packet numbered seqnum_validated,   *)
(* when the packet numbered last_seqnum_send is at pointeur_last_send.     *)
get_ack_position(last_seqnum_send, seqnum_validated, pointeur_last_send) ==
  IF last_seqnum_send >= seqnum_validated
  THEN pointeur_last_send - (last_seqnum_send - seqnum_validated)
  ELSE pointeur_last_send - last_seqnum_send - (SeqSpace - seqnum_validated)
=============================================================================
