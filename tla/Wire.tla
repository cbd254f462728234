-------------------------------- MODULE Wire --------------------------------
(***************************************************************************)
(* What travels between the two programs, after pkt_decode.                *)
(*                                                                         *)
(* A DATA packet carries a sequence number and a chunk of the file.  A     *)
(* chunk (the bytes one read() of the sender returned) is represented by   *)
(* its position in the file, so that two chunks are equal only when they   *)
(* are the same part of the file.  Chunks 0 .. FileLen - 1 are the file;   *)
(* chunk FileLen is the empty one that read() returns at the end of file.  *)
(*                                                                         *)
(* The receiver answers with ACK and NACK packets, queued in acks in the   *)
(* order in which they were written to the socket.  Their field chunk is a *)
(* history field: the position in the file that the sequence number stands *)
(* for.  No guard of the programs reads it.                                *)
(***************************************************************************)
EXTENDS SeqNum, Sequences

CONSTANTS
  FileLen,          (* Number of chunks in the file to transfer.           *)
  NULL              (* An empty slot of an array of pointers.              *)

Chunk == 0 .. FileLen

Packet == [seqnum : SeqNums, payload : Chunk]

ASSUME WireAssumption == FileLen \in Nat /\ NULL \notin Packet

Control == [type : {"ACK", "NACK"}, seqnum : SeqNums,
            window : 0 .. MAX_WINDOW_SIZE, chunk : Nat]

(* How a datagram that holds a packet header reaches the receiver.         *)
(*   PKT_OK  intact                                                        *)
(*   E_CRC   damaged after the header: pkt_decode still fills in the       *)
(*           header and returns an error                                   *)
(*   CUT     the 4 bytes of the header only: E_UNCONSISTENT, sdu_size = 4  *)
Arrival == {"PKT_OK", "E_CRC", "CUT"}

VARIABLE acks       (* Datagrams from the receiver to the sender, oldest first. *)
=============================================================================
