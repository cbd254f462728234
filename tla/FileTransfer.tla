---------------------------- MODULE FileTransfer ----------------------------
(***************************************************************************)
(* What the two programs promise together: the file is written at the      *)
(* receiver chunk after chunk, in order, each chunk once, and the sender   *)
(* reports success only when all of it has been written.                   *)
(***************************************************************************)
EXTENDS Integers, Sequences

CONSTANT FileLen    (* Chunks 0 .. FileLen - 1, then the empty chunk FileLen. *)

VARIABLES
  output,           (* Chunks written by the receiver.  *)
  success           (* The sender has exited normally.  *)

Prefix(n) == [i \in 1 .. n |-> i - 1]

Init ==
  /\ output = <<>>
  /\ success = FALSE

(* One or several chunks become available and are written. *)
Write ==
  /\ \E n \in Len(output) + 1 .. FileLen + 1 : output' = Prefix(n)
  /\ UNCHANGED success

Succeed ==
  /\ ~success
  /\ output = Prefix(FileLen + 1)
  /\ success' = TRUE
  /\ UNCHANGED output

Next == Write \/ Succeed

Spec == Init /\ [][Next]_<<output, success>>
=============================================================================
