----------------------------- MODULE MCTransfer -----------------------------
(***************************************************************************)
(* Instances of the transfer for TLC.  The file is finite and a packet     *)
(* has one copy in the set data; the queue of answers needs a bound: a     *)
(* delivery that would answer must find room in it.  A sender whose select *)
(* fails takes no further step, so that one place in the file is enough    *)
(* for that.                                                               *)
(***************************************************************************)
EXTENDS Transfer

CONSTANTS
  MaxAnswers, (* Bound on the number of answers in flight.               *)
  FailAt      (* The number of chunks read when select may fail.         *)

Bounded ==
  /\ Len(acks') <= MaxAnswers
  /\ sender' = "failed" => offset = FailAt

MCLossySpec == Init /\ [][LossyNext /\ Bounded]_vars

MCUnorderedSpec == Init /\ [][UnorderedNext /\ Bounded]_vars

MCFairSpec == Init /\ [][Next /\ Bounded]_vars /\ Fairness

MCFairLossySpec == Init /\ [][LossyNext /\ Bounded]_vars /\ Fairness
=============================================================================
