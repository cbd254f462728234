----------------------------- MODULE MCMinQueue -----------------------------
(***************************************************************************)
(* The heap for TLC: items are numbers, two consecutive ones have the same *)
(* key, and the queue starts with room for fewer than all of them.         *)
(***************************************************************************)
EXTENDS MinQueue

MCCmp(a, b) == a \div 2 > b \div 2
=============================================================================
