------------------------------ MODULE Timeval ------------------------------
(***************************************************************************)
(* The dates of link_sim.c.  The clock is counted in milliseconds, of      *)
(* which a second has Second (1000).  A struct timeval is a record of      *)
(* seconds and of milliseconds (usec); as in the code, the latter is not   *)
(* always below Second.                                                    *)
(*                                                                         *)
(* The definitions called Mutant... are plausible mistakes in the one that *)
(* follows them, and are used nowhere else.                                *)
(***************************************************************************)
EXTENDS Integers

CONSTANT Second

ASSUME TimevalAssumption == Second \in Nat \ {0}

Milliseconds(tv) == tv.sec * Second + tv.usec

(* What update_time stores. *)
Timeval(ms) == [sec |-> ms \div Second, usec |-> ms % Second]

(* left > right *)
timeval_cmp(left, right) ==
  \/ left.sec > right.sec
  \/ left.sec = right.sec /\ left.usec > right.usec

(* a - b, the underflow of usec being left alone when one second separates *)
(* the dates.                                                              *)
timeval_diff(a, b) ==
  LET sec == a.sec - b.sec
      usec == a.usec - b.usec
  IN  IF usec >= 0 THEN [sec |-> sec, usec |-> usec]
      ELSE [sec |-> sec - 1, usec |-> IF sec - 1 # 0 THEN usec + Second ELSE usec]

MutantTimeLeft(ts, date) == timeval_diff(ts, date)

(* How long to sleep until ts: 1 ms if it is past. *)
TimeLeft(ts, date) ==
  LET left == timeval_diff(ts, date)
  IN  IF left.sec < 0 \/ (left.sec = 0 /\ left.usec <= 0)
      THEN [sec |-> 0, usec |-> 1]
      ELSE left

MutantWrapped(date, ms) ==
  [sec |-> date.sec + ms \div Second, usec |-> (date.usec + ms) % Second]

MutantSameSecond(date, ms) ==
  [sec |-> date.sec, usec |-> date.usec + (ms % Second)]

MutantUnreduced(date, ms) ==
  [sec |-> date.sec + ms \div Second, usec |-> date.usec + ms]

(* The expiration of a packet that waits for ms from date on: usec is not  *)
(* carried over to sec.                                                    *)
Expiration(date, ms) ==
  [sec |-> date.sec + ms \div Second, usec |-> date.usec + (ms % Second)]
=============================================================================
