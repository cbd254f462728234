----------------------------- MODULE MCLinkSim -----------------------------
(***************************************************************************)
(* The link simulator for TLC: bounded time, datagrams and hitches.        *)
(***************************************************************************)
EXTENDS LinkSim

CONSTANTS
  MaxTime,        (* Bound on the clock.                        *)
  MaxArrivals,    (* Bound on the datagrams that arrive.        *)
  MaxHitches      (* Bound on signals, full buffers ...         *)

(* No delay; a constant delay of more than a second; a varying one of 0 to *)
(* a second.  <<delay, jitter>>                                            *)
MCOptions == {<<0, 0>>, <<3, 1>>, <<1, 2>>}

(* A delay without a jitter. *)
MCDefaultJitter == {<<2, 0>>}

(* Between two calls of select the program does not see the clock advance  *)
(* nor datagrams arrive: it is enough that they do so before or during it. *)
Unseen == pc \notin {"loop", "select"} => UNCHANGED <<now, arrived>>

(* The address of a malformed datagram is not looked at. *)
FromDest(d) == d.malformed => d.from = dest_addr

MCNext ==
  /\ Next
  /\ Unseen
  /\ \A d \in Range(socket') : FromDest(d)
  /\ now' <= MaxTime
  /\ arrived' <= MaxArrivals
  /\ hitches' <= MaxHitches

MCSpec == Init /\ [][MCNext]_vars

-----------------------------------------------------------------------------
(* For liveness the program is quick: it goes back to sleep within the     *)
(* millisecond, and the clock advances only while it sleeps.  Once MaxTime *)
(* has come it does so only for the packets that wait, for longer than any *)
(* of them has to.                                                         *)
Asleep ==
  /\ pc = "select"
  /\ socket = <<>>
  /\ timeout # NULL => now - since < Milliseconds(timeout)

LiveTick ==
  /\ Asleep
  /\ now < IF pkt_queue = {} THEN MaxTime ELSE MaxTime + 10 * Second
  /\ Tick

LiveArrive(from) ==
  /\ pc = "select"
  /\ arrived < MaxArrivals
  /\ now < MaxTime
  /\ Arrive(from, FALSE)

Run == (Select \/ Deliver \/ Process) /\ hitches' <= MaxHitches

LiveNext ==
  \/ LiveTick
  \/ \E from \in Source \cup {dest_addr} : LiveArrive(from)
  \/ Run
  \/ Fail

LiveSpec == Init /\ [][LiveNext]_vars /\ WF_vars(LiveTick) /\ WF_vars(Run)

(* No packet is forgotten in the queue: it is sent in the end, even if the *)
(* traffic stops, signals interrupt select and the send buffer is full for *)
(* some time, unless the program ends on an error.                         *)
EveryPacketLeaves ==
  \A id \in 1 .. MaxArrivals :
    id \in QueuedIds ~> id \notin QueuedIds \/ pc = "exit"
=============================================================================
