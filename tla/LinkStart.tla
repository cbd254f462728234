------------------------------ MODULE LinkStart ------------------------------
(***************************************************************************)
(* The start and the end of linksim: its options (main), its socket        *)
(* (get_socket) and its queue, the loop (LinkSim.tla), and the way back    *)
(* through the labels that release what was acquired (proxy_traffic).      *)
(* Any call may fail.                                                      *)
(***************************************************************************)
EXTENDS Integers

CONSTANT Values  (* Arguments of the options. *)

Rates   == {"err_rate", "cut_rate", "loss_rate"}
Ports   == {"port", "forward_port"}
Options == Rates \cup Ports \cup {"delay", "jitter", "seed"}

VARIABLES
  parameter,   (* The value of each option.                                  *)
  pc,
  sfd,         (* Whether the socket is open.                                *)
  pkt_queue,   (* Whether the queue is allocated.                            *)
  misused,     (* Something not acquired, or released, has been released.    *)
  rval         (* What main returns.                                         *)

vars == <<parameter, pc, sfd, pkt_queue, misused, rval>>

(* The seed -1 stands for the time. *)
Default(o) ==
  CASE o = "port" -> 2141 [] o = "forward_port" -> 12345 [] o = "seed" -> -1 [] OTHER -> 0

Init ==
  /\ parameter = [o \in Options |-> Default(o)]
  /\ pc = "options"
  /\ sfd = FALSE /\ pkt_queue = FALSE /\ misused = FALSE
  /\ rval = "none"

-----------------------------------------------------------------------------
INT_MAX  == 2147483647
SHRT_MAX == 32767

(* The argument of an option is taken modulo its limit. *)
Limit(o) == IF o \in Ports THEN SHRT_MAX ELSE IF o \in Rates THEN 101 ELSE INT_MAX

(* The last one counts when an option is given several times. *)
ReadOption(o, x) ==
  /\ pc = "options"
  /\ parameter' = [parameter EXCEPT ![o] = x % Limit(o)]
  /\ UNCHANGED <<pc, sfd, pkt_queue, misused, rval>>

(* -h, or an unknown option. *)
Usage ==
  /\ pc = "options"
  /\ pc' = "returned"
  /\ rval' = "failure"
  /\ UNCHANGED <<parameter, sfd, pkt_queue, misused>>

Start ==
  /\ pc = "options"
  /\ pc' = "socket"
  /\ rval' = "success"
  /\ UNCHANGED <<parameter, sfd, pkt_queue, misused>>

-----------------------------------------------------------------------------
(* get_socket. *)

OpenSocket ==
  /\ pc = "socket"
  /\ \/ sfd' = TRUE /\ pc' = "configure" /\ UNCHANGED rval
     \/ UNCHANGED sfd /\ pc' = "returned" /\ rval' = "failure"
  /\ UNCHANGED <<parameter, pkt_queue, misused>>

MutantClosesOnFailure == FALSE

(* get_socket closes the socket itself when it fails after opening it. *)
ClosesOnFailure == TRUE

(* Options of the socket, bind, non-blocking mode. *)
Configure ==
  /\ pc = "configure"
  /\ \/ pc' = "queue" /\ UNCHANGED <<sfd, rval>>
     \/ sfd' = (sfd /\ ~ClosesOnFailure) /\ pc' = "returned" /\ rval' = "failure"
  /\ UNCHANGED <<parameter, pkt_queue, misused>>

-----------------------------------------------------------------------------
(* proxy_traffic. *)

NewQueue ==
  /\ pc = "queue"
  /\ \/ pkt_queue' = TRUE /\ pc' = "loop" /\ UNCHANGED rval
     \/ UNCHANGED pkt_queue /\ pc' = "close" /\ rval' = "failure"
  /\ UNCHANGED <<parameter, sfd, misused>>

(* proxy_loop ends on errors only. *)
LoopFails ==
  /\ pc = "loop"
  /\ pc' = "delete"
  /\ rval' = "failure"
  /\ UNCHANGED <<parameter, sfd, pkt_queue, misused>>

DeleteQueue ==
  /\ pc = "delete"
  /\ misused' = (misused \/ ~pkt_queue)
  /\ pkt_queue' = FALSE
  /\ pc' = "close"
  /\ UNCHANGED <<parameter, sfd, rval>>

CloseSocket ==
  /\ pc = "close"
  /\ misused' = (misused \/ ~sfd)
  /\ sfd' = FALSE
  /\ pc' = "returned"
  /\ UNCHANGED <<parameter, pkt_queue, rval>>

Next ==
  \/ \E o \in Options, x \in Values : ReadOption(o, x)
  \/ Usage \/ Start \/ OpenSocket \/ Configure \/ NewQueue
  \/ LoopFails \/ DeleteQueue \/ CloseSocket

Spec == Init /\ [][Next]_vars

-----------------------------------------------------------------------------
(* Whichever call fails, what has been acquired is released, once, and the *)
(* failure is returned; the loop has a socket and a queue.  (the labels of *)
(* get_socket and proxy_traffic)                                           *)
ReleasedOnce ==
  /\ ~misused
  /\ pc = "loop" => sfd /\ pkt_queue
  /\ pc = "returned" => ~sfd /\ ~pkt_queue /\ rval = "failure"
=============================================================================
