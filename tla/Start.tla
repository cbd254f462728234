------------------------------- MODULE Start -------------------------------
(***************************************************************************)
(* linksim and one of the other programs start.  They share nothing, and   *)
(* their steps interleave.                                                 *)
(***************************************************************************)
EXTENDS Integers

CONSTANTS Programs, Hosts, Values

(* Negative arguments are left out. *)
ASSUME StartAssumption == Values \subseteq Nat

VARIABLES
  program, host, argc, option, file, pc, socket, sfd, fd, faults,
  parameter, link_pc, link_sfd, pkt_queue, misused, rval

Program == INSTANCE SetUp

Link == INSTANCE LinkStart WITH pc <- link_pc, sfd <- link_sfd

program_vars == <<program, host, argc, option, file, pc, socket, sfd, fd, faults>>

link_vars == <<parameter, link_pc, link_sfd, pkt_queue, misused, rval>>

StartInit == Program!Init /\ Link!Init

StartNext ==
  \/ Program!Next /\ UNCHANGED link_vars
  \/ Link!Next /\ UNCHANGED program_vars

StartSpec == StartInit /\ [][StartNext]_<<program_vars, link_vars>>

(* Stated in SetUp: a loop starts with a bound and connected socket, but   *)
(* for the one that is used unseen.                                        *)
LoopIsConnected == Program!LoopIsConnected

(* Stated in SetUp: on one machine only a refused call stops a program.    *)
WorksOnOneMachine == Program!WorksOnOneMachine

(* Stated in LinkStart: linksim releases what it has acquired, once. *)
ReleasedOnce == Link!ReleasedOnce
=============================================================================
