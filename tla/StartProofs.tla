----------------------------- MODULE StartProofs -----------------------------
(***************************************************************************)
(* What the programs have acquired when they reach their loops, and what   *)
(* they have released when they end, for any set of programs, of hosts and *)
(* of arguments.                                                           *)
(*                                                                         *)
(* The inductive invariants say, for every place a program can be at, what *)
(* is open there; at the places before the loops the properties themselves *)
(* say nothing.                                                            *)
(***************************************************************************)
EXTENDS Start, TLAPS

Whole == {"open", "bound", "connected"}

(* What create_socket has made so far, at each of the steps of SetUp. *)
SocketAt ==
  /\ pc \in {"arguments", "resolve", "socket"} => sfd = -1 /\ socket = {}
  /\ pc = "bind" => sfd = -1 /\ socket = {"open"}
  /\ pc = "connect" => Program!Client /\ sfd = -1 /\ socket = {"open", "bound"}
  /\ pc = "created" =>
       \/ sfd = -1 /\ "connected" \notin socket
       \/ sfd = 3 /\ Program!Client /\ socket = Whole
       \/ sfd = 3 /\ ~Program!Client /\ socket = {"open", "bound"}
  /\ pc \in {"wait", "answer"} => ~Program!Client /\ sfd = 3 /\ socket = {"open", "bound"}
  /\ pc = "open" => sfd = 3 /\ socket = Whole
  /\ pc = "loop" =>
       \/ sfd = 3 /\ socket = Whole
       \/ sfd = -1 /\ program = "receiver" /\ "connected" \notin socket

(* Why create_socket has returned -1. *)
Explained == pc = "created" /\ sfd = -1 /\ host = "local" => faults # {}

SetUpInv == SocketAt /\ Explained /\ Program!WorksOnOneMachine

(* What linksim has acquired, at each of its steps. *)
LinkAt ==
  /\ ~misused
  /\ link_pc \in {"options", "socket"} => ~link_sfd /\ ~pkt_queue
  /\ link_pc \in {"configure", "queue"} => link_sfd /\ ~pkt_queue
  /\ link_pc = "loop" => link_sfd /\ pkt_queue
  /\ link_pc = "delete" => link_sfd /\ pkt_queue /\ rval = "failure"
  /\ link_pc = "close" => link_sfd /\ ~pkt_queue /\ rval = "failure"
  /\ link_pc = "returned" => ~link_sfd /\ ~pkt_queue /\ rval = "failure"

-----------------------------------------------------------------------------
(* The programs with a socket. *)

LEMMA SetUpInit == Program!Init => SetUpInv
  BY DEF Program!Init, SetUpInv, SocketAt, Explained, Program!WorksOnOneMachine

LEMMA SetUpStep ==
  ASSUME SetUpInv, [Program!Next]_program_vars
  PROVE  SetUpInv'
<1> USE DEF SetUpInv, Program!arguments
<1>1. CASE UNCHANGED program_vars
  BY <1>1 DEF program_vars, SocketAt, Explained, Program!WorksOnOneMachine, Program!Client
<1>2. CASE Program!ReadArguments
  BY <1>2 DEF Program!ReadArguments, Program!Refused, SocketAt, Explained, Program!WorksOnOneMachine, Program!Client
<1>3. CASE Program!real_address
  BY <1>3 DEF Program!real_address, SocketAt, Explained, Program!WorksOnOneMachine, Program!Client
<1>4. CASE Program!OpenSocket
  BY <1>4 DEF Program!OpenSocket, Program!Fault, SocketAt, Explained, Program!WorksOnOneMachine, Program!Client
<1>5. CASE Program!BindSocket
  <2>1. SocketAt'
    BY <1>5 DEF Program!BindSocket, Program!Fault, SocketAt, Program!Client
  <2>2. Explained'
    BY <1>5 DEF Program!BindSocket, Program!Bindable, Program!Fault, SocketAt, Explained
  <2>3. Program!WorksOnOneMachine'
    BY <1>5 DEF Program!BindSocket, Program!Fault, Program!WorksOnOneMachine
  <2> QED
    BY <2>1, <2>2, <2>3
<1>6. CASE Program!ConnectToServer
  <2>1. SocketAt'
    BY <1>6 DEF Program!ConnectToServer, Program!Fault, SocketAt, Program!Client, Whole
  <2>2. Explained'
    BY <1>6 DEF Program!ConnectToServer, Program!Fault, SocketAt, Explained
  <2>3. Program!WorksOnOneMachine'
    BY <1>6 DEF Program!ConnectToServer, Program!Fault, SocketAt, Explained, Program!WorksOnOneMachine
  <2> QED
    BY <2>1, <2>2, <2>3
<1>7. CASE Program!Created
  <2>1. /\ pc = "created"
        /\ pc' = IF sfd < 0 /\ program # "receiver" THEN "failure"
                 ELSE IF program = "sender" THEN "open"
                 ELSE IF program = "chat -c" \/ sfd < 0 THEN "loop"
                 ELSE "wait"
        /\ UNCHANGED <<Program!arguments, socket, sfd, fd, faults>>
    BY <1>7 DEF Program!Created, Program!Unchecked
  <2>2. CASE sfd = -1 /\ "connected" \notin socket
    <3>1. pc' = IF program # "receiver" THEN "failure" ELSE "loop"
      BY <2>1, <2>2
    <3>2. SocketAt'
      BY <2>1, <2>2, <3>1 DEF SocketAt
    <3>3. Explained' /\ Program!WorksOnOneMachine'
      BY <2>1, <2>2, <3>1 DEF Explained, Program!WorksOnOneMachine
    <3> QED
      BY <3>2, <3>3
  <2>3. CASE sfd = 3 /\ Program!Client /\ socket = Whole
    <3>0. ~(sfd < 0)
      BY <2>3
    <3>1. pc' = IF program = "sender" THEN "open" ELSE "loop"
      BY <2>1, <2>3, <3>0 DEF Program!Client
    <3>2. SocketAt'
      BY <2>1, <2>3, <3>1 DEF SocketAt
    <3>3. Explained' /\ Program!WorksOnOneMachine'
      BY <2>1, <2>3, <3>1 DEF Explained, Program!WorksOnOneMachine
    <3> QED
      BY <3>2, <3>3
  <2>4. CASE sfd = 3 /\ ~Program!Client /\ socket = {"open", "bound"}
    <3>0. ~(sfd < 0)
      BY <2>4
    <3>1. pc' = "wait"
      BY <2>1, <2>4, <3>0 DEF Program!Client
    <3>2. SocketAt'
      BY <2>1, <2>4, <3>1 DEF SocketAt, Program!Client
    <3>3. Explained' /\ Program!WorksOnOneMachine'
      BY <2>1, <2>4, <3>1 DEF Explained, Program!WorksOnOneMachine
    <3> QED
      BY <3>2, <3>3
  <2> QED
    BY <2>1, <2>2, <2>3, <2>4 DEF SocketAt
<1>8. CASE Program!WaitForMessage
  <2>1. SocketAt'
    BY <1>8 DEF Program!WaitForMessage, Program!Fault, SocketAt, Program!Client, Whole
  <2>2. Explained'
    BY <1>8 DEF Program!WaitForMessage, Program!Fault, SocketAt, Explained
  <2>3. Program!WorksOnOneMachine'
    BY <1>8 DEF Program!WaitForMessage, Program!Fault, SocketAt, Explained, Program!WorksOnOneMachine
  <2> QED
    BY <2>1, <2>2, <2>3
<1>9. CASE Program!ConnectToClient
  BY <1>9 DEF Program!ConnectToClient, Program!Fault, SocketAt, Explained, Program!WorksOnOneMachine, Program!Client, Whole
<1>10. CASE Program!OpenFile
  BY <1>10 DEF Program!OpenFile, SocketAt, Explained, Program!WorksOnOneMachine, Program!Client
<1> QED
  BY <1>1, <1>2, <1>3, <1>4, <1>5, <1>6, <1>7, <1>8, <1>9, <1>10 DEF Program!Next

-----------------------------------------------------------------------------
(* linksim. *)

LEMMA LinkInit == Link!Init => LinkAt
  BY DEF Link!Init, LinkAt

LEMMA LinkStep ==
  ASSUME LinkAt, [Link!Next]_link_vars
  PROVE  LinkAt'
<1>1. CASE UNCHANGED link_vars
  BY <1>1 DEF link_vars, LinkAt
<1>2. CASE \E o \in Link!Options, x \in Values : Link!ReadOption(o, x)
  BY <1>2 DEF Link!ReadOption, LinkAt
<1>3. CASE Link!Usage
  BY <1>3 DEF Link!Usage, LinkAt
<1>4. CASE Link!Start
  BY <1>4 DEF Link!Start, LinkAt
<1>5. CASE Link!OpenSocket
  BY <1>5 DEF Link!OpenSocket, LinkAt
<1>6. CASE Link!Configure
  BY <1>6 DEF Link!Configure, Link!ClosesOnFailure, LinkAt
<1>7. CASE Link!NewQueue
  BY <1>7 DEF Link!NewQueue, LinkAt
<1>8. CASE Link!LoopFails
  BY <1>8 DEF Link!LoopFails, LinkAt
<1>9. CASE Link!DeleteQueue
  BY <1>9 DEF Link!DeleteQueue, LinkAt
<1>10. CASE Link!CloseSocket
  BY <1>10 DEF Link!CloseSocket, LinkAt
<1> QED
  BY <1>1, <1>2, <1>3, <1>4, <1>5, <1>6, <1>7, <1>8, <1>9, <1>10 DEF Link!Next

-----------------------------------------------------------------------------
LEMMA StartInv == StartSpec => [](SetUpInv /\ LinkAt)
<1>1. StartInit => SetUpInv /\ LinkAt
  BY SetUpInit, LinkInit DEF StartInit
<1>2. SetUpInv /\ LinkAt /\ [StartNext]_<<program_vars, link_vars>> => (SetUpInv /\ LinkAt)'
  BY SetUpStep, LinkStep DEF StartNext
<1> QED
  BY <1>1, <1>2, PTL DEF StartSpec

(* The loops of sender, receiver and chat get a socket that is bound and   *)
(* connected, whichever call was refused, but for the receiver that goes   *)
(* on with -1.  (the three mains, create_socket, wait_for_client)          *)
THEOREM LoopsAreConnected == StartSpec => []LoopIsConnected
<1>1. SetUpInv => LoopIsConnected
  BY DEF SetUpInv, SocketAt, LoopIsConnected, Program!LoopIsConnected, Whole
<1> QED
  BY <1>1, StartInv, PTL

(* With an address of the machine and the documented arguments, only a     *)
(* system call that is refused stops a program before its loop.  (the      *)
(* three mains, create_socket, wait_for_client)                            *)
THEOREM OneMachineIsEnough == StartSpec => []WorksOnOneMachine
<1>1. SetUpInv => WorksOnOneMachine
  BY DEF SetUpInv, WorksOnOneMachine
<1> QED
  BY <1>1, StartInv, PTL

(* linksim releases its socket and its queue once, wherever it fails.      *)
(* (the labels of get_socket and proxy_traffic)                            *)
THEOREM LinkReleasesOnce == StartSpec => []ReleasedOnce
<1>1. LinkAt => ReleasedOnce
  BY DEF LinkAt, ReleasedOnce, Link!ReleasedOnce
<1> QED
  BY <1>1, StartInv, PTL
=============================================================================
