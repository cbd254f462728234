-------------------------------- MODULE SetUp --------------------------------
(***************************************************************************)
(* What sender, receiver and chat do before their loops: read their        *)
(* arguments, resolve the host name (real_address), make a socket          *)
(* (create_socket), wait for the first message of a client                 *)
(* (wait_for_client), open the input file.                                 *)
(*                                                                         *)
(* One action per system call; each may be refused by the machine, which   *)
(* faults remembers.                                                       *)
(***************************************************************************)
EXTENDS Integers

CONSTANTS
  Programs,  (* Among "sender", "receiver", "chat -s" and "chat -c".           *)
  Hosts      (* Among "local" and "remote" IPv6 addresses, "ipv4", "unknown".  *)

VARIABLES
  program, host,
  argc,      (* Number of arguments, the name of the program included.         *)
  option,    (* Third argument of sender, if any.                              *)
  file,      (* What the fourth one names: a file that "exists" or is "missing"*)
  pc,        (* The next step, or "loop", "failure" (EXIT_FAILURE), "undefined"*)
  socket,    (* What the socket is: a subset of {"open", "bound", "connected"}.*)
  sfd,       (* Its descriptor as create_socket returned it.                   *)
  fd,        (* Descriptor of the input file.                                  *)
  faults     (* History: system calls refused by the machine.                  *)

arguments == <<program, host, argc, option, file>>
vars == <<arguments, pc, socket, sfd, fd, faults>>

Init ==
  /\ program \in Programs /\ host \in Hosts
  /\ argc \in 1 .. 6
  /\ option \in {"-f", "other"} /\ file \in {"exists", "missing"}
  /\ program = "receiver" => argc <= 3
  /\ program \in {"chat -s", "chat -c"} => argc = 3
  /\ argc <= 3 => option = "other"
  /\ option = "other" => file = "missing"
  /\ pc = "arguments"
  /\ socket = {} /\ sfd = -1 /\ fd = 0
  /\ faults = {}

Client == program \in {"sender", "chat -c"}

-----------------------------------------------------------------------------
MutantRefused == argc < 5 \/ option # "-f"

(* The arguments that sender refuses. *)
Refused == argc = 4 \/ (argc = 5 /\ option # "-f")

(* sender and receiver use argv[1] and argv[2] before they know of them. *)
ReadArguments ==
  /\ pc = "arguments"
  /\ pc' = IF program \in {"sender", "receiver"} /\ argc < 3 THEN "undefined"
           ELSE IF program = "sender" /\ Refused THEN "failure"
           ELSE "resolve"
  /\ UNCHANGED <<arguments, socket, sfd, fd, faults>>

(* The address is copied from the answer of getaddrinfo before its result  *)
(* is tested: when it failed there is no answer to copy from.              *)
real_address ==
  /\ pc = "resolve"
  /\ pc' = IF host = "unknown" THEN "undefined" ELSE "socket"
  /\ UNCHANGED <<arguments, socket, sfd, fd, faults>>

-----------------------------------------------------------------------------
(* The machine refuses a system call, and the program goes on at next. *)
Fault(call, next) ==
  /\ pc = call
  /\ pc' = next
  /\ faults' = faults \cup {call}
  /\ UNCHANGED <<arguments, sfd, fd>>

OpenSocket ==
  \/ /\ pc = "socket"
     /\ socket' = {"open"}
     /\ pc' = "bind"
     /\ UNCHANGED <<arguments, sfd, fd, faults>>
  \/ Fault("socket", "created") /\ UNCHANGED socket

(* The address that the socket is bound to: the one to listen on, and in   *)
(* the client that of the server.  An IPv6 socket takes an address of the  *)
(* machine.                                                                *)
Bindable == host = "local"

BindSocket ==
  \/ /\ pc = "bind" /\ Bindable
     /\ socket' = socket \cup {"bound"}
     /\ IF Client THEN pc' = "connect" /\ UNCHANGED sfd
        ELSE pc' = "created" /\ sfd' = 3
     /\ UNCHANGED <<arguments, fd, faults>>
  \/ /\ pc = "bind" /\ ~Bindable
     /\ pc' = "created"
     /\ UNCHANGED <<arguments, socket, sfd, fd, faults>>
  \/ Fault("bind", "created") /\ UNCHANGED socket

ConnectToServer ==
  \/ /\ pc = "connect"
     /\ socket' = socket \cup {"connected"}
     /\ sfd' = 3
     /\ pc' = "created"
     /\ UNCHANGED <<arguments, fd, faults>>
  \/ Fault("connect", "created") /\ UNCHANGED socket

-----------------------------------------------------------------------------
MutantUnchecked(p) == p \in {"receiver", "sender"}

(* The program that does not look at what create_socket returned, but to   *)
(* know whether to wait for a client.                                      *)
Unchecked(p) == p = "receiver"

(* main goes on with what create_socket has returned. *)
Created ==
  /\ pc = "created"
  /\ pc' = IF sfd < 0 /\ ~Unchecked(program) THEN "failure"
           ELSE IF program = "sender" THEN "open"
           ELSE IF program = "chat -c" \/ sfd < 0 THEN "loop"
           ELSE "wait"
  /\ UNCHANGED <<arguments, socket, sfd, fd, faults>>

(* wait_for_client looks at the first message, without taking it, and      *)
(* connects the socket to where it came from.  When either fails, main     *)
(* closes the socket.                                                      *)
WaitForMessage ==
  \/ /\ pc = "wait"
     /\ pc' = "answer"
     /\ UNCHANGED <<arguments, socket, sfd, fd, faults>>
  \/ Fault("wait", "failure") /\ socket' = {}

ConnectToClient ==
  \/ /\ pc = "answer"
     /\ socket' = socket \cup {"connected"}
     /\ pc' = "loop"
     /\ UNCHANGED <<arguments, sfd, fd, faults>>
  \/ Fault("answer", "failure") /\ socket' = {}

(* sender opens the file, if one is given.  That it does not exist is      *)
(* printed, and the loop gets the descriptor -1.                           *)
OpenFile ==
  /\ pc = "open"
  /\ fd' = IF argc # 5 THEN 0 ELSE IF file = "exists" THEN 4 ELSE -1
  /\ pc' = "loop"
  /\ UNCHANGED <<arguments, socket, sfd, faults>>

Next ==
  \/ ReadArguments \/ real_address \/ OpenSocket \/ BindSocket
  \/ ConnectToServer \/ Created \/ WaitForMessage \/ ConnectToClient
  \/ OpenFile

Spec == Init /\ [][Next]_vars

-----------------------------------------------------------------------------
(* The loop of a program gets a socket that is bound and connected,        *)
(* whichever call was refused before; only receiver, which does not look   *)
(* at the result, can get the descriptor -1 instead, and never a socket    *)
(* that lacks one of the two.  (the tests of sfd in the three mains)       *)
LoopIsConnected ==
  pc = "loop" =>
    \/ sfd >= 0 /\ socket = {"open", "bound", "connected"}
    \/ sfd < 0 /\ program = "receiver" /\ "connected" \notin socket

(* With an address of the machine and the arguments it is meant for, a     *)
(* program is stopped only by a call that the machine refuses.  (the tests *)
(* of the three mains and of create_socket)                                *)
WorksOnOneMachine ==
  pc \in {"failure", "undefined"} /\ host = "local" =>
    \/ faults # {}
    \/ argc < 3
    \/ program = "sender" /\ argc > 3 /\ ~(argc = 5 /\ option = "-f")
=============================================================================
