-------------------------------- MODULE Chat --------------------------------
(***************************************************************************)
(* Two chat programs, once their sockets are there (SetUp.tla): the server *)
(* waits for a first message and connects to its source (wait_for_client), *)
(* then both copy their input to the socket and the socket to their output *)
(* (read_write_loop).  A stranger may write to the port of the server,     *)
(* which a bound socket accepts and a connected one does not; what was     *)
(* queued before the connection stays.                                     *)
(*                                                                         *)
(* A message is its number among those typed at its source; 0 is the empty *)
(* datagram.                                                               *)
(***************************************************************************)
EXTENDS Naturals, SequencesExt

CONSTANTS
  MaxTyped,    (* Bound on the messages typed at a program.                  *)
  MaxQueue,    (* Datagrams that a socket holds; the next ones are dropped.  *)
  MayEnd,      (* The programs whose input may end.                          *)
  NOBODY

(* A queue has room for all that may be typed and the stranger's message. *)
ASSUME ChatAssumption ==
  /\ MaxTyped \in Nat /\ MaxQueue \in Nat /\ MaxTyped < MaxQueue
  /\ NOBODY \notin {"server", "client", "stranger"}

Program == {"server", "client"}
Other(p) == IF p = "server" THEN "client" ELSE "server"

VARIABLES
  typed,     (* Number of messages typed at each program.                    *)
  read,      (* Number of these that it has read.                            *)
  eof,       (* Its input has ended.                                         *)
  inbox,     (* Datagrams queued in its socket.                              *)
  peer,      (* Whom its socket is connected to.                             *)
  source,    (* The address that wait_for_client has found.                  *)
  output,    (* Messages it has printed.                                     *)
  first,     (* History: where the first datagram that the server has read   *)
             (* came from.                                                   *)
  pc         (* Its next step.                                               *)

vars == <<typed, read, eof, inbox, peer, source, output, first, pc>>

Init ==
  /\ typed = [p \in Program |-> 0] /\ read = [p \in Program |-> 0]
  /\ eof = [p \in Program |-> FALSE]
  /\ inbox = [p \in Program |-> <<>>]
  /\ peer = [p \in Program |-> IF p = "client" THEN "server" ELSE NOBODY]
  /\ source = NOBODY
  /\ output = [p \in Program |-> <<>>]
  /\ first = NOBODY
  /\ pc = [p \in Program |-> IF p = "client" THEN "select" ELSE "recvfrom"]

-----------------------------------------------------------------------------
(* The world outside of the two programs. *)

Type(p) ==
  /\ ~eof[p] /\ typed[p] < MaxTyped
  /\ typed' = [typed EXCEPT ![p] = @ + 1]
  /\ UNCHANGED <<read, eof, inbox, peer, source, output, first, pc>>

EndInput(p) ==
  /\ p \in MayEnd
  /\ eof' = [eof EXCEPT ![p] = TRUE]
  /\ UNCHANGED <<typed, read, inbox, peer, source, output, first, pc>>

(* A datagram reaches the socket of p. *)
Accepts(p, from) == peer[p] \in {NOBODY, from} /\ Len(inbox[p]) < MaxQueue

Queued(p, from, msg) ==
  IF p \in Program /\ Accepts(p, from)
  THEN [inbox EXCEPT ![p] = Append(@, [from |-> from, msg |-> msg])]
  ELSE inbox

Stranger ==
  /\ peer["server"] = NOBODY
  /\ \A i \in 1 .. Len(inbox["server"]) : inbox["server"][i].from # "stranger"
  /\ inbox' = Queued("server", "stranger", 1)
  /\ UNCHANGED <<typed, read, eof, peer, source, output, first, pc>>

-----------------------------------------------------------------------------
(* wait_for_client: recvfrom blocks until there is a message, looks at     *)
(* where it comes from and leaves it in the queue (MSG_PEEK).              *)
MutantRecvfrom ==
  /\ pc["server"] = "recvfrom" /\ inbox["server"] # <<>>
  /\ source' = Head(inbox["server"]).from
  /\ inbox' = [inbox EXCEPT !["server"] = Tail(@)]
  /\ pc' = [pc EXCEPT !["server"] = "connect"]
  /\ UNCHANGED <<typed, read, eof, peer, output, first>>

Recvfrom ==
  /\ pc["server"] = "recvfrom" /\ inbox["server"] # <<>>
  /\ source' = Head(inbox["server"]).from
  /\ pc' = [pc EXCEPT !["server"] = "connect"]
  /\ UNCHANGED <<typed, read, eof, inbox, peer, output, first>>

MutantTarget == Last(inbox["server"]).from

(* Others may have written since. *)
Target == source

Connect ==
  /\ pc["server"] = "connect"
  /\ peer' = [peer EXCEPT !["server"] = Target]
  /\ pc' = [pc EXCEPT !["server"] = "select"]
  /\ UNCHANGED <<typed, read, eof, inbox, source, output, first>>

-----------------------------------------------------------------------------
(* read_write_loop. *)

InputReady(p) == read[p] < typed[p] \/ eof[p]

MutantWatched(p) == FALSE

(* The socket is looked at only when the input is not ready. *)
Watched(p) == inbox[p] # <<>>

Select(p) ==
  /\ pc[p] = "select"
  /\ \/ InputReady(p) /\ pc' = [pc EXCEPT ![p] = "input"]
     \/ ~InputReady(p) /\ Watched(p) /\ pc' = [pc EXCEPT ![p] = "socket"]
  /\ UNCHANGED <<typed, read, eof, inbox, peer, source, output, first>>

(* At the end of the input read() returns 0, and an empty datagram leaves. *)
CopyInput(p) ==
  /\ pc[p] = "input"
  /\ IF read[p] < typed[p]
     THEN /\ read' = [read EXCEPT ![p] = @ + 1]
          /\ inbox' = Queued(peer[p], p, read[p] + 1)
     ELSE /\ inbox' = Queued(peer[p], p, 0)
          /\ UNCHANGED read
  /\ pc' = [pc EXCEPT ![p] = "select"]
  /\ UNCHANGED <<typed, eof, peer, source, output, first>>

(* Nothing appears of an empty datagram. *)
CopySocket(p) ==
  /\ pc[p] = "socket"
  /\ LET d == Head(inbox[p])
     IN  /\ output' = IF d.msg = 0 THEN output
                      ELSE [output EXCEPT ![p] = Append(@, d)]
         /\ first' = IF p = "server" /\ first = NOBODY THEN d.from ELSE first
  /\ inbox' = [inbox EXCEPT ![p] = Tail(@)]
  /\ pc' = [pc EXCEPT ![p] = "select"]
  /\ UNCHANGED <<typed, read, eof, peer, source>>

Loop(p) == Select(p) \/ CopyInput(p) \/ CopySocket(p)

Next ==
  \/ \E p \in Program : Type(p) \/ EndInput(p) \/ Loop(p)
  \/ Stranger
  \/ Recvfrom
  \/ Connect

(* The programs run.  Nobody is obliged to type, to end or to interfere. *)
Fairness == WF_vars(Recvfrom) /\ WF_vars(Connect) /\ \A p \in Program : WF_vars(Loop(p))

Spec == Init /\ [][Next]_vars /\ Fairness

-----------------------------------------------------------------------------
(* What p has printed of the other one among its first k messages. *)
Printed(p, k) == {j \in 1 .. k : output[p][j].from = Other(p)}

(* What a program prints of the other one is what was typed there, from    *)
(* the first message on, in order and without gaps: looking at the first   *)
(* message has not consumed it, and an end of input that fills the other   *)
(* one's queue costs no message.  (MSG_PEEK in wait_for_client, the loop)  *)
PrintedInOrder ==
  \A p \in Program : \A k \in 1 .. Len(output[p]) :
    output[p][k].from = Other(p) => output[p][k].msg = Cardinality(Printed(p, k))

(* The server is connected to the author of the first datagram that its    *)
(* loop reads, whoever writes while it connects.  (wait_for_client)        *)
AnswersTheFirst == first \in {NOBODY, peer["server"]}

(* What is typed at a program appears at the other one, if the server is   *)
(* connected to the client, and unless the input of the other one has      *)
(* ended.  (the order of the two tests after select in read_write_loop)    *)
MessagesArrive ==
  \A p \in Program, i \in 1 .. MaxTyped :
    peer["server"] = "client" /\ typed[p] >= i
      ~> Cardinality(Printed(Other(p), Len(output[Other(p)]))) >= i \/ eof[Other(p)]
=============================================================================
