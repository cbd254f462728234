------------------------------- MODULE Sender -------------------------------
(***************************************************************************)
(* The loop of sel_repeat_write: expired packets are sent again, a chunk   *)
(* of the file is read and sent when the window allows it, an answer of    *)
(* the receiver is read.                                                   *)
(*                                                                         *)
(* One pass of the loop is the scan of the timers, then select, then the   *)
(* file, then the socket.  Each of these is an action.  A pass in which no *)
(* timer has expired changes nothing in its scan, so the passes of the     *)
(* program and the sequences of these actions are the same.                *)
(*                                                                         *)
(* Time is abstract: a timer (5 s after the last transmission) may be      *)
(* found expired in any pass.                                              *)
(*                                                                         *)
(* The definitions called Mutant... are plausible mistakes in the one that *)
(* follows them, and are used nowhere else.                                *)
(***************************************************************************)
EXTENDS Wire

VARIABLES
  seqnum,                (* Sequence number of the next new packet.           *)
  window,                (* Packets sent and not acknowledged, oldest first.  *)
  current_index_window,  (* How many there are.                               *)
  limited_window_size,   (* Window told by the last answer of the receiver.   *)
  finish,                (* The end of the file has been read.                *)
  offset,                (* Position in the file: number of chunks read.      *)
  sender,                (* "running", "exited" (EXIT_SUCCESS), "failed"      *)
                         (* (errno), or "undefined" once window[] is accessed *)
                         (* out of its bounds.                                *)
  data                   (* DATA packets handed to the network and not yet    *)
                         (* delivered or lost.                                *)

senderVars == <<seqnum, window, current_index_window, limited_window_size,
                finish, offset, sender>>

SenderInit ==
  /\ seqnum = 0
  /\ window = [i \in Slots |-> NULL]
  /\ current_index_window = 0
  /\ limited_window_size = MAX_WINDOW_SIZE
  /\ finish = FALSE
  /\ offset = 0
  /\ sender = "running"
  /\ data = {}

-----------------------------------------------------------------------------
MutantScanned(i) == i \in 1 .. current_index_window - 1

(* The packets whose timers are looked at. *)
Scanned(i) == i \in 0 .. current_index_window - 1

(* The timer of packet i has expired: it is sent again. *)
Retransmit(i) ==
  /\ sender = "running"
  /\ Scanned(i)
  /\ data' = data \cup {window[i]}
  /\ UNCHANGED <<senderVars, acks>>

MutantMaySendBlindly == ~finish

MutantMaySendOneMore == ~finish /\ current_index_window <= limited_window_size

(* The file is watched by select when the window has room, or when the     *)
(* receiver has closed it and nothing is in flight.                        *)
MaySend ==
  /\ ~finish
  /\ \/ current_index_window < limited_window_size
     \/ limited_window_size = 0 /\ current_index_window = 0

MutantEndOfFile == offset + 1 = FileLen

(* read() has returned the empty chunk. *)
EndOfFile == offset = FileLen

(* A chunk is read and sent; the empty one ends the file. *)
SendNew ==
  /\ sender = "running"
  /\ MaySend
  /\ LET packet == [seqnum |-> seqnum, payload |-> offset]
     IN  /\ window' = [window EXCEPT ![current_index_window] = packet]
         /\ data' = data \cup {packet}
  /\ current_index_window' = current_index_window + 1
  /\ seqnum' = (seqnum + 1) % SeqSpace
  /\ finish' = EndOfFile
  /\ offset' = offset + 1
  /\ UNCHANGED <<limited_window_size, sender, acks>>

(* select() returns -1. *)
SelectFails ==
  /\ sender = "running"
  /\ sender' = "failed"
  /\ UNCHANGED <<seqnum, window, current_index_window, limited_window_size,
                 finish, offset, data, acks>>

-----------------------------------------------------------------------------
(* Drop packets 0 .. ack of the window and move the others to the front. *)
modify_buffer(ack, last) ==
  [i \in Slots |-> IF i < last - ack THEN window[i + ack + 1]
                   ELSE IF i <= last THEN NULL
                   ELSE window[i]]

(* Position in the window of the packet numbered s.  An answer that is     *)
(* older than the window gives a negative one.                             *)
Position(s) == get_ack_position(seqnum - 1, s, current_index_window - 1)

(* An ACK validates the packet before the one it names.  Position -1 is    *)
(* the packet before the window: an ACK already taken into account.  Below *)
(* that, modify_buffer copies from window[-1].                             *)
ReceiveAck(answer) ==
  LET ack_position == Position(answer.seqnum - 1)
      last == current_index_window - 1
  IN
  /\ answer.type = "ACK"
  /\ limited_window_size' = answer.window
  /\ IF ack_position >= -1
     THEN /\ window' = modify_buffer(ack_position, last)
          /\ current_index_window' = last - ack_position
          /\ sender' = IF last = ack_position /\ finish THEN "exited" ELSE "running"
     ELSE /\ sender' = "undefined"
          /\ UNCHANGED <<window, current_index_window>>
  /\ UNCHANGED <<seqnum, finish, offset, data>>

(* A NACK has the packet it names sent again. *)
ReceiveNack(answer) ==
  LET nack_position == Position(answer.seqnum)
  IN
  /\ answer.type = "NACK"
  /\ limited_window_size' = answer.window
  /\ IF nack_position >= 0
     THEN data' = data \cup {window[nack_position]} /\ UNCHANGED sender
     ELSE sender' = "undefined" /\ UNCHANGED data
  /\ UNCHANGED <<seqnum, window, current_index_window, finish, offset>>

(* The sender reads answer k of those in flight. *)
ReceiveAnswer(k) ==
  /\ sender = "running"
  /\ k \in 1 .. Len(acks)
  /\ ReceiveAck(acks[k]) \/ ReceiveNack(acks[k])
  /\ acks' = [i \in 1 .. Len(acks) - 1 |-> IF i < k THEN acks[i] ELSE acks[i + 1]]
=============================================================================
