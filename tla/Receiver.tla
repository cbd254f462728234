------------------------------ MODULE Receiver ------------------------------
(***************************************************************************)
(* The loop of sel_repeat_read: one datagram is read from the socket,      *)
(* decoded, and written to the output, buffered, answered or ignored.      *)
(*                                                                         *)
(* Receive(status, p) is one whole iteration.  The environment of this     *)
(* module is the most general one: any packet may arrive at any time, in   *)
(* any condition, and the network takes the answers away.  Transfer.tla    *)
(* replaces it by the sender and the link.                                 *)
(*                                                                         *)
(* The definitions called Mutant... are plausible mistakes in the one that *)
(* follows them, and are used nowhere else: they show which properties     *)
(* such a mistake would break.                                             *)
(***************************************************************************)
EXTENDS Wire

VARIABLES
  lastack,         (* Sequence number of the last packet written.           *)
  window_size,     (* Free places of receive_buffer, as told to the sender. *)
  receive_buffer,  (* Packets that arrived ahead of the expected one.       *)
  written,         (* Packets given to write_payload, in order.             *)
  dangling         (* A freed packet has been left in receive_buffer: from  *)
                   (* then on the program's behaviour is undefined.         *)

receiverVars == <<lastack, window_size, receive_buffer, written, dangling>>

ReceiverInit ==
  /\ lastack = SeqSpace - 1
  /\ window_size = MAX_WINDOW_SIZE
  /\ receive_buffer = [i \in Slots |-> NULL]
  /\ written = <<>>
  /\ dangling = FALSE

Expected == (lastack + 1) % SeqSpace

(* Distance of a sequence number from the expected one. *)
Offset(seqnum) == compare_seqnums(lastack, seqnum, Expected)

MutantInWindow(seqnum) == Offset(seqnum) <= MAX_WINDOW_SIZE

InWindow(seqnum) == Offset(seqnum) < MAX_WINDOW_SIZE

-----------------------------------------------------------------------------
(* The helpers of sel_repeat_read.c on the array of packets. *)

FirstOccupied(buffer) ==
  CHOOSE i \in Slots : buffer[i] # NULL /\ \A j \in 0 .. i - 1 : buffer[j] = NULL

MutantRefresh(buffer) == buffer

(* Drop the empty slots at the front by moving the packets down. *)
refresh(buffer) ==
  LET shift == FirstOccupied(buffer)
  IN  IF \E i \in Slots : buffer[i] # NULL
      THEN [j \in Slots |-> IF j + shift \in Slots THEN buffer[j + shift] ELSE NULL]
      ELSE buffer

MutantInsertStops(p, i) ==
  receive_buffer[i] = NULL \/ p.seqnum <= receive_buffer[i].seqnum

(* Where insert_pkt stops: at an empty slot, at the packet itself, or at   *)
(* the first packet that comes after it.                                   *)
InsertStops(p, i) ==
  \/ receive_buffer[i] = NULL
  \/ compare_seqnums(lastack, p.seqnum, receive_buffer[i].seqnum) <= 0

InsertPoint(p) ==
  CHOOSE i \in Slots : InsertStops(p, i) /\ \A j \in 0 .. i - 1 : ~InsertStops(p, j)

(* Whether insert_pkt keeps the packet: not when it is there already, nor  *)
(* when all the slots hold packets that come before it.                    *)
Inserts(p) ==
  /\ \E i \in Slots : InsertStops(p, i)
  /\ LET i == InsertPoint(p)
     IN  receive_buffer[i] = NULL \/ receive_buffer[i].seqnum # p.seqnum

MutantInsert(p) == [receive_buffer EXCEPT ![InsertPoint(p)] = p]

insert_pkt(p) ==
  LET i == InsertPoint(p)
  IN  IF receive_buffer[i] = NULL
      THEN [receive_buffer EXCEPT ![i] = p]
      ELSE [j \in Slots |-> IF j < i THEN receive_buffer[j]
                            ELSE IF j = i THEN p
                            ELSE receive_buffer[j - 1]]

(* remove_from_buffer finds the expected packet at the head, frees it, and *)
(* leaves the pointer in place ("receive_buffer[0] == NULL;").             *)
HeadIsExpected ==
  /\ receive_buffer[0] # NULL
  /\ receive_buffer[0].seqnum = Expected

MutantFollows(i) == receive_buffer[i] # NULL

(* Slot i is the (i+1)-th successor of the packet just written. *)
Follows(i) ==
  /\ receive_buffer[i] # NULL
  /\ receive_buffer[i].seqnum = (lastack + 2 + i) % SeqSpace

MutantRun == IF Follows(0) THEN 1 ELSE 0

(* How many buffered packets the loop after a write drains. *)
Run ==
  CHOOSE k \in 0 .. MAX_WINDOW_SIZE :
    /\ \A i \in 0 .. k - 1 : Follows(i)
    /\ k = MAX_WINDOW_SIZE \/ ~Follows(k)

-----------------------------------------------------------------------------
(* The branches of the loop. *)

(* A packet outside the window, or a damaged one: no answer, no change. *)
Ignore(status, p) ==
  /\ ~InWindow(p.seqnum) \/ status = "E_CRC"
  /\ receive_buffer' = refresh(receive_buffer)
  /\ UNCHANGED <<lastack, window_size, written, dangling, acks>>

MutantNackDue(status, p) == status = "CUT"

(* Only the header of a packet of the window is left. *)
NackDue(status, p) == InWindow(p.seqnum) /\ status = "CUT"

(* The packet is asked for again. *)
send_nack(status, p) ==
  /\ NackDue(status, p)
  /\ acks' = Append(acks, [type |-> "NACK", seqnum |-> p.seqnum,
                           window |-> window_size, chunk |-> p.payload])
  /\ receive_buffer' = refresh(receive_buffer)
  /\ UNCHANGED <<lastack, window_size, written, dangling>>

MutantAckOverflow(i, free) ==
  [type |-> "ACK", seqnum |-> lastack + 2 + i,
   window |-> free, chunk |-> Len(written) + 1 + i]

MutantAckLast(i, free) ==
  [type |-> "ACK", seqnum |-> (lastack + 1 + i) % SeqSpace,
   window |-> free, chunk |-> Len(written) + i]

MutantAckNext(i, free) ==
  [type |-> "ACK", seqnum |-> (lastack + 3 + i) % SeqSpace,
   window |-> free, chunk |-> Len(written) + 2 + i]

(* The ACK sent once i + 1 packets of this iteration have been written,    *)
(* the advertised window being free.                                       *)
send_ack(i, free) ==
  [type |-> "ACK", seqnum |-> (lastack + 2 + i) % SeqSpace,
   window |-> free, chunk |-> Len(written) + 1 + i]

(* The expected packet: it is written, then the packets buffered behind    *)
(* it, with an ACK after each of these and a last one where the loop       *)
(* breaks.  A loop that empties all the slots ends without the last ACK.   *)
WriteExpected(status, p) ==
  /\ InWindow(p.seqnum) /\ status = "PKT_OK" /\ p.seqnum = Expected
  /\ LET free  == IF HeadIsExpected THEN window_size + 1 ELSE window_size
         drain == [i \in 1 .. Run |-> send_ack(i, free + i)]
         break == IF Run < MAX_WINDOW_SIZE THEN <<send_ack(Run, free + Run)>> ELSE <<>>
     IN  /\ window_size' = free + Run
         /\ acks' = acks \o drain \o break
  /\ dangling' = HeadIsExpected
  /\ written' = written \o <<p>> \o [i \in 1 .. Run |-> receive_buffer[i - 1]]
  /\ lastack' = (lastack + 1 + Run) % SeqSpace
  /\ receive_buffer' =
       refresh([i \in Slots |-> IF i < Run THEN NULL ELSE receive_buffer[i]])

(* Another packet of the window: kept in order, without an answer. *)
Buffer(status, p) ==
  /\ InWindow(p.seqnum) /\ status = "PKT_OK" /\ p.seqnum # Expected
  /\ IF Inserts(p)
     THEN /\ receive_buffer' = refresh(insert_pkt(p))
          /\ window_size' = window_size - 1
     ELSE /\ receive_buffer' = refresh(receive_buffer)
          /\ UNCHANGED window_size
  /\ UNCHANGED <<lastack, written, dangling, acks>>

Receive(status, p) ==
  /\ ~dangling
  /\ \/ Ignore(status, p)
     \/ send_nack(status, p)
     \/ WriteExpected(status, p)
     \/ Buffer(status, p)

-----------------------------------------------------------------------------
(* The receiver alone, in an environment that may send it anything. *)

TakeAnswer ==
  /\ acks # <<>>
  /\ acks' = Tail(acks)
  /\ UNCHANGED receiverVars

vars_R == <<receiverVars, acks>>

Init_R == ReceiverInit /\ acks = <<>>

Next_R ==
  \/ \E status \in Arrival, p \in Packet : Receive(status, p)
  \/ TakeAnswer

Spec_R == Init_R /\ [][Next_R]_vars_R

-----------------------------------------------------------------------------
(* Types of the receiver's state. *)
ReceiverTypeOK ==
  /\ lastack \in SeqNums
  /\ window_size \in 0 .. MAX_WINDOW_SIZE
  /\ receive_buffer \in [Slots -> Packet \cup {NULL}]
  /\ written \in Seq(Packet)
  /\ dangling \in BOOLEAN
  /\ acks \in Seq(Control)

(* The window told to the sender is the number of empty slots, and these   *)
(* are the last ones: a place is counted once however packets come and go. *)
(* (window_size in insert_pkt, the drain loop and remove_from_buffer)      *)
WindowCountsFreeSlots ==
  \A i \in Slots : receive_buffer[i] # NULL <=> i < MAX_WINDOW_SIZE - window_size

(* Buffered packets stay in circular order, without duplicates, strictly   *)
(* ahead of the expected packet and inside its window; packet i leaves     *)
(* room for the i that precede it.  (insert_pkt, compare_seqnums)          *)
BufferOrdered ==
  \A i \in Slots : receive_buffer[i] # NULL =>
    /\ i + 1 <= Offset(receive_buffer[i].seqnum)
    /\ Offset(receive_buffer[i].seqnum) < MAX_WINDOW_SIZE
    /\ \A j \in Slots : j < i /\ receive_buffer[j] # NULL =>
         i - j <= Offset(receive_buffer[i].seqnum) - Offset(receive_buffer[j].seqnum)

(* remove_from_buffer never meets the packet it would free and leave in    *)
(* the array: whatever arrives, no freed packet is read again.             *)
NoDanglingPacket == ~dangling

(* There is always a place for the expected packet, so the sender is never *)
(* told a window of 0 and insert_pkt never drops a packet off the end.     *)
WindowNeverCloses == window_size >= 1

(* Whatever arrives, packets are written in sequence: the i-th packet      *)
(* written has sequence number i - 1, modulo the sequence number space,    *)
(* and lastack is the number of the last of them.                          *)
WrittenInSequence ==
  /\ \A i \in 1 .. Len(written) : written[i].seqnum = Wrap(i - 1)
  /\ Expected = Wrap(Len(written))

(* A packet accepted into the buffer is not lost: each iteration keeps it  *)
(* there or writes it.  (shift in insert_pkt, drain loop, refresh)         *)
NoBufferedPacketLost ==
  [][\A i \in Slots : receive_buffer[i] # NULL =>
       \/ \E j \in Slots : receive_buffer'[j] = receive_buffer[i]
       \/ \E j \in Len(written) + 1 .. Len(written') : written'[j] = receive_buffer[i]
    ]_vars_R

(* An iteration that writes answers, and its last answer tells the state   *)
(* it leaves behind: the sequence number expected next and the free slots. *)
WriteIsAcknowledged ==
  [][written' # written =>
       /\ Len(acks') > Len(acks)
       /\ LET last == acks'[Len(acks')]
          IN  /\ last.type = "ACK"
              /\ last.seqnum = Wrap(lastack' + 1)
              /\ last.window = window_size'
    ]_vars_R
=============================================================================
