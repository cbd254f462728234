------------------------------ MODULE Datagram ------------------------------
(***************************************************************************)
(* The life of one datagram after another: a program fills in a packet and *)
(* encodes it, the link cuts or damages it, a program reads and decodes it *)
(* and disposes of the packet.  What the packets say to the loops is in    *)
(* Sender and Receiver; here it is whether the fields and the memory they  *)
(* rely on are there.                                                      *)
(*                                                                         *)
(* The array that a program reads into keeps its bytes: a read that fails  *)
(* has the previous datagram decoded, or what the array held before the    *)
(* first one, with the size (size_t) -1.                                   *)
(***************************************************************************)
EXTENDS Codec

CONSTANTS
  ReadResults,       (* What read() of the file may return: -1, or a length. *)
  Bytes,             (* Contents of the buffer that read() fills.            *)
  SeqNums, Windows,  (* Values the loops give to these fields.               *)
  Foreign,           (* Datagrams of other programs, in the array that they  *)
                     (* are read into.                                       *)
  NONE

(* The contents of an array of a program, as long as the longest packet. *)
Arrays == [1 .. MAX_PAYLOAD_SIZE + 8 -> Byte]

(* The largest payload, 512, needs no padding, and its length has a first  *)
(* byte below 128; read() is asked for no more.                            *)
ASSUME DatagramAssumption ==
  /\ MAX_PAYLOAD_SIZE % 4 = 0 /\ MAX_PAYLOAD_SIZE < 32768
  /\ ReadResults \subseteq -1 .. MAX_PAYLOAD_SIZE
  /\ Bytes \subseteq [1 .. MAX_PAYLOAD_SIZE -> Byte]
  /\ SeqNums \subseteq Byte /\ Windows \subseteq 0 .. MAX_WINDOW_SIZE
  /\ Foreign \subseteq [data : Arrays, size : Nat]
  /\ UNSET \notin Nat
  /\ \A n \in 0 .. MAX_PAYLOAD_SIZE : UNSET \notin [1 .. n -> Byte]
  /\ NONE \notin {"receiver", "sender"}

VARIABLES
  datagram,   (* The array that holds the datagram under way or read last,   *)
              (* and how many of its bytes are those of the datagram.        *)
  origin,     (* History: the packet it was encoded from, NONE for a foreign *)
              (* one.                                                        *)
  fate,       (* History: "intact", "cut" or "damaged"; "failed" for a read  *)
              (* that returned -1.                                           *)
  to,         (* Who it is for, "receiver" or "sender"; NONE once read.      *)
  decoded,    (* What pkt_decode made of the last one that was read.         *)
  overrun,    (* pkt_encode has written past the end of its buffer.          *)
  undefined   (* Which access to a field that was never set has happened.    *)

vars == <<datagram, origin, fate, to, decoded, overrun, undefined>>

Init ==
  /\ datagram = NONE /\ origin = NONE /\ fate = "intact" /\ to = NONE
  /\ decoded = NONE
  /\ overrun = FALSE
  /\ undefined = "nothing"

Idle == to = NONE /\ undefined = "nothing"

-----------------------------------------------------------------------------
(* A packet is encoded into an array of room bytes and written.            *)
(* pkt_encode compares the size with room after it has written.  It reads  *)
(* the length and the payload, whether or not they were set.               *)
Write(p, room, peer) ==
  /\ Idle
  /\ IF p.length = UNSET \/ (p.length > 0 /\ p.payload = UNSET)
     THEN /\ undefined' = "encode"
          /\ UNCHANGED <<datagram, fate, to, overrun>>
     ELSE /\ datagram' = pkt_encode(p)
          /\ fate' = "intact"
          /\ to' = peer
          /\ overrun' = (overrun \/ SizeFor(p.length) > room)
          /\ UNCHANGED undefined
  /\ origin' = p
  /\ decoded' = NONE

(* The size that the setters get from a read() that returned n: their      *)
(* parameters are of type uint16_t.                                        *)
Uint16(n) == n % 65536

(* The sender sends the chunk of the file that read() has given it. *)
SendData(seqnum, n, bytes) ==
  LET p == pkt_set_window(pkt_set_seqnum(pkt_set_type(pkt_new, PTYPE_DATA), seqnum), 0)
  IN  Write(pkt_set_payload(pkt_set_length(p, Uint16(n)), bytes, Uint16(n)),
            MAX_PAYLOAD_SIZE + 8, "receiver")

(* The receiver sends an ACK or a NACK. *)
SendAnswer(type, seqnum, window) ==
  LET p == pkt_set_seqnum(pkt_set_window(pkt_set_type(pkt_new, type), window), seqnum)
  IN  Write(pkt_set_length(p, 0), 8, "sender")

(* Another program writes to one of the two sockets. *)
SendForeign(d, peer) ==
  /\ Idle
  /\ datagram' = d
  /\ origin' = NONE
  /\ fate' = "intact"
  /\ to' = peer
  /\ decoded' = NONE
  /\ UNCHANGED <<overrun, undefined>>

-----------------------------------------------------------------------------
(* linksim cuts a DATA packet after its header, or inverts the last byte   *)
(* of its CRC.                                                             *)
Underway == to = "receiver" /\ fate = "intact" /\ origin # NONE

Cut ==
  /\ Underway
  /\ datagram' = [datagram EXCEPT !.size = 4]
  /\ fate' = "cut"
  /\ UNCHANGED <<origin, to, decoded, overrun, undefined>>

Damage ==
  /\ Underway
  /\ datagram' = [datagram EXCEPT !.data[datagram.size] = 255 - @]
  /\ fate' = "damaged"
  /\ UNCHANGED <<origin, to, decoded, overrun, undefined>>

-----------------------------------------------------------------------------
(* What one read() into an array of room bytes gets; the end of a longer   *)
(* datagram is thrown away.                                                *)
Got(room) ==
  IF datagram.size > room THEN [datagram EXCEPT !.size = room] ELSE datagram

(* pkt_del frees the payload, whether or not there is one. *)
pkt_del(p) == undefined' = IF p.payload = UNSET THEN "free" ELSE undefined

(* The receiver disposes of a packet without a header by pkt_del, of an    *)
(* invalid one of its window by free; one that is not of its window stays  *)
(* allocated.  The others are written or kept, and deleted later.          *)
Dispose(p, status) ==
  IF status = "E_NOHEADER" THEN pkt_del(p) ELSE UNCHANGED undefined

Decodes(d) ==
  /\ decoded' = pkt_decode(d, pkt_new)
  /\ to' = NONE

ReceiverReads ==
  /\ to = "receiver"
  /\ datagram' = Got(MAX_PAYLOAD_SIZE + 8)
  /\ Decodes(datagram')
  /\ Dispose(decoded'.packet, decoded'.status)
  /\ UNCHANGED <<origin, fate, overrun>>

(* The sender never frees the packet of an answer. *)
SenderReads ==
  /\ to = "sender"
  /\ datagram' = Got(8)
  /\ Decodes(datagram')
  /\ UNCHANGED <<origin, fate, overrun, undefined>>

(* What an array holds that nothing has been read into yet: anything. *)
Unwritten == {[d EXCEPT !.size = 0] : d \in Foreign}

(* read() returns -1: the peer has closed its socket, or there is none.    *)
(* The array still holds the previous datagram, if there was one.          *)
Stale(d) == [d EXCEPT !.size = SIZE_MAX]

ReadFails ==
  /\ Idle
  /\ datagram' \in (IF datagram = NONE THEN Unwritten ELSE {datagram})
  /\ Decodes(Stale(datagram'))
  /\ Dispose(decoded'.packet, decoded'.status)
  /\ fate' = "failed"
  /\ UNCHANGED <<origin, overrun>>

-----------------------------------------------------------------------------
(* One of the two loops writes to its socket, or another program does. *)
OwnSend ==
  \/ \E s \in SeqNums, n \in ReadResults, c \in Bytes : SendData(s, n, c)
  \/ \E t \in {PTYPE_ACK, PTYPE_NACK}, s \in SeqNums, w \in Windows : SendAnswer(t, s, w)

ForeignSend == \E d \in Foreign, peer \in {"receiver", "sender"} : SendForeign(d, peer)

(* The datagram goes on to its reader, or a read fails. *)
Proceed ==
  \/ Cut
  \/ Damage
  \/ ReceiverReads
  \/ SenderReads
  \/ ReadFails

Next == OwnSend \/ ForeignSend \/ Proceed

Spec == Init /\ [][Next]_vars

-----------------------------------------------------------------------------
(* A datagram has just been read. *)
HasRead == to = NONE /\ decoded # NONE /\ datagram # NONE

OwnRead == HasRead /\ origin # NONE

SameHeader(p, q) ==
  p.type = q.type /\ p.window = q.window /\ p.seqnum = q.seqnum /\ p.length = q.length

(* pkt_decode gives the reader of an intact datagram the packet that was   *)
(* encoded, for every length of payload and kind of packet that the two    *)
(* loops send, although the bytes it is made from are signed: the first    *)
(* byte of every NACK is negative, and so can the number, the length, the  *)
(* payload and the CRC be.  (pkt_encode, pkt_decode)                       *)
RoundTrip ==
  OwnRead /\ fate = "intact" =>
    /\ decoded.status = "PKT_OK"
    /\ SameHeader(decoded.packet, origin)
    /\ origin.length > 0 => decoded.packet.payload = origin.payload

(* What linksim does to a packet is always noticed, as the error that the  *)
(* receiver expects of it, and the header is there to tell which packet to *)
(* send again; a read that failed never brings the previous datagram back, *)
(* nor makes a packet of what an array happens to hold.                    *)
(* (pkt_decode; sel_repeat_read relies on E_UNCONSISTENT and a size of 4)  *)
DamageIsNoticed ==
  HasRead =>
    /\ fate = "cut" => decoded.status = "E_UNCONSISTENT" /\ datagram.size = 4
    /\ fate = "damaged" => decoded.status = "E_CRC"
    /\ fate \in {"cut", "damaged"} => SameHeader(decoded.packet, origin)
    /\ fate = "failed" => decoded.status \notin {"PKT_OK", "E_NOHEADER"}

(* The packets that the protocol knows, told from the bytes received, as   *)
(* numbers in the order of the network.                                    *)
TypeTold(d)   == d.data[1] \div 32
WindowTold(d) == d.data[1] % 32
LengthTold(d) == d.data[3] * 256 + d.data[4]

WellFormed(d) ==
  /\ d.size >= 8
  /\ TypeTold(d) \in ptypes
  /\ WindowTold(d) <= MAX_WINDOW_SIZE
  /\ LengthTold(d) <= MAX_PAYLOAD_SIZE
  /\ TypeTold(d) = PTYPE_DATA \/ LengthTold(d) = 0
  /\ \E padding \in 0 .. 3 :
       /\ (d.data[4] + padding) % 4 = 0
       /\ d.size = 8 + LengthTold(d) + padding
  /\ LET crc == crc32([i \in 1 .. d.size - 4 |-> d.data[i]])
     IN  \A k \in 0 .. 3 : d.data[d.size - k] = crc[k]

(* Whoever the datagram comes from, it is accepted if and only if it is    *)
(* well formed.  (the checks of pkt_decode, in their order)                *)
AcceptsTheWellFormed ==
  HasRead /\ fate # "failed" => (decoded.status = "PKT_OK" <=> WellFormed(datagram))

(* The conversions stay inside of their arrays.  Whatever length a header  *)
(* pretends, pkt_decode looks at no byte behind those that were received,  *)
(* where the array holds those of an earlier datagram; and the arrays of   *)
(* the two loops (520 and 8 bytes) have room for what they encode, which   *)
(* pkt_encode would find out only after it has written behind them.  (len  *)
(* in pkt_decode and in pkt_encode)                                        *)
StaysInside ==
  /\ HasRead /\ fate # "failed" => decoded.reads <= datagram.size
  /\ ~overrun

(* A field that was never set is used in two cases only: the length and    *)
(* the payload by pkt_encode, when read() of the file has failed, and the  *)
(* payload by pkt_del, for a datagram of another program that has no       *)
(* header.  (the ignored results of the setters in sel_repeat_write, the   *)
(* call of pkt_del in sel_repeat_read)                                     *)
SetBeforeUse ==
  [][/\ undefined' = "encode" => \E s \in SeqNums, c \in Bytes : SendData(s, -1, c)
     /\ undefined' = "free" => ReceiverReads /\ origin = NONE /\ datagram.size < 4]_vars

(* What packet_interface.h (lines 58-59) says of pkt_decode: unless the    *)
(* error is E_NOHEADER, the packet has at least the values of the header   *)
(* found in the data stream.  The setters refuse those that no packet has. *)
HeaderAsFound ==
  HasRead /\ fate # "failed" /\ decoded.status # "E_NOHEADER" =>
    /\ decoded.packet.type = TypeTold(datagram)
    /\ decoded.packet.window = WindowTold(datagram)
    /\ decoded.packet.seqnum = datagram.data[2]
    /\ decoded.packet.length = LengthTold(datagram)
=============================================================================
