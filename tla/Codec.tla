------------------------------- MODULE Codec -------------------------------
(***************************************************************************)
(* struct pkt and its conversion to and from the bytes of a datagram       *)
(* (packet_implem.c), as operators.                                        *)
(*                                                                         *)
(* A byte is the number 0 .. 255 that its bits make; where the code reads  *)
(* it as a char, its value is Signed.  data[i] is the byte of index i - 1  *)
(* of the program.  Shifts and masks are divisions and remainders, and the *)
(* machine is little-endian, so that the conversions between the orders of *)
(* bytes reverse them.                                                     *)
(***************************************************************************)
EXTENDS Integers

CONSTANTS
  MAX_PAYLOAD_SIZE, MAX_WINDOW_SIZE,
  SIZE_MAX,         (* The size_t that -1, the result of a failed read, becomes. *)
  Checksum(_),      (* The checksum that zlib computes of a text.           *)
  UNSET             (* What malloc leaves in a field.                       *)

ASSUME CodecAssumption ==
  /\ MAX_PAYLOAD_SIZE \in Nat /\ MAX_WINDOW_SIZE \in 0 .. 31
  /\ SIZE_MAX \in Nat /\ SIZE_MAX % 65536 = 65535

PTYPE_DATA == 1
PTYPE_ACK  == 2
PTYPE_NACK == 4

ptypes == {PTYPE_DATA, PTYPE_ACK, PTYPE_NACK}

-----------------------------------------------------------------------------
(* Numbers and bytes. *)

Byte == 0 .. 255

(* The value of a char, which is signed. *)
Signed(byte) == IF byte >= 128 THEN byte - 256 ELSE byte

(* ntohs and htons. *)
ntohs(n) == (n % 256) * 256 + n \div 256

(* An uint32_t, as its four bytes; byte k holds the bits from 8k on. *)
Word == [0 .. 3 -> Byte]

(* ntohl and htonl. *)
ntohl(w) == [k \in 0 .. 3 |-> w[3 - k]]

(* Some number of 32 bits for every text, the same each time. *)
crc32(text) ==
  IF Checksum(text) \in Word THEN Checksum(text) ELSE [k \in 0 .. 3 |-> 0]

-----------------------------------------------------------------------------
(* Null bytes added to a payload so that the size is a multiple of 4. *)
Padding(length) == (4 - (length % 4)) % 4

SizeFor(length) == 8 + length + Padding(length)

(* The fields.  A setter stores nothing when the value does not fit. *)

pkt_new == [type |-> UNSET, window |-> UNSET, seqnum |-> UNSET,
            length |-> UNSET, payload |-> UNSET, crc |-> UNSET]

pkt_set_type(p, type) ==
  IF type \in ptypes THEN [p EXCEPT !.type = type] ELSE p

pkt_set_window(p, window) ==
  IF window <= MAX_WINDOW_SIZE THEN [p EXCEPT !.window = window] ELSE p

pkt_set_seqnum(p, seqnum) == [p EXCEPT !.seqnum = seqnum]

pkt_set_length(p, length) ==
  IF length <= MAX_PAYLOAD_SIZE THEN [p EXCEPT !.length = length] ELSE p

pkt_set_crc(p, crc) == [p EXCEPT !.crc = crc]

(* The bytes that pkt_set_payload copies, and its padding. *)
Padded(bytes, length) ==
  [i \in 1 .. length + Padding(length) |-> IF i <= length THEN bytes[i] ELSE 0]

MutantSetPayload(p, bytes, length) ==
  IF length < MAX_PAYLOAD_SIZE
  THEN [p EXCEPT !.payload = Padded(bytes, length), !.length = length]
  ELSE p

pkt_set_payload(p, bytes, length) ==
  IF length <= MAX_PAYLOAD_SIZE
  THEN [p EXCEPT !.payload = Padded(bytes, length), !.length = length]
  ELSE p

-----------------------------------------------------------------------------
(* What stands before the CRC of a packet: four bytes of header, where the *)
(* type is in the three first bits of the first one, the payload and null  *)
(* bytes.                                                                  *)
Text(p) ==
  LET ordering == ntohs(p.length)
  IN  [i \in 1 .. SizeFor(p.length) - 4 |->
         CASE i = 1 -> (p.type * 32 + p.window) % 256
           [] i = 2 -> p.seqnum
           [] i = 3 -> ordering % 256
           [] i = 4 -> ordering \div 256
           [] i \in 5 .. 4 + p.length -> p.payload[i - 4]
           [] OTHER -> 0]

(* The bytes that pkt_encode does not write are shown as null ones. *)
pkt_encode(p) ==
  LET text == Text(p)
      size == SizeFor(p.length)
      crc  == ntohl(crc32(text))
  IN  [data |-> [i \in 1 .. MAX_PAYLOAD_SIZE + 8 |->
                   IF i <= size - 4 THEN text[i]
                   ELSE IF i <= size THEN crc[i - (size - 3)]
                   ELSE 0],
       size |-> size]

-----------------------------------------------------------------------------
MutantTypeOf(byte) == Signed(byte) \div 32

(* The fields of the first byte.  The shift to the left that precedes the  *)
(* one to the right is that of an int, and loses nothing.                  *)
TypeOf(byte) == (Signed(byte) \div 32) % 8

WindowOf(byte) == Signed(byte) % 32

MutantLengthOf(third, fourth) ==
  LET high == ((Signed(third) % 65536) * 256) % 65536
  IN  IF Signed(fourth) < 0 THEN 65536 + Signed(fourth) ELSE high + fourth

(* The length: the third byte is joined to the fourth one, shifted in an   *)
(* uint16_t, where it fills the upper half with ones if it is negative.    *)
LengthOf(third, fourth) ==
  LET high == ((Signed(fourth) % 65536) * 256) % 65536
  IN  ntohs(IF Signed(third) < 0 THEN 65536 + Signed(third) ELSE high + third)

(* The four bytes from start on, joined from the last to the first. *)
CrcAt(data, start) == ntohl([k \in 0 .. 3 |-> Signed(data[start + k]) % 256])

MutantSizeUnchecked(length, size) == TRUE

MutantSizeAgrees(length, size) == SizeFor(length) <= size % 65536

(* The comparison is with (uint16_t) len. *)
SizeAgrees(length, size) == SizeFor(length) = size % 65536

(* What pkt_decode returns, and the packet p as it leaves it: the first    *)
(* check that fails decides of both.  reads is the number of bytes that it *)
(* looked at.                                                              *)
pkt_decode(datagram, p) ==
  LET data   == datagram.data
      size   == datagram.size
      type   == TypeOf(data[1])
      window == WindowOf(data[1])
      length == LengthOf(data[3], data[4])
      header == pkt_set_length(
                  pkt_set_seqnum(
                    pkt_set_window(pkt_set_type(p, type), window),
                    Signed(data[2]) % 256),
                  length)
      end    == SizeFor(header.length)
      whole  == pkt_set_crc(
                  pkt_set_payload(header, [i \in 1 .. header.length |-> data[4 + i]],
                                  header.length),
                  CrcAt(data, end - 3))
      Returns(status, packet, reads) ==
        [status |-> status, packet |-> packet, reads |-> reads]
  IN
  IF size < 4 THEN Returns("E_NOHEADER", p, 0)
  ELSE IF size < 8 \/ size % 4 # 0
    THEN Returns("E_UNCONSISTENT", header, 4)
  ELSE IF type \notin ptypes THEN Returns("E_TYPE", header, 4)
  ELSE IF window > MAX_WINDOW_SIZE THEN Returns("E_WINDOW", header, 4)
  ELSE IF length > MAX_PAYLOAD_SIZE THEN Returns("E_LENGTH", header, 4)
  ELSE IF header.type # PTYPE_DATA /\ header.length > 0
    THEN Returns("E_UNCONSISTENT", header, 4)
  ELSE IF ~SizeAgrees(header.length, size)
    THEN Returns("E_UNCONSISTENT", header, 4)
  ELSE Returns(IF whole.crc = crc32([i \in 1 .. end - 4 |-> data[i]])
               THEN "PKT_OK" ELSE "E_CRC",
               whole, end)
=============================================================================
