--------------------------- MODULE DatagramProofs ---------------------------
(***************************************************************************)
(* The codec between its callers, for every size of payload and of window, *)
(* whatever is read from the file and whatever other programs send.        *)
(*                                                                         *)
(* The inductive invariant Inv tells what the array of a program holds:    *)
(* the encoding of origin, except for what linksim has done to it, or any  *)
(* datagram; and that what has been decoded is what the array held, with   *)
(* the size that read() returned.  The properties follow from it by what   *)
(* pkt_decode does to such an array, which the first lemmas say.           *)
(***************************************************************************)
EXTENDS Datagram, TLAPS

Datagrams == [data : Arrays, size : Nat]

(* The packets that the two loops encode. *)
Own(p) ==
  /\ p.type \in ptypes /\ p.window \in 0 .. MAX_WINDOW_SIZE /\ p.seqnum \in SeqNums
  /\ p.length \in 0 .. MAX_PAYLOAD_SIZE
  /\ p.length > 0 =>
       /\ p.payload \in [1 .. p.length + Padding(p.length) -> Byte]
       /\ p.payload = Padded(p.payload, p.length)
  /\ p.type # PTYPE_DATA => p.length = 0

(* linksim inverts the last byte. *)
Inverted(d) == [d EXCEPT !.data = [d.data EXCEPT ![d.size] = 255 - d.data[d.size]]]

(* The encoding of p, after what linksim has done to it. *)
Arrived(p) ==
  CASE fate = "intact"  -> pkt_encode(p)
    [] fate = "cut"     -> [pkt_encode(p) EXCEPT !.size = 4]
    [] fate = "damaged" -> Inverted(pkt_encode(p))
    [] OTHER            -> datagram

Types ==
  /\ datagram \in Datagrams \/ (datagram = NONE /\ to = NONE /\ decoded = NONE)
  /\ fate \in {"intact", "cut", "damaged", "failed"}
  /\ to \in {NONE, "receiver", "sender"}
  /\ to # NONE => fate # "failed"
  /\ overrun = FALSE
  /\ undefined \in {"nothing", "encode", "free"}
  /\ undefined # "nothing" => to = NONE
  /\ undefined = "encode" => decoded = NONE

(* The array holds the datagram that origin has become. *)
Holds ==
  /\ origin # NONE => /\ Own(origin)
                      /\ to = "sender" => origin.type # PTYPE_DATA
                      /\ datagram = Arrived(origin)
  /\ fate \in {"cut", "damaged"} => origin # NONE

(* What was decoded, and how much of it there was. *)
WasDecoded ==
  decoded # NONE =>
    /\ to = NONE
    /\ decoded = pkt_decode(IF fate = "failed" THEN Stale(datagram) ELSE datagram, pkt_new)
    /\ fate # "failed" => datagram.size <= MAX_PAYLOAD_SIZE + 8

Inv == Types /\ (undefined # "encode" => Holds) /\ WasDecoded

-----------------------------------------------------------------------------
(* Arithmetic of the sizes and of the two bytes of a length. *)

LEMMA Sizes ==
  ASSUME NEW n \in Nat
  PROVE  /\ Padding(n) \in 0 .. 3 /\ (n + Padding(n)) % 4 = 0
         /\ SizeFor(n) = 8 + n + Padding(n)
         /\ SizeFor(n) \in Nat /\ SizeFor(n) % 4 = 0
  BY DEF Padding, SizeFor

(* A padding that makes the size a multiple of 4 is that of pkt_encode. *)
LEMMA PaddingIsUnique ==
  ASSUME NEW n \in Nat, NEW padding \in 0 .. 3, (n + padding) % 4 = 0
  PROVE  padding = Padding(n)
  BY DEF Padding

LEMMA RoundedUp ==
  ASSUME NEW n \in Nat, NEW m \in Nat, NEW padding \in 0 .. 3,
         (n + padding) % 4 = 0, m % 4 = 0, n <= m
  PROVE  n + padding <= m
  OBVIOUS

(* What the loops encode fits in their arrays. *)
LEMMA FitsInTheArray ==
  ASSUME NEW n \in 0 .. MAX_PAYLOAD_SIZE
  PROVE  SizeFor(n) <= MAX_PAYLOAD_SIZE + 8 /\ SizeFor(n) % 65536 = SizeFor(n)
<1> DEFINE padding == Padding(n)
<1>1. MAX_PAYLOAD_SIZE \in Nat /\ MAX_PAYLOAD_SIZE < 32768
  BY CodecAssumption, DatagramAssumption
<1>2. n \in Nat /\ n <= MAX_PAYLOAD_SIZE
  BY <1>1
<1>3. padding \in 0 .. 3 /\ (n + padding) % 4 = 0 /\ SizeFor(n) = 8 + n + padding
  BY <1>2, Sizes
<1> HIDE DEF padding
<1>4. n + padding <= MAX_PAYLOAD_SIZE
  BY <1>1, <1>2, <1>3, DatagramAssumption, RoundedUp
<1>5. padding \in 0 .. 3
  BY <1>3
<1>6. 8 + n + padding \in Nat /\ 8 + n + padding <= MAX_PAYLOAD_SIZE + 8
  BY <1>1, <1>2, <1>4, <1>5
<1>7. 8 + n + padding < 65536
  BY <1>1, <1>6
<1>8. ASSUME NEW k \in Nat, k < 65536
      PROVE  k % 65536 = k
  BY <1>8
<1>9. SizeFor(n) = 8 + n + padding
  BY <1>3
<1> QED
  BY <1>6, <1>7, <1>8, <1>9

LEMMA SplitLength ==
  ASSUME NEW n \in 0 .. MAX_PAYLOAD_SIZE
  PROVE  /\ n \div 256 \in 0 .. 127 /\ n % 256 \in 0 .. 255
         /\ (n \div 256) * 256 + (n % 256) = n
         /\ ntohs(n) % 256 = n \div 256 /\ ntohs(n) \div 256 = n % 256
<1>1. n \in Nat /\ n < 32768
  BY CodecAssumption, DatagramAssumption
<1>2. /\ n \div 256 \in 0 .. 127 /\ n % 256 \in 0 .. 255
      /\ (n \div 256) * 256 + (n % 256) = n
  BY <1>1
<1>3. ASSUME NEW hi \in 0 .. 127, NEW lo \in 0 .. 255
      PROVE  (lo * 256 + hi) % 256 = hi /\ (lo * 256 + hi) \div 256 = lo
  OBVIOUS
<1> QED
  BY <1>2, <1>3 DEF ntohs

(* The bytes that are read as negative numbers make the same fields as the *)
(* others.                                                                 *)
LEMMA SignedByte ==
  ASSUME NEW c \in Byte
  PROVE  /\ Signed(c) \in Int /\ Signed(c) % 256 = c
         /\ TypeOf(c) = c \div 32 /\ WindowOf(c) = c % 32
         /\ TypeOf(c) \in 0 .. 7 /\ WindowOf(c) \in 0 .. 31
<1>0. c \in Nat /\ c < 256
  BY DEF Byte
<1>1. CASE c < 128
  BY <1>0, <1>1 DEF Signed, TypeOf, WindowOf
<1>2. CASE ~(c < 128)
  <2>1. Signed(c) = c - 256
    BY <1>0, <1>2 DEF Signed
  <2>2. (c - 256) % 256 = c /\ (c - 256) % 32 = c % 32 /\ c % 32 \in 0 .. 31
    BY <1>0, <1>2
  <2>3. ((c - 256) \div 32) % 8 = c \div 32 /\ c \div 32 \in 0 .. 7
    BY <1>0, <1>2
  <2> QED
    BY <1>0, <2>1, <2>2, <2>3 DEF TypeOf, WindowOf
<1> QED
  BY <1>1, <1>2

(* The type and the window share a byte. *)
LEMMA FirstByte ==
  ASSUME NEW type \in ptypes, NEW window \in 0 .. MAX_WINDOW_SIZE
  PROVE  LET c == (type * 32 + window) % 256
         IN  c \in Byte /\ c \div 32 = type /\ c % 32 = window
<1>1. window \in Nat /\ window <= 31
  BY CodecAssumption
<1>2. type \in {1, 2, 4}
  BY DEF ptypes, PTYPE_DATA, PTYPE_ACK, PTYPE_NACK
<1>3. ASSUME NEW t \in {1, 2, 4}, NEW w \in Nat, w <= 31
      PROVE  /\ (t * 32 + w) % 256 \in 0 .. 255
             /\ ((t * 32 + w) % 256) \div 32 = t /\ ((t * 32 + w) % 256) % 32 = w
  <2>1. CASE t = 1
    BY <1>3, <2>1
  <2>2. CASE t = 2
    BY <1>3, <2>2
  <2>3. CASE t = 4
    BY <1>3, <2>3
  <2> QED
    BY <2>1, <2>2, <2>3
<1> QED
  BY <1>1, <1>2, <1>3 DEF Byte

(* Two of the bytes of a datagram, and the length that pkt_decode finds. *)
Found(d) == LengthOf(d.data[3], d.data[4])

LEMMA ArrayBytes ==
  ASSUME NEW d \in Datagrams
  PROVE  /\ \A i \in 1 .. MAX_PAYLOAD_SIZE + 8 : d.data[i] \in Byte
         /\ d.data[1] \in Byte /\ d.data[2] \in Byte
         /\ d.data[3] \in Byte /\ d.data[4] \in Byte
         /\ d.data \in Arrays /\ d.size \in Nat
         /\ d = [data |-> d.data, size |-> d.size]
<1>1. MAX_PAYLOAD_SIZE \in Nat
  BY CodecAssumption
<1>2. \A i \in 1 .. MAX_PAYLOAD_SIZE + 8 : d.data[i] \in Byte
  BY DEF Datagrams, Arrays
<1>3. {1, 2, 3, 4} \subseteq 1 .. MAX_PAYLOAD_SIZE + 8
  BY <1>1
<1> QED
  BY <1>2, <1>3 DEF Datagrams

(* Joining the bytes as signed ones goes wrong only above the maximum. *)
LEMMA JoinedLength ==
  ASSUME NEW d \in Datagrams
  PROVE  /\ LengthTold(d) \in Nat /\ Found(d) \in Nat
         /\ Found(d) <= MAX_PAYLOAD_SIZE <=> LengthTold(d) <= MAX_PAYLOAD_SIZE
         /\ Found(d) <= MAX_PAYLOAD_SIZE => Found(d) = LengthTold(d)
<1> DEFINE hi == d.data[3]
           lo == d.data[4]
<1>0. hi \in Byte /\ lo \in Byte
  BY ArrayBytes
<1>1. hi \in Nat /\ hi < 256 /\ lo \in Nat /\ lo < 256
  <2> HIDE DEF hi, lo
  <2> QED
    BY <1>0 DEF Byte
<1>2. MAX_PAYLOAD_SIZE \in Nat /\ MAX_PAYLOAD_SIZE < 32768
  BY CodecAssumption, DatagramAssumption
<1>3. LengthTold(d) = hi * 256 + lo
  BY DEF LengthTold
<1>4. ((Signed(lo) % 65536) * 256) % 65536 = lo * 256
  <2>1. CASE lo < 128
    BY <1>1, <2>1 DEF Signed
  <2>2. CASE ~(lo < 128)
    BY <1>1, <2>2 DEF Signed
  <2> QED
    BY <2>1, <2>2
<1>5. Found(d) = ntohs(IF Signed(hi) < 0 THEN 65536 + Signed(hi) ELSE lo * 256 + hi)
  BY <1>4 DEF Found, LengthOf
<1> HIDE DEF hi, lo
<1>6. CASE hi >= 128
  <2>1. Signed(hi) = hi - 256 /\ hi - 256 < 0
    BY <1>1, <1>6 DEF Signed
  <2>2. Found(d) = ntohs(65536 + (hi - 256))
    BY <1>5, <2>1
  <2>3. (65536 + (hi - 256)) % 256 = hi /\ (65536 + (hi - 256)) \div 256 = 255
    BY <1>1, <1>6
  <2>4. Found(d) = hi * 256 + 255
    BY <2>2, <2>3 DEF ntohs
  <2>5. hi * 256 \in Nat /\ hi * 256 >= 32768
    BY <1>1, <1>6
  <2> QED
    BY <1>1, <1>2, <1>3, <2>4, <2>5
<1>7. CASE ~(hi >= 128)
  <2>1. ~(Signed(hi) < 0)
    BY <1>1, <1>7 DEF Signed
  <2>2. Found(d) = ntohs(lo * 256 + hi)
    BY <1>5, <2>1
  <2>3. (lo * 256 + hi) % 256 = hi /\ (lo * 256 + hi) \div 256 = lo
    BY <1>1
  <2>4. Found(d) = hi * 256 + lo
    BY <2>2, <2>3 DEF ntohs
  <2> QED
    BY <1>1, <1>2, <1>3, <2>4
<1> QED
  BY <1>6, <1>7

LEMMA ChecksumIsAWord ==
  ASSUME NEW text
  PROVE  crc32(text) \in Word
<1>1. [k \in 0 .. 3 |-> 0] \in Word
  BY DEF Word, Byte
<1> QED
  BY <1>1 DEF crc32

(* The CRC is found as it stands, the last byte in the lowest place. *)
LEMMA FoundCrc ==
  ASSUME NEW d \in Datagrams, NEW size \in 4 .. MAX_PAYLOAD_SIZE + 8
  PROVE  /\ CrcAt(d.data, size - 3) \in Word
         /\ \A k \in 0 .. 3 : CrcAt(d.data, size - 3)[k] = d.data[size - k]
<1> DEFINE crc == CrcAt(d.data, size - 3)
           joined == [k \in 0 .. 3 |-> Signed(d.data[(size - 3) + k]) % 256]
<1>1. MAX_PAYLOAD_SIZE \in Nat
  BY CodecAssumption
<1>2. crc = [k \in 0 .. 3 |-> joined[3 - k]]
  BY DEF CrcAt, ntohl
<1>3. ASSUME NEW k \in 0 .. 3
      PROVE  crc[k] = d.data[size - k] /\ crc[k] \in Byte
  <2>1. 3 - k \in 0 .. 3 /\ (size - 3) + (3 - k) = size - k /\ size - k \in 1 .. MAX_PAYLOAD_SIZE + 8
    BY <1>1
  <2>2. crc[k] = Signed(d.data[size - k]) % 256
    BY <1>2, <2>1
  <2>3. d.data[size - k] \in Byte
    BY <2>1, ArrayBytes
  <2> QED
    BY <2>2, <2>3, SignedByte
<1>4. crc \in Word
  <2>1. \A k \in 0 .. 3 : joined[3 - k] \in Byte
    BY <1>2, <1>3
  <2> QED
    BY <1>2, <2>1 DEF Word
<1> QED
  BY <1>3, <1>4

-----------------------------------------------------------------------------
(* pkt_decode: the fields that it keeps of a header, and its returns. *)

Kept(d) ==
  [type    |-> IF TypeOf(d.data[1]) \in ptypes THEN TypeOf(d.data[1]) ELSE UNSET,
   window  |-> IF WindowOf(d.data[1]) <= MAX_WINDOW_SIZE THEN WindowOf(d.data[1]) ELSE UNSET,
   seqnum  |-> Signed(d.data[2]) % 256,
   length  |-> IF Found(d) <= MAX_PAYLOAD_SIZE THEN Found(d) ELSE UNSET,
   payload |-> UNSET, crc |-> UNSET]

(* The packet whose header pkt_decode looks at. *)
Header(d) ==
  pkt_set_length(
    pkt_set_seqnum(
      pkt_set_window(pkt_set_type(pkt_new, TypeOf(d.data[1])), WindowOf(d.data[1])),
      Signed(d.data[2]) % 256),
    LengthOf(d.data[3], d.data[4]))

LEMMA SettersKeep ==
  ASSUME NEW d
  PROVE  Header(d) = Kept(d)
<1> DEFINE type == TypeOf(d.data[1])
           window == WindowOf(d.data[1])
           seqnum == Signed(d.data[2]) % 256
           length == LengthOf(d.data[3], d.data[4])
           t == IF type \in ptypes THEN type ELSE UNSET
           w == IF window <= MAX_WINDOW_SIZE THEN window ELSE UNSET
           n == IF length <= MAX_PAYLOAD_SIZE THEN length ELSE UNSET
<1>1. Kept(d) = [type |-> t, window |-> w, seqnum |-> seqnum, length |-> n,
                 payload |-> UNSET, crc |-> UNSET]
  BY DEF Kept, Found
<1>2. Header(d) = pkt_set_length(
                    pkt_set_seqnum(
                      pkt_set_window(pkt_set_type(pkt_new, type), window), seqnum),
                    length)
  BY DEF Header
<1> HIDE DEF type, window, seqnum, length
<1>3. pkt_set_type(pkt_new, type) =
        [type |-> t, window |-> UNSET, seqnum |-> UNSET, length |-> UNSET,
         payload |-> UNSET, crc |-> UNSET]
  BY DEF pkt_set_type, pkt_new
<1> HIDE DEF t
<1>4. pkt_set_window(pkt_set_type(pkt_new, type), window) =
        [type |-> t, window |-> w, seqnum |-> UNSET, length |-> UNSET,
         payload |-> UNSET, crc |-> UNSET]
  BY <1>3 DEF pkt_set_window
<1> HIDE DEF w
<1>5. pkt_set_seqnum(pkt_set_window(pkt_set_type(pkt_new, type), window), seqnum) =
        [type |-> t, window |-> w, seqnum |-> seqnum, length |-> UNSET,
         payload |-> UNSET, crc |-> UNSET]
  BY <1>4 DEF pkt_set_seqnum
<1>6. Header(d) = [type |-> t, window |-> w, seqnum |-> seqnum, length |-> n,
                   payload |-> UNSET, crc |-> UNSET]
  BY <1>2, <1>5 DEF pkt_set_length
<1> QED
  BY <1>1, <1>6

(* The checks that come before that of the CRC. *)
Consistent(d) ==
  /\ d.size >= 8 /\ d.size % 4 = 0
  /\ TypeOf(d.data[1]) \in ptypes
  /\ WindowOf(d.data[1]) <= MAX_WINDOW_SIZE
  /\ Found(d) <= MAX_PAYLOAD_SIZE
  /\ TypeOf(d.data[1]) = PTYPE_DATA \/ ~(Found(d) > 0)
  /\ SizeAgrees(Found(d), d.size)

LEMMA DecodeNothing ==
  ASSUME NEW d, d.size < 4
  PROVE  pkt_decode(d, pkt_new) = [status |-> "E_NOHEADER", packet |-> pkt_new, reads |-> 0]
  BY DEF pkt_decode

(* The returns of pkt_decode once it has looked at a header. *)
Returned(d, header) ==
  LET type   == TypeOf(d.data[1])
      window == WindowOf(d.data[1])
      end    == SizeFor(header.length)
      whole  == pkt_set_crc(
                  pkt_set_payload(header, [i \in 1 .. header.length |-> d.data[4 + i]],
                                  header.length),
                  CrcAt(d.data, end - 3))
      Returns(status, packet, reads) ==
        [status |-> status, packet |-> packet, reads |-> reads]
  IN
  IF d.size < 8 \/ d.size % 4 # 0 THEN Returns("E_UNCONSISTENT", header, 4)
  ELSE IF type \notin ptypes THEN Returns("E_TYPE", header, 4)
  ELSE IF window > MAX_WINDOW_SIZE THEN Returns("E_WINDOW", header, 4)
  ELSE IF LengthOf(d.data[3], d.data[4]) > MAX_PAYLOAD_SIZE
    THEN Returns("E_LENGTH", header, 4)
  ELSE IF header.type # PTYPE_DATA /\ header.length > 0
    THEN Returns("E_UNCONSISTENT", header, 4)
  ELSE IF ~SizeAgrees(header.length, d.size)
    THEN Returns("E_UNCONSISTENT", header, 4)
  ELSE Returns(IF whole.crc = crc32([i \in 1 .. end - 4 |-> d.data[i]])
               THEN "PKT_OK" ELSE "E_CRC",
               whole, end)

LEMMA DecodeReturns ==
  ASSUME NEW d, ~(d.size < 4)
  PROVE  pkt_decode(d, pkt_new) = Returned(d, Kept(d))
<1>1. pkt_decode(d, pkt_new) = Returned(d, Header(d))
  BY DEF pkt_decode, Returned, Header
<1> QED
  BY <1>1, SettersKeep

LEMMA DecodeShort ==
  ASSUME NEW d, ~(d.size < 4), d.size < 8 \/ d.size % 4 # 0
  PROVE  pkt_decode(d, pkt_new) =
           [status |-> "E_UNCONSISTENT", packet |-> Kept(d), reads |-> 4]
  BY DecodeReturns DEF Returned

LEMMA DecodeInconsistent ==
  ASSUME NEW d \in Datagrams, ~(d.size < 4), ~Consistent(d)
  PROVE  /\ pkt_decode(d, pkt_new).status \notin {"PKT_OK", "E_CRC", "E_NOHEADER"}
         /\ pkt_decode(d, pkt_new).packet = Kept(d)
         /\ pkt_decode(d, pkt_new).reads = 4
<1> DEFINE Returns(s) == [status |-> s, packet |-> Kept(d), reads |-> 4]
           type == TypeOf(d.data[1])
           window == WindowOf(d.data[1])
<1>0. /\ window \in Int /\ MAX_WINDOW_SIZE \in Int /\ MAX_PAYLOAD_SIZE \in Int
      /\ Found(d) \in Int /\ d.size \in Nat
  <2>1. d.data[1] \in Byte
    BY ArrayBytes
  <2>2. window \in 0 .. 31 /\ Found(d) \in Nat /\ d.size \in Nat
    BY <2>1, SignedByte, JoinedLength, ArrayBytes
  <2> QED
    BY <2>2, CodecAssumption
<1>1. CASE d.size < 8 \/ d.size % 4 # 0
  BY <1>1, DecodeShort
<1>2. CASE ~(d.size < 8 \/ d.size % 4 # 0)
  <2>1. CASE type \notin ptypes
    <3>1. pkt_decode(d, pkt_new) = Returns("E_TYPE")
      BY <1>2, <2>1, DecodeReturns DEF Returned
    <3> QED
      BY <3>1
  <2>2. CASE type \in ptypes /\ window > MAX_WINDOW_SIZE
    <3>1. pkt_decode(d, pkt_new) = Returns("E_WINDOW")
      BY <1>2, <2>2, DecodeReturns DEF Returned
    <3> QED
      BY <3>1
  <2>3. CASE type \in ptypes /\ ~(window > MAX_WINDOW_SIZE) /\ Found(d) > MAX_PAYLOAD_SIZE
    <3>1. pkt_decode(d, pkt_new) = Returns("E_LENGTH")
      BY <1>2, <2>3, DecodeReturns DEF Returned, Found
    <3> QED
      BY <3>1
  <2>4. CASE type \in ptypes /\ ~(window > MAX_WINDOW_SIZE) /\ ~(Found(d) > MAX_PAYLOAD_SIZE)
    <3>0. Found(d) <= MAX_PAYLOAD_SIZE /\ window <= MAX_WINDOW_SIZE
      BY <1>0, <2>4
    <3>1. Kept(d).type = type /\ Kept(d).length = Found(d)
      BY <2>4, <3>0 DEF Kept
    <3>2. ~(type = PTYPE_DATA \/ ~(Found(d) > 0)) \/ ~SizeAgrees(Found(d), d.size)
      <4>1. d.size >= 8 /\ d.size % 4 = 0
        BY <1>0, <1>2
      <4> QED
        BY <2>4, <3>0, <4>1 DEF Consistent
    <3>3. pkt_decode(d, pkt_new) = Returns("E_UNCONSISTENT")
      BY <1>2, <2>4, <3>1, <3>2, DecodeReturns DEF Returned, Found
    <3> QED
      BY <3>3
  <2> QED
    BY <2>1, <2>2, <2>3, <2>4
<1> QED
  BY <1>1, <1>2

(* The packet that a datagram makes once its CRC is looked at. *)
Filled(d) ==
  [Kept(d) EXCEPT !.payload = Padded([i \in 1 .. Found(d) |-> d.data[4 + i]], Found(d)),
                  !.length = Found(d),
                  !.crc = CrcAt(d.data, SizeFor(Found(d)) - 3)]

LEMMA DecodeConsistent ==
  ASSUME NEW d \in Datagrams, Consistent(d)
  PROVE  /\ pkt_decode(d, pkt_new).status \in {"PKT_OK", "E_CRC"}
         /\ pkt_decode(d, pkt_new).status = "PKT_OK" <=>
              CrcAt(d.data, SizeFor(Found(d)) - 3) =
                crc32([i \in 1 .. SizeFor(Found(d)) - 4 |-> d.data[i]])
         /\ pkt_decode(d, pkt_new).packet = Filled(d)
         /\ pkt_decode(d, pkt_new).reads = SizeFor(Found(d))
<1> DEFINE type == TypeOf(d.data[1])
           window == WindowOf(d.data[1])
           bytes == [i \in 1 .. Found(d) |-> d.data[4 + i]]
           crc == CrcAt(d.data, SizeFor(Found(d)) - 3)
<1>0. window \in Nat /\ Found(d) \in Nat /\ d.size \in Nat
  <2>1. d.data[1] \in Byte
    BY ArrayBytes
  <2>2. window \in 0 .. 31 /\ Found(d) \in Nat /\ d.size \in Nat
    BY <2>1, SignedByte, JoinedLength, ArrayBytes
  <2> QED
    BY <2>2
<1>1. ~(d.size < 4) /\ ~(d.size < 8 \/ d.size % 4 # 0)
  BY <1>0 DEF Consistent
<1>2. /\ type \in ptypes /\ ~(window > MAX_WINDOW_SIZE) /\ ~(Found(d) > MAX_PAYLOAD_SIZE)
      /\ Found(d) <= MAX_PAYLOAD_SIZE
  <2>1. type \in ptypes /\ window <= MAX_WINDOW_SIZE /\ Found(d) <= MAX_PAYLOAD_SIZE
    BY DEF Consistent
  <2> QED
    BY <1>0, <2>1, CodecAssumption
<1>3. Kept(d).type = type /\ Kept(d).length = Found(d)
  BY <1>2 DEF Kept
<1>4. pkt_set_crc(pkt_set_payload(Kept(d), bytes, Found(d)), crc) = Filled(d)
  BY <1>2, <1>3 DEF pkt_set_crc, pkt_set_payload, Kept, Filled
<1>5. Filled(d).crc = crc
  BY DEF Filled, Kept
<1>6. SizeAgrees(Found(d), d.size) /\ (type = PTYPE_DATA \/ ~(Found(d) > 0))
  BY DEF Consistent
<1> DEFINE text == [i \in 1 .. SizeFor(Found(d)) - 4 |-> d.data[i]]
           accepted == IF crc = crc32(text) THEN "PKT_OK" ELSE "E_CRC"
<1>7. pkt_decode(d, pkt_new) =
        [status |-> accepted, packet |-> Filled(d), reads |-> SizeFor(Found(d))]
  BY <1>1, <1>2, <1>3, <1>4, <1>5, <1>6, DecodeReturns DEF Returned, Found
<1> QED
  BY <1>7

-----------------------------------------------------------------------------
(* What pkt_encode makes of a packet of the two loops. *)

LEMMA OwnFields ==
  ASSUME NEW p, Own(p)
  PROVE  /\ p.type \in ptypes /\ p.window \in 0 .. MAX_WINDOW_SIZE /\ p.seqnum \in Byte
         /\ p.length \in 0 .. MAX_PAYLOAD_SIZE /\ p.length \in Nat
         /\ Padding(p.length) \in 0 .. 3
         /\ SizeFor(p.length) = 8 + p.length + Padding(p.length)
         /\ SizeFor(p.length) \in Nat /\ SizeFor(p.length) % 4 = 0
         /\ SizeFor(p.length) >= 8 /\ SizeFor(p.length) <= MAX_PAYLOAD_SIZE + 8
<1>1. /\ p.type \in ptypes /\ p.window \in 0 .. MAX_WINDOW_SIZE /\ p.seqnum \in Byte
      /\ p.length \in 0 .. MAX_PAYLOAD_SIZE
  BY DatagramAssumption DEF Own
<1>2. p.length \in Nat
  BY <1>1, CodecAssumption
<1>3. /\ Padding(p.length) \in 0 .. 3
      /\ SizeFor(p.length) = 8 + p.length + Padding(p.length)
      /\ SizeFor(p.length) \in Nat /\ SizeFor(p.length) % 4 = 0
  BY <1>2, Sizes
<1>4. SizeFor(p.length) <= MAX_PAYLOAD_SIZE + 8
  BY <1>1, FitsInTheArray
<1>5. SizeFor(p.length) >= 8
  BY <1>2, <1>3
<1> QED
  BY <1>1, <1>2, <1>3, <1>4, <1>5

LEMMA TextOf ==
  ASSUME NEW p, Own(p)
  PROVE  /\ Text(p) \in [1 .. SizeFor(p.length) - 4 -> Byte]
         /\ Text(p)[1] = (p.type * 32 + p.window) % 256
         /\ Text(p)[2] = p.seqnum
         /\ Text(p)[3] = p.length \div 256 /\ Text(p)[4] = p.length % 256
         /\ \A i \in 1 .. p.length : Text(p)[4 + i] = p.payload[i]
<1> DEFINE n == p.length
           first == (p.type * 32 + p.window) % 256
           third == ntohs(n) % 256
           fourth == ntohs(n) \div 256
           ByteAt(i) == CASE i = 1 -> first
                          [] i = 2 -> p.seqnum
                          [] i = 3 -> third
                          [] i = 4 -> fourth
                          [] i \in 5 .. 4 + n -> p.payload[i - 4]
                          [] OTHER -> 0
           last == SizeFor(n) - 4
<1>1. Text(p) = [i \in 1 .. last |-> ByteAt(i)]
  BY DEF Text
<1>2. /\ n \in Nat /\ last \in Nat /\ last >= 4 + n /\ last >= 4
      /\ n \in 0 .. MAX_PAYLOAD_SIZE
  BY OwnFields
<1>3. first \in Byte
  BY OwnFields, FirstByte
<1>4. third = n \div 256 /\ fourth = n % 256 /\ third \in Byte /\ fourth \in Byte
  <2> HIDE DEF n
  <2>1. n \in 0 .. MAX_PAYLOAD_SIZE
    BY <1>2
  <2>2. /\ n \div 256 \in 0 .. 127 /\ n % 256 \in 0 .. 255
        /\ ntohs(n) % 256 = n \div 256 /\ ntohs(n) \div 256 = n % 256
    BY <2>1, SplitLength
  <2>3. 0 .. 127 \subseteq Byte /\ 0 .. 255 \subseteq Byte
    BY DEF Byte
  <2>4. third = n \div 256 /\ fourth = n % 256
    BY <2>2
  <2> HIDE DEF third, fourth
  <2> QED
    BY <2>2, <2>3, <2>4
<1>5. p.seqnum \in Byte
  BY OwnFields
<1> HIDE DEF first, third, fourth, last
<1>6. ASSUME NEW j \in 1 .. n
      PROVE  p.payload[j] \in Byte
  <2>1. n > 0 /\ j \in 1 .. n + Padding(n)
    BY <1>2, OwnFields
  <2>2. p.payload \in [1 .. n + Padding(n) -> Byte]
    BY <2>1 DEF Own
  <2> QED
    BY <2>1, <2>2
<1>7. ASSUME NEW i \in 1 .. last
      PROVE  ByteAt(i) \in Byte
  <2>1. CASE i = 1
    BY <1>3, <2>1
  <2>2. CASE i = 2
    BY <1>5, <2>2
  <2>3. CASE i = 3
    BY <1>4, <2>3
  <2>4. CASE i = 4
    BY <1>4, <2>4
  <2>5. CASE i \in 5 .. 4 + n
    <3>1. i - 4 \in 1 .. n /\ i # 1 /\ i # 2 /\ i # 3 /\ i # 4
      BY <1>2, <2>5
    <3>2. ByteAt(i) = p.payload[i - 4]
      BY <2>5, <3>1
    <3> QED
      BY <1>6, <3>1, <3>2
  <2>6. CASE i \notin {1, 2, 3, 4} /\ i \notin 5 .. 4 + n
    <3>1. ByteAt(i) = 0
      BY <2>6
    <3> QED
      BY <3>1 DEF Byte
  <2> QED
    BY <2>1, <2>2, <2>3, <2>4, <2>5, <2>6
<1>8. ASSUME NEW i \in 1 .. n
      PROVE  Text(p)[4 + i] = p.payload[i]
  <2>1. /\ 4 + i \in 1 .. last /\ 4 + i \in 5 .. 4 + n /\ (4 + i) - 4 = i
        /\ 4 + i # 1 /\ 4 + i # 2 /\ 4 + i # 3 /\ 4 + i # 4
    BY <1>2
  <2>2. ByteAt(4 + i) = p.payload[i]
    BY <2>1
  <2> QED
    BY <1>1, <2>1, <2>2
<1>9. /\ 1 \in 1 .. last /\ 2 \in 1 .. last /\ 3 \in 1 .. last /\ 4 \in 1 .. last
  BY <1>2
<1>10. ByteAt(1) = first /\ ByteAt(2) = p.seqnum /\ ByteAt(3) = third /\ ByteAt(4) = fourth
  OBVIOUS
<1>11. Text(p)[1] = first /\ Text(p)[2] = p.seqnum /\ Text(p)[3] = third /\ Text(p)[4] = fourth
  BY <1>1, <1>9, <1>10
<1> HIDE DEF ByteAt
<1>12. Text(p) \in [1 .. last -> Byte]
  BY <1>1, <1>7
<1> QED
  BY <1>4, <1>8, <1>11, <1>12 DEF first, last

LEMMA OwnEncoded ==
  ASSUME NEW p, Own(p)
  PROVE  LET e == pkt_encode(p)
         IN  /\ e \in Datagrams
             /\ e.size = SizeFor(p.length)
             /\ e.size \in 8 .. MAX_PAYLOAD_SIZE + 8
             /\ p.type # PTYPE_DATA => e.size = 8
             /\ \A i \in 1 .. e.size - 4 : e.data[i] = Text(p)[i]
             /\ \A k \in 0 .. 3 : e.data[e.size - k] = crc32(Text(p))[k]
<1> DEFINE size == SizeFor(p.length)
           max == MAX_PAYLOAD_SIZE + 8
           crc == ntohl(crc32(Text(p)))
           ByteAt(i) == IF i <= size - 4 THEN Text(p)[i]
                        ELSE IF i <= size THEN crc[i - (size - 3)]
                        ELSE 0
           data == [i \in 1 .. max |-> ByteAt(i)]
<1>1. pkt_encode(p) = [data |-> data, size |-> size]
  BY DEF pkt_encode
<1>2. size \in Nat /\ size >= 8 /\ size <= max /\ max \in Nat
  BY OwnFields, CodecAssumption
<1>3. Text(p) \in [1 .. size - 4 -> Byte]
  BY TextOf
<1>4. crc32(Text(p)) \in Word
  BY ChecksumIsAWord
<1>5. /\ \A k \in 0 .. 3 : crc[k] \in Byte
      /\ \A k \in 0 .. 3 : crc[3 - k] = crc32(Text(p))[k]
  <2>1. \A k \in 0 .. 3 : 3 - k \in 0 .. 3 /\ 3 - (3 - k) = k
    OBVIOUS
  <2> QED
    BY <1>4, <2>1 DEF ntohl, Word
<1>6. p.type # PTYPE_DATA => size = 8
  <2>1. SizeFor(0) = 8
    BY DEF SizeFor, Padding
  <2> QED
    BY <2>1 DEF Own
<1> HIDE DEF size, max, crc
<1>7. ASSUME NEW i \in 1 .. max
      PROVE  ByteAt(i) \in Byte
  <2>1. CASE i <= size - 4
    BY <1>2, <1>3, <2>1
  <2>2. CASE ~(i <= size - 4) /\ i <= size
    <3>1. i - (size - 3) \in 0 .. 3
      BY <1>2, <2>2
    <3> QED
      BY <1>5, <2>2, <3>1
  <2>3. CASE ~(i <= size - 4) /\ ~(i <= size)
    BY <2>3 DEF Byte
  <2> QED
    BY <2>1, <2>2, <2>3
<1>8. ASSUME NEW i \in 1 .. size - 4
      PROVE  data[i] = Text(p)[i]
  <2>1. i \in 1 .. max /\ i <= size - 4
    BY <1>2
  <2> QED
    BY <2>1
<1>9. ASSUME NEW k \in 0 .. 3
      PROVE  data[size - k] = crc32(Text(p))[k]
  <2>1. /\ size - k \in 1 .. max /\ ~(size - k <= size - 4) /\ size - k <= size
        /\ (size - k) - (size - 3) = 3 - k
    BY <1>2
  <2>2. data[size - k] = crc[3 - k]
    BY <2>1
  <2> QED
    BY <1>5, <2>2
<1>10. data \in Arrays
  <2> HIDE DEF ByteAt
  <2>1. data \in [1 .. max -> Byte]
    BY <1>7
  <2> QED
    BY <2>1 DEF Arrays, max
<1>11. size \in 8 .. MAX_PAYLOAD_SIZE + 8
  BY <1>2 DEF max
<1> HIDE DEF data
<1>12. pkt_encode(p) \in Datagrams
  BY <1>1, <1>2, <1>10 DEF Datagrams
<1>13. pkt_encode(p).data = data /\ pkt_encode(p).size = size
  BY <1>1
<1>14. size = SizeFor(p.length)
  BY DEF size
<1> QED
  BY <1>6, <1>8, <1>9, <1>11, <1>12, <1>13, <1>14

(* pkt_decode finds the fields of such a packet in its first four bytes, *)
(* whatever has become of the others.                                    *)
SameFirstBytes(d, e) == \A i \in 1 .. 4 : d.data[i] = e.data[i]

LEMMA OwnTold ==
  ASSUME NEW p, Own(p), NEW d \in Datagrams, SameFirstBytes(d, pkt_encode(p))
  PROVE  /\ TypeOf(d.data[1]) = p.type /\ WindowOf(d.data[1]) = p.window
         /\ Signed(d.data[2]) % 256 = p.seqnum
         /\ Found(d) = p.length
<1> DEFINE e == pkt_encode(p)
<1>1. e.size \in 8 .. MAX_PAYLOAD_SIZE + 8 /\ \A i \in 1 .. e.size - 4 : e.data[i] = Text(p)[i]
  BY OwnEncoded
<1>2. 1 \in 1 .. e.size - 4 /\ 2 \in 1 .. e.size - 4 /\ 3 \in 1 .. e.size - 4 /\ 4 \in 1 .. e.size - 4
  BY <1>1, CodecAssumption
<1>3. e.data[1] = Text(p)[1] /\ e.data[2] = Text(p)[2] /\ e.data[3] = Text(p)[3] /\ e.data[4] = Text(p)[4]
  BY <1>1, <1>2
<1>4. d.data[1] = e.data[1] /\ d.data[2] = e.data[2] /\ d.data[3] = e.data[3] /\ d.data[4] = e.data[4]
  <2>1. 1 \in 1 .. 4 /\ 2 \in 1 .. 4 /\ 3 \in 1 .. 4 /\ 4 \in 1 .. 4
    OBVIOUS
  <2> QED
    BY <2>1 DEF SameFirstBytes
<1> HIDE DEF e
<1>5. /\ d.data[1] = (p.type * 32 + p.window) % 256 /\ d.data[2] = p.seqnum
      /\ d.data[3] = p.length \div 256 /\ d.data[4] = p.length % 256
  BY <1>3, <1>4, TextOf
<1>6. /\ p.type \in ptypes /\ p.window \in 0 .. MAX_WINDOW_SIZE /\ p.seqnum \in Byte
      /\ p.length \in 0 .. MAX_PAYLOAD_SIZE /\ p.length <= MAX_PAYLOAD_SIZE
  BY OwnFields, CodecAssumption
<1>7. TypeOf(d.data[1]) = p.type /\ WindowOf(d.data[1]) = p.window
  <2>1. d.data[1] \in Byte /\ d.data[1] \div 32 = p.type /\ d.data[1] % 32 = p.window
    BY <1>5, <1>6, FirstByte
  <2> QED
    BY <2>1, SignedByte
<1>8. Signed(d.data[2]) % 256 = p.seqnum
  BY <1>5, <1>6, SignedByte
<1>9. Found(d) = p.length
  <2>1. LengthTold(d) = p.length
    BY <1>5, <1>6, SplitLength DEF LengthTold
  <2> QED
    BY <1>6, <2>1, JoinedLength
<1> QED
  BY <1>7, <1>8, <1>9

LEMMA OwnIsKept ==
  ASSUME NEW p, Own(p), NEW d \in Datagrams, SameFirstBytes(d, pkt_encode(p))
  PROVE  SameHeader(Kept(d), p)
<1>1. /\ TypeOf(d.data[1]) = p.type /\ WindowOf(d.data[1]) = p.window
      /\ Signed(d.data[2]) % 256 = p.seqnum /\ Found(d) = p.length
  BY OwnTold
<1>2. p.type \in ptypes /\ p.window <= MAX_WINDOW_SIZE /\ p.length <= MAX_PAYLOAD_SIZE
  BY OwnFields, CodecAssumption
<1> QED
  BY <1>1, <1>2 DEF Kept, SameHeader

LEMMA OwnIsConsistent ==
  ASSUME NEW p, Own(p), NEW d \in Datagrams, SameFirstBytes(d, pkt_encode(p)),
         d.size = pkt_encode(p).size
  PROVE  Consistent(d)
<1>1. /\ TypeOf(d.data[1]) = p.type /\ WindowOf(d.data[1]) = p.window
      /\ Found(d) = p.length
  BY OwnTold
<1>2. /\ p.type \in ptypes /\ p.window <= MAX_WINDOW_SIZE
      /\ p.length \in 0 .. MAX_PAYLOAD_SIZE /\ p.length <= MAX_PAYLOAD_SIZE
      /\ SizeFor(p.length) % 4 = 0 /\ SizeFor(p.length) >= 8
  BY OwnFields, CodecAssumption
<1>3. d.size = SizeFor(p.length)
  BY OwnEncoded
<1>4. p.type = PTYPE_DATA \/ ~(p.length > 0)
  BY <1>2 DEF Own
<1>5. SizeAgrees(p.length, d.size)
  BY <1>2, <1>3, FitsInTheArray DEF SizeAgrees
<1> QED
  BY <1>1, <1>2, <1>3, <1>4, <1>5 DEF Consistent

(* The text of the CRC is the same for both. *)
LEMMA SameText ==
  ASSUME NEW p, Own(p), NEW d \in Datagrams, d.size = pkt_encode(p).size,
         \A i \in 1 .. d.size - 4 : d.data[i] = pkt_encode(p).data[i]
  PROVE  /\ SameFirstBytes(d, pkt_encode(p))
         /\ [i \in 1 .. d.size - 4 |-> d.data[i]] = Text(p)
<1>1. /\ d.size = SizeFor(p.length) /\ d.size \in 8 .. MAX_PAYLOAD_SIZE + 8
      /\ \A i \in 1 .. d.size - 4 : pkt_encode(p).data[i] = Text(p)[i]
  BY OwnEncoded
<1>2. Text(p) = [i \in 1 .. d.size - 4 |-> Text(p)[i]]
  BY <1>1, TextOf
<1>3. \A i \in 1 .. d.size - 4 : d.data[i] = Text(p)[i]
  BY <1>1
<1>4. [i \in 1 .. d.size - 4 |-> d.data[i]] = [i \in 1 .. d.size - 4 |-> Text(p)[i]]
  BY <1>3
<1>5. 1 .. 4 \subseteq 1 .. d.size - 4
  BY <1>1, CodecAssumption
<1>6. SameFirstBytes(d, pkt_encode(p))
  BY <1>5 DEF SameFirstBytes
<1> QED
  BY <1>2, <1>4, <1>6

-----------------------------------------------------------------------------
(* The inductive invariant. *)

LEMMA DatagramInit == Init => Inv
  BY DEF Init, Inv, Types, Holds, WasDecoded

(* A packet of one of the loops is encoded without harm. *)
LEMMA WriteOwn ==
  ASSUME Inv, NEW p, Own(p), NEW room \in Nat, SizeFor(p.length) <= room,
         NEW peer \in {"receiver", "sender"}, peer = "sender" => p.type # PTYPE_DATA,
         Write(p, room, peer)
  PROVE  Inv' /\ undefined' = "nothing"
<1>1. /\ p.length # UNSET
      /\ ~(p.length > 0 /\ p.payload = UNSET)
  <2>1. p.length \in Nat /\ Padding(p.length) \in 0 .. 3
        /\ p.length \in 0 .. MAX_PAYLOAD_SIZE
    BY OwnFields
  <2>2. ASSUME p.length > 0
        PROVE  p.payload # UNSET
    <3>1. p.payload \in [1 .. p.length + Padding(p.length) -> Byte]
      BY <2>2 DEF Own
    <3>2. p.length + Padding(p.length) \in 0 .. MAX_PAYLOAD_SIZE
      <4>1. SizeFor(p.length) = 8 + p.length + Padding(p.length)
            /\ SizeFor(p.length) <= MAX_PAYLOAD_SIZE + 8
        BY OwnFields
      <4> QED
        BY <2>1, <4>1, CodecAssumption
    <3> QED
      BY <3>1, <3>2, DatagramAssumption
  <2> QED
    BY <2>1, <2>2, DatagramAssumption
<1>2. /\ datagram' = pkt_encode(p) /\ origin' = p /\ fate' = "intact" /\ to' = peer
      /\ overrun' = (overrun \/ SizeFor(p.length) > room)
      /\ undefined' = undefined /\ decoded' = NONE /\ undefined = "nothing"
  BY <1>1 DEF Write, Idle
<1>3. pkt_encode(p) \in Datagrams
  BY OwnEncoded
<1>4. ~(SizeFor(p.length) > room)
  <2>1. SizeFor(p.length) \in Nat
    BY OwnFields
  <2> QED
    BY <2>1
<1>5. Types'
  BY <1>2, <1>3, <1>4 DEF Inv, Types
<1>6. Holds'
  BY <1>2 DEF Holds, Arrived
<1>7. WasDecoded'
  BY <1>2 DEF WasDecoded
<1> QED
  BY <1>2, <1>5, <1>6, <1>7 DEF Inv

LEMMA Uint16Results ==
  /\ \A n \in 0 .. MAX_PAYLOAD_SIZE : Uint16(n) = n
  /\ \A n \in Int : n + 1 = 0 => Uint16(n) = 65535
<1>1. ASSUME NEW n \in 0 .. MAX_PAYLOAD_SIZE
      PROVE  Uint16(n) = n
  <2>1. n \in Nat /\ n < 65536
    BY CodecAssumption, DatagramAssumption
  <2> QED
    BY <2>1 DEF Uint16
<1>2. ASSUME NEW n \in Int, n + 1 = 0
      PROVE  Uint16(n) = 65535
  BY <1>2 DEF Uint16
<1> QED
  BY <1>1, <1>2

LEMMA PaddedBytes ==
  ASSUME NEW n \in 0 .. MAX_PAYLOAD_SIZE, NEW c \in [1 .. MAX_PAYLOAD_SIZE -> Byte]
  PROVE  /\ Padded(c, n) \in [1 .. n + Padding(n) -> Byte]
         /\ Padded(c, n) = Padded(Padded(c, n), n)
<1> DEFINE end == n + Padding(n)
           q == Padded(c, n)
           ByteAt(i) == IF i <= n THEN c[i] ELSE 0
<1>0. n \in Nat /\ MAX_PAYLOAD_SIZE \in Nat /\ n <= MAX_PAYLOAD_SIZE
  BY CodecAssumption
<1>1. n \in Nat /\ n <= MAX_PAYLOAD_SIZE /\ Padding(n) \in 0 .. 3 /\ end \in Nat
  <2>1. Padding(n) \in 0 .. 3
    BY <1>0, Sizes
  <2> QED
    BY <1>0, <2>1
<1>2. q = [i \in 1 .. end |-> ByteAt(i)]
  BY DEF Padded
<1>3. ASSUME NEW i \in 1 .. end
      PROVE  ByteAt(i) \in Byte
  <2>1. CASE i <= n
    <3>1. i \in Nat /\ i >= 1
      BY <1>1
    <3>2. i \in 1 .. MAX_PAYLOAD_SIZE
      BY <1>0, <2>1, <3>1
    <3> QED
      BY <2>1, <3>2
  <2>2. CASE ~(i <= n)
    BY <2>2 DEF Byte
  <2> QED
    BY <2>1, <2>2
<1>4. q \in [1 .. end -> Byte]
  <2> HIDE DEF ByteAt, end, q
  <2> QED
    BY <1>2, <1>3
<1>5. ASSUME NEW i \in 1 .. end
      PROVE  (IF i <= n THEN q[i] ELSE 0) = ByteAt(i)
  BY <1>2
<1>6. Padded(q, n) = [i \in 1 .. end |-> IF i <= n THEN q[i] ELSE 0]
  BY DEF Padded
<1>7. Padded(q, n) = [i \in 1 .. end |-> ByteAt(i)]
  BY <1>5, <1>6
<1> QED
  BY <1>2, <1>4, <1>7

(* A read of the file that fails has its length refused, and pkt_encode    *)
(* finds none.  After any other one the packet is complete.                *)
LEMMA SendDataStep ==
  ASSUME Inv, NEW s \in SeqNums, NEW n \in ReadResults, NEW c \in Bytes, SendData(s, n, c)
  PROVE  Inv' /\ (IF n = -1 THEN undefined' = "encode" ELSE undefined' = "nothing")
<1> DEFINE p == pkt_set_window(pkt_set_seqnum(pkt_set_type(pkt_new, PTYPE_DATA), s), 0)
           q == pkt_set_payload(pkt_set_length(p, Uint16(n)), c, Uint16(n))
<1>1. Write(q, MAX_PAYLOAD_SIZE + 8, "receiver")
  BY DEF SendData
<1>2. p = [type |-> PTYPE_DATA, window |-> 0, seqnum |-> s,
           length |-> UNSET, payload |-> UNSET, crc |-> UNSET]
  <2>1. PTYPE_DATA \in ptypes /\ 0 <= MAX_WINDOW_SIZE
    BY CodecAssumption DEF ptypes
  <2> QED
    BY <2>1 DEF pkt_set_window, pkt_set_seqnum, pkt_set_type, pkt_new
<1>3. CASE n = -1
  <2>0. n \in Int /\ n + 1 = 0
    BY <1>3
  <2>1. ~(Uint16(n) <= MAX_PAYLOAD_SIZE)
    BY <2>0, Uint16Results, CodecAssumption, DatagramAssumption
  <2>2. q = p
    BY <2>1 DEF pkt_set_payload, pkt_set_length
  <2>3. q.length = UNSET
    BY <1>2, <2>2
  <2> HIDE DEF q
  <2>4. /\ undefined' = "encode" /\ decoded' = NONE
        /\ UNCHANGED <<datagram, fate, to, overrun>> /\ to = NONE
    BY <1>1, <2>3 DEF Write, Idle
  <2>5. Types'
    BY <2>4 DEF Inv, Types
  <2> QED
    BY <1>3, <2>4, <2>5 DEF Inv, WasDecoded
<1>4. CASE n # -1
  <2>1. n \in 0 .. MAX_PAYLOAD_SIZE /\ MAX_PAYLOAD_SIZE \in Nat
    BY <1>4, CodecAssumption, DatagramAssumption
  <2>2. Uint16(n) = n
    BY <2>1, Uint16Results
  <2>3. q = [type |-> PTYPE_DATA, window |-> 0, seqnum |-> s, length |-> n,
             payload |-> Padded(c, n), crc |-> UNSET]
    <3>1. n <= MAX_PAYLOAD_SIZE
      BY <2>1
    <3>2. pkt_set_length(p, n) = [p EXCEPT !.length = n]
      BY <3>1 DEF pkt_set_length
    <3>3. q = [[p EXCEPT !.length = n] EXCEPT !.payload = Padded(c, n), !.length = n]
      BY <2>2, <3>1, <3>2 DEF pkt_set_payload
    <3> HIDE DEF p, q
    <3> QED
      BY <1>2, <3>3
  <2> HIDE DEF p, q
  <2>4. Own(q) /\ q.length = n
    <3>1. PTYPE_DATA \in ptypes /\ 0 \in 0 .. MAX_WINDOW_SIZE
      BY CodecAssumption DEF ptypes
    <3>2. c \in [1 .. MAX_PAYLOAD_SIZE -> Byte]
      BY DatagramAssumption
    <3>3. /\ Padded(c, n) \in [1 .. n + Padding(n) -> Byte]
          /\ Padded(c, n) = Padded(Padded(c, n), n)
      BY <2>1, <3>2, PaddedBytes
    <3> QED
      BY <2>1, <2>3, <3>1, <3>3 DEF Own
  <2>5. SizeFor(q.length) <= MAX_PAYLOAD_SIZE + 8
    BY <2>1, <2>4, FitsInTheArray
  <2>6. MAX_PAYLOAD_SIZE + 8 \in Nat /\ "receiver" # "sender"
    BY <2>1
  <2>7. Inv' /\ undefined' = "nothing"
    BY <1>1, <2>4, <2>5, <2>6, WriteOwn
  <2> QED
    BY <1>4, <2>7
<1> QED
  BY <1>3, <1>4

LEMMA SendAnswerStep ==
  ASSUME Inv, NEW t \in {PTYPE_ACK, PTYPE_NACK}, NEW s \in SeqNums, NEW w \in Windows,
         SendAnswer(t, s, w)
  PROVE  Inv' /\ undefined' = "nothing"
<1> DEFINE p == pkt_set_seqnum(pkt_set_window(pkt_set_type(pkt_new, t), w), s)
           q == pkt_set_length(p, 0)
<1>1. Write(q, 8, "sender")
  BY DEF SendAnswer
<1>2. /\ t \in ptypes /\ t # PTYPE_DATA
      /\ w \in 0 .. MAX_WINDOW_SIZE /\ w <= MAX_WINDOW_SIZE
      /\ 0 <= MAX_PAYLOAD_SIZE /\ 0 \in 0 .. MAX_PAYLOAD_SIZE
  BY CodecAssumption, DatagramAssumption DEF ptypes, PTYPE_DATA, PTYPE_ACK, PTYPE_NACK
<1>3. q = [type |-> t, window |-> w, seqnum |-> s, length |-> 0,
           payload |-> UNSET, crc |-> UNSET]
  BY <1>2 DEF pkt_set_length, pkt_set_seqnum, pkt_set_window, pkt_set_type, pkt_new
<1>4. Own(q) /\ q.type # PTYPE_DATA /\ q.length = 0
  BY <1>2, <1>3 DEF Own
<1>5. SizeFor(0) = 8
  BY DEF SizeFor, Padding
<1> HIDE DEF q
<1> QED
  BY <1>1, <1>4, <1>5, WriteOwn

LEMMA SendForeignStep ==
  ASSUME Inv, NEW d \in Foreign, NEW peer \in {"receiver", "sender"}, SendForeign(d, peer)
  PROVE  Inv' /\ undefined' = "nothing"
<1>1. d \in Datagrams
  BY DatagramAssumption DEF Datagrams
<1>2. /\ datagram' = d /\ origin' = NONE /\ fate' = "intact" /\ to' = peer
      /\ decoded' = NONE /\ UNCHANGED <<overrun, undefined>> /\ undefined = "nothing"
  BY DEF SendForeign, Idle
<1> QED
  BY <1>1, <1>2 DEF Inv, Types, Holds, WasDecoded

LEMMA CutStep ==
  ASSUME Inv, Cut
  PROVE  Inv'
<1>1. /\ to = "receiver" /\ fate = "intact" /\ origin # NONE
      /\ datagram' = [datagram EXCEPT !.size = 4]
      /\ fate' = "cut"
      /\ UNCHANGED <<origin, to, decoded, overrun, undefined>>
  BY DEF Cut, Underway
<1>2. undefined # "encode" /\ datagram \in Datagrams
  BY <1>1, DatagramAssumption DEF Inv, Types
<1>3. datagram = pkt_encode(origin)
  BY <1>1, <1>2 DEF Inv, Holds, Arrived
<1>4. datagram' \in Datagrams
  BY <1>1, <1>2 DEF Datagrams
<1>5. Types'
  BY <1>1, <1>4 DEF Inv, Types
<1>6. Holds'
  BY <1>1, <1>2, <1>3 DEF Inv, Holds, Arrived
<1>7. WasDecoded'
  BY <1>1, DatagramAssumption DEF Inv, WasDecoded
<1> QED
  BY <1>5, <1>6, <1>7 DEF Inv

(* The last byte is not what it was, the others are. *)
LEMMA InvertedBytes ==
  ASSUME NEW p, Own(p), NEW e, e = pkt_encode(p)
  PROVE  /\ Inverted(e) \in Datagrams /\ Inverted(e).size = e.size
         /\ \A i \in 1 .. e.size - 4 : Inverted(e).data[i] = e.data[i]
         /\ Inverted(e).data[e.size] # e.data[e.size]
<1> DEFINE last == e.data[e.size]
           data == [e.data EXCEPT ![e.size] = 255 - last]
<1>1. e \in Datagrams /\ e.size \in 8 .. MAX_PAYLOAD_SIZE + 8 /\ e.size \in Nat
  BY OwnEncoded, CodecAssumption
<1>2. e.size \in 1 .. MAX_PAYLOAD_SIZE + 8
  BY <1>1, CodecAssumption
<1>3. e.data \in Arrays /\ last \in Byte
  BY <1>1, <1>2, ArrayBytes
<1> HIDE DEF last
<1>4. 255 - last \in Byte /\ 255 - last # last
  BY <1>3 DEF Byte
<1>5. data \in Arrays
  BY <1>3, <1>4 DEF Arrays
<1>6. Inverted(e) = [e EXCEPT !.data = data]
  BY DEF Inverted, last
<1>7. /\ data[e.size] = 255 - last
      /\ \A i \in 1 .. e.size - 4 : data[i] = e.data[i]
  <2>1. DOMAIN e.data = 1 .. MAX_PAYLOAD_SIZE + 8
    BY <1>3 DEF Arrays
  <2>2. data[e.size] = 255 - last
    BY <1>2, <2>1
  <2>3. ASSUME NEW i \in 1 .. e.size - 4
        PROVE  data[i] = e.data[i]
    <3>1. i \in 1 .. MAX_PAYLOAD_SIZE + 8 /\ i # e.size
      BY <1>1, CodecAssumption
    <3> QED
      BY <2>1, <3>1
  <2> QED
    BY <2>2, <2>3
<1> HIDE DEF data
<1>8. Inverted(e) \in Datagrams /\ Inverted(e).size = e.size /\ Inverted(e).data = data
  BY <1>1, <1>5, <1>6 DEF Datagrams
<1> QED
  BY <1>4, <1>7, <1>8 DEF last

LEMMA DamageStep ==
  ASSUME Inv, Damage
  PROVE  Inv'
<1>1. /\ to = "receiver" /\ fate = "intact" /\ origin # NONE
      /\ datagram' = [datagram EXCEPT !.data[datagram.size] = 255 - @]
      /\ fate' = "damaged"
      /\ UNCHANGED <<origin, to, decoded, overrun, undefined>>
  BY DEF Damage, Underway
<1>2. undefined # "encode" /\ datagram \in Datagrams
  BY <1>1, DatagramAssumption DEF Inv, Types
<1>3. datagram = pkt_encode(origin) /\ Own(origin)
  BY <1>1, <1>2 DEF Inv, Holds, Arrived
<1>4. datagram' = Inverted(datagram)
  BY <1>1 DEF Inverted
<1>5. datagram' \in Datagrams
  BY <1>2, <1>3, <1>4, InvertedBytes
<1>6. Types'
  BY <1>1, <1>5 DEF Inv, Types
<1>7. Holds'
  <2>1. Arrived(origin)' = Inverted(pkt_encode(origin))
    BY <1>1 DEF Arrived
  <2>2. datagram' = Arrived(origin)'
    BY <1>3, <1>4, <2>1
  <2> QED
    BY <1>1, <1>3, <2>2 DEF Holds
<1>8. WasDecoded'
  BY <1>1, DatagramAssumption DEF Inv, WasDecoded
<1> QED
  BY <1>6, <1>7, <1>8 DEF Inv

(* Of the size of what the loops encode, linksim leaves all or 4 bytes. *)
LEMMA ArrivedSize ==
  ASSUME Inv, undefined # "encode", origin # NONE, fate # "failed"
  PROVE  /\ datagram.size \in {pkt_encode(origin).size, 4}
         /\ pkt_encode(origin).size \in 8 .. MAX_PAYLOAD_SIZE + 8
         /\ origin.type # PTYPE_DATA => pkt_encode(origin).size = 8
<1>1. Own(origin) /\ datagram = Arrived(origin) /\ fate \in {"intact", "cut", "damaged"}
  BY DEF Inv, Types, Holds
<1>2. /\ pkt_encode(origin) \in Datagrams
      /\ pkt_encode(origin).size \in 8 .. MAX_PAYLOAD_SIZE + 8
      /\ origin.type # PTYPE_DATA => pkt_encode(origin).size = 8
  BY <1>1, OwnEncoded
<1>3. Inverted(pkt_encode(origin)).size = pkt_encode(origin).size
  BY <1>1, InvertedBytes
<1>4. [pkt_encode(origin) EXCEPT !.size = 4].size = 4
  BY <1>2 DEF Datagrams
<1> QED
  BY <1>1, <1>2, <1>3, <1>4 DEF Arrived

(* The array of the reader has room for all that the loops encode. *)
LEMMA NothingThrownAway ==
  ASSUME Inv, undefined # "encode", origin # NONE, fate # "failed", NEW room \in Nat,
         room = MAX_PAYLOAD_SIZE + 8 \/ (room = 8 /\ origin.type # PTYPE_DATA)
  PROVE  Got(room) = datagram
<1> DEFINE size == pkt_encode(origin).size
<1>1. /\ datagram.size \in {size, 4} /\ size \in 8 .. MAX_PAYLOAD_SIZE + 8
      /\ origin.type # PTYPE_DATA => size = 8
  BY ArrivedSize
<1> HIDE DEF size
<1>2. ~(datagram.size > room)
  BY <1>1, CodecAssumption
<1> QED
  BY <1>2 DEF Got

LEMMA GotDatagram ==
  ASSUME datagram \in Datagrams, NEW room \in Nat
  PROVE  /\ Got(room) \in Datagrams
         /\ Got(room).size <= room
         /\ Got(room).size < 4 /\ room >= 4 => datagram.size < 4
  BY DEF Got, Datagrams

(* What both readers do to the array. *)
LEMMA ReadStep ==
  ASSUME Inv, to \in {"receiver", "sender"}, NEW room \in Nat, room <= MAX_PAYLOAD_SIZE + 8,
         room = MAX_PAYLOAD_SIZE + 8 \/ (room = 8 /\ to = "sender"),
         datagram' = Got(room), decoded' = pkt_decode(datagram', pkt_new), to' = NONE,
         UNCHANGED <<origin, fate, overrun>>, undefined' \in {undefined, "free"}
  PROVE  Inv'
<1>1. to # NONE /\ fate # "failed" /\ undefined = "nothing" /\ datagram \in Datagrams
  BY DatagramAssumption DEF Inv, Types
<1>2. datagram' \in Datagrams /\ datagram'.size <= room
  BY <1>1, GotDatagram
<1>3. datagram'.size <= MAX_PAYLOAD_SIZE + 8
  BY <1>2, CodecAssumption DEF Datagrams
<1>4. origin # NONE => datagram' = datagram
  BY <1>1, NothingThrownAway DEF Inv, Holds
<1>5. Types'
  BY <1>1, <1>2 DEF Inv, Types
<1>6. Holds'
  BY <1>1, <1>4, DatagramAssumption DEF Inv, Holds, Arrived
<1>7. WasDecoded'
  BY <1>1, <1>3 DEF WasDecoded
<1> QED
  BY <1>1, <1>5, <1>6, <1>7 DEF Inv

(* Only a datagram without a header has its packet freed without a         *)
(* payload, and no datagram of the loops is so short.                      *)
LEMMA ReceiverReadsStep ==
  ASSUME Inv, ReceiverReads
  PROVE  Inv' /\ (undefined' # undefined =>
                   undefined' = "free" /\ origin = NONE /\ datagram.size < 4)
<1> DEFINE room == MAX_PAYLOAD_SIZE + 8
<1>1. /\ to = "receiver" /\ datagram' = Got(room)
      /\ decoded' = pkt_decode(datagram', pkt_new) /\ to' = NONE
      /\ Dispose(decoded'.packet, decoded'.status)
      /\ UNCHANGED <<origin, fate, overrun>>
  BY DEF ReceiverReads, Decodes
<1>2. room \in Nat /\ room >= 4 /\ room <= MAX_PAYLOAD_SIZE + 8
  BY CodecAssumption
<1>3. datagram \in Datagrams /\ undefined = "nothing" /\ fate # "failed"
  BY <1>1, DatagramAssumption DEF Inv, Types
<1>4. datagram' \in Datagrams
  BY <1>1, <1>2, <1>3, GotDatagram
<1>5. CASE datagram'.size < 4
  <2>1. datagram.size < 4
    BY <1>1, <1>2, <1>3, <1>5, GotDatagram
  <2>2. decoded' = [status |-> "E_NOHEADER", packet |-> pkt_new, reads |-> 0]
    BY <1>1, <1>5, DecodeNothing
  <2>3. undefined' \in {undefined, "free"}
    BY <1>1, <2>2 DEF Dispose, pkt_del
  <2>4. ASSUME origin # NONE
        PROVE  FALSE
    <3>1. /\ datagram.size \in {pkt_encode(origin).size, 4}
          /\ pkt_encode(origin).size \in 8 .. MAX_PAYLOAD_SIZE + 8
      BY <1>3, <2>4, ArrivedSize
    <3> QED
      BY <2>1, <3>1, CodecAssumption
  <2> QED
    BY <1>1, <1>2, <2>1, <2>3, <2>4, ReadStep
<1>6. CASE ~(datagram'.size < 4)
  <2>1. decoded'.status # "E_NOHEADER"
    <3>1. CASE Consistent(datagram')
      BY <1>1, <1>4, <3>1, DecodeConsistent
    <3>2. CASE ~Consistent(datagram')
      BY <1>1, <1>4, <1>6, <3>2, DecodeInconsistent
    <3> QED
      BY <3>1, <3>2
  <2>2. undefined' = undefined
    BY <1>1, <2>1 DEF Dispose
  <2> QED
    BY <1>1, <1>2, <2>2, ReadStep
<1> QED
  BY <1>5, <1>6

LEMMA SenderReadsStep ==
  ASSUME Inv, SenderReads
  PROVE  Inv'
<1>1. 8 \in Nat /\ 8 <= MAX_PAYLOAD_SIZE + 8
  BY CodecAssumption
<1> QED
  BY <1>1, ReadStep DEF SenderReads, Decodes

(* SIZE_MAX is no multiple of 4. *)
LEMMA StaleIsInconsistent ==
  ASSUME NEW d \in Datagrams
  PROVE  pkt_decode(Stale(d), pkt_new) =
           [status |-> "E_UNCONSISTENT", packet |-> Kept(Stale(d)), reads |-> 4]
<1>1. Stale(d).size = SIZE_MAX
  BY DEF Stale, Datagrams
<1>2. SIZE_MAX \in Nat /\ SIZE_MAX % 65536 = 65535
  BY CodecAssumption
<1>3. SIZE_MAX % 4 # 0 /\ ~(SIZE_MAX < 4)
  BY <1>2
<1> QED
  BY <1>1, <1>3, DecodeShort

LEMMA ReadFailsStep ==
  ASSUME Inv, ReadFails
  PROVE  Inv' /\ undefined' = "nothing"
<1>1. /\ to = NONE /\ undefined = "nothing"
      /\ datagram' \in (IF datagram = NONE THEN Unwritten ELSE {datagram})
      /\ decoded' = pkt_decode(Stale(datagram'), pkt_new) /\ to' = NONE
      /\ Dispose(decoded'.packet, decoded'.status)
      /\ fate' = "failed"
      /\ UNCHANGED <<origin, overrun>>
  BY DEF ReadFails, Idle, Decodes
<1>2. datagram' \in Datagrams
  <2>1. CASE datagram = NONE
    <3>1. PICK d \in Foreign : datagram' = [d EXCEPT !.size = 0]
      BY <1>1, <2>1 DEF Unwritten
    <3>2. d \in Datagrams
      BY DatagramAssumption DEF Datagrams
    <3> QED
      BY <3>1, <3>2 DEF Datagrams
  <2>2. CASE datagram # NONE
    BY <1>1, <2>2 DEF Inv, Types
  <2> QED
    BY <2>1, <2>2
<1>3. decoded'.status = "E_UNCONSISTENT"
  BY <1>1, <1>2, StaleIsInconsistent
<1>4. undefined' = undefined
  BY <1>1, <1>3 DEF Dispose
<1>5. Types'
  BY <1>1, <1>2, <1>4 DEF Inv, Types
<1>6. Holds'
  BY <1>1, DatagramAssumption DEF Inv, Holds, Arrived
<1>7. WasDecoded'
  BY <1>1 DEF WasDecoded
<1> QED
  BY <1>1, <1>4, <1>5, <1>6, <1>7 DEF Inv

LEMMA DatagramStep ==
  ASSUME Inv, [Next]_vars
  PROVE  Inv'
<1>1. CASE UNCHANGED vars
  BY <1>1 DEF vars, Inv, Types, Holds, Arrived, WasDecoded
<1>2. CASE OwnSend
  BY <1>2, SendDataStep, SendAnswerStep DEF OwnSend
<1>3. CASE ForeignSend
  BY <1>3, SendForeignStep DEF ForeignSend
<1>4. CASE Proceed
  BY <1>4, CutStep, DamageStep, ReceiverReadsStep, SenderReadsStep, ReadFailsStep DEF Proceed
<1> QED
  BY <1>1, <1>2, <1>3, <1>4 DEF Next

LEMMA DatagramInv == Spec => []Inv
  BY DatagramInit, DatagramStep, PTL DEF Spec

-----------------------------------------------------------------------------
(* The theorems. *)

(* What was read, without the history. *)
LEMMA ReadFacts ==
  ASSUME Inv, HasRead
  PROVE  /\ undefined # "encode" /\ datagram \in Datagrams /\ datagram.size \in Nat
         /\ fate = "failed" => decoded = pkt_decode(Stale(datagram), pkt_new)
         /\ fate # "failed" => /\ decoded = pkt_decode(datagram, pkt_new)
                               /\ datagram.size <= MAX_PAYLOAD_SIZE + 8
         /\ Holds
  BY DEF Inv, Types, WasDecoded, HasRead, Datagrams

(* The CRC at the end of a datagram is that of what comes before it. *)
CrcHolds(d) ==
  LET crc == crc32([i \in 1 .. d.size - 4 |-> d.data[i]])
  IN  \A k \in 0 .. 3 : d.data[d.size - k] = crc[k]

LEMMA ReadCrc ==
  ASSUME NEW d \in Datagrams, d.size \in 8 .. MAX_PAYLOAD_SIZE + 8
  PROVE  CrcAt(d.data, d.size - 3) = crc32([i \in 1 .. d.size - 4 |-> d.data[i]])
           <=> CrcHolds(d)
<1> DEFINE text == [i \in 1 .. d.size - 4 |-> d.data[i]]
           found == CrcAt(d.data, d.size - 3)
<1>1. d.size \in 4 .. MAX_PAYLOAD_SIZE + 8
  BY CodecAssumption
<1>2. found \in Word /\ \A k \in 0 .. 3 : found[k] = d.data[d.size - k]
  BY <1>1, FoundCrc
<1>3. crc32(text) \in Word
  BY ChecksumIsAWord
<1>4. CrcHolds(d) <=> \A k \in 0 .. 3 : d.data[d.size - k] = crc32(text)[k]
  BY DEF CrcHolds
<1> HIDE DEF text, found
<1>5. found = crc32(text) <=> \A k \in 0 .. 3 : found[k] = crc32(text)[k]
  BY <1>2, <1>3 DEF Word
<1>6. found = crc32(text) <=> CrcHolds(d)
  BY <1>2, <1>4, <1>5
<1> QED
  BY <1>6 DEF text, found

LEMMA OwnCrcHolds ==
  ASSUME NEW p, Own(p)
  PROVE  CrcHolds(pkt_encode(p))
<1> DEFINE e == pkt_encode(p)
<1>1. e \in Datagrams /\ \A k \in 0 .. 3 : e.data[e.size - k] = crc32(Text(p))[k]
  BY OwnEncoded
<1>2. [i \in 1 .. e.size - 4 |-> e.data[i]] = Text(p)
  BY <1>1, SameText
<1> HIDE DEF e
<1>3. CrcHolds(e)
  BY <1>1, <1>2 DEF CrcHolds
<1> QED
  BY <1>3 DEF e

(* Every packet that the two loops send, of whatever length and with       *)
(* whatever bytes, comes out of pkt_decode as it went into pkt_encode: the *)
(* signed chars that it is taken apart and put together from lose nothing. *)
THEOREM PacketsComeThrough == Spec => []RoundTrip
<1>1. ASSUME Inv, OwnRead, fate = "intact"
      PROVE  /\ decoded.status = "PKT_OK"
             /\ SameHeader(decoded.packet, origin)
             /\ origin.length > 0 => decoded.packet.payload = origin.payload
  <2> DEFINE e == pkt_encode(origin)
             n == origin.length
  <2>1. decoded = pkt_decode(e, pkt_new) /\ Own(origin)
    BY <1>1, ReadFacts DEF OwnRead, Holds, Arrived
  <2>2. e \in Datagrams /\ e.size \in 8 .. MAX_PAYLOAD_SIZE + 8 /\ e.size = SizeFor(n)
    BY <2>1, OwnEncoded
  <2>3. SameFirstBytes(e, e) /\ e.size = e.size
    BY DEF SameFirstBytes
  <2>4. Consistent(e) /\ Found(e) = n /\ SameHeader(Kept(e), origin)
    BY <2>1, <2>2, <2>3, OwnIsConsistent, OwnTold, OwnIsKept
  <2>5. CrcAt(e.data, e.size - 3) = crc32([i \in 1 .. e.size - 4 |-> e.data[i]])
    BY <2>1, <2>2, OwnCrcHolds, ReadCrc
  <2>6. n > 0 => Padded([i \in 1 .. n |-> e.data[4 + i]], n) = origin.payload
    <3> SUFFICES ASSUME n > 0
                 PROVE  Padded([i \in 1 .. n |-> e.data[4 + i]], n) = origin.payload
      OBVIOUS
    <3> DEFINE bytes == [i \in 1 .. n |-> e.data[4 + i]]
               end == n + Padding(n)
    <3>1. /\ n \in Nat /\ Padding(n) \in 0 .. 3
          /\ e.size = 8 + n + Padding(n)
      BY <2>1, <2>2, OwnFields
    <3>2. ASSUME NEW i \in 1 .. n
          PROVE  e.data[4 + i] = origin.payload[i]
      <4>1. 4 + i \in 1 .. e.size - 4
        BY <3>1
      <4>2. e.data[4 + i] = Text(origin)[4 + i]
        BY <2>1, <4>1, OwnEncoded
      <4> QED
        BY <2>1, <4>2, TextOf
    <3>3. origin.payload = Padded(origin.payload, n)
      BY <2>1 DEF Own
    <3>4. ASSUME NEW i \in 1 .. end
          PROVE  (IF i <= n THEN bytes[i] ELSE 0) = (IF i <= n THEN origin.payload[i] ELSE 0)
      <4>1. CASE i <= n
        <5>1. i \in 1 .. n
          BY <3>1, <4>1
        <5> QED
          BY <3>2, <5>1
      <4>2. CASE ~(i <= n)
        BY <4>2
      <4> QED
        BY <4>1, <4>2
    <3> HIDE DEF bytes
    <3>5. Padded(bytes, n) = Padded(origin.payload, n)
      BY <3>4 DEF Padded
    <3> QED
      BY <3>3, <3>5 DEF bytes
  <2> HIDE DEF e, n
  <2>7. decoded.status = "PKT_OK" /\ decoded.packet = Filled(e)
    BY <2>1, <2>2, <2>4, <2>5, DecodeConsistent
  <2>8. decoded.packet = [Kept(e) EXCEPT !.payload = Padded([i \in 1 .. n |-> e.data[4 + i]], n),
                                         !.length = n, !.crc = CrcAt(e.data, e.size - 3)]
    BY <2>2, <2>4, <2>7 DEF Filled
  <2> DEFINE payload == Padded([i \in 1 .. n |-> e.data[4 + i]], n)
  <2>9. decoded.packet.payload = payload
    <3> HIDE DEF payload
    <3> QED
      BY <2>8 DEF Kept, payload
  <2>10. SameHeader(decoded.packet, origin)
    <3>1. Kept(e).type = origin.type /\ Kept(e).window = origin.window
          /\ Kept(e).seqnum = origin.seqnum /\ n = origin.length
      BY <2>4 DEF SameHeader, n
    <3> HIDE DEF payload
    <3>2. decoded.packet.type = Kept(e).type /\ decoded.packet.window = Kept(e).window
          /\ decoded.packet.seqnum = Kept(e).seqnum /\ decoded.packet.length = n
      BY <2>8 DEF Kept
    <3> QED
      BY <3>1, <3>2 DEF SameHeader
  <2> QED
    BY <2>6, <2>7, <2>9, <2>10 DEF n
<1>2. Inv => RoundTrip
  BY <1>1 DEF RoundTrip
<1> QED
  BY <1>2, DatagramInv, PTL

(* The bytes that linksim inverts or cuts off are missed by the check that *)
(* the receiver expects to miss them, and a read that fails brings no      *)
(* packet back, not even the first one.                                    *)
THEOREM DamageIsSeen == Spec => []DamageIsNoticed
<1>1. ASSUME Inv, HasRead, fate = "cut"
      PROVE  decoded.status = "E_UNCONSISTENT" /\ datagram.size = 4 /\ SameHeader(decoded.packet, origin)
  <2>1. /\ datagram \in Datagrams /\ decoded = pkt_decode(datagram, pkt_new)
        /\ Own(origin) /\ datagram = [pkt_encode(origin) EXCEPT !.size = 4]
    BY <1>1, ReadFacts DEF Holds, Arrived
  <2>2. datagram.size = 4 /\ datagram.data = pkt_encode(origin).data
    BY <2>1, OwnEncoded DEF Datagrams
  <2>3. ~(datagram.size < 4) /\ datagram.size < 8
    BY <2>2
  <2>4. decoded = [status |-> "E_UNCONSISTENT", packet |-> Kept(datagram), reads |-> 4]
    BY <2>1, <2>3, DecodeShort
  <2>5. SameFirstBytes(datagram, pkt_encode(origin))
    BY <2>2 DEF SameFirstBytes
  <2> QED
    BY <2>1, <2>2, <2>4, <2>5, OwnIsKept
<1>2. ASSUME Inv, HasRead, fate = "damaged"
      PROVE  decoded.status = "E_CRC" /\ SameHeader(decoded.packet, origin)
  <2> DEFINE e == pkt_encode(origin)
  <2>1. /\ datagram \in Datagrams /\ decoded = pkt_decode(datagram, pkt_new)
        /\ Own(origin) /\ datagram = Inverted(e)
    BY <1>2, ReadFacts DEF Holds, Arrived
  <2>2. /\ datagram.size = e.size
        /\ \A i \in 1 .. datagram.size - 4 : datagram.data[i] = e.data[i]
        /\ datagram.data[e.size] # e.data[e.size]
    BY <2>1, InvertedBytes
  <2>3. SameFirstBytes(datagram, e) /\ [i \in 1 .. datagram.size - 4 |-> datagram.data[i]] = Text(origin)
    BY <2>1, <2>2, SameText
  <2>4. Consistent(datagram) /\ Found(datagram) = origin.length /\ SameHeader(Kept(datagram), origin)
    BY <2>1, <2>2, <2>3, OwnIsConsistent, OwnTold, OwnIsKept
  <2>5. datagram.size = SizeFor(origin.length) /\ datagram.size \in 8 .. MAX_PAYLOAD_SIZE + 8
    BY <2>1, <2>2, OwnEncoded
  <2>6. ~CrcHolds(datagram)
    <3>1. e.data[e.size - 0] = crc32(Text(origin))[0] /\ e.size \in 8 .. MAX_PAYLOAD_SIZE + 8
      BY <2>1, OwnEncoded
    <3>2. e.size - 0 = e.size
      BY <3>1, CodecAssumption
    <3> HIDE DEF e
    <3>3. datagram.data[datagram.size - 0] # crc32(Text(origin))[0]
      BY <2>2, <3>1, <3>2
    <3>4. crc32([i \in 1 .. datagram.size - 4 |-> datagram.data[i]]) = crc32(Text(origin))
      BY <2>3
    <3>5. ASSUME CrcHolds(datagram)
          PROVE  datagram.data[datagram.size - 0] =
                   crc32([i \in 1 .. datagram.size - 4 |-> datagram.data[i]])[0]
      <4>1. 0 \in 0 .. 3
        OBVIOUS
      <4> QED
        BY <3>5, <4>1, Zenon DEF CrcHolds
    <3> QED
      BY <3>3, <3>4, <3>5
  <2> HIDE DEF e
  <2>7. CrcAt(datagram.data, datagram.size - 3) #
          crc32([i \in 1 .. datagram.size - 4 |-> datagram.data[i]])
    BY <2>1, <2>5, <2>6, ReadCrc
  <2>8. /\ decoded.status = "E_CRC"
        /\ decoded.packet = Filled(datagram)
    BY <2>1, <2>4, <2>5, <2>7, DecodeConsistent
  <2>9. SameHeader(decoded.packet, origin)
    BY <2>4, <2>8 DEF SameHeader, Kept, Filled
  <2> QED
    BY <2>8, <2>9
<1>3. ASSUME Inv, HasRead, fate = "failed"
      PROVE  decoded.status = "E_UNCONSISTENT"
  BY <1>3, ReadFacts, StaleIsInconsistent
<1>4. Inv => DamageIsNoticed
  BY <1>1, <1>2, <1>3 DEF DamageIsNoticed
<1> QED
  BY <1>4, DatagramInv, PTL

(* The checks before that of the CRC, in terms of what the bytes say. *)
LEMMA ConsistentIsWellFormed ==
  ASSUME NEW d \in Datagrams, d.size <= MAX_PAYLOAD_SIZE + 8, CrcHolds(d)
  PROVE  Consistent(d) <=> WellFormed(d)
<1> DEFINE type == TypeOf(d.data[1])
           window == WindowOf(d.data[1])
           lo == d.data[4]
           size == d.size
           found == Found(d)
           length == LengthTold(d)
<1>1. /\ size \in Nat /\ lo \in Nat /\ d.data[1] \in Byte
      /\ d.data[3] \in Nat
  <2>1. d.data[1] \in Byte /\ d.data[3] \in Byte /\ d.data[4] \in Byte /\ d.size \in Nat
    BY ArrayBytes
  <2>2. \A byte \in Byte : byte \in Nat
    BY DEF Byte
  <2> QED
    BY <2>1, <2>2
<1>2. size % 65536 = size
  <2>1. size < 65536
    BY <1>1, CodecAssumption, DatagramAssumption
  <2> QED
    BY <1>1, <2>1
<1>3. /\ length \in Nat /\ found \in Nat
      /\ found <= MAX_PAYLOAD_SIZE <=> length <= MAX_PAYLOAD_SIZE
      /\ found <= MAX_PAYLOAD_SIZE => found = length
  BY JoinedLength
<1>4. type = TypeTold(d) /\ window = WindowTold(d)
  BY <1>1, SignedByte DEF TypeTold, WindowTold
<1>5. \A padding \in 0 .. 3 : (lo + padding) % 4 = (length + padding) % 4
  <2>1. length = d.data[3] * 256 + lo
    BY DEF LengthTold
  <2> HIDE DEF length, lo
  <2> QED
    BY <1>1, <2>1
<1>6. /\ Padding(length) \in 0 .. 3 /\ (length + Padding(length)) % 4 = 0
      /\ SizeFor(length) = 8 + length + Padding(length) /\ SizeFor(length) % 4 = 0
  BY <1>3, Sizes
<1> HIDE DEF length, found, lo, type, window
<1>7. SizeFor(length) = size <=>
        \E padding \in 0 .. 3 : (lo + padding) % 4 = 0 /\ size = 8 + length + padding
  <2>1. ASSUME SizeFor(length) = size
        PROVE  \E padding \in 0 .. 3 : (lo + padding) % 4 = 0 /\ size = 8 + length + padding
    <3>1. (lo + Padding(length)) % 4 = 0
      BY <1>5, <1>6
    <3>2. size = 8 + length + Padding(length)
      BY <1>6, <2>1
    <3> QED
      BY <1>6, <3>1, <3>2
  <2>2. ASSUME NEW padding \in 0 .. 3, (lo + padding) % 4 = 0, size = 8 + length + padding
        PROVE  SizeFor(length) = size
    <3>1. (length + padding) % 4 = 0
      BY <1>5, <2>2
    <3>2. padding = Padding(length)
      BY <1>3, <3>1, PaddingIsUnique
    <3> QED
      BY <1>6, <2>2, <3>2
  <2> QED
    BY <2>1, <2>2
<1>8. WellFormed(d) <=>
        /\ size >= 8 /\ type \in ptypes /\ window <= MAX_WINDOW_SIZE
        /\ length <= MAX_PAYLOAD_SIZE
        /\ type = PTYPE_DATA \/ length = 0
        /\ SizeFor(length) = size
  BY <1>4, <1>7 DEF WellFormed, CrcHolds, length, lo
<1>9. Consistent(d) <=>
        /\ size >= 8 /\ size % 4 = 0 /\ type \in ptypes /\ window <= MAX_WINDOW_SIZE
        /\ found <= MAX_PAYLOAD_SIZE
        /\ type = PTYPE_DATA \/ ~(found > 0)
        /\ SizeFor(found) = size
  BY <1>2 DEF Consistent, SizeAgrees, found, type, window
<1>10. ASSUME length <= MAX_PAYLOAD_SIZE
       PROVE  found = length /\ (length = 0 <=> ~(found > 0))
  BY <1>3, <1>10
<1> QED
  BY <1>3, <1>6, <1>8, <1>9, <1>10

(* Whoever it comes from, a datagram is accepted if and only if it is well *)
(* formed: no check is missing, none refuses a packet of the protocol.     *)
THEOREM TheWellFormedAreAccepted == Spec => []AcceptsTheWellFormed
<1>1. ASSUME Inv, HasRead, fate # "failed"
      PROVE  decoded.status = "PKT_OK" <=> WellFormed(datagram)
  <2>1. /\ datagram \in Datagrams /\ decoded = pkt_decode(datagram, pkt_new)
        /\ datagram.size \in Nat /\ datagram.size <= MAX_PAYLOAD_SIZE + 8
    BY <1>1, ReadFacts
  <2>2. CASE datagram.size < 4
    <3>1. ~WellFormed(datagram)
      BY <2>1, <2>2 DEF WellFormed
    <3>2. decoded.status = "E_NOHEADER"
      BY <2>1, <2>2, DecodeNothing
    <3> QED
      BY <3>1, <3>2
  <2>3. CASE ~(datagram.size < 4) /\ ~Consistent(datagram)
    <3>1. decoded.status # "PKT_OK"
      BY <2>1, <2>3, DecodeInconsistent
    <3>2. WellFormed(datagram) => CrcHolds(datagram)
      BY DEF WellFormed, CrcHolds
    <3>3. ~WellFormed(datagram)
      BY <2>1, <2>3, <3>2, ConsistentIsWellFormed
    <3> QED
      BY <3>1, <3>3
  <2>4. CASE Consistent(datagram)
    <3>1. datagram.size \in 8 .. MAX_PAYLOAD_SIZE + 8
      BY <2>1, <2>4, CodecAssumption DEF Consistent
    <3>2. SizeFor(Found(datagram)) = datagram.size
      <4>1. datagram.size % 65536 = datagram.size
        BY <2>1, CodecAssumption, DatagramAssumption
      <4> QED
        BY <2>4, <4>1 DEF Consistent, SizeAgrees
    <3>3. decoded.status = "PKT_OK" <=> CrcHolds(datagram)
      BY <2>1, <2>4, <3>1, <3>2, DecodeConsistent, ReadCrc
    <3>4. WellFormed(datagram) => CrcHolds(datagram)
      BY DEF WellFormed, CrcHolds
    <3> QED
      BY <2>1, <2>4, <3>3, <3>4, ConsistentIsWellFormed
  <2> QED
    BY <2>2, <2>3, <2>4
<1>2. Inv => AcceptsTheWellFormed
  BY <1>1 DEF AcceptsTheWellFormed
<1> QED
  BY <1>2, DatagramInv, PTL

(* pkt_decode looks at no byte that was not received, and pkt_encode       *)
(* writes none behind the arrays of its callers.                           *)
THEOREM ArraysAreRespected == Spec => []StaysInside
<1>1. ASSUME Inv, HasRead, fate # "failed"
      PROVE  decoded.reads <= datagram.size
  <2>1. /\ datagram \in Datagrams /\ decoded = pkt_decode(datagram, pkt_new)
        /\ datagram.size \in Nat /\ datagram.size <= MAX_PAYLOAD_SIZE + 8
    BY <1>1, ReadFacts
  <2>2. CASE datagram.size < 4
    BY <2>1, <2>2, DecodeNothing
  <2>3. CASE ~(datagram.size < 4) /\ ~Consistent(datagram)
    BY <2>1, <2>3, DecodeInconsistent
  <2>4. CASE Consistent(datagram)
    <3>1. decoded.reads = SizeFor(Found(datagram))
      BY <2>1, <2>4, DecodeConsistent
    <3>2. SizeFor(Found(datagram)) = datagram.size % 65536
      BY <2>4 DEF Consistent, SizeAgrees
    <3>3. datagram.size % 65536 = datagram.size
      BY <2>1, CodecAssumption, DatagramAssumption
    <3> QED
      BY <2>1, <3>1, <3>2, <3>3
  <2> QED
    BY <2>2, <2>3, <2>4
<1>2. Inv => StaysInside
  BY <1>1 DEF StaysInside, Inv, Types
<1> QED
  BY <1>2, DatagramInv, PTL

(* A field that was never set is used after a read of the file that fails, *)
(* by pkt_encode, and by pkt_del for a datagram of another program that    *)
(* has no header; nowhere else.                                            *)
THEOREM FieldsAreSetBeforeUse == Spec => SetBeforeUse
<1> DEFINE A == /\ undefined' = "encode" => \E s \in SeqNums, c \in Bytes : SendData(s, -1, c)
                /\ undefined' = "free" =>
                     ReceiverReads /\ origin = NONE /\ datagram.size < 4
<1>1. ASSUME Inv, Next
      PROVE  A
  <2>0. undefined = "nothing"
    BY <1>1, DatagramAssumption
       DEF Inv, Types, Next, OwnSend, ForeignSend, Proceed, SendData, SendAnswer, SendForeign, Write, Idle,
           Cut, Damage, Underway, ReceiverReads, SenderReads, ReadFails
  <2>1. CASE \E s \in SeqNums, n \in ReadResults, c \in Bytes : SendData(s, n, c)
    <3>1. PICK s \in SeqNums, n \in ReadResults, c \in Bytes : SendData(s, n, c)
      BY <2>1
    <3>2. IF n = -1 THEN undefined' = "encode" ELSE undefined' = "nothing"
      BY <1>1, <3>1, SendDataStep
    <3>3. CASE n = -1
      BY <3>1, <3>2, <3>3
    <3>4. CASE n # -1
      BY <3>2, <3>4
    <3> QED
      BY <3>3, <3>4
  <2>2. CASE \E t \in {PTYPE_ACK, PTYPE_NACK}, s \in SeqNums, w \in Windows : SendAnswer(t, s, w)
    BY <1>1, <2>2, SendAnswerStep
  <2>3. CASE \E d \in Foreign, peer \in {"receiver", "sender"} : SendForeign(d, peer)
    BY <1>1, <2>3, SendForeignStep
  <2>4. CASE Cut \/ Damage \/ SenderReads
    BY <2>0, <2>4 DEF Cut, Damage, SenderReads
  <2>5. CASE ReceiverReads
    BY <1>1, <2>0, <2>5, ReceiverReadsStep
  <2>6. CASE ReadFails
    BY <1>1, <2>6, ReadFailsStep
  <2> QED
    BY <1>1, <2>1, <2>2, <2>3, <2>4, <2>5, <2>6 DEF Next, OwnSend, ForeignSend, Proceed
<1>2. Inv /\ [Next]_vars => [A]_vars
  BY <1>1
<1> QED
  BY <1>2, DatagramInv, PTL DEF Spec, SetBeforeUse
=============================================================================
