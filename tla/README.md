# Verification of the selective repeat transfer (LINGI1341, projet 1)

`sender` reads a file and sends it over UDP, `receiver` writes what it gets to
its standard output; `linksim` can be placed between the two to lose, cut,
damage and delay the traffic. These modules model that system in TLA+, check it
on small instances with TLC and prove with TLAPS, for all sizes, every safety
property that the passing runs check: those of the receiver, of the whole transfer,
of the codec, of the link simulator and its heap, and of the set-up. `chat`, an
exercise that shares the socket functions, is modelled and proved about too.

## 1. Inventory of the system

| Component | Source | State | Operations |
|---|---|---|---|
| sequence numbers | `compare_seqnums`, `get_ack_position` | none | circular comparison, position of an acknowledged packet |
| receiver loop | `sel_repeat_read.c` | `lastack`, `window_size`, `receive_buffer[31]` | read a datagram; write, buffer, NACK or ignore it; drain; answer |
| sender loop | `sel_repeat_write.c` | `seqnum`, `window[31]`, `current_index_window`, `limited_window_size`, `finish`, the timers | retransmit, read and send, take an ACK or a NACK |
| packet codec | `packet_implem.c` | the fields of `struct pkt`; the arrays of its callers | `pkt_encode`, `pkt_decode`, setters |
| link simulator | `linksim/link_sim.c` | `pkt_queue`, `last_clock`, `src_addr`, the options, its socket | read the options, acquire and release socket and queue; relay, drop, cut, corrupt, delay, deliver |
| priority queue | `linksim/min_queue.c` | the heap `e[]`, `size`, `alloc` | push, pop, peek |
| chat | `chatUDP/chat.c`, `read_write_loop.c` | what the kernel queues in its socket | copy between stdin and a socket |
| set-up | `sender.c`, `receiver.c`, `create_socket.c`, `real_address.c`, `wait_for_client.c` | the descriptors, the state of the socket | arguments, name resolution, `socket`, `bind`, `connect`, first client, input file |

**Interactions.** Each of the three programs has one thread and they share
nothing; they interact through datagrams only. The sender's DATA packets pass
through the network (or linksim); the receiver's ACK and NACK packets travel
back, and linksim relays them untouched and in order (`linksim/README.md`).
Inside linksim the proxy loop calls the priority queue, which calls back
`pkt_slot_cmp`. Both loops of the transfer call the codec. The mains of `sender`,
`receiver` and `chat` call `real_address`, `create_socket` and (servers)
`wait_for_client` before their loops, and hand over a descriptor.

**What is hard.** The network between the two loops: packets lost, reordered,
cut or damaged, retransmissions that race answers in flight, sequence numbers
that wrap around while old copies are still travelling, and the places where
the program relies on answers that arrive in order. Calls that fail: the results of
`read` and of the setters are not looked at, and the buffers keep the bytes of
earlier datagrams. In the receiver, one
iteration moves packets, frees slots and sends several answers. In linksim,
dates that are not normalised, sends that would block, signals that interrupt a
sleep, and a heap whose root is in slot 0 with the arithmetic of one rooted in
slot 1.

**What makes each component correct.**

- receiver: its buffer is sorted circularly, inside the window and without
  duplicates; the window it tells is the number of free slots and never 0;
  packets are written in sequence, none accepted is lost, each write is
  answered with the final state;
- sender: answers never lead it out of `window[]`; whatever the receiver still
  needs is in `window[]`; it does not overrun the receiver; it exits only when
  everything has been written;
- both together: the output is the file, in order, each chunk once; the
  transfer completes;
- priority queue: nothing lost, nothing doubled, a smallest item first;
- link simulator: packets are dropped on purpose, waiting, or sent once, not
  before their time; one conversation; `select` gets sound timeouts; no packet
  stays in the queue;
- codec: `pkt_decode` inverts `pkt_encode`, accepts what is well formed and
  nothing else, reports what linksim does as the error the receiver relies on;
  neither leaves its array or uses fields that were never set;
- set-up: whichever call fails, a loop starts with a connected socket or not at
  all; what linksim has acquired is released once;
- chat: everything typed is printed at the other side, in order; the server
  answers the one whose message it has seen first.

`PROJECT.json` lists the hazards line by line, with the properties about each.

## 2. Modules

```
SeqNum -- Wire -+- Receiver -+- Transfer --(implements)--> FileTransfer
                +- Sender ---+
Timeval -- LinkSim --(uses)--> PriorityQueue <--(implements)-- MinQueue
Codec -- Datagram ------------------+- MCDatagram         Chat
               SetUp -+- Start -----+
           LinkStart -+
SeqNumProofs -- ReceiverProofs -- TransferProofs   (theorems about Receiver, Transfer)
LinkSimProofs, MinQueueProofs                      (about LinkSim, about MinQueue)
DatagramProofs, StartProofs, ChatProofs            (about Datagram, Start, Chat)
```

| Module | Models | Correspondence |
|---|---|---|
| `SeqNum` | numbers modulo `SeqSpace` (256), `MAX_WINDOW_SIZE` (31) | operators with the names of the C functions |
| `Wire` | packets after `pkt_decode`, the socket buffer of answers | `Arrival` is the condition of a datagram: intact, damaged, cut |
| `Receiver` | `sel_repeat_read` | `Receive(status, p)` is one whole iteration of the loop; its disjuncts are the branches (`Ignore`, `send_nack`, `WriteExpected`, `Buffer`), each with the final `refresh` |
| `Sender` | `sel_repeat_write` | `Retransmit`, `SendNew`, `ReceiveAnswer` are the three parts of a pass of the loop; `SelectFails` is its exit when `select` returns -1 |
| `Transfer` | the two with the network | `Deliver`, `LosePacket`, and for the answers three networks |
| `FileTransfer` | what the two promise | abstract: a growing prefix of the file, success only at its end |
| `PriorityQueue` | what a `minqueue_t` promises | abstract: a set, `Insert`, `Remove` of a smallest item |
| `MinQueue` | `min_queue.c` | one action per iteration of the loops of `minq_push` and `minq_pop` |
| `Timeval` | the dates of `link_sim.c` | `timeval_cmp`, `timeval_diff`, the expiration date, the timeout |
| `LinkSim` | `proxy_loop` and what it calls | one action wherever the kernel can answer in several ways |
| `LinkStart` | `main`, `get_socket`, `proxy_traffic` of linksim | one action per option, call that may fail, and label of the clean-up |
| `Codec` | `packet_implem.c` | operators with the names of the C functions; a packet is a record of the fields of `struct pkt`, a datagram the bytes of an array and how many of them were received |
| `Datagram` | the codec between its callers | a program fills in and encodes, linksim cuts or damages, a program reads (or fails to), decodes, disposes of the packet |
| `SetUp` | the mains of sender, receiver and chat, `real_address`, `create_socket`, `wait_for_client` | one action per system call, `Fault` when the machine refuses it |
| `Start` | one of these programs and linksim | the two side by side; they share nothing |
| `Chat` | two `read_write_loop`, with `wait_for_client` of the server | one action per system call: the two branches after `select`, `recvfrom`, `connect` |

The `MC…` modules only give bounds and values to the constants; `MCDatagram` also
puts `Datagram` behind `Start`: linksim starts, then another program, and when the
receiver has reached its loop, with a socket or with -1, its datagrams follow
(with -1, reads that fail). Operators named
`Mutant…` are plausible mistakes in the definition that follows them. They are
used nowhere; put in its place, each one breaks the property it is listed with
in `PROJECT.json`.

### Abstractions

- **Chunks.** The bytes that one `read()` of the sender returns are one chunk,
  represented by its position in the file; chunk `FileLen` is the empty one that
  marks the end. Two chunks are equal only if they are the same part of the
  file, which makes "in order, once" visible in `written`. Answers carry the
  position they stand for in a history field that no guard reads.
- **Timers** of the sender may be found expired in any pass of its loop.
- **Damage.** A CRC that does not match is the status `E_CRC`; a CRC is assumed
  to detect what linksim does. That the statuses `Receiver` and `Sender` start
  from are those of `pkt_decode` is what `Datagram` checks.
- **Failures of `read()`** and datagrams of less than 4 bytes are left out of
  `Transfer` and modelled in `Datagram`. There a failed read decodes the bytes
  left by the previous one with the size (size_t) -1; if it is the first, the array
  was never written and holds any bytes. For that size stands
  `SIZE_MAX = 2^20 - 1`, which has the same remainders modulo 4 and 65536.
- **Bytes.** `Codec` works on the bytes of a datagram: the type packed with the
  window, the swapped bytes of the length, the payload, its padding, the four
  bytes of the CRC. A byte is a number from 0 to 255, and the sign it has where the code
  reads it as a `char` is `Signed`; shifts and masks are divisions and remainders.
  `crc32` is any function from texts to four bytes (`Checksum`): the code relies on no
  more than its being a function, except that a CRC with one inverted byte is not the CRC.
  A socket that reads into 8 or 520 bytes throws the rest of the datagram away.
- **Chat.** The server's socket is bound when the model starts. A queue has room
  for all that may be typed and the stranger's message, no less: empty datagrams
  can fill it, and what finds no room is dropped.
- **Set-up.** Each system call succeeds or is refused, `bind` of an IPv6 socket
  also by the address. Options of linksim are not negative; one that is given several
  times has its last value.
- **Old copies.** The network forgets a copy of a packet before the receiver
  has advanced by more than `MaxLag` packets past it. Without that assumption
  no protocol with finitely many numbers is safe. In the safety run
  `MaxLag + MAX_WINDOW_SIZE = SeqSpace`, the largest lag under which a copy can
  never look new; the real constants leave 225 packets.
- **Out-of-bounds accesses** of `window[]` set `sender` to `"undefined"`, where
  it stays.
- **Time in linksim** is in milliseconds (the unit of its options); a second has
  `Second` of them. The heap appears in `LinkSim` as the abstract priority queue.
  What linksim does to bytes (cut, corrupt) is in `Datagram`, and its effect on
  the transfer in `Transfer!Deliver`.
- Each rate option of linksim makes its outcome possible, none makes it certain.

## 3. Runs

| Run | Instance | Shows |
|---|---|---|
| `receiver` | 8 numbers, window 4, 18 writes, any datagram at any time | all the invariants of the receiver and two action properties; numbers wrap around twice and three packets wait behind a gap |
| `transfer_safety` | 6 numbers, window 3, 6 chunks + end, `MaxLag` 3, answers may be lost | the six safety invariants and the refinement of `FileTransfer` |
| `transfer_liveness` | 5 numbers, window 2, 5 chunks + end, answers kept in order | the sender always exits, unless `select` fails |
| `lost_answers` | 5 numbers, window 2, 2 chunks + end, answers may be erased | **violated**: the transfer can stay stuck |
| `reordered_answers` | 5 numbers, window 2, 4 chunks + end, answers may be read in any order | **violated**: out-of-bounds window access |
| `min_queue` | 6 items in four classes of equal keys ({1}, {2, 3}, {4, 5}, {6}), 3 slots at first | heap order, nothing twice, refinement of `PriorityQueue` |
| `link_safety` | 3 datagrams from 3 addresses, clock 0–5 of 2 ms seconds, one hitch | the six invariants of the simulator |
| `link_liveness` | 2 datagrams, two hitches, seconds of 3 ms | every queued packet leaves |
| `link_jitter` | a delay without a jitter | **violated**: a division by zero |
| `datagram` | four programs, four kinds of host, up to 6 arguments, linksim with any set of options; then 14 results of `read`, the windows 1 and 31, the numbers 0 and 255, and over 3,000 foreign datagrams of either side | no loop without a connected socket (except the receiver's, with -1), no failure on one machine without a refused call, clean-up once; the round trip, the errors the receiver relies on, which datagrams are accepted, no access outside of the arrays, and exactly when a field that was never set is used |
| `refused_header` | the same | **violated**: a header value that is refused is not stored |
| `chat` | 2 messages typed at each side, a stranger, inputs that may end, queues of 3 | messages are printed in order, from the first on, and all of them in the end; the server answers the first to write |

**Why the bounds are enough.** In the receiver, behaviour depends on the
offsets of the buffered packets from the expected one; window 4 gives every
shape of buffer with gaps before, between and after packets, with the drain
stopping at each of them, and 18 writes go twice around 8 numbers. In the
transfer, window 3 allows a gap with packets on both sides, and seven packets
over six numbers reuse a number while a copy of its first owner may still be in
flight. For liveness, window 2 suffices for a packet that blocks another one.
`MaxAnswers` bounds the answers in flight. `select` fails after `FailAt` chunks have
been read, in whatever state the rest is: the sender does nothing afterwards, so that
one place in the file is enough. Six items give the heap levels
of slots 0, 1, 2–3 and 4–5, with left and right children on the same level, and
make the array grow once. In linksim, the clock crosses two
seconds, delays are zero, constant across a second, or varying with waits from
0 to a whole second; three datagrams are needed for dest, client and alien in
every order. The clock and the socket are unseen between two calls of
`select`, so `MCLinkSim` lets them change only before or during it: this loses
no behaviour of the program. A malformed datagram is rejected before its
address is looked at, so it comes from one address only. The lengths in
`datagram` have every padding, a second byte above 127, two bytes, and reach the
maximum; an ACK has a positive first byte and a NACK a negative one. The bytes of the
payload and the stand-in for `crc32` in `MCDatagram` have both signs. Foreign take values on both sides of
every check, with sizes that agree with the length, exceed it and fall short of it.
The only thing one datagram leaves to the next is the bytes in the array, so one
foreign datagram, followed by a read that fails, is enough. In `chat` a second
message tells "in order" from "the last one", and the stranger's can be before,
between and after those of the client.

**Deadlock** is not checked where the system really stops: the sender exits
(or has failed or, in the reordered network, is undefined), and linksim sleeps without
traffic or ends on an error; in `datagram` it stops at undefined behaviour, or before
that when a program has returned, in `chat` when nobody types.

**Fairness.** In `Transfer`, `select` in the sender has a timeout of 1 s, so its
loop never stops and each of its steps is weakly fair: expired packets are sent
again, the file is read when it may be, answers are read. A packet that is sent
again and again ends up delivered intact (strong fairness of the delivery of
each chunk): losses are random, not systematic. No fairness is asked of losses,
of a `select` that fails, nor of anything else; `TransferCompletes` is that the sender
exits, unless `select` has failed. In `LinkSim` the loop and the clock are weakly fair, and
signals, full send buffers and unreadable datagrams (`hitches`) are finitely
many; with endless signals the property is false, since the code computes its
timeout from the old date after a signal. In `Chat` each program keeps running
(weak fairness of its loop, of `recvfrom` and of `connect`); typing, the end of an
input and the stranger are not fair. The message is promised to arrive only while
the other side's input has not ended and if the server answers the client.

## 4. Proofs

`SeqNumProofs` holds facts about circular numbers and least elements;
`ReceiverProofs` the theorems. They assume only what the modules state about
their constants (`SeqNumAssumption`, `WireAssumption`), not the values 256 and
31, and hold against every stream of datagrams. `TransferProofs` adds
`TransferAssumption` (`MaxLag + MAX_WINDOW_SIZE <= SeqSpace`: an old copy does not
look new, see the abstractions), for a file of any length. `LinkSimProofs` holds facts
about the dates of linksim and theorems about its loop, under `TimevalAssumption`
and `LinkSimAssumption`: for a second of any length, every option, any number of
datagrams and addresses, and a clock without bound. `MinQueueProofs` assumes that
the comparison is a strict weak order (`MinQueueAssumption`), and nothing about the
number of items or of slots. `DatagramProofs` assumes `CodecAssumption` and
`DatagramAssumption`: the largest payload (512) is a multiple of 4 below 2^15, `read`
returns at most what it was asked for, or -1, the windows to send fit in the field, and
datagrams are bytes, in an array of any content, with any size. Nothing is assumed of
`Checksum`. `StartProofs` holds for any sets of
programs, hosts and numbers of arguments, and any non-negative options
(`StartAssumption`); `ChatProofs` for any number of messages that is less than a
queue holds (`ChatAssumption`).

| Theorem | States |
|---|---|
| `ReceiverTypes` | `Spec_R => []ReceiverTypeOK` |
| `WindowIsExact` | `Spec_R => []WindowCountsFreeSlots` |
| `BufferStaysOrdered` | `Spec_R => []BufferOrdered` |
| `NothingDangles` | `Spec_R => []NoDanglingPacket` |
| `WindowStaysOpen` | `Spec_R => []WindowNeverCloses` |
| `SequenceIsWritten` | `Spec_R => []WrittenInSequence` |
| `NoneIsLost` | `Spec_R => NoBufferedPacketLost`, an action property |
| `WritesAreAcknowledged` | `Spec_R => WriteIsAcknowledged`, an action property |
| `TransferTypes` | `LossySpec => []TypeOK` of `Transfer` |
| `DeliveryIsInOrder` | `LossySpec => []InOrderDelivery` |
| `SenderStaysInBounds` | `LossySpec => []SenderInBounds` |
| `WindowHoldsTheUnwritten` | `LossySpec => []UnwrittenIsHeld` |
| `SuccessMeansDelivered` | `LossySpec => []ExitMeansDelivered` |
| `SenderStaysInWindow` | `LossySpec => []NeverAheadOfReceiver` |
| `TransfersTheFile` | `LossySpec => ImplementsFileTransfer`, the refinement of `FileTransfer` |
| `LinkSimTypesAreKept` | `Spec => []LinkSimTypeOK` of `LinkSim` |
| `SelectIsSound` | `Spec => []TimeoutIsSound` |
| `LessThanASecondEarly` | `Spec => []NeverASecondEarly` |
| `OneClientServed` | `Spec => []OneConversation` |
| `EachPacketHasOneFate` | `Spec => []NothingLostNorRepeated` |
| `NoneOvertakes` | `Spec => []ConstantDelayKeepsOrder` |
| `HeapTypes` | `Spec => []MinQueueTypeOK` of `MinQueue` |
| `HeapIsOrdered` | `Spec => []HeapOrder` |
| `HoldsEachOnce` | `Spec => []NothingTwice` |
| `HeapIsPriorityQueue` | `Spec => IsPriorityQueue`, the refinement of `PriorityQueue` |
| `PacketsComeThrough` | `Spec => []RoundTrip` of `Datagram` |
| `DamageIsSeen` | `Spec => []DamageIsNoticed` |
| `TheWellFormedAreAccepted` | `Spec => []AcceptsTheWellFormed` |
| `ArraysAreRespected` | `Spec => []StaysInside` |
| `FieldsAreSetBeforeUse` | `Spec => SetBeforeUse`, an action property |
| `LoopsAreConnected` | `StartSpec => []LoopIsConnected` of `Start` |
| `OneMachineIsEnough` | `StartSpec => []WorksOnOneMachine` |
| `LinkReleasesOnce` | `StartSpec => []ReleasedOnce` |
| `MessagesAreInOrder` | `Spec => []PrintedInOrder` of `Chat` |
| `FirstIsAnswered` | `Spec => []AnswersTheFirst` |

**The receiver.** None of its invariants is inductive alone. `Inv` is their conjunction:
that the window is the number of free slots says that buffered packets are in
front (so the drain starts at slot 0 and `refresh` has to shift only by what the
drain emptied); the order says that packet `i` is at least `i + 1` numbers ahead
of the expected one, so a window of `MAX_WINDOW_SIZE` offsets can never fill all
the slots (`RoomLeft`): one stays for the expected packet. No buffered packet
has the expected number, so `remove_from_buffer` never takes the branch that
compares instead of assigning. The proof has one lemma per branch:
`BufferStep` (`InsertionPlace`, `InsertKeepsOrder`), `WriteStep` (`RunStops`,
`DrainStep`, `DrainKeepsOrder`, `RefreshShifts`, `NextNumbers`), and the two that
leave the buffer alone; `InvIsKept` joins them, `ReceiverInvariant` closes the
induction. The action properties follow from `Inv`, branch by branch
(`BufferKeeps`, `WriteKeeps`, `WriteTells`).

**The transfer.** For the receiver it is one of the environments of `Receiver`
(`ReceiverStep`), so `Inv` comes for free. `Safe` adds what ties the two programs:
`window[i]` is chunk `Base + i` (`SenderFacts`), `Base <= Count <= offset`
(`Between`: the sender has dropped only what is written), packets in flight and
in the buffer have the number of their chunk (`InFlight`, `Held`), and answers
name chunks from `Base` on, an ACK none that is not written and none after a later
answer (`AnswerFacts`). Numbers then determine chunks: `ChunkDist` computes the
offset of a packet from its chunk (an old copy stays outside of the window,
which is where `TransferAssumption` is used), `AckPosition` and `NackPosition` the place in
`window[]`, and what is drained is what comes next in the file (`Drained`). That
ACKs are in order is needed for `AnswerFacts` only: it makes `Base` move up to a
chunk that no later answer precedes, and `reordered_answers` shows what happens
without.

**The link simulator.** `Effects` says once what the steps have in common: most
leave the client, the queue and the fates of the packets alone; the others deliver
a slot (`DeliverTypes`) or take a datagram (`ForwardEffect`, `EnqueueEffect`). The
dates are the core: a clock is normalised, an expiration is not, but its
milliseconds are exact (`ExpirationIsExact`), so what compares greater is at most a
second ahead (`PassedBySeconds`), and the time left is sound in each case of
`timeval_diff` (`TimeLeftIsSound`). Comparing field by field is a total order all the same
(`RankIsOrder`), so a smallest slot exists and all of them show one date
(`SmallestExists`). Each theorem then has its strengthening: `Owned` (the queue
belongs to the client, too), `DatesExact` (a slot's date is what `read` and
`wait` say), `Numbered` and `Ids` (what is in the socket is new, so that nothing
is counted twice), `Past`, `Waits` and `InOrder` (every slot was read after what
has been sent; with one delay the older slot has the smaller date, although no
carry is made: `ExpirationsInOrder`).

**The heap.** `Content` is the array with `v` in the hole of `minq_push`; seen so,
an iteration of either loop exchanges two slots (`RiseExchanges`,
`SinkExchanges`). `Ordered` allows one slot out of place, against its parent while
an item rises, against its children while one sinks, and asks that its parent and
its children be in order; `HasChild` covers slot 0, whose only child is slot 1.
`RootIsSmallest` goes up from a least slot that would contradict it.

**The codec.** `Inv` says what the array of a program holds: the encoding of `origin`,
whole, cut to its header or with the last byte inverted (`Arrived`), or any datagram; and that
`decoded` is what `pkt_decode` makes of that array and of the size that `read` returned
(`WasDecoded`). The properties then are facts about bytes. What `pkt_encode` writes is
`TextOf` and `OwnEncoded`; what `pkt_decode` finds in a byte that it takes for a signed
char is what was packed there: `FirstByte` (type and window, for all 256 bytes),
`SplitLength` and `JoinedLength` (the two bytes of the length, where the sign of one
fills the other half), `FoundCrc` (the four of the CRC), joined in `OwnTold` and
`OwnIsConsistent`. The checks of `pkt_decode` are one case each (`DecodeShort`,
`DecodeInconsistent`, `DecodeConsistent`); `SettersKeep` gives what the setters leave in the
packet. A whole datagram has the text whose CRC it carries (`SameText`), an inverted
byte is another byte of the CRC (`DamageStep`). The padding is the only number below 4 that
completes a length (`PaddingIsUnique`), and the sum cut to 16 bits is the size of a
well-formed datagram and of no other (`ConsistentIsWellFormed`). That the result of a failed
read, as a size, is never a multiple of 4 is `StaleIsInconsistent`.

**The set-up.** The properties speak of the loops and of the end only. `SocketAt` and
`LinkAt` say for each place of the programs what is open there, `Explained` that
`create_socket` fails with an address of the machine only after a refused call;
every action leads from one of these places to the next.

**The chat.** That a message is printed with its number is not inductive: the numbers
must continue in the queue. `Continues` says that each message of the other program in
the queue follows the one before it, the first one the last that was printed;
`EndsWith` that the last one is what its author has read. `Append` and `Tail` keep the two
(`AppendNext`, `AppendOther`, `TailNext`, `TailOther`). No message may find the queue
full: before the end of the input a queue holds no more than was read, and one datagram of
the stranger (`RoomIsLeft`); after it there are no messages left to lose.
`FirstIsPeer` follows the first datagram from the look at it to its reading.

**Only model-checked:** `TransferCompletes`, `EveryPacketLeaves` and `MessagesArrive`.
They are liveness properties under fairness, which are out of reach of the
prover and stay with TLC, as do the four runs that expect a violation.

## 5. Findings

Transfer:

1. `lost_answers`: a retransmission of a packet already written is outside the
   receiver's window (`sel_repeat_read.c:60`) and gets no answer, so a lost last
   ACK is never replaced: the sender retransmits for ever. The statement says
   that the network may erase an ACK. linksim never does, which hides it.
2. `reordered_answers`: an ACK older than the window gives a position below -1,
   an old NACK a negative one; `modify_buffer` reads `window[-1]` and line 262
   uses `window[nack_position]`. The statement does not guarantee the order of
   arrival; again linksim keeps the answers in order.

linksim:

3. `link_jitter`: a delay without a jitter, a documented use, divides by 0.

codec:

4. `refused_header`: the type, the window and the length are stored by setters that
   refuse what no packet may have, so that after E_TYPE, E_LENGTH or E_UNCONSISTENT a field
   may never have been set. `packet_interface.h:58-59` promises "Unless the error is
   E_NOHEADER, the packet has at least the values of the header found in the data
   stream", and `packet_implem.c:74` repeats it. The loops do not use these fields.

Smaller divergences have no run of their own; the models contain them, and a
property bounds what follows from them.

- linksim: a jitter above the delay wraps around in unsigned arithmetic
  (`LinkSim!AppliedDelays`), the packet can wait up to 10 s. The expiration date
  has no carry from microseconds to seconds and is compared seconds first, so a
  packet leaves early as soon as the second changes (`NeverASecondEarly`,
  `ConstantDelayKeepsOrder` bound it). `timeval_diff` does not compensate the
  underflow when the dates are one second apart; the loop then polls every
  millisecond (`TimeoutIsSound`: never with a negative timeout). Ports from 32767
  on become other ports (`LinkStart!ReadOption`), although the usage text takes any UDP
  port; that an option below its limit is used as given restates the one assignment, so
  that no property is about it.
- usage: the commands in `linksim/README.md` (`./sender -h server_address -p
  proxy_port`, `./receiver -h :: -p server_port`) are not what the mains read: these take
  the host as first argument and the port as second. With them "-h" is the host, the
  port is `atoi` of the host, and sender refuses the "-p" in the place of its "-f".
- codec: the sender encodes a length and a payload that were never set when `read`
  of the file fails, and the receiver frees a pointer that was never set for a
  datagram of less than 4 bytes; `SetBeforeUse` says that nothing else does. Packets outside of the
  window and all answers are never freed.
- set-up: `receiver` enters its loop with -1 when its socket could not be made
  (the exception in `LoopIsConnected`). A client binds its socket to the address of
  the server, so that the two must be on one machine: `WorksOnOneMachine` is about that
  case, and says nothing of a server elsewhere.
  `real_address` uses the answer of `getaddrinfo` before its result is tested, and
  takes an IPv4 address for an IPv6 one; no property covers either. `sender` goes on with -1 when its file
  cannot be opened. `sender` and `receiver` read arguments they may not have.
- chat: `while (stdin)` never ends; after the end of its input a program sends
  empty datagrams for ever and never looks at its socket again, where `read_write_loop.h:7`
  says that the loop returns as soon as stdin signals EOF. `MessagesArrive` leaves out a
  reader whose input has ended, so that it does not show this. What strangers
  have sent before the server is connected is printed as if it came from the
  client.

## 6. Not modelled

- **Unit tests**: read as a specification of the codec and the helpers.
- **Negative arguments** of linksim's options, its random generator, and `minq_del`,
  which only frees the queue when the program ends.
- **Getters, logging and the printing of errors.**

## 7. Plan

1. Done: `SeqNum`, `Wire`, `Receiver`, `Sender`, `Transfer`, `FileTransfer`, their
   runs; `SeqNumProofs`, `ReceiverProofs`; `PriorityQueue`, `MinQueue`, `Timeval`,
   `LinkSim`, their runs.
2. Done: `Codec`, `Datagram`, `SetUp`, `LinkStart`, `Chat`, their runs.
3. Done: `TransferProofs`, all the safety invariants of the transfer and the
   refinement of `FileTransfer`.
4. Done: the action properties of the receiver as theorems.
5. Done: `MinQueueProofs`, with the refinement of `PriorityQueue`.
6. Done: `LinkSimProofs`, all the safety invariants of the simulator.
7. Done: `DatagramProofs`, `StartProofs`, `ChatProofs`: the safety properties of the
   codec, of the set-up and of the chat.
8. Left: the operators that `Codec` and `Datagram` share with the three loops could
   tie `Transfer` to the codec by a refinement (the statuses of `Transfer!Deliver` as
   results of `pkt_decode`), instead of by the abstraction named in section 2.
