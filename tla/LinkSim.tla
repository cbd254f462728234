------------------------------ MODULE LinkSim ------------------------------
(***************************************************************************)
(* The link simulator, link_sim.c: a process that relays the datagrams of  *)
(* one client to dest, late, in another order or not at all, and those of  *)
(* dest to the client.  What it does to the bytes of a DATA packet (cut,   *)
(* corrupt) is in Transfer.tla; here are whether, when, in which order and *)
(* to whom datagrams leave.                                                *)
(*                                                                         *)
(* proxy_loop has one thread; it is broken wherever time can pass or the   *)
(* kernel can answer in several ways, and pc says where it is:             *)
(*   "loop"     about to compute the timeout of select                     *)
(*   "select"   blocked in select                                          *)
(*   "deliver"  in the loop of deliver_delayed_pkt                         *)
(*   "process"  about to process a packet if select found one              *)
(*   "exit"     after an error, and "crashed" after a division by zero     *)
(* Meanwhile the clock advances and datagrams reach the socket.            *)
(*                                                                         *)
(* The heap of delayed packets is the priority queue that MinQueue.tla     *)
(* implements.  Its slots hold the number of the packet and the date of    *)
(* its expiration, ts; from, read (the date) and wait are history.         *)
(*                                                                         *)
(* The definitions called Mutant... are plausible mistakes in the one that *)
(* follows them, and are used nowhere else.                                *)
(***************************************************************************)
EXTENDS Timeval, FiniteSets, SequencesExt

CONSTANTS
  UINT_MAX,     (* Largest unsigned int.                                       *)
  Options,      (* Values of the options -d and -j that are considered.        *)
  Source,       (* Addresses that may write to the simulator ...               *)
  dest_addr,    (* ... and the one it relays to.                               *)
  NULL

ASSUME LinkSimAssumption ==
  /\ UINT_MAX \in Nat
  /\ Options \subseteq (0 .. UINT_MAX) \X (0 .. UINT_MAX)
  /\ NULL \notin Source \cup {dest_addr}
  /\ NULL \notin [sec : Int, usec : Int]

VARIABLES
  delay, jitter,        (* Options, in ms.                                     *)
  now,                  (* The monotonic clock, in ms.                         *)
  last_clock,           (* Its value when it was last read.                    *)
  pc,                   (* Where the program is.                               *)
  timeout,              (* Timeout given to select, or NULL.                   *)
  since,                (* When it was called, else 0.                         *)
  rfds,                 (* The socket is marked for reading.                   *)
  socket,               (* Datagrams received and not read, oldest first.      *)
  src_addr,             (* The client, NULL if has_source_addr = 0.            *)
  pkt_queue,            (* Delayed packets.                                    *)
  arrived,              (* History: datagrams that have reached the socket.    *)
  taken,                (* History: those given to simulate_link ...           *)
  dropped,              (* ... those it dropped ...                            *)
  sent,                 (* ... and the datagrams sent to dest, in order.       *)
  returned,             (* History: addresses to which those of dest were sent.*)
  hitches               (* History: how many times a signal, a full send buffer*)
                        (* or an unreadable datagram has sent the loop back.   *)

options == <<delay, jitter>>
fates == <<taken, dropped, sent, returned>>
environment == <<options, now, socket, arrived>>
select == <<timeout, since, rfds, last_clock>>
vars == <<environment, select, pc, src_addr, pkt_queue, fates, hitches>>

-----------------------------------------------------------------------------
pkt_slot_cmp(a, b) == timeval_cmp(a.ts, b.ts)

Queue == INSTANCE PriorityQueue WITH items <- pkt_queue, Item <- {}, cmp <- pkt_slot_cmp

Init ==
  /\ \E o \in Options : delay = o[1] /\ jitter = o[2]
  /\ now = 0
  /\ last_clock = Timeval(0)
  /\ pc = "loop"
  /\ timeout = NULL
  /\ since = 0
  /\ rfds = FALSE
  /\ socket = <<>>
  /\ src_addr = NULL
  /\ pkt_queue = {}
  /\ arrived = 0
  /\ taken = {}
  /\ dropped = {}
  /\ sent = <<>>
  /\ returned = {}
  /\ hitches = 0

-----------------------------------------------------------------------------
(* The surroundings of the program. *)

Tick ==
  /\ now' = now + 1
  /\ UNCHANGED <<options, socket, arrived, select, pc, src_addr, pkt_queue, fates,
                 hitches>>

(* A datagram reaches the socket; a malformed one has less than 4 bytes,   *)
(* perhaps none.                                                           *)
Arrive(from, malformed) ==
  /\ arrived' = arrived + 1
  /\ socket' = Append(socket, [id |-> arrived + 1, from |-> from, malformed |-> malformed])
  /\ UNCHANGED <<options, now, select, pc, src_addr, pkt_queue, fates, hitches>>

-----------------------------------------------------------------------------
(* proxy_loop *)

(* NULL, for ever, when no packet is queued.  The smallest slots have the  *)
(* same date.                                                              *)
get_queue_timeout ==
  IF pkt_queue = {} THEN NULL
  ELSE TimeLeft((CHOOSE head \in Queue!Smallest : TRUE).ts, last_clock)

CallSelect ==
  /\ pc = "loop"
  /\ timeout' = get_queue_timeout
  /\ since' = now
  /\ pc' = "select"
  /\ UNCHANGED <<environment, rfds, last_clock, src_addr, pkt_queue, fates, hitches>>

MutantWake(readable) ==
  /\ pc = "select"
  /\ rfds' = readable
  /\ last_clock' = IF readable THEN Timeval(now) ELSE last_clock
  /\ since' = 0
  /\ pc' = "deliver"
  /\ UNCHANGED <<environment, timeout, src_addr, pkt_queue, fates, hitches>>

(* select returns, the date is read. *)
Wake(readable) ==
  /\ pc = "select"
  /\ rfds' = readable
  /\ last_clock' = Timeval(now)
  /\ since' = 0
  /\ pc' = "deliver"
  /\ UNCHANGED <<environment, timeout, src_addr, pkt_queue, fates, hitches>>

Readable == socket # <<>> /\ Wake(TRUE)

TimedOut ==
  /\ timeout # NULL
  /\ now - since >= Milliseconds(timeout)
  /\ Wake(FALSE)

(* A signal: select is called again, for as long as the first time, since  *)
(* the date is not read again.                                             *)
Interrupted ==
  /\ pc = "select"
  /\ pc' = "loop"
  /\ since' = 0
  /\ hitches' = hitches + 1
  /\ UNCHANGED <<environment, timeout, rfds, last_clock, src_addr, pkt_queue, fates>>

Expired(p) == timeval_cmp(last_clock, p.ts)

(* select, clock_gettime, sendto or recvfrom fails: the program leaves its *)
(* loop and ends.                                                          *)
Fail ==
  /\ \/ pc = "select"
     \/ pc = "deliver" /\ \E p \in Queue!Smallest : Expired(p)
     \/ pc = "process" /\ rfds
  /\ pc' = "exit"
  /\ UNCHANGED <<environment, select, src_addr, pkt_queue, fates, hitches>>

-----------------------------------------------------------------------------
(* deliver_delayed_pkt *)

(* p is sent to dest. *)
WriteOut(p) ==
  sent' = Append(sent, [id |-> p.id, from |-> p.from, read |-> p.read,
                        due |-> p.read + p.wait, at |-> Milliseconds(last_clock)])

DeliverNext(p) ==
  /\ pc = "deliver"
  /\ Expired(p)
  /\ WriteOut(p)
  /\ Queue!Remove(p)
  /\ UNCHANGED <<environment, select, pc, src_addr, taken, dropped, returned, hitches>>

MutantBlocked(p) ==
  /\ pc = "deliver"
  /\ Expired(p)
  /\ Queue!Remove(p)
  /\ pc' = "process"
  /\ hitches' = hitches + 1
  /\ UNCHANGED <<environment, select, src_addr, fates>>

(* The send buffer is full: p stays in the queue. *)
DeliverBlocked(p) ==
  /\ pc = "deliver"
  /\ p \in Queue!Smallest
  /\ Expired(p)
  /\ pc' = "process"
  /\ hitches' = hitches + 1
  /\ UNCHANGED <<environment, select, src_addr, pkt_queue, fates>>

Delivered ==
  /\ pc = "deliver"
  /\ \A p \in Queue!Smallest : ~Expired(p)
  /\ pc' = "process"
  /\ UNCHANGED <<environment, select, src_addr, pkt_queue, fates, hitches>>

-----------------------------------------------------------------------------
(* process_incoming_pkt *)

NothingToProcess ==
  /\ pc = "process"
  /\ ~rfds
  /\ pc' = "loop"
  /\ UNCHANGED <<environment, select, src_addr, pkt_queue, fates, hitches>>

(* recvfrom would block after all. *)
NothingToRead ==
  /\ pc = "process"
  /\ rfds
  /\ pc' = "loop"
  /\ hitches' = hitches + 1
  /\ UNCHANGED <<environment, select, src_addr, pkt_queue, fates>>

(* recvfrom returns the next datagram.  *)
Receive(packet) ==
  /\ pc = "process"
  /\ rfds
  /\ socket # <<>>
  /\ packet = Head(socket)
  /\ socket' = Tail(socket)
  /\ UNCHANGED <<options, now, arrived, select, hitches>>

RejectMalformed(packet) ==
  /\ Receive(packet)
  /\ packet.malformed
  /\ pc' = "exit"
  /\ UNCHANGED <<src_addr, pkt_queue, fates>>

(* An empty datagram makes recvfrom return 0, which is taken for an error; *)
(* errno, that no error has set, may still tell of an earlier one that is  *)
(* ignored.                                                                *)
IgnoreEmpty(packet) ==
  /\ Receive(packet)
  /\ packet.malformed
  /\ hitches > 0
  /\ pc' = "loop"
  /\ UNCHANGED <<src_addr, pkt_queue, fates>>

MutantLearnSource(packet) == src_addr' = packet.from

(* The first one to write is the client. *)
LearnSource(packet) ==
  src_addr' = IF src_addr = NULL THEN packet.from ELSE src_addr

(* A packet of dest goes back to the client. *)
Relay(packet) ==
  /\ Receive(packet)
  /\ ~packet.malformed
  /\ LearnSource(packet)
  /\ packet.from = dest_addr
  /\ returned' = returned \cup {src_addr'}
  /\ pc' = "loop"
  /\ UNCHANGED <<pkt_queue, taken, dropped, sent>>

(* ... unless the send buffer is full, an error here. *)
CannotRelay(packet) ==
  /\ Receive(packet)
  /\ ~packet.malformed
  /\ LearnSource(packet)
  /\ packet.from = dest_addr
  /\ pc' = "exit"
  /\ UNCHANGED <<pkt_queue, fates>>

IgnoreAlien(packet) ==
  /\ Receive(packet)
  /\ ~packet.malformed
  /\ LearnSource(packet)
  /\ packet.from \notin {dest_addr, src_addr'}
  /\ pc' = "loop"
  /\ UNCHANGED <<pkt_queue, fates>>

-----------------------------------------------------------------------------
(* simulate_link, called for a packet of the client.  Each option that is  *)
(* a rate makes its outcome possible, none makes it certain.               *)
SimulateLink(packet) ==
  /\ Receive(packet)
  /\ ~packet.malformed
  /\ LearnSource(packet)
  /\ packet.from = src_addr'
  /\ packet.from # dest_addr
  /\ taken' = taken \cup {packet.id}
  /\ UNCHANGED returned

Drop(packet) ==
  /\ SimulateLink(packet)
  /\ dropped' = dropped \cup {packet.id}
  /\ pc' = "loop"
  /\ UNCHANGED <<pkt_queue, sent>>

Forward(packet) ==
  /\ SimulateLink(packet)
  /\ delay = 0
  /\ WriteOut([id |-> packet.id, from |-> packet.from,
               read |-> Milliseconds(last_clock), wait |-> 0])
  /\ pc' = "loop"
  /\ UNCHANGED <<pkt_queue, dropped>>

(* The values of applied_delay, capped to 10 s; the arithmetic is that of  *)
(* unsigned int.                                                           *)
AppliedDelays ==
  {(d % (UINT_MAX + 1)) % (10 * Second) :
     d \in {delay + r : r \in 0 .. jitter - 1} \cup {delay - r : r \in 0 .. jitter - 1}}

Enqueue(packet) ==
  /\ SimulateLink(packet)
  /\ delay # 0
  /\ \E applied_delay \in AppliedDelays :
       Queue!Insert([id |-> packet.id, from |-> packet.from,
                     ts |-> Expiration(last_clock, applied_delay),
                     read |-> Milliseconds(last_clock), wait |-> applied_delay])
  /\ pc' = "loop"
  /\ UNCHANGED <<dropped, sent>>

(* rand() % jitter *)
DivideByZero(packet) ==
  /\ SimulateLink(packet)
  /\ delay # 0
  /\ jitter = 0
  /\ pc' = "crashed"
  /\ UNCHANGED <<pkt_queue, dropped, sent>>

(* The packet cannot be stored or sent; a full send buffer is an error here. *)
CannotProcess(packet) ==
  /\ SimulateLink(packet)
  /\ delay # 0 => jitter # 0
  /\ pc' = "exit"
  /\ UNCHANGED <<pkt_queue, dropped, sent>>

-----------------------------------------------------------------------------
Process ==
  \/ NothingToProcess
  \/ NothingToRead
  \/ \E packet \in Range(socket) :
       \/ RejectMalformed(packet)
       \/ IgnoreEmpty(packet)
       \/ Relay(packet)
       \/ CannotRelay(packet)
       \/ IgnoreAlien(packet)
       \/ Drop(packet)
       \/ Forward(packet)
       \/ Enqueue(packet)
       \/ DivideByZero(packet)
       \/ CannotProcess(packet)

Deliver ==
  \/ \E p \in pkt_queue : DeliverNext(p) \/ DeliverBlocked(p)
  \/ Delivered

Select == CallSelect \/ Readable \/ TimedOut \/ Interrupted

Next ==
  \/ Tick
  \/ \E from \in Source \cup {dest_addr}, malformed \in BOOLEAN : Arrive(from, malformed)
  \/ Select
  \/ Deliver
  \/ Process
  \/ Fail

Spec == Init /\ [][Next]_vars

-----------------------------------------------------------------------------
QueuedIds == {p.id : p \in pkt_queue}

SentIds == {sent[k].id : k \in DOMAIN sent}

(* Type invariant. *)
LinkSimTypeOK ==
  /\ options \in Options
  /\ now \in Nat /\ since \in 0 .. now
  /\ last_clock \in [sec : Nat, usec : 0 .. Second - 1]
  /\ pc \in {"loop", "select", "deliver", "process", "exit", "crashed"}
  /\ timeout \in [sec : Int, usec : Int] \cup {NULL}
  /\ rfds \in BOOLEAN
  /\ src_addr \in Source \cup {dest_addr, NULL}
  /\ \A p \in pkt_queue : p.ts \in [sec : Nat, usec : 0 .. 2 * Second - 2]
  /\ taken \cup dropped \cup QueuedIds \cup SentIds \subseteq 1 .. arrived

(* select is always given a time it accepts (a negative one would end the  *)
(* program), never 0 (it would not sleep at all), never more than the time *)
(* left before the next expiration, and for ever only when nothing waits.  *)
(* Dates are not normalised and timeval_diff is wrong by a second on some  *)
(* of them, yet get_queue_timeout keeps these.                             *)
TimeoutIsSound ==
  pc = "select" =>
    /\ timeout = NULL <=> pkt_queue = {}
    /\ timeout # NULL =>
         /\ timeout.sec >= 0 /\ timeout.usec >= 0 /\ Milliseconds(timeout) > 0
         /\ Milliseconds(timeout) = 1
              \/ \A p \in pkt_queue : \/ Milliseconds(timeout) + Milliseconds(last_clock)
                                           <= Milliseconds(p.ts)
                                      \/ p \notin Queue!Smallest

(* As long as the program runs, a packet given to simulate_link has been   *)
(* dropped, waits in the queue or has been sent to dest, only one of these *)
(* and only once: a full send buffer or an interruption neither loses nor  *)
(* repeats it.                                                             *)
NothingLostNorRepeated ==
  pc \notin {"exit", "crashed"} =>
    /\ taken = dropped \cup QueuedIds \cup SentIds
    /\ Cardinality(taken) = Cardinality(dropped) + Cardinality(pkt_queue) + Len(sent)

(* The missing carry makes packets leave before their time, though never   *)
(* by a second or more.                                                    *)
NeverASecondEarly ==
  \A k \in DOMAIN sent : sent[k].due < sent[k].at + Second

(* With the smallest jitter (rand() % 1 = 0) all packets wait the same     *)
(* time and leave in the order in which they were read, in spite of the    *)
(* dates that are not normalised; those read in the same millisecond have  *)
(* equal dates, and the heap does not keep their order.                    *)
ConstantDelayKeepsOrder ==
  jitter <= 1 =>
    \A j, k \in DOMAIN sent : j < k => sent[j].read <= sent[k].read

(* Whatever addresses write to the simulator, and in whatever order, all   *)
(* it lets through in both directions belongs to one client.               *)
OneConversation ==
  Cardinality({sent[k].from : k \in DOMAIN sent} \cup returned) <= 1

-----------------------------------------------------------------------------
(* Violated: lines 428-433 say that a delay can be given without a jitter, *)
(* which is then 0.  (simulate_link)                                       *)
DefaultJitterWorks == pc # "crashed"
=============================================================================
