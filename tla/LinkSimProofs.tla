---------------------------- MODULE LinkSimProofs ----------------------------
(***************************************************************************)
(* The link simulator, for every unit of time, every option, any number of *)
(* datagrams and of addresses, and a clock without bound: first facts      *)
(* about its dates, then its invariants, then what becomes of the packets: *)
(* none is lost, none repeated, and with a constant delay none overtakes   *)
(* another.                                                                *)
(***************************************************************************)
EXTENDS LinkSim, WellFoundedInduction, FiniteSetTheorems, TLAPS

(* A date as update_time stores it, and one as simulate_link computes it. *)
Clock == [sec : Nat, usec : 0 .. Second - 1]
Date  == [sec : Nat, usec : 0 .. 2 * Second - 2]

-----------------------------------------------------------------------------
(* Division with remainder. *)
LEMMA DivMod ==
  ASSUME NEW n \in Nat, NEW d \in Nat \ {0}
  PROVE  n \div d \in Nat /\ n % d \in 0 .. d - 1 /\ n = (n \div d) * d + (n % d)
<1>1. n = d * (n \div d) + (n % d)
  OBVIOUS
<1>2. n \div d \in Nat /\ n % d \in 0 .. d - 1
  OBVIOUS
<1>3. d * (n \div d) = (n \div d) * d
  BY <1>2
<1> QED
  BY <1>1, <1>2, <1>3

(* The clock is read correctly. *)
LEMMA ClockIsExact ==
  ASSUME NEW ms \in Nat
  PROVE  Timeval(ms) \in Clock /\ Milliseconds(Timeval(ms)) = ms
<1> DEFINE q == ms \div Second
           r == ms % Second
<1>1. q \in Nat /\ r \in 0 .. Second - 1 /\ ms = q * Second + r
  BY DivMod, TimevalAssumption
<1>2. Timeval(ms) = [sec |-> q, usec |-> r]
  BY DEF Timeval
<1> HIDE DEF q, r
<1> QED
  BY <1>1, <1>2 DEF Clock, Milliseconds

(* The missing carry does not change the number of milliseconds. *)
LEMMA ExpirationIsExact ==
  ASSUME NEW date \in Clock, NEW ms \in Nat
  PROVE  /\ Expiration(date, ms) \in Date
         /\ Milliseconds(Expiration(date, ms)) = Milliseconds(date) + ms
<1> DEFINE q == ms \div Second
           r == ms % Second
<1>1. q \in Nat /\ r \in 0 .. Second - 1 /\ ms = q * Second + r
  BY DivMod, TimevalAssumption
<1>2. Expiration(date, ms) = [sec |-> date.sec + q, usec |-> date.usec + r]
  BY DEF Expiration
<1>3. date.sec \in Nat /\ date.usec \in 0 .. Second - 1
  BY DEF Clock
<1> HIDE DEF q, r
<1>4. Expiration(date, ms) \in Date
  BY <1>1, <1>2, <1>3, TimevalAssumption DEF Date
<1>5. (date.sec + q) * Second = date.sec * Second + q * Second
  BY <1>1, <1>3, TimevalAssumption
<1>6. date.sec * Second \in Nat /\ q * Second \in Nat
  BY <1>1, <1>3, TimevalAssumption
<1> QED
  BY <1>1, <1>2, <1>3, <1>4, <1>5, <1>6, TimevalAssumption DEF Milliseconds

(* A date that the clock has passed, field by field, was less than a       *)
(* second away from it.                                                    *)
LEMMA PassedBySeconds ==
  ASSUME NEW clock \in Clock, NEW ts \in Date, timeval_cmp(clock, ts)
  PROVE  Milliseconds(ts) < Milliseconds(clock) + Second
<1>1. clock.sec \in Nat /\ clock.usec \in 0 .. Second - 1
      /\ ts.sec \in Nat /\ ts.usec \in 0 .. 2 * Second - 2
  BY DEF Clock, Date
<1> DEFINE a == clock.sec * Second
           b == ts.sec * Second
<1>2. a \in Nat /\ b \in Nat
  BY <1>1, TimevalAssumption
<1>3. CASE clock.sec > ts.sec
  <2>1. clock.sec - ts.sec \in Nat \ {0} /\ a - b = (clock.sec - ts.sec) * Second
    BY <1>1, <1>3, TimevalAssumption
  <2>2. (clock.sec - ts.sec) * Second >= Second
    BY <2>1, TimevalAssumption
  <2> QED
    BY <1>1, <1>2, <2>1, <2>2, TimevalAssumption DEF Milliseconds
<1>4. CASE clock.sec = ts.sec /\ clock.usec > ts.usec
  BY <1>1, <1>2, <1>4, TimevalAssumption DEF Milliseconds
<1> QED
  BY <1>3, <1>4 DEF timeval_cmp

-----------------------------------------------------------------------------
(* The timeout that get_queue_timeout derives from a date is one that      *)
(* select accepts, is not 0, and is 1 ms or at most the time left.         *)
LEMMA TimeLeftIsSound ==
  ASSUME NEW clock \in Clock, NEW ts \in Date,
         NEW left, left = TimeLeft(ts, clock)
  PROVE  /\ left \in [sec : Nat, usec : Nat]
         /\ Milliseconds(left) \in Nat \ {0}
         /\ \/ Milliseconds(left) = 1
            \/ Milliseconds(left) + Milliseconds(clock) <= Milliseconds(ts)
<1> DEFINE diff == timeval_diff(ts, clock)
           sec  == ts.sec - clock.sec
           usec == ts.usec - clock.usec
<1>1. /\ clock.sec \in Nat /\ clock.usec \in 0 .. Second - 1
      /\ ts.sec \in Nat /\ ts.usec \in 0 .. 2 * Second - 2
      /\ sec \in Int /\ usec \in Int
      /\ Second \in Nat \ {0}
  BY TimevalAssumption DEF Clock, Date
<1> DEFINE c == clock.sec * Second
           t == ts.sec * Second
           d == sec * Second
<1>2. c \in Nat /\ t \in Nat /\ d = t - c /\ (sec - 1) * Second = d - Second
  BY <1>1
<1>3. Milliseconds(clock) = c + clock.usec /\ Milliseconds(ts) = t + ts.usec
  BY DEF Milliseconds
<1>4. CASE left = [sec |-> 0, usec |-> 1]
  <2>1. Milliseconds(left) = 1 /\ left \in [sec : Nat, usec : Nat]
    BY <1>1, <1>4 DEF Milliseconds
  <2> QED
    BY <2>1
<1>5. CASE left # [sec |-> 0, usec |-> 1]
  <2>1. /\ left = diff
        /\ ~(diff.sec < 0 \/ (diff.sec = 0 /\ diff.usec <= 0))
    BY <1>5 DEF TimeLeft
  <2>2. CASE usec >= 0
    <3>1. left = [sec |-> sec, usec |-> usec]
      BY <2>1, <2>2 DEF timeval_diff
    <3>2. sec >= 0 /\ (sec > 0 \/ usec > 0)
      BY <1>1, <2>1, <2>2, <3>1
    <3>3. d \in Nat /\ (sec > 0 => d > 0)
      BY <1>1, <3>2
    <3>4. Milliseconds(left) = d + usec
      BY <3>1 DEF Milliseconds
    <3>5. left \in [sec : Nat, usec : Nat]
      BY <1>1, <2>2, <3>1, <3>2
    <3> HIDE DEF c, t, d
    <3>6. Milliseconds(left) \in Nat \ {0}
      BY <1>1, <2>2, <3>2, <3>3, <3>4
    <3>7. Milliseconds(left) + Milliseconds(clock) <= Milliseconds(ts)
      BY <1>1, <1>2, <1>3, <3>4
    <3> QED
      BY <3>5, <3>6, <3>7
  <2>3. CASE usec < 0
    <3>1. left = [sec |-> sec - 1, usec |-> IF sec - 1 # 0 THEN usec + Second ELSE usec]
      BY <1>1, <2>1, <2>3 DEF timeval_diff
    <3>2. sec - 1 > 0
      BY <1>1, <2>1, <2>3, <3>1
    <3>3. d - Second \in Nat \ {0}
      <4>1. (sec - 1) * Second \in Nat \ {0}
        BY <1>1, <3>2
      <4> QED
        BY <1>2, <4>1
    <3>4. usec + Second \in Nat
      BY <1>1
    <3>5. Milliseconds(left) = (d - Second) + (usec + Second)
      BY <1>2, <3>1, <3>2 DEF Milliseconds
    <3>6. left \in [sec : Nat, usec : Nat]
      BY <1>1, <3>1, <3>2, <3>4
    <3> HIDE DEF c, t, d
    <3>7. Milliseconds(left) \in Nat \ {0}
      BY <3>3, <3>4, <3>5
    <3>8. Milliseconds(left) + Milliseconds(clock) <= Milliseconds(ts)
      BY <1>1, <1>2, <1>3, <3>5
    <3> QED
      BY <3>6, <3>7, <3>8
  <2> QED
    BY <1>1, <2>2, <2>3
<1> QED
  BY <1>4, <1>5

-----------------------------------------------------------------------------
(* The order of the dates, as one of numbers. *)
Rank(ts) == ts.sec * (2 * Second) + ts.usec

LEMMA RankIsOrder ==
  ASSUME NEW a \in Date, NEW b \in Date
  PROVE  /\ Rank(a) \in Nat
         /\ timeval_cmp(a, b) <=> Rank(a) > Rank(b)
         /\ Rank(a) = Rank(b) => a = b
<1> DEFINE S == 2 * Second
<1>1. /\ a.sec \in Nat /\ a.usec \in 0 .. S - 2
      /\ b.sec \in Nat /\ b.usec \in 0 .. S - 2
      /\ S \in Nat \ {0}
  BY TimevalAssumption DEF Date
<1>2. a = [sec |-> a.sec, usec |-> a.usec] /\ b = [sec |-> b.sec, usec |-> b.usec]
  BY DEF Date
<1>3. Rank(a) = a.sec * S + a.usec /\ Rank(b) = b.sec * S + b.usec
  BY DEF Rank
<1> HIDE DEF S
<1>4. a.sec * S \in Nat /\ b.sec * S \in Nat
  BY <1>1
<1>5. a.sec > b.sec => a.sec * S >= b.sec * S + S
  <2> SUFFICES ASSUME a.sec > b.sec PROVE a.sec * S >= b.sec * S + S
    OBVIOUS
  <2>1. a.sec - b.sec - 1 \in Nat
    BY <1>1
  <2>2. (a.sec - b.sec - 1) * S >= 0
    BY <1>1, <2>1
  <2> QED
    BY <1>1, <2>2
<1>6. b.sec > a.sec => b.sec * S >= a.sec * S + S
  <2> SUFFICES ASSUME b.sec > a.sec PROVE b.sec * S >= a.sec * S + S
    OBVIOUS
  <2>1. b.sec - a.sec - 1 \in Nat
    BY <1>1
  <2>2. (b.sec - a.sec - 1) * S >= 0
    BY <1>1, <2>1
  <2> QED
    BY <1>1, <2>2
<1>7. Rank(a) \in Nat
  BY <1>1, <1>3, <1>4
<1>8. CASE a.sec = b.sec
  BY <1>1, <1>2, <1>3, <1>4, <1>7, <1>8 DEF timeval_cmp
<1>9. CASE a.sec > b.sec
  BY <1>1, <1>3, <1>4, <1>5, <1>7, <1>9 DEF timeval_cmp
<1>10. CASE b.sec > a.sec
  BY <1>1, <1>3, <1>4, <1>6, <1>7, <1>10 DEF timeval_cmp
<1> QED
  BY <1>1, <1>8, <1>9, <1>10

(* A nonempty set of dates has a least one, and only one. *)
LEMMA LeastDate ==
  ASSUME NEW D, D \subseteq Date, D # {}
  PROVE  \E ts \in D : \A y \in D : ~timeval_cmp(ts, y)
<1> DEFINE T == {Rank(ts) : ts \in D}
<1>1. T \subseteq Nat /\ T # {}
  BY RankIsOrder
<1>2. PICK x \in T : \A y \in T : <<y, x>> \notin OpToRel(<, Nat)
  BY <1>1, NatLessThanWellFounded, WFMin, Zenon
<1>3. PICK ts \in D : x = Rank(ts)
  OBVIOUS
<1>4. ASSUME NEW y \in D PROVE ~timeval_cmp(ts, y)
  <2>1. Rank(y) \in T /\ Rank(y) \in Nat /\ Rank(ts) \in Nat
    BY RankIsOrder
  <2>2. ~(Rank(y) < Rank(ts))
    BY <1>2, <1>3, <2>1 DEF OpToRel
  <2> QED
    BY <2>1, <2>2, RankIsOrder
<1> QED
  BY <1>3, <1>4

-----------------------------------------------------------------------------
Address == Source \cup {dest_addr}

Received == [id : Nat, from : Address, malformed : BOOLEAN]
Slot     == [id : Nat, from : Address, ts : Date, read : Nat, wait : Nat]
Sent     == [id : Nat, from : Address, read : Nat, due : Nat, at : Nat]

Types ==
  /\ delay \in Nat /\ jitter \in Nat
  /\ now \in Nat /\ arrived \in Nat
  /\ last_clock \in Clock
  /\ timeout \in [sec : Int, usec : Int] \cup {NULL}
  /\ since \in 0 .. now
  /\ rfds \in BOOLEAN
  /\ pc \in {"loop", "select", "deliver", "process", "exit", "crashed"}
  /\ socket \in Seq(Received)
  /\ src_addr \in Address \cup {NULL}
  /\ pkt_queue \subseteq Slot
  /\ sent \in Seq(Sent)
  /\ returned \subseteq Address

-----------------------------------------------------------------------------
(* The queue shows a smallest item, and all smallest items have its date. *)
LEMMA SmallestExists ==
  ASSUME Types, pkt_queue # {}
  PROVE  /\ Queue!Smallest # {} /\ Queue!Smallest \subseteq pkt_queue
         /\ \A p, q \in Queue!Smallest : p.ts = q.ts
<1> DEFINE D == {p.ts : p \in pkt_queue}
<1>1. D \subseteq Date /\ D # {}
  BY DEF Types, Slot
<1>2. PICK ts \in D : \A y \in D : ~timeval_cmp(ts, y)
  BY <1>1, LeastDate
<1>3. PICK p \in pkt_queue : p.ts = ts
  OBVIOUS
<1>4. p \in Queue!Smallest
  BY <1>2, <1>3 DEF Queue!Smallest, pkt_slot_cmp
<1>5. Queue!Smallest \subseteq pkt_queue
  BY DEF Queue!Smallest
<1>6. ASSUME NEW q \in Queue!Smallest, NEW r \in Queue!Smallest
      PROVE  q.ts = r.ts
  <2>1. q.ts \in Date /\ r.ts \in Date
    BY <1>5 DEF Types, Slot
  <2>2. ~timeval_cmp(q.ts, r.ts) /\ ~timeval_cmp(r.ts, q.ts)
    BY <1>5 DEF Queue!Smallest, pkt_slot_cmp
  <2>3. Rank(q.ts) \in Nat /\ Rank(r.ts) \in Nat
        /\ ~(Rank(q.ts) > Rank(r.ts)) /\ ~(Rank(r.ts) > Rank(q.ts))
    BY <2>1, <2>2, RankIsOrder
  <2>4. Rank(q.ts) = Rank(r.ts)
    BY <2>3
  <2> QED
    BY <2>1, <2>4, RankIsOrder
<1> QED
  BY <1>4, <1>5, <1>6

-----------------------------------------------------------------------------
(* What the actions have in common: most of them leave the client, the     *)
(* queue and the fates of the packets alone.                               *)
Quiet == UNCHANGED <<src_addr, pkt_queue, fates>>

Takes(packet) ==
  /\ packet = Head(socket) /\ socket # <<>>
  /\ ~packet.malformed
  /\ LearnSource(packet)
  /\ UNCHANGED <<last_clock, now, arrived>> /\ socket' = Tail(socket)
  /\ \/ UNCHANGED <<pkt_queue, fates>>
     \/ packet.from = dest_addr /\ returned' = returned \cup {src_addr'}
        /\ UNCHANGED <<pkt_queue, taken, dropped, sent>>
     \/ /\ packet.from = src_addr' /\ packet.from # dest_addr
        /\ taken' = taken \cup {packet.id}
        /\ \/ UNCHANGED <<pkt_queue, dropped, sent, returned>> /\ pc' \in {"exit", "crashed"}
           \/ Drop(packet) \/ Forward(packet) \/ Enqueue(packet)

LEMMA Effects ==
  ASSUME [Next]_vars
  PROVE  /\ UNCHANGED options
         /\ UNCHANGED last_clock \/ last_clock' = Timeval(now)
         /\ \/ Quiet
            \/ \E p \in pkt_queue : DeliverNext(p)
            \/ \E packet \in Range(socket) : Takes(packet)
<1> USE DEF Quiet, environment, select, fates, options
<1>1. CASE UNCHANGED vars
  BY <1>1 DEF vars
<1>2. CASE Tick
  BY <1>2 DEF Tick
<1>3. CASE \E from \in Source \cup {dest_addr}, malformed \in BOOLEAN : Arrive(from, malformed)
  BY <1>3 DEF Arrive
<1>4. CASE Select
  BY <1>4 DEF Select, CallSelect, Readable, TimedOut, Interrupted, Wake
<1>5. CASE Deliver
  BY <1>5 DEF Deliver, DeliverNext, DeliverBlocked, Delivered
<1>6. CASE Process
  <2>1. CASE NothingToProcess \/ NothingToRead
    BY <2>1 DEF NothingToProcess, NothingToRead
  <2> SUFFICES ASSUME NEW packet \in Range(socket),
                      \/ RejectMalformed(packet) \/ IgnoreEmpty(packet) \/ Relay(packet)
                      \/ CannotRelay(packet) \/ IgnoreAlien(packet) \/ Drop(packet)
                      \/ Forward(packet) \/ Enqueue(packet) \/ DivideByZero(packet)
                      \/ CannotProcess(packet)
               PROVE  UNCHANGED options /\ UNCHANGED last_clock /\ (Quiet \/ Takes(packet))
    BY <1>6, <2>1 DEF Process
  <2>2. CASE RejectMalformed(packet) \/ IgnoreEmpty(packet)
    BY <2>2 DEF RejectMalformed, IgnoreEmpty, Receive
  <2>3. CASE Relay(packet)
    BY <2>3 DEF Relay, Receive, Takes
  <2>4. CASE CannotRelay(packet) \/ IgnoreAlien(packet)
    BY <2>4 DEF CannotRelay, IgnoreAlien, Receive, Takes
  <2>5. CASE Drop(packet)
    BY <2>5 DEF Drop, SimulateLink, Receive, Takes
  <2>6. CASE Forward(packet)
    BY <2>6 DEF Forward, SimulateLink, Receive, Takes
  <2>7. CASE Enqueue(packet)
    BY <2>7 DEF Enqueue, SimulateLink, Receive, Takes
  <2>8. CASE DivideByZero(packet) \/ CannotProcess(packet)
    BY <2>8 DEF DivideByZero, CannotProcess, SimulateLink, Receive, Takes
  <2> QED
    BY <2>2, <2>3, <2>4, <2>5, <2>6, <2>7, <2>8
<1>7. CASE Fail
  BY <1>7 DEF Fail
<1> QED
  BY <1>1, <1>2, <1>3, <1>4, <1>5, <1>6, <1>7 DEF Next

-----------------------------------------------------------------------------
(* Types. *)

LEMMA QueueTimeoutType ==
  ASSUME Types
  PROVE  get_queue_timeout \in [sec : Int, usec : Int] \cup {NULL}
<1> DEFINE head == CHOOSE head \in Queue!Smallest : TRUE
<1>1. CASE pkt_queue = {}
  BY <1>1 DEF get_queue_timeout
<1>2. CASE pkt_queue # {}
  <2>1. get_queue_timeout = TimeLeft(head.ts, last_clock)
    BY <1>2 DEF get_queue_timeout
  <2>2. head \in pkt_queue /\ head \in Queue!Smallest
    BY <1>2, SmallestExists
  <2> QED
    BY <2>1, <2>2, TimeLeftIsSound DEF Types, Slot
<1> QED
  BY <1>1, <1>2

LEMMA Remainder ==
  ASSUME NEW n \in Int, NEW d \in Nat \ {0}
  PROVE  n % d \in Nat
OBVIOUS

LEMMA AppliedDelaysType ==
  ASSUME Types
  PROVE  AppliedDelays \subseteq Nat
<1> SUFFICES ASSUME NEW a \in AppliedDelays
             PROVE  a \in Nat
  OBVIOUS
<1> PICK d \in {delay + r : r \in 0 .. jitter - 1} \cup {delay - r : r \in 0 .. jitter - 1} :
           a = (d % (UINT_MAX + 1)) % (10 * Second)
  BY DEF AppliedDelays
<1>0. d \in Int
  BY DEF Types
<1>1. UINT_MAX + 1 \in Nat \ {0} /\ 10 * Second \in Nat \ {0}
  BY LinkSimAssumption, TimevalAssumption
<1>2. d % (UINT_MAX + 1) \in Int
  BY <1>0, <1>1, Remainder
<1> QED
  BY <1>1, <1>2, Remainder

LEMMA ClockIsNat ==
  ASSUME NEW clock \in Clock
  PROVE  Milliseconds(clock) \in Nat
<1>1. clock.sec \in Nat /\ clock.usec \in Nat
  BY TimevalAssumption DEF Clock
<1>2. clock.sec * Second \in Nat
  BY <1>1, TimevalAssumption
<1> QED
  BY <1>1, <1>2 DEF Milliseconds

LEMMA TypesInit == Init => Types
<1> SUFFICES ASSUME Init PROVE Types
  OBVIOUS
<1>1. last_clock \in Clock
  BY ClockIsExact DEF Init
<1>2. delay \in Nat /\ jitter \in Nat
  BY LinkSimAssumption DEF Init
<1>3. /\ now \in Nat /\ arrived \in Nat /\ since \in 0 .. now
      /\ timeout \in [sec : Int, usec : Int] \cup {NULL}
      /\ pc = "loop"
  BY DEF Init
<1>6. rfds \in BOOLEAN
  BY Zenon DEF Init
<1>4. /\ socket = <<>> /\ sent = <<>> /\ src_addr = NULL /\ pkt_queue = {}
      /\ returned = {}
  BY DEF Init
<1>5. socket \in Seq(Received) /\ sent \in Seq(Sent)
  BY <1>4
<1> QED
  BY <1>1, <1>2, <1>3, <1>4, <1>5, <1>6 DEF Types

LEMMA TakesTypes ==
  ASSUME Types, NEW packet \in Range(socket), Takes(packet)
  PROVE  /\ src_addr' \in Address \cup {NULL} /\ src_addr' # NULL
         /\ pkt_queue' \subseteq Slot
         /\ sent' \in Seq(Sent)
         /\ returned' \subseteq Address
<1>1. packet \in Received
  BY DEF Takes, Types
<1>2. src_addr' \in Address /\ src_addr' # NULL
  BY <1>1, LinkSimAssumption DEF Takes, LearnSource, Types, Received, Address
<1>3. Milliseconds(last_clock) \in Nat
  BY ClockIsNat DEF Types
<1>4. CASE UNCHANGED <<pkt_queue, sent, returned>>
  BY <1>2, <1>4 DEF Types
<1>5. CASE returned' = returned \cup {src_addr'} /\ UNCHANGED <<pkt_queue, sent>>
  BY <1>2, <1>5 DEF Types
<1>6. CASE Drop(packet)
  BY <1>2, <1>6 DEF Types, Drop, SimulateLink
<1>7. CASE Forward(packet)
  <2> DEFINE x == [id |-> packet.id, from |-> packet.from,
                   read |-> Milliseconds(last_clock),
                   due |-> Milliseconds(last_clock) + 0, at |-> Milliseconds(last_clock)]
  <2>1. sent' = Append(sent, x)
    BY <1>7 DEF Forward, WriteOut
  <2>2. x \in Sent
    BY <1>1, <1>3 DEF Sent, Received
  <2> QED
    BY <1>2, <1>7, <2>1, <2>2 DEF Types, Forward, SimulateLink
<1>8. CASE Enqueue(packet)
  <2>1. PICK d \in AppliedDelays :
          pkt_queue' = pkt_queue \cup
            {[id |-> packet.id, from |-> packet.from, ts |-> Expiration(last_clock, d),
              read |-> Milliseconds(last_clock), wait |-> d]}
    BY <1>8 DEF Enqueue, Queue!Insert
  <2>2. d \in Nat /\ Expiration(last_clock, d) \in Date
    BY AppliedDelaysType, ExpirationIsExact DEF Types
  <2>3. pkt_queue' \subseteq Slot
    BY <1>1, <1>3, <2>1, <2>2 DEF Types, Slot, Received
  <2> QED
    BY <1>2, <1>8, <2>3 DEF Types, Enqueue, SimulateLink
<1> QED
  BY <1>4, <1>5, <1>6, <1>7, <1>8 DEF Takes, fates

(* What becomes of a packet that leaves the queue. *)
LEMMA DeliverTypes ==
  ASSUME Types, NEW p \in pkt_queue, DeliverNext(p)
  PROVE  /\ p \in Queue!Smallest /\ timeval_cmp(last_clock, p.ts)
         /\ sent' = Append(sent, [id |-> p.id, from |-> p.from, read |-> p.read,
                                  due |-> p.read + p.wait,
                                  at |-> Milliseconds(last_clock)])
         /\ sent' \in Seq(Sent)
         /\ pkt_queue' = pkt_queue \ {p}
         /\ UNCHANGED <<src_addr, taken, dropped, returned, last_clock, options, now>>
<1> DEFINE x == [id |-> p.id, from |-> p.from, read |-> p.read,
                 due |-> p.read + p.wait, at |-> Milliseconds(last_clock)]
<1>1. /\ p \in Queue!Smallest /\ pkt_queue' = pkt_queue \ {p}
      /\ sent' = Append(sent, x)
      /\ timeval_cmp(last_clock, p.ts)
      /\ UNCHANGED <<src_addr, taken, dropped, returned, last_clock, options, now>>
  BY DEF DeliverNext, Queue!Remove, WriteOut, Expired, select, environment
<1>2. x \in Sent
  BY ClockIsNat DEF Types, Slot, Sent
<1> QED
  BY <1>1, <1>2 DEF Types

LEMMA TypesStep == Types /\ [Next]_vars => Types'
<1> SUFFICES ASSUME Types, [Next]_vars PROVE Types'
  OBVIOUS
<1>1. /\ delay' \in Nat /\ jitter' \in Nat
      /\ last_clock' \in Clock
      /\ src_addr' \in Address \cup {NULL}
      /\ pkt_queue' \subseteq Slot
      /\ sent' \in Seq(Sent)
      /\ returned' \subseteq Address
  <2>1. delay' \in Nat /\ jitter' \in Nat /\ last_clock' \in Clock
    BY Effects, ClockIsExact DEF Types, options
  <2>2. CASE Quiet
    BY <2>1, <2>2 DEF Quiet, Types, fates
  <2>3. CASE \E p \in pkt_queue : DeliverNext(p)
    BY <2>1, <2>3, DeliverTypes DEF Types
  <2>4. CASE \E packet \in Range(socket) : Takes(packet)
    BY <2>1, <2>4, TakesTypes
  <2> QED
    BY <2>2, <2>3, <2>4, Effects
<1>2. /\ now' \in Nat /\ arrived' \in Nat
      /\ timeout' \in [sec : Int, usec : Int] \cup {NULL}
      /\ since' \in 0 .. now'
      /\ rfds' \in BOOLEAN
      /\ pc' \in {"loop", "select", "deliver", "process", "exit", "crashed"}
      /\ socket' \in Seq(Received)
  <2> USE DEF Types, environment, select, options
  <2>1. CASE UNCHANGED vars
    BY <2>1 DEF vars
  <2>2. CASE Tick
    BY <2>2 DEF Tick
  <2>3. CASE \E from \in Source \cup {dest_addr}, malformed \in BOOLEAN :
               Arrive(from, malformed)
    BY <2>3 DEF Arrive, Received, Address
  <2>4. CASE Select
    <3>1. CASE CallSelect
      <4>1. timeout' \in [sec : Int, usec : Int] \cup {NULL}
        BY <3>1, QueueTimeoutType DEF CallSelect
      <4>2. since' = now /\ pc' = "select" /\ UNCHANGED <<now, arrived, socket, rfds>>
        BY <3>1 DEF CallSelect
      <4> QED
        BY <4>1, <4>2
    <3>2. CASE Readable \/ TimedOut
      <4>1. rfds' \in BOOLEAN
        BY <3>2, Zenon DEF Readable, TimedOut, Wake
      <4>2. since' = 0 /\ pc' = "deliver" /\ UNCHANGED <<now, arrived, socket, timeout>>
        BY <3>2 DEF Readable, TimedOut, Wake
      <4> QED
        BY <4>1, <4>2
    <3>3. CASE Interrupted
      BY <3>3 DEF Interrupted
    <3> QED
      BY <2>4, <3>1, <3>2, <3>3 DEF Select
  <2>5. CASE Deliver
    BY <2>5 DEF Deliver, DeliverNext, DeliverBlocked, Delivered
  <2>6. CASE Process
    <3>1. /\ UNCHANGED <<now, arrived, timeout, since, rfds>>
          /\ pc' \in {"loop", "exit", "crashed"}
          /\ UNCHANGED socket \/ (socket # <<>> /\ socket' = Tail(socket))
      BY <2>6 DEF Process, NothingToProcess, NothingToRead, RejectMalformed,
           IgnoreEmpty, Relay, CannotRelay, IgnoreAlien, Drop, Forward, Enqueue,
           DivideByZero, CannotProcess, SimulateLink, Receive
    <3> QED
      BY <3>1
  <2>7. CASE Fail
    BY <2>7 DEF Fail
  <2> QED
    BY <2>1, <2>2, <2>3, <2>4, <2>5, <2>6, <2>7 DEF Next
<1> QED
  BY <1>1, <1>2 DEF Types

LEMMA AlwaysTypes == Spec => []Types
BY TypesInit, TypesStep, PTL DEF Spec

-----------------------------------------------------------------------------
(* What simulate_link does with the packets that it does not drop. *)

LEMMA TakenIsReceived ==
  ASSUME Types, NEW packet \in Range(socket), Takes(packet)
  PROVE  packet \in Received /\ Milliseconds(last_clock) \in Nat
<1>1. packet \in Received
  BY DEF Takes, Types
<1> QED
  BY <1>1, ClockIsNat DEF Types

(* The elements of a sequence to which x is appended. *)
LEMMA Appended ==
  ASSUME NEW S, NEW s \in Seq(S), NEW x \in S, NEW t, t = Append(s, x),
         NEW k \in DOMAIN t
  PROVE  \/ k \in DOMAIN s /\ t[k] = s[k]
         \/ k = Len(s) + 1 /\ t[k] = x
OBVIOUS

NewSlot(packet, d) ==
  [id |-> packet.id, from |-> packet.from, ts |-> Expiration(last_clock, d),
   read |-> Milliseconds(last_clock), wait |-> d]

LEMMA EnqueueEffect ==
  ASSUME Types, NEW packet \in Range(socket), Takes(packet), Enqueue(packet)
  PROVE  /\ delay # 0 /\ UNCHANGED <<dropped, sent, returned>>
         /\ \E d \in AppliedDelays :
              /\ d \in Nat /\ NewSlot(packet, d) \in Slot
              /\ NewSlot(packet, d) \notin pkt_queue
              /\ pkt_queue' = pkt_queue \cup {NewSlot(packet, d)}
              /\ Milliseconds(NewSlot(packet, d).ts) = Milliseconds(last_clock) + d
<1>1. PICK d \in AppliedDelays : /\ NewSlot(packet, d) \notin pkt_queue
                                /\ pkt_queue' = pkt_queue \cup {NewSlot(packet, d)}
  BY DEF Enqueue, Queue!Insert, NewSlot
<1>2. /\ d \in Nat /\ Expiration(last_clock, d) \in Date
      /\ Milliseconds(Expiration(last_clock, d)) = Milliseconds(last_clock) + d
  BY AppliedDelaysType, ExpirationIsExact DEF Types
<1>3. packet \in Received /\ Milliseconds(last_clock) \in Nat
  BY TakenIsReceived
<1>4. NewSlot(packet, d) \in Slot
  BY <1>2, <1>3 DEF NewSlot, Slot, Received
<1> QED
  BY <1>1, <1>2, <1>4 DEF NewSlot, Enqueue, SimulateLink

LEMMA ForwardEffect ==
  ASSUME Types, NEW packet \in Range(socket), Takes(packet), Forward(packet)
  PROVE  /\ delay = 0 /\ UNCHANGED <<pkt_queue, dropped, returned>>
         /\ \E x \in Sent :
              /\ sent' = Append(sent, x)
              /\ x.id = packet.id /\ x.from = packet.from
              /\ x.read = Milliseconds(last_clock)
              /\ x.due = x.read /\ x.at = x.read
<1> DEFINE x == [id |-> packet.id, from |-> packet.from,
                 read |-> Milliseconds(last_clock),
                 due |-> Milliseconds(last_clock) + 0, at |-> Milliseconds(last_clock)]
<1>1. sent' = Append(sent, x)
  BY DEF Forward, WriteOut
<1>2. packet \in Received /\ Milliseconds(last_clock) \in Nat
  BY TakenIsReceived
<1>3. x \in Sent
  BY <1>2 DEF Sent, Received
<1> QED
  BY <1>1, <1>2, <1>3 DEF Forward, SimulateLink

-----------------------------------------------------------------------------
(* One conversation. *)

Owned ==
  /\ \A k \in DOMAIN sent : sent[k].from = src_addr
  /\ \A p \in pkt_queue : p.from = src_addr
  /\ returned \subseteq {src_addr}

(* Before the first packet nothing has come through. *)
LEMMA NothingBeforeTheClient ==
  ASSUME Types, Owned, src_addr = NULL
  PROVE  sent = <<>> /\ pkt_queue = {} /\ returned = {}
<1>1. NULL \notin Address
  BY LinkSimAssumption DEF Address
<1>2. returned = {}
  BY <1>1 DEF Types, Owned
<1>3. pkt_queue = {}
  BY <1>1 DEF Types, Owned, Slot
<1>4. DOMAIN sent = {}
  <2> SUFFICES ASSUME NEW k \in DOMAIN sent PROVE FALSE
    OBVIOUS
  <2>1. sent[k] \in Sent
    BY DEF Types
  <2> QED
    BY <1>1, <2>1 DEF Owned, Sent
<1> QED
  BY <1>2, <1>3, <1>4 DEF Types

LEMMA OwnedStep ==
  ASSUME Types, Owned, [Next]_vars
  PROVE  Owned'
<1>1. CASE Quiet
  BY <1>1 DEF Quiet, fates, Owned
<1>2. ASSUME NEW p \in pkt_queue, DeliverNext(p) PROVE Owned'
  <2> DEFINE x == [id |-> p.id, from |-> p.from, read |-> p.read,
                   due |-> p.read + p.wait, at |-> Milliseconds(last_clock)]
  <2>1. sent' = Append(sent, x) /\ sent' \in Seq(Sent) /\ pkt_queue' = pkt_queue \ {p}
        /\ UNCHANGED <<src_addr, returned>>
    BY <1>2, DeliverTypes
  <2>2. x.from = src_addr
    BY DEF Owned
  <2>3. x \in Sent /\ sent \in Seq(Sent)
    BY ClockIsNat DEF Types, Slot, Sent
  <2> HIDE DEF x
  <2>4. \A k \in DOMAIN sent' : sent'[k].from = src_addr
    BY <2>1, <2>2, <2>3, Appended DEF Owned
  <2> QED
    BY <2>1, <2>4 DEF Owned
<1>3. ASSUME NEW packet \in Range(socket), Takes(packet) PROVE Owned'
  <2>1. \/ src_addr' = src_addr
        \/ sent = <<>> /\ pkt_queue = {} /\ returned = {}
    BY <1>3, NothingBeforeTheClient DEF Takes, LearnSource
  <2>2. /\ \A k \in DOMAIN sent : sent[k].from = src_addr'
        /\ \A p \in pkt_queue : p.from = src_addr'
        /\ returned \subseteq {src_addr'}
    BY <2>1 DEF Owned
  <2>3. CASE UNCHANGED <<pkt_queue, sent>> /\ returned' \subseteq returned \cup {src_addr'}
    BY <2>2, <2>3 DEF Owned
  <2>4. CASE Forward(packet) /\ packet.from = src_addr'
    <3>1. PICK x \in Sent : sent' = Append(sent, x) /\ x.from = src_addr'
      BY <1>3, <2>4, ForwardEffect
    <3>2. \A k \in DOMAIN sent' : sent'[k].from = src_addr'
      BY <2>2, <3>1, Appended DEF Types
    <3> QED
      BY <1>3, <2>2, <2>4, <3>2, ForwardEffect DEF Owned
  <2>5. CASE Enqueue(packet) /\ packet.from = src_addr'
    <3>1. PICK d \in AppliedDelays : pkt_queue' = pkt_queue \cup {NewSlot(packet, d)}
      BY <1>3, <2>5, EnqueueEffect
    <3>2. NewSlot(packet, d).from = src_addr'
      BY <2>5 DEF NewSlot
    <3>3. UNCHANGED <<sent, returned>>
      BY <1>3, <2>5, EnqueueEffect
    <3>4. \A p \in pkt_queue' : p.from = src_addr'
      BY <2>2, <3>1, <3>2
    <3> QED
      BY <2>2, <3>3, <3>4 DEF Owned
  <2> QED
    BY <1>3, <2>3, <2>4, <2>5 DEF Takes, fates, Drop, SimulateLink
<1> QED
  BY <1>1, <1>2, <1>3, Effects

LEMMA OwnedInit == Init => Owned
BY DEF Init, Owned

(* OneConversation: all that linksim lets through, in both directions,     *)
(* belongs to the one that wrote first, whoever else writes to it.         *)
THEOREM OneClientServed == Spec => []OneConversation
<1>1. Owned => OneConversation
  <2> SUFFICES ASSUME Owned PROVE OneConversation
    OBVIOUS
  <2> DEFINE all == {sent[k].from : k \in DOMAIN sent} \cup returned
  <2>1. all \subseteq {src_addr}
    BY DEF Owned
  <2>2. IsFiniteSet({src_addr}) /\ Cardinality({src_addr}) = 1
    BY FS_Singleton
  <2>3. Cardinality(all) <= 1
    BY <2>1, <2>2, FS_Subset
  <2> QED
    BY <2>3 DEF OneConversation
<1> QED
  BY <1>1, OwnedInit, OwnedStep, AlwaysTypes, PTL DEF Spec

-----------------------------------------------------------------------------
(* No packet leaves by a second or more too early. *)

DatesExact == \A p \in pkt_queue : Milliseconds(p.ts) = p.read + p.wait

LEMMA EarlyStep ==
  ASSUME Types, DatesExact, NeverASecondEarly, [Next]_vars
  PROVE  DatesExact' /\ NeverASecondEarly'
<1> USE DEF DatesExact, NeverASecondEarly
<1>1. CASE Quiet
  BY <1>1 DEF Quiet, fates
<1>2. ASSUME NEW p \in pkt_queue, DeliverNext(p) PROVE DatesExact' /\ NeverASecondEarly'
  <2>1. p.read + p.wait < Milliseconds(last_clock) + Second
    BY <1>2, DeliverTypes, PassedBySeconds DEF Types, Slot
  <2> DEFINE x == [id |-> p.id, from |-> p.from, read |-> p.read,
                   due |-> p.read + p.wait, at |-> Milliseconds(last_clock)]
  <2>2. sent' = Append(sent, x) /\ pkt_queue' = pkt_queue \ {p}
    BY <1>2, DeliverTypes
  <2>3. x.due < x.at + Second
    BY <2>1
  <2>4. x \in Sent /\ sent \in Seq(Sent)
    BY ClockIsNat DEF Types, Slot, Sent
  <2> HIDE DEF x
  <2>5. NeverASecondEarly'
    BY <2>2, <2>3, <2>4, Appended
  <2> QED
    BY <2>2, <2>5
<1>3. ASSUME NEW packet \in Range(socket), Takes(packet)
      PROVE  DatesExact' /\ NeverASecondEarly'
  <2>1. CASE UNCHANGED <<pkt_queue, sent>>
    BY <2>1
  <2>2. CASE Forward(packet)
    <3>1. PICK x \in Sent : sent' = Append(sent, x) /\ x.due = x.at
      BY <1>3, <2>2, ForwardEffect
    <3>2. x.due < x.at + Second
      BY <3>1, TimevalAssumption DEF Sent
    <3>3. NeverASecondEarly'
      BY <3>1, <3>2, Appended DEF Types
    <3> QED
      BY <1>3, <2>2, <3>3, ForwardEffect
  <2>3. CASE Enqueue(packet)
    <3>1. PICK d \in AppliedDelays :
            /\ pkt_queue' = pkt_queue \cup {NewSlot(packet, d)}
            /\ Milliseconds(NewSlot(packet, d).ts) = Milliseconds(last_clock) + d
      BY <1>3, <2>3, EnqueueEffect
    <3> DEFINE x == NewSlot(packet, d)
    <3>2. Milliseconds(x.ts) = x.read + x.wait
      <4>1. x.read = Milliseconds(last_clock) /\ x.wait = d
        BY DEF NewSlot
      <4> QED
        BY <3>1, <4>1
    <3>3. pkt_queue' = pkt_queue \cup {x}
      BY <3>1
    <3> HIDE DEF x
    <3>4. \A p \in pkt_queue' : Milliseconds(p.ts) = p.read + p.wait
      BY <3>2, <3>3
    <3>5. UNCHANGED sent
      BY <1>3, <2>3, EnqueueEffect
    <3> QED
      BY <3>4, <3>5
  <2> QED
    BY <1>3, <2>1, <2>2, <2>3 DEF Takes, fates, Drop, SimulateLink
<1> QED
  BY <1>1, <1>2, <1>3, Effects

(* NeverASecondEarly: the missing carry and the comparison field by field  *)
(* never make a packet leave by a second or more before its time.          *)
THEOREM LessThanASecondEarly == Spec => []NeverASecondEarly
<1>1. Init => DatesExact /\ NeverASecondEarly
  BY DEF Init, DatesExact, NeverASecondEarly
<1> QED
  BY <1>1, EarlyStep, AlwaysTypes, PTL DEF Spec

-----------------------------------------------------------------------------
(* The timeout given to select. *)

LEMMA EntersSelect ==
  ASSUME [Next]_vars, pc' = "select"
  PROVE  CallSelect \/ UNCHANGED <<pc, timeout, last_clock, pkt_queue>>
<1> USE DEF environment, select
<1>1. CASE UNCHANGED vars
  BY <1>1 DEF vars
<1>2. CASE Tick
  BY <1>2 DEF Tick
<1>3. CASE \E from \in Source \cup {dest_addr}, malformed \in BOOLEAN : Arrive(from, malformed)
  BY <1>3 DEF Arrive
<1>4. CASE Select
  BY <1>4 DEF Select, Readable, TimedOut, Interrupted, Wake
<1>5. CASE Deliver
  BY <1>5 DEF Deliver, DeliverNext, DeliverBlocked, Delivered
<1>6. CASE Process
  BY <1>6 DEF Process, NothingToProcess, NothingToRead, RejectMalformed, IgnoreEmpty,
       Relay, CannotRelay, IgnoreAlien, Drop, Forward, Enqueue, DivideByZero, CannotProcess
<1>7. CASE Fail
  BY <1>7 DEF Fail
<1> QED
  BY <1>1, <1>2, <1>3, <1>4, <1>5, <1>6, <1>7 DEF Next

LEMMA QueueTimeoutIsSound ==
  ASSUME Types, pkt_queue # {}
  PROVE  /\ get_queue_timeout # NULL
         /\ get_queue_timeout.sec >= 0 /\ get_queue_timeout.usec >= 0
         /\ Milliseconds(get_queue_timeout) > 0
         /\ \/ Milliseconds(get_queue_timeout) = 1
            \/ \A p \in Queue!Smallest :
                 Milliseconds(get_queue_timeout) + Milliseconds(last_clock)
                   <= Milliseconds(p.ts)
<1> DEFINE head == CHOOSE head \in Queue!Smallest : TRUE
           left == TimeLeft(head.ts, last_clock)
<1>1. get_queue_timeout = left
  BY DEF get_queue_timeout
<1>2. head \in Queue!Smallest /\ head \in pkt_queue
      /\ \A p \in Queue!Smallest : p.ts = head.ts
  BY SmallestExists
<1>3. head.ts \in Date
  BY <1>2 DEF Types, Slot
<1>4. /\ left \in [sec : Nat, usec : Nat]
      /\ Milliseconds(left) \in Nat \ {0}
      /\ \/ Milliseconds(left) = 1
         \/ Milliseconds(left) + Milliseconds(last_clock) <= Milliseconds(head.ts)
  BY <1>3, TimeLeftIsSound DEF Types
<1> HIDE DEF left, head
<1>5. left # NULL
  <2>1. left \in [sec : Int, usec : Int]
    BY <1>4
  <2> QED
    BY <2>1, LinkSimAssumption
<1> QED
  BY <1>1, <1>2, <1>4, <1>5

LEMMA SoundStep ==
  ASSUME Types, TimeoutIsSound, [Next]_vars
  PROVE  TimeoutIsSound'
<1> SUFFICES ASSUME pc' = "select"
             PROVE  TimeoutIsSound'
  BY DEF TimeoutIsSound
<1>1. CASE UNCHANGED <<pc, timeout, last_clock, pkt_queue>>
  BY <1>1 DEF TimeoutIsSound, Queue!Smallest
<1>2. CASE CallSelect
  <2>1. timeout' = get_queue_timeout /\ UNCHANGED <<last_clock, pkt_queue>>
    BY <1>2 DEF CallSelect
  <2>2. CASE pkt_queue = {}
    <3>1. timeout' = NULL
      BY <2>1, <2>2 DEF get_queue_timeout
    <3> QED
      BY <2>1, <2>2, <3>1 DEF TimeoutIsSound
  <2>3. CASE pkt_queue # {}
    BY <2>1, <2>3, QueueTimeoutIsSound DEF TimeoutIsSound, Queue!Smallest
  <2> QED
    BY <2>2, <2>3
<1> QED
  BY <1>1, <1>2, EntersSelect

(* TimeoutIsSound: on whatever dates, normalised or not, the time given to *)
(* select is one that it accepts and does not make the simulator oversleep.*)
THEOREM SelectIsSound == Spec => []TimeoutIsSound
<1>1. Init => TimeoutIsSound
  BY DEF Init, TimeoutIsSound
<1> QED
  BY <1>1, SoundStep, AlwaysTypes, PTL DEF Spec

-----------------------------------------------------------------------------
(* What the steps do to the socket; a program that has ended stays so.     *)
LEMMA SocketEffects ==
  ASSUME [Next]_vars
  PROVE  /\ pc \in {"exit", "crashed"} => pc' = pc
         /\ UNCHANGED now \/ now' = now + 1
         /\ \/ UNCHANGED <<socket, arrived>>
            \/ \E from \in Source \cup {dest_addr}, malformed \in BOOLEAN :
                 Arrive(from, malformed)
            \/ socket # <<>> /\ socket' = Tail(socket) /\ UNCHANGED arrived
<1> USE DEF environment
<1>1. CASE UNCHANGED vars
  BY <1>1 DEF vars
<1>2. CASE Tick
  BY <1>2 DEF Tick
<1>3. CASE \E from \in Source \cup {dest_addr}, malformed \in BOOLEAN : Arrive(from, malformed)
  BY <1>3 DEF Arrive
<1>4. CASE Select
  BY <1>4 DEF Select, CallSelect, Readable, TimedOut, Interrupted, Wake
<1>5. CASE Deliver
  BY <1>5 DEF Deliver, DeliverNext, DeliverBlocked, Delivered
<1>6. CASE Process
  BY <1>6 DEF Process, NothingToProcess, NothingToRead, RejectMalformed, IgnoreEmpty,
       Relay, CannotRelay, IgnoreAlien, Drop, Forward, Enqueue, DivideByZero,
       CannotProcess, SimulateLink, Receive
<1>7. CASE Fail
  BY <1>7 DEF Fail
<1> QED
  BY <1>1, <1>2, <1>3, <1>4, <1>5, <1>6, <1>7 DEF Next

-----------------------------------------------------------------------------
(* Datagrams are numbered as they arrive. *)

Numbered ==
  /\ \A k \in DOMAIN socket : socket[k].id \in 1 .. arrived
  /\ \A j, k \in DOMAIN socket : j < k => socket[j].id < socket[k].id

LEMMA NumberedStep ==
  ASSUME Types, Numbered, [Next]_vars
  PROVE  Numbered'
<1> USE DEF Numbered
<1>1. CASE UNCHANGED <<socket, arrived>>
  BY <1>1
<1>2. ASSUME NEW from \in Address, NEW malformed \in BOOLEAN, Arrive(from, malformed)
      PROVE  Numbered'
  <2> DEFINE x == [id |-> arrived + 1, from |-> from, malformed |-> malformed]
  <2>1. socket' = Append(socket, x) /\ arrived' = arrived + 1 /\ x.id = arrived + 1
    BY <1>2 DEF Arrive
  <2>2. x \in Received /\ socket \in Seq(Received) /\ arrived \in Nat
    BY DEF Types, Received
  <2> HIDE DEF x
  <2> QED
    BY <2>1, <2>2, Appended
<1>3. CASE socket # <<>> /\ socket' = Tail(socket) /\ UNCHANGED arrived
  <2>1. \A k \in DOMAIN socket' :
           socket'[k] = socket[k + 1] /\ k + 1 \in DOMAIN socket /\ k \in Nat
    BY <1>3 DEF Types
  <2> QED
    BY <1>3, <2>1
<1> QED
  BY <1>1, <1>2, <1>3, SocketEffects DEF Address

-----------------------------------------------------------------------------
(* The packets given to simulate_link. *)

Ids ==
  /\ taken \subseteq 1 .. arrived
  /\ \A k \in DOMAIN socket : socket[k].id \notin taken
  /\ dropped \cup QueuedIds \cup SentIds \subseteq taken

Counted ==
  /\ IsFiniteSet(taken) /\ IsFiniteSet(dropped) /\ IsFiniteSet(pkt_queue)
  /\ NothingLostNorRepeated

(* What is added to a set or a sequence. *)
LEMMA QueuedIdsAre ==
  ASSUME NEW x, pkt_queue' = pkt_queue \cup {x}
  PROVE  QueuedIds' = QueuedIds \cup {x.id}
BY DEF QueuedIds

LEMMA SentIdsAre ==
  ASSUME Types, NEW x \in Sent, sent' = Append(sent, x)
  PROVE  SentIds' = SentIds \cup {x.id} /\ Len(sent') = Len(sent) + 1
<1>1. sent \in Seq(Sent)
  BY DEF Types
<1>2. DOMAIN sent' = DOMAIN sent \cup {Len(sent) + 1} /\ Len(sent') = Len(sent) + 1
      /\ sent'[Len(sent) + 1] = x /\ \A k \in DOMAIN sent : sent'[k] = sent[k]
  BY <1>1
<1> QED
  BY <1>2 DEF SentIds

(* The packet at the head of the socket is new, and the rest stay so.      *)
LEMMA TakenIsNew ==
  ASSUME Types, Numbered, Ids, NEW packet \in Range(socket), Takes(packet)
  PROVE  /\ packet.id \in 1 .. arrived /\ packet.id \notin taken
         /\ \A k \in DOMAIN socket' : socket'[k].id \notin taken \cup {packet.id}
<1>1. socket \in Seq(Received) /\ socket # <<>> /\ socket' = Tail(socket)
      /\ packet = socket[1] /\ 1 \in DOMAIN socket
  BY DEF Types, Takes
<1>2. \A k \in DOMAIN socket' : socket'[k] = socket[k + 1] /\ k + 1 \in DOMAIN socket /\ 1 < k + 1
  BY <1>1
<1>3. \A k \in DOMAIN socket' : socket[1].id < socket'[k].id
  BY <1>1, <1>2 DEF Numbered
<1>4. \A k \in DOMAIN socket' : socket'[k].id \notin taken
  BY <1>2 DEF Ids
<1>5. \A k \in DOMAIN socket' : socket'[k].id # packet.id
  BY <1>1, <1>2, <1>3 DEF Numbered
<1> QED
  BY <1>1, <1>4, <1>5 DEF Numbered, Ids

LEMMA IdsStep ==
  ASSUME Types, Numbered, Ids, [Next]_vars
  PROVE  Ids'
<1>1. arrived \in Nat /\ arrived' \in Nat /\ arrived <= arrived'
  <2>1. arrived \in Nat
    BY DEF Types
  <2>2. arrived' = arrived \/ arrived' = arrived + 1
    BY SocketEffects, Zenon DEF Arrive
  <2> QED
    BY <2>1, <2>2
<1>2. \A n \in 1 .. arrived : n \in 1 .. arrived'
  BY <1>1
<1>3. \A k \in DOMAIN socket' : socket'[k].id \notin taken
  <2>1. CASE UNCHANGED <<socket, arrived>>
    BY <2>1 DEF Ids
  <2>2. ASSUME NEW from \in Address, NEW malformed \in BOOLEAN, Arrive(from, malformed)
        PROVE  \A k \in DOMAIN socket' : socket'[k].id \notin taken
    <3> DEFINE x == [id |-> arrived + 1, from |-> from, malformed |-> malformed]
    <3>1. socket' = Append(socket, x) /\ x.id = arrived + 1
      BY <2>2 DEF Arrive
    <3>2. x \in Received /\ socket \in Seq(Received)
      BY DEF Types, Received
    <3>3. x.id \notin taken
      BY <1>1, <3>1 DEF Ids
    <3> HIDE DEF x
    <3> QED
      BY <3>1, <3>2, <3>3, Appended DEF Ids
  <2>3. CASE socket # <<>> /\ socket' = Tail(socket) /\ UNCHANGED arrived
    <3>1. \A k \in DOMAIN socket' : socket'[k] = socket[k + 1] /\ k + 1 \in DOMAIN socket
      BY <2>3 DEF Types
    <3> QED
      BY <3>1 DEF Ids
  <2> QED
    BY <2>1, <2>2, <2>3, SocketEffects DEF Address
<1>4. CASE Quiet
  <2>1. UNCHANGED <<taken, dropped, QueuedIds, SentIds>>
    BY <1>4 DEF Quiet, fates, QueuedIds, SentIds
  <2> QED
    BY <1>2, <1>3, <2>1 DEF Ids
<1>5. ASSUME NEW p \in pkt_queue, DeliverNext(p) PROVE Ids'
  <2> DEFINE x == [id |-> p.id, from |-> p.from, read |-> p.read,
                   due |-> p.read + p.wait, at |-> Milliseconds(last_clock)]
  <2>1. sent' = Append(sent, x) /\ pkt_queue' = pkt_queue \ {p} /\ UNCHANGED <<taken, dropped>>
    BY <1>5, DeliverTypes
  <2>2. x \in Sent /\ x.id = p.id
    BY ClockIsNat DEF Types, Slot, Sent
  <2> HIDE DEF x
  <2>3. SentIds' = SentIds \cup {p.id} /\ QueuedIds' \subseteq QueuedIds /\ p.id \in QueuedIds
    BY <2>1, <2>2, SentIdsAre DEF QueuedIds
  <2> QED
    BY <1>2, <1>3, <2>1, <2>3 DEF Ids
<1>6. ASSUME NEW packet \in Range(socket), Takes(packet) PROVE Ids'
  <2>1. CASE UNCHANGED taken /\ UNCHANGED <<pkt_queue, dropped, sent>>
    <3>1. UNCHANGED <<QueuedIds, SentIds>>
      BY <2>1 DEF QueuedIds, SentIds
    <3> QED
      BY <1>2, <1>3, <2>1, <3>1 DEF Ids
  <2>2. CASE /\ taken' = taken \cup {packet.id}
             /\ \/ UNCHANGED <<pkt_queue, dropped, sent>>
                \/ Drop(packet) \/ Forward(packet) \/ Enqueue(packet)
    <3>1. packet.id \in 1 .. arrived
          /\ \A k \in DOMAIN socket' : socket'[k].id \notin taken \cup {packet.id}
      BY <1>6, TakenIsNew
    <3>2. dropped' \cup QueuedIds' \cup SentIds'
            \subseteq dropped \cup QueuedIds \cup SentIds \cup {packet.id}
      <4>1. CASE UNCHANGED <<pkt_queue, dropped, sent>>
        BY <4>1 DEF QueuedIds, SentIds
      <4>2. CASE Drop(packet)
        BY <4>2 DEF Drop, QueuedIds, SentIds
      <4>3. CASE Forward(packet)
        <5>1. SentIds' = SentIds \cup {packet.id} /\ UNCHANGED <<pkt_queue, dropped>>
          BY <1>6, <4>3, ForwardEffect, SentIdsAre
        <5> QED
          BY <5>1 DEF QueuedIds
      <4>4. CASE Enqueue(packet)
        <5>1. PICK x : /\ x \notin pkt_queue /\ x.id = packet.id
                       /\ pkt_queue' = pkt_queue \cup {x}
          BY <1>6, <4>4, EnqueueEffect DEF NewSlot
        <5>2. QueuedIds' = QueuedIds \cup {packet.id}
          BY <5>1, QueuedIdsAre
        <5>3. UNCHANGED <<dropped, sent>>
          BY <1>6, <4>4, EnqueueEffect
        <5> QED
          BY <5>2, <5>3 DEF SentIds
      <4> QED
        BY <2>2, <4>1, <4>2, <4>3, <4>4
    <3> QED
      BY <1>2, <2>2, <3>1, <3>2 DEF Ids
  <2> QED
    BY <1>6, <2>1, <2>2 DEF Takes, fates
<1> QED
  BY <1>4, <1>5, <1>6, Effects

LEMMA CountedStep ==
  ASSUME Types, Numbered, Ids, Counted, [Next]_vars
  PROVE  Counted'
<1>0. /\ IsFiniteSet(taken) /\ IsFiniteSet(dropped) /\ IsFiniteSet(pkt_queue)
      /\ sent \in Seq(Sent)
      /\ pc' \notin {"exit", "crashed"} =>
           /\ taken = dropped \cup QueuedIds \cup SentIds
           /\ Cardinality(taken) = Cardinality(dropped) + Cardinality(pkt_queue) + Len(sent)
  BY SocketEffects DEF Counted, NothingLostNorRepeated, Types
<1>00. /\ Cardinality(taken) \in Nat /\ Cardinality(dropped) \in Nat
       /\ Cardinality(pkt_queue) \in Nat /\ Len(sent) \in Nat
  BY <1>0, FS_CardinalityType
<1>1. CASE Quiet
  <2>1. UNCHANGED <<taken, dropped, pkt_queue, sent, QueuedIds, SentIds>>
    BY <1>1 DEF Quiet, fates, QueuedIds, SentIds
  <2> QED
    BY <1>0, <2>1 DEF Counted, NothingLostNorRepeated
<1>2. ASSUME NEW p \in pkt_queue, DeliverNext(p) PROVE Counted'
  <2> DEFINE x == [id |-> p.id, from |-> p.from, read |-> p.read,
                   due |-> p.read + p.wait, at |-> Milliseconds(last_clock)]
  <2>1. sent' = Append(sent, x) /\ pkt_queue' = pkt_queue \ {p} /\ UNCHANGED <<taken, dropped>>
    BY <1>2, DeliverTypes
  <2>2. x \in Sent /\ x.id = p.id
    BY ClockIsNat DEF Types, Slot, Sent
  <2> HIDE DEF x
  <2>3. SentIds' = SentIds \cup {p.id} /\ Len(sent') = Len(sent) + 1
    BY <2>1, <2>2, SentIdsAre
  <2>4. QueuedIds' \cup {p.id} = QueuedIds
    BY <2>1 DEF QueuedIds
  <2>5. IsFiniteSet(pkt_queue') /\ Cardinality(pkt_queue') = Cardinality(pkt_queue) - 1
    BY <1>0, <2>1, FS_RemoveElement
  <2>6. dropped \cup QueuedIds \cup SentIds = dropped' \cup QueuedIds' \cup SentIds'
    BY <2>1, <2>3, <2>4
  <2>7. Cardinality(dropped) + Cardinality(pkt_queue) + Len(sent)
          = Cardinality(dropped') + Cardinality(pkt_queue') + Len(sent')
    BY <1>00, <2>1, <2>3, <2>5
  <2> QED
    BY <1>0, <2>1, <2>5, <2>6, <2>7 DEF Counted, NothingLostNorRepeated
<1>3. ASSUME NEW packet \in Range(socket), Takes(packet) PROVE Counted'
  <2>0. packet.id \notin taken /\ packet.id \notin dropped
    BY <1>3, TakenIsNew DEF Ids
  <2>1. IsFiniteSet(taken \cup {packet.id})
        /\ Cardinality(taken \cup {packet.id}) = Cardinality(taken) + 1
    BY <1>0, <2>0, FS_AddElement
  <2>2. CASE UNCHANGED taken /\ UNCHANGED <<pkt_queue, dropped, sent>>
    <3>1. UNCHANGED <<QueuedIds, SentIds>>
      BY <2>2 DEF QueuedIds, SentIds
    <3> QED
      BY <1>0, <2>2, <3>1 DEF Counted, NothingLostNorRepeated
  <2>3. CASE /\ taken' = taken \cup {packet.id} /\ pc' \in {"exit", "crashed"}
             /\ UNCHANGED <<pkt_queue, dropped, sent>>
    BY <1>0, <2>1, <2>3 DEF Counted, NothingLostNorRepeated
  <2>4. CASE taken' = taken \cup {packet.id} /\ Drop(packet)
    <3>1. dropped' = dropped \cup {packet.id} /\ UNCHANGED <<pkt_queue, sent>>
      BY <2>4 DEF Drop
    <3>2. IsFiniteSet(dropped') /\ Cardinality(dropped') = Cardinality(dropped) + 1
      BY <1>0, <2>0, <3>1, FS_AddElement
    <3>3. UNCHANGED <<QueuedIds, SentIds>>
      BY <3>1 DEF QueuedIds, SentIds
    <3>4. Cardinality(dropped') + Cardinality(pkt_queue') + Len(sent')
            = Cardinality(dropped) + Cardinality(pkt_queue) + Len(sent) + 1
      BY <1>00, <3>1, <3>2
    <3>5. dropped' \cup QueuedIds' \cup SentIds'
            = dropped \cup QueuedIds \cup SentIds \cup {packet.id}
      BY <3>1, <3>3
    <3> QED
      BY <1>0, <2>1, <2>4, <3>1, <3>2, <3>4, <3>5 DEF Counted, NothingLostNorRepeated
  <2>5. CASE taken' = taken \cup {packet.id} /\ Forward(packet)
    <3>1. UNCHANGED <<pkt_queue, dropped, QueuedIds>>
          /\ SentIds' = SentIds \cup {packet.id} /\ Len(sent') = Len(sent) + 1
      BY <1>3, <2>5, ForwardEffect, SentIdsAre DEF QueuedIds
    <3>4. Cardinality(dropped') + Cardinality(pkt_queue') + Len(sent')
            = Cardinality(dropped) + Cardinality(pkt_queue) + Len(sent) + 1
      BY <1>00, <3>1
    <3>5. dropped' \cup QueuedIds' \cup SentIds'
            = dropped \cup QueuedIds \cup SentIds \cup {packet.id}
      BY <3>1
    <3> QED
      BY <1>0, <2>1, <2>5, <3>1, <3>4, <3>5 DEF Counted, NothingLostNorRepeated
  <2>6. CASE taken' = taken \cup {packet.id} /\ Enqueue(packet)
    <3>1. PICK x : /\ x \notin pkt_queue /\ x.id = packet.id
                   /\ pkt_queue' = pkt_queue \cup {x}
      BY <1>3, <2>6, EnqueueEffect DEF NewSlot
    <3>2. QueuedIds' = QueuedIds \cup {packet.id}
      BY <3>1, QueuedIdsAre
    <3>3. UNCHANGED <<dropped, sent, SentIds>>
      BY <1>3, <2>6, EnqueueEffect DEF SentIds
    <3>4. IsFiniteSet(pkt_queue') /\ Cardinality(pkt_queue') = Cardinality(pkt_queue) + 1
      BY <1>0, <3>1, FS_AddElement
    <3>5. Cardinality(dropped') + Cardinality(pkt_queue') + Len(sent')
            = Cardinality(dropped) + Cardinality(pkt_queue) + Len(sent) + 1
      BY <1>00, <3>3, <3>4
    <3>6. dropped' \cup QueuedIds' \cup SentIds'
            = dropped \cup QueuedIds \cup SentIds \cup {packet.id}
      BY <3>2, <3>3
    <3> QED
      BY <1>0, <2>1, <2>6, <3>3, <3>4, <3>5, <3>6 DEF Counted, NothingLostNorRepeated
  <2> QED
    BY <1>3, <2>2, <2>3, <2>4, <2>5, <2>6 DEF Takes, fates
<1> QED
  BY <1>1, <1>2, <1>3, Effects

LEMMA FatesInit == Init => Numbered /\ Ids /\ Counted
<1> SUFFICES ASSUME Init PROVE Numbered /\ Ids /\ Counted
  OBVIOUS
<1>1. /\ socket = <<>> /\ sent = <<>> /\ taken = {} /\ dropped = {} /\ pkt_queue = {}
      /\ arrived = 0
  BY DEF Init
<1>2. QueuedIds = {} /\ SentIds = {}
  BY <1>1 DEF QueuedIds, SentIds
<1>3. IsFiniteSet({}) /\ Cardinality({}) = 0
  BY FS_EmptySet
<1> QED
  BY <1>1, <1>2, <1>3 DEF Numbered, Ids, Counted, NothingLostNorRepeated

LEMMA AlwaysIds == Spec => [](Types /\ Numbered /\ Ids)
<1>1. Init => Numbered /\ Ids
  BY FatesInit
<1>2. Types /\ Numbered /\ Ids /\ [Next]_vars => Numbered' /\ Ids'
  BY NumberedStep, IdsStep
<1> QED
  BY <1>1, <1>2, AlwaysTypes, PTL DEF Spec

(* NothingLostNorRepeated: whatever is interrupted or blocked, each packet *)
(* given to simulate_link is dropped, queued or sent, and only once.       *)
THEOREM EachPacketHasOneFate == Spec => []NothingLostNorRepeated
<1>1. Init => Counted
  BY FatesInit
<1>2. Counted => NothingLostNorRepeated
  BY DEF Counted
<1> QED
  BY <1>1, <1>2, CountedStep, AlwaysIds, PTL DEF Spec

(* LinkSimTypeOK: the type invariant.                                      *)
THEOREM LinkSimTypesAreKept == Spec => []LinkSimTypeOK
<1>1. Init => options \in Options
  <2> SUFFICES ASSUME Init PROVE options \in Options
    OBVIOUS
  <2>1. PICK o \in Options : delay = o[1] /\ jitter = o[2]
    BY DEF Init
  <2>2. o = <<o[1], o[2]>>
    BY LinkSimAssumption
  <2> QED
    BY <2>1, <2>2 DEF options
<1>2. options \in Options /\ [Next]_vars => (options \in Options)'
  BY Effects DEF options
<1>3. Types /\ Ids /\ options \in Options => LinkSimTypeOK
  <2> SUFFICES ASSUME Types, Ids, options \in Options PROVE LinkSimTypeOK
    OBVIOUS
  <2>1. last_clock \in [sec : Nat, usec : 0 .. Second - 1]
    BY DEF Types, Clock
  <2>2. \A p \in pkt_queue : p.ts \in [sec : Nat, usec : 0 .. 2 * Second - 2]
    BY DEF Types, Slot, Date
  <2>3. taken \cup dropped \cup QueuedIds \cup SentIds \subseteq 1 .. arrived
    BY DEF Ids
  <2> QED
    BY <2>1, <2>2, <2>3 DEF LinkSimTypeOK, Types, Address
<1> QED
  BY <1>1, <1>2, <1>3, AlwaysIds, PTL DEF Spec

-----------------------------------------------------------------------------
(* Order. *)

(* Of two packets that wait the same time, the one that was read earlier   *)
(* has the smaller date, although these dates are not normalised.          *)
LEMMA ExpirationsInOrder ==
  ASSUME NEW c \in Clock, NEW d \in Clock, Milliseconds(c) > Milliseconds(d), NEW ms \in Nat
  PROVE  timeval_cmp(Expiration(c, ms), Expiration(d, ms))
<1> DEFINE q == ms \div Second
           r == ms % Second
<1>1. q \in Nat /\ r \in Nat
  BY DivMod, TimevalAssumption
<1>2. c.sec \in Nat /\ d.sec \in Nat /\ c.usec \in 0 .. Second - 1 /\ d.usec \in 0 .. Second - 1
  BY DEF Clock
<1>3. c.sec * Second + c.usec > d.sec * Second + d.usec
  BY DEF Milliseconds
<1>4. ~(c.sec < d.sec)
  <2> SUFFICES ASSUME c.sec < d.sec PROVE FALSE
    OBVIOUS
  <2>1. d.sec - c.sec \in Nat \ {0} /\ d.sec * Second - c.sec * Second = (d.sec - c.sec) * Second
    BY <1>2, TimevalAssumption
  <2>2. \A n \in Nat \ {0} : n * Second >= Second
    BY TimevalAssumption
  <2>3. d.sec * Second - c.sec * Second >= Second
    BY <2>1, <2>2
  <2>4. d.sec * Second \in Nat /\ c.sec * Second \in Nat /\ Second \in Nat
    BY <1>2, TimevalAssumption
  <2> QED
    BY <1>2, <1>3, <2>3, <2>4
<1>5. c.sec > d.sec \/ (c.sec = d.sec /\ c.usec > d.usec)
  <2>1. CASE c.sec = d.sec
    <3>1. c.sec * Second \in Nat
      BY <1>2, TimevalAssumption
    <3> QED
      BY <1>2, <1>3, <2>1, <3>1
  <2> QED
    BY <1>2, <1>4, <2>1
<1>6. /\ Expiration(c, ms) = [sec |-> c.sec + q, usec |-> c.usec + r]
      /\ Expiration(d, ms) = [sec |-> d.sec + q, usec |-> d.usec + r]
  BY DEF Expiration
<1> HIDE DEF q, r
<1> QED
  BY <1>1, <1>2, <1>5, <1>6 DEF timeval_cmp

(* When packets were read and for how long they wait.                      *)
Past ==
  /\ Milliseconds(last_clock) <= now
  /\ \A k \in DOMAIN sent : sent[k].read <= Milliseconds(last_clock)
  /\ \A p \in pkt_queue : p.read <= Milliseconds(last_clock)

Waiting(p) ==
  /\ delay # 0 /\ p.wait \in AppliedDelays
  /\ \E clock \in Clock : Milliseconds(clock) = p.read /\ p.ts = Expiration(clock, p.wait)

Waits == \A p \in pkt_queue : Waiting(p)

InOrder ==
  jitter <= 1 =>
    /\ \A j, k \in DOMAIN sent : j < k => sent[j].read <= sent[k].read
    /\ \A k \in DOMAIN sent, p \in pkt_queue : sent[k].read <= p.read

(* The clock never goes back.                                              *)
LEMMA ClockAdvances ==
  ASSUME Types, Milliseconds(last_clock) <= now, [Next]_vars
  PROVE  /\ Milliseconds(last_clock) <= Milliseconds(last_clock')
         /\ Milliseconds(last_clock') <= now'
         /\ Milliseconds(last_clock) \in Nat /\ Milliseconds(last_clock') \in Nat
<1>1. now' \in Nat /\ last_clock' \in Clock /\ now \in Nat /\ last_clock \in Clock
  BY TypesStep DEF Types
<1>2. now' = now \/ now' = now + 1
  BY SocketEffects
<1>3. last_clock' = last_clock \/ Milliseconds(last_clock') = now
  BY <1>1, Effects, ClockIsExact
<1>4. Milliseconds(last_clock) \in Nat /\ Milliseconds(last_clock') \in Nat
  BY <1>1, ClockIsNat
<1> QED
  BY <1>1, <1>2, <1>3, <1>4

LEMMA PastStep ==
  ASSUME Types, Past, [Next]_vars
  PROVE  Past'
<1>1. /\ Milliseconds(last_clock) <= Milliseconds(last_clock')
      /\ Milliseconds(last_clock') <= now'
      /\ Milliseconds(last_clock) \in Nat /\ Milliseconds(last_clock') \in Nat
  BY ClockAdvances DEF Past
<1>2. /\ \A k \in DOMAIN sent' : sent'[k].read \in Nat
      /\ \A p \in pkt_queue' : p.read \in Nat
  <2>1. sent' \in Seq(Sent) /\ pkt_queue' \subseteq Slot
    BY TypesStep DEF Types
  <2>2. \A k \in DOMAIN sent' : sent'[k] \in Sent
    BY <2>1
  <2> QED
    BY <2>1, <2>2 DEF Sent, Slot
<1>3. SUFFICES /\ \A k \in DOMAIN sent' : sent'[k].read <= Milliseconds(last_clock)
               /\ \A p \in pkt_queue' : p.read <= Milliseconds(last_clock)
  BY <1>1, <1>2 DEF Past
<1>4. CASE Quiet
  BY <1>4 DEF Quiet, fates, Past
<1>5. ASSUME NEW p \in pkt_queue, DeliverNext(p)
      PROVE  /\ \A k \in DOMAIN sent' : sent'[k].read <= Milliseconds(last_clock)
             /\ \A q \in pkt_queue' : q.read <= Milliseconds(last_clock)
  <2> DEFINE x == [id |-> p.id, from |-> p.from, read |-> p.read,
                   due |-> p.read + p.wait, at |-> Milliseconds(last_clock)]
  <2>1. sent' = Append(sent, x) /\ pkt_queue' = pkt_queue \ {p}
    BY <1>5, DeliverTypes
  <2>2. x \in Sent /\ x.read = p.read /\ sent \in Seq(Sent)
    BY ClockIsNat DEF Types, Slot, Sent
  <2> HIDE DEF x
  <2> QED
    BY <2>1, <2>2, Appended DEF Past
<1>6. ASSUME NEW packet \in Range(socket), Takes(packet)
      PROVE  /\ \A k \in DOMAIN sent' : sent'[k].read <= Milliseconds(last_clock)
             /\ \A p \in pkt_queue' : p.read <= Milliseconds(last_clock)
  <2>1. CASE UNCHANGED <<pkt_queue, sent>>
    BY <2>1 DEF Past
  <2>2. CASE Forward(packet)
    <3>1. PICK x \in Sent : sent' = Append(sent, x) /\ x.read = Milliseconds(last_clock)
      BY <1>6, <2>2, ForwardEffect
    <3>2. \A k \in DOMAIN sent' : sent'[k].read <= Milliseconds(last_clock)
      BY <1>1, <3>1, Appended DEF Types, Past
    <3> QED
      BY <1>6, <2>2, <3>2, ForwardEffect DEF Past
  <2>3. CASE Enqueue(packet)
    <3>1. PICK x : /\ x \notin pkt_queue /\ x.read = Milliseconds(last_clock)
                   /\ pkt_queue' = pkt_queue \cup {x}
      BY <1>6, <2>3, EnqueueEffect DEF NewSlot
    <3> QED
      BY <1>1, <1>6, <2>3, <3>1, EnqueueEffect DEF Past
  <2> QED
    BY <1>6, <2>1, <2>2, <2>3 DEF Takes, fates, Drop
<1> QED
  BY <1>4, <1>5, <1>6, Effects

LEMMA WaitsStep ==
  ASSUME Types, Waits, [Next]_vars
  PROVE  Waits'
<1>1. delay' = delay /\ AppliedDelays' = AppliedDelays
  BY Effects DEF options, AppliedDelays
<1>2. \A p \in pkt_queue : Waiting(p)'
  BY <1>1 DEF Waits, Waiting
<1>3. SUFFICES ASSUME NEW p \in pkt_queue', p \notin pkt_queue
               PROVE  Waiting(p)'
  BY <1>2 DEF Waits
<1>4. PICK packet \in Range(socket) : Takes(packet) /\ Enqueue(packet)
  BY <1>3, Effects, DeliverTypes DEF Quiet, fates, Takes, Drop, Forward
<1>5. PICK d \in AppliedDelays : p = NewSlot(packet, d) /\ delay # 0
  BY <1>3, <1>4, EnqueueEffect
<1>6. p.wait \in AppliedDelays /\ Milliseconds(last_clock) = p.read
      /\ p.ts = Expiration(last_clock, p.wait) /\ last_clock \in Clock
  BY <1>5 DEF NewSlot, Types
<1> QED
  BY <1>1, <1>5, <1>6 DEF Waiting

(* Without a real jitter there is one delay only.                          *)
LEMMA OneDelay ==
  ASSUME Types, jitter <= 1, NEW d \in AppliedDelays, NEW e \in AppliedDelays
  PROVE  d = e
<1>1. \A r \in 0 .. jitter - 1 : delay + r = delay /\ delay - r = delay
  BY DEF Types
<1> QED
  BY <1>1 DEF AppliedDelays

(* The queue shows one of the packets that were read first.                *)
LEMMA SmallestIsOldest ==
  ASSUME Types, Waits, jitter <= 1, NEW p \in Queue!Smallest, NEW q \in pkt_queue
  PROVE  p.read <= q.read
<1>1. p \in pkt_queue /\ ~timeval_cmp(p.ts, q.ts)
  BY DEF Queue!Smallest, pkt_slot_cmp
<1>2. p.read \in Nat /\ q.read \in Nat
  BY <1>1 DEF Types, Slot
<1> SUFFICES ASSUME p.read > q.read
             PROVE  FALSE
  BY <1>2
<1>3. p.wait \in AppliedDelays /\ q.wait \in AppliedDelays
  BY <1>1 DEF Waits, Waiting
<1>4. p.wait = q.wait /\ p.wait \in Nat
  BY <1>3, OneDelay, AppliedDelaysType
<1>5. PICK c \in Clock : Milliseconds(c) = p.read /\ p.ts = Expiration(c, p.wait)
  BY <1>1 DEF Waits, Waiting
<1>6. PICK d \in Clock : Milliseconds(d) = q.read /\ q.ts = Expiration(d, q.wait)
  BY DEF Waits, Waiting
<1> QED
  BY <1>1, <1>4, <1>5, <1>6, ExpirationsInOrder

LEMMA InOrderStep ==
  ASSUME Types, Past, Waits, InOrder, [Next]_vars
  PROVE  InOrder'
<1>1. SUFFICES ASSUME jitter <= 1
               PROVE  /\ \A j, k \in DOMAIN sent' : j < k => sent'[j].read <= sent'[k].read
                      /\ \A k \in DOMAIN sent', p \in pkt_queue' : sent'[k].read <= p.read
  BY Effects DEF InOrder, options
<1>2. /\ \A j, k \in DOMAIN sent : j < k => sent[j].read <= sent[k].read
      /\ \A k \in DOMAIN sent, p \in pkt_queue : sent[k].read <= p.read
      /\ sent \in Seq(Sent)
  BY <1>1 DEF InOrder, Types
<1>3. CASE Quiet
  BY <1>2, <1>3 DEF Quiet, fates
<1>4. ASSUME NEW x \in Sent, sent' = Append(sent, x),
             \A k \in DOMAIN sent : sent[k].read <= x.read,
             \A p \in pkt_queue' : p \in pkt_queue /\ x.read <= p.read
      PROVE  /\ \A j, k \in DOMAIN sent' : j < k => sent'[j].read <= sent'[k].read
             /\ \A k \in DOMAIN sent', p \in pkt_queue' : sent'[k].read <= p.read
  <2>1. DOMAIN sent' = DOMAIN sent \cup {Len(sent) + 1} /\ DOMAIN sent = 1 .. Len(sent)
        /\ Len(sent) \in Nat /\ sent'[Len(sent) + 1] = x
        /\ \A k \in DOMAIN sent : sent'[k] = sent[k]
    BY <1>2, <1>4
  <2>2. ASSUME NEW j \in DOMAIN sent', NEW k \in DOMAIN sent', j < k
        PROVE  sent'[j].read <= sent'[k].read
    <3>1. j \in DOMAIN sent
      BY <2>1, <2>2
    <3> QED
      BY <1>2, <1>4, <2>1, <2>2, <3>1
  <2> QED
    BY <1>2, <1>4, <2>1, <2>2
<1>5. CASE \E p \in pkt_queue : DeliverNext(p)
  <2> PICK p \in pkt_queue : DeliverNext(p)
    BY <1>5
  <2> DEFINE x == [id |-> p.id, from |-> p.from, read |-> p.read,
                   due |-> p.read + p.wait, at |-> Milliseconds(last_clock)]
  <2>1. sent' = Append(sent, x) /\ pkt_queue' = pkt_queue \ {p} /\ p \in Queue!Smallest
    BY DeliverTypes
  <2>2. x \in Sent /\ x.read = p.read
    BY ClockIsNat DEF Types, Slot, Sent
  <2> HIDE DEF x
  <2>3. \A q \in pkt_queue' : q \in pkt_queue /\ x.read <= q.read
    BY <1>1, <2>1, <2>2, SmallestIsOldest
  <2> QED
    BY <1>2, <1>4, <2>1, <2>2, <2>3
<1>6. CASE \E packet \in Range(socket) : Takes(packet)
  <2> PICK packet \in Range(socket) : Takes(packet)
    BY <1>6
  <2>1. CASE UNCHANGED <<pkt_queue, sent>>
    BY <1>2, <2>1
  <2>2. CASE Forward(packet)
    <3>1. PICK x \in Sent : sent' = Append(sent, x) /\ x.read = Milliseconds(last_clock)
      BY <2>2, ForwardEffect
    <3>2. delay = 0 /\ pkt_queue' = pkt_queue
      BY <2>2, ForwardEffect
    <3>3. pkt_queue' = {}
      BY <3>2 DEF Waits, Waiting
    <3> QED
      BY <1>4, <3>1, <3>3 DEF Past
  <2>3. CASE Enqueue(packet)
    <3>1. PICK x : /\ x \notin pkt_queue /\ x.read = Milliseconds(last_clock)
                   /\ pkt_queue' = pkt_queue \cup {x}
      BY <2>3, EnqueueEffect DEF NewSlot
    <3>2. UNCHANGED sent
      BY <2>3, EnqueueEffect
    <3> QED
      BY <1>2, <3>1, <3>2 DEF Past
  <2> QED
    BY <2>1, <2>2, <2>3 DEF Takes, fates, Drop
<1> QED
  BY <1>3, <1>5, <1>6, Effects

(* ConstantDelayKeepsOrder: without a real jitter, packets leave in the    *)
(* order in which they were read, for all delays and all units.            *)
THEOREM NoneOvertakes == Spec => []ConstantDelayKeepsOrder
<1>1. Init => Past /\ Waits /\ InOrder
  <2> SUFFICES ASSUME Init PROVE Past /\ Waits /\ InOrder
    OBVIOUS
  <2>1. Milliseconds(last_clock) <= now
    BY ClockIsExact DEF Init
  <2> QED
    BY <2>1 DEF Init, Past, Waits, InOrder
<1>2. Types /\ Past /\ Waits /\ InOrder /\ [Next]_vars => Past' /\ Waits' /\ InOrder'
  BY PastStep, WaitsStep, InOrderStep
<1>3. InOrder => ConstantDelayKeepsOrder
  BY DEF InOrder, ConstantDelayKeepsOrder
<1> QED
  BY <1>1, <1>2, <1>3, AlwaysTypes, PTL DEF Spec
=============================================================================
