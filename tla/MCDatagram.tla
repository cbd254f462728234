----------------------------- MODULE MCDatagram -----------------------------
(***************************************************************************)
(* Datagrams for TLC, between programs that have started before: linksim,  *)
(* then another one.  Starts share nothing, so that their order does not   *)
(* matter, nor does the order of the options of linksim matter to the      *)
(* others.  The datagrams are the same whoever started last: the receiver  *)
(* stands for all.  Without a socket its reads fail.                       *)
(*                                                                         *)
(* The sizes are those of the program; of each field come the values       *)
(* around which a check or a conversion changes: bytes below and above     *)
(* 127, lengths with every padding, of one byte and of two, the maximum.   *)
(* Nothing but the bytes of one datagram is left for the next, and only a  *)
(* failed read looks at them: foreign datagrams are the first, and no      *)
(* other is sent after one.                                                *)
(***************************************************************************)
EXTENDS Datagram, Start, Sequences

(* Four different bytes, which depend on the header, on the last byte and  *)
(* on one in the middle.                                                   *)
MCChecksum(text) ==
  LET n == Len(text)
  IN  [k \in 0 .. 3 |->
         (text[1] + 3 * text[2] + 5 * text[3] + 7 * text[4]
          + 11 * text[n] + 13 * text[(n \div 8) * 4 + 1] + 67 * k + n) % 256]

MCBytes == {[i \in 1 .. MAX_PAYLOAD_SIZE |-> (37 * i + 100) % 256]}

MCReadResults == {-1, 0, 1, 2, 3, 4, 127, 128, 255, 256, 300, 510, 511, 512}

MCForeign ==
  LET Array(type, window, hi, lo) ==
        [i \in 1 .. MAX_PAYLOAD_SIZE + 8 |->
           CASE i = 1 -> type * 32 + window
             [] i = 2 -> 200
             [] i = 3 -> hi
             [] i = 4 -> lo
             [] OTHER -> (37 * i + 100) % 256]
      WithCrc(array, size) ==
        LET crc == MCChecksum([i \in 1 .. size - 4 |-> array[i]])
        IN  [i \in 1 .. MAX_PAYLOAD_SIZE + 8 |->
               IF i \in size - 3 .. size THEN crc[size - i] ELSE array[i]]
      arrays == {Array(type, window, hi, lo) :
                   type \in {0, 1, 2, 4, 7}, window \in {0, 31},
                   hi \in {0, 1, 2, 3, 128}, lo \in {0, 1, 4, 255}}
  IN  {[data |-> a, size |-> size] :
         a \in arrays, size \in {0, 3, 4, 7, 8, 9, 12, 264, 520, 524}}
      \cup
      {[data |-> WithCrc(a, size), size |-> size + more] :
         a \in arrays, size \in {8, 12, 16, 264, 268, 520}, more \in {0, 4}}

MCInit == Init /\ StartInit

LinkStarts == pc = "arguments" /\ Link!Next

ProgramStarts ==
  /\ link_pc = "loop" /\ parameter = [o \in Link!Options |-> Link!Default(o)]
  /\ Program!Next

Exchange ==
  /\ pc = "loop" /\ program = "receiver"
  /\ \/ sfd >= 0 /\ Idle /\ (datagram = NONE \/ origin # NONE) /\ OwnSend
     \/ sfd >= 0 /\ datagram = NONE /\ ForeignSend
     \/ sfd >= 0 /\ Proceed
     \/ sfd < 0 /\ ReadFails

MCNext ==
  \/ LinkStarts /\ UNCHANGED <<vars, program_vars>>
  \/ ProgramStarts /\ UNCHANGED <<vars, link_vars>>
  \/ Exchange /\ UNCHANGED <<program_vars, link_vars>>

MCSpec == MCInit /\ [][MCNext]_<<vars, program_vars, link_vars>>
=============================================================================
