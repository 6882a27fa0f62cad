--------------------------- MODULE Probing_proofs ---------------------------
(***************************************************************************)
(* Proofs about Probing, for every ring size, every word size and every    *)
(* set of configurations.                                                  *)
(***************************************************************************)
EXTENDS Traceroute, SequenceTheorems, FiniteSetTheorems, TLAPS

-----------------------------------------------------------------------------
(* Remainders.                                                             *)

(* Division with remainder.                                                *)
LEMMA DivMod ==
  ASSUME NEW a \in Nat, NEW m \in Nat \ {0}
  PROVE  /\ a = m * (a \div m) + (a % m)
         /\ a % m \in 0 .. m - 1
         /\ a \div m \in Nat
OBVIOUS

(* Between - m and m there is no multiple of m but zero.                   *)
LEMMA NoMultiple ==
  ASSUME NEW m \in Nat \ {0}, NEW d \in Int, m * d < m, m * d > - m
  PROVE  d = 0
<1>1. CASE d >= 1
  <2>1. m * d >= m * 1
    BY <1>1
  <2> QED BY <2>1
<1>2. CASE d <= -1
  <2>1. m * d <= m * (-1)
    BY <1>2
  <2> QED BY <2>1
<1> QED BY <1>1, <1>2

(* A remainder is not larger than the number, and the number below m.      *)
LEMMA RemainderBelow ==
  ASSUME NEW a \in Nat, NEW m \in Nat \ {0}
  PROVE  /\ a % m <= a
         /\ a < m => a % m = a
<1>1. /\ a = m * (a \div m) + (a % m) /\ a % m \in 0 .. m - 1
      /\ a \div m \in Nat
  BY DivMod
<1>2. m * (a \div m) >= 0
  BY <1>1
<1>3. a % m <= a
  BY <1>1, <1>2
<1>4. ASSUME a < m
      PROVE  a % m = a
  <2>1. m * (a \div m) < m /\ m * (a \div m) > - m
    BY <1>1, <1>2, <1>4
  <2>2. a \div m = 0
    BY <1>1, <2>1, NoMultiple
  <2> QED BY <1>1, <2>2
<1> QED BY <1>3, <1>4

-----------------------------------------------------------------------------
(* Types.                                                                  *)

(* The next element of the sequence of datagrams is a datagram.            *)
LEMMA DatagramBuilt ==
  ASSUME ProbingTypeOK, NEW ok \in BOOLEAN
  PROVE  [probe |-> IF Tracked THEN delaytable_index + 1 ELSE 0,
          key |-> AnswerKey,
          dport |-> dst_port % WireMod,
          copies |-> IF ok THEN MaxCopies ELSE 0,
          answered |-> FALSE] \in Datagram
<1>1. /\ WireMod \in Nat \ {0} /\ MaxCopies \in Nat
      /\ sequence \in Nat /\ dst_port \in Nat /\ src_port \in Nat
      /\ delaytable_index \in Int
  BY ProbingAssumption DEF ProbingTypeOK, TableTypeOK
<1>2. sequence % WireMod \in Nat /\ dst_port % WireMod \in Nat
  BY <1>1
<1>3. AnswerKey \in Nat
  BY <1>1, <1>2 DEF AnswerKey
<1> QED
  BY <1>1, <1>2, <1>3 DEF Datagram

(* delaytable_add() keeps the table a table.                               *)
LEMMA AddType ==
  ASSUME TableTypeOK, NEW seq \in Int, NEW src \in Int,
         delaytable_add(seq, src)
  PROVE  /\ delaytable' \in [Slots -> Element]
         /\ delaytable_index' \in Int
<1>1. delaytable_index' \in Int
  BY IntMaxAssumption DEF TableTypeOK, delaytable_add, Increment
<1>2. [seq |-> seq, src |-> src, stamp |-> delaytable_index + 1,
       status |-> S_SENT] \in Element
  BY DEF TableTypeOK, Element
<1> QED
  BY <1>1, <1>2 DEF TableTypeOK, delaytable_add

(* hping_stats_on_reply() only counts up.                                  *)
LEMMA OnReplyType ==
  ASSUME NEW st \in Counters, NEW status
  PROVE  OnReply(st, status) \in Counters
<1>1. /\ st.received + 1 \in Nat /\ st.duplicates + 1 \in Nat
      /\ st.unmatched + 1 \in Nat
  BY DEF Counters
<1> QED
  BY <1>1, Zenon DEF Counters, OnReply

(* hping_stats_on_sent() too.                                              *)
LEMMA OnSentType ==
  ASSUME NEW st \in Counters
  PROVE  OnSent(st) \in Counters
<1>1. st.sent + 1 \in Nat
  BY DEF Counters
<1> QED
  BY <1>1, Zenon DEF Counters, OnSent

(* send_packet() preserves the types, whether or not the datagram leaves.  *)
LEMMA TransmitType ==
  ASSUME ProbingTypeOK, NEW ok \in BOOLEAN, Transmit(ok), UNCHANGED cfg
  PROVE  ProbingTypeOK'
<1>1. /\ WireMod \in Nat \ {0} /\ InitSport \in Nat
      /\ sequence \in Nat /\ src_port \in 0 .. WireMod - 1 /\ dst_port \in Nat
  BY ProbingAssumption DEF ProbingTypeOK
<1>2. /\ delaytable' \in [Slots -> Element]
      /\ delaytable_index' \in Int
  <2>1. EntrySource \in Int
    BY <1>1 DEF EntrySource
  <2>2. CASE Tracked
    BY <1>1, <2>1, <2>2, AddType DEF Transmit, ProbingTypeOK
  <2>3. CASE ~ Tracked
    BY <2>3 DEF Transmit, ProbingTypeOK, TableTypeOK
  <2> QED BY <2>2, <2>3
<1>3. stats' \in Counters
  BY OnSentType DEF Transmit, ProbingTypeOK, TableTypeOK
<1>4. wire' \in Seq(Datagram)
  BY DatagramBuilt, AppendProperties DEF Transmit, ProbingTypeOK
<1>5. src_port' \in 0 .. WireMod - 1
  BY <1>1 DEF Transmit, NextSourcePort
<1>6. sequence' \in Nat /\ dst_port' \in Nat
  BY <1>1 DEF Transmit
<1> QED
  BY <1>2, <1>3, <1>4, <1>5, <1>6 DEF ProbingTypeOK, TableTypeOK

(* Closing an entry keeps the table a table.                               *)
LEMMA RttTableType ==
  ASSUME TableTypeOK, NEW seq, NEW port
  PROVE  RttTable(seq, port) \in [Slots -> Element]
BY DEF TableTypeOK, RttTable, Element

(* An answer that is taken from the wire leaves a sequence of datagrams.   *)
LEMMA TakenType ==
  ASSUME wire \in Seq(Datagram), NEW i \in DOMAIN wire, wire[i].copies > 0
  PROVE  /\ [wire EXCEPT ![i].copies = @ - 1, ![i].answered = TRUE]
              \in Seq(Datagram)
         /\ [wire EXCEPT ![i].copies = @ - 1] \in Seq(Datagram)
<1>1. i \in 1 .. Len(wire) /\ wire[i] \in Datagram
  BY LenProperties
<1>2. DEFINE taken == [wire[i] EXCEPT !.copies = @ - 1]
             done == [wire[i] EXCEPT !.copies = @ - 1, !.answered = TRUE]
<1>3. taken \in Datagram /\ done \in Datagram
  <2>1. wire[i].copies \in Nat /\ wire[i].copies - 1 \in Nat
    BY <1>1 DEF Datagram
  <2> QED BY <1>1, <2>1 DEF Datagram
<1>4. /\ [wire EXCEPT ![i] = taken] \in Seq(Datagram)
      /\ [wire EXCEPT ![i] = done] \in Seq(Datagram)
  BY <1>1, <1>3, ExceptSeq
<1>5. [wire EXCEPT ![i].copies = @ - 1] = [wire EXCEPT ![i] = taken]
  OBVIOUS
<1>6. [wire EXCEPT ![i].copies = @ - 1, ![i].answered = TRUE]
        = [wire EXCEPT ![i] = done]
  BY <1>1 DEF Datagram
<1> QED
  BY <1>4, <1>5, <1>6

(* Receiving one answer preserves the types.                               *)
LEMMA ReceiveType ==
  ASSUME ProbingTypeOK, NEW i \in DOMAIN wire, Receive(i), UNCHANGED cfg
  PROVE  ProbingTypeOK'
<1>0. /\ wire \in Seq(Datagram) /\ stats \in Counters /\ TableTypeOK
      /\ dst_port \in Nat
  BY DEF ProbingTypeOK, TableTypeOK
<1>1. ASSUME wire[i].copies > 0, NEW status, Account(i, status)
      PROVE  wire' \in Seq(Datagram) /\ stats' \in Counters
  BY <1>0, <1>1, TakenType, OnReplyType DEF Account
<1>2. ASSUME wire[i].copies > 0, Lookup(i)
      PROVE  /\ wire' \in Seq(Datagram) /\ stats' \in Counters
             /\ delaytable' \in [Slots -> Element]
  BY <1>0, <1>1, <1>2, RttTableType DEF Lookup
<1>3. CASE ReceiveReply(i)
  <2>1. wire' \in Seq(Datagram) /\ stats' \in Counters
        /\ delaytable' \in [Slots -> Element]
    BY <1>2, <1>3 DEF ReceiveReply, Arrives
  <2>2. dst_port' \in Nat
    BY <1>0, <1>3 DEF ReceiveReply
  <2> QED
    BY <1>3, <2>1, <2>2 DEF ReceiveReply, ProbingTypeOK, TableTypeOK
<1>4. CASE IgnoreReply(i)
  <2>1. wire' \in Seq(Datagram)
    BY <1>0, <1>4, TakenType DEF IgnoreReply, Arrives
  <2> QED
    BY <1>4, <2>1
    DEF IgnoreReply, tableVars, ProbingTypeOK, TableTypeOK
<1>5. CASE ReceiveError(i)
  <2>1. wire' \in Seq(Datagram) /\ stats' \in Counters
        /\ delaytable' \in [Slots -> Element]
    <3>1. CASE ErrorsLookedUp
      BY <1>2, <1>5, <3>1 DEF ReceiveError, Arrives
    <3>2. CASE ~ ErrorsLookedUp
      BY <1>0, <1>1, <1>5, <3>2 DEF ReceiveError, Arrives, TableTypeOK
    <3> QED BY <3>1, <3>2
  <2> QED
    BY <1>5, <2>1 DEF ReceiveError, ProbingTypeOK, TableTypeOK
<1> QED
  BY <1>3, <1>4, <1>5 DEF Receive

(* The initial state is typed: an empty table and the foreign answers.     *)
LEMMA ProbingInitType ==
  ASSUME ProbingInit
  PROVE  ProbingTypeOK
<1>1. TableTypeOK
  BY DEF ProbingInit, TableInit, TableTypeOK, EmptyElement, Element, Counters
<1>2. cfg \in Configurations /\ Foreign \in Seq(0 .. WireMod - 1)
  BY ProbingAssumption DEF ProbingInit, Foreign
<1>3. wire \in Seq(Datagram)
  <2>1. /\ Len(Foreign) \in Nat /\ DOMAIN Foreign = 1 .. Len(Foreign)
        /\ \A i \in DOMAIN Foreign : Foreign[i] \in Nat
    BY <1>2, LenProperties, ElementOfSeq, ProbingAssumption
  <2>2. \A i \in DOMAIN Foreign : ForeignDatagram(Foreign[i]) \in Datagram
    BY <2>1, ProbingAssumption DEF ForeignDatagram, Datagram
  <2>3. wire \in [1 .. Len(Foreign) -> Datagram]
    BY <2>1, <2>2 DEF ProbingInit
  <2> QED BY <2>1, <2>3
<1> QED
  BY <1>1, <1>2, <1>3, ProbingAssumption DEF ProbingInit, ProbingTypeOK

(***************************************************************************)
(* Type correctness of the senders, the receivers and the delay table.     *)
(***************************************************************************)
THEOREM ProbingTypeCorrect == ProbingSpec => []ProbingTypeOK
<1>1. ProbingInit => ProbingTypeOK
  BY ProbingInitType
<1>2. ProbingTypeOK /\ [ProbingNext]_probingVars => ProbingTypeOK'
  <2> SUFFICES ASSUME ProbingTypeOK, [ProbingNext]_probingVars
               PROVE  ProbingTypeOK'
    OBVIOUS
  <2>1. ASSUME NEW ok \in BOOLEAN, Transmit(ok), UNCHANGED cfg
        PROVE  ProbingTypeOK'
    BY <2>1, TransmitType
  <2>2. ASSUME NEW i \in DOMAIN wire, Receive(i), UNCHANGED cfg
        PROVE  ProbingTypeOK'
    BY <2>2, ReceiveType
  <2>3. CASE UNCHANGED probingVars
    BY <2>3 DEF probingVars, ProbingTypeOK, TableTypeOK
  <2> QED BY <2>1, <2>2, <2>3 DEF ProbingNext
<1> QED
  BY <1>1, <1>2, PTL DEF ProbingSpec

-----------------------------------------------------------------------------
(* The port filter.                                                        *)

\* What makes AnswersAccepted hold: the port a datagram was sent to is one
\* that was probed, as long as the ports have not run past the last one.
PortInv ==
  Mode = "tcp" =>
    /\ DstMode = "fixed" =>
         /\ dst_port = DstPort
         /\ \A i \in DOMAIN wire : wire[i].dport = DstPort
    /\ DstMode = "force" =>
         /\ DstPort <= dst_port
         /\ dst_port <= WireMod => \A i \in DOMAIN wire :
              DstPort <= wire[i].dport /\ wire[i].dport <= dst_port

(* Sending moves the port past the datagrams on the wire, and no further.  *)
LEMMA PortTransmit ==
  ASSUME ProbingTypeOK, PortInv,
         NEW ok \in BOOLEAN, Transmit(ok), UNCHANGED cfg
  PROVE  PortInv'
<1> DEFINE n == Len(wire)
<1>1. Mode' = Mode /\ DstMode' = DstMode
  BY DEF Mode, DstMode
<1>2. /\ n \in Nat /\ DOMAIN wire = 1 .. n /\ wire \in Seq(Datagram)
      /\ \A i \in 1 .. n : wire[i].dport \in Int
      /\ dst_port \in Nat /\ DstPort \in 0 .. WireMod - 1
      /\ WireMod \in Nat \ {0}
  <2>1. /\ n \in Nat /\ DOMAIN wire = 1 .. n /\ wire \in Seq(Datagram)
        /\ \A i \in 1 .. n : wire[i] \in Datagram
    BY LenProperties, ElementOfSeq DEF ProbingTypeOK
  <2>2. \A i \in 1 .. n : wire[i].dport \in Int
    BY <2>1 DEF Datagram
  <2> QED
    BY <2>1, <2>2, ProbingAssumption DEF ProbingTypeOK
<1>3. /\ DOMAIN wire' = 1 .. n + 1
      /\ \A i \in 1 .. n : wire'[i] = wire[i]
      /\ wire'[n + 1].dport = dst_port % WireMod
  <2> DEFINE new == [probe |-> IF Tracked THEN delaytable_index + 1 ELSE 0,
                     key |-> AnswerKey, dport |-> dst_port % WireMod,
                     copies |-> IF ok THEN MaxCopies ELSE 0,
                     answered |-> FALSE]
  <2>1. wire' = Append(wire, new) /\ new \in Datagram
    BY DatagramBuilt DEF Transmit
  <2>2. new.dport = dst_port % WireMod
    OBVIOUS
  <2> HIDE DEF new
  <2>3. /\ Len(wire') = n + 1 /\ DOMAIN wire' = 1 .. n + 1
        /\ \A i \in 1 .. n : wire'[i] = wire[i]
        /\ wire'[n + 1] = new
    BY <1>2, <2>1, AppendProperties, LenProperties
  <2> QED BY <2>2, <2>3
<1>4. CASE Mode = "tcp" /\ DstMode = "fixed"
  <2>1. dst_port' = dst_port /\ dst_port = DstPort
    BY <1>4 DEF Transmit, PortInv
  <2>2. dst_port % WireMod = DstPort
    BY <1>2, <2>1
  <2> QED
    BY <1>1, <1>2, <1>3, <1>4, <2>1, <2>2 DEF PortInv
<1>5. CASE Mode = "tcp" /\ DstMode = "force"
  <2>1. dst_port' = dst_port + 1 /\ DstPort <= dst_port
    BY <1>5 DEF Transmit, PortInv
  <2>2. ASSUME dst_port + 1 <= WireMod, NEW i \in 1 .. n + 1
        PROVE  DstPort <= wire'[i].dport /\ wire'[i].dport <= dst_port + 1
    <3>1. CASE i \in 1 .. n
      BY <1>2, <1>3, <1>5, <2>2, <3>1 DEF PortInv
    <3>2. CASE i = n + 1
      <4>1. dst_port % WireMod = dst_port
        BY <1>2, <2>2
      <4> QED BY <1>2, <1>3, <2>1, <3>2, <4>1
    <3> QED BY <1>2, <3>1, <3>2
  <2> QED
    BY <1>1, <1>2, <1>3, <1>5, <2>1, <2>2 DEF PortInv
<1> QED
  BY <1>1, <1>4, <1>5 DEF PortInv

(* Receiving touches neither the ports of the datagrams nor, in these      *)
(* modes, the port that is probed.                                         *)
LEMMA PortReceive ==
  ASSUME ProbingTypeOK, PortInv,
         NEW i \in DOMAIN wire, Receive(i), UNCHANGED cfg
  PROVE  PortInv'
<1>1. Mode' = Mode /\ DstMode' = DstMode
  BY DEF Mode, DstMode
<1>2. DOMAIN wire = 1 .. Len(wire) /\ \A j \in DOMAIN wire : wire[j] \in Datagram
  BY LenProperties DEF ProbingTypeOK
<1>3. \/ wire' = [wire EXCEPT ![i].copies = @ - 1]
      \/ wire' = [wire EXCEPT ![i].copies = @ - 1, ![i].answered = TRUE]
  BY DEF Receive, ReceiveReply, IgnoreReply, ReceiveError, Lookup, Account
<1>4. /\ DOMAIN wire' = DOMAIN wire
      /\ \A j \in DOMAIN wire : wire'[j].dport = wire[j].dport
  <2>1. DOMAIN wire' = DOMAIN wire
        /\ \A j \in DOMAIN wire : j # i => wire'[j] = wire[j]
    BY <1>2, <1>3
  <2>2. wire'[i].dport = wire[i].dport
    BY <1>2, <1>3 DEF Datagram
  <2> QED BY <2>1, <2>2
<1>5. DstMode # "inc" => dst_port' = dst_port
  BY DEF Receive, ReceiveReply, IgnoreReply, ReceiveError
<1> QED
  BY <1>1, <1>4, <1>5 DEF PortInv

(* While the port stays or moves with the probes, no answer is ignored.    *)
LEMMA NothingIgnored ==
  ASSUME ProbingTypeOK, PortInv, DstMode # "inc", dst_port <= WireMod,
         NEW i \in DOMAIN wire
  PROVE  ~ IgnoreReply(i)
<1> SUFFICES ASSUME Mode = "tcp"
             PROVE  PortMatches(wire[i].dport)
  BY DEF IgnoreReply
<1>1. DstMode \in {"fixed", "inc", "force"}
  BY ProbingAssumption DEF ProbingTypeOK, DstMode
<1> QED
  BY <1>1 DEF PortInv, PortMatches

(***************************************************************************)
(* recv_tcp() and recv_udp(), with a port that stays or one that moves     *)
(* with every probe: every answer to a probe of this run is accounted,     *)
(* however late it comes.                                                  *)
(***************************************************************************)
THEOREM NoAnswerIgnored == ProbingSpec => AnswersAccepted
<1>1. ProbingInit => PortInv
  <2> SUFFICES ASSUME ProbingInit PROVE PortInv
    OBVIOUS
  <2>1. dst_port = DstPort /\ DstPort \in Nat
    BY ProbingAssumption DEF ProbingInit
  <2>2. \A i \in DOMAIN wire : wire[i].dport = DstPort
    BY DEF ProbingInit, ForeignDatagram
  <2> QED BY <2>1, <2>2 DEF PortInv
<1>2. ProbingTypeOK /\ PortInv /\ [ProbingNext]_probingVars => PortInv'
  <2> SUFFICES ASSUME ProbingTypeOK, PortInv, [ProbingNext]_probingVars
               PROVE  PortInv'
    OBVIOUS
  <2>1. CASE UNCHANGED probingVars
    BY <2>1 DEF probingVars, PortInv, Mode, DstMode
  <2> QED BY <2>1, PortTransmit, PortReceive DEF ProbingNext
<1>3. ProbingTypeOK /\ PortInv /\ [ProbingNext]_probingVars
        => [DstMode # "inc" /\ dst_port <= WireMod /\ wire' # wire
              => Len(wire') > Len(wire)
                 \/ stats'.received = stats.received + 1]_probingVars
  <2> SUFFICES ASSUME ProbingTypeOK, PortInv, ProbingNext,
                      DstMode # "inc", dst_port <= WireMod
               PROVE  Len(wire') > Len(wire)
                      \/ stats'.received = stats.received + 1
    OBVIOUS
  <2>1. ASSUME NEW ok \in BOOLEAN, Transmit(ok)
        PROVE  Len(wire') > Len(wire)
    <3>1. Len(wire') = Len(wire) + 1 /\ Len(wire) \in Nat
      BY <2>1, DatagramBuilt, AppendProperties, LenProperties
      DEF Transmit, ProbingTypeOK
    <3> QED BY <3>1
  <2>2. ASSUME NEW i \in DOMAIN wire, Receive(i)
        PROVE  stats'.received = stats.received + 1
    <3>1. \E status : stats' = OnReply(stats, status)
      BY <2>2, NothingIgnored
      DEF Receive, ReceiveReply, ReceiveError, Lookup, Account
    <3>2. stats \in Counters
      BY DEF ProbingTypeOK, TableTypeOK
    <3> QED BY <3>1, <3>2 DEF OnReply, Counters
  <2> QED BY <2>1, <2>2 DEF ProbingNext
<1> QED
  BY <1>1, <1>2, <1>3, ProbingTypeCorrect, PTL DEF ProbingSpec, AnswersAccepted

-----------------------------------------------------------------------------
(***************************************************************************)
(* The books of the probes.  First the ring of the delay table and the     *)
(* search of rtt(): an answer is charged to the probe it belongs to.  Then *)
(* the counters, which are true because every lookup is exact.  Proved for *)
(* every ring, every word size and every age of an answer under the        *)
(* assumption Roomy, which the program meets with 400 slots and 65536      *)
(* ports.                                                                  *)
(***************************************************************************)
Roomy ==
  /\ TableSize <= WireMod
  /\ MaxAge <= WireMod
  /\ MaxProbes <= IntMax
  /\ \A c \in Configurations : c.foreign = <<>>

-----------------------------------------------------------------------------
(* Remainders.                                                             *)

(* Numbers less than m apart have different remainders.                    *)
LEMMA SameRemainder ==
  ASSUME NEW a \in Nat, NEW b \in Nat, NEW m \in Nat \ {0},
         a % m = b % m, a - b < m, b - a < m
  PROVE  a = b
<1> DEFINE qa == a \div m
           qb == b \div m
<1>1. /\ a = m * qa + (a % m) /\ b = m * qb + (b % m)
      /\ qa \in Nat /\ qb \in Nat
  BY DivMod
<1>2. a - b = m * (qa - qb)
  BY <1>1
<1>3. qa - qb = 0
  BY <1>1, <1>2, NoMultiple
<1> QED BY <1>2, <1>3

(* One turn of the ring leads back to the same slot.                       *)
LEMMA OneTurn ==
  ASSUME NEW a \in Nat, NEW m \in Nat \ {0}
  PROVE  (a + m) % m = a % m
<1> DEFINE b == a + m
           d == (b \div m) - (a \div m) - 1
<1>1. /\ a = m * (a \div m) + (a % m) /\ a % m \in 0 .. m - 1
      /\ a \div m \in Nat
  BY DivMod
<1>2. /\ b = m * (b \div m) + (b % m) /\ b % m \in 0 .. m - 1
      /\ b \div m \in Nat
  <2>1. b \in Nat
    OBVIOUS
  <2> HIDE DEF b
  <2> QED BY <2>1, DivMod
<1>3. d \in Int /\ m * d = (a % m) - (b % m)
  BY <1>1, <1>2
<1>4. d = 0
  BY <1>1, <1>2, <1>3, NoMultiple
<1> QED BY <1>3, <1>4, <1>1, <1>2

-----------------------------------------------------------------------------
(* The ring, in the sessions whose keys tell probes apart.                 *)

Booked == Tracked /\ ~ (Mode = "tcp" /\ KeepStill)

\* The source port and the key of probe p, the first one being 1.
PortOf(p) == (InitSport + p - 1) % WireMod
SourceOf(p) == IF Mode = "tcp" THEN PortOf(p) ELSE 0
KeyOf(p) == IF Mode = "tcp" THEN PortOf(p) ELSE (p - 1) % WireMod

\* Slot s has never been written, or holds one of the last TableSize probes.
SlotInv(s) ==
  LET e == delaytable[s]
  IN  IF s >= delaytable_index
      THEN e.seq = -1 /\ e.src = 0 /\ e.stamp = 0
      ELSE /\ e.stamp \in 1 .. delaytable_index
           /\ e.stamp > delaytable_index - TableSize
           /\ s = (e.stamp - 1) % TableSize
           /\ e.seq = e.stamp - 1
           /\ e.src = SourceOf(e.stamp)

WireInv ==
  \A i \in 1 .. Len(wire) : wire[i].probe = i /\ wire[i].key = KeyOf(i)

RingInv ==
  Booked =>
    /\ delaytable_index \in 0 .. MaxProbes
    /\ sequence = delaytable_index
    /\ Len(wire) = delaytable_index
    /\ Mode = "tcp" => src_port = PortOf(sequence + 1)
    /\ WireInv
    /\ \A s \in Slots : SlotInv(s)

(* The empty ring.                                                         *)
LEMMA RingInit ==
  ASSUME Roomy, ProbingInit
  PROVE  RingInv
<1>1. /\ delaytable_index = 0 /\ sequence = 0 /\ src_port = InitSport
      /\ delaytable = [s \in Slots |-> EmptyElement]
  BY DEF ProbingInit, TableInit
<1>2. Foreign = <<>> /\ wire = <<>>
  BY DEF ProbingInit, Roomy, Foreign
<1>3. Len(wire) = 0
  BY <1>2
<1>4. WireInv
  BY <1>3 DEF WireInv
<1>5. \A s \in Slots : SlotInv(s)
  BY <1>1 DEF SlotInv, EmptyElement, Slots
<1>6. InitSport \in Nat /\ WireMod \in Nat \ {0} /\ InitSport < WireMod
      /\ MaxProbes \in Nat
  BY ProbingAssumption
<1>7. src_port = PortOf(sequence + 1)
  <2>1. InitSport % WireMod = InitSport
    BY <1>6, RemainderBelow
  <2>2. InitSport + (sequence + 1) - 1 = InitSport
    BY <1>1, <1>6
  <2> QED BY <1>1, <2>1, <2>2 DEF PortOf
<1> QED
  BY <1>1, <1>3, <1>4, <1>5, <1>6, <1>7 DEF RingInv

(* The slot written next, and the other slots, after a probe is recorded.  *)
LEMMA SlotStep ==
  ASSUME delaytable_index \in Nat, delaytable_index < IntMax,
         sequence = delaytable_index, EntrySource = SourceOf(sequence + 1),
         Mode' = Mode,
         \A s \in Slots : SlotInv(s),
         delaytable_add(sequence, EntrySource)
  PROVE  /\ delaytable_index' = delaytable_index + 1
         /\ \A s \in Slots : SlotInv(s)'
<1> DEFINE n == delaytable_index
           next == n % TableSize
<1>1. /\ TableSize \in Nat \ {0} /\ n \in Nat /\ n < IntMax
  BY TableSizeAssumption, IntMaxAssumption
<1>2. /\ delaytable_index' = n + 1
      /\ NextSlot = next
  BY <1>1 DEF delaytable_add, Increment, NextSlot, Remainder
<1>3. /\ next \in Slots /\ next <= n
      /\ n < TableSize => next = n
  BY <1>1, DivMod, RemainderBelow DEF Slots
<1>4. \A s \in Slots : delaytable'[s] =
        IF s = next THEN [seq |-> n, src |-> SourceOf(n + 1),
                          stamp |-> n + 1, status |-> S_SENT]
                    ELSE delaytable[s]
  BY <1>2 DEF delaytable_add
<1>5. ASSUME NEW s \in Slots
      PROVE  SlotInv(s)'
  <2>1. CASE s = next
    <3>1. /\ delaytable'[s].seq = n /\ delaytable'[s].stamp = n + 1
          /\ delaytable'[s].src = SourceOf(n + 1)
      BY <1>4, <2>1
    <3>2. n + 1 > n + 1 - TableSize /\ (n + 1) - 1 = n
      BY <1>1
    <3>3. ~ s >= n + 1 /\ n + 1 \in 1 .. n + 1
      BY <1>1, <1>3, <2>1 DEF Slots
    <3>4. /\ delaytable'[s].stamp \in 1 .. delaytable_index'
          /\ delaytable'[s].stamp > delaytable_index' - TableSize
          /\ ~ s >= delaytable_index'
      BY <1>1, <1>2, <3>1, <3>2, <3>3
    <3>5. /\ s = (delaytable'[s].stamp - 1) % TableSize
          /\ delaytable'[s].seq = delaytable'[s].stamp - 1
      BY <1>1, <2>1, <3>1, <3>2
    <3>6. delaytable'[s].src = SourceOf(delaytable[s].stamp)'
      BY <3>1 DEF SourceOf
    <3> QED
      BY <3>4, <3>5, <3>6, Zenon DEF SlotInv
  <2>2. CASE s # next /\ s >= n
    <3>1. s > n /\ s \in Nat
      BY <1>1, <1>3, <2>2 DEF Slots
    <3>2. delaytable'[s] = delaytable[s]
      BY <1>4, <2>2
    <3>3. SlotInv(s)
      OBVIOUS
    <3> QED
      BY <1>1, <1>2, <2>2, <3>1, <3>2, <3>3 DEF SlotInv
  <2>3. CASE s # next /\ s < n
    <3> DEFINE q == delaytable[s].stamp
    <3>1. delaytable'[s] = delaytable[s]
      BY <1>4, <2>3
    <3>2. s \in Nat /\ ~ s >= n /\ ~ s >= n + 1
      BY <1>1, <2>3 DEF Slots
    <3>3. /\ q \in 1 .. n /\ q > n - TableSize
          /\ s = (q - 1) % TableSize
          /\ delaytable[s].seq = q - 1
          /\ delaytable[s].src = SourceOf(q)
      BY <3>2 DEF SlotInv
    <3>4. q # n + 1 - TableSize
      <4> SUFFICES ASSUME q = n + 1 - TableSize
                   PROVE  FALSE
        OBVIOUS
      <4>1. q - 1 \in Nat /\ (q - 1) + TableSize = n
        BY <1>1, <3>3
      <4>2. n % TableSize = (q - 1) % TableSize
        BY <1>1, <4>1, OneTurn
      <4> QED BY <2>3, <3>3, <4>2
    <3>5. q \in 1 .. n + 1 /\ q > n + 1 - TableSize
      BY <1>1, <3>3, <3>4
    <3>6. /\ delaytable'[s].stamp = q
          /\ s = (delaytable'[s].stamp - 1) % TableSize
          /\ delaytable'[s].seq = delaytable'[s].stamp - 1
      BY <3>1, <3>3, Zenon
    <3>8. /\ delaytable'[s].stamp \in 1 .. delaytable_index'
          /\ delaytable'[s].stamp > delaytable_index' - TableSize
          /\ ~ s >= delaytable_index'
      BY <1>1, <1>2, <3>2, <3>5, <3>6
    <3>7. delaytable'[s].src = SourceOf(delaytable[s].stamp)'
      BY <3>1, <3>3 DEF SourceOf
    <3> QED
      BY <3>6, <3>7, <3>8, Zenon DEF SlotInv
  <2> QED
    BY <1>1, <2>1, <2>2, <2>3 DEF Slots
<1> QED BY <1>2, <1>5

(* Recording a probe keeps the ring.                                       *)
LEMMA RingTransmit ==
  ASSUME Roomy, ProbingTypeOK, RingInv, Foreign = <<>>,
         NEW ok \in BOOLEAN, Transmit(ok), UNCHANGED cfg
  PROVE  RingInv'
<1> SUFFICES ASSUME Booked
             PROVE  RingInv'
  BY DEF RingInv, Booked, Tracked, Mode, KeepStill
<1>0. /\ delaytable_index \in Nat /\ sequence = delaytable_index
      /\ Len(wire) = delaytable_index
      /\ Mode = "tcp" => src_port = PortOf(sequence + 1)
      /\ WireInv
      /\ \A s \in Slots : SlotInv(s)
      /\ wire \in Seq(Datagram)
      /\ Tracked /\ ~ (Mode = "tcp" /\ KeepStill)
  BY DEF RingInv, ProbingTypeOK, Booked
<1>1. /\ MaxProbes \in Nat /\ MaxProbes <= IntMax /\ IntMax \in Nat
      /\ WireMod \in Nat \ {0} /\ InitSport \in Nat
  BY ProbingAssumption, IntMaxAssumption DEF Roomy
<1>2. delaytable_index < MaxProbes /\ delaytable_index < IntMax
  <2>1. Len(Foreign) = 0
    OBVIOUS
  <2> QED
    BY <1>0, <1>1, <2>1 DEF Transmit
<1>3. Mode' = Mode /\ KeepStill' = KeepStill
  BY DEF Mode, KeepStill
<1>4. /\ EntrySource = SourceOf(sequence + 1)
      /\ AnswerKey = KeyOf(sequence + 1)
  <2>1. (sequence + 1) - 1 = sequence
    BY <1>0
  <2> QED
    BY <1>0, <2>1 DEF EntrySource, AnswerKey, SourceOf, KeyOf
<1>5. /\ delaytable_add(sequence, EntrySource)
      /\ sequence' = sequence + 1
      /\ src_port' = NextSourcePort
      /\ wire' = Append(wire, [probe |-> delaytable_index + 1,
                               key |-> AnswerKey,
                               dport |-> dst_port % WireMod,
                               copies |-> IF ok THEN MaxCopies ELSE 0,
                               answered |-> FALSE])
  BY <1>0 DEF Transmit
<1>6. /\ delaytable_index' = delaytable_index + 1
      /\ \A s \in Slots : SlotInv(s)'
  BY <1>0, <1>2, <1>3, <1>4, <1>5, SlotStep
<1>7. Len(wire') = delaytable_index' /\ sequence' = delaytable_index'
  BY <1>0, <1>5, <1>6
<1>8. WireInv'
  <2> SUFFICES ASSUME NEW i \in 1 .. Len(wire')
               PROVE  wire'[i].probe = i /\ wire'[i].key = KeyOf(i)'
    BY DEF WireInv
  <2>1. CASE i \in 1 .. Len(wire)
    <3>1. wire'[i] = wire[i]
      BY <1>0, <1>5, <2>1
    <3> QED
      BY <1>0, <1>3, <2>1, <3>1 DEF WireInv, KeyOf
  <2>2. CASE i = delaytable_index + 1
    <3>1. wire'[i].probe = i /\ wire'[i].key = AnswerKey
      BY <1>0, <1>5, <2>2
    <3> QED
      BY <1>0, <1>3, <1>4, <2>2, <3>1 DEF KeyOf
  <2> QED
    BY <1>0, <1>6, <1>7, <2>1, <2>2
<1>9. Mode = "tcp" => src_port' = PortOf(sequence' + 1)
  <2>1. sequence + 1 + InitSport = InitSport + (sequence' + 1) - 1
    BY <1>0, <1>1, <1>5
  <2> QED
    BY <1>0, <1>5, <2>1 DEF NextSourcePort, PortOf
<1> QED
  BY <1>0, <1>1, <1>2, <1>3, <1>6, <1>7, <1>8, <1>9 DEF RingInv

(* Receiving closes entries and takes copies, and moves nothing.           *)
LEMMA RingReceive ==
  ASSUME ProbingTypeOK, RingInv, NEW i \in DOMAIN wire, Receive(i),
         UNCHANGED cfg
  PROVE  RingInv'
<1> SUFFICES ASSUME Booked
             PROVE  RingInv'
  BY DEF RingInv, Booked, Tracked, Mode, KeepStill
<1>0. /\ wire \in Seq(Datagram) /\ delaytable \in [Slots -> Element]
      /\ Mode' = Mode
  BY DEF ProbingTypeOK, TableTypeOK, Mode
<1>1. UNCHANGED <<delaytable_index, sequence, src_port>>
  BY DEF Receive, ReceiveReply, IgnoreReply, ReceiveError, tableVars
<1>2. \/ wire' = [wire EXCEPT ![i].copies = @ - 1]
      \/ wire' = [wire EXCEPT ![i].copies = @ - 1, ![i].answered = TRUE]
  BY DEF Receive, ReceiveReply, IgnoreReply, ReceiveError, Lookup, Account
<1>3. /\ Len(wire') = Len(wire)
      /\ \A j \in 1 .. Len(wire) :
           wire'[j].probe = wire[j].probe /\ wire'[j].key = wire[j].key
  <2>1. DOMAIN wire = 1 .. Len(wire) /\ DOMAIN wire' = DOMAIN wire
    BY <1>0, <1>2, LenProperties
  <2>2. Len(wire') = Len(wire)
    BY <1>0, <1>2, <2>1, LenProperties
  <2>3. \A j \in 1 .. Len(wire) : wire[j] \in Datagram
    BY <1>0, LenProperties
  <2> QED
    BY <1>2, <2>1, <2>2, <2>3 DEF Datagram
<1>4. \/ delaytable' = delaytable
      \/ \E seq, port : delaytable' = RttTable(seq, port)
  BY DEF Receive, ReceiveReply, IgnoreReply, ReceiveError, Lookup, tableVars
<1>5. \A s \in Slots : /\ delaytable'[s].seq = delaytable[s].seq
                       /\ delaytable'[s].src = delaytable[s].src
                       /\ delaytable'[s].stamp = delaytable[s].stamp
  <2> SUFFICES ASSUME NEW s \in Slots
               PROVE  /\ delaytable'[s].seq = delaytable[s].seq
                      /\ delaytable'[s].src = delaytable[s].src
                      /\ delaytable'[s].stamp = delaytable[s].stamp
    OBVIOUS
  <2>1. delaytable[s] \in Element
    BY <1>0
  <2>2. \/ delaytable'[s] = delaytable[s]
        \/ delaytable'[s] = [delaytable[s] EXCEPT !.status = S_RECV]
    <3>1. ASSUME NEW t
          PROVE  LET closed == [delaytable EXCEPT ![t].status = S_RECV]
                 IN  \/ closed[s] = delaytable[s]
                     \/ closed[s] = [delaytable[s] EXCEPT !.status = S_RECV]
      BY <1>0
    <3> QED
      BY <1>4, <3>1 DEF RttTable
  <2> QED
    BY <2>1, <2>2 DEF Element
<1>6. \A s \in Slots : SlotInv(s)'
  <2> SUFFICES ASSUME NEW s \in Slots
               PROVE  SlotInv(s)'
    OBVIOUS
  <2>1. SlotInv(s)
    BY DEF RingInv
  <2>2. SourceOf(delaytable[s].stamp)' = SourceOf(delaytable[s].stamp)
    BY <1>0, <1>5 DEF SourceOf
  <2> QED
    BY <1>1, <1>5, <2>1, <2>2, Zenon DEF SlotInv
<1>7. WireInv'
  <2>1. \A j : KeyOf(j)' = KeyOf(j)
    BY <1>0 DEF KeyOf
  <2> QED
    BY <1>3, <2>1 DEF WireInv, RingInv
<1> QED
  BY <1>0, <1>1, <1>3, <1>6, <1>7 DEF RingInv

(* The ring invariant holds throughout.                                    *)
LEMMA RingAlways == Roomy => (ProbingSpec => [](RingInv /\ ProbingTypeOK))
<1> SUFFICES ASSUME Roomy
             PROVE  ProbingSpec => [](RingInv /\ ProbingTypeOK)
  OBVIOUS
<1>1. ProbingInit => RingInv
  BY RingInit
<1>2. ProbingTypeOK /\ RingInv /\ [ProbingNext]_probingVars => RingInv'
  <2> SUFFICES ASSUME ProbingTypeOK, RingInv, [ProbingNext]_probingVars
               PROVE  RingInv'
    OBVIOUS
  <2>0. Foreign = <<>>
    BY DEF Roomy, ProbingTypeOK, Foreign
  <2>1. ASSUME NEW ok \in BOOLEAN, Transmit(ok), UNCHANGED cfg
        PROVE  RingInv'
    BY <2>0, <2>1, RingTransmit
  <2>2. ASSUME NEW i \in DOMAIN wire, Receive(i), UNCHANGED cfg
        PROVE  RingInv'
    BY <2>2, RingReceive
  <2>3. CASE UNCHANGED probingVars
    BY <2>3 DEF probingVars, RingInv, Booked, Tracked, Mode, KeepStill,
                WireInv, KeyOf, SlotInv, SourceOf
  <2> QED BY <2>1, <2>2, <2>3 DEF ProbingNext
<1>3. ProbingSpec => []ProbingTypeOK
  BY ProbingTypeCorrect
<1> QED
  BY <1>1, <1>2, <1>3, PTL DEF ProbingSpec

-----------------------------------------------------------------------------
(* The search.                                                             *)

(* The first of a set of slots is its least element.                       *)
LEMMA FirstIsLeast ==
  ASSUME NEW S \in SUBSET Slots, NEW s \in S, \A t \in S : s <= t
  PROVE  First(S) = s
<1>1. First(S) \in S /\ \A t \in S : First(S) <= t
  BY DEF First
<1>2. \A t \in S : t \in Int
  BY TableSizeAssumption DEF Slots
<1>3. First(S) \in Int /\ s \in Int /\ First(S) <= s /\ s <= First(S)
  BY <1>1, <1>2
<1> QED BY <1>3

(* A probe among the last TableSize is in its slot, one that fills it.     *)
LEMMA InItsSlot ==
  ASSUME RingInv, Booked, NEW p \in 1 .. delaytable_index,
         p > delaytable_index - TableSize
  PROVE  LET s == (p - 1) % TableSize
         IN  s \in Slots /\ s < delaytable_index /\ delaytable[s].stamp = p
<1> DEFINE n == delaytable_index
           s == (p - 1) % TableSize
           q == delaytable[s].stamp
<1>1. n \in Nat /\ TableSize \in Nat \ {0} /\ p - 1 \in Nat
  BY TableSizeAssumption, ProbingAssumption DEF RingInv
<1>2. s \in Slots /\ s <= p - 1
  BY <1>1, DivMod, RemainderBelow DEF Slots
<1>3. s < n /\ ~ s >= n
  BY <1>1, <1>2 DEF Slots
<1>4. /\ q \in 1 .. n /\ q > n - TableSize
      /\ s = (q - 1) % TableSize
  BY <1>2, <1>3 DEF RingInv, SlotInv
<1>5. q - 1 \in Nat /\ (q - 1) - (p - 1) < TableSize
      /\ (p - 1) - (q - 1) < TableSize
  <2> HIDE DEF q, s
  <2> QED BY <1>1, <1>4
<1>6. q - 1 = p - 1
  <2> HIDE DEF q
  <2> QED BY <1>1, <1>4, <1>5, SameRemainder
<1> QED BY <1>1, <1>2, <1>3, <1>4, <1>6

(* Two probes less than a port space apart have different ports.           *)
LEMMA OwnPort ==
  ASSUME NEW p \in Nat \ {0}, NEW q \in Nat \ {0},
         p - q < WireMod, q - p < WireMod, PortOf(p) = PortOf(q)
  PROVE  p = q
<1>1. /\ InitSport + p - 1 \in Nat /\ InitSport + q - 1 \in Nat
      /\ WireMod \in Nat \ {0}
      /\ (InitSport + p - 1) - (InitSport + q - 1) < WireMod
      /\ (InitSport + q - 1) - (InitSport + p - 1) < WireMod
  BY ProbingAssumption
<1>2. InitSport + p - 1 = InitSport + q - 1
  BY <1>1, SameRemainder DEF PortOf
<1> QED BY <1>2, ProbingAssumption

(* TCP and UDP: the source port finds the entry.                           *)
LEMMA ExactByPort ==
  ASSUME Roomy, ProbingTypeOK, RingInv, Mode = "tcp", ~ KeepStill,
         NEW i \in DOMAIN wire, Arrives(i)
  PROVE  LET found == Matching(LookupSeq(i), LookupPort(i))
         IN  IF InTable(i)
             THEN /\ found # {}
                  /\ First(found) = (i - 1) % TableSize
                  /\ RttStamp(LookupSeq(i), LookupPort(i)) = wire[i].probe
             ELSE found = {}
<1> DEFINE n == delaytable_index
           found == Matching(LookupSeq(i), LookupPort(i))
           own == (i - 1) % TableSize
<1>0. Booked
  BY DEF Booked, Tracked
<1>1. /\ n \in Nat /\ TableSize \in Nat \ {0} /\ WireMod \in Nat
      /\ MaxAge \in Nat /\ TableSize <= WireMod /\ MaxAge <= WireMod
      /\ Len(wire) = n /\ i \in 1 .. n
      /\ wire[i].probe = i /\ wire[i].key = PortOf(i)
  BY <1>0, TableSizeAssumption, ProbingAssumption, LenProperties
  DEF RingInv, ProbingTypeOK, WireInv, KeyOf, Roomy
<1>2. n - i < MaxAge
  BY <1>1 DEF Arrives
<1>3. found = {s \in Slots : delaytable[s].src = PortOf(i)}
  BY <1>1 DEF Matching, LookupSeq, LookupPort
<1>4. ASSUME NEW s \in found, s < n
      PROVE  delaytable[s].stamp = i /\ i > n - TableSize /\ s = own
  <2> DEFINE q == delaytable[s].stamp
  <2>1. s \in Slots /\ ~ s >= n /\ delaytable[s].src = PortOf(i)
    BY <1>1, <1>3, <1>4 DEF Slots
  <2>2. /\ q \in 1 .. n /\ q > n - TableSize
        /\ s = (q - 1) % TableSize
        /\ PortOf(q) = PortOf(i)
    BY <1>0, <2>1 DEF RingInv, SlotInv, SourceOf
  <2>3. q - i < WireMod /\ i - q < WireMod /\ q \in Nat \ {0} /\ i \in Nat \ {0}
    BY <1>1, <1>2, <2>2
  <2>4. q = i
    <3> HIDE DEF q
    <3> QED BY <2>2, <2>3, OwnPort
  <2> QED BY <2>2, <2>4
<1>5. CASE InTable(i)
  <2>1. i > n - TableSize
    BY <1>1, <1>5 DEF InTable
  <2>2. own \in Slots /\ own < n /\ delaytable[own].stamp = i
    BY <1>0, <1>1, <2>1, InItsSlot
  <2>3. delaytable[own].src = PortOf(i)
    <3>1. ~ own >= n
      BY <1>1, <2>2 DEF Slots
    <3> QED
      BY <1>0, <2>2, <3>1 DEF RingInv, SlotInv, SourceOf
  <2>4. own \in found
    BY <1>3, <2>2, <2>3
  <2>5. \A t \in found : own <= t
    <3> SUFFICES ASSUME NEW t \in found
                 PROVE  own <= t
      OBVIOUS
    <3>1. t \in Nat /\ own \in Nat
      BY <1>1, <1>3, <2>2 DEF Slots
    <3>2. CASE t < n
      BY <1>4, <3>1, <3>2
    <3>3. CASE t >= n
      BY <1>1, <2>2, <3>1, <3>3
    <3> QED BY <1>1, <3>1, <3>2, <3>3
  <2>6. First(found) = own
    <3>1. found \in SUBSET Slots
      BY <1>3
    <3> HIDE DEF found, own
    <3> QED BY <2>4, <2>5, <3>1, FirstIsLeast
  <2> QED
    BY <1>1, <1>5, <2>2, <2>4, <2>6 DEF RttStamp
<1>6. CASE ~ InTable(i)
  <2>1. i <= n - TableSize
    BY <1>1, <1>6 DEF InTable
  <2>2. \A s \in Slots : s < n
    BY <1>1, <2>1 DEF Slots
  <2>3. ASSUME NEW s \in found
        PROVE  FALSE
    <3>1. s < n
      BY <1>3, <2>2
    <3> QED
      BY <1>1, <1>4, <2>1, <3>1
  <2> QED
    BY <1>6, <2>3
<1> QED BY <1>5, <1>6

(* ICMP, before the ring is overwritten: the sequence number finds the     *)
(* entry, and number 0 falls back to a search that stops at slot 0.        *)
LEMMA ExactBySequence ==
  ASSUME Roomy, ProbingTypeOK, RingInv,
         Mode \in {"icmp-echo", "icmp-timestamp"},
         delaytable_index <= TableSize,
         NEW i \in DOMAIN wire
  PROVE  /\ InTable(i)
         /\ LET found == Matching(LookupSeq(i), LookupPort(i))
            IN  /\ found # {}
                /\ First(found) = (i - 1) % TableSize
                /\ RttStamp(LookupSeq(i), LookupPort(i)) = wire[i].probe
<1> DEFINE n == delaytable_index
           found == Matching(LookupSeq(i), LookupPort(i))
           own == (i - 1) % TableSize
<1>0. Booked /\ Mode # "tcp"
  BY DEF Booked, Tracked
<1>1. /\ n \in Nat /\ TableSize \in Nat \ {0} /\ WireMod \in Nat \ {0}
      /\ TableSize <= WireMod /\ n <= TableSize
      /\ Len(wire) = n /\ i \in 1 .. n
      /\ wire[i].probe = i /\ wire[i].key = (i - 1) % WireMod
  BY <1>0, TableSizeAssumption, ProbingAssumption, LenProperties
  DEF RingInv, ProbingTypeOK, WireInv, KeyOf, Roomy
<1>2. /\ i - 1 \in Nat /\ i - 1 < TableSize /\ i - 1 < WireMod
      /\ i > n - TableSize
  BY <1>1
<1>3. own = i - 1 /\ wire[i].key = i - 1
  BY <1>1, <1>2, RemainderBelow
<1>4. own \in Slots /\ own < n /\ delaytable[own].stamp = i
  BY <1>0, <1>1, <1>2, InItsSlot
<1>5. /\ own \in found
      /\ \A t \in found : own <= t
  <2>1. ~ own >= n
    BY <1>1, <1>4 DEF Slots
  <2>2. delaytable[own].seq = i - 1 /\ delaytable[own].src = 0
    BY <1>0, <1>4, <2>1 DEF RingInv, SlotInv, SourceOf
  <2>3. CASE i = 1
    <3>1. found = {s \in Slots : delaytable[s].src = 0} /\ own = 0
      BY <1>0, <1>3, <2>3 DEF Matching, LookupSeq, LookupPort
    <3> QED
      BY <1>1, <1>4, <2>2, <3>1 DEF Slots
  <2>4. CASE i # 1
    <3>1. LookupSeq(i) = i - 1 /\ i - 1 # 0
      BY <1>0, <1>1, <1>3, <2>4 DEF LookupSeq
    <3>2. found = {s \in Slots : delaytable[s].seq = i - 1}
      BY <3>1, Zenon DEF Matching
    <3>3. ASSUME NEW t \in found
          PROVE  t = own
      <4> DEFINE q == delaytable[t].stamp
      <4>1. t \in Slots /\ SlotInv(t) /\ delaytable[t].seq = i - 1
        BY <1>0, <3>2 DEF RingInv
      <4>2. ~ t >= n
        BY <1>1, <4>1 DEF SlotInv
      <4>3. q \in 1 .. n /\ t = (q - 1) % TableSize /\ q - 1 = i - 1
        BY <4>1, <4>2 DEF SlotInv
      <4> QED BY <4>3
    <3> QED
      BY <1>1, <1>3, <1>4, <2>2, <3>2, <3>3
  <2> QED BY <2>3, <2>4
<1>6. First(found) = own
  <2>1. found \in SUBSET Slots
    BY DEF Matching
  <2> HIDE DEF found, own
  <2> QED BY <1>5, <2>1, FirstIsLeast
<1>7. InTable(i)
  BY <1>1, <1>2 DEF InTable
<1> QED
  BY <1>1, <1>4, <1>5, <1>6, <1>7 DEF RttStamp

(* Exactness of one lookup, from the invariants.                           *)
LEMMA Exact ==
  ASSUME Roomy, ProbingTypeOK, RingInv
  PROVE  LookupExact
<1> SUFFICES ASSUME Distinct, NEW i \in DOMAIN wire, Arrives(i)
             PROVE  LET found == Matching(LookupSeq(i), LookupPort(i))
                    IN  IF InTable(i)
                        THEN /\ found # {}
                             /\ RttStamp(LookupSeq(i), LookupPort(i))
                                  = wire[i].probe
                        ELSE found = {}
  BY DEF LookupExact
<1>1. CASE Mode = "tcp" /\ ~ KeepStill
  BY <1>1, ExactByPort
<1>2. CASE Mode \in {"icmp-echo", "icmp-timestamp"}
           /\ delaytable_index <= TableSize
  BY <1>2, ExactBySequence
<1> QED BY <1>1, <1>2 DEF Distinct

(***************************************************************************)
(* rtt() charges every answer to its own probe while the probe is in the   *)
(* ring and to none afterwards: for TCP and UDP forever, past any number   *)
(* of turns of the ring and of the port space, for ICMP until the ring is  *)
(* overwritten.                                                            *)
(***************************************************************************)
THEOREM LookupIsExact == Roomy => (ProbingSpec => []LookupExact)
<1> SUFFICES ASSUME Roomy
             PROVE  ProbingSpec => []LookupExact
  OBVIOUS
<1>1. ProbingSpec => [](RingInv /\ ProbingTypeOK)
  BY RingAlways
<1>2. RingInv /\ ProbingTypeOK => LookupExact
  BY Exact
<1> QED BY <1>1, <1>2, PTL

-----------------------------------------------------------------------------
(* The counters.                                                           *)

OwnSlot(i) == (i - 1) % TableSize

\* Datagram i is still waiting for its first answer.
Open(i) == InTable(i) /\ delaytable[OwnSlot(i)].status = S_SENT

(***************************************************************************)
(* A probe is open until it is answered.  The converse needs every answer  *)
(* to be looked up: an ICMP error that is not leaves its probe open.       *)
(***************************************************************************)
TieInv ==
  Distinct =>
    \A i \in DOMAIN wire :
      InTable(i) =>
        /\ ~ wire[i].answered => Open(i)
        /\ ErrorsLookedUp /\ wire[i].answered => ~ Open(i)

(* What Distinct says of one step: keys that tell probes apart now did so  *)
(* before.                                                                 *)
LEMMA DistinctBefore ==
  ASSUME ProbingTypeOK, RingInv, Roomy, [ProbingNext]_probingVars, Distinct'
  PROVE  Distinct /\ Booked
<1>1. Mode' = Mode /\ KeepStill' = KeepStill
  BY DEF ProbingNext, probingVars, Mode, KeepStill
<1>2. Booked
  BY <1>1 DEF Distinct, Booked, Tracked
<1>3. delaytable_index \in Nat /\ delaytable_index <= MaxProbes
      /\ Len(wire) = delaytable_index
  BY <1>2, ProbingAssumption DEF RingInv
<1>4. delaytable_index <= delaytable_index' /\ delaytable_index' \in Nat
  <2>1. ASSUME NEW ok \in BOOLEAN, Transmit(ok)
        PROVE  delaytable_index' = delaytable_index + 1
    <3>1. delaytable_add(sequence, EntrySource)
      BY <1>2, <2>1 DEF Transmit, Booked
    <3>2. Foreign = <<>>
      BY DEF Roomy, ProbingTypeOK, Foreign
    <3>3. delaytable_index < IntMax
      <4>1. Len(Foreign) = 0
        BY <3>2
      <4> QED
        BY <1>3, <2>1, <4>1, ProbingAssumption, IntMaxAssumption
        DEF Transmit, Roomy
    <3> QED
      BY <1>3, <3>1, <3>3 DEF delaytable_add, Increment
  <2>2. ASSUME NEW i \in DOMAIN wire, Receive(i)
        PROVE  delaytable_index' = delaytable_index
    BY <2>2 DEF Receive, ReceiveReply, IgnoreReply, ReceiveError, tableVars
  <2>3. CASE UNCHANGED probingVars
    BY <1>3, <2>3 DEF probingVars
  <2> QED
    BY <1>3, <2>1, <2>2, <2>3 DEF ProbingNext
<1>5. TableSize \in Nat
  BY TableSizeAssumption
<1>6. delaytable_index' <= TableSize => delaytable_index <= TableSize
  BY <1>3, <1>4, <1>5
<1> QED
  BY <1>1, <1>2, <1>6 DEF Distinct

(* Two datagrams in the table have slots of their own, and a new entry     *)
(* never takes the slot of one that stays.                                 *)
LEMMA SlotsApart ==
  ASSUME NEW p \in Nat \ {0}, NEW q \in Nat \ {0},
         p - q < TableSize, q - p < TableSize, OwnSlot(p) = OwnSlot(q)
  PROVE  p = q
<1>1. /\ p - 1 \in Nat /\ q - 1 \in Nat /\ TableSize \in Nat \ {0}
      /\ (p - 1) - (q - 1) < TableSize /\ (q - 1) - (p - 1) < TableSize
  BY TableSizeAssumption
<1>2. p - 1 = q - 1
  BY <1>1, SameRemainder DEF OwnSlot
<1> QED BY <1>2

(* What the ring invariant says of the datagrams.                          *)
LEMMA WireFacts ==
  ASSUME Booked, ProbingTypeOK, RingInv
  PROVE  /\ delaytable_index \in Nat /\ TableSize \in Nat \ {0}
         /\ Len(wire) = delaytable_index
         /\ DOMAIN wire = 1 .. delaytable_index
         /\ \A i \in DOMAIN wire :
              /\ wire[i].probe = i
              /\ InTable(i) <=> i > delaytable_index - TableSize
              /\ wire[i] \in Datagram
<1>1. /\ delaytable_index \in Nat /\ Len(wire) = delaytable_index
      /\ wire \in Seq(Datagram) /\ WireInv
  BY ProbingAssumption DEF RingInv, ProbingTypeOK
<1>2. DOMAIN wire = 1 .. delaytable_index
  BY <1>1, LenProperties
<1>3. \A i \in DOMAIN wire : wire[i].probe = i /\ wire[i] \in Datagram
  BY <1>1, <1>2, LenProperties DEF WireInv
<1>4. \A i \in DOMAIN wire : InTable(i) <=> i > delaytable_index - TableSize
  BY <1>1, <1>2, <1>3, TableSizeAssumption DEF InTable
<1> QED
  BY <1>1, <1>2, <1>3, <1>4, TableSizeAssumption

(* A lookup finds the open probe open, the answered one answered, and the  *)
(* forgotten one not at all; it closes no entry but the probe's own.       *)
LEMMA LookupFacts ==
  ASSUME Roomy, ProbingTypeOK, RingInv, Distinct,
         NEW i \in DOMAIN wire, Arrives(i)
  PROVE  LET status == RttStatus(LookupSeq(i), LookupPort(i))
             table == RttTable(LookupSeq(i), LookupPort(i))
         IN  /\ ~ InTable(i) => status = S_UNKNOWN /\ table = delaytable
             /\ InTable(i) =>
                  /\ Open(i) => status = S_SENT
                  /\ ~ Open(i) => status = S_RECV
                  /\ table = [delaytable EXCEPT ![OwnSlot(i)].status = S_RECV]
                  /\ OwnSlot(i) \in Slots
<1> DEFINE found == Matching(LookupSeq(i), LookupPort(i))
<1>1. IF InTable(i) THEN found # {} /\ First(found) = OwnSlot(i)
      ELSE found = {}
  <2>1. CASE Mode = "tcp" /\ ~ KeepStill
    BY <2>1, ExactByPort DEF OwnSlot
  <2>2. CASE Mode \in {"icmp-echo", "icmp-timestamp"}
             /\ delaytable_index <= TableSize
    BY <2>2, ExactBySequence DEF OwnSlot
  <2> QED BY <2>1, <2>2 DEF Distinct
<1>2. CASE ~ InTable(i)
  BY <1>1, <1>2 DEF RttStatus, RttTable
<1>3. CASE InTable(i)
  <2>1. OwnSlot(i) \in Slots
    <3>1. Booked
      BY DEF Distinct, Booked, Tracked
    <3> QED
      BY <1>3, <3>1, WireFacts, InItsSlot DEF OwnSlot
  <2>2. delaytable[OwnSlot(i)].status \in {S_SENT, S_RECV}
    BY <2>1 DEF ProbingTypeOK, TableTypeOK, Element
  <2>3. /\ RttStatus(LookupSeq(i), LookupPort(i))
             = delaytable[OwnSlot(i)].status
        /\ RttTable(LookupSeq(i), LookupPort(i))
             = [delaytable EXCEPT ![OwnSlot(i)].status = S_RECV]
    BY <1>1, <1>3 DEF RttStatus, RttTable
  <2> QED
    BY <1>3, <2>1, <2>2, <2>3 DEF Open, S_SENT, S_RECV
<1> QED BY <1>2, <1>3

-----------------------------------------------------------------------------
(* The two kinds of steps, as seen by the books.                           *)

(* A probe that is sent is open, and leaves the others as they are, but    *)
(* for the one that falls out of the table.                                *)
LEMMA SentBooks ==
  ASSUME Roomy, ProbingTypeOK, RingInv, Booked,
         NEW ok \in BOOLEAN, Transmit(ok), UNCHANGED cfg
  PROVE  LET n == delaytable_index
         IN  /\ n' = n + 1
             /\ DOMAIN wire = 1 .. n /\ DOMAIN wire' = 1 .. n + 1
             /\ \A i \in 1 .. n :
                  /\ wire'[i] = wire[i]
                  /\ InTable(i)' => InTable(i) /\ (Open(i)' <=> Open(i))
             /\ wire' = Append(wire, wire'[n + 1])
             /\ wire'[n + 1].probe = n + 1
             /\ wire'[n + 1].copies = IF ok THEN MaxCopies ELSE 0
             /\ wire'[n + 1].answered = FALSE
             /\ \A k \in {n + 1} : InTable(k)' /\ Open(k)'
<1> DEFINE n == delaytable_index
<1>1. /\ n \in Nat /\ TableSize \in Nat \ {0} /\ Len(wire) = n
      /\ DOMAIN wire = 1 .. n /\ wire \in Seq(Datagram)
      /\ \A i \in 1 .. n : /\ wire[i].probe = i
                           /\ InTable(i) <=> i > n - TableSize
  BY WireFacts DEF ProbingTypeOK
<1>2. /\ delaytable_add(sequence, EntrySource)
      /\ wire' = Append(wire, [probe |-> n + 1,
                               key |-> AnswerKey,
                               dport |-> dst_port % WireMod,
                               copies |-> IF ok THEN MaxCopies ELSE 0,
                               answered |-> FALSE])
  BY DEF Transmit, Booked
<1>3. n < IntMax
  <2>1. Len(Foreign) = 0
    BY DEF Roomy, ProbingTypeOK, Foreign
  <2> QED
    BY <1>1, <2>1, ProbingAssumption, IntMaxAssumption DEF Transmit, Roomy
<1>4. n' = n + 1 /\ NextSlot = OwnSlot(n + 1)
  BY <1>1, <1>3, <1>2 DEF delaytable_add, Increment, NextSlot, Remainder, OwnSlot
<1>5. /\ DOMAIN wire' = 1 .. n + 1
      /\ \A i \in 1 .. n : wire'[i] = wire[i]
      /\ wire'[n + 1] = [probe |-> n + 1,
                         key |-> AnswerKey,
                         dport |-> dst_port % WireMod,
                         copies |-> IF ok THEN MaxCopies ELSE 0,
                         answered |-> FALSE]
  BY <1>1, <1>2, AppendProperties
<1>6. ASSUME NEW i \in 1 .. n, InTable(i)'
      PROVE  InTable(i) /\ (Open(i)' <=> Open(i))
  <2>1. wire'[i].probe = i /\ i \in Nat \ {0}
    BY <1>1, <1>5
  <2>2. i > n + 1 - TableSize
    BY <1>1, <1>4, <1>6, <2>1 DEF InTable
  <2>3. InTable(i)
    BY <1>1, <2>1, <2>2
  <2>4. OwnSlot(i) # OwnSlot(n + 1)
    <3>1. n + 1 \in Nat \ {0} /\ i # n + 1
          /\ i - (n + 1) < TableSize /\ (n + 1) - i < TableSize
      BY <1>1, <2>1, <2>2
    <3> QED BY <2>1, <3>1, SlotsApart
  <2>5. OwnSlot(i) \in Slots
    BY <1>1, <2>1, <2>3, InItsSlot DEF OwnSlot
  <2>6. delaytable'[OwnSlot(i)] = delaytable[OwnSlot(i)]
    BY <1>2, <1>4, <2>4, <2>5 DEF delaytable_add
  <2> QED
    BY <1>6, <2>3, <2>6, Zenon DEF Open, OwnSlot
<1>7. ASSUME NEW k \in {n + 1}
      PROVE  InTable(k)' /\ Open(k)'
  <2>1. /\ wire'[k].probe = n + 1 /\ n + 1 > 0
        /\ n + 1 > n' - TableSize
    BY <1>1, <1>4, <1>5
  <2>2. InTable(k)'
    BY <2>1, Zenon DEF InTable
  <2>3. NextSlot \in Slots /\ OwnSlot(k) = NextSlot
    <3>1. n % TableSize \in Slots /\ k - 1 = n
      BY <1>1, DivMod DEF Slots
    <3> QED
      BY <1>1, <1>4, <3>1 DEF OwnSlot
  <2>4. delaytable'[OwnSlot(k)].status = S_SENT
    BY <1>2, <2>3 DEF delaytable_add
  <2> QED
    BY <2>2, <2>4, Zenon DEF Open, OwnSlot
<1> QED
  BY <1>1, <1>2, <1>4, <1>5, <1>6, <1>7

\* The outcomes of one answer: not for us, a duplicate, the first one, and
\* one that has no entry or is not looked up.
Ignored(i) ==
  /\ wire' = [wire EXCEPT ![i].copies = @ - 1]
  /\ stats' = stats
  /\ Open(i)' <=> Open(i)

Again(i) ==
  /\ InTable(i) /\ ~ Open(i) /\ ~ Open(i)'
  /\ Account(i, S_RECV)

FirstAnswer(i) ==
  /\ Open(i) /\ ~ Open(i)'
  /\ Account(i, S_SENT)

Unknown(i) ==
  /\ ~ InTable(i) \/ ~ ErrorsLookedUp
  /\ Open(i)' <=> Open(i)
  /\ Account(i, S_UNKNOWN)

(* An answer has one of the four outcomes, and no other datagram is        *)
(* touched by it.                                                          *)
LEMMA ReceivedBooks ==
  ASSUME Roomy, ProbingTypeOK, RingInv, Distinct,
         NEW i \in DOMAIN wire, Receive(i)
  PROVE  /\ delaytable_index' = delaytable_index
         /\ wire[i].copies > 0
         /\ DOMAIN wire' = DOMAIN wire
         /\ \A j \in DOMAIN wire :
              /\ wire'[j].probe = wire[j].probe
              /\ InTable(j)' <=> InTable(j)
              /\ j # i => /\ wire'[j] = wire[j]
                          /\ Open(j)' <=> Open(j)
         /\ Ignored(i) \/ Again(i) \/ FirstAnswer(i) \/ Unknown(i)
<1> DEFINE status == RttStatus(LookupSeq(i), LookupPort(i))
           table == RttTable(LookupSeq(i), LookupPort(i))
<1>1. Booked
  BY DEF Distinct, Booked, Tracked
<1>2. /\ delaytable_index \in Nat /\ TableSize \in Nat \ {0}
      /\ DOMAIN wire = 1 .. delaytable_index /\ wire \in Seq(Datagram)
      /\ \A j \in DOMAIN wire :
           /\ wire[j].probe = j /\ wire[j] \in Datagram
           /\ InTable(j) <=> j > delaytable_index - TableSize
  BY <1>1, WireFacts DEF ProbingTypeOK
<1>3. Arrives(i) /\ wire[i].copies > 0 /\ delaytable_index' = delaytable_index
  BY DEF Receive, ReceiveReply, IgnoreReply, ReceiveError, Arrives, tableVars
<1>4. \/ /\ wire' = [wire EXCEPT ![i].copies = @ - 1]
         /\ stats' = stats /\ delaytable' = delaytable
      \/ Account(i, status) /\ delaytable' = table
      \/ /\ ~ ErrorsLookedUp /\ Account(i, S_UNKNOWN)
         /\ delaytable' = delaytable
  BY DEF Receive, ReceiveReply, IgnoreReply, ReceiveError, Lookup, tableVars
<1>5. /\ DOMAIN wire' = DOMAIN wire
      /\ \A j \in DOMAIN wire : /\ wire'[j].probe = wire[j].probe
                                /\ j # i => wire'[j] = wire[j]
  <2>1. \/ wire' = [wire EXCEPT ![i].copies = @ - 1]
        \/ wire' = [wire EXCEPT ![i].copies = @ - 1, ![i].answered = TRUE]
    BY <1>4 DEF Account
  <2>2. DOMAIN wire' = DOMAIN wire
    BY <1>2, <2>1
  <2>3. \A j \in DOMAIN wire : j # i => wire'[j] = wire[j]
    BY <1>2, <2>1
  <2>4. wire'[i].probe = wire[i].probe
    BY <1>2, <2>1 DEF Datagram
  <2> QED BY <2>2, <2>3, <2>4
<1>6. \A j \in DOMAIN wire : InTable(j)' <=> InTable(j)
  BY <1>3, <1>5, Zenon DEF InTable
<1>7. /\ ~ InTable(i) => status = S_UNKNOWN /\ table = delaytable
      /\ InTable(i) => /\ Open(i) => status = S_SENT
                       /\ ~ Open(i) => status = S_RECV
                       /\ table = [delaytable EXCEPT ![OwnSlot(i)].status = S_RECV]
                       /\ OwnSlot(i) \in Slots
  BY <1>3, LookupFacts
<1>8. ASSUME delaytable' = delaytable
      PROVE  \A j \in DOMAIN wire : Open(j)' <=> Open(j)
  BY <1>6, <1>8, Zenon DEF Open, OwnSlot
<1>9. ASSUME InTable(i), delaytable' = table
      PROVE  /\ ~ Open(i)'
             /\ \A j \in DOMAIN wire : j # i => (Open(j)' <=> Open(j))
  <2>0. delaytable \in [Slots -> Element]
    BY DEF ProbingTypeOK, TableTypeOK
  <2>1. delaytable' = [delaytable EXCEPT ![OwnSlot(i)].status = S_RECV]
    BY <1>7, <1>9
  <2>2. delaytable'[OwnSlot(i)].status = S_RECV
    BY <1>7, <1>9, <2>0, <2>1 DEF Element
  <2>3. ~ Open(i)'
    BY <2>2, SMT DEF Open, OwnSlot, S_SENT, S_RECV
  <2>4. ASSUME NEW j \in DOMAIN wire, j # i
        PROVE  Open(j)' <=> Open(j)
    <3>1. CASE InTable(j)
      <4>1. OwnSlot(j) # OwnSlot(i)
        <5>1. j \in Nat \ {0} /\ i \in Nat \ {0}
              /\ i - j < TableSize /\ j - i < TableSize
          BY <1>2, <1>9, <3>1
        <5> QED BY <2>4, <5>1, SlotsApart
      <4>2. OwnSlot(j) \in Slots
        BY <1>1, <1>2, <3>1, InItsSlot DEF OwnSlot
      <4>3. delaytable'[OwnSlot(j)] = delaytable[OwnSlot(j)]
        BY <2>0, <2>1, <4>1, <4>2
      <4> QED
        BY <1>6, <4>3, Zenon DEF Open, OwnSlot
    <3>2. CASE ~ InTable(j)
      BY <1>6, <3>2 DEF Open
    <3> QED BY <3>1, <3>2
  <2> QED BY <2>3, <2>4
<1>10. CASE wire' = [wire EXCEPT ![i].copies = @ - 1]
            /\ stats' = stats /\ delaytable' = delaytable
  BY <1>3, <1>5, <1>6, <1>8, <1>10, Zenon DEF Ignored
<1>11. CASE Account(i, status) /\ delaytable' = table
  <2>1. CASE ~ InTable(i)
    <3>1. Unknown(i) /\ delaytable' = delaytable
      BY <1>7, <1>8, <1>11, <2>1 DEF Unknown
    <3> QED BY <1>3, <1>5, <1>6, <1>8, <3>1, Zenon
  <2>2. CASE InTable(i)
    <3>1. Again(i) \/ FirstAnswer(i)
      BY <1>7, <1>9, <1>11, <2>2 DEF Again, FirstAnswer
    <3> QED BY <1>3, <1>5, <1>6, <1>9, <1>11, <2>2, <3>1, Zenon
  <2> QED BY <2>1, <2>2
<1>12. CASE ~ ErrorsLookedUp /\ Account(i, S_UNKNOWN)
            /\ delaytable' = delaytable
  BY <1>3, <1>5, <1>6, <1>8, <1>12, Zenon DEF Unknown
<1> QED BY <1>4, <1>10, <1>11, <1>12

-----------------------------------------------------------------------------
(* No answer is credited twice: every first answer closes a probe that was *)
(* open, so that there are never more first answers than datagrams that    *)
(* were answered, nor more of those than datagrams that left.              *)

Alive == {i \in DOMAIN wire : wire[i].answered \/ wire[i].copies > 0}
Credited == {i \in DOMAIN wire : wire[i].answered /\ ~ Open(i)}

CreditInv ==
  Distinct =>
    /\ stats.received >= stats.duplicates + stats.unmatched
    /\ stats.received - (stats.duplicates + stats.unmatched)
         <= Cardinality(Credited)
    /\ Cardinality(Alive) <= stats.sent

(* The sets counted are finite, and all that was credited is alive.        *)
LEMMA FiniteBooks ==
  ASSUME wire \in Seq(Datagram)
  PROVE  /\ IsFiniteSet(Alive) /\ Cardinality(Alive) \in Nat
         /\ IsFiniteSet(Credited) /\ Cardinality(Credited) \in Nat
         /\ Cardinality(Credited) <= Cardinality(Alive)
<1>1. DOMAIN wire = 1 .. Len(wire) /\ Len(wire) \in Nat
  BY LenProperties
<1>2. IsFiniteSet(DOMAIN wire)
  BY <1>1, FS_Interval
<1>3. IsFiniteSet(Alive) /\ Cardinality(Alive) \in Nat
  BY <1>2, FS_Subset, FS_CardinalityType DEF Alive
<1>4. Credited \in SUBSET Alive
  BY DEF Alive, Credited
<1> QED
  BY <1>3, <1>4, FS_Subset, FS_CardinalityType

(* A set that grows by at most one element.                                *)
LEMMA OneMore ==
  ASSUME NEW S, NEW T, NEW x, IsFiniteSet(S), T \in SUBSET (S \cup {x})
  PROVE  /\ IsFiniteSet(T) /\ Cardinality(T) \in Nat /\ Cardinality(S) \in Nat
         /\ Cardinality(T) <= Cardinality(S) + 1
<1>1. /\ IsFiniteSet(S \cup {x})
      /\ Cardinality(S \cup {x}) <= Cardinality(S) + 1
      /\ Cardinality(S) \in Nat
  BY FS_AddElement, FS_CardinalityType
<1>2. /\ IsFiniteSet(T) /\ Cardinality(T) <= Cardinality(S \cup {x})
      /\ Cardinality(T) \in Nat /\ Cardinality(S \cup {x}) \in Nat
  BY <1>1, FS_Subset, FS_CardinalityType
<1> QED BY <1>1, <1>2

(* Sending keeps the balance.                                              *)
LEMMA CreditTransmit ==
  ASSUME Roomy, ProbingTypeOK, RingInv, CreditInv, Distinct, Booked,
         NEW ok \in BOOLEAN, Transmit(ok), UNCHANGED cfg
  PROVE  CreditInv'
<1> DEFINE n == delaytable_index
<1>1. /\ n \in Nat /\ stats \in Counters /\ wire \in Seq(Datagram)
      /\ wire' \in Seq(Datagram) /\ stats' \in Counters
  BY WireFacts, TransmitType DEF ProbingTypeOK, TableTypeOK
<1>2. /\ DOMAIN wire = 1 .. n /\ DOMAIN wire' = 1 .. n + 1
      /\ \A i \in 1 .. n :
           wire'[i] = wire[i] /\ (InTable(i)' => (Open(i)' <=> Open(i)))
      /\ wire'[n + 1].copies = IF ok THEN MaxCopies ELSE 0
      /\ wire'[n + 1].answered = FALSE
  BY SentBooks
<1>3. /\ IsFiniteSet(Alive) /\ IsFiniteSet(Credited)
      /\ Cardinality(Alive) \in Nat /\ Cardinality(Credited) \in Nat
  BY <1>1, FiniteBooks
<1>4. IsFiniteSet(DOMAIN wire')
  <2>1. Len(wire') \in Int /\ DOMAIN wire' = 1 .. Len(wire')
    BY <1>1, LenProperties
  <2> QED BY <2>1, FS_Interval
<1>5. IsFiniteSet(Alive') /\ IsFiniteSet(Credited')
  BY <1>4, FS_Subset DEF Alive, Credited
<1>6. Credited \in SUBSET Credited'
  <2> SUFFICES ASSUME NEW i \in Credited
               PROVE  i \in Credited'
    OBVIOUS
  <2>1. i \in 1 .. n /\ wire[i].answered /\ ~ Open(i)
    BY <1>2 DEF Credited
  <2>2. ~ Open(i)'
    BY <1>2, <2>1 DEF Open
  <2>3. i \in DOMAIN wire' /\ wire'[i].answered
    BY <1>1, <1>2, <2>1
  <2> QED BY <2>2, <2>3 DEF Credited
<1>7. Cardinality(Credited) <= Cardinality(Credited')
      /\ Cardinality(Credited') \in Nat
  BY <1>5, <1>6, FS_Subset, FS_CardinalityType
<1>8. CASE ok
  <2>1. Alive' \in SUBSET (Alive \cup {n + 1})
    BY <1>1, <1>2 DEF Alive
  <2>2. /\ Cardinality(Alive') <= Cardinality(Alive) + 1
        /\ Cardinality(Alive') \in Nat
    BY <1>3, <2>1, OneMore
  <2>3. /\ stats'.sent = stats.sent + 1
        /\ stats'.received = stats.received
        /\ stats'.duplicates = stats.duplicates
        /\ stats'.unmatched = stats.unmatched
    BY <1>1, <1>8 DEF Transmit, OnSent, Counters
  <2> QED
    BY <1>1, <1>3, <1>7, <2>2, <2>3 DEF CreditInv, Counters
<1>9. CASE ~ ok
  <2>1. Alive' \in SUBSET Alive
    BY <1>1, <1>2, <1>9 DEF Alive
  <2>2. Cardinality(Alive') <= Cardinality(Alive)
        /\ Cardinality(Alive') \in Nat
    BY <1>3, <1>5, <2>1, FS_Subset, FS_CardinalityType
  <2>3. stats' = stats
    BY <1>9 DEF Transmit
  <2> QED
    BY <1>1, <1>3, <1>7, <2>2, <2>3 DEF CreditInv, Counters
<1> QED BY <1>8, <1>9

(* hping_stats_on_reply(), field by field.                                 *)
LEMMA OnReplyFields ==
  ASSUME NEW st \in Counters, NEW status
  PROVE  LET after == OnReply(st, status)
         IN  /\ after.sent = st.sent
             /\ after.received = st.received + 1
             /\ after.duplicates = IF status = S_RECV THEN st.duplicates + 1
                                   ELSE st.duplicates
             /\ after.unmatched = IF status = S_UNKNOWN THEN st.unmatched + 1
                                  ELSE st.unmatched
BY DEF OnReply, Counters

(* So does receiving: a first answer credits a datagram that was open.     *)
LEMMA CreditReceive ==
  ASSUME Roomy, ProbingTypeOK, RingInv, CreditInv, Distinct,
         NEW i \in DOMAIN wire, Receive(i), UNCHANGED cfg
  PROVE  CreditInv'
<1>1. /\ stats \in Counters /\ wire \in Seq(Datagram)
      /\ wire' \in Seq(Datagram) /\ stats' \in Counters
      /\ wire[i] \in Datagram
  BY ReceiveType, LenProperties DEF ProbingTypeOK, TableTypeOK
<1>2. /\ DOMAIN wire' = DOMAIN wire /\ wire[i].copies > 0
      /\ \A j \in DOMAIN wire :
           j # i => wire'[j] = wire[j] /\ (Open(j)' <=> Open(j))
      /\ Ignored(i) \/ Again(i) \/ FirstAnswer(i) \/ Unknown(i)
  BY ReceivedBooks
<1>3. /\ IsFiniteSet(Alive) /\ IsFiniteSet(Credited)
      /\ Cardinality(Alive) \in Nat /\ Cardinality(Credited) \in Nat
  BY <1>1, FiniteBooks
<1>4. IsFiniteSet(DOMAIN wire')
  <2>1. Len(wire') \in Int /\ DOMAIN wire' = 1 .. Len(wire')
    BY <1>1, LenProperties
  <2> QED BY <2>1, FS_Interval
<1>5. IsFiniteSet(Alive') /\ IsFiniteSet(Credited')
      /\ Cardinality(Alive') \in Nat /\ Cardinality(Credited') \in Nat
  BY <1>4, FS_Subset, FS_CardinalityType DEF Alive, Credited
<1>6. Cardinality(Alive') <= Cardinality(Alive)
  <2>1. Alive' \in SUBSET Alive
    BY <1>2 DEF Alive
  <2> QED BY <1>3, <2>1, FS_Subset
<1>7. \/ wire'[i].answered = wire[i].answered /\ Ignored(i)
      \/ wire'[i].answered = TRUE /\ ~ Ignored(i)
  <2>1. wire' = [wire EXCEPT ![i].copies = @ - 1]
          => wire'[i].answered = wire[i].answered
    BY <1>1 DEF Datagram
  <2>2. wire' = [wire EXCEPT ![i].copies = @ - 1, ![i].answered = TRUE]
          => wire'[i].answered = TRUE
    BY <1>1 DEF Datagram
  <2> QED
    BY <1>2, <2>1, <2>2 DEF Ignored, Again, FirstAnswer, Unknown, Account
<1>8. ASSUME NEW j \in Credited
      PROVE  j \in Credited'
  <2>1. j \in DOMAIN wire /\ wire[j].answered /\ ~ Open(j)
    BY DEF Credited
  <2>2. CASE j # i
    BY <1>2, <2>1, <2>2 DEF Credited
  <2>3. CASE j = i
    <3>1. ~ Open(i)'
      BY <1>2, <2>1, <2>3 DEF Ignored, Again, FirstAnswer, Unknown
    <3>2. wire'[i].answered
      BY <1>7, <2>1, <2>3
    <3> QED BY <1>2, <2>3, <3>1, <3>2 DEF Credited
  <2> QED BY <2>2, <2>3
<1>9. Cardinality(Credited) <= Cardinality(Credited')
  BY <1>5, <1>8, FS_Subset
<1>10. /\ stats'.sent = stats.sent
       /\ \/ stats' = stats
          \/ /\ stats'.received = stats.received + 1
             /\ stats'.duplicates + stats'.unmatched
                  = stats.duplicates + stats.unmatched + 1
          \/ /\ stats'.received = stats.received + 1
             /\ stats'.duplicates + stats'.unmatched
                  = stats.duplicates + stats.unmatched
             /\ FirstAnswer(i)
  <2>1. \/ stats' = stats
        \/ stats' = OnReply(stats, S_RECV)
        \/ stats' = OnReply(stats, S_UNKNOWN)
        \/ stats' = OnReply(stats, S_SENT) /\ FirstAnswer(i)
    BY <1>2 DEF Ignored, Again, FirstAnswer, Unknown, Account
  <2>2. /\ stats.duplicates \in Nat /\ stats.unmatched \in Nat
        /\ S_RECV # S_UNKNOWN /\ S_SENT # S_RECV /\ S_SENT # S_UNKNOWN
    BY <1>1 DEF Counters, S_SENT, S_RECV, S_UNKNOWN
  <2>3. ASSUME NEW status, stats' = OnReply(stats, status)
        PROVE  /\ stats'.sent = stats.sent
               /\ stats'.received = stats.received + 1
               /\ stats'.duplicates = IF status = S_RECV
                    THEN stats.duplicates + 1 ELSE stats.duplicates
               /\ stats'.unmatched = IF status = S_UNKNOWN
                    THEN stats.unmatched + 1 ELSE stats.unmatched
    BY <1>1, <2>3, OnReplyFields, Zenon
  <2>4. CASE stats' = stats
    BY <2>4
  <2>5. CASE stats' = OnReply(stats, S_RECV)
    BY <2>2, <2>3, <2>5
  <2>6. CASE stats' = OnReply(stats, S_UNKNOWN)
    BY <2>2, <2>3, <2>6
  <2>7. CASE stats' = OnReply(stats, S_SENT) /\ FirstAnswer(i)
    BY <2>2, <2>3, <2>7
  <2> QED BY <2>1, <2>4, <2>5, <2>6, <2>7
<1>11. ASSUME FirstAnswer(i)
       PROVE  Cardinality(Credited) + 1 <= Cardinality(Credited')
  <2>1. i \notin Credited
    BY <1>11 DEF FirstAnswer, Credited
  <2>2. i \in Credited'
    <3>1. wire'[i].answered
      <4>1. wire' = [wire EXCEPT ![i].copies = @ - 1, ![i].answered = TRUE]
        BY <1>11 DEF FirstAnswer, Account
      <4> QED BY <1>1, <4>1 DEF Datagram
    <3> QED BY <1>2, <1>11, <3>1 DEF FirstAnswer, Credited
  <2>3. Credited \cup {i} \in SUBSET Credited'
    BY <1>8, <2>2
  <2>4. Cardinality(Credited \cup {i}) = Cardinality(Credited) + 1
    BY <1>3, <2>1, FS_AddElement
  <2> QED
    BY <1>5, <2>3, <2>4, FS_Subset
<1>12. /\ stats.received \in Nat /\ stats.duplicates + stats.unmatched \in Nat
       /\ stats'.received \in Nat /\ stats'.duplicates + stats'.unmatched \in Nat
       /\ stats.sent \in Nat
  BY <1>1 DEF Counters
<1>13. /\ stats.received >= stats.duplicates + stats.unmatched
       /\ stats.received - (stats.duplicates + stats.unmatched)
            <= Cardinality(Credited)
       /\ Cardinality(Alive) <= stats.sent
  BY DEF CreditInv
<1>14. /\ stats'.received >= stats'.duplicates + stats'.unmatched
       /\ stats'.received - (stats'.duplicates + stats'.unmatched)
            <= Cardinality(Credited')
  <2>1. CASE FirstAnswer(i)
    BY <1>3, <1>5, <1>9, <1>10, <1>11, <1>12, <1>13, <2>1
  <2>2. CASE ~ FirstAnswer(i)
    BY <1>3, <1>5, <1>9, <1>10, <1>12, <1>13, <2>2
  <2> QED BY <2>1, <2>2
<1>15. Cardinality(Alive') <= stats'.sent
  BY <1>3, <1>5, <1>6, <1>10, <1>12, <1>13
<1> QED
  BY <1>14, <1>15 DEF CreditInv

(* The books stay balanced over any step.                                  *)
LEMMA CreditStep ==
  ASSUME Roomy, ProbingTypeOK, RingInv, CreditInv, [ProbingNext]_probingVars
  PROVE  CreditInv'
<1> SUFFICES ASSUME Distinct'
             PROVE  CreditInv'
  BY DEF CreditInv
<1>0. Distinct /\ Booked
  BY DistinctBefore
<1>1. ASSUME NEW ok \in BOOLEAN, Transmit(ok), UNCHANGED cfg
      PROVE  CreditInv'
  BY <1>0, <1>1, CreditTransmit
<1>2. ASSUME NEW i \in DOMAIN wire, Receive(i), UNCHANGED cfg
      PROVE  CreditInv'
  BY <1>0, <1>2, CreditReceive
<1>3. CASE UNCHANGED probingVars
  BY <1>0, <1>3 DEF probingVars, CreditInv, Alive, Credited, Open, OwnSlot,
                    InTable
<1> QED BY <1>1, <1>2, <1>3 DEF ProbingNext

(***************************************************************************)
(* hping_stats_unique() never exceeds the probes sent, whatever is lost,   *)
(* late, duplicated or answered by an error as well, so that the loss that *)
(* hping_stats_loss_percent() computes is never negative.                  *)
(***************************************************************************)
THEOREM NeverCreditedTwice == Roomy => (ProbingSpec => []UniqueAtMostSent)
<1> SUFFICES ASSUME Roomy
             PROVE  ProbingSpec => []UniqueAtMostSent
  OBVIOUS
<1>1. ProbingSpec => [](RingInv /\ ProbingTypeOK)
  BY RingAlways
<1>2. ProbingInit => CreditInv
  <2> SUFFICES ASSUME ProbingInit
               PROVE  CreditInv
    OBVIOUS
  <2>1. Foreign = <<>> /\ wire = <<>>
    BY DEF ProbingInit, Roomy, Foreign
  <2>2. Alive = {} /\ Credited = {}
    BY <2>1 DEF Alive, Credited
  <2>3. Cardinality(Alive) = 0 /\ Cardinality(Credited) = 0
    BY <2>2, FS_EmptySet
  <2> QED
    BY <2>3 DEF CreditInv, ProbingInit, TableInit
<1>3. RingInv /\ ProbingTypeOK /\ CreditInv /\ [ProbingNext]_probingVars
        => CreditInv'
  BY CreditStep
<1>4. RingInv /\ ProbingTypeOK /\ CreditInv => UniqueAtMostSent
  <2> SUFFICES ASSUME ProbingTypeOK, CreditInv, Distinct
               PROVE  Unique(stats) <= stats.sent
    BY DEF UniqueAtMostSent
  <2>1. /\ stats.received \in Nat /\ stats.sent \in Nat
        /\ stats.duplicates \in Nat /\ stats.unmatched \in Nat
        /\ wire \in Seq(Datagram)
    BY DEF ProbingTypeOK, TableTypeOK, Counters
  <2>2. /\ Cardinality(Alive) \in Nat /\ Cardinality(Credited) \in Nat
        /\ Cardinality(Credited) <= Cardinality(Alive)
    BY <2>1, FiniteBooks
  <2> QED
    BY <2>1, <2>2 DEF CreditInv, Unique
<1> QED
  BY <1>1, <1>2, <1>3, <1>4, PTL DEF ProbingSpec

-----------------------------------------------------------------------------
(* The refinement of Ledger.                                               *)

Mail == [i \in DOMAIN wire |-> [probe |-> wire[i].probe,
                                copies |-> wire[i].copies,
                                answered |-> wire[i].answered]]
Tally == [received |-> stats.received, duplicates |-> stats.duplicates,
          unmatched |-> stats.unmatched]

(* Every step keeps open probes unanswered, and answered ones closed.      *)
LEMMA TieStep ==
  ASSUME Roomy, ProbingTypeOK, RingInv, TieInv, [ProbingNext]_probingVars
  PROVE  TieInv'
<1> SUFFICES ASSUME Distinct'
             PROVE  TieInv'
  BY DEF TieInv
<1>0. Distinct /\ Booked
  BY DistinctBefore
<1>1. ErrorsLookedUp' = ErrorsLookedUp
  BY DEF ProbingNext, probingVars, ErrorsLookedUp, TrNoRtt, Mode
<1>2. ASSUME NEW ok \in BOOLEAN, Transmit(ok), UNCHANGED cfg
      PROVE  TieInv'
  <2> DEFINE n == delaytable_index
  <2>1. /\ DOMAIN wire = 1 .. n /\ DOMAIN wire' = 1 .. n + 1
        /\ \A i \in 1 .. n : /\ wire'[i] = wire[i]
                             /\ InTable(i)' => InTable(i) /\ (Open(i)' <=> Open(i))
        /\ wire'[n + 1].answered = FALSE
        /\ \A k \in {n + 1} : Open(k)'
    BY <1>0, <1>2, SentBooks
  <2>2. n \in Nat
    BY <1>0, WireFacts
  <2>3. ASSUME NEW i \in DOMAIN wire', InTable(i)'
        PROVE  /\ ~ wire'[i].answered => Open(i)'
               /\ ErrorsLookedUp' /\ wire'[i].answered => ~ Open(i)'
    <3>1. CASE i \in 1 .. n
      BY <1>0, <1>1, <2>1, <2>3, <3>1 DEF TieInv
    <3>2. CASE i = n + 1
      BY <2>1, <3>2
    <3> QED BY <2>1, <2>2, <3>1, <3>2
  <2> QED BY <2>3 DEF TieInv
<1>3. ASSUME NEW i \in DOMAIN wire, Receive(i), UNCHANGED cfg
      PROVE  TieInv'
  <2>1. /\ DOMAIN wire' = DOMAIN wire
        /\ \A j \in DOMAIN wire :
             /\ InTable(j)' <=> InTable(j)
             /\ j # i => wire'[j] = wire[j] /\ (Open(j)' <=> Open(j))
        /\ Ignored(i) \/ Again(i) \/ FirstAnswer(i) \/ Unknown(i)
    BY <1>0, <1>3, ReceivedBooks
  <2>2. /\ wire[i] \in Datagram
    BY <1>0, <1>3, WireFacts
  <2>3. \/ Ignored(i) /\ wire'[i].answered = wire[i].answered
        \/ wire'[i].answered = TRUE /\ (Again(i) \/ FirstAnswer(i) \/ Unknown(i))
    <3>1. wire' = [wire EXCEPT ![i].copies = @ - 1]
            => wire'[i].answered = wire[i].answered
      BY <2>2 DEF Datagram
    <3>2. wire' = [wire EXCEPT ![i].copies = @ - 1, ![i].answered = TRUE]
            => wire'[i].answered = TRUE
      BY <2>2 DEF Datagram
    <3> QED
      BY <2>1, <3>1, <3>2 DEF Ignored, Again, FirstAnswer, Unknown, Account
  <2>4. ASSUME NEW j \in DOMAIN wire', InTable(j)'
        PROVE  /\ ~ wire'[j].answered => Open(j)'
               /\ ErrorsLookedUp' /\ wire'[j].answered => ~ Open(j)'
    <3>1. CASE j # i
      BY <1>0, <1>1, <2>1, <2>4, <3>1 DEF TieInv
    <3>2. CASE j = i
      BY <1>0, <1>1, <2>1, <2>3, <2>4, <3>2
      DEF TieInv, Ignored, Again, FirstAnswer, Unknown
    <3> QED BY <3>1, <3>2
  <2> QED BY <2>4 DEF TieInv
<1>4. CASE UNCHANGED probingVars
  BY <1>0, <1>1, <1>4
  DEF probingVars, TieInv, Open, OwnSlot, InTable
<1> QED BY <1>2, <1>3, <1>4 DEF ProbingNext

(* Functions that agree everywhere are the same.                           *)
LEMMA SameFunction ==
  ASSUME NEW S, NEW f, NEW g,
         f = [x \in S |-> f[x]], g = [x \in S |-> g[x]],
         \A x \in S : f[x] = g[x]
  PROVE  f = g
OBVIOUS

(* Sending is Issue.                                                       *)
LEMMA IssueStep ==
  ASSUME Roomy, ProbingTypeOK, RingInv, Distinct,
         NEW ok \in BOOLEAN, Transmit(ok), UNCHANGED cfg
  PROVE  Books!Next
<1> DEFINE n == delaytable_index
           copies == IF ok THEN MaxCopies ELSE 0
<1>1. Booked
  BY DEF Distinct, Booked, Tracked
<1>2. /\ n \in Nat /\ wire \in Seq(Datagram) /\ wire' \in Seq(Datagram)
      /\ n' = n + 1
      /\ DOMAIN wire = 1 .. n /\ DOMAIN wire' = 1 .. n + 1
      /\ \A i \in 1 .. n : wire'[i] = wire[i]
      /\ wire'[n + 1].probe = n + 1
      /\ wire'[n + 1].copies = copies
      /\ wire'[n + 1].answered = FALSE
  BY <1>1, WireFacts, SentBooks, TransmitType DEF ProbingTypeOK
<1>3. Mail' = Append(Mail, [probe |-> n + 1, copies |-> copies,
                            answered |-> FALSE])
  <2> DEFINE Letter == [probe : Int, copies : Nat, answered : BOOLEAN]
             new == [probe |-> n + 1, copies |-> copies, answered |-> FALSE]
  <2>1. \A i \in 1 .. n : wire[i] \in Datagram
    BY <1>2, LenProperties
  <2>2. Mail \in [1 .. n -> Letter]
    BY <1>2, <2>1 DEF Mail, Datagram
  <2>3. Mail \in Seq(Letter) /\ Len(Mail) = n
    <3> HIDE DEF Letter
    <3>1. Mail \in Seq(Letter)
      BY <1>2, <2>2, SeqDef, Zenon
    <3>2. DOMAIN Mail = 1 .. n
      BY <2>2
    <3> QED BY <1>2, <3>1, <3>2, LenProperties
  <2>4. new \in Letter
    BY <1>2, ProbingAssumption
  <2>5. /\ Append(Mail, new) \in Seq(Letter)
        /\ DOMAIN Append(Mail, new) = 1 .. n + 1
        /\ \A i \in 1 .. n : Append(Mail, new)[i] = Mail[i]
        /\ Append(Mail, new)[n + 1] = new
    <3> HIDE DEF new, Letter, n
    <3> QED BY <1>2, <2>3, <2>4, AppendProperties, LenProperties
  <2>6. Mail' = [i \in 1 .. n + 1 |-> [probe |-> wire'[i].probe,
                                      copies |-> wire'[i].copies,
                                      answered |-> wire'[i].answered]]
    BY <1>2, Zenon DEF Mail
  <2>7. \A i \in 1 .. n : Mail'[i] = Mail[i]
    <3> TAKE i \in 1 .. n
    <3>1. i \in 1 .. n + 1 /\ i \in DOMAIN wire /\ wire'[i] = wire[i]
      BY <1>2
    <3>2. Mail'[i] = [probe |-> wire[i].probe, copies |-> wire[i].copies,
                      answered |-> wire[i].answered]
      BY <2>6, <3>1, Zenon
    <3> QED BY <3>1, <3>2, Zenon DEF Mail
  <2>8. Mail'[n + 1] = new
    <3>1. n + 1 \in 1 .. n + 1
      BY <1>2
    <3>2. Mail'[n + 1] = [probe |-> wire'[n + 1].probe,
                          copies |-> wire'[n + 1].copies,
                          answered |-> wire'[n + 1].answered]
      BY <2>6, <3>1, Zenon
    <3> QED BY <1>2, <3>2, Zenon
  <2>9. DOMAIN Mail' = 1 .. n + 1
    BY <2>6, Zenon
  <2>10. \A i \in 1 .. n + 1 : Mail'[i] = Append(Mail, new)[i]
    <3>1. \A i \in 1 .. n + 1 : i \in 1 .. n \/ i = n + 1
      BY <1>2
    <3> HIDE DEF new, Letter, n
    <3> QED BY <2>5, <2>7, <2>8, <3>1, Zenon
  <2>11. Mail' = [i \in 1 .. n + 1 |-> Mail'[i]]
    BY <2>6, <2>9, Zenon
  <2>12. Append(Mail, new) = [i \in 1 .. n + 1 |-> Append(Mail, new)[i]]
    BY <2>5
  <2>13. Mail' = Append(Mail, new)
    <3> HIDE DEF new, Letter, n
    <3> QED BY <2>10, <2>11, <2>12, SameFunction
  <2> QED BY <2>13
<1>4. Tally' = Tally
  <2>1. stats \in Counters
    BY DEF ProbingTypeOK, TableTypeOK
  <2>2. /\ stats'.received = stats.received
        /\ stats'.duplicates = stats.duplicates
        /\ stats'.unmatched = stats.unmatched
    BY <2>1 DEF Transmit, OnSent, Counters
  <2> QED BY <2>2, Zenon DEF Tally
<1>5. \E c \in {0, MaxCopies} :
        /\ n' = n + 1
        /\ Mail' = Append(Mail, [probe |-> n + 1, copies |-> c,
                                answered |-> FALSE])
        /\ Tally' = Tally
  BY <1>2, <1>3, <1>4
<1> QED
  BY <1>5, Zenon DEF Books!Next, Books!Issue, Mail, Tally

(* Receiving is Answer or Ignore.                                          *)
LEMMA AnswerStep ==
  ASSUME Roomy, ProbingTypeOK, RingInv, TieInv, Distinct, ErrorsLookedUp,
         NEW i \in DOMAIN wire, Receive(i)
  PROVE  Books!Next
<1>1. /\ delaytable_index' = delaytable_index /\ wire[i].copies > 0
      /\ Ignored(i) \/ Again(i) \/ FirstAnswer(i) \/ Unknown(i)
  BY ReceivedBooks
<1>2. /\ wire \in Seq(Datagram) /\ stats \in Counters
      /\ DOMAIN wire = 1 .. Len(wire)
      /\ \A j \in DOMAIN wire : wire[j] \in Datagram
  BY LenProperties DEF ProbingTypeOK, TableTypeOK
<1>3. /\ DOMAIN Mail = DOMAIN wire
      /\ Mail[i].probe = wire[i].probe
      /\ Mail[i].copies = wire[i].copies
      /\ Mail[i].answered = wire[i].answered
  BY DEF Mail
<1>4. InTable(i) <=> Mail[i].probe > 0
                     /\ Mail[i].probe > delaytable_index - TableSize
  BY <1>3, Zenon DEF InTable
<1>5. ASSUME wire' = [wire EXCEPT ![i].copies = @ - 1]
      PROVE  Mail' = [Mail EXCEPT ![i].copies = @ - 1]
  BY <1>2, <1>5 DEF Mail, Datagram
<1>6. ASSUME wire' = [wire EXCEPT ![i].copies = @ - 1, ![i].answered = TRUE]
      PROVE  Mail' = [Mail EXCEPT ![i].copies = @ - 1, ![i].answered = TRUE]
  BY <1>2, <1>6 DEF Mail, Datagram
<1>7. ASSUME NEW status, stats' = OnReply(stats, status)
      PROVE  /\ status = S_SENT => Tally' = Books!Counted(0, 0)
             /\ status = S_RECV => Tally' = Books!Counted(1, 0)
             /\ status = S_UNKNOWN => Tally' = Books!Counted(0, 1)
  <2>1. /\ stats'.received = stats.received + 1
        /\ stats'.duplicates = IF status = S_RECV
             THEN stats.duplicates + 1 ELSE stats.duplicates
        /\ stats'.unmatched = IF status = S_UNKNOWN
             THEN stats.unmatched + 1 ELSE stats.unmatched
    BY <1>2, <1>7, OnReplyFields, Zenon
  <2>2. Tally' = [received |-> stats'.received,
                  duplicates |-> stats'.duplicates,
                  unmatched |-> stats'.unmatched]
    BY Zenon DEF Tally
  <2>3. S_SENT # S_RECV /\ S_SENT # S_UNKNOWN /\ S_RECV # S_UNKNOWN
    BY DEF S_SENT, S_RECV, S_UNKNOWN
  <2>4. /\ stats.duplicates + 0 = stats.duplicates
        /\ stats.unmatched + 0 = stats.unmatched
    BY <1>2 DEF Counters
  <2>5. \A d, u : Books!Counted(d, u) = [received |-> stats.received + 1,
                                        duplicates |-> stats.duplicates + d,
                                        unmatched |-> stats.unmatched + u]
    BY DEF Books!Counted
  <2> QED BY <2>1, <2>2, <2>3, <2>4, <2>5, Zenon
<1>8. /\ InTable(i) /\ ~ Mail[i].answered => Open(i)
      /\ InTable(i) /\ Mail[i].answered => ~ Open(i)
  BY <1>3 DEF TieInv
<1>9. \/ /\ Mail' = [Mail EXCEPT ![i].copies = @ - 1]
         /\ Tally' = Tally
      \/ /\ Mail' = [Mail EXCEPT ![i].copies = @ - 1, ![i].answered = TRUE]
         /\ \/ /\ InTable(i) /\ ~ Mail[i].answered
               /\ Tally' = Books!Counted(0, 0)
            \/ /\ InTable(i) /\ Mail[i].answered
               /\ Tally' = Books!Counted(1, 0)
            \/ /\ ~ InTable(i)
               /\ Tally' = Books!Counted(0, 1)
  <2>1. CASE Ignored(i)
    BY <1>5, <2>1 DEF Ignored, Tally
  <2>2. CASE Again(i)
    BY <1>6, <1>7, <1>8, <2>2 DEF Again, Account
  <2>3. CASE FirstAnswer(i)
    BY <1>6, <1>7, <1>8, <2>3 DEF FirstAnswer, Account, Open
  <2>4. CASE Unknown(i)
    BY <1>6, <1>7, <2>4 DEF Unknown, Account
  <2> QED BY <1>1, <2>1, <2>2, <2>3, <2>4
<1>10. \/ /\ Mail[i].copies > 0 /\ delaytable_index' = delaytable_index
          /\ Mail' = [Mail EXCEPT ![i].copies = @ - 1]
          /\ Tally' = Tally
       \/ /\ Mail[i].copies > 0 /\ delaytable_index' = delaytable_index
          /\ Mail' = [Mail EXCEPT ![i].copies = @ - 1, ![i].answered = TRUE]
          /\ Books!First(i) \/ Books!Duplicate(i) \/ Books!Unmatched(i)
  BY <1>1, <1>3, <1>4, <1>9, Zenon
  DEF Books!First, Books!Duplicate, Books!Unmatched, Books!Remembered,
      Mail, Tally
<1> QED
  BY <1>3, <1>10, Zenon
  DEF Books!Next, Books!Answer, Books!Ignore, Books!Take, Mail, Tally

(***************************************************************************)
(* The ring of slots and the search by key keep the books of Ledger: the   *)
(* first answer of a probe that is remembered is counted once, the others  *)
(* as duplicates, and the rest as unmatched.                               *)
(***************************************************************************)
THEOREM KeepsLedger == Roomy => (ProbingSpec => LedgerSpec)
<1> SUFFICES ASSUME Roomy
             PROVE  ProbingSpec => LedgerSpec
  OBVIOUS
<1>1. ProbingSpec => [](RingInv /\ ProbingTypeOK)
  BY RingAlways
<1>2. ProbingInit => Books!Init /\ TieInv
  <2> SUFFICES ASSUME ProbingInit
               PROVE  Books!Init /\ TieInv
    OBVIOUS
  <2>1. Foreign = <<>> /\ wire = <<>>
    BY DEF ProbingInit, Roomy, Foreign
  <2>2. TieInv
    BY <2>1 DEF TieInv
  <2>3. Books!Init
    BY <2>1 DEF ProbingInit, TableInit, Books!Init
  <2> QED BY <2>2, <2>3
<1>3. RingInv /\ ProbingTypeOK /\ TieInv /\ [ProbingNext]_probingVars
        => TieInv'
  BY TieStep
<1>4. ASSUME RingInv, ProbingTypeOK, TieInv, [ProbingNext]_probingVars
      PROVE  [Distinct /\ ErrorsLookedUp => Books!Next]_(Books!vars)
  <2>1. CASE UNCHANGED probingVars
    BY <2>1 DEF probingVars, Books!vars
  <2>2. CASE ProbingNext /\ Distinct /\ ErrorsLookedUp
    BY <1>4, <2>2, IssueStep, AnswerStep DEF ProbingNext
  <2>3. CASE ~ (Distinct /\ ErrorsLookedUp)
    BY <2>3
  <2> QED BY <1>4, <2>1, <2>2, <2>3
<1> QED
  BY <1>1, <1>2, <1>3, <1>4, PTL DEF ProbingSpec, LedgerSpec

-----------------------------------------------------------------------------

(***************************************************************************)
(* Tracing is probing: what traceroute does to the TTL and to its list of  *)
(* hops changes nothing that Probing says of the books, so each theorem    *)
(* about ProbingSpec holds of a run with -T.                               *)
(***************************************************************************)
THEOREM TracingIsProbing == TracerouteSpec => ProbingSpec
<1>1. TracerouteInit => ProbingInit
  BY DEF TracerouteInit
<1>2. [TracerouteNext]_tracerouteVars => [ProbingNext]_probingVars
  BY DEF TracerouteNext, SendProbe, Press, TimeExceeded, Unreachable,
         TargetReply, OtherReply, ProbingNext, Receive, tracerouteVars
<1> QED
  BY <1>1, <1>2, PTL DEF TracerouteSpec, ProbingSpec

-----------------------------------------------------------------------------
(* Types.                                                                  *)

Line == [hop : Nat, ttl : Nat]

TraceTypeOK ==
  /\ src_ttl \in Nat
  /\ ttls \in Seq(Nat)
  /\ Len(ttls) = Len(wire)
  /\ shown \in Seq(Line)
  /\ presses \in Nat
  /\ orderly \in BOOLEAN

(* There is at least one TTL.                                              *)
LEMMA ModPositive == TtlMod \in Nat \ {0}
BY TracerouteAssumption, LenProperties

(* What the network of Probing looks like after an answer was received.    *)
LEMMA AnswerTaken ==
  ASSUME ProbingTypeOK, NEW i \in DOMAIN wire,
         ReceiveReply(i) \/ ReceiveError(i)
  PROVE  /\ Len(wire') = Len(wire) /\ DOMAIN wire' = DOMAIN wire
         /\ wire'[i].answered
         /\ \A j \in DOMAIN wire : j # i => wire'[j] = wire[j]
<1>1. wire' = [wire EXCEPT ![i].copies = @ - 1, ![i].answered = TRUE]
  BY DEF ReceiveReply, ReceiveError, Lookup, Account
<1>2. /\ wire \in Seq(Datagram) /\ wire[i] \in Datagram
      /\ DOMAIN wire = 1 .. Len(wire)
  BY LenProperties, ElementOfSeq DEF ProbingTypeOK
<1>3. wire' \in Seq(Datagram)
  BY <1>1, <1>2, TakenType DEF ReceiveReply, ReceiveError, Arrives
<1>4. DOMAIN wire' = DOMAIN wire
  BY <1>1
<1>5. Len(wire') = Len(wire)
  BY <1>2, <1>3, <1>4, LenProperties
<1>6. wire'[i] = [wire[i] EXCEPT !.copies = @ - 1, !.answered = TRUE]
  BY <1>1
<1> QED
  BY <1>1, <1>2, <1>4, <1>5, <1>6 DEF Datagram

(* What it looks like after a probe was sent.                              *)
LEMMA ProbeAppended ==
  ASSUME ProbingTypeOK, NEW ok \in BOOLEAN, Transmit(ok)
  PROVE  /\ Len(wire') = Len(wire) + 1
         /\ DOMAIN wire' = 1 .. Len(wire) + 1 /\ DOMAIN wire = 1 .. Len(wire)
         /\ ~ wire'[Len(wire) + 1].answered
         /\ \A j \in DOMAIN wire : wire'[j] = wire[j]
  BY DatagramBuilt, AppendProperties, LenProperties DEF Transmit, ProbingTypeOK

(* An ignored reply leaves the marks of the datagrams alone.               *)
LEMMA IgnoredTaken ==
  ASSUME ProbingTypeOK, NEW i \in DOMAIN wire, IgnoreReply(i)
  PROVE  /\ Len(wire') = Len(wire) /\ DOMAIN wire' = DOMAIN wire
         /\ \A j \in DOMAIN wire : wire'[j].answered = wire[j].answered
<1>1. wire' = [wire EXCEPT ![i].copies = @ - 1]
  BY DEF IgnoreReply
<1>2. /\ wire \in Seq(Datagram) /\ wire[i] \in Datagram
      /\ DOMAIN wire = 1 .. Len(wire)
  BY LenProperties, ElementOfSeq DEF ProbingTypeOK
<1>3. wire' \in Seq(Datagram)
  BY <1>1, <1>2, TakenType DEF IgnoreReply, Arrives
<1>4. DOMAIN wire' = DOMAIN wire
  BY <1>1
<1>5. Len(wire') = Len(wire)
  BY <1>2, <1>3, <1>4, LenProperties
<1>6. wire'[i] = [wire[i] EXCEPT !.copies = @ - 1]
  BY <1>1
<1> QED
  BY <1>1, <1>2, <1>4, <1>5, <1>6 DEF Datagram

(* Of the answers, the three that are accounted.                           *)
Accounted(i) == TimeExceeded(i) \/ Unreachable(i) \/ TargetReply(i)

(* What the three have in common.                                          *)
LEMMA AccountedFacts ==
  ASSUME ProbingTypeOK, TraceTypeOK, NEW i \in DOMAIN wire, Accounted(i)
  PROVE  /\ Len(wire') = Len(wire) /\ DOMAIN wire' = DOMAIN wire
         /\ wire'[i].answered
         /\ \A j \in DOMAIN wire : j # i => wire'[j] = wire[j]
         /\ ttls' = ttls /\ presses' = presses
         /\ orderly' = (orderly /\ (Trace # "off" => InTurn(i)))
         /\ \/ UNCHANGED <<src_ttl, old_src_addr, shown>>
            \/ /\ ShowsHop(i) /\ Expires(i)
               /\ shown' = Append(shown, [hop |-> src_ttl, ttl |-> ttls[i]])
               /\ src_ttl' = IF KeepTtl THEN src_ttl ELSE src_ttl + 1
               /\ old_src_addr' = IF Trace = "text" THEN RouterOf(i)
                                  ELSE old_src_addr
<1>1. ReceiveReply(i) \/ ReceiveError(i)
  BY DEF Accounted, TimeExceeded, Unreachable, TargetReply
<1>2. Answered(i)
  BY DEF Accounted, TimeExceeded, Unreachable, TargetReply
<1>3. \/ UNCHANGED <<src_ttl, old_src_addr, shown>>
      \/ ShowHop(i) /\ Expires(i)
  BY DEF Accounted, TimeExceeded, Unreachable, TargetReply
<1> QED
  BY <1>1, <1>2, <1>3, AnswerTaken DEF Answered, ShowHop

(* The types of the tracing part.                                          *)
LEMMA TraceTypeStep ==
  ASSUME ProbingTypeOK, TraceTypeOK, [TracerouteNext]_tracerouteVars
  PROVE  TraceTypeOK'
<1>1. ASSUME NEW ok \in BOOLEAN, SendProbe(ok)
      PROVE  TraceTypeOK'
  <2>1. SentTtl \in Nat
    BY TracerouteAssumption DEF SentTtl, TraceTypeOK
  <2>3. Len(wire') = Len(wire) + 1
    BY <1>1, ProbeAppended DEF SendProbe
  <2>4. ttls' \in Seq(Nat) /\ Len(ttls') = Len(ttls) + 1
    BY <1>1, <2>1, AppendProperties DEF SendProbe, TraceTypeOK
  <2> QED
    BY <1>1, <2>3, <2>4 DEF SendProbe, TraceTypeOK
<1>2. CASE Press
  BY <1>2 DEF Press, Pressed, TraceTypeOK, probingVars
<1>3. ASSUME NEW i \in DOMAIN wire, Accounted(i)
      PROVE  TraceTypeOK'
  <2>1. ttls[i] \in Nat
    BY <1>3, LenProperties, ElementOfSeq DEF TraceTypeOK, ProbingTypeOK
  <2>2. [hop |-> src_ttl, ttl |-> ttls[i]] \in Line
    BY <2>1 DEF Line, TraceTypeOK
  <2>3. shown' \in Seq(Line) /\ src_ttl' \in Nat
    <3>1. CASE UNCHANGED <<src_ttl, old_src_addr, shown>>
      BY <3>1 DEF TraceTypeOK
    <3>2. CASE /\ shown' = Append(shown, [hop |-> src_ttl, ttl |-> ttls[i]])
               /\ src_ttl' = IF KeepTtl THEN src_ttl ELSE src_ttl + 1
      BY <2>2, <3>2, AppendProperties DEF TraceTypeOK
    <3> QED BY <1>3, <3>1, <3>2, AccountedFacts
  <2>4. orderly' \in BOOLEAN
    BY <1>3, AccountedFacts DEF TraceTypeOK
  <2> QED
    BY <1>3, <2>3, <2>4, AccountedFacts DEF TraceTypeOK
<1>4. ASSUME NEW i \in DOMAIN wire, OtherReply(i)
      PROVE  TraceTypeOK'
  BY <1>4, IgnoredTaken DEF OtherReply, traceVars, TraceTypeOK
<1>5. CASE UNCHANGED tracerouteVars
  BY <1>5 DEF tracerouteVars, traceVars, probingVars, TraceTypeOK
<1> QED
  BY <1>1, <1>2, <1>3, <1>4, <1>5 DEF TracerouteNext, Accounted

-----------------------------------------------------------------------------
(* The path.                                                               *)

\* No probe carries a TTL above the one in use, and no line names a hop
\* below the one its probe reached.
BelowInv ==
  /\ \A i \in DOMAIN ttls : ttls[i] <= src_ttl
  /\ \A k \in DOMAIN shown : shown[k].ttl <= shown[k].hop

\* The lines so far are the path, and the TTL in use is the next hop.
ListInv ==
  /\ src_ttl = HopOf(Len(shown) + 1)
  /\ src_ttl < TtlMod
  /\ \A k \in DOMAIN shown : shown[k] = [hop |-> HopOf(k), ttl |-> HopOf(k)]

\* The text output: the router shown last answered a probe whose TTL was one
\* less than the one in use, and all later probes carry at least as much.
TextInv ==
  Trace = "text" /\ ~ KeepTtl =>
    /\ \A i, j \in DOMAIN ttls : i < j => ttls[i] <= ttls[j]
    /\ shown = <<>> => \A i \in DOMAIN ttls : ttls[i] = src_ttl
    /\ shown # <<>> =>
         \E m \in DOMAIN ttls : /\ wire[m].answered
                                /\ ttls[m] + 1 = src_ttl
                                /\ old_src_addr = RouterOf(m)

\* The JSON output: a last probe without an answer carries the TTL in use.
JsonInv ==
  Trace = "json" /\ ~ KeepTtl =>
    (Len(wire) > 0 /\ ~ wire[Len(wire)].answered => ttls[Len(wire)] = src_ttl)

KeepInv == KeepTtl => \A i \in DOMAIN ttls : ttls[i] = src_ttl

PathInv ==
  presses = 0 => /\ BelowInv
                 /\ orderly => ListInv /\ TextInv /\ JsonInv /\ KeepInv

(* The domains that the invariant ranges over.                             *)
LEMMA Domains ==
  ASSUME ProbingTypeOK, TraceTypeOK
  PROVE  /\ DOMAIN wire = 1 .. Len(wire) /\ DOMAIN ttls = 1 .. Len(wire)
         /\ Len(wire) \in Nat /\ Len(shown) \in Nat
         /\ DOMAIN shown = 1 .. Len(shown)
         /\ \A i \in DOMAIN ttls : ttls[i] \in Nat
         /\ \A k \in DOMAIN shown : shown[k] \in Line
<1>1. /\ DOMAIN wire = 1 .. Len(wire) /\ Len(wire) \in Nat
      /\ DOMAIN ttls = 1 .. Len(ttls)
      /\ DOMAIN shown = 1 .. Len(shown) /\ Len(shown) \in Nat
  BY LenProperties DEF ProbingTypeOK, TraceTypeOK
<1>2. \A i \in 1 .. Len(ttls) : ttls[i] \in Nat
  BY ElementOfSeq DEF TraceTypeOK
<1>3. \A k \in 1 .. Len(shown) : shown[k] \in Line
  BY ElementOfSeq DEF TraceTypeOK
<1> QED
  BY <1>1, <1>2, <1>3 DEF TraceTypeOK

(* What sending adds to the TTLs.                                          *)
LEMMA SentFacts ==
  ASSUME ProbingTypeOK, TraceTypeOK, NEW ok \in BOOLEAN, SendProbe(ok)
  PROVE  /\ Len(wire') = Len(wire) + 1
         /\ DOMAIN ttls' = 1 .. Len(wire) + 1
         /\ ttls'[Len(wire) + 1] = SentTtl
         /\ \A i \in DOMAIN ttls : ttls'[i] = ttls[i]
         /\ ~ wire'[Len(wire) + 1].answered
         /\ \A i \in DOMAIN wire : wire'[i] = wire[i]
         /\ UNCHANGED <<src_ttl, old_src_addr, shown, presses, orderly>>
<1>1. SentTtl \in Nat
  BY TracerouteAssumption DEF SentTtl, TraceTypeOK
<1>2. /\ DOMAIN ttls' = 1 .. Len(ttls) + 1
      /\ ttls'[Len(ttls) + 1] = SentTtl
      /\ \A i \in 1 .. Len(ttls) : ttls'[i] = ttls[i]
  BY <1>1, AppendProperties, LenProperties DEF SendProbe, TraceTypeOK
<1> QED
  BY <1>2, ProbeAppended, Domains DEF SendProbe, TraceTypeOK

(* What a new line adds to the lines.                                      *)
LEMMA LineAppended ==
  ASSUME ProbingTypeOK, TraceTypeOK, NEW i \in DOMAIN wire,
         shown' = Append(shown, [hop |-> src_ttl, ttl |-> ttls[i]])
  PROVE  /\ Len(shown') = Len(shown) + 1
         /\ DOMAIN shown' = 1 .. Len(shown) + 1
         /\ shown'[Len(shown) + 1] = [hop |-> src_ttl, ttl |-> ttls[i]]
         /\ \A k \in DOMAIN shown : shown'[k] = shown[k]
<1>1. [hop |-> src_ttl, ttl |-> ttls[i]] \in Line
  BY Domains DEF Line, TraceTypeOK
<1> QED
  BY <1>1, AppendProperties, LenProperties DEF TraceTypeOK

(* Without ctrl+z the TTL never falls below that of a probe.               *)
LEMMA BelowStep ==
  ASSUME ProbingTypeOK, TraceTypeOK, BelowInv, presses = 0, presses' = 0,
         [TracerouteNext]_tracerouteVars
  PROVE  BelowInv'
<1>1. ASSUME NEW ok \in BOOLEAN, SendProbe(ok)
      PROVE  BelowInv'
  <2>1. SentTtl <= src_ttl
    BY ModPositive, RemainderBelow DEF SentTtl, TraceTypeOK
  <2> QED
    <3>1. \A i \in DOMAIN ttls' : ttls'[i] <= src_ttl'
      BY <1>1, <2>1, SentFacts, Domains DEF BelowInv
    <3>2. shown' = shown
      BY <1>1, SentFacts
    <3> QED BY <3>1, <3>2 DEF BelowInv
<1>2. ~ Press
  BY DEF Press
<1>3. ASSUME NEW i \in DOMAIN wire, Accounted(i)
      PROVE  BelowInv'
  <2>1. CASE UNCHANGED <<src_ttl, old_src_addr, shown>>
    BY <1>3, <2>1, AccountedFacts DEF BelowInv
  <2>2. CASE /\ shown' = Append(shown, [hop |-> src_ttl, ttl |-> ttls[i]])
             /\ src_ttl' = IF KeepTtl THEN src_ttl ELSE src_ttl + 1
    <3>1. ttls' = ttls /\ src_ttl <= src_ttl'
      BY <1>3, <2>2, AccountedFacts DEF TraceTypeOK
    <3>2. \A j \in DOMAIN ttls' : ttls'[j] <= src_ttl'
      BY <2>2, <3>1, Domains DEF BelowInv, TraceTypeOK
    <3>3. \A k \in DOMAIN shown' : shown'[k].ttl <= shown'[k].hop
      BY <2>2, LineAppended, Domains DEF BelowInv
    <3> QED BY <3>2, <3>3 DEF BelowInv
  <2> QED BY <1>3, <2>1, <2>2, AccountedFacts
<1>4. ASSUME NEW i \in DOMAIN wire, OtherReply(i)
      PROVE  BelowInv'
  BY <1>4 DEF OtherReply, traceVars, BelowInv
<1>5. CASE UNCHANGED tracerouteVars
  BY <1>5 DEF tracerouteVars, traceVars, BelowInv
<1> QED
  BY <1>1, <1>2, <1>3, <1>4, <1>5 DEF TracerouteNext, Accounted

OrderInv == ListInv /\ TextInv /\ JsonInv /\ KeepInv

(* A new probe carries the TTL in use, and the last one is not answered.   *)
LEMMA OrderSent ==
  ASSUME ProbingTypeOK, TraceTypeOK, BelowInv, OrderInv, UNCHANGED cfg,
         NEW ok \in BOOLEAN, SendProbe(ok)
  PROVE  OrderInv'
<1>1. SentTtl = src_ttl
  BY ModPositive, RemainderBelow DEF SentTtl, TraceTypeOK, OrderInv, ListInv
<1>2. ListInv'
  <2>1. shown' = shown /\ src_ttl' = src_ttl
    BY SentFacts
  <2> QED
    BY <2>1 DEF OrderInv, ListInv, HopOf, KeepTtl
<1>3. TextInv'
  <2> SUFFICES ASSUME Trace = "text", ~ KeepTtl
               PROVE  TextInv'
    BY DEF TextInv, Trace, KeepTtl
  <2>1. \A i, j \in DOMAIN ttls' : i < j => ttls'[i] <= ttls'[j]
    BY <1>1, SentFacts, Domains DEF OrderInv, TextInv, BelowInv
  <2>2. shown' = <<>> => \A i \in DOMAIN ttls' : ttls'[i] = src_ttl'
    BY <1>1, SentFacts, Domains DEF OrderInv, TextInv
  <2>3. ASSUME shown' # <<>>
        PROVE  \E m \in DOMAIN ttls' : /\ wire'[m].answered
                                       /\ ttls'[m] + 1 = src_ttl'
                                       /\ old_src_addr' = RouterOf(m)'
    <3>1. PICK m \in DOMAIN ttls : /\ wire[m].answered
                                   /\ ttls[m] + 1 = src_ttl
                                   /\ old_src_addr = RouterOf(m)
      BY <2>3, SentFacts DEF OrderInv, TextInv
    <3> QED
      BY <3>1, SentFacts, Domains DEF RouterOf
  <2> QED BY <2>1, <2>2, <2>3 DEF TextInv
<1>4. JsonInv'
  BY <1>1, SentFacts, Domains DEF JsonInv
<1>5. KeepInv'
  BY <1>1, SentFacts, Domains DEF OrderInv, KeepInv, KeepTtl
<1> QED
  BY <1>2, <1>3, <1>4, <1>5 DEF OrderInv

(* An error in its turn that becomes a line quotes the TTL in use.         *)
LEMMA HopInTurn ==
  ASSUME ProbingTypeOK, TraceTypeOK, BelowInv, OrderInv,
         NEW i \in DOMAIN wire, ShowsHop(i), InTurn(i)
  PROVE  ttls[i] = src_ttl
<1>1. CASE KeepTtl
  BY <1>1, Domains DEF OrderInv, KeepInv
<1>2. CASE ~ KeepTtl /\ Trace = "json"
  BY <1>2, Domains DEF OrderInv, JsonInv, InTurn
<1>3. CASE ~ KeepTtl /\ Trace = "text"
  <2>1. CASE shown = <<>>
    BY <1>3, <2>1, Domains DEF OrderInv, TextInv
  <2>2. CASE shown # <<>>
    <3>1. PICK m \in DOMAIN ttls : /\ wire[m].answered
                                   /\ ttls[m] + 1 = src_ttl
                                   /\ old_src_addr = RouterOf(m)
      BY <1>3, <2>2 DEF OrderInv, TextInv
    <3>2. m <= i
      BY <1>3, <3>1, Domains DEF InTurn
    <3>3. ttls[m] <= ttls[i]
      BY <1>3, <3>1, <3>2, Domains DEF OrderInv, TextInv
    <3>4. ttls[i] # ttls[m]
      BY <1>3, <3>1 DEF ShowsHop, RouterOf
    <3> QED
      BY <3>1, <3>3, <3>4, Domains DEF BelowInv, TraceTypeOK
  <2> QED BY <2>1, <2>2
<1> QED
  BY <1>1, <1>2, <1>3 DEF ShowsHop

(* An answer in its turn leaves the list in order.                         *)
LEMMA OrderAnswered ==
  ASSUME ProbingTypeOK, TraceTypeOK, BelowInv, OrderInv, UNCHANGED cfg,
         NEW i \in DOMAIN wire, Accounted(i), orderly'
  PROVE  OrderInv'
<1>1. /\ Len(wire') = Len(wire) /\ DOMAIN ttls' = DOMAIN ttls
      /\ wire'[i].answered
      /\ \A j \in DOMAIN wire : j # i => wire'[j] = wire[j]
      /\ ttls' = ttls
      /\ Trace # "off" => InTurn(i)
      /\ Trace' = Trace /\ KeepTtl' = KeepTtl
  BY AccountedFacts DEF Trace, KeepTtl
<1>2. CASE UNCHANGED <<src_ttl, old_src_addr, shown>>
  <2>1. ListInv' /\ KeepInv'
    BY <1>1, <1>2 DEF OrderInv, ListInv, KeepInv, HopOf, KeepTtl
  <2>2. JsonInv'
    BY <1>1, <1>2, Domains DEF OrderInv, JsonInv
  <2>3. TextInv'
    <3> SUFFICES ASSUME Trace = "text", ~ KeepTtl, shown # <<>>
                 PROVE  \E m \in DOMAIN ttls : /\ wire'[m].answered
                                               /\ ttls[m] + 1 = src_ttl
                                               /\ old_src_addr = RouterOf(m)
      BY <1>1, <1>2, Zenon DEF OrderInv, TextInv, RouterOf
    <3>1. PICK m \in DOMAIN ttls : /\ wire[m].answered
                                   /\ ttls[m] + 1 = src_ttl
                                   /\ old_src_addr = RouterOf(m)
      BY DEF OrderInv, TextInv
    <3>2. wire'[m].answered
      BY <1>1, <3>1, Domains
    <3> QED BY <3>1, <3>2
  <2> QED BY <2>1, <2>2, <2>3 DEF OrderInv
<1>3. CASE /\ ShowsHop(i) /\ Expires(i)
           /\ shown' = Append(shown, [hop |-> src_ttl, ttl |-> ttls[i]])
           /\ src_ttl' = IF KeepTtl THEN src_ttl ELSE src_ttl + 1
           /\ old_src_addr' = IF Trace = "text" THEN RouterOf(i)
                              ELSE old_src_addr
  <2>1. ttls[i] = src_ttl
    BY <1>1, <1>3, HopInTurn DEF ShowsHop
  <2>2. src_ttl' < TtlMod
    <3>1. Len(Path) \in Nat /\ TtlMod \in Nat /\ Len(Path) + 1 < TtlMod
      BY TracerouteAssumption, LenProperties
    <3>2. src_ttl <= Len(Path) /\ src_ttl \in Nat /\ src_ttl < TtlMod
      BY <1>3, <2>1 DEF Expires, OrderInv, ListInv, TraceTypeOK
    <3> QED BY <1>3, <3>1, <3>2
  <2>3. /\ cfg.ttl \in Nat /\ Len(shown) \in Nat
        /\ Len(shown') = Len(shown) + 1
    BY <1>3, Domains, LineAppended, TracerouteAssumption
    DEF ProbingTypeOK
  <2>4. \A k : HopOf(k)' = HopOf(k)
    BY DEF HopOf, KeepTtl
  <2>5. src_ttl' = HopOf(Len(shown') + 1)
    <3>1. src_ttl = HopOf(Len(shown) + 1)
      BY DEF OrderInv, ListInv
    <3>2. src_ttl' = IF KeepTtl THEN src_ttl ELSE src_ttl + 1
      BY <1>3
    <3> QED
      BY <2>3, <3>1, <3>2 DEF HopOf
  <2>6. \A k \in DOMAIN shown' :
          shown'[k] = [hop |-> HopOf(k), ttl |-> HopOf(k)]
    <3>1. shown'[Len(shown) + 1]
            = [hop |-> HopOf(Len(shown) + 1), ttl |-> HopOf(Len(shown) + 1)]
      BY <1>3, <2>1, LineAppended DEF OrderInv, ListInv
    <3> QED
      BY <1>3, <3>1, LineAppended, Domains DEF OrderInv, ListInv
  <2>7. ListInv'
    BY <2>2, <2>4, <2>5, <2>6 DEF ListInv
  <2>8. KeepInv'
    BY <1>1, <1>3 DEF OrderInv, KeepInv
  <2>9. JsonInv'
    BY <1>1, <1>3 DEF InTurn, JsonInv
  <2>10. TextInv'
    <3> SUFFICES ASSUME Trace = "text", ~ KeepTtl
                 PROVE  TextInv'
      BY <1>1 DEF TextInv
    <3>1. shown' # <<>>
      BY <2>3
    <3>2. /\ i \in DOMAIN ttls' /\ wire'[i].answered
          /\ ttls'[i] + 1 = src_ttl' /\ old_src_addr' = RouterOf(i)'
      BY <1>1, <1>3, <2>1, Domains DEF RouterOf
    <3>3. \A j, k \in DOMAIN ttls' : j < k => ttls'[j] <= ttls'[k]
      BY <1>1 DEF OrderInv, TextInv
    <3> QED BY <3>1, <3>2, <3>3 DEF TextInv
  <2> QED BY <2>7, <2>8, <2>9, <2>10 DEF OrderInv
<1> QED
  BY <1>2, <1>3, AccountedFacts

(* A reply that is ignored changes nothing of the order.                   *)
LEMMA OrderIgnored ==
  ASSUME ProbingTypeOK, TraceTypeOK, OrderInv, UNCHANGED cfg,
         NEW i \in DOMAIN wire, OtherReply(i)
  PROVE  OrderInv'
<1>1. /\ UNCHANGED <<src_ttl, old_src_addr, ttls, shown>>
      /\ Len(wire') = Len(wire)
      /\ \A j \in DOMAIN wire : wire'[j].answered = wire[j].answered
      /\ Trace' = Trace /\ KeepTtl' = KeepTtl
  BY IgnoredTaken DEF OtherReply, traceVars, Trace, KeepTtl
<1>2. ListInv' /\ KeepInv'
  BY <1>1 DEF OrderInv, ListInv, KeepInv, HopOf, KeepTtl
<1>3. JsonInv'
  BY <1>1, Domains DEF OrderInv, JsonInv
<1>4. TextInv'
  <2> SUFFICES ASSUME Trace = "text", ~ KeepTtl, shown # <<>>
               PROVE  \E m \in DOMAIN ttls : /\ wire'[m].answered
                                             /\ ttls[m] + 1 = src_ttl
                                             /\ old_src_addr = RouterOf(m)
    BY <1>1, Zenon DEF OrderInv, TextInv, RouterOf
  <2>1. PICK m \in DOMAIN ttls : /\ wire[m].answered
                                 /\ ttls[m] + 1 = src_ttl
                                 /\ old_src_addr = RouterOf(m)
    BY DEF OrderInv, TextInv
  <2> QED BY <1>1, <2>1, Domains
<1> QED BY <1>2, <1>3, <1>4 DEF OrderInv

(* A run begins with an empty list, and all datagrams carry the first TTL. *)
LEMMA PathStart ==
  TracerouteInit => TraceTypeOK /\ PathInv
<1> SUFFICES ASSUME TracerouteInit
             PROVE  TraceTypeOK /\ PathInv
  OBVIOUS
<1>1. ProbingTypeOK /\ cfg \in Configurations
  BY ProbingInitType DEF TracerouteInit, ProbingInit
<1>2. cfg.ttl \in Nat /\ cfg.ttl < TtlMod
  BY <1>1, TracerouteAssumption
<1>3. Len(wire) \in Nat /\ DOMAIN wire = 1 .. Len(wire)
  BY <1>1, LenProperties DEF ProbingTypeOK
<1>4. ttls \in Seq(Nat) /\ Len(ttls) = Len(wire) /\ DOMAIN ttls = 1 .. Len(wire)
  BY <1>2, <1>3 DEF TracerouteInit
<1>5. \A i \in DOMAIN ttls : ttls[i] = cfg.ttl
  BY DEF TracerouteInit
<1>6. TraceTypeOK
  BY <1>2, <1>4, EmptySeq DEF TracerouteInit, TraceTypeOK
<1>7. BelowInv /\ KeepInv
  BY <1>2, <1>5 DEF TracerouteInit, BelowInv, KeepInv
<1>8. ListInv
  BY <1>2 DEF TracerouteInit, ListInv, HopOf
<1>9. TextInv
  BY <1>2, <1>5 DEF TracerouteInit, TextInv
<1>10. JsonInv
  BY <1>3, <1>4, <1>5 DEF TracerouteInit, JsonInv
<1> QED BY <1>6, <1>7, <1>8, <1>9, <1>10 DEF PathInv

(* Every step keeps the list in order for as long as nothing disturbs it.  *)
LEMMA PathStep ==
  ASSUME ProbingTypeOK, TraceTypeOK, PathInv, [TracerouteNext]_tracerouteVars
  PROVE  PathInv'
<1> SUFFICES ASSUME presses' = 0
             PROVE  BelowInv' /\ (orderly' => OrderInv')
  BY DEF PathInv, OrderInv
<1>1. ~ Press /\ presses = 0
  <2>1. ~ Press
    BY DEF Press, TraceTypeOK
  <2>2. presses' = presses
    BY <2>1
    DEF TracerouteNext, SendProbe, TimeExceeded, Unreachable, TargetReply,
        OtherReply, Answered, tracerouteVars, traceVars
  <2> QED BY <2>1, <2>2
<1>2. BelowInv /\ (orderly => OrderInv)
  BY <1>1 DEF PathInv, OrderInv
<1>3. BelowInv'
  BY <1>1, <1>2, BelowStep
<1>4. ASSUME orderly'
      PROVE  OrderInv'
  <2>1. UNCHANGED cfg
    BY DEF TracerouteNext, tracerouteVars, probingVars
  <2>2. ASSUME NEW ok \in BOOLEAN, SendProbe(ok)
        PROVE  OrderInv'
    BY <1>2, <1>4, <2>1, <2>2, SentFacts, OrderSent
  <2>3. ASSUME NEW i \in DOMAIN wire, Accounted(i)
        PROVE  OrderInv'
    BY <1>2, <1>4, <2>1, <2>3, AccountedFacts, OrderAnswered
  <2>4. ASSUME NEW i \in DOMAIN wire, OtherReply(i)
        PROVE  OrderInv'
    BY <1>2, <1>4, <2>1, <2>4, OrderIgnored DEF OtherReply, traceVars
  <2>5. CASE UNCHANGED tracerouteVars
    BY <1>2, <1>4, <2>5
    DEF tracerouteVars, traceVars, probingVars, OrderInv, ListInv, TextInv,
        JsonInv, KeepInv, HopOf, RouterOf, Trace, KeepTtl
  <2> QED BY <1>1, <2>2, <2>3, <2>4, <2>5 DEF TracerouteNext, Accounted
<1> QED BY <1>3, <1>4

(***************************************************************************)
(* The list of hops is the path, for every path, every number of probes,   *)
(* lost answers and duplicates, as long as the answers come in order.      *)
(***************************************************************************)
THEOREM HopsAreThePath == TracerouteSpec => []TracesPath
<1>1. TracerouteInit => TraceTypeOK /\ PathInv
  BY PathStart
<1>2. ProbingTypeOK /\ TraceTypeOK /\ PathInv /\ [TracerouteNext]_tracerouteVars
        => TraceTypeOK' /\ PathInv'
  BY TraceTypeStep, PathStep
<1>3. PathInv => TracesPath
  BY DEF PathInv, BelowInv, ListInv, TracesPath
<1>4. TracerouteSpec => []ProbingTypeOK
  BY TracingIsProbing, ProbingTypeCorrect, PTL
<1> QED
  BY <1>1, <1>2, <1>3, <1>4, PTL DEF TracerouteSpec
=============================================================================
