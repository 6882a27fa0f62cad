------------------------------- MODULE Probing -------------------------------
(***************************************************************************)
(* Sending probes and accounting for their replies: send_tcp(), send_udp(),*)
(* send_icmp_*() and send_packet() on one side, recv_tcp(), recv_udp(),    *)
(* recv_icmp() and icmp_unreach_rtt() on the other, with the network       *)
(* between them.  Time is left to EventLoop, which drives these actions.   *)
(*                                                                         *)
(* The network is the sequence wire: one record per datagram that was      *)
(* built, with the number of copies of an answer it may still produce.     *)
(* Copies are received in any order and at any later moment, or never, so  *)
(* loss, delay, reordering and duplication are all present; only an answer *)
(* that is more than MaxAge probes late is known to be lost.               *)
(***************************************************************************)
EXTENDS DelayTable, Sequences

CONSTANTS
  Configurations,  \* the command lines: one is chosen in the initial state
  InitSport,       \* the first source port
  DstPort,         \* the first destination port
  WireMod,         \* 65536: ports and the ICMP sequence field have 16 bits
  MaxProbes,       \* bound: datagrams built
  MaxCopies,       \* bound: answers one datagram may produce
  MaxAge           \* bound: probes sent while an answer is under way

Modes == {"tcp", "icmp-echo", "icmp-timestamp", "icmp-address"}

ASSUME ProbingAssumption ==
  /\ \A c \in Configurations :
       /\ c.mode \in Modes
       /\ c.keepstill \in BOOLEAN
       /\ c.tr_no_rtt \in BOOLEAN
       /\ c.dst_mode \in {"fixed", "inc", "force"}
       /\ c.foreign \in Seq(0 .. WireMod - 1)
  /\ WireMod \in Nat \ {0}
  /\ InitSport \in 0 .. WireMod - 1
  /\ DstPort \in 0 .. WireMod - 1
  /\ {MaxProbes, MaxCopies, MaxAge} \subseteq Nat

VARIABLES
  cfg,        \* the configuration, which no action changes
  sequence,   \* ctx.sequence, or _icmp_seq in the ICMP modes
  src_port,   \* ctx.src_port
  dst_port,   \* cfg.dst_port
  wire        \* the datagrams and the answers they may still produce

probingVars == <<delaytable, delaytable_index, stats, cfg,
                 sequence, src_port, dst_port, wire>>

Mode      == cfg.mode       \* "tcp" (TCP and UDP keep the same books) or ICMP
KeepStill == cfg.keepstill  \* --keep: every probe has the same source port
TrNoRtt   == cfg.tr_no_rtt  \* --tr-no-rtt: ICMP errors are not looked up
DstMode   == cfg.dst_mode   \* -p: "fixed", "+": "inc", "++": "force"
Foreign   == cfg.foreign    \* keys of answers to no probe of this run

(***************************************************************************)
(* A datagram: its delay table entry (0 when it has none), the key its     *)
(* answer carries (destination port, or ICMP sequence field), the port it  *)
(* was sent to, the answers left, and whether one was already accounted.   *)
(***************************************************************************)
Datagram == [probe : Int, key : Nat, dport : Int, copies : Nat,
             answered : BOOLEAN]

ForeignDatagram(key) ==
  [probe |-> 0, key |-> key, dport |-> DstPort, copies |-> MaxCopies,
   answered |-> FALSE]

ProbingInit ==
  /\ TableInit
  /\ cfg \in Configurations
  /\ sequence = 0
  /\ src_port = InitSport
  /\ dst_port = DstPort
  /\ wire = [i \in DOMAIN Foreign |-> ForeignDatagram(Foreign[i])]

-----------------------------------------------------------------------------
(* Sending.                                                                *)

\* An address mask probe is never recorded: send_icmp_address() tests for
\* another ICMP type.
Tracked == Mode # "icmp-address"

\* A bug: the entry is added after the port has moved on.
EntrySource_Moved == IF Mode = "tcp" THEN (src_port + 1) % WireMod ELSE 0

\* The src column of the entry and the key of the answer.
EntrySource == IF Mode = "tcp" THEN src_port ELSE 0
AnswerKey   == IF Mode = "tcp" THEN src_port ELSE sequence % WireMod

\* The source port of the next probe.
NextSourcePort ==
  IF Mode # "tcp" \/ KeepStill THEN src_port
  ELSE (sequence + 1 + InitSport) % WireMod

(***************************************************************************)
(* send_packet(), with its three outcomes.  When the packet cannot be      *)
(* built nothing has happened yet.  Otherwise the entry is added and the   *)
(* counters advance whether or not the datagram leaves; only the count of  *)
(* probes sent depends on it.                                              *)
(***************************************************************************)
BuildFails == UNCHANGED probingVars

Transmit(ok) ==
  /\ Len(wire) < MaxProbes + Len(Foreign)
  /\ IF Tracked THEN delaytable_add(sequence, EntrySource)
                ELSE UNCHANGED <<delaytable, delaytable_index>>
  /\ wire' = Append(wire, [probe |-> IF Tracked THEN delaytable_index + 1 ELSE 0,
                           key |-> AnswerKey,
                           dport |-> dst_port % WireMod,
                           copies |-> IF ok THEN MaxCopies ELSE 0,
                           answered |-> FALSE])
  /\ sequence' = sequence + 1
  /\ src_port' = NextSourcePort
  /\ dst_port' = IF Mode = "tcp" /\ DstMode = "force" THEN dst_port + 1
                 ELSE dst_port
  /\ stats' = IF ok THEN OnSent(stats) ELSE stats

-----------------------------------------------------------------------------
(* Receiving.                                                              *)

\* The sequence number and the port rtt() is called with.
LookupSeq(i)  == IF Mode = "tcp" THEN 0 ELSE wire[i].key
LookupPort(i) == IF Mode = "tcp" THEN wire[i].key ELSE 0

\* A bug: the first port of the range is left out.
PortMatches_NotFirst(p) ==
  \/ p = dst_port
  \/ DstMode = "force" /\ DstPort < p /\ p <= dst_port

\* recv_tcp(), recv_udp(): the source port of a reply must be one we probe.
PortMatches(p) ==
  \/ p = dst_port
  \/ DstMode = "force" /\ DstPort <= p /\ p <= dst_port

Account(i, status) ==
  /\ stats' = OnReply(stats, status)
  /\ wire' = [wire EXCEPT ![i].copies = @ - 1, ![i].answered = TRUE]

Lookup(i) ==
  /\ Account(i, RttStatus(LookupSeq(i), LookupPort(i)))
  /\ delaytable' = RttTable(LookupSeq(i), LookupPort(i))

\* An answer of datagram i may arrive.
Arrives(i) == wire[i].copies > 0 /\ Len(wire) - i < MaxAge

\* A reply of the target that passes the filters.
ReceiveReply(i) ==
  /\ Arrives(i)
  /\ Mode = "tcp" => PortMatches(wire[i].dport)
  /\ Lookup(i)
  /\ dst_port' = IF Mode = "tcp" /\ DstMode = "inc" THEN dst_port + 1
                 ELSE dst_port
  /\ UNCHANGED <<delaytable_index, sequence, src_port>>

\* A reply from a port that is not (or no longer) the one we probe.
IgnoreReply(i) ==
  /\ Arrives(i)
  /\ Mode = "tcp" /\ ~ PortMatches(wire[i].dport)
  /\ wire' = [wire EXCEPT ![i].copies = @ - 1]
  /\ UNCHANGED <<tableVars, sequence, src_port, dst_port>>

\* Of the ICMP errors, those icmp_unreach_rtt() looks up.
ErrorsLookedUp == ~ TrNoRtt /\ Mode \in {"tcp", "icmp-echo"}

(***************************************************************************)
(* An ICMP error quoting the datagram.  icmp_unreach_rtt() looks a quoted  *)
(* TCP or UDP header up by its source port and a quoted echo request by    *)
(* its sequence; anything else is unknown.                                 *)
(***************************************************************************)
ReceiveError(i) ==
  /\ Arrives(i)
  /\ IF ErrorsLookedUp
     THEN Lookup(i)
     ELSE Account(i, S_UNKNOWN) /\ UNCHANGED delaytable
  /\ UNCHANGED <<delaytable_index, sequence, src_port, dst_port>>

Receive(i) == ReceiveReply(i) \/ IgnoreReply(i) \/ ReceiveError(i)

ProbingNext ==
  /\ \/ \E ok \in BOOLEAN : Transmit(ok)
     \/ \E i \in DOMAIN wire : Receive(i)
  /\ UNCHANGED cfg

ProbingSpec == ProbingInit /\ [][ProbingNext]_probingVars

-----------------------------------------------------------------------------
(* Correctness.                                                            *)

\* One type invariant: the table, the counters and the network.
ProbingTypeOK ==
  /\ TableTypeOK
  /\ cfg \in Configurations
  /\ sequence \in Nat
  /\ src_port \in 0 .. WireMod - 1
  /\ dst_port \in Nat
  /\ wire \in Seq(Datagram)

\* The entry of datagram i is one of the last TABLESIZE that were added.
InTable(i) ==
  /\ wire[i].probe > 0
  /\ wire[i].probe > delaytable_index - TableSize

\* The sessions whose keys tell probes apart: a source port per probe, or a
\* sequence number while the ring has not been overwritten.
Distinct ==
  \/ Mode = "tcp" /\ ~ KeepStill
  \/ Mode \in {"icmp-echo", "icmp-timestamp"} /\ delaytable_index <= TableSize

(***************************************************************************)
(* rtt() finds the entry of the probe an answer belongs to, as long as it  *)
(* is in the table, and no entry at all afterwards: no answer is ever      *)
(* measured against, or closes, the entry of another probe.                *)
(***************************************************************************)
LookupExact ==
  Distinct => \A i \in DOMAIN wire :
     Arrives(i) =>
       LET found == Matching(LookupSeq(i), LookupPort(i))
       IN  IF InTable(i)
           THEN /\ found # {}
                /\ RttStamp(LookupSeq(i), LookupPort(i)) = wire[i].probe
           ELSE found = {}

(***************************************************************************)
(* Crediting: hping_stats_unique() never exceeds the probes that left, so  *)
(* the loss percentage of hping_stats_loss_percent() needs no clamping.    *)
(***************************************************************************)
UniqueAtMostSent == Distinct => Unique(stats) <= stats.sent

(***************************************************************************)
(* With a port that stays, or one that moves with every probe, the port    *)
(* filter of recv_tcp() and recv_udp() accepts every answer to a probe of  *)
(* this run, however late it comes, until the port has run past 65535.     *)
(***************************************************************************)
AnswersAccepted ==
  [][DstMode # "inc" /\ dst_port <= WireMod /\ wire' # wire
       => Len(wire') > Len(wire) \/ stats'.received = stats.received + 1]_probingVars

(***************************************************************************)
(* The books kept by the ring of slots and the search by key are those of  *)
(* a ledger that knows which probe every answer belongs to.  An ICMP error *)
(* is an exception under --tr-no-rtt, where it is always unmatched, and so *)
(* is one that quotes a timestamp request.                                 *)
(***************************************************************************)
Books == INSTANCE Ledger
  WITH Window <- TableSize,
       issued <- delaytable_index,
       mail <- [i \in DOMAIN wire |-> [probe |-> wire[i].probe,
                                       copies |-> wire[i].copies,
                                       answered |-> wire[i].answered]],
       tally <- [received |-> stats.received,
                 duplicates |-> stats.duplicates,
                 unmatched |-> stats.unmatched]

LedgerSpec ==
  Books!Init /\ [][Distinct /\ ErrorsLookedUp => Books!Next]_(Books!vars)
=============================================================================
