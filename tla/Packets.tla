------------------------------- MODULE Packets -------------------------------
(***************************************************************************)
(* The life of a packet between its descriptions: "build" and "describe"   *)
(* of src/src/script.c and arsglue.c, composed of the parser (Apd), the    *)
(* compilers (Layers), the dissector (Split) and the describer (Rapd).     *)
(*                                                                         *)
(* A description is parsed into layers token by token, the layers are      *)
(* compiled from the last to the first and flattened; the network hands    *)
(* the datagram over with padding or a link header, cut short or damaged;  *)
(* the capture is dissected handler by handler; what was read is described *)
(* and the description is built again (round 2).                           *)
(***************************************************************************)
EXTENDS Rapd, Split

CONSTANTS
  Descriptions,  \* the texts a user may write, as lexemes
  Paddings,      \* numbers of bytes the link layer may append
  LinkHeaders,   \* lengths of link headers in front of the datagram
  Cuts           \* how many bytes a snapshot may keep

ASSUME DescriptionsAssumption == \A d \in Descriptions : IsText(d)
ASSUME LengthsAssumption ==
  Paddings \subseteq Nat /\ LinkHeaders \subseteq Nat /\ Cuts \subseteq Nat

VARIABLES
  round,     \* 1: the user's description, 2: the one written by describe
  b,         \* ars_d_build()'s variables
  pkt,       \* the packet being compiled
  j,         \* ars_compile()'s loop variable
  sent,      \* the compiled packet of round 1
  fate       \* what the network did to its bytes

vars == <<pc, round, b, pkt, j, sent, fate, wire, captured, cur>>

Init ==
  /\ pc = "build"
  /\ round = 1
  /\ \E d \in Descriptions : b = BuildInit(d)
  /\ pkt = << >> /\ j = 0
  /\ sent = << >> /\ fate = <<"none">> /\ wire = << >>
  /\ captured = << >> /\ cur = NoCur

-----------------------------------------------------------------------------
(* ars_d_build(), ars_compile(), ars_build_packet().                       *)

Parse ==
  /\ pc = "build"
  /\ ars_d_parser(b.text) # << >>
  /\ b' = ars_d_build(b)
  /\ pc' = IF b'.err = "OK" THEN "build" ELSE "failed"
  /\ UNCHANGED <<round, pkt, j, sent, fate, wire, captured, cur>>

Parsed ==
  /\ pc = "build"
  /\ ars_d_parser(b.text) = << >>
  /\ b' = BuildEnd(b)
  /\ pc' = IF b'.err = "OK" THEN "compile" ELSE "failed"
  /\ pkt' = b.p
  /\ j' = Len(b.p)
  /\ UNCHANGED <<round, sent, fate, wire, captured, cur>>

ars_compile ==
  /\ pc = "compile"
  /\ j >= 1
  /\ LET r == CompileLayer(pkt, j)
     IN  /\ pkt' = r.p
         /\ pc' = IF r.err = "OK" THEN "compile" ELSE "failed"
  /\ j' = j - 1
  /\ UNCHANGED <<round, b, sent, fate, wire, captured, cur>>

Flatten ==
  /\ pc = "compile"
  /\ j = 0
  /\ CASE ars_build_packet(pkt) = << >> -> pc' = "failed" /\ UNCHANGED sent
       [] OTHER -> IF round = 1
                   THEN pc' = "network" /\ sent' = pkt
                   ELSE pc' = "done" /\ UNCHANGED sent
  /\ UNCHANGED <<round, b, pkt, j, fate, wire, captured, cur>>

-----------------------------------------------------------------------------
(* The network and the capture (external).                                 *)

Datagram == ars_build_packet(sent)

Receive(w, f) ==
  /\ pc = "network"
  /\ wire' = w
  /\ fate' = f
  /\ pc' = "capture"
  /\ UNCHANGED <<round, b, pkt, j, sent, captured, cur>>

LinkPadding(n) == Receive(Datagram \o Zero(n), <<"padded", n>>)
LinkHeader(n)  == Receive(Zero(n) \o Datagram, <<"headed", n>>)
Cut(n)         == n < Len(Datagram) /\ Receive(SubSeq(Datagram, 1, n), <<"cut", n>>)
Damage(k)      == Receive([Datagram EXCEPT ![k] = (@ + 1) % 256], <<"damaged", k>>)

Network ==
  \/ \E n \in Paddings : LinkPadding(n)
  \/ \E n \in LinkHeaders : LinkHeader(n)
  \/ \E n \in Cuts : Cut(n)
  \/ \E k \in 1 .. Len(Datagram) : Damage(k)

-----------------------------------------------------------------------------
(* ars_split_packet() and ars_d_from_ars().                                *)

\* A link header is what makes the caller look for the IP header.
OpenCapture ==
  /\ SplitStart(fate[1] = "headed")
  /\ UNCHANGED <<round, b, pkt, j, sent, fate>>

DissectLayer ==
  /\ SplitStep
  /\ UNCHANGED <<round, b, pkt, j, sent, fate>>

\* Captures that were cut or damaged are not taken to round 2.
Describe ==
  /\ pc = "split"
  /\ cur.state = "DONE"
  /\ fate[1] \in {"padded", "headed"}
  /\ \E hexdata \in BOOLEAN : b' = BuildInit(ars_d_from_ars(captured, hexdata))
  /\ round' = 2
  /\ pc' = "build"
  /\ UNCHANGED <<pkt, j, sent, fate, wire, captured, cur>>

Next ==
  \/ Parse \/ Parsed \/ ars_compile \/ Flatten
  \/ Network
  \/ OpenCapture \/ DissectLayer \/ Describe

Spec == Init /\ [][Next]_vars

-----------------------------------------------------------------------------
(* Properties.                                                             *)

Layered(p) ==
  /\ Len(p) <= ARS_MAX_LAYER
  /\ \A k \in 1 .. Len(p) : /\ p[k].size \in 0 .. Len(p[k].data)
                            /\ \A i \in 1 .. Len(p[k].data) : p[k].data[i] \in Byte

\* Every layer keeps no more bytes in use than its buffer has, whatever the
\* descriptions, the padding and the dissector did to it; a byte is a byte.
TypeOK ==
  /\ pc \in {"build", "compile", "network", "capture", "split", "done", "failed"}
  /\ round \in {1, 2}
  /\ j \in 0 .. ARS_MAX_LAYER
  /\ Layered(b.p) /\ Layered(pkt) /\ Layered(sent) /\ Layered(captured)

Flags(p) == UNION {p[k].flags : k \in 1 .. Len(p)}
\* The stacks whose structure the headers themselves tell: what may follow
\* a layer on the wire.
Quoting(l) == l.type = "ICMP" /\ l.data[1] \notin {0, 8, 13, 14, 15, 16}
Follows(l, m) ==
  CASE l.type \in {"IP", "IPOPT"} -> m.type \in {"IP", "IPOPT", "ICMP", "UDP", "TCP", "IGRP", "DATA"}
    [] l.type = "IP6" -> m.type \in {"IP6", "IP", "ICMP6", "ICMP", "UDP", "TCP", "DATA"}
    [] l.type = "ICMP" -> m.type = IF Quoting(l) THEN "IP" ELSE "DATA"
    [] l.type \in {"TCP", "TCPOPT"} -> m.type \in {"TCPOPT", "DATA"}
    [] l.type \in {"UDP", "ICMP6", "DATA"} -> m.type = "DATA"
    [] l.type \in {"IGRP", "IGRPENTRY"} -> m.type = "IGRPENTRY"

IsOption(l) == l.type \in {"IPOPT", "TCPOPT"}
OptionFits(l) == IsOption(l) => l.data[1] \in {0, 1} \/ l.data[2] \in 2 .. l.size

\* Nothing taken over, nothing cut off, options of honest length that fit in
\* 40 bytes, a stack that can be read back.
Plain(p) ==
  /\ p[1].type \in {"IP", "IP6"}
  /\ Flags(p) = {}
  /\ \A k \in 1 .. Len(p) : OptionFits(p[k]) /\ p[k].size = Len(p[k].data)
  /\ \A k \in 1 .. Len(p) - 1 : Follows(p[k], p[k + 1])
  /\ \A t \in {"IPOPT", "TCPOPT"}, k \in 1 .. Len(p) :
       TypeAt(p, k - 1) # t => RunSize(p, k, FirstNot(p, k, t) - 1) <= 40

\* A plain packet is read back as it was built: the same headers in the same
\* order, byte for byte and with good checksums, and options of the same
\* bytes, behind any link header and without the link layer's padding.  The
\* dissector gives up only for want of layers, or when there is no IPv4
\* header to look for behind the link header (split.c:140-199).
SameStack(p, q) ==
  LET data(r) == LayerBytes(SelectSeq(r, LAMBDA l : l.type = "DATA"))
      headers(r) == SelectSeq(r, LAMBDA l : ~ IsOption(l) /\ l.type # "DATA")
  IN  headers(p) = headers(q) /\ data(p) = data(q)

ReadsBack ==
  round = 1 /\ fate[1] \in {"padded", "headed"} /\ Plain(sent) =>
    /\ Dissected => /\ Flags(captured) = {}
                    /\ LayerBytes(captured) = Datagram
                    /\ SameStack(captured, sent)
    /\ pc = "failed" => \/ Len(captured) = ARS_MAX_LAYER
                        \/ fate[1] = "headed" /\ sent[1].type = "IP6"

\* Whatever byte of a checksummed datagram is damaged, some layer of the
\* capture says so, or the dissector gives up.
Summed(p) ==
  /\ Plain(p)
  /\ p[1].type = "IP"
  /\ TypeAt(p, FirstNot(p, 2, "IPOPT")) \in {"ICMP", "UDP", "TCP"}

DamageSeen ==
  Dissected /\ fate[1] = "damaged" /\ Summed(sent) => Flags(captured) # {}

\* What "describe" has words for: rr, ts and their like are rebuilt with 40
\* bytes, SACK with four blocks, sec, sid and unknown options are not parsed,
\* and the checksum of ICMP is not written.
HasWords(l) ==
  /\ FTRUNC \notin l.flags
  /\ l.type = "IPOPT" => l.data[1] \in {IPOPT.eol, IPOPT.nop}
  /\ l.type = "TCPOPT" =>
       \E o \in DOMAIN TCPOPT : /\ l.data[1] = TCPOPT[o]
                                /\ l.size = TcpoptSize[o]
                                /\ l.size > 1 => l.data[2] = l.size
  /\ l.type = "TCP" => l.data[14] # 0
  /\ l.type = "ICMP" => /\ FBADCKSUM \notin l.flags
                        /\ l.data[1] \in {0, 3, 4, 5, 8, 11, 12, 13, 14, 15, 16}
  /\ l.type = "DATA" => \A k \in 1 .. l.size - 2 :
       l.data[k] = 92 => ~ IsHex(SubSeq(l.data, k + 1, k + 2))

\* What was captured and described in words builds the same bytes again,
\* wrong lengths, protocols and checksums included (rapd.c, apd.c).
RoundTrip ==
  round = 2 /\ (\A k \in 1 .. Len(captured) : HasWords(captured[k])) =>
    /\ pc # "failed"
    /\ pc = "done" => ars_build_packet(pkt) = LayerBytes(captured)
=============================================================================
