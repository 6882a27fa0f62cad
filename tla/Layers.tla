------------------------------- MODULE Layers -------------------------------
(***************************************************************************)
(* The ARS packet engine (src/src/ars.c): a packet is a stack of layers    *)
(* that is filled by the ars_add_*() operations, completed by the layer    *)
(* compilers from the last layer to the first, and flattened into the      *)
(* bytes that are sent.                                                    *)
(*                                                                         *)
(* A packet p is the sequence pkt->p_layer[0 .. p_layer_nr-1].  Headers    *)
(* are kept as the bytes of the C structures, so that lengths, nibbles and *)
(* checksums mean what they mean on the wire; offsets are the ones of C.   *)
(* A layer has a buffer (l_data) and the number of its bytes that are in   *)
(* use (l_size), which a description may lower.                            *)
(***************************************************************************)
EXTENDS Integers, Sequences, SequencesExt, FiniteSetsExt

CONSTANT ARS_MAX_LAYER   \* 256 in ars.h

ASSUME MaxLayerAssumption == ARS_MAX_LAYER \in Nat \ {0}

-----------------------------------------------------------------------------
(* Bytes.                                                                  *)

Byte == 0 .. 255

Zero(n) == [k \in 1 .. n |-> 0]

\* n in w bytes, network order; the excess is lost, as in a C assignment.
Net(n, w) ==
  [k \in 1 .. w |-> (n \div <<1, 256, 65536, 16777216>>[w - k + 1]) % 256]

\* memcpy(d + off, bytes, Len(bytes)) inside a buffer d.
Put(d, off, bytes) ==
  [k \in 1 .. Len(d) |->
     IF k - off \in 1 .. Len(bytes) THEN bytes[k - off] ELSE d[k]]

Get16(d, off) == 256 * d[off + 1] + d[off + 2]

High(b) == b \div 16
Low(b)  == b % 16

-----------------------------------------------------------------------------
(* Layers.                                                                 *)

\* What an emptied slot of the layer table holds.
NullLayer == [type |-> "NULL", size |-> 0, flags |-> {}, data |-> << >>]

TypeAt(p, j) == IF j \in 1 .. Len(p) THEN p[j].type ELSE "NULL"

Bytes(l) == SubSeq(l.data, 1, l.size)

\* The first layer from i on that is not of type t, and the first hole.
FirstNot(p, i, t) == Min({j \in i .. Len(p) + 1 : TypeAt(p, j) # t} \cup {Len(p) + 1})
Hole(p, i) == Min({j \in i .. Len(p) + 1 : TypeAt(p, j) = "NULL"} \cup {Len(p) + 1})

\* Everything from layer i up to the first hole.
Chunks(p, i) == [k \in 1 .. Hole(p, i) - i |-> Bytes(p[i + k - 1])]

Total(s) == FoldLeft(LAMBDA sum, n : sum + n, 0, s)

RunSize(p, i, j) == Total([k \in 1 .. j - i + 1 |-> p[i + k - 1].size])

ars_relative_size(p, i) == RunSize(p, i, Hole(p, i) - 1)

ars_packet_size(p) == ars_relative_size(p, 1)

ars_nospace(p) == Len(p) = ARS_MAX_LAYER

\* A zeroed layer; callers test ars_nospace() first, because a full packet
\* makes the operation fail and leaves the packet as it was.
ars_add_generic(p, type, data) ==
  Append(p, [type |-> type, size |-> Len(data), flags |-> {}, data |-> data])

ars_add_iphdr(p)     == ars_add_generic(p, "IP", Zero(20))
ars_add_udphdr(p)    == ars_add_generic(p, "UDP", Zero(8))
ars_add_tcphdr(p)    == ars_add_generic(p, "TCP", Zero(20))
ars_add_icmphdr(p)   == ars_add_generic(p, "ICMP", Put(Zero(8), 0, <<8>>))
ars_add_ip6hdr(p)    == ars_add_generic(p, "IP6", Put(Put(Zero(40), 0, <<96>>), 7, <<64>>))
ars_add_icmp6hdr(p)  == ars_add_generic(p, "ICMP6", Put(Zero(8), 0, <<128>>))
ars_add_igrphdr(p)   == ars_add_generic(p, "IGRP", Put(Zero(12), 0, <<16 + 2>>))
ars_add_igrpentry(p) == ars_add_generic(p, "IGRPENTRY", Zero(14))
ars_add_data(p)      == ars_add_generic(p, "DATA", << >>)

IPOPT == [eol |-> 0, nop |-> 1, rr |-> 7, ts |-> 68, sec |-> 130,
          lsrr |-> 131, sid |-> 136, ssrr |-> 137]

\* The kind byte, the length byte except for eol and nop, and for the
\* variable options the pointer and a length that leaves room after it.
ars_add_ipopt(p, opt) ==
  LET head == CASE opt \in {"eol", "nop"} -> << >>
                [] opt = "sec" -> <<11>>
                [] opt = "sid" -> <<4>>
                [] opt \in {"lsrr", "ssrr", "rr"} -> <<40 - 2 - 3, 4>>
                [] opt = "ts" -> <<40 - 2 - 4, 5, 0>>
      size == CASE opt \in {"eol", "nop"} -> 1
                [] opt = "sec" -> 11
                [] opt = "sid" -> 4
                [] OTHER -> 40
  IN  ars_add_generic(p, "IPOPT", Put(Zero(size), 0, <<IPOPT[opt]>> \o head))

TCPOPT == [eol |-> 0, nop |-> 1, mss |-> 2, wscale |-> 3, sackperm |-> 4,
           sack |-> 5, echo |-> 6, echoreply |-> 7, ts |-> 8]

TcpoptSize == [eol |-> 1, nop |-> 1, mss |-> 4, wscale |-> 3, sackperm |-> 2,
               sack |-> 34, echo |-> 6, echoreply |-> 6, ts |-> 10]

ars_add_tcpopt(p, opt) ==
  LET size == TcpoptSize[opt]
      head == IF size = 1 THEN <<TCPOPT[opt]>> ELSE <<TCPOPT[opt], size>>
  IN  ars_add_generic(p, "TCPOPT", Put(Zero(size), 0, head))

\* The slot is emptied; p_layer_nr, the length of p, stays.
ars_remove_layer(p, i) == [p EXCEPT ![i] = NullLayer]

ars_set_flags(p, i, flags) == [p EXCEPT ![i].flags = flags]

-----------------------------------------------------------------------------
(* The Internet checksum over one buffer and over several, where a chunk   *)
(* of odd length lends its last byte to the next one.                      *)

WordSum(s) == Total([k \in 1 .. Len(s) \div 2 |-> Get16(s, 2 * k - 2)])

McInit == [odd |-> << >>, old |-> 0]

\* A bug: the last byte of an odd chunk is not lent to the next one.
McUpdate_Even(c, chunk) ==
  [odd |-> << >>,
   old |-> c.old + WordSum(chunk) + IF Len(chunk) % 2 = 1 THEN 256 * Last(chunk) ELSE 0]

McUpdate(c, chunk) ==
  LET s == c.odd \o chunk
  IN  [odd |-> IF Len(s) % 2 = 1 THEN <<Last(s)>> ELSE << >>, old |-> c.old + WordSum(s)]

\* A bug: the byte that is left over at the end is not summed.
McFinal_Even(c) ==
  LET folded == (c.old \div 65536) + (c.old % 65536)
  IN  65535 - ((folded + (folded \div 65536)) % 65536)

McFinal(c) ==
  LET sum == c.old + IF c.odd = << >> THEN 0 ELSE 256 * c.odd[1]
      folded == (sum \div 65536) + (sum % 65536)
  IN  65535 - ((folded + (folded \div 65536)) % 65536)

ars_cksum(s) == McFinal(McUpdate(McInit, s))

ars_multi_cksum(chunks) == McFinal(FoldLeft(McUpdate, McInit, chunks))

-----------------------------------------------------------------------------
(* The layer compilers.  A compiler fills the fields the user did not take *)
(* over (the ARS_TAKE flags) and fails when a TCP, UDP or ICMPv6          *)
(* checksum has no IP header to be computed with.                          *)

Ok(p) == [p |-> p, err |-> "OK"]
Invalid(p) == [p |-> p, err |-> "INVALID"]

Sets(p, i, data) == [p EXCEPT ![i].data = data]

IpProtocol(type) ==
  CASE type = "IP" -> 4 [] type = "ICMP" -> 1 [] type = "UDP" -> 17
    [] type = "TCP" -> 6 [] type = "IGRP" -> 9 [] OTHER -> 255

ars_compiler_ip(p, i) ==
  LET l == p[i]
      computed(f) == f \notin l.flags
      last == FirstNot(p, i + 1, "IPOPT")
      ver  == IF computed("VERSION") THEN 4 ELSE High(l.data[1])
      ihl  == IF computed("HDRLEN")
              THEN (5 + RunSize(p, i + 1, last - 1) \div 4) % 16
              ELSE Low(l.data[1])
      \* The search for the next protocol goes on from where the search for
      \* options ended, which is this layer when ihl was not computed.
      next == FirstNot(p, IF computed("HDRLEN") THEN last ELSE i, "IPOPT")
      d1 == Put(l.data, 0, <<16 * ver + ihl>>)
      d2 == IF computed("TOTLEN") THEN Put(d1, 2, Net(ars_relative_size(p, i), 2)) ELSE d1
      d3 == IF computed("PROTOCOL") THEN Put(d2, 9, <<IpProtocol(TypeAt(p, next))>>) ELSE d2
      zeroed == Put(d3, 10, <<0, 0>>)
      options == [k \in 1 .. last - i - 1 |-> Bytes(p[i + k])]
      check == ars_multi_cksum(<<SubSeq(zeroed, 1, 20)>> \o options)
  IN  Ok(Sets(p, i, IF computed("CKSUM") THEN Put(zeroed, 10, Net(check, 2)) ELSE d3))

\* The last option of a run is padded with NOPs to a multiple of 4 bytes.
PadOptions(p, i, type) ==
  LET first == Max({0} \cup {j \in 1 .. i - 1 : TypeAt(p, j) # type}) + 1
      rest  == RunSize(p, first, i) % 4
  IN  IF TypeAt(p, i + 1) = type \/ rest = 0
      THEN Ok(p)
      ELSE Ok([p EXCEPT ![i].data = Bytes(p[i]) \o [k \in 1 .. 4 - rest |-> 1],
                        ![i].size = @ + 4 - rest])

ars_compiler_ipopt(p, i)  == PadOptions(p, i, "IPOPT")
ars_compiler_tcpopt(p, i) == PadOptions(p, i, "TCPOPT")

\* The header that is summed in front of the layer, or none.
ars_ip6_pseudo(p, i, nexthdr) ==
  IF TypeAt(p, i - 1) = "IP6"
  THEN SubSeq(p[i - 1].data, 9, 40) \o Net(ars_relative_size(p, i), 4) \o <<0, 0, 0, nexthdr>>
  ELSE << >>

ars_udptcp_pseudo(p, i) ==
  LET j == Max({1} \cup {k \in 1 .. i - 1 : TypeAt(p, k) # "IPOPT"})
      proto == IF p[i].type = "TCP" THEN 6 ELSE 17
  IN  CASE i = 1 -> << >>
        [] i > 1 /\ TypeAt(p, j) = "IP6" -> ars_ip6_pseudo(p, i, proto)
        [] i > 1 /\ TypeAt(p, j) = "IP" ->
             SubSeq(p[j].data, 13, 20) \o <<0, proto>> \o Net(ars_relative_size(p, i), 2)
        [] OTHER -> << >>

\* Zero the checksum at off, sum the pseudo header and everything from the
\* layer on, and store the result: TCP, UDP and ICMPv6.
SumWithPseudo(p, i, off, pseudo) ==
  LET zeroed == Sets(p, i, Put(p[i].data, off, <<0, 0>>))
      sum == ars_multi_cksum(<<pseudo>> \o Chunks(zeroed, i))
  IN  IF pseudo = << >> THEN Invalid(zeroed)
      ELSE Ok(Sets(zeroed, i, Put(zeroed[i].data, off, Net(sum, 2))))

\* ICMP and IGRP sum no pseudo header.
SumAlone(p, i, off) ==
  LET zeroed == Sets(p, i, Put(p[i].data, off, <<0, 0>>))
  IN  Ok(Sets(p, i, Put(zeroed[i].data, off, Net(ars_multi_cksum(Chunks(zeroed, i)), 2))))

ars_compiler_ip6(p, i) ==
  LET l == p[i]
      d1 == IF "VERSION" \in l.flags THEN l.data ELSE Put(l.data, 0, <<96 + Low(l.data[1])>>)
      d2 == IF "PAYLOADLEN" \in l.flags THEN d1
            ELSE Put(d1, 4, Net(ars_relative_size(p, i + 1), 2))
      next == TypeAt(p, i + 1)
      nexthdr == CASE next = "IP6" -> 41 [] next = "IP" -> 4 [] next = "ICMP6" -> 58
                   [] next = "ICMP" -> 1 [] next = "UDP" -> 17 [] next = "TCP" -> 6
                   [] OTHER -> 59
  IN  Ok(Sets(p, i, IF "NEXTHDR" \in l.flags THEN d2 ELSE Put(d2, 6, <<nexthdr>>)))

ars_compiler_icmp6(p, i) ==
  IF "CKSUM" \in p[i].flags THEN Ok(p) ELSE SumWithPseudo(p, i, 2, ars_ip6_pseudo(p, i, 58))

ars_compiler_tcp(p, i) ==
  LET last == FirstNot(p, i + 1, "TCPOPT")
      off  == (5 + RunSize(p, i + 1, last - 1) \div 4) % 16
      q == IF "HDRLEN" \in p[i].flags THEN p
           ELSE Sets(p, i, Put(p[i].data, 12, <<16 * off + Low(p[i].data[13])>>))
  IN  IF "CKSUM" \in p[i].flags THEN Ok(q)
      ELSE SumWithPseudo(q, i, 16, ars_udptcp_pseudo(q, i))

ars_compiler_udp(p, i) ==
  LET q == IF "LEN" \in p[i].flags THEN p
           ELSE Sets(p, i, Put(p[i].data, 4, Net(ars_relative_size(p, i), 2)))
  IN  IF "CKSUM" \in p[i].flags THEN Ok(q)
      ELSE SumWithPseudo(q, i, 6, ars_udptcp_pseudo(q, i))

ars_compiler_icmp(p, i) ==
  IF "CKSUM" \in p[i].flags THEN Ok(p) ELSE SumAlone(p, i, 2)

ars_compiler_igrp(p, i) ==
  IF "CKSUM" \in p[i].flags THEN Ok(p) ELSE SumAlone(p, i, 10)

\* The compiler table: one layer of ars_compile()'s loop.  NULL, DATA and
\* IGRPENTRY have nothing to compile.
CompileLayer(p, i) ==
  LET t == p[i].type
  IN  CASE t = "IP" -> ars_compiler_ip(p, i)
        [] t = "IPOPT" -> ars_compiler_ipopt(p, i)
        [] t = "ICMP" -> ars_compiler_icmp(p, i)
        [] t = "UDP" -> ars_compiler_udp(p, i)
        [] t = "TCP" -> ars_compiler_tcp(p, i)
        [] t = "TCPOPT" -> ars_compiler_tcpopt(p, i)
        [] t = "IGRP" -> ars_compiler_igrp(p, i)
        [] t = "IP6" -> ars_compiler_ip6(p, i)
        [] t = "ICMP6" -> ars_compiler_icmp6(p, i)
        [] t \in {"NULL", "DATA", "IGRPENTRY"} -> Ok(p)

\* The bytes of the packet; a packet of size 0 cannot be built.
ars_build_packet(p) == FlattenSeq(Chunks(p, 1))
=============================================================================
