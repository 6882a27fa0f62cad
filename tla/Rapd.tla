--------------------------------- MODULE Rapd ---------------------------------
(***************************************************************************)
(* From a packet back to its description (src/src/rapd.c), as lexemes of   *)
(* Apd.  A field is the name and its value; layers are joined with a plus. *)
(* No default is ever installed in a packet, so every field that depends   *)
(* on one is written.                                                      *)
(***************************************************************************)
EXTENDS Apd

Field(f, v) == <<Word(f), <<"=">>, v>>

\* layer(f=v,f=v,...)+
Described(name, fields) ==
  LET joined == [k \in 1 .. Len(fields) |->
                   IF k = 1 THEN fields[k] ELSE <<<<",">>>> \o fields[k]]
  IN  <<Word(name), <<"(">>>> \o FlattenSeq(joined) \o <<<<")">>, <<"+">>>>

Byte8(l, off)  == Num(l.data[off + 1])
Word16(l, off) == Num(Get16(l.data, off))
At(l, off, n)  == SubSeq(l.data, off + 1, off + n)
Number(bytes)  == FoldLeft(LAMBDA n, b : 256 * n + b, 0, bytes)
Word32(l, off) == Num(Number(At(l, off, 4)))
Word24(l, off) == Num(Number(At(l, off, 3)))
Address(l, off, n) == <<"addr", At(l, off, n)>>
Bit(b, n) == (b \div n) % 2

\* A bug: the fragment offset is written in units of eight bytes.
FragOffset_Units(frag) == frag % 8192

\* The offset is kept in units of eight bytes and written in bytes.
FragOffset(frag) == 8 * (frag % 8192)

ars_rapd_ip(l) ==
  LET frag == Get16(l.data, 6)
  IN  Described("ip", <<
        Field("ihl", Num(Low(l.data[1]))), Field("ver", Num(High(l.data[1]))),
        Field("tos", Byte8(l, 1)), Field("totlen", Word16(l, 2)), Field("id", Word16(l, 4)),
        Field("fragoff", Num(FragOffset(frag))), Field("mf", Num(Bit(frag, 8192))),
        Field("df", Num(Bit(frag, 16384))), Field("rf", Num(Bit(frag, 32768))),
        Field("ttl", Byte8(l, 8)), Field("proto", Byte8(l, 9)), Field("cksum", Word16(l, 10)),
        Field("saddr", Address(l, 12, 4)), Field("daddr", Address(l, 16, 4))>>)

ars_rapd_ip6(l) ==
  Described("ip6", <<
    Field("ver", Num(High(l.data[1]))),
    Field("tclass", Num(16 * Low(l.data[1]) + High(l.data[2]))),
    Field("flow", Num(65536 * Low(l.data[2]) + Get16(l.data, 2))),
    Field("plen", Word16(l, 4)), Field("nh", Byte8(l, 6)), Field("hlim", Byte8(l, 7)),
    Field("saddr", Address(l, 8, 16)), Field("daddr", Address(l, 24, 16))>>)

ars_rapd_icmp6(l) ==
  Described("icmp6",
    <<Field("type", Byte8(l, 0)), Field("code", Byte8(l, 1)), Field("cksum", Word16(l, 2))>> \o
    IF l.data[1] \in {128, 129}
    THEN <<Field("id", Word16(l, 4)), Field("seq", Word16(l, 6))>>
    ELSE <<Field("unused", Word32(l, 4))>>)

\* The checksum is never written, and the second word of the header only for
\* some of the types.
ars_rapd_icmp(l) ==
  Described("icmp",
    <<Field("type", Byte8(l, 0)), Field("code", Byte8(l, 1))>> \o
    CASE l.data[1] \in {3, 4, 11, 12} -> <<Field("unused", Word32(l, 4))>>
      [] l.data[1] \in {0, 8, 13, 14, 15, 16} ->
           <<Field("id", Word16(l, 4)), Field("seq", Word16(l, 6))>>
      [] l.data[1] = 5 -> <<Field("gw", Address(l, 4, 4))>>
      [] OTHER -> << >>)

HexDigit(d) == IF d < 10 THEN 48 + d ELSE 87 + d
HexText(bytes) ==
  <<"text", FlattenSeq([k \in 1 .. Len(bytes) |-> <<HexDigit(High(bytes[k])), HexDigit(Low(bytes[k]))>>])>>

\* The entries of n bytes that lie wholly inside the option, from off on.
Entries(l, off, n, optlen) ==
  LET inside == {k \in 0 .. 9 : off + n * k < 37 /\ off + n * (k + 1) <= optlen}
  IN  [k \in 1 .. Cardinality(inside) |-> At(l, off + n * (k - 1), n)]

\* An option is never trusted beyond the bytes of its layer; what is missing
\* reads as 0.
Padded(l) == [l EXCEPT !.data = Put(Zero(Max({40, Len(@)})), 0, Bytes(l))]
OptLen(l) == IF l.size >= 2 THEN Min({l.data[2], l.size}) ELSE l.size

ars_rapd_ipopt(l) ==
  LET o == Padded(l)
      kind == o.data[1]
      name == CHOOSE n \in DOMAIN IPOPT : IPOPT[n] = kind
      flags == Low(o.data[4])
      long == flags \in {1, 3}
      addrs == Entries(o, 3, 4, OptLen(l))
      stamps == Entries(o, 4, IF long THEN 8 ELSE 4, OptLen(l))
      tsflags == CASE flags = 0 -> <<"sym", "tsonly">> [] flags = 1 -> <<"sym", "tsandaddr">>
                   [] flags = 3 -> <<"sym", "prespec">> [] OTHER -> Num(flags)
  IN  CASE kind = IPOPT.eol -> Described("ip.eol", << >>)
        [] kind = IPOPT.nop -> Described("ip.nop", << >>)
        [] kind \in {IPOPT.rr, IPOPT.lsrr, IPOPT.ssrr} ->
             Described(CHOOSE k \in DOMAIN IpoptKeywords : IpoptKeywords[k] = name,
               <<Field("ptr", Byte8(o, 2)),
                 Field("data", <<"list", [k \in 1 .. Len(addrs) |-> <<"addr", addrs[k]>>]>>)>>)
        [] kind = IPOPT.ts ->
             Described("ip.ts",
               <<Field("ptr", Byte8(o, 2)), Field("flags", tsflags),
                 Field("overflow", Num(High(o.data[4]))),
                 Field("data", <<"list", [k \in 1 .. Len(stamps) |->
                   IF long THEN <<"at", Number(SubSeq(stamps[k], 5, 8)), SubSeq(stamps[k], 1, 4)>>
                   ELSE <<"num", Number(stamps[k])>>]>>)>>)
        [] OTHER -> Described("ip.unknown", <<Field("hex", HexText(Bytes(l)))>>)

ars_rapd_udp(l) ==
  Described("udp", <<Field("sport", Word16(l, 0)), Field("dport", Word16(l, 2)),
                     Field("len", Word16(l, 4)), Field("cksum", Word16(l, 6))>>)

ars_rapd_tcp(l) ==
  Described("tcp", <<
    Field("sport", Word16(l, 0)), Field("dport", Word16(l, 2)),
    Field("seq", Word32(l, 4)), Field("ack", Word32(l, 8)),
    Field("x2", Num(Low(l.data[13]))), Field("off", Num(High(l.data[13]))),
    Field("flags", <<"flags", {b \in 0 .. 7 : Bit(l.data[14], 2 ^ b) = 1}>>),
    Field("win", Word16(l, 14)), Field("cksum", Word16(l, 16)), Field("urp", Word16(l, 18))>>)

\* An option is written with the fields of its kind; the length byte is not.
ars_rapd_tcpopt(l) ==
  LET o == Padded(l)
      blocks == Min({4, Max({0, OptLen(l) - 2}) \div 8})
      block(k) == <<"pair", Number(At(o, 8 * k - 6, 4)), Number(At(o, 8 * k - 2, 4))>>
      kind == o.data[1]
  IN  CASE kind = TCPOPT.eol -> Described("tcp.eol", << >>)
        [] kind = TCPOPT.nop -> Described("tcp.nop", << >>)
        [] kind = TCPOPT.mss -> Described("tcp.mss", <<Field("size", Word16(o, 2))>>)
        [] kind = TCPOPT.wscale -> Described("tcp.wscale", <<Field("shift", Byte8(o, 2))>>)
        [] kind = TCPOPT.sackperm -> Described("tcp.sackperm", << >>)
        [] kind = TCPOPT.sack ->
             Described("tcp.sack", <<Field("blocks", <<"list", [k \in 1 .. blocks |-> block(k)]>>)>>)
        [] kind = TCPOPT.echo -> Described("tcp.echo", <<Field("info", Word32(o, 2))>>)
        [] kind = TCPOPT.echoreply -> Described("tcp.echoreply", <<Field("info", Word32(o, 2))>>)
        [] kind = TCPOPT.ts ->
             Described("tcp.ts", <<Field("val", Word32(o, 2)), Field("ecr", Word32(o, 6))>>)
        [] OTHER -> Described("tcp.unknown", <<Field("hex", HexText(Bytes(l)))>>)

ars_rapd_igrp(l) ==
  LET opcode == Low(l.data[1])
  IN  Described("igrp", <<
        Field("version", Num(High(l.data[1]))),
        Field("opcode", CASE opcode = 1 -> <<"sym", "update">> [] opcode = 2 -> <<"sym", "request">>
                          [] OTHER -> Num(opcode)),
        Field("edition", Byte8(l, 1)), Field("autosys", Word16(l, 2)),
        Field("interior", Word16(l, 4)), Field("system", Word16(l, 6)),
        Field("exterior", Word16(l, 8)), Field("cksum", Word16(l, 10))>>)

ars_rapd_igrpentry(l) ==
  Described("igrp.entry", <<
    Field("dest", Address(l, 0, 3)), Field("delay", Word24(l, 3)),
    Field("bandwidth", Word24(l, 6)), Field("mtu", Word16(l, 9)),
    Field("reliability", Byte8(l, 11)), Field("load", Byte8(l, 12)),
    Field("hopcount", Byte8(l, 13))>>)

\* As text, a byte that is not printable or has a meaning in a description
\* is escaped; the backslash itself is printable and is not.
Escaped(b) ==
  IF b \in 33 .. 126 \ {40, 41, 43, 44, 61} THEN <<b>>
  ELSE <<92, HexDigit(High(b)), HexDigit(Low(b))>>

ars_rapd_data(l, hexdata) ==
  Described("data",
    <<IF hexdata THEN Field("hex", HexText(Bytes(l)))
      ELSE Field("str", <<"text", FlattenSeq([k \in 1 .. l.size |-> Escaped(l.data[k])])>>)>>)

li_rapd(l, hexdata) ==
  CASE l.type = "IP" -> ars_rapd_ip(l)         [] l.type = "IPOPT" -> ars_rapd_ipopt(l)
    [] l.type = "ICMP" -> ars_rapd_icmp(l)     [] l.type = "UDP" -> ars_rapd_udp(l)
    [] l.type = "TCP" -> ars_rapd_tcp(l)       [] l.type = "TCPOPT" -> ars_rapd_tcpopt(l)
    [] l.type = "IGRP" -> ars_rapd_igrp(l)     [] l.type = "IGRPENTRY" -> ars_rapd_igrpentry(l)
    [] l.type = "IP6" -> ars_rapd_ip6(l)       [] l.type = "ICMP6" -> ars_rapd_icmp6(l)
    [] l.type = "DATA" -> ars_rapd_data(l, hexdata)
    [] l.type = "NULL" -> << >>

\* The layers one after the other, without the last plus.
ars_d_from_ars(p, hexdata) ==
  Front(FlattenSeq([k \in 1 .. Len(p) |-> li_rapd(p[k], hexdata)]))
=============================================================================
