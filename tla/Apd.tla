--------------------------------- MODULE Apd ---------------------------------
(***************************************************************************)
(* The packet description language (src/src/apd.c): the tokenizer, the     *)
(* keyword table, the field setters of every layer and the finite state    *)
(* machine of ars_d_build().                                               *)
(*                                                                         *)
(* A description is a sequence of lexemes: delimiters <<"(">>, names       *)
(* <<"word", n>> and values <<kind, v>>, where v is a number ("num"), an   *)
(* address as bytes ("addr"), a name ("sym"), a set of TCP flag bits       *)
(* ("flags"), the pieces of a list ("list") or character codes ("text").   *)
(***************************************************************************)
EXTENDS Layers

Delimiters == {<<"(">>, <<")">>, <<",">>, <<"=">>, <<"+">>}
Word(n) == <<"word", n>>
Num(n)  == <<"num", n>>

\* What the fields make of the characters: a number is unsigned, addresses,
\* texts and files are bytes, a list is cut into pieces that are numbers,
\* addresses, stamps n@address or pairs of numbers.
Piece(x) ==
  /\ x[1] \in {"num", "at", "pair"} => x[2] \in Nat
  /\ x[1] \in {"addr", "text", "file"} => x[2] \in Seq(Byte)
  /\ x[1] = "at" => x[3] \in Seq(Byte)
  /\ x[1] = "pair" => x[3] \in Nat

Lexeme(x) ==
  /\ Piece(x)
  /\ x[1] = "list" => x[2] \in Seq(ToSet(x[2])) /\ \A y \in ToSet(x[2]) : Piece(y)

IsText(t) == t \in Seq(ToSet(t)) /\ \A x \in ToSet(t) : Lexeme(x)

\* A lexeme of which nothing is written: no flag letter, no list piece, no
\* character.
Empty(x) ==
  \/ x[1] = "flags" /\ x[2] = {}
  \/ x[1] \in {"list", "text"} /\ x[2] = << >>

\* ars_d_parser(): the next token and what follows it, or nothing.  Between
\* two delimiters there is a token only if something is written there.
ars_d_parser(text) ==
  LET written == {k \in 1 .. Len(text) : ~ Empty(text[k])}
  IN  IF written = {} THEN << >>
      ELSE <<text[Min(written)], SubSeq(text, Min(written) + 1, Len(text))>>

-----------------------------------------------------------------------------
(* Values.                                                                 *)

\* strtoul() of anything but a number is 0.
atou(v) == IF v[1] = "num" THEN v[2] ELSE 0

\* The character codes of a value; a delimiter that was taken for a value is
\* the character itself.
Chars(v) ==
  CASE v[1] = "text" -> v[2]
    [] v = <<"(">> -> <<40>> [] v = <<")">> -> <<41>> [] v = <<"+">> -> <<43>>
    [] v = <<",">> -> <<44>> [] v = <<"=">> -> <<61>>
    [] OTHER -> << >>

hexval(c) ==
  CASE c \in 48 .. 57 -> c - 48 [] c \in 97 .. 102 -> c - 87 [] c \in 65 .. 70 -> c - 55
    [] OTHER -> -1

\* An error is the null layer: no setter returns it otherwise.
Bad == NullLayer

Store(l, off, bytes) == [l EXCEPT !.data = Put(@, off, bytes)]
Num8(l, off, v)  == Store(l, off, Net(atou(v), 1))
Num16(l, off, v) == Store(l, off, Net(atou(v), 2))
Num24(l, off, v) == Store(l, off, Net(atou(v), 3))
Num32(l, off, v) == Store(l, off, Net(atou(v), 4))
HighNibble(l, off, v) == Store(l, off, <<16 * (atou(v) % 16) + Low(l.data[off + 1])>>)
LowNibble(l, off, v)  == Store(l, off, <<16 * High(l.data[off + 1]) + (atou(v) % 16)>>)
Take(l, f) == IF l = Bad THEN Bad ELSE [l EXCEPT !.flags = @ \cup {f}]

\* ars_resolve() and ars_resolve6() of what is not an address fail.
Addr(l, off, v) == IF v[1] = "addr" THEN Store(l, off, v[2]) ELSE Bad

\* One of the flags RF, DF and MF, the top bits of frag_off.
FragBit(l, bit, v) ==
  LET b == l.data[7]
      on == (b \div bit) % 2
      want == IF atou(v) = 0 THEN 0 ELSE 1
  IN  Store(l, 6, <<b + bit * (want - on)>>)

\* new | (old & 0xE0): the three top bits that new lacks are added.
KeepTop(old, new) ==
  LET kept(bit) == IF (old \div bit) % 2 = 1 /\ (new \div bit) % 2 = 0 THEN bit ELSE 0
  IN  new + kept(32) + kept(64) + kept(128)

\* fragoff masks frag_off, which is in network order, with 0xE000 of the
\* host: the top bits of its second byte are kept, the first byte is lost.
FragOff(l, v) ==
  LET n == (atou(v) \div 8) % 65536
  IN  Store(l, 6, <<n \div 256, KeepTop(l.data[8], n % 256)>>)

-----------------------------------------------------------------------------
(* The setters: the layer with field f set to the value v, or Bad.         *)

ars_d_set_ip(l, f, v) ==
  CASE f = "saddr"   -> Addr(l, 12, v)
    [] f = "daddr"   -> Addr(l, 16, v)
    [] f = "ihl"     -> Take(LowNibble(l, 0, v), "HDRLEN")
    [] f = "ver"     -> Take(HighNibble(l, 0, v), "VERSION")
    [] f = "tos"     -> Num8(l, 1, v)
    [] f = "totlen"  -> Take(Num16(l, 2, v), "TOTLEN")
    [] f = "id"      -> Num16(l, 4, v)
    [] f = "fragoff" -> FragOff(l, v)
    [] f = "mf"      -> FragBit(l, 32, v)
    [] f = "df"      -> FragBit(l, 64, v)
    [] f = "rf"      -> FragBit(l, 128, v)
    [] f = "ttl"     -> Num8(l, 8, v)
    [] f = "proto"   ->
         LET n == IF v[1] = "sym" /\ v[2] \in {"icmp", "udp", "tcp"}
                  THEN [icmp |-> 1, udp |-> 17, tcp |-> 6][v[2]] ELSE atou(v)
         IN  Take(Num8(l, 9, Num(n)), "PROTOCOL")
    [] f = "cksum"   -> Take(Num16(l, 10, v), "CKSUM")
    [] OTHER         -> Bad

\* strftok(): at most max pieces of a list.
Pieces(v, max) == IF v[1] = "list" THEN SubSeq(v[2], 1, Min({max, Len(v[2])})) ELSE << >>

\* Write the pieces one after the other, rendered by Data, from off on.
StoreAll(l, off, pieces, Data(_)) ==
  Store(l, off, FlattenSeq([k \in 1 .. Len(pieces) |-> Data(pieces[k])]))

SetPtr(l, n) == IF "PTR" \in l.flags THEN l ELSE Store(l, 2, <<n % 256>>)

ars_d_set_ipopt_rr(l, f, v) ==
  LET addrs == Pieces(v, 9)
      isRr == l.data[1] = IPOPT.rr
  IN  CASE f = "optlen" -> Num8(l, 1, v)
        [] f = "ptr"    -> Take(Num8(l, 2, v), "PTR")
        [] f = "data"   ->
             IF v[1] # "list" \/ \E k \in 1 .. Len(addrs) : addrs[k][1] # "addr"
             THEN Bad
             ELSE SetPtr(StoreAll(l, 3, addrs, LAMBDA a : a[2]),
                         IF isRr THEN 4 + 4 * Len(addrs) ELSE 4)
        [] OTHER -> Bad

\* Entries are time stamps (4 bytes) or address and time stamp (8 bytes), as
\* the flags nibble says at that moment; only 4 of the long ones fit.
ars_d_set_ipopt_ts(l, f, v) ==
  LET flags == Low(l.data[4])
      long == flags \in {1, 3}
      entries == Pieces(v, 9)
      has(k) == entries[k][1] = "at"
      wrong == \E k \in 1 .. Len(entries) : (flags = 0 /\ has(k)) \/ (long /\ ~ has(k))
      fit == SubSeq(entries, 1, Min({Len(entries), IF entries # << >> /\ has(1) THEN 4 ELSE 9}))
  IN  CASE f = "optlen" -> Num8(l, 1, v)
        [] f = "ptr"    -> Take(Num8(l, 2, v), "PTR")
        [] f = "flags"  ->
             CASE v[1] = "num" -> LowNibble(l, 3, v)
               [] v[1] = "sym" /\ v[2] \in {"tsonly", "tsandaddr", "prespec"} ->
                    LowNibble(l, 3, Num([tsonly |-> 0, tsandaddr |-> 1, prespec |-> 3][v[2]]))
               [] OTHER -> Bad
        [] f = "overflow" -> HighNibble(l, 3, v)
        [] f = "data"   ->
             IF v[1] # "list" \/ wrong THEN Bad
             ELSE SetPtr(StoreAll(l, 4, fit, LAMBDA e :
                           IF e[1] = "at" THEN e[3] \o Net(e[2], 4) ELSE Net(atou(e), 4)),
                         5 + Len(entries) * IF long THEN 8 ELSE 4)
        [] OTHER -> Bad

\* Stream id, security level and compartment are stored in host order (the
\* builds are little endian).
ars_d_set_ipopt_sid(l, f, v) ==
  CASE f = "optlen" -> Num8(l, 1, v)
    [] f = "sid"    -> Store(l, 2, Reverse(Net(atou(v), 2)))
    [] OTHER        -> Bad

\* hrest and tcc are hexadecimal digits, exactly 4 and 6 of them.
HexBytes(c) == [k \in 1 .. Len(c) \div 2 |-> 16 * hexval(c[2 * k - 1]) + hexval(c[2 * k])]
IsHex(c) == \A k \in 1 .. Len(c) : hexval(c[k]) >= 0

ars_d_set_ipopt_sec(l, f, v) ==
  LET c == Chars(v)
  IN  CASE f = "optlen" -> Num8(l, 1, v)
        [] f = "seclev" -> Store(l, 2, Reverse(Net(atou(v), 2)))
        [] f = "comp"   -> Store(l, 4, Reverse(Net(atou(v), 2)))
        [] f = "hrest"  -> IF Len(c) = 4 /\ IsHex(c) THEN Store(l, 6, HexBytes(c)) ELSE Bad
        [] f = "tcc"    -> IF Len(c) = 6 /\ IsHex(c) THEN Store(l, 8, HexBytes(c)) ELSE Bad
        [] OTHER        -> Bad

ars_d_set_ipopt_dumb(l, f, v) == IF f = "optlen" THEN Num8(l, 1, v) ELSE Bad

ars_d_set_udp(l, f, v) ==
  CASE f = "sport" -> Num16(l, 0, v)
    [] f = "dport" -> Num16(l, 2, v)
    [] f = "len"   -> Take(Num16(l, 4, v), "LEN")
    [] f = "cksum" -> Take(Num16(l, 6, v), "CKSUM")
    [] OTHER       -> Bad

FlagByte(v) ==
  LET bit(k, value) == IF v[1] = "flags" /\ k \in v[2] THEN value ELSE 0
  IN  bit(0, 1) + bit(1, 2) + bit(2, 4) + bit(3, 8) + bit(4, 16) + bit(5, 32) + bit(6, 64) + bit(7, 128)

ars_d_set_tcp(l, f, v) ==
  CASE f = "sport" -> Num16(l, 0, v)
    [] f = "dport" -> Num16(l, 2, v)
    [] f = "seq"   -> Num32(l, 4, v)
    [] f = "ack"   -> Num32(l, 8, v)
    [] f = "x2"    -> LowNibble(l, 12, v)
    [] f = "off"   -> Take(HighNibble(l, 12, v), "HDRLEN")
    [] f = "flags" -> Store(l, 13, <<FlagByte(v)>>)
    [] f = "win"   -> Num16(l, 14, v)
    [] f = "cksum" -> Take(Num16(l, 16, v), "CKSUM")
    [] f = "urp"   -> Num16(l, 18, v)
    [] OTHER       -> Bad

ars_d_set_tcpopt_mss(l, f, v) ==
  CASE f = "optlen" -> Num8(l, 1, v) [] f = "size" -> Num16(l, 2, v) [] OTHER -> Bad

ars_d_set_tcpopt_wscale(l, f, v) ==
  CASE f = "optlen" -> Num8(l, 1, v) [] f = "shift" -> Num8(l, 2, v) [] OTHER -> Bad

ars_d_set_tcpopt_sack(l, f, v) ==
  LET blocks == Pieces(v, 4)
  IN  CASE f = "optlen" -> Num8(l, 1, v)
        [] f = "blocks" ->
             IF v[1] # "list" \/ \E k \in 1 .. Len(blocks) : blocks[k][1] # "pair" THEN Bad
             ELSE StoreAll(l, 2, blocks, LAMBDA b : Net(b[2], 4) \o Net(b[3], 4))
        [] OTHER -> Bad

ars_d_set_tcpopt_dumb(l, f, v) == IF f = "optlen" THEN Num8(l, 1, v) ELSE Bad

ars_d_set_tcpopt_echo(l, f, v) ==
  CASE f = "optlen" -> Num8(l, 1, v) [] f = "info" -> Num32(l, 2, v) [] OTHER -> Bad

ars_d_set_tcpopt_ts(l, f, v) ==
  CASE f = "optlen" -> Num8(l, 1, v)
    [] f \in {"val", "tsval"} -> Num32(l, 2, v)
    [] f \in {"ecr", "tsecr"} -> Num32(l, 6, v)
    [] OTHER -> Bad

ars_d_set_icmp(l, f, v) ==
  CASE f = "type"   -> Num8(l, 0, v)
    [] f = "code"   -> Num8(l, 1, v)
    [] f = "cksum"  -> Take(Num16(l, 2, v), "CKSUM")
    [] f = "id"     -> Num16(l, 4, v)
    [] f = "seq"    -> Num16(l, 6, v)
    [] f = "gw"     -> Addr(l, 4, v)
    [] f = "unused" -> Num32(l, 4, v)
    [] OTHER        -> Bad

ars_d_set_icmp6(l, f, v) ==
  CASE f = "type"   -> Num8(l, 0, v)
    [] f = "code"   -> Num8(l, 1, v)
    [] f = "cksum"  -> Take(Num16(l, 2, v), "CKSUM")
    [] f = "id"     -> Num16(l, 4, v)
    [] f = "seq"    -> Num16(l, 6, v)
    [] f = "unused" -> Num32(l, 4, v)
    [] OTHER        -> Bad

\* Version (4 bits), traffic class (8) and flow label (20) share a word.
ars_d_set_ip6(l, f, v) ==
  LET n == atou(v)
      names == [icmp6 |-> 58, icmpv6 |-> 58, udp |-> 17, tcp |-> 6, none |-> 59]
  IN  CASE f = "saddr"  -> Addr(l, 8, v)
        [] f = "daddr"  -> Addr(l, 24, v)
        [] f = "ver"    -> Take(HighNibble(l, 0, v), "VERSION")
        [] f = "tclass" -> HighNibble(LowNibble(l, 0, Num(n \div 16)), 1, v)
        [] f = "flow"   -> Num16(LowNibble(l, 1, Num(n \div 65536)), 2, v)
        [] f = "plen"   -> Take(Num16(l, 4, v), "PAYLOADLEN")
        [] f \in {"nh", "nexthdr"} ->
             Take(Num8(l, 6, Num(IF v[1] = "sym" /\ v[2] \in DOMAIN names
                                 THEN names[v[2]] ELSE n)), "NEXTHDR")
        [] f \in {"hlim", "hoplimit"} -> Num8(l, 7, v)
        [] OTHER -> Bad

ars_d_set_igrp(l, f, v) ==
  CASE f = "version"  -> HighNibble(l, 0, v)
    [] f = "opcode"   ->
         LowNibble(l, 0, IF v[1] = "sym" /\ v[2] \in {"update", "request"}
                         THEN Num([update |-> 1, request |-> 2][v[2]]) ELSE v)
    [] f = "edition"  -> Num8(l, 1, v)
    [] f = "autosys"  -> Num16(l, 2, v)
    [] f = "interior" -> Num16(l, 4, v)
    [] f = "system"   -> Num16(l, 6, v)
    [] f = "exterior" -> Num16(l, 8, v)
    [] f = "cksum"    -> Take(Num16(l, 10, v), "CKSUM")
    [] OTHER          -> Bad

\* A destination is three numbers, the bytes of a dotted triple.
igrp_set_dest(l, v) ==
  IF v[1] = "addr" /\ Len(v[2]) = 3 THEN Store(l, 0, v[2]) ELSE Bad

ars_d_set_igrpentry(l, f, v) ==
  CASE f = "dest"        -> igrp_set_dest(l, v)
    [] f = "delay"       -> Num24(l, 3, v)
    [] f = "bandwidth"   -> Num24(l, 6, v)
    [] f = "mtu"         -> Num16(l, 9, v)
    [] f = "reliability" -> Num8(l, 11, v)
    [] f = "load"        -> Num8(l, 12, v)
    [] f = "hopcount"    -> Num8(l, 13, v)
    [] OTHER             -> Bad

\* Data fields append to the layer.
ars_push_data(l, bytes) ==
  [l EXCEPT !.data = Bytes(l) \o bytes, !.size = @ + Len(bytes)]

\* A backslash and two hex digits are one byte; anything else is itself.
ars_decode_string(c) ==
  LET dec[k \in 1 .. Len(c) + 1] ==
        CASE k > Len(c) -> << >>
          [] k <= Len(c) /\ c[k] = 92 /\ k + 2 <= Len(c)
               /\ IsHex(SubSeq(c, k + 1, k + 2)) ->
               HexBytes(SubSeq(c, k + 1, k + 2)) \o dec[k + 3]
          [] OTHER -> <<c[k]>> \o dec[k + 1]
  IN  dec[1]

\* A file is the bytes that can be read from it, at most 4096.
ars_d_set_data(l, f, v) ==
  CASE f = "file"   -> IF v[1] = "file" THEN ars_push_data(l, SubSeq(v[2], 1, Min({4096, Len(v[2])})))
                       ELSE Bad
    [] f = "str"    -> ars_push_data(l, ars_decode_string(Chars(v)))
    [] f = "hex"    -> IF Len(Chars(v)) % 2 = 0 /\ IsHex(Chars(v))
                       THEN ars_push_data(l, HexBytes(Chars(v))) ELSE Bad
    [] f = "uint32" -> ars_push_data(l, Net(atou(v), 4))
    [] f = "uint24" -> ars_push_data(l, Net(atou(v), 3))
    [] f = "uint16" -> ars_push_data(l, Net(atou(v), 2))
    [] f = "uint8"  -> ars_push_data(l, Net(atou(v), 1))
    [] OTHER        -> Bad

-----------------------------------------------------------------------------
(* The keyword table and the state machine of ars_d_build().               *)

IpoptKeywords ==
  [k \in {"ip.eol", "ip.nop", "ip.sec", "ip.sid", "ip.lsrr", "ip.ssrr", "ip.rr", "ip.ts"} |->
     CASE k = "ip.eol"  -> "eol"  [] k = "ip.nop"  -> "nop"  [] k = "ip.sec" -> "sec"
       [] k = "ip.sid"  -> "sid"  [] k = "ip.lsrr" -> "lsrr" [] k = "ip.ssrr" -> "ssrr"
       [] k = "ip.rr"   -> "rr"   [] k = "ip.ts"   -> "ts"]

TcpoptKeywords ==
  [k \in {"tcp.eol", "tcp.nop", "tcp.mss", "tcp.wscale", "tcp.sackperm", "tcp.sack", "tcp.echo",
          "tcp.echoreq", "tcp.echoreply", "tcp.ts", "tcp.timestamp"} |->
     CASE k = "tcp.eol"  -> "eol"  [] k = "tcp.nop"    -> "nop"    [] k = "tcp.mss" -> "mss"
       [] k = "tcp.sack" -> "sack" [] k = "tcp.wscale" -> "wscale" [] k = "tcp.sackperm" -> "sackperm"
       [] k \in {"tcp.echo", "tcp.echoreq"} -> "echo" [] k = "tcp.echoreply" -> "echoreply"
       [] k \in {"tcp.ts", "tcp.timestamp"} -> "ts"]

Headers == {"ip", "udp", "tcp", "icmp", "ip6", "icmp6", "igrp", "igrp.entry", "data"}

Keywords == Headers \cup DOMAIN IpoptKeywords \cup DOMAIN TcpoptKeywords

ki_add(k, p) ==
  CASE k \in DOMAIN IpoptKeywords  -> ars_add_ipopt(p, IpoptKeywords[k])
    [] k \in DOMAIN TcpoptKeywords -> ars_add_tcpopt(p, TcpoptKeywords[k])
    [] k = "ip"    -> ars_add_iphdr(p)    [] k = "udp"        -> ars_add_udphdr(p)
    [] k = "tcp"   -> ars_add_tcphdr(p)   [] k = "icmp"       -> ars_add_icmphdr(p)
    [] k = "ip6"   -> ars_add_ip6hdr(p)   [] k = "icmp6"      -> ars_add_icmp6hdr(p)
    [] k = "igrp"  -> ars_add_igrphdr(p)  [] k = "igrp.entry" -> ars_add_igrpentry(p)
    [] k = "data"  -> ars_add_data(p)

ki_set(k, l, f, v) ==
  CASE k = "ip"    -> ars_d_set_ip(l, f, v)    [] k = "udp"  -> ars_d_set_udp(l, f, v)
    [] k = "tcp"   -> ars_d_set_tcp(l, f, v)   [] k = "icmp" -> ars_d_set_icmp(l, f, v)
    [] k = "ip6"   -> ars_d_set_ip6(l, f, v)   [] k = "icmp6" -> ars_d_set_icmp6(l, f, v)
    [] k = "igrp"  -> ars_d_set_igrp(l, f, v)
    [] k = "igrp.entry" -> ars_d_set_igrpentry(l, f, v)
    [] k = "data"  -> ars_d_set_data(l, f, v)
    [] k \in {"ip.eol", "ip.nop"} -> ars_d_set_ipopt_dumb(l, f, v)
    [] k \in {"ip.lsrr", "ip.ssrr", "ip.rr"} -> ars_d_set_ipopt_rr(l, f, v)
    [] k = "ip.ts" -> ars_d_set_ipopt_ts(l, f, v)
    [] k = "ip.sid" -> ars_d_set_ipopt_sid(l, f, v)
    [] k = "ip.sec" -> ars_d_set_ipopt_sec(l, f, v)
    [] k \in {"tcp.eol", "tcp.nop", "tcp.sackperm"} -> ars_d_set_tcpopt_dumb(l, f, v)
    [] k = "tcp.mss" -> ars_d_set_tcpopt_mss(l, f, v)
    [] k = "tcp.wscale" -> ars_d_set_tcpopt_wscale(l, f, v)
    [] k = "tcp.sack" -> ars_d_set_tcpopt_sack(l, f, v)
    [] k \in {"tcp.echo", "tcp.echoreq", "tcp.echoreply"} -> ars_d_set_tcpopt_echo(l, f, v)
    [] k \in {"tcp.ts", "tcp.timestamp"} -> ars_d_set_tcpopt_ts(l, f, v)

\* A bug: the length of a layer is not compared with its size.
ars_d_setlayer_size_Longer(p, v) ==
  IF atou(v) > 0 THEN [p EXCEPT ![Len(p)].size = atou(v)] ELSE << >>

\* The length after a layer truncates it; anything else there is an error.
ars_d_setlayer_size(p, v) ==
  IF atou(v) \in 1 .. Last(p).size
  THEN [p EXCEPT ![Len(p)].size = atou(v)]
  ELSE << >>

\* The parser b: what is left to read, the state, the keyword and the field
\* being set, the packet and the error.
BuildInit(text) ==
  [text |-> text, state |-> "LAYER", kw |-> "", field |-> "", p |-> << >>, err |-> "OK"]

Fail(b) == [b EXCEPT !.err = "INVALID"]

OnLayer(b, tok) ==
  IF tok[1] # "word" \/ Len(tok) # 2 \/ ars_nospace(b.p) THEN Fail(b)
  ELSE IF tok[2] \notin Keywords THEN Fail(b)
       ELSE [b EXCEPT !.kw = tok[2], !.p = ki_add(tok[2], b.p), !.state = "OBRACE_OR_PLUS"]

OnValue(b, tok) ==
  LET l == ki_set(b.kw, Last(b.p), b.field, tok)
  IN  IF l = Bad THEN Fail(b)
      ELSE [b EXCEPT !.p = ReplaceAt(@, Len(@), l), !.state = "COMMA_OR_CBRACE"]

OnLength(b, tok) ==
  LET p == ars_d_setlayer_size(b.p, tok)
  IN  IF p = << >> THEN Fail(b) ELSE [b EXCEPT !.p = p, !.state = "PLUS"]

Expect(b, tok, d, next) == IF tok = d THEN [b EXCEPT !.state = next] ELSE Fail(b)

ars_d_build(b) ==
  LET read == ars_d_parser(b.text)
      tok == read[1]
      c == [b EXCEPT !.text = read[2]]
  IN  CASE b.state = "LAYER" -> OnLayer(c, tok)
        [] b.state = "OBRACE_OR_PLUS" ->
             IF tok = <<"+">> THEN [c EXCEPT !.state = "LAYER"]
             ELSE Expect(c, tok, <<"(">>, "FIELD_OR_CBRACE")
        [] b.state = "FIELD_OR_CBRACE" ->
             IF tok = <<")">> THEN [c EXCEPT !.state = "LEN_OR_PLUS"]
             ELSE [c EXCEPT !.field = Last(tok), !.state = "EQUAL"]
        [] b.state = "EQUAL" -> Expect(c, tok, <<"=">>, "VALUE")
        [] b.state = "VALUE" -> OnValue(c, tok)
        [] b.state = "COMMA_OR_CBRACE" ->
             IF tok = <<",">> THEN [c EXCEPT !.state = "FIELD_OR_CBRACE"]
             ELSE Expect(c, tok, <<")">>, "LEN_OR_PLUS")
        [] b.state = "LEN_OR_PLUS" ->
             IF tok = <<"+">> THEN [c EXCEPT !.state = "LAYER"] ELSE OnLength(c, tok)
        [] b.state = "PLUS" -> Expect(c, tok, <<"+">>, "LAYER")

\* The description is read: an error if it stops in the middle of a layer.
BuildEnd(b) ==
  IF b.state \in {"LEN_OR_PLUS", "PLUS", "OBRACE_OR_PLUS"} THEN b ELSE Fail(b)
=============================================================================
