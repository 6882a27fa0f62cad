-------------------------------- MODULE Split --------------------------------
(***************************************************************************)
(* The dissector (src/src/split.c): a finite state machine that takes the  *)
(* bytes of a capture apart into ARS layers.  Every state has a handler;   *)
(* a handler here is an operator on the packet read so far and the bytes   *)
(* s that are left, and returns the packet with the new layer, the number  *)
(* of bytes it consumed and the next state.  Two words travel between      *)
(* handlers: aux, the option bytes left, and proto, the protocol that      *)
(* follows the IP options.                                                 *)
(***************************************************************************)
EXTENDS Layers

FTRUNC == "TRUNC"
FBADCKSUM == "BADCKSUM"

Step(p, len, state, aux, proto) ==
  [p |-> p, len |-> len, state |-> state, aux |-> aux, proto |-> proto, err |-> "OK"]

\* A handler that cannot add its layer gives up, and so does the dissector.
Nospace(p, err) ==
  [p |-> p, len |-> 0, state |-> "DONE", aux |-> 0, proto |-> 0, err |-> err]

\* q is p with a fresh header: the first len bytes of s are copied over it.
Received(q, s, len, flags) ==
  [q EXCEPT ![Len(q)].data = Put(@, 0, SubSeq(s, 1, len)), ![Len(q)].flags = flags]

-----------------------------------------------------------------------------
(* Where the IP header is.                                                 *)

ars_check_ip_cksum(s) ==
  LET n == 4 * Low(s[1])
      hdr == SubSeq(s, 1, n)
  IN  n >= 20 /\ ars_cksum(Put(hdr, 10, <<0, 0>>)) = Get16(hdr, 10)

ars_seems_ip(s) ==
  /\ Len(s) >= 20
  /\ High(s[1]) = 4 /\ Low(s[1]) >= 5
  /\ 4 * Low(s[1]) <= Len(s)
  /\ ars_check_ip_cksum(s)

\* The first offset that looks like an IP header, or -1.
ars_guess_ipoff(w) ==
  LET hits == {k \in 0 .. Len(w) - 20 : ars_seems_ip(SubSeq(w, k + 1, Len(w)))}
  IN  IF hits = {} THEN -1 ELSE Min(hits)

\* What the first byte says: version 6 or anything else.
FirstState(s) == IF Len(s) >= 1 /\ High(s[1]) = 6 THEN "GET_IP6" ELSE "GET_IP"

-----------------------------------------------------------------------------
(* The handlers.                                                           *)

ars_ip_next_state(proto) ==
  CASE proto = 4  -> "GET_IP"  [] proto = 1  -> "GET_ICMP" [] proto = 6 -> "GET_TCP"
    [] proto = 17 -> "GET_UDP" [] proto = 9  -> "GET_IGRP" [] OTHER -> "GET_DATA"

ars_ip6_is_extension(nexthdr) == nexthdr \in {0, 43, 44, 50, 51, 60, 135}

ars_ip6_next_state(nexthdr) ==
  CASE ars_ip6_is_extension(nexthdr) -> "GET_DATA"
    [] nexthdr = 58 -> "GET_ICMP6" [] nexthdr = 6  -> "GET_TCP" [] nexthdr = 17 -> "GET_UDP"
    [] nexthdr = 1  -> "GET_ICMP"  [] nexthdr = 41 -> "GET_IP6" [] nexthdr = 4  -> "GET_IP"
    [] OTHER -> "GET_DATA"

ars_split_ip(p, s, aux, proto) ==
  LET n == Len(s)
      ihl == Low(s[1])
      flags == CASE n < 20 -> {FTRUNC}
                 [] n >= 20 /\ ihl < 5 -> {FTRUNC, FBADCKSUM}
                 [] n >= 20 /\ ihl >= 5 /\ n < 4 * ihl -> {FTRUNC}
                 [] OTHER -> IF ars_check_ip_cksum(s) THEN {} ELSE {FBADCKSUM}
      len == Min({n, 20})
      q == Received(ars_add_iphdr(p), s, len, flags)
  IN  CASE ars_nospace(p) -> Nospace(p, "NOMEM")
        [] ~ ars_nospace(p) /\ FTRUNC \in flags -> Step(q, len, "GET_DATA", aux, proto)
        [] ~ ars_nospace(p) /\ FTRUNC \notin flags /\ ihl > 5 ->
             Step(q, len, "GET_IPOPT", 4 * (ihl - 5), s[10])
        [] OTHER -> Step(q, len, ars_ip_next_state(s[10]), aux, proto)

ars_split_ip6(p, s, aux, proto) ==
  LET len == Min({Len(s), 40})
      flags == IF Len(s) < 40 THEN {FTRUNC} ELSE {}
      q == Received(ars_add_ip6hdr(p), s, len, flags)
  IN  IF ars_nospace(p) THEN Nospace(p, "NOMEM")
      ELSE Step(q, len, IF flags # {} THEN "GET_DATA" ELSE ars_ip6_next_state(s[7]),
                aux, proto)

\* A bug: the length byte of an option is believed even when it is 0.
OptionSize_Zero(s) ==
  Min({Len(s), IF s[1] \in {0, 1} \/ Len(s) < 2 THEN 1 ELSE s[2]})

\* The length of the option at the head of s: one byte for eol and nop and
\* for an option without a length byte, never 0, never more than is left.
OptionSize(s) ==
  Min({Len(s), IF s[1] \in {0, 1} \/ Len(s) < 2 THEN 1 ELSE Max({1, s[2]})})

OptionFlags(s) ==
  IF s[1] \notin {0, 1} /\ (Len(s) < 2 \/ s[2] > Len(s)) THEN {FTRUNC} ELSE {}

\* An option layer has the size of the option: no header is preset.
AddOption(p, type, s) ==
  ars_set_flags(ars_add_generic(p, type, SubSeq(s, 1, OptionSize(s))), Len(p) + 1,
                OptionFlags(s))

ars_split_ipopt(p, s, aux, proto) ==
  LET opts == SubSeq(s, 1, Min({Len(s), aux}))
      left == aux - OptionSize(opts)
  IN  CASE opts = << >> -> Step(p, 0, "GET_DATA", aux, proto)
        [] opts # << >> /\ ars_nospace(p) -> Nospace(p, "NOSPACE")
        [] OTHER -> Step(AddOption(p, "IPOPT", opts), OptionSize(opts),
                         IF left > 0 THEN "GET_IPOPT" ELSE ars_ip_next_state(proto),
                         left, proto)

ars_split_tcpopt(p, s, aux, proto) ==
  LET opts == SubSeq(s, 1, Min({Len(s), aux}))
      left == aux - OptionSize(opts)
  IN  CASE opts = << >> -> Step(p, 0, "GET_DATA", aux, proto)
        [] opts # << >> /\ ars_nospace(p) -> Nospace(p, "NOSPACE")
        [] OTHER -> Step(AddOption(p, "TCPOPT", opts), OptionSize(opts),
                         IF left > 0 THEN "GET_TCPOPT" ELSE "GET_DATA", left, proto)

ars_check_icmp_cksum(s) ==
  Len(s) >= 4 /\ ars_cksum(Put(s, 2, <<0, 0>>)) = Get16(s, 2)

\* Echo, timestamp and information messages carry data, every other type a
\* quoted datagram.
ars_split_icmp(p, s, aux, proto) ==
  LET len == Min({Len(s), 8})
      flags == CASE Len(s) < 8 -> {FTRUNC}
                 [] OTHER -> IF ars_check_icmp_cksum(s) THEN {} ELSE {FBADCKSUM}
      q == Received(ars_add_icmphdr(p), s, len, flags)
  IN  CASE ars_nospace(p) -> Nospace(p, "NOMEM")
        [] ~ ars_nospace(p) /\ (FTRUNC \in flags \/ s[1] \in {0, 8, 13, 14, 15, 16}) ->
             Step(q, len, "GET_DATA", aux, proto)
        [] OTHER -> Step(q, len, "GET_IP", aux, proto)

\* The checksum with the pseudo header, computed by way of a temporary layer
\* that holds the header and everything after it; -1 without an IP header.
TempCksum(p, type, s, off) ==
  LET tmp == ars_add_generic(p, type, Put(s, off, <<0, 0>>))
      i == Len(tmp)
      pseudo == IF type = "ICMP6" THEN ars_ip6_pseudo(tmp, i, 58)
                ELSE ars_udptcp_pseudo(tmp, i)
  IN  IF pseudo = << >> THEN -1 ELSE ars_multi_cksum(<<pseudo, tmp[i].data>>)

ars_split_icmp6(p, s, aux, proto) ==
  LET len == Min({Len(s), 8})
      cksum == TempCksum(p, "ICMP6", s, 2)
      flags == CASE Len(s) < 8 -> {FTRUNC}
                 [] OTHER -> IF cksum \in {-1, Get16(s, 2)} THEN {} ELSE {FBADCKSUM}
  IN  IF ars_nospace(p) THEN Nospace(p, IF Len(s) < 8 THEN "NOMEM" ELSE "NOSPACE")
      ELSE Step(Received(ars_add_icmp6hdr(p), s, len, flags), len, "GET_DATA", aux, proto)

\* Without an IP header the temporary layer stays and the dissector stops.
ars_split_udp(p, s, aux, proto) ==
  LET len == Min({Len(s), 8})
      cksum == TempCksum(p, "UDP", s, 6)
      flags == CASE Len(s) < 8 -> {FTRUNC}
                 [] OTHER -> IF cksum = Get16(s, 6) THEN {} ELSE {FBADCKSUM}
  IN  CASE ars_nospace(p) -> Nospace(p, IF Len(s) < 8 THEN "NOMEM" ELSE "NOSPACE")
        [] ~ ars_nospace(p) /\ Len(s) >= 8 /\ cksum = -1 ->
             Nospace(ars_add_generic(p, "UDP", Put(s, 6, <<0, 0>>)), "INVALID")
        [] OTHER -> Step(Received(ars_add_udphdr(p), s, len, flags), len, "GET_DATA",
                         aux, proto)

ars_split_tcp(p, s, aux, proto) ==
  LET len == Min({Len(s), 20})
      off == High(s[13])
      cksum == TempCksum(p, "TCP", s, 16)
      flags == CASE Len(s) < 20 -> {FTRUNC}
                 [] Len(s) >= 20 /\ off < 5 -> {FBADCKSUM}
                 [] Len(s) >= 20 /\ off >= 5 /\ Len(s) < 4 * off -> {FTRUNC}
                 [] OTHER -> IF cksum = Get16(s, 16) THEN {} ELSE {FBADCKSUM}
      q == Received(ars_add_tcphdr(p), s, len, flags)
  IN  CASE ars_nospace(p) -> Nospace(p, IF Len(s) < 20 THEN "NOMEM" ELSE "NOSPACE")
        [] ~ ars_nospace(p) /\ Len(s) >= 20 /\ cksum = -1 ->
             Nospace(ars_add_generic(p, "TCP", Put(s, 16, <<0, 0>>)), "INVALID")
        [] ~ ars_nospace(p) /\ Len(s) >= 20 /\ off > 5 /\ cksum # -1 ->
             Step(q, len, "GET_TCPOPT", 4 * (off - 5), proto)
        [] OTHER -> Step(q, len, "GET_DATA", aux, proto)

\* A bug: a header that is cut short is counted as a whole one.
IgrpStep_Whole(q, s, n, aux, proto) ==
  Step(Received(q, s, Min({Len(s), n}), IF Len(s) < n THEN {FTRUNC} ELSE {}), n,
       "GET_IGRPENTRY", aux, proto)

\* A last entry that is cut short still gets a whole layer.
IgrpStep(q, s, n, aux, proto) ==
  LET len == Min({Len(s), n})
      flags == IF Len(s) < n THEN {FTRUNC} ELSE {}
  IN  Step(Received(q, s, len, flags), len, "GET_IGRPENTRY", aux, proto)

ars_split_igrp(p, s, aux, proto) ==
  IF ars_nospace(p) THEN Nospace(p, "NOSPACE")
  ELSE IgrpStep(ars_add_generic(p, "IGRP", Zero(12)), s, 12, aux, proto)

ars_split_igrpentry(p, s, aux, proto) ==
  IF ars_nospace(p) THEN Nospace(p, "NOSPACE")
  ELSE IgrpStep(ars_add_generic(p, "IGRPENTRY", Zero(14)), s, 14, aux, proto)

ars_split_data(p, s, aux, proto) ==
  IF ars_nospace(p) THEN Nospace(p, "NOMEM")
  ELSE Step(ars_add_generic(p, "DATA", s), Len(s), "DONE", aux, proto)

ars_split_state_handler(state, p, s, aux, proto) ==
  CASE state = "GET_IP" -> ars_split_ip(p, s, aux, proto)
    [] state = "GET_IPOPT" -> ars_split_ipopt(p, s, aux, proto)
    [] state = "GET_ICMP" -> ars_split_icmp(p, s, aux, proto)
    [] state = "GET_UDP" -> ars_split_udp(p, s, aux, proto)
    [] state = "GET_TCP" -> ars_split_tcp(p, s, aux, proto)
    [] state = "GET_TCPOPT" -> ars_split_tcpopt(p, s, aux, proto)
    [] state = "GET_IGRP" -> ars_split_igrp(p, s, aux, proto)
    [] state = "GET_IGRPENTRY" -> ars_split_igrpentry(p, s, aux, proto)
    [] state = "GET_DATA" -> ars_split_data(p, s, aux, proto)
    [] state = "GET_IP6" -> ars_split_ip6(p, s, aux, proto)
    [] state = "GET_ICMP6" -> ars_split_icmp6(p, s, aux, proto)

\* After the first header of the datagram: how many of the n bytes that were
\* left before it belong to the datagram (the rest is link layer padding).
WithinDatagram(p, n, len) ==
  CASE Len(p) = 1 /\ p[1].type = "IP"  -> Min({n, Max({len, Get16(p[1].data, 2)})})
    [] Len(p) = 1 /\ p[1].type = "IP6" -> Min({n, Get16(p[1].data, 4) + len})
    [] OTHER -> n

-----------------------------------------------------------------------------
(* ars_split_packet(): the capture, the packet it fills and its variables. *)

VARIABLES
  pc,        \* what the program does next
  wire,      \* the capture
  captured,  \* the packet that is filled
  cur        \* where the reading began and is, what is left, state, aux, proto

splitVars == <<pc, wire, captured, cur>>

NoCur == [start |-> 0, off |-> 0, rest |-> << >>, state |-> "DONE", aux |-> 0, proto |-> 0]

SplitInit ==
  /\ pc = "capture"
  /\ wire \in Seq(Byte)
  /\ captured = << >> /\ cur = NoCur

\* The offset is 0, or looked for when the caller asks for it.
SplitStart(detect) ==
  /\ pc = "capture"
  /\ LET ipoff == IF detect THEN ars_guess_ipoff(wire) ELSE 0
         rest == SubSeq(wire, ipoff + 1, Len(wire))
     IN  IF ipoff = -1
         THEN pc' = "failed" /\ UNCHANGED cur
         ELSE /\ pc' = "split"
              /\ cur' = [start |-> ipoff, off |-> ipoff, rest |-> rest,
                         state |-> FirstState(rest), aux |-> 0, proto |-> 0]
  /\ UNCHANGED <<wire, captured>>

SplitStep ==
  /\ pc = "split"
  /\ cur.state # "DONE"
  /\ LET r == ars_split_state_handler(cur.state, captured, cur.rest, cur.aux, cur.proto)
         n == WithinDatagram(r.p, Len(cur.rest), r.len)
         rest == SubSeq(cur.rest, r.len + 1, n)
     IN  /\ captured' = r.p
         /\ pc' = IF r.err = "OK" THEN "split" ELSE "failed"
         /\ cur' = [start |-> cur.start, off |-> cur.off + r.len, rest |-> rest,
                    state |-> IF rest = << >> THEN "DONE" ELSE r.state,
                    aux |-> r.aux, proto |-> r.proto]
  /\ UNCHANGED wire

SplitNext == SplitStep \/ \E detect \in BOOLEAN : SplitStart(detect)

SplitSpec == SplitInit /\ [][SplitNext]_splitVars

-----------------------------------------------------------------------------
(* Properties.                                                             *)

LayerBytes(p) == FlattenSeq([k \in 1 .. Len(p) |-> Bytes(p[k])])
Dissected == pc = "split" /\ cur.state = "DONE"

\* The dissector neither loses nor invents bytes: what it has consumed lies
\* inside the capture and is, byte for byte, what its layers hold; only a
\* truncated last header, whose missing bytes keep the values of a fresh one,
\* holds more (split.c:174-199).  At the end nothing is left to read.
SplitKeepsBytes ==
  pc = "split" =>
    LET read  == SubSeq(wire, cur.start + 1, Min({cur.off, Len(wire)}))
        taken == LayerBytes(captured)
    IN  /\ cur.off <= Len(wire)
        /\ IsPrefix(read, taken)
        /\ Len(taken) > Len(read) => FTRUNC \in Last(captured).flags
        /\ IsPrefix(cur.rest, SubSeq(wire, cur.off + 1, Len(wire)))
        /\ Dissected => cur.rest = << >>

\* Every handler that is given bytes consumes at least one, and without any
\* the dissector stops, so it ends on every input: an option whose length
\* byte is 0 cannot hold it (split.c:389-399, 623-633).
SplitProgress ==
  [][pc = "split" /\ pc' = "split" =>
       cur'.off > cur.off \/ (cur.rest = << >> /\ Dissected')]_splitVars
=============================================================================
