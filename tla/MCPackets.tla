------------------------------ MODULE MCPackets ------------------------------
(* Descriptions, paddings and cuts for Packets. *)
EXTENDS Packets

\* layer(f=v,...)+layer(...)
Text(layers) == Front(FlattenSeq(layers))
F(f, v) == Field(f, v)
N(f, n) == Field(f, Num(n))
Str(codes) == <<"text", codes>>

A == <<"addr", <<10, 0, 0, 1>>>>
B == <<"addr", <<10, 0, 0, 2>>>>
A6 == <<"addr", <<32, 1, 13, 184>> \o Zero(11) \o <<1>>>>
B6 == <<"addr", <<32, 1, 13, 184>> \o Zero(11) \o <<2>>>>

ip(fields)  == Described("ip", <<F("saddr", A), F("daddr", B)>> \o fields)
ip6(fields) == Described("ip6", <<F("saddr", A6), F("daddr", B6)>> \o fields)
L(name, fields) == Described(name, fields)
Syn == <<"flags", {1}>>
hi == L("data", <<F("str", Str(<<104, 105, 33>>))>>)

\* Stacks that are read back.
Stacks == {
  \* ip(..,ttl=64,id=7,df=1)+icmp(id=1,seq=2)+data(str=hi!)
  Text(<<ip(<<N("ttl", 64), N("id", 7), N("df", 1)>>),
         L("icmp", <<N("id", 1), N("seq", 2)>>), hi>>),
  \* ip(..)+icmp(type=3,code=3)+ip(..)+udp(sport=53,dport=53)
  Text(<<ip(<< >>), L("icmp", <<N("type", 3), N("code", 3)>>),
         ip(<< >>), L("udp", <<N("sport", 53), N("dport", 53)>>)>>),
  \* ip(..)+icmp(type=5,gw=10.0.0.1)+ip(..)+data(uint24=..)
  Text(<<ip(<< >>), L("icmp", <<N("type", 5), F("gw", A)>>), ip(<< >>),
         L("data", <<N("uint24", 258)>>)>>),
  \* ip(..)+ip.nop()+udp(dport=9)+data(hex=0a0b0c)
  Text(<<ip(<<N("tos", 16)>>), L("ip.nop", << >>), L("udp", <<N("dport", 9)>>),
         L("data", <<F("hex", Str(<<48, 97, 48, 66, 48, 99>>))>>)>>),
  \* ip(..)+ip.rr(data=A/B)+icmp()
  Text(<<ip(<< >>), L("ip.rr", <<F("data", <<"list", <<A, B>>>>)>>), L("icmp", << >>)>>),
  \* ip(..)+ip.ts(flags=tsonly,data=1/2)+icmp()
  Text(<<ip(<< >>), L("ip.ts", <<F("flags", <<"sym", "tsonly">>),
                                 F("data", <<"list", <<Num(1), Num(2)>>>>)>>),
         L("icmp", << >>)>>),
  \* ip(..)+ip.sec(seclev=1,hrest=0a0b)+ip.sid(sid=5)+ip.eol()+data(str=hi!)
  Text(<<ip(<< >>), L("ip.sec", <<N("seclev", 1), F("hrest", Str(<<48, 97, 48, 98>>))>>),
         L("ip.sid", <<N("sid", 5)>>), L("ip.eol", << >>), hi>>),
  \* ip(..)+tcp(dport=80,flags=s)+tcp.mss(size=1460)+tcp.ts(val=1,ecr=2)+data(str=hi!)
  Text(<<ip(<< >>), L("tcp", <<N("dport", 80), F("flags", Syn), N("win", 512)>>),
         L("tcp.mss", <<N("size", 1460)>>),
         L("tcp.ts", <<N("val", 1), N("ecr", 2)>>), hi>>),
  \* ip(..)+tcp(flags=s)+tcp.sackperm()+tcp.wscale(shift=7)+tcp.echo(info=9)
  Text(<<ip(<< >>), L("tcp", <<F("flags", Syn)>>), L("tcp.sackperm", << >>),
         L("tcp.wscale", <<N("shift", 7)>>), L("tcp.echo", <<N("info", 9)>>)>>),
  \* ip(..)+tcp(flags=..)+tcp.sack(blocks=1-2/3-4)
  Text(<<ip(<< >>), L("tcp", <<F("flags", <<"flags", {0, 4}>>)>>),
         L("tcp.sack", <<F("blocks", <<"list", <<<<"pair", 1, 2>>, <<"pair", 3, 4>>>>>>)>>)>>),
  \* ip(..)+igrp(opcode=update,autosys=1)+igrp.entry(dest=1.2.3,delay=300)+igrp.entry()
  Text(<<ip(<< >>), L("igrp", <<F("opcode", <<"sym", "update">>), N("autosys", 1)>>),
         L("igrp.entry", <<F("dest", <<"addr", <<1, 2, 3>>>>), N("delay", 300)>>),
         L("igrp.entry", <<N("bandwidth", 70000), N("mtu", 1500), N("load", 1)>>)>>),
  \* ip6(..)+icmp6(id=7,seq=1)+data(str=hi!)
  Text(<<ip6(<<N("tclass", 33), N("flow", 70000)>>), L("icmp6", <<N("id", 7), N("seq", 1)>>), hi>>),
  \* ip6(..)+tcp(dport=80,flags=s)+tcp.mss(size=1440)
  Text(<<ip6(<<N("hlim", 3)>>), L("tcp", <<N("dport", 80), F("flags", Syn)>>),
         L("tcp.mss", <<N("size", 1440)>>)>>),
  \* ip(..)+ip(..)+udp()+data(str=hi!)
  Text(<<ip(<< >>), ip(<< >>), L("udp", << >>), hi>>) }

\* More of the words.
Words == {
  \* ip(..)+ip.lsrr(ptr=8,data=A)+ip.nop()+icmp(type=11,unused=5)+ip(..)+data(..)
  Text(<<ip(<<N("tos", 3), N("rf", 1)>>),
         L("ip.ssrr", <<N("ptr", 8), F("data", <<"list", <<A>>>>)>>),
         L("icmp", <<N("type", 11), N("unused", 5)>>), ip(<< >>), L("data", <<N("uint8", 300)>>)>>),
  \* ip(..)+ip.ts(flags=prespec,overflow=2,data=1@A/2@B)+udp(sport=70000)
  Text(<<ip(<< >>), L("ip.ts", <<F("flags", <<"sym", "prespec">>), N("overflow", 2),
                                 F("data", <<"list", <<<<"at", 1, A[2]>>, <<"at", 2, B[2]>>>>>>)>>),
         L("udp", <<N("sport", 70000)>>)>>),
  \* ip(..)+tcp(seq=..,ack=..,x2=3,urp=1,flags=fsrpauxy)+tcp.sack(blocks=..)+tcp.nop()
  Text(<<ip(<< >>), L("tcp", <<N("seq", 70000), N("ack", 5), N("x2", 3), N("urp", 1),
                               F("flags", <<"flags", 0 .. 7>>)>>),
         L("tcp.sack", <<F("blocks", <<"list", <<<<"pair", 1, 2>>, <<"pair", 3, 4>>, <<"pair", 5, 6>>,
                                                 <<"pair", 7, 8>>, <<"pair", 9, 9>>>>>>)>>),
         L("tcp.nop", << >>)>>),
  \* ip(..)+tcp(flags=a,off=6,cksum=7)+tcp.echoreply(info=3)+tcp.eol()
  Text(<<ip(<< >>), L("tcp", <<F("flags", <<"flags", {4}>>), N("off", 7), N("cksum", 7)>>),
         L("tcp.echoreply", <<N("info", 3)>>), L("tcp.eol", << >>)>>),
  \* ip6(..,nh=udp)+icmp6(type=1,code=4,unused=9)+data(file=..)
  Text(<<ip6(<<F("nh", <<"sym", "udp">>), N("ver", 6), N("plen", 9)>>),
         L("icmp6", <<N("type", 1), N("code", 4), N("unused", 9), N("cksum", 8)>>),
         L("data", <<F("file", <<"file", <<1, 2, 3>>>>)>>)>>),
  \* ip6(..)+ip(..,proto=icmp)+icmp(type=13,cksum=4)
  Text(<<ip6(<< >>), ip(<<F("proto", <<"sym", "icmp">>)>>), L("icmp", <<N("type", 13), N("cksum", 4)>>)>>),
  \* ip6(..)+icmp6(type=1,code=4,unused=9)
  Text(<<ip6(<< >>), L("icmp6", <<N("type", 1), N("code", 4), N("unused", 9)>>)>>),
  \* ip(..,ver=5)+igrp(version=2,opcode=7,edition=..,cksum=3)+igrp.entry(..)13
  Text(<<ip(<<N("ver", 5)>>),
         L("igrp", <<N("version", 2), N("opcode", 7), N("edition", 4), N("interior", 1),
                     N("system", 2), N("exterior", 3), N("cksum", 3)>>),
         Front(L("igrp.entry", <<N("reliability", 255), N("hopcount", 4)>>)) \o <<Num(13), <<"+">>>>>>) }

\* Wrong on purpose, or words that describe does not write.
Odd == {
  \* ip(..,totlen=27)+data(str=a\xb\41\5c41\28..)
  Text(<<ip(<<N("totlen", 27)>>),
         L("data", <<F("str", Str(<<97, 92, 120, 98, 92, 52, 49, 92, 53, 99, 52, 49, 92,
                                    50, 56, 200>>))>>)>>),
  \* ip(..)+data(str=a\5c41): the backslash of "\41" is not escaped again
  Text(<<ip(<< >>), L("data", <<F("str", Str(<<97, 92, 53, 99, 52, 49>>))>>)>>),
  \* ip(..,fragoff=16,mf=1)+udp()+data(str=hi!)
  Text(<<ip(<<N("fragoff", 16), N("mf", 1)>>), L("udp", << >>), hi>>),
  \* ip(..,ihl=5)+udp(cksum=1,len=9)+data(str=hi!)
  Text(<<ip(<<N("ihl", 5), N("cksum", 1)>>), L("udp", <<N("cksum", 1), N("len", 9)>>), hi>>),
  \* ip(..)+tcp(dport=80): no flags
  Text(<<ip(<< >>), L("tcp", <<N("dport", 80)>>)>>),
  \* ip(..)+tcp(flags=s)+tcp.mss(optlen=0)+tcp.ts(optlen=60)
  Text(<<ip(<< >>), L("tcp", <<F("flags", Syn)>>), L("tcp.mss", <<N("optlen", 0)>>),
         L("tcp.ts", <<N("optlen", 60)>>)>>),
  \* ip(..)+ip.sid(optlen=0)+icmp(type=17)
  Text(<<ip(<< >>), L("ip.sid", <<N("optlen", 0)>>), L("icmp", <<N("type", 17)>>)>>),
  \* ip(..)+ip.rr()+ip.nop()+icmp(): more than 40 bytes of options
  Text(<<ip(<< >>), L("ip.rr", << >>), L("ip.nop", << >>), L("icmp", << >>)>>),
  \* ip(..,proto=tcp)+data(hex=..): a segment cut off by its sender
  Text(<<ip(<<F("proto", <<"sym", "tcp">>)>>), L("data", <<N("uint32", 5)>>)>>),
  \* ip(..)+udp()+data(str=)
  Text(<<ip(<< >>), L("udp", << >>), L("data", <<F("str", Str(<< >>))>>)>>),
  \* udp()+data(str=hi!): no header to compute the checksum with
  Text(<<L("udp", << >>), hi>>),
  \* ip(..)12+udp(): the header cut to 12 bytes
  Text(<<Front(ip(<< >>)) \o <<Num(12), <<"+">>>>, L("udp", << >>)>>),
  \* ip(..)21
  Text(<<Front(ip(<< >>)) \o <<Num(21), <<"+">>>>>>),
  \* eleven data layers: more than a packet holds
  Text(<<ip(<< >>), hi, hi, hi, hi, hi, hi, hi, hi, hi, hi, hi>>) }

CDescriptions == Stacks \cup Words \cup Odd
=============================================================================
