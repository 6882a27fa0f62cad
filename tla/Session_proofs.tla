---------------------------- MODULE Session_proofs ----------------------------
(***************************************************************************)
(* The life of the process, for every set of command lines and every       *)
(* number of packets and signals.  First the pieces of a payload, for      *)
(* every payload, every interface and every size of the pieces; then the   *)
(* session that sends them.                                                *)
(***************************************************************************)
EXTENDS Session, TLAPS

-----------------------------------------------------------------------------
(* Arithmetic on octets and groups of eight.                               *)

LEMMA Limits ==
  /\ MaxField \in Nat /\ MaxOffset \in Nat /\ MaxPayload \in Nat
  /\ 8 < MaxPayload /\ MaxPayload < MaxField /\ MaxField = 8 * MaxOffset + 7
  BY DEF MaxField, MaxOffset, MaxPayload

LEMMA Parts ==
  ASSUME NEW r \in Int
  PROVE  /\ r \div 8 \in Int /\ r % 8 \in 0 .. 7
         /\ r = 8 * (r \div 8) + (r % 8)
  OBVIOUS

LEMMA Groups ==
  ASSUME NEW a \in Nat, NEW b \in Nat, a % 8 = 0, b % 8 = 0
  PROVE  (a + b) % 8 = 0
  OBVIOUS

LEMMA Rounded ==
  ASSUME NEW r \in Int, 8 <= r, r <= MaxField
  PROVE  r - (r % 8) \in VirtualMtus
<1> DEFINE q == r \div 8
           m == r % 8
<1>1. q \in Int /\ m \in 0 .. 7 /\ r = 8 * q + m
  BY Parts
<1> HIDE DEF q, m
<1>2. q >= 1 /\ r - m = 8 * q
  BY <1>1
<1>3. 8 * q \in 8 .. MaxField
  BY <1>1, <1>2, Limits
<1>4. (8 * q) % 8 = 0
  BY <1>1
<1>5. r - m \in VirtualMtus
  BY <1>2, <1>3, <1>4 DEF VirtualMtus
<1> QED BY <1>5 DEF m

-----------------------------------------------------------------------------
(* The fields of cfg.                                                      *)

LEMMA SenderFields ==
  ASSUME NEW c \in Sender
  PROVE  /\ c.opt_fragment \in BOOLEAN /\ c.virtual_mtu \in VirtualMtus
         /\ c.opt_mf \in BOOLEAN /\ c.opt_df \in BOOLEAN
         /\ c.ip_frag_offset \in Field16 /\ c.src_id \in Int
         /\ c.opt_safe \in BOOLEAN /\ c.routes \in Routes
  BY SMTT(60) DEF Sender

\* --safe counts the ids; nothing else changes while a packet is sent.
LEMMA SenderCounted ==
  ASSUME NEW c \in Sender, NEW n \in Int
  PROVE  /\ [c EXCEPT !.src_id = n] \in Sender
         /\ [c EXCEPT !.src_id = n].virtual_mtu = c.virtual_mtu
         /\ [c EXCEPT !.src_id = n].opt_fragment = c.opt_fragment
  BY SMTT(60) DEF Sender

(***************************************************************************)
(* ip_opt_build(): the options fill at most the 40 octets that an IP       *)
(* header has for them.                                                    *)
(***************************************************************************)
LEMMA OptionsFit ==
  ASSUME cfg \in Sender
  PROVE  IpOptLen \in 0 .. 40
<1> DEFINE routes == cfg.routes
           loose  == IF routes.lsr_length <= 39 THEN routes.lsr_length ELSE 0
           strict == IF loose + routes.ssr_length <= 39
                     THEN loose + routes.ssr_length ELSE loose
           all    == IF routes.opt_rroute /\ strict <= 33 THEN 39 ELSE strict
<1>1. routes \in Routes
  BY SenderFields
<1> HIDE DEF routes
<1>2. routes.lsr_length \in Nat /\ routes.ssr_length \in Nat
  <2>1. RouteLengths \subseteq Nat
    BY DEF RouteLengths
  <2> QED BY <1>1, <2>1 DEF Routes
<1>3. loose \in 0 .. 39
  BY <1>2
<1>4. strict \in 0 .. 39
  BY <1>2, <1>3
<1>5. all \in 0 .. 39
  BY <1>4
<1>6. ((all + 3) \div 4) * 4 \in 0 .. 40
  <2> HIDE DEF all
  <2> QED BY <1>5
<1> QED BY <1>6 DEF IpOptLen, routes

(***************************************************************************)
(* send_ip_handler() rounds what the interface has room for down to whole  *)
(* groups of eight octets, and at least one of them.                       *)
(***************************************************************************)
LEMMA AutomaticSize ==
  ASSUME cfg \in Sender, h_if_mtu \in 28 .. MaxField + 1
  PROVE  AutoFragmented \in Sender /\ AutoFragmented.opt_fragment = TRUE
<1> DEFINE room  == h_if_mtu - IPHDR_SIZE
           mtu   == room - (room % 8)
           on    == [cfg EXCEPT !.opt_fragment = TRUE]
           sized == [on EXCEPT !.virtual_mtu = mtu]
           clear == [[sized EXCEPT !.opt_mf = FALSE] EXCEPT !.opt_df = FALSE]
<1>1. mtu \in VirtualMtus
  <2>1. room \in Int /\ 8 <= room /\ room <= MaxField
    BY Limits DEF IPHDR_SIZE
  <2> HIDE DEF room
  <2> QED BY <2>1, Rounded
<1>2. AutoFragmented = clear
  BY DEF AutoFragmented
<1> HIDE DEF mtu
<1>3. on \in Sender /\ on.opt_fragment = TRUE
  BY DEF Sender
<1> HIDE DEF on
<1>4. sized \in Sender /\ sized.opt_fragment = TRUE
  BY <1>1, <1>3 DEF Sender
<1> HIDE DEF sized
<1>5. clear \in Sender /\ clear.opt_fragment = TRUE
  BY <1>4 DEF Sender
<1> QED BY <1>2, <1>5

(***************************************************************************)
(* send_ip(): whatever it is asked for fits the fields of a header, and    *)
(* the offset field gives an offset of whole groups back.                  *)
(***************************************************************************)
LEMMA DatagramFits ==
  ASSUME cfg \in Sender,
         NEW len \in 0 .. MaxPayload, NEW more \in BOOLEAN,
         NEW offset \in Field16
  PROVE  /\ Datagram(len, more, offset) \in Pieces
         /\ Datagram(len, more, offset).len = len
         /\ Datagram(len, more, offset).more = more
         /\ offset % 8 = 0 => Starts(Datagram(len, more, offset)) = offset
<1>o. offset \in Nat /\ offset <= MaxField
  BY Limits DEF Field16
<1>p. offset % 65536 = offset
  BY <1>o DEF MaxField
<1>1. (offset % 65536) \div 8 \in 0 .. MaxOffset
  <2>1. 8 * (offset \div 8) + (offset % 8) = offset /\ offset % 8 \in 0 .. 7
    BY <1>o, Parts
  <2>2. offset \div 8 \in Int
    BY <1>o
  <2>3. offset \div 8 \in 0 .. MaxOffset
    BY <1>o, <2>1, <2>2, Limits
  <2> QED BY <2>3, <1>p
<1>2. cfg.src_id \in Int /\ cfg.opt_df \in BOOLEAN /\ cfg.opt_fragment \in BOOLEAN
  BY SenderFields
<1>3. cfg.src_id % 65536 \in Field16
  <2>1. \A n \in Int : n % 65536 \in Nat /\ n % 65536 <= MaxField
    BY DEF MaxField
  <2>2. cfg.src_id % 65536 \in Nat /\ cfg.src_id % 65536 <= MaxField
    BY <1>2, <2>1
  <2> QED BY <2>2, Limits DEF Field16
<1>4. offset % 8 = 0 => 8 * ((offset % 65536) \div 8) = offset
  BY <1>o, <1>p, Parts
<1>5. 0 \in Field16
  BY Limits DEF Field16
<1>6. Datagram(len, more, offset) \in Pieces
  BY <1>1, <1>2, <1>3, <1>5 DEF Datagram, Pieces
<1>7. /\ Datagram(len, more, offset).len = len
      /\ Datagram(len, more, offset).more = more
      /\ Datagram(len, more, offset).offset = (offset % 65536) \div 8
  BY DEF Datagram
<1> QED BY <1>4, <1>6, <1>7 DEF Starts

-----------------------------------------------------------------------------
(* Type correctness.                                                       *)

LEMMA InitTyped == FragmentationInit => FragmentationTypeOK
<1> SUFFICES ASSUME FragmentationInit PROVE FragmentationTypeOK
  OBVIOUS
<1>1. cfg \in Sender /\ h_if_mtu \in 28 .. MaxField + 1
  BY FragmentationAssumption DEF FragmentationInit
<1>2. wire \in Seq(Pieces)
  BY DEF FragmentationInit
<1>3. 0 \in 0 .. MaxPayload /\ 0 \in 0 .. 40
  BY Limits
<1> QED BY <1>1, <1>2, <1>3 DEF FragmentationInit, FragmentationTypeOK

\* A step of send_ip() keeps the types.
LEMMA SendIpTyped ==
  ASSUME FragmentationTypeOK,
         NEW len \in 0 .. MaxPayload, NEW more \in BOOLEAN,
         NEW offset \in Field16, NEW outcome \in Outcomes,
         SendIp(len, more, offset, outcome)
  PROVE  /\ cfg' \in Sender /\ cfg'.virtual_mtu = cfg.virtual_mtu
         /\ cfg'.opt_fragment = cfg.opt_fragment
         /\ wire' \in Seq(Pieces)
         /\ h_if_mtu' = h_if_mtu /\ eof_reached' = eof_reached
         /\ size' = size /\ ip_optlen' = ip_optlen
<1>1. cfg' \in Sender /\ cfg'.virtual_mtu = cfg.virtual_mtu
      /\ cfg'.opt_fragment = cfg.opt_fragment
  <2> DEFINE next == IF cfg.opt_safe /\ ~ eof_reached /\ outcome # "refused"
                     THEN cfg.src_id + 1 ELSE cfg.src_id
  <2>1. cfg \in Sender
    BY DEF FragmentationTypeOK
  <2>2. next \in Int
    BY <2>1, SenderFields
  <2>3. cfg' = [cfg EXCEPT !.src_id = next]
    BY DEF SendIp
  <2> HIDE DEF next
  <2> QED BY <2>1, <2>2, <2>3, SenderCounted
<1>2. wire' \in Seq(Pieces)
  <2>1. Datagram(len, more, offset) \in Pieces /\ wire \in Seq(Pieces)
    BY DatagramFits DEF FragmentationTypeOK
  <2>2. wire' = Append(wire, Datagram(len, more, offset))
    BY DEF SendIp
  <2> HIDE DEF FragmentationTypeOK
  <2> QED BY <2>1, <2>2
<1> QED BY <1>1, <1>2 DEF SendIp

(***************************************************************************)
(* The part of the invariant that the length left over needs: what was     *)
(* handed over and what is left make up the payload.                       *)
(***************************************************************************)
Progress ==
  /\ handler = "pieces" => /\ cfg.opt_fragment
                           /\ frag_offset + remainder = size
                           /\ frag_offset % 8 = 0
                           /\ remainder > 0
  /\ handler = "whole" => ~ cfg.opt_fragment /\ wire = <<>>

Typed == FragmentationTypeOK /\ Progress

LEMMA InitProgress == FragmentationInit => Progress
  BY DEF FragmentationInit, Progress

(***************************************************************************)
(* A step with a payload of any size; those of FragmentationNext are, and  *)
(* so are those of a process that sends.                                   *)
(***************************************************************************)
SendingStep ==
  \/ EndOfFile
  \/ \E n \in 1 .. MaxPayload : SendIpHandler(n)
  \/ \E outcome \in Outcomes :
       SendWhole(outcome) \/ SendPiece(outcome) \/ SendLast(outcome)

LEMMA NextSends == FragmentationNext => SendingStep
  BY FragmentationAssumption DEF FragmentationNext, SendingStep

LEMMA StepTyped == Typed /\ [SendingStep]_fragVars => Typed'
<1> SUFFICES ASSUME Typed, [SendingStep]_fragVars PROVE Typed'
  OBVIOUS
<1> USE DEF Typed
<1>m. /\ cfg \in Sender /\ cfg.virtual_mtu \in 8 .. MaxField
      /\ cfg.virtual_mtu % 8 = 0 /\ cfg.opt_mf \in BOOLEAN
      /\ cfg.ip_frag_offset \in Field16
  <2>1. cfg \in Sender
    BY DEF FragmentationTypeOK
  <2>2. cfg.virtual_mtu \in VirtualMtus
    BY <2>1, SenderFields
  <2> QED BY <2>1, <2>2, SenderFields DEF VirtualMtus
<1>1. ASSUME EndOfFile PROVE Typed'
  <2>1. FragmentationTypeOK'
    BY <1>1 DEF EndOfFile, datagram, FragmentationTypeOK
  <2>2. Progress'
    BY <1>1 DEF EndOfFile, datagram, Progress
  <2> QED BY <2>1, <2>2
<1>2. ASSUME NEW n \in 1 .. MaxPayload, SendIpHandler(n) PROVE Typed'
  <2>1. n \in 1 .. MaxPayload
    OBVIOUS
  <2>2. cfg' \in Sender
    BY <1>2, AutomaticSize DEF SendIpHandler, FragmentationTypeOK
  <2>3. IpOptLen \in 0 .. 40
    <3>1. cfg \in Sender
      BY <1>m
    <3> QED BY <3>1, OptionsFit
  <2>4. cfg'.opt_fragment \in BOOLEAN
    BY <2>2, SenderFields
  <2>5. FragmentationTypeOK'
    <3>1. n \in 0 .. MaxPayload
      BY <2>1, Limits
    <3>2. handler' \in {"idle", "whole", "pieces"}
      BY <1>2 DEF SendIpHandler
    <3>3. wire' \in Seq(Pieces)
      BY <1>2 DEF SendIpHandler
    <3>4. 0 \in 0 .. MaxPayload
      BY Limits
    <3> QED BY <1>2, <2>2, <2>3, <3>1, <3>2, <3>3, <3>4
            DEF SendIpHandler, FragmentationTypeOK
  <2>6. Progress'
    BY <1>2, <2>1, <2>4, Limits DEF SendIpHandler, Progress
  <2> QED BY <2>5, <2>6
<1>3. ASSUME NEW outcome \in Outcomes, SendWhole(outcome) PROVE Typed'
  <2>1. size \in 0 .. MaxPayload
    BY DEF FragmentationTypeOK
  <2>2. SendIp(size, cfg.opt_mf, cfg.ip_frag_offset, outcome)
    BY <1>3 DEF SendWhole
  <2>3. FragmentationTypeOK'
    <3>1. /\ cfg' \in Sender /\ wire' \in Seq(Pieces)
          /\ h_if_mtu' = h_if_mtu /\ eof_reached' = eof_reached
          /\ size' = size /\ ip_optlen' = ip_optlen
      BY <1>m, <2>1, <2>2, SendIpTyped
    <3>2. /\ handler' = "idle" /\ rc' \in {0, -1}
          /\ remainder' = remainder /\ frag_offset' = frag_offset
      BY <1>3 DEF SendWhole, Returns
    <3> QED BY <3>1, <3>2 DEF FragmentationTypeOK
  <2>4. Progress'
    BY <1>3 DEF SendWhole, Returns, Progress
  <2> QED BY <2>3, <2>4
<1>4. ASSUME NEW outcome \in Outcomes, SendPiece(outcome) PROVE Typed'
  <2>1. /\ handler = "pieces" /\ remainder > cfg.virtual_mtu
        /\ SendIp(cfg.virtual_mtu, TRUE, frag_offset, outcome)
        /\ remainder' = remainder - cfg.virtual_mtu
        /\ frag_offset' = frag_offset + cfg.virtual_mtu
        /\ handler' = handler /\ rc' = rc
    BY <1>4 DEF SendPiece, Advance
  <2>2. /\ remainder \in 0 .. MaxPayload /\ frag_offset \in 0 .. MaxPayload
        /\ size \in 0 .. MaxPayload /\ frag_offset + remainder = size
        /\ frag_offset % 8 = 0 /\ cfg.opt_fragment
    BY <2>1 DEF FragmentationTypeOK, Progress
  <2>3. cfg.virtual_mtu \in 0 .. MaxPayload /\ frag_offset \in Field16
    BY <1>m, <2>1, <2>2, Limits DEF Field16
  <2>4. /\ cfg' \in Sender /\ cfg'.opt_fragment /\ wire' \in Seq(Pieces)
        /\ h_if_mtu' = h_if_mtu /\ eof_reached' = eof_reached
        /\ size' = size /\ ip_optlen' = ip_optlen
    BY <2>1, <2>2, <2>3, SendIpTyped
  <2>5. /\ remainder' \in 0 .. MaxPayload /\ frag_offset' \in 0 .. MaxPayload
        /\ frag_offset' + remainder' = size' /\ frag_offset' % 8 = 0
        /\ remainder' > 0
    <3>1. cfg.virtual_mtu \in Nat /\ cfg.virtual_mtu > 0
      BY <1>m, Limits
    <3>2. (frag_offset + cfg.virtual_mtu) % 8 = 0
      <4>1. frag_offset \in Nat
        BY <2>2, Limits
      <4> QED BY <1>m, <2>2, <3>1, <4>1, Groups
    <3>3. /\ remainder' = remainder - cfg.virtual_mtu
          /\ frag_offset' = frag_offset + cfg.virtual_mtu
          /\ remainder > cfg.virtual_mtu /\ size' = size
      BY <2>1, <2>4
    <3>4. remainder' \in 0 .. MaxPayload /\ remainder' > 0
      BY <2>2, <3>1, <3>3, Limits
    <3>5. frag_offset' + remainder' = size'
      BY <2>2, <3>1, <3>3, Limits
    <3>6. frag_offset' \in 0 .. MaxPayload
      BY <2>2, <3>1, <3>3, <3>4, <3>5, Limits
    <3> QED BY <3>2, <3>3, <3>4, <3>5, <3>6
  <2>6. FragmentationTypeOK'
    BY <2>1, <2>4, <2>5 DEF FragmentationTypeOK
  <2>7. Progress'
    BY <2>1, <2>4, <2>5 DEF Progress
  <2> QED BY <2>6, <2>7
<1>5. ASSUME NEW outcome \in Outcomes, SendLast(outcome) PROVE Typed'
  <2>1. /\ handler = "pieces"
        /\ SendIp(remainder, FALSE, frag_offset, outcome)
        /\ handler' = "idle" /\ rc' \in {0, -1}
        /\ remainder' = remainder /\ frag_offset' = frag_offset
    BY <1>5 DEF SendLast, Returns
  <2>2. remainder \in 0 .. MaxPayload /\ frag_offset \in Field16
    BY Limits DEF FragmentationTypeOK, Field16
  <2>3. /\ cfg' \in Sender /\ wire' \in Seq(Pieces)
        /\ h_if_mtu' = h_if_mtu /\ eof_reached' = eof_reached
        /\ size' = size /\ ip_optlen' = ip_optlen
    BY <2>1, <2>2, SendIpTyped
  <2>4. FragmentationTypeOK'
    BY <2>1, <2>3 DEF FragmentationTypeOK
  <2>5. Progress'
    BY <2>1 DEF Progress
  <2> QED BY <2>4, <2>5
<1>6. ASSUME UNCHANGED fragVars PROVE Typed'
  <2>1. FragmentationTypeOK'
    BY <1>6 DEF fragVars, datagram, FragmentationTypeOK
  <2>2. Progress'
    BY <1>6 DEF fragVars, datagram, Progress
  <2> QED BY <2>1, <2>2
<1> QED
  BY <1>1, <1>2, <1>3, <1>4, <1>5, <1>6 DEF SendingStep

\* Every field of every datagram fits its place in the header, whatever the
\* sizes, the interface and the options of the user.
THEOREM FragmentationTypeCorrect == FragmentationSpec => []FragmentationTypeOK
<1>1. FragmentationInit => Typed
  BY InitTyped, InitProgress DEF Typed
<1>2. Typed => FragmentationTypeOK
  BY DEF Typed
<1>3. Typed /\ [FragmentationNext]_fragVars => Typed'
  BY StepTyped, NextSends
<1> QED BY <1>1, <1>2, <1>3, PTL DEF FragmentationSpec

-----------------------------------------------------------------------------
(* The pieces side by side.                                                *)

(***************************************************************************)
(* What Reassembles does not say of a payload half way: the last piece     *)
(* promises more and ends where the rest begins.                           *)
(***************************************************************************)
HalfWay ==
  handler = "pieces" =>
    IF wire = <<>> THEN frag_offset = 0
    ELSE wire[Len(wire)].more /\ Ends(wire[Len(wire)]) = frag_offset

Laid == Reassembles /\ HalfWay

\* Pieces as Reassembles wants them, but for the last.
Side(s) ==
  /\ s # <<>> => Starts(s[1]) = 0
  /\ \A i \in 2 .. Len(s) : Starts(s[i]) = Ends(s[i - 1])
  /\ \A i \in DOMAIN s : Fits(s[i])
  /\ \A i \in 1 .. Len(s) - 1 : s[i].more

\* One more piece, at the end of those that are there.
LEMMA SideAppend ==
  ASSUME NEW s \in Seq(Pieces), NEW p \in Pieces, Side(s), Fits(p),
         IF s = <<>> THEN Starts(p) = 0
         ELSE s[Len(s)].more /\ Starts(p) = Ends(s[Len(s)])
  PROVE  /\ Side(Append(s, p)) /\ Append(s, p) # <<>>
         /\ Append(s, p)[Len(Append(s, p))] = p
<1> DEFINE t == Append(s, p)
<1>1. /\ Len(s) \in Nat /\ Len(t) = Len(s) + 1 /\ t \in Seq(Pieces)
      /\ t[Len(s) + 1] = p /\ \A i \in 1 .. Len(s) : t[i] = s[i]
      /\ DOMAIN t = 1 .. Len(s) + 1 /\ DOMAIN s = 1 .. Len(s)
      /\ s = <<>> <=> Len(s) = 0
  OBVIOUS
<1> HIDE DEF t
<1>2. t # <<>> /\ Starts(t[1]) = 0
  BY <1>1 DEF Side
<1>3. ASSUME NEW i \in 2 .. Len(t) PROVE Starts(t[i]) = Ends(t[i - 1])
  <2>1. CASE i = Len(s) + 1
    BY <1>1, <2>1
  <2>2. CASE i # Len(s) + 1
    BY <1>1, <2>2 DEF Side
  <2> QED BY <2>1, <2>2
<1>4. \A i \in DOMAIN t : Fits(t[i])
  BY <1>1 DEF Side
<1>5. ASSUME NEW i \in 1 .. Len(t) - 1 PROVE t[i].more
  <2>1. CASE i = Len(s)
    BY <1>1, <2>1
  <2>2. CASE i # Len(s)
    <3>1. i \in 1 .. Len(s) - 1 /\ i \in 1 .. Len(s)
      <4>1. Len(s) \in Nat /\ Len(t) = Len(s) + 1
        BY <1>1
      <4>2. Len(t) - 1 = Len(s)
        BY <4>1
      <4>3. i \in 1 .. Len(s)
        BY <4>2, Zenon
      <4> QED BY <2>2, <4>1, <4>3
    <3>2. s[i].more
      BY <3>1 DEF Side
    <3>3. t[i] = s[i]
      BY <1>1, <3>1
    <3> QED BY <3>2, <3>3
  <2> QED BY <2>1, <2>2
<1>6. Side(t)
  BY <1>2, <1>3, <1>4, <1>5 DEF Side
<1> QED BY <1>1, <1>2, <1>6 DEF t

LEMMA InitLaid == FragmentationInit => Laid
  BY DEF FragmentationInit, Laid, Reassembles, HalfWay

\* send_ip() lays a piece at the offset it is given.
LEMMA PieceLaid ==
  ASSUME Typed, Laid, handler = "pieces",
         NEW len \in 0 .. MaxPayload, NEW more \in BOOLEAN,
         NEW outcome \in Outcomes, more => len % 8 = 0,
         SendIp(len, more, frag_offset, outcome)
  PROVE  /\ Side(wire') /\ wire' # <<>>
         /\ wire'[Len(wire')].more = more
         /\ Ends(wire'[Len(wire')]) = frag_offset + len
<1> DEFINE p == Datagram(len, more, frag_offset)
<1>1. /\ cfg \in Sender /\ cfg.opt_fragment /\ wire \in Seq(Pieces)
      /\ frag_offset \in 0 .. MaxPayload /\ frag_offset % 8 = 0
  BY DEF Typed, FragmentationTypeOK, Progress
<1>2. frag_offset \in Field16
  BY <1>1, Limits DEF Field16
<1>3. /\ p \in Pieces /\ p.len = len /\ p.more = more
      /\ Starts(p) = frag_offset
  BY <1>1, <1>2, DatagramFits
<1>4. wire' = Append(wire, p)
  BY DEF SendIp
<1> HIDE DEF p
<1>5. Side(wire)
  BY <1>1 DEF Laid, Reassembles, Side
<1>6. IF wire = <<>> THEN Starts(p) = 0
      ELSE wire[Len(wire)].more /\ Starts(p) = Ends(wire[Len(wire)])
  BY <1>3 DEF Laid, HalfWay
<1>7. Fits(p)
  BY <1>3 DEF Fits
<1>8. /\ Side(wire') /\ wire' # <<>> /\ wire'[Len(wire')] = p
  BY <1>1, <1>3, <1>4, <1>5, <1>6, <1>7, SideAppend
<1>9. Ends(p) = frag_offset + len
  BY <1>3 DEF Ends
<1> QED BY <1>3, <1>8, <1>9

LEMMA StepLaid ==
  Typed /\ Laid /\ [SendingStep]_fragVars => Laid'
<1> SUFFICES ASSUME Typed, Laid, [SendingStep]_fragVars PROVE Laid'
  OBVIOUS
<1>m. cfg \in Sender /\ cfg.virtual_mtu \in VirtualMtus
  BY SenderFields DEF Typed, FragmentationTypeOK
<1>1. ASSUME EndOfFile PROVE Laid'
  BY <1>1 DEF EndOfFile, datagram, Laid, Reassembles, HalfWay
<1>2. ASSUME NEW n \in 1 .. MaxPayload, SendIpHandler(n) PROVE Laid'
  BY <1>2 DEF SendIpHandler, Laid, Reassembles, HalfWay
<1>3. ASSUME NEW outcome \in Outcomes, SendWhole(outcome) PROVE Laid'
  <2>1. /\ size \in 0 .. MaxPayload /\ cfg.opt_mf \in BOOLEAN
        /\ cfg.ip_frag_offset \in Field16
    BY <1>m, SenderFields DEF Typed, FragmentationTypeOK
  <2>2. SendIp(size, cfg.opt_mf, cfg.ip_frag_offset, outcome)
    BY <1>3 DEF SendWhole
  <2>3. cfg'.opt_fragment = cfg.opt_fragment
    BY <2>1, <2>2, SendIpTyped DEF Typed
  <2>4. ~ cfg.opt_fragment /\ handler' = "idle"
    BY <1>3 DEF SendWhole, Returns, Typed, Progress
  <2> QED BY <2>3, <2>4 DEF Laid, Reassembles, HalfWay
<1>4. ASSUME NEW outcome \in Outcomes, SendPiece(outcome) PROVE Laid'
  <2>1. /\ handler = "pieces" /\ remainder > cfg.virtual_mtu
        /\ SendIp(cfg.virtual_mtu, TRUE, frag_offset, outcome)
        /\ frag_offset' = frag_offset + cfg.virtual_mtu
        /\ handler' = "pieces"
    BY <1>4 DEF SendPiece, Advance
  <2>2. cfg.virtual_mtu \in 0 .. MaxPayload /\ cfg.virtual_mtu % 8 = 0
    <3>1. cfg.virtual_mtu \in 8 .. MaxField /\ cfg.virtual_mtu % 8 = 0
      BY <1>m DEF VirtualMtus
    <3>2. remainder \in 0 .. MaxPayload
      BY DEF Typed, FragmentationTypeOK
    <3> QED BY <2>1, <3>1, <3>2, Limits
  <2>3. /\ Side(wire') /\ wire' # <<>> /\ wire'[Len(wire')].more
        /\ Ends(wire'[Len(wire')]) = frag_offset'
    BY <2>1, <2>2, PieceLaid
  <2> QED BY <2>1, <2>3 DEF Laid, Reassembles, HalfWay, Side
<1>5. ASSUME NEW outcome \in Outcomes, SendLast(outcome) PROVE Laid'
  <2>1. /\ handler = "pieces" /\ handler' = "idle"
        /\ SendIp(remainder, FALSE, frag_offset, outcome)
        /\ size' = size
    BY <1>5 DEF SendLast, Returns, SendIp
  <2>2. remainder \in 0 .. MaxPayload /\ frag_offset + remainder = size
    BY <2>1 DEF Typed, FragmentationTypeOK, Progress
  <2>3. /\ Side(wire') /\ wire' # <<>> /\ ~ wire'[Len(wire')].more
        /\ Ends(wire'[Len(wire')]) = size'
    BY <2>1, <2>2, PieceLaid
  <2> QED BY <2>1, <2>3 DEF Laid, Reassembles, HalfWay, Side
<1>6. ASSUME UNCHANGED fragVars PROVE Laid'
  BY <1>6 DEF fragVars, datagram, Laid, Reassembles, HalfWay
<1> QED
  BY <1>1, <1>2, <1>3, <1>4, <1>5, <1>6 DEF SendingStep

(***************************************************************************)
(* send_ip_handler(): the pieces of a payload lie side by side, whatever   *)
(* became of those before, for every payload, interface and size of the    *)
(* pieces, and for every combination of the options of the user.           *)
(***************************************************************************)
THEOREM PiecesReassemble == FragmentationSpec => []Reassembles
<1>1. FragmentationInit => Typed /\ Laid
  BY InitTyped, InitProgress, InitLaid DEF Typed
<1>2. Typed /\ Laid => Reassembles
  BY DEF Laid
<1>3. Typed /\ Laid /\ [FragmentationNext]_fragVars => (Typed /\ Laid)'
  BY StepTyped, StepLaid, NextSends
<1> QED BY <1>1, <1>2, <1>3, PTL DEF FragmentationSpec

-----------------------------------------------------------------------------
(* The exit status.                                                        *)

(***************************************************************************)
(* Where a failure is noted at every place: in the stop reason while the   *)
(* loop runs (and in the status, for a scan, which looks at nothing else   *)
(* at the end), in the status before the loop and after it.  Nothing has   *)
(* stopped a loop in the middle of a packet.                               *)
(***************************************************************************)
Reported ==
  /\ failed /\ pc \in {"run", "finish"} =>
       stop_reason = "ERROR" /\ (Mode = "scan" => status = 1)
  /\ failed /\ pc \in {"apd_close", "restore", "close_wake", "close_raw", "exit"}
       => status = 1
  /\ pc = "sending" => stop_reason = "NONE" /\ ~ failed
  /\ pc \in DOMAIN After \cup {"parse", "apd_open", "apd_send", "setup"} => ~ failed

LEMMA StageNames ==
  /\ DOMAIN After = {"resolve", "interface", "socket", "capture", "activate",
                     "addresses", "pipe", "flags", "sigint", "sigterm",
                     "sigtstp"}
  /\ After["resolve"] = "interface" /\ After["interface"] = "socket"
  /\ After["socket"] = "capture" /\ After["capture"] = "activate"
  /\ After["activate"] = "addresses" /\ After["addresses"] = "pipe"
  /\ After["pipe"] = "flags" /\ After["flags"] = "sigint"
  /\ After["sigint"] = "sigterm" /\ After["sigterm"] = "sigtstp"
  /\ After["sigtstp"] = "setup"
  BY DEF After

LEMMA InitReported == SessionInit => Reported
  BY StageNames DEF SessionInit, Reported

LEMMA StartReported ==
  Reported /\ (ParseOptions \/ ApdOpen \/ ApdSend \/ ApdClose) => Reported'
<1> SUFFICES ASSUME Reported, ParseOptions \/ ApdOpen \/ ApdSend \/ ApdClose
             PROVE  Reported'
  OBVIOUS
<1> USE StageNames DEF Reported, Mode, Has, history, arrivals, resources
<1>1. CASE ParseOptions
  BY <1>1 DEF ParseOptions, Exits, Fails
<1>2. CASE ApdOpen
  BY <1>2 DEF ApdOpen, Fails
<1>3. CASE ApdSend
  BY <1>3 DEF ApdSend, Fails
<1>4. CASE ApdClose
  BY <1>4 DEF ApdClose, results
<1> QED BY <1>1, <1>2, <1>3, <1>4

LEMMA StagesReported == Reported /\ HpingInit => Reported'
<1> SUFFICES ASSUME Reported, HpingInit PROVE Reported'
  OBVIOUS
<1> DEFINE early == DOMAIN After \cup {"setup"}
<1>1. early \cap {"run", "finish", "apd_close", "restore", "close_wake",
                  "close_raw", "exit", "sending"} = {}
  BY StageNames
<1>2. ASSUME pc \in DOMAIN After, Proceeds PROVE pc' \in early
  BY <1>2, StageNames DEF Proceeds
<1>3. ASSUME pc \in DOMAIN After, Proceeds, UNCHANGED failed PROVE Reported'
  BY <1>1, <1>2, <1>3 DEF Reported
<1>4. ASSUME pc' = "restore", Fails PROVE Reported'
  BY <1>4, StageNames DEF Reported, Fails
<1> HIDE DEF early
<1>5. CASE StageFails \/ ActivateFails
  BY <1>4, <1>5 DEF StageFails, ActivateFails
<1>6. CASE LinkHeader
  BY <1>3, <1>4, <1>6, StageNames DEF LinkHeader
<1>7. CASE Resolve \/ GetIfName \/ OpenSockraw \/ OpenPcap
  BY <1>3, <1>7, StageNames
     DEF Resolve, GetIfName, OpenSockraw, OpenPcap, results
<1>8. CASE ResolveLocal \/ Pipe \/ ResetFlags \/ InstallHandler
  BY <1>3, <1>8, StageNames
     DEF ResolveLocal, Pipe, ResetFlags, InstallHandler, results
<1> QED BY <1>5, <1>6, <1>7, <1>8 DEF HpingInit

\* A loop that finds an error has had no reason to stop before.
LEMMA FailingReported ==
  ASSUME Reported, UNCHANGED command, ~ failed, stop_reason = "NONE", Failing,
         pc' \in {"run", "finish"}
  PROVE  Reported'
  BY StageNames DEF Reported, Failing, Stopping, Mode, Has

LEMMA RunReported ==
  Reported /\ UNCHANGED command /\ HpingRun => Reported'
<1> SUFFICES ASSUME Reported, UNCHANGED command, HpingRun PROVE Reported'
  OBVIOUS
<1>m. Mode' = Mode
  BY DEF Mode, Has
<1>r. Running => pc = "run" /\ stop_reason = "NONE" /\ ~ failed
  BY DEF Running, StopRequested, Reported
<1>1. CASE Setup
  BY <1>1, StageNames DEF Setup, Reported, Fails
<1>2. CASE LoopEnds
  BY <1>2, <1>m, StageNames DEF LoopEnds, Reported, Stopping
<1>3. CASE SendProbe \/ SendHcmp
  BY <1>3, <1>r, StageNames
     DEF SendProbe, SendHcmp, Reading, BeginPacket, Reported, results
<1>4. CASE ReachEnd \/ IdleTurn
  BY <1>4, <1>r, <1>m, StageNames DEF ReachEnd, IdleTurn, Reported, results, vars
<1>5. CASE BuildFails \/ WaitFails \/ WriteFails
  BY <1>5, <1>r, FailingReported DEF BuildFails, WaitFails, WriteFails, Reading
<1>6. CASE SendDatagram
  BY <1>6, <1>m, StageNames DEF SendDatagram, Reported, results
<1>7. CASE SendReturns
  <2>1. pc = "sending" /\ stop_reason = "NONE" /\ ~ failed
    BY <1>7 DEF SendReturns, Reported
  <2>2. CASE rc = 0
    BY <1>7, <2>1, <2>2, StageNames DEF SendReturns, Reported
  <2>3. CASE rc = -1 /\ Mode # "listen"
    BY <1>7, <2>1, <2>3, FailingReported DEF SendReturns
  <2>4. CASE rc = -1 /\ Mode = "listen"
    BY <1>7, <2>1, <2>4, StageNames DEF SendReturns, Reported, results
  <2> QED BY <1>7, <2>2, <2>3, <2>4 DEF SendReturns
<1>8. CASE LoopDone \/ CaptureEnds \/ ReadReply
  BY <1>8, <1>r, StageNames
     DEF LoopDone, CaptureEnds, ReadReply, Reading, Reported
<1>9. CASE Finish
  BY <1>9, StageNames DEF Finish, ExitStatus, Reported
<1> QED
  BY <1>1, <1>2, <1>3, <1>4, <1>5, <1>6, <1>7, <1>8, <1>9 DEF HpingRun

LEMMA EndReported ==
  Reported /\ (HpingDestroy \/ Rest \/ \E signo : Signal(signo)) => Reported'
<1> SUFFICES ASSUME Reported, HpingDestroy \/ Rest \/ \E signo : Signal(signo)
             PROVE  Reported'
  OBVIOUS
<1>1. CASE HpingDestroy
  BY <1>1, StageNames
     DEF HpingDestroy, RestoreHandlers, CloseWake, ClosePcap, CloseSockraw,
         Exits, Reported, results
<1>2. CASE Rest
  BY <1>2 DEF Rest, vars, Reported, Mode, Has, results
<1>3. ASSUME NEW signo, Signal(signo) PROVE Reported'
  BY <1>3, StageNames DEF Signal, Reported, Mode, Has, results
<1> QED BY <1>1, <1>2, <1>3

LEMMA StepReported == Reported /\ [SessionNext]_vars => Reported'
<1> SUFFICES ASSUME Reported, [SessionNext]_vars PROVE Reported'
  OBVIOUS
<1>1. CASE HpingRun
  <2>1. UNCHANGED command
    BY <1>1 DEF HpingRun, Setup, LoopEnds, SendProbe, ReachEnd, BuildFails,
         SendDatagram, SendReturns, LoopDone, WaitFails, CaptureEnds,
         ReadReply, WriteFails, SendHcmp, IdleTurn, Finish, BeginPacket, vars
  <2> QED BY <1>1, <2>1, RunReported
<1>2. CASE UNCHANGED vars
  BY <1>2 DEF vars, Reported, Mode, Has, results
<1> QED
  BY <1>1, <1>2, StartReported, StagesReported, EndReported
     DEF SessionNext, Process

(***************************************************************************)
(* main.c:33-34: whatever failed, and whatever else happened then, the     *)
(* status of a process that comes to its end is 1.                         *)
(***************************************************************************)
THEOREM EveryErrorReported == SessionSpec => []ErrorIsReported
<1>1. Reported => ErrorIsReported
  BY DEF Reported, ErrorIsReported
<1> QED BY <1>1, InitReported, StepReported, PTL DEF SessionSpec

-----------------------------------------------------------------------------
(* Descriptors and handlers.                                               *)

(***************************************************************************)
(* What is open is what the process holds; which of its descriptors are    *)
(* there follows from the place, the handlers too.  While the pipe is      *)
(* closed an end may be closed already, but not be in use again.           *)
(***************************************************************************)
Before == {"parse", "apd_open", "apd_send", "apd_close", "resolve",
           "interface", "socket"}
Piped  == {"sigterm", "sigtstp", "setup", "run", "sending", "finish", "restore"}

Numbered ==
  /\ pc \in Places
  /\ DOMAIN open \subseteq Descriptors
  /\ {sockraw, pcapfp, ars_socket} \subseteq Descriptors \cup {NONE}
  /\ wake_fd \in [1 .. 2 -> Descriptors \cup {NONE}]
  /\ handlers \subseteq {"SIGINT", "SIGTERM", "SIGTSTP"}
  /\ signals_installed \in BOOLEAN

Owned ==
  /\ DOMAIN open \subseteq {sockraw, pcapfp, ars_socket, wake_fd[1], wake_fd[2]}
  /\ Holds(sockraw, "raw") /\ Holds(pcapfp, "pcap") /\ Holds(ars_socket, "raw")
  /\ wake_fd[1] # NONE /\ wake_fd[1] \in DOMAIN open => open[wake_fd[1]] = "pipe"
  /\ wake_fd[2] # NONE /\ wake_fd[2] \in DOMAIN open => open[wake_fd[2]] = "pipe"
  /\ pc # "close_wake" => Holds(wake_fd[1], "pipe") /\ Holds(wake_fd[2], "pipe")
  /\ wake_fd[1] # NONE => wake_fd[1] # wake_fd[2]
  /\ ars_socket # NONE <=> pc \in {"apd_send", "apd_close"}

Placed ==
  /\ pc \in Before \cup {"exit"} => sockraw = NONE
  /\ pc \in Before \cup {"capture", "close_raw", "exit"} => pcapfp = NONE
  /\ pc \in Before \cup {"capture", "activate", "addresses", "pipe",
                         "close_raw", "exit"}
       => wake_fd[1] = NONE /\ wake_fd[2] = NONE
  /\ handlers # {} => pc \in Piped
  /\ pc \in {"setup", "run", "sending", "finish"} => signals_installed
  /\ pc = "restore" /\ handlers # {} => signals_installed

Tidy == Numbered /\ (pc # "killed" => Owned /\ Placed)

LEMMA LowestIsFree ==
  ASSUME NEW free \in SUBSET Descriptors, free # {}
  PROVE  Lowest(free) \in free
<1>1. \E fd \in free : \A other \in free : fd <= other
  <2>1. \A fd \in free : fd \in {3, 4, 5, 6, 7, 8, 9}
    BY DEF Descriptors
  <2> QED BY <2>1
<1> QED BY <1>1 DEF Lowest

LEMMA FreshFds ==
  ASSUME NEW a \in Int, NEW b \in Int, DOMAIN open \subseteq {a, b}
  PROVE  /\ NewFd \in Descriptors \ DOMAIN open
         /\ NextFd \in Descriptors \ (DOMAIN open \cup {NewFd})
<1>1. {3, 4, 5, 6} \subseteq Descriptors
  BY DEF Descriptors
<1>2. Descriptors \ DOMAIN open # {}
  <2>1. 3 \notin {a, b} \/ 4 \notin {a, b} \/ 5 \notin {a, b}
    OBVIOUS
  <2> QED BY <1>1, <2>1
<1>3. NewFd \in Descriptors \ DOMAIN open
  BY <1>2, LowestIsFree DEF NewFd
<1>4. NewFd \in Int
  BY <1>3 DEF Descriptors
<1>5. Descriptors \ (DOMAIN open \cup {NewFd}) # {}
  <2>1. \/ 3 \notin {a, b, NewFd} \/ 4 \notin {a, b, NewFd}
        \/ 5 \notin {a, b, NewFd} \/ 6 \notin {a, b, NewFd}
    BY <1>4
  <2> QED BY <1>1, <2>1
<1> QED BY <1>3, <1>5, LowestIsFree DEF NextFd

\* A descriptor that is closed takes nothing else with it.
LEMMA ClosedFd ==
  ASSUME NEW fd
  PROVE  /\ DOMAIN Closed(fd) = DOMAIN open \ {fd}
         /\ \A other \in DOMAIN open \ {fd} : Closed(fd)[other] = open[other]
  BY DEF Closed, Restrict

LEMMA OpenedFds ==
  ASSUME NEW fds, NEW kind
  PROVE  /\ DOMAIN Opened(fds, kind) = DOMAIN open \cup fds
         /\ \A fd \in fds : Opened(fds, kind)[fd] = kind
         /\ \A fd \in DOMAIN open \ fds : Opened(fds, kind)[fd] = open[fd]
  BY DEF Opened

LEMMA InitTidy == SessionInit => Tidy
<1> SUFFICES ASSUME SessionInit PROVE Tidy
  OBVIOUS
<1>1. /\ pc = "parse" /\ DOMAIN open = {} /\ handlers = {}
      /\ sockraw = NONE /\ pcapfp = NONE /\ ars_socket = NONE
      /\ wake_fd[1] = NONE /\ wake_fd[2] = NONE /\ signals_installed = FALSE
      /\ wake_fd \in [1 .. 2 -> {NONE}]
  BY DEF SessionInit
<1>2. Numbered
  BY <1>1 DEF Numbered, Places
<1>3. Owned
  BY <1>1 DEF Owned, Holds
<1>4. Placed
  BY <1>1 DEF Placed, Piped
<1> QED BY <1>2, <1>3, <1>4 DEF Tidy

(***************************************************************************)
(* A step that opens and closes nothing and installs nothing, between two  *)
(* places in which the same is open.                                       *)
(***************************************************************************)
Calm(p) ==
  CASE p \in {"parse", "resolve", "interface", "socket", "apd_open"} -> 1
    [] p \in {"apd_send", "apd_close"} -> 2
    [] p \in {"activate", "addresses", "pipe"} -> 3
    [] p \in {"flags", "sigint"} -> 4
    [] p \in {"setup", "run", "sending", "finish"} -> 5
    [] OTHER -> 0

LEMMA CalmTidy ==
  ASSUME Tidy, UNCHANGED resources, pc' \in Places,
         \/ pc' = pc
         \/ Calm(pc) = Calm(pc') /\ Calm(pc) # 0
         \/ pc = "parse" /\ pc' = "exit"
         \/ pc' = "restore" /\ Calm(pc) \in {1, 3, 5}
  PROVE  Tidy'
<1>1. Numbered'
  BY DEF Tidy, Numbered, resources
<1>2. ASSUME pc # "killed" PROVE Owned' /\ pc' # "killed"
  BY <1>2 DEF Tidy, Owned, resources, Calm, Holds
<1>3. ASSUME pc # "killed" PROVE Placed'
  BY <1>3 DEF Tidy, Placed, resources, Calm, Before, Piped
<1>4. pc = "killed" => pc' = "killed"
  BY DEF Calm
<1> QED BY <1>1, <1>2, <1>3, <1>4 DEF Tidy

LEMMA PlacesKnown ==
  Places = {"resolve", "interface", "socket", "capture", "activate",
            "addresses", "pipe", "flags", "sigint", "sigterm", "sigtstp",
            "parse", "apd_open", "apd_send", "apd_close", "setup", "run",
            "sending", "finish", "restore", "close_wake", "close_raw", "exit",
            "killed"}
  BY StageNames DEF Places

LEMMA StartTidy ==
  Tidy /\ (ParseOptions \/ ApdOpen \/ ApdSend \/ ApdClose) => Tidy'
<1> SUFFICES ASSUME Tidy, ParseOptions \/ ApdOpen \/ ApdSend \/ ApdClose
             PROVE  Tidy'
  OBVIOUS
<1>1. CASE ParseOptions
  <2>1. UNCHANGED resources /\ pc = "parse" /\ pc' \in {"exit", "apd_open", "resolve"}
    BY <1>1 DEF ParseOptions, Exits
  <2> QED BY <2>1, CalmTidy, PlacesKnown DEF Calm
<1>2. CASE ApdOpen
  <2>1. CASE pc' = "restore"
    <3>1. UNCHANGED resources /\ pc = "apd_open"
      BY <1>2, <2>1 DEF ApdOpen, resources
    <3> QED BY <2>1, <3>1, CalmTidy, PlacesKnown DEF Calm
  <2>2. CASE pc' # "restore"
    <3>1. /\ pc = "apd_open" /\ pc' = "apd_send"
          /\ ars_socket' = NewFd /\ open' = Opened({NewFd}, "raw")
          /\ UNCHANGED <<sockraw, pcapfp, wake_fd, signals_installed, handlers>>
      BY <1>2, <2>2 DEF ApdOpen
    <3>2. /\ sockraw = NONE /\ pcapfp = NONE /\ wake_fd[1] = NONE
          /\ wake_fd[2] = NONE /\ ars_socket = NONE /\ handlers = {}
      BY <3>1 DEF Tidy, Owned, Placed, Before, Piped
    <3>3. DOMAIN open \subseteq {NONE}
      BY <3>1, <3>2 DEF Tidy, Owned
    <3>4. NewFd \in Descriptors \ DOMAIN open
      BY <3>3, FreshFds DEF NONE
    <3>5. DOMAIN open' = DOMAIN open \cup {NewFd} /\ open'[NewFd] = "raw"
      BY <3>1, OpenedFds
    <3>6. Numbered'
      BY <3>1, <3>4, <3>5, PlacesKnown DEF Tidy, Numbered
    <3>7. Owned'
      BY <3>1, <3>2, <3>3, <3>4, <3>5 DEF Owned, Holds, NONE, Descriptors
    <3>8. Placed'
      BY <3>1, <3>2 DEF Placed, Before, Piped
    <3> QED BY <3>6, <3>7, <3>8 DEF Tidy
  <2> QED BY <2>1, <2>2
<1>3. CASE ApdSend
  <2>1. UNCHANGED resources /\ pc = "apd_send" /\ pc' = "apd_close"
    BY <1>3 DEF ApdSend
  <2> QED BY <2>1, CalmTidy, PlacesKnown DEF Calm
<1>4. CASE ApdClose
  <2>1. /\ pc = "apd_close" /\ pc' = "restore"
        /\ open' = Closed(ars_socket) /\ ars_socket' = NONE
        /\ UNCHANGED <<sockraw, pcapfp, wake_fd, signals_installed, handlers>>
    BY <1>4 DEF ApdClose
  <2>2. /\ sockraw = NONE /\ pcapfp = NONE /\ wake_fd[1] = NONE
        /\ wake_fd[2] = NONE /\ handlers = {}
    BY <2>1 DEF Tidy, Placed, Before, Piped
  <2>3. DOMAIN open' = DOMAIN open \ {ars_socket}
    BY <2>1, ClosedFd
  <2>4. Numbered'
    BY <2>1, <2>3, PlacesKnown DEF Tidy, Numbered
  <2>5. Owned'
    BY <2>1, <2>2, <2>3 DEF Tidy, Owned, Holds
  <2>6. Placed'
    BY <2>1, <2>2 DEF Placed, Before, Piped
  <2> QED BY <2>4, <2>5, <2>6 DEF Tidy
<1> QED BY <1>1, <1>2, <1>3, <1>4

LEMMA StagesTidy == Tidy /\ HpingInit => Tidy'
<1> SUFFICES ASSUME Tidy, HpingInit PROVE Tidy'
  OBVIOUS
<1>1. CASE StageFails
  <2>1. /\ UNCHANGED resources /\ pc' = "restore"
        /\ pc \in {"resolve", "socket", "capture", "interface", "addresses", "pipe"}
    BY <1>1 DEF StageFails
  <2>2. CASE pc # "capture"
    BY <2>1, <2>2, CalmTidy, PlacesKnown DEF Calm
  <2>3. CASE pc = "capture"
    <3>1. Numbered'
      BY <2>1, PlacesKnown DEF Tidy, Numbered, resources
    <3>2. Owned'
      BY <2>1, <2>3 DEF Tidy, Owned, Holds, resources
    <3>3. Placed'
      BY <2>1, <2>3 DEF Tidy, Placed, Before, Piped, resources
    <3> QED BY <3>1, <3>2, <3>3 DEF Tidy
  <2> QED BY <2>2, <2>3
<1>2. CASE Resolve \/ GetIfName \/ ResolveLocal \/ ResetFlags
  <2>1. /\ UNCHANGED resources
        /\ \/ pc = "resolve" /\ pc' = "interface"
           \/ pc = "interface" /\ pc' = "socket"
           \/ pc = "addresses" /\ pc' = "pipe"
           \/ pc = "flags" /\ pc' = "sigint"
    BY <1>2, StageNames DEF Resolve, GetIfName, ResolveLocal, ResetFlags, Proceeds
  <2> QED BY <2>1, CalmTidy, PlacesKnown DEF Calm
<1>3. CASE LinkHeader
  <2>1. UNCHANGED resources /\ pc = "activate" /\ pc' \in {"addresses", "restore"}
    BY <1>3, StageNames DEF LinkHeader, Proceeds
  <2> QED BY <2>1, CalmTidy, PlacesKnown DEF Calm
<1>4. CASE OpenSockraw
  <2>1. /\ pc = "socket" /\ pc' = "capture"
        /\ UNCHANGED <<pcapfp, wake_fd, signals_installed, ars_socket, handlers>>
    BY <1>4, StageNames DEF OpenSockraw, Proceeds
  <2>2. /\ sockraw = NONE /\ pcapfp = NONE /\ wake_fd[1] = NONE
        /\ wake_fd[2] = NONE /\ ars_socket = NONE /\ handlers = {}
    BY <2>1 DEF Tidy, Owned, Placed, Before, Piped
  <2>3. DOMAIN open \subseteq {NONE}
    BY <2>1, <2>2 DEF Tidy, Owned
  <2>4. Placed'
    BY <2>1, <2>2 DEF Placed, Before, Piped
  <2>5. CASE UNCHANGED <<sockraw, open>>
    <3>1. Numbered'
      BY <2>1, <2>5, PlacesKnown DEF Tidy, Numbered
    <3>2. Owned'
      BY <2>1, <2>2, <2>3, <2>5 DEF Owned, Holds
    <3> QED BY <2>4, <3>1, <3>2 DEF Tidy
  <2>6. CASE sockraw' = NewFd /\ open' = Opened({NewFd}, "raw")
    <3>1. NewFd \in Descriptors \ DOMAIN open
      BY <2>3, FreshFds DEF NONE
    <3>2. DOMAIN open' = DOMAIN open \cup {NewFd} /\ open'[NewFd] = "raw"
      BY <2>6, OpenedFds
    <3>3. Numbered'
      BY <2>1, <2>6, <3>1, <3>2, PlacesKnown DEF Tidy, Numbered
    <3>4. Owned'
      BY <2>1, <2>2, <2>3, <2>6, <3>1, <3>2 DEF Owned, Holds, NONE, Descriptors
    <3> QED BY <2>4, <3>3, <3>4 DEF Tidy
  <2> QED BY <1>4, <2>5, <2>6 DEF OpenSockraw
<1>5. CASE OpenPcap
  <2>1. /\ pc = "capture" /\ pc' = "activate"
        /\ UNCHANGED <<sockraw, wake_fd, signals_installed, ars_socket, handlers>>
    BY <1>5, StageNames DEF OpenPcap, Proceeds
  <2>2. /\ pcapfp = NONE /\ wake_fd[1] = NONE
        /\ wake_fd[2] = NONE /\ ars_socket = NONE /\ handlers = {}
        /\ Holds(sockraw, "raw")
    BY <2>1 DEF Tidy, Owned, Placed, Before, Piped
  <2>3. DOMAIN open \subseteq {NONE, sockraw}
    BY <2>1, <2>2 DEF Tidy, Owned
  <2>4. Placed'
    BY <2>1, <2>2 DEF Placed, Before, Piped
  <2>5. CASE UNCHANGED <<pcapfp, open>>
    <3>1. Numbered'
      BY <2>1, <2>5, PlacesKnown DEF Tidy, Numbered
    <3>2. Owned'
      BY <2>1, <2>2, <2>3, <2>5 DEF Owned, Holds
    <3> QED BY <2>4, <3>1, <3>2 DEF Tidy
  <2>6. CASE pcapfp' = NewFd /\ open' = Opened({NewFd}, "pcap")
    <3>1. NewFd \in Descriptors \ DOMAIN open
      <4>1. NONE \in Int /\ sockraw \in Int
        BY DEF Tidy, Numbered, NONE, Descriptors
      <4> QED BY <2>3, <4>1, FreshFds
    <3>2. /\ DOMAIN open' = DOMAIN open \cup {NewFd} /\ open'[NewFd] = "pcap"
          /\ \A fd \in DOMAIN open \ {NewFd} : open'[fd] = open[fd]
      <4> DEFINE next == Opened({NewFd}, "pcap")
      <4>1. /\ DOMAIN next = DOMAIN open \cup {NewFd} /\ next[NewFd] = "pcap"
            /\ \A fd \in DOMAIN open \ {NewFd} : next[fd] = open[fd]
        BY OpenedFds
      <4> HIDE DEF next
      <4>2. open' = next
        BY <2>6 DEF next
      <4> QED BY <4>1, <4>2
    <3>3. Numbered'
      BY <2>1, <2>6, <3>1, <3>2, PlacesKnown DEF Tidy, Numbered
    <3>4. Owned'
      BY <2>1, <2>2, <2>3, <2>6, <3>1, <3>2 DEF Owned, Holds, NONE, Descriptors
    <3> QED BY <2>4, <3>3, <3>4 DEF Tidy
  <2> QED BY <1>5, <2>5, <2>6 DEF OpenPcap
<1>6. CASE ActivateFails
  <2>1. /\ pc = "activate" /\ pc' = "restore"
        /\ open' = Closed(pcapfp) /\ pcapfp' = NONE
        /\ UNCHANGED <<sockraw, wake_fd, signals_installed, ars_socket, handlers>>
    BY <1>6 DEF ActivateFails
  <2>2. /\ wake_fd[1] = NONE /\ wake_fd[2] = NONE /\ ars_socket = NONE
        /\ handlers = {} /\ Holds(sockraw, "raw") /\ Holds(pcapfp, "pcap")
    BY <2>1 DEF Tidy, Owned, Placed, Before, Piped
  <2>3. /\ DOMAIN open' = DOMAIN open \ {pcapfp}
        /\ \A fd \in DOMAIN open \ {pcapfp} : open'[fd] = open[fd]
    BY <2>1, ClosedFd
  <2>4. Numbered'
    BY <2>1, <2>3, PlacesKnown DEF Tidy, Numbered
  <2>5. DOMAIN open \subseteq {NONE, sockraw, pcapfp}
    BY <2>1, <2>2 DEF Tidy, Owned
  <2>6. sockraw = pcapfp => sockraw = NONE
    BY <2>2 DEF Holds
  <2>7. Owned'
    BY <2>1, <2>2, <2>3, <2>5, <2>6 DEF Owned, Holds
  <2>8. Placed'
    BY <2>1, <2>2 DEF Placed, Before, Piped
  <2> QED BY <2>4, <2>7, <2>8 DEF Tidy
<1>7. CASE Pipe
  <2>1. /\ pc = "pipe" /\ pc' = "flags"
        /\ wake_fd' = <<NewFd, NextFd>> /\ open' = Opened({NewFd, NextFd}, "pipe")
        /\ UNCHANGED <<sockraw, pcapfp, signals_installed, ars_socket, handlers>>
    BY <1>7, StageNames DEF Pipe, Proceeds
  <2>2. /\ wake_fd[1] = NONE /\ wake_fd[2] = NONE /\ ars_socket = NONE
        /\ handlers = {} /\ Holds(sockraw, "raw") /\ Holds(pcapfp, "pcap")
    BY <2>1 DEF Tidy, Owned, Placed, Before, Piped
  <2>3. DOMAIN open \subseteq {sockraw, pcapfp}
    <3>1. DOMAIN open \subseteq {NONE, sockraw, pcapfp} /\ NONE \notin DOMAIN open
      BY <2>1, <2>2 DEF Tidy, Owned, Numbered, Descriptors, NONE
    <3> QED BY <3>1
  <2>4. /\ NewFd \in Descriptors \ DOMAIN open
        /\ NextFd \in Descriptors \ (DOMAIN open \cup {NewFd})
    <3>1. sockraw \in Int /\ pcapfp \in Int
      BY DEF Tidy, Numbered, NONE, Descriptors
    <3> QED BY <2>3, <3>1, FreshFds
  <2>5. /\ DOMAIN open' = DOMAIN open \cup {NewFd, NextFd}
        /\ open'[NewFd] = "pipe" /\ open'[NextFd] = "pipe"
        /\ \A fd \in DOMAIN open \ {NewFd, NextFd} : open'[fd] = open[fd]
    <3> DEFINE next == Opened({NewFd, NextFd}, "pipe")
    <3>1. /\ DOMAIN next = DOMAIN open \cup {NewFd, NextFd}
          /\ next[NewFd] = "pipe" /\ next[NextFd] = "pipe"
          /\ \A fd \in DOMAIN open \ {NewFd, NextFd} : next[fd] = open[fd]
      <4> DEFINE ends == {NewFd, NextFd}
      <4>1. NewFd \in ends /\ NextFd \in ends
        OBVIOUS
      <4> HIDE DEF ends
      <4>2. /\ DOMAIN Opened(ends, "pipe") = DOMAIN open \cup ends
            /\ \A fd \in ends : Opened(ends, "pipe")[fd] = "pipe"
            /\ \A fd \in DOMAIN open \ ends : Opened(ends, "pipe")[fd] = open[fd]
        BY OpenedFds
      <4>3. next = Opened(ends, "pipe")
        BY DEF ends
      <4> HIDE DEF next
      <4>4. /\ DOMAIN next = DOMAIN open \cup ends
            /\ next[NewFd] = "pipe" /\ next[NextFd] = "pipe"
            /\ \A fd \in DOMAIN open \ ends : next[fd] = open[fd]
        BY <4>1, <4>2, <4>3
      <4> QED BY <4>4 DEF ends
    <3> HIDE DEF next
    <3>2. open' = next
      BY <2>1 DEF next
    <3> QED BY <3>1, <3>2
  <2>6. wake_fd'[1] = NewFd /\ wake_fd'[2] = NextFd
    BY <2>1
  <2>7. wake_fd' \in [1 .. 2 -> Descriptors \cup {NONE}]
    BY <2>1, <2>4
  <2>8. Numbered'
    BY <2>1, <2>4, <2>5, <2>7, PlacesKnown DEF Tidy, Numbered
  <2>9. Owned'
    BY <2>1, <2>2, <2>3, <2>4, <2>5, <2>6 DEF Owned, Holds, NONE, Descriptors
  <2>10. Placed'
    BY <2>1, <2>2 DEF Placed, Before, Piped
  <2> QED BY <2>8, <2>9, <2>10 DEF Tidy
<1>8. CASE InstallHandler
  <2>1. /\ \/ pc = "sigint" /\ pc' = "sigterm"
           \/ pc = "sigterm" /\ pc' = "sigtstp"
           \/ pc = "sigtstp" /\ pc' = "setup"
        /\ handlers' \subseteq handlers \cup {"SIGINT", "SIGTERM", "SIGTSTP"}
        /\ signals_installed' = (pc = "sigtstp")
        /\ UNCHANGED <<sockraw, pcapfp, wake_fd, ars_socket, open>>
    BY <1>8, StageNames DEF InstallHandler, Proceeds
  <2>2. Numbered'
    BY <2>1, PlacesKnown DEF Tidy, Numbered
  <2>3. Owned'
    BY <2>1 DEF Tidy, Owned, Holds
  <2>4. Placed'
    BY <2>1 DEF Tidy, Placed, Before, Piped
  <2> QED BY <2>2, <2>3, <2>4 DEF Tidy
<1> QED
  BY <1>1, <1>2, <1>3, <1>4, <1>5, <1>6, <1>7, <1>8 DEF HpingInit

LEMMA RunTidy == Tidy /\ HpingRun => Tidy'
<1> SUFFICES ASSUME Tidy, HpingRun PROVE Tidy'
  OBVIOUS
<1>1. CASE Setup
  <2>1. UNCHANGED resources /\ pc = "setup" /\ pc' \in {"run", "restore"}
    BY <1>1 DEF Setup
  <2> QED BY <2>1, CalmTidy, PlacesKnown DEF Calm
<1>2. CASE Finish
  <2>1. UNCHANGED resources /\ pc = "finish" /\ pc' = "restore"
    BY <1>2 DEF Finish
  <2> QED BY <2>1, CalmTidy, PlacesKnown DEF Calm
<1>3. CASE \/ LoopEnds \/ SendProbe \/ ReachEnd \/ BuildFails \/ LoopDone
           \/ WaitFails \/ CaptureEnds \/ ReadReply \/ WriteFails \/ SendHcmp
           \/ IdleTurn
  <2>1. UNCHANGED resources /\ pc = "run" /\ pc' \in {"run", "sending", "finish"}
    BY <1>3 DEF LoopEnds, SendProbe, ReachEnd, BuildFails, LoopDone, WaitFails,
         CaptureEnds, ReadReply, WriteFails, SendHcmp, IdleTurn, Reading,
         Running, BeginPacket, vars
  <2> QED BY <2>1, CalmTidy, PlacesKnown DEF Calm
<1>4. CASE SendDatagram \/ SendReturns
  <2>1. UNCHANGED resources /\ pc = "sending" /\ pc' \in {"run", "sending", "finish"}
    BY <1>4 DEF SendDatagram, SendReturns
  <2> QED BY <2>1, CalmTidy, PlacesKnown DEF Calm
<1> QED BY <1>1, <1>2, <1>3, <1>4 DEF HpingRun

LEMMA DestroyTidy == Tidy /\ HpingDestroy => Tidy'
<1> SUFFICES ASSUME Tidy, HpingDestroy PROVE Tidy'
  OBVIOUS
<1>1. CASE RestoreHandlers
  <2>1. /\ pc = "restore" /\ pc' = "close_wake" /\ signals_installed' = FALSE
        /\ handlers' = IF signals_installed THEN {} ELSE handlers
        /\ UNCHANGED <<sockraw, pcapfp, wake_fd, ars_socket, open>>
    BY <1>1 DEF RestoreHandlers
  <2>2. handlers' = {}
    BY <2>1 DEF Tidy, Placed
  <2>3. Numbered'
    BY <2>1, <2>2, PlacesKnown DEF Tidy, Numbered
  <2>4. Owned'
    BY <2>1 DEF Tidy, Owned, Holds
  <2>5. Placed'
    BY <2>1, <2>2 DEF Placed, Before, Piped
  <2> QED BY <2>3, <2>4, <2>5 DEF Tidy
<1>2. CASE CloseWake
  <2>1. PICK i \in 1 .. 2 :
           /\ wake_fd[i] # NONE /\ (i = 2 => wake_fd[1] = NONE)
           /\ IF wake_fd[i] \in DOMAIN open
              THEN open' = Closed(wake_fd[i]) /\ UNCHANGED wake_fd
              ELSE wake_fd' = [wake_fd EXCEPT ![i] = NONE] /\ UNCHANGED open
    BY <1>2 DEF CloseWake
  <2>2. /\ pc = "close_wake" /\ pc' = pc
        /\ UNCHANGED <<sockraw, pcapfp, signals_installed, ars_socket, handlers>>
    BY <1>2 DEF CloseWake
  <2>3. handlers = {}
    BY <2>2 DEF Tidy, Placed, Piped
  <2>4. Placed'
    BY <2>2, <2>3 DEF Placed, Before, Piped
  <2>5. CASE wake_fd[i] \in DOMAIN open
    <3>1. open' = Closed(wake_fd[i]) /\ UNCHANGED wake_fd
      BY <2>1, <2>5
    <3>2. open[wake_fd[i]] = "pipe"
      BY <2>1, <2>2, <2>5 DEF Tidy, Owned
    <3>3. /\ DOMAIN open' = DOMAIN open \ {wake_fd[i]}
          /\ \A fd \in DOMAIN open \ {wake_fd[i]} : open'[fd] = open[fd]
      BY <3>1, ClosedFd
    <3>4. Numbered'
      BY <2>2, <3>1, <3>3 DEF Tidy, Numbered
    <3>5. Owned'
      BY <2>2, <3>1, <3>2, <3>3 DEF Tidy, Owned, Holds
    <3> QED BY <2>4, <3>4, <3>5 DEF Tidy
  <2>6. CASE wake_fd[i] \notin DOMAIN open
    <3>1. wake_fd' = [wake_fd EXCEPT ![i] = NONE] /\ UNCHANGED open
      BY <2>1, <2>6
    <3>2. Numbered'
      BY <2>2, <3>1 DEF Tidy, Numbered
    <3>3. /\ wake_fd'[i] = NONE
          /\ \A k \in 1 .. 2 : k # i => wake_fd'[k] = wake_fd[k]
      BY <3>1 DEF Tidy, Numbered
    <3>4. Owned'
      BY <2>1, <2>2, <2>6, <3>1, <3>3 DEF Tidy, Owned, Holds
    <3> QED BY <2>4, <3>2, <3>4 DEF Tidy
  <2> QED BY <2>5, <2>6
<1>3. CASE ClosePcap
  <2>1. /\ pc = "close_wake" /\ pc' = "close_raw" /\ wake_fd[1] = NONE
        /\ wake_fd[2] = NONE /\ pcapfp' = NONE
        /\ open' = IF pcapfp # NONE THEN Closed(pcapfp) ELSE open
        /\ UNCHANGED <<sockraw, wake_fd, signals_installed, ars_socket, handlers>>
    BY <1>3 DEF ClosePcap
  <2>2. /\ ars_socket = NONE /\ handlers = {}
        /\ Holds(sockraw, "raw") /\ Holds(pcapfp, "pcap")
    BY <2>1 DEF Tidy, Owned, Placed, Piped
  <2>3. DOMAIN open \subseteq {sockraw, pcapfp} /\ NONE \notin DOMAIN open
    <3>1. DOMAIN open \subseteq {NONE, sockraw, pcapfp} /\ NONE \notin DOMAIN open
      BY <2>1, <2>2 DEF Tidy, Owned, Numbered, Descriptors, NONE
    <3> QED BY <3>1
  <2>4. /\ DOMAIN open' = DOMAIN open \ {pcapfp}
        /\ \A fd \in DOMAIN open \ {pcapfp} : open'[fd] = open[fd]
    BY <2>1, <2>3, ClosedFd
  <2>5. sockraw = pcapfp => sockraw = NONE
    BY <2>2 DEF Holds
  <2>6. Numbered'
    BY <2>1, <2>4, PlacesKnown DEF Tidy, Numbered
  <2>7. Owned'
    BY <2>1, <2>2, <2>3, <2>4, <2>5 DEF Owned, Holds
  <2>8. Placed'
    BY <2>1, <2>2 DEF Placed, Before, Piped
  <2> QED BY <2>6, <2>7, <2>8 DEF Tidy
<1>4. CASE CloseSockraw
  <2>1. /\ pc = "close_raw" /\ pc' = "exit" /\ sockraw' = NONE
        /\ open' = IF sockraw # NONE THEN Closed(sockraw) ELSE open
        /\ UNCHANGED <<pcapfp, wake_fd, signals_installed, ars_socket, handlers>>
    BY <1>4 DEF CloseSockraw, Exits
  <2>2. /\ ars_socket = NONE /\ handlers = {} /\ pcapfp = NONE
        /\ wake_fd[1] = NONE /\ wake_fd[2] = NONE
    BY <2>1 DEF Tidy, Owned, Placed, Piped
  <2>3. DOMAIN open \subseteq {sockraw} /\ NONE \notin DOMAIN open
    <3>1. DOMAIN open \subseteq {NONE, sockraw} /\ NONE \notin DOMAIN open
      BY <2>1, <2>2 DEF Tidy, Owned, Numbered, Descriptors, NONE
    <3> QED BY <3>1
  <2>4. DOMAIN open' = {}
    BY <2>1, <2>3, ClosedFd
  <2>5. Numbered'
    BY <2>1, <2>4, PlacesKnown DEF Tidy, Numbered
  <2>6. Owned'
    BY <2>1, <2>2, <2>4 DEF Owned, Holds
  <2>7. Placed'
    BY <2>1, <2>2 DEF Placed, Before, Piped
  <2> QED BY <2>5, <2>6, <2>7 DEF Tidy
<1> QED BY <1>1, <1>2, <1>3, <1>4 DEF HpingDestroy

LEMMA SignalTidy ==
  ASSUME Tidy, NEW signo, Signal(signo)
  PROVE  Tidy'
<1>1. CASE signo \in handlers
  <2>1. UNCHANGED <<pc, open, handlers, sockraw, pcapfp, wake_fd,
                    signals_installed, ars_socket>>
    BY <1>1 DEF Signal
  <2> QED BY <2>1 DEF Tidy, Numbered, Owned, Placed, Holds
<1>2. CASE signo \notin handlers
  <2>1. /\ pc' = "killed" /\ DOMAIN open' = {} /\ handlers' = {}
        /\ UNCHANGED <<sockraw, pcapfp, wake_fd, signals_installed, ars_socket>>
    BY <1>2 DEF Signal
  <2> QED BY <2>1, PlacesKnown DEF Tidy, Numbered
<1> QED BY <1>1, <1>2

LEMMA StepTidy == Tidy /\ [SessionNext]_vars => Tidy'
<1> SUFFICES ASSUME Tidy, [SessionNext]_vars PROVE Tidy'
  OBVIOUS
<1>1. CASE UNCHANGED vars
  BY <1>1 DEF vars, resources, Tidy, Numbered, Owned, Placed, Holds
<1> QED
  BY <1>1, StartTidy, StagesTidy, RunTidy, DestroyTidy, SignalTidy
     DEF SessionNext, Process, Rest

(***************************************************************************)
(* lifecycle.c:7-12: whichever stage failed, whatever the loop was and     *)
(* wherever a signal came, nothing is closed twice or in the place of      *)
(* another, and nothing is left at the exit.                               *)
(***************************************************************************)
THEOREM EverythingReleasedOnce == SessionSpec => []ReleasedOnce
<1>1. Tidy => ReleasedOnce
  <2> SUFFICES ASSUME Tidy, pc # "killed" PROVE ReleasedOnce
    BY DEF ReleasedOnce
  <2>1. /\ Holds(sockraw, "raw") /\ Holds(pcapfp, "pcap") /\ Holds(ars_socket, "raw")
    BY DEF Tidy, Owned
  <2>2. pc # "close_wake" => \A i \in 1 .. 2 : Holds(wake_fd[i], "pipe")
    BY DEF Tidy, Owned
  <2>3. handlers # {} => Holds(wake_fd[2], "pipe")
    BY DEF Tidy, Owned, Placed, Piped
  <2>4. pc = "exit" => DOMAIN open = {} /\ handlers = {}
    <3>1. pc = "exit" => DOMAIN open \subseteq {NONE}
      BY DEF Tidy, Owned, Placed
    <3>2. NONE \notin DOMAIN open
      BY DEF Tidy, Numbered, Descriptors, NONE
    <3>3. pc = "exit" => handlers = {}
      BY DEF Tidy, Placed, Piped
    <3> QED BY <3>1, <3>2, <3>3
  <2> QED BY <2>1, <2>2, <2>3, <2>4 DEF ReleasedOnce
<1> QED BY <1>1, InitTidy, StepTidy, PTL DEF SessionSpec

-----------------------------------------------------------------------------
(* Nothing is sent offline.                                                *)

Offline == (Has("dry_run") \/ Has("read")) /\ ~ Has("apd_send")

\* Without a raw socket the only datagrams that count as sent are printed.
Silent ==
  Offline => /\ sent_to = {} /\ sockraw = NONE
             /\ pc \notin {"apd_open", "apd_send", "apd_close"}
             /\ \A fd \in DOMAIN open : open[fd] # "raw"

LEMMA InitSilent == SessionInit => Silent
  BY DEF SessionInit, Silent

\* A step that opens no raw socket and sends nothing.
LEMMA HushedSilent ==
  ASSUME Silent, UNCHANGED <<command, sent_to>>,
         sockraw' = sockraw \/ sockraw' = NONE,
         pc' \in {"apd_open", "apd_send", "apd_close"} =>
           Has("apd_send") \/ pc \in {"apd_open", "apd_send", "apd_close"},
         \A fd \in DOMAIN open' : \/ open'[fd] # "raw"
                                  \/ fd \in DOMAIN open /\ open'[fd] = open[fd]
  PROVE  Silent'
  BY DEF Silent, Offline, Has

LEMMA StepSilent == Silent /\ [SessionNext]_vars => Silent'
<1> SUFFICES ASSUME Silent, [SessionNext]_vars PROVE Silent'
  OBVIOUS
<1>c. UNCHANGED open =>
        \A fd \in DOMAIN open' : fd \in DOMAIN open /\ open'[fd] = open[fd]
  OBVIOUS
<1>d. ASSUME NEW gone, open' = Closed(gone)
      PROVE  \A fd \in DOMAIN open' : fd \in DOMAIN open /\ open'[fd] = open[fd]
  BY <1>d, ClosedFd
<1>1. CASE ParseOptions
  <2>1. /\ UNCHANGED <<command, sent_to, sockraw, open>>
        /\ pc' = "apd_open" => Has("apd_send")
        /\ pc' \in {"exit", "apd_open", "resolve"}
    BY <1>1 DEF ParseOptions, resources, history, Exits
  <2> QED BY <1>c, <2>1, HushedSilent
<1>2. CASE ApdOpen \/ ApdSend \/ ApdClose
  BY <1>2 DEF ApdOpen, ApdSend, ApdClose, Silent, Offline, Has
<1>3. CASE OpenSockraw
  <2>1. UNCHANGED <<command, sent_to>> /\ pc' = "capture"
    BY <1>3, StageNames DEF OpenSockraw, Proceeds, history
  <2>2. Offline => UNCHANGED <<sockraw, open>>
    BY <1>3 DEF OpenSockraw, NeedsSocket, Offline
  <2> QED BY <2>1, <2>2 DEF Silent, Offline, Has
<1>4. CASE OpenPcap \/ Pipe
  <2>1. /\ UNCHANGED <<command, sent_to, sockraw>>
        /\ pc' \in {"activate", "flags"}
    BY <1>4, StageNames DEF OpenPcap, Pipe, Proceeds, history
  <2>2. PICK fds, kind : /\ open' = Opened(fds, kind) \/ open' = open
                         /\ kind \in {"pcap", "pipe"}
    BY <1>4 DEF OpenPcap, Pipe
  <2>3. \A fd \in DOMAIN open' : \/ open'[fd] # "raw"
                                 \/ fd \in DOMAIN open /\ open'[fd] = open[fd]
    <3>1. CASE open' = open
      BY <1>c, <3>1
    <3>2. CASE open' = Opened(fds, kind)
      <4> DEFINE next == Opened(fds, kind)
      <4>1. /\ DOMAIN next = DOMAIN open \cup fds
            /\ \A fd \in fds : next[fd] = kind
            /\ \A fd \in DOMAIN open \ fds : next[fd] = open[fd]
        BY OpenedFds
      <4> HIDE DEF next
      <4>2. open' = next
        BY <3>2 DEF next
      <4> QED BY <2>2, <4>1, <4>2
    <3> QED BY <2>2, <3>1, <3>2
  <2> QED BY <2>1, <2>3, HushedSilent
<1>5. CASE ActivateFails
  <2>1. /\ UNCHANGED <<command, sent_to, sockraw>> /\ pc' = "restore"
        /\ open' = Closed(pcapfp)
    BY <1>5 DEF ActivateFails, history
  <2> QED BY <1>d, <2>1, HushedSilent
<1>6. CASE \/ StageFails \/ Resolve \/ GetIfName \/ LinkHeader \/ ResolveLocal
           \/ ResetFlags \/ InstallHandler
  <2>1. /\ UNCHANGED <<command, sent_to, sockraw, open>>
        /\ pc' \notin {"apd_open", "apd_send", "apd_close"}
    BY <1>6, StageNames
       DEF StageFails, Resolve, GetIfName, LinkHeader, ResolveLocal, ResetFlags,
           InstallHandler, Proceeds, resources, history
  <2> QED BY <1>c, <2>1, HushedSilent
<1>7. CASE SendDatagram
  <2>1. UNCHANGED <<command, sockraw, open, pc>>
    BY <1>7 DEF SendDatagram, resources
  <2>2. sockraw = NONE => UNCHANGED sent_to
    BY <1>7 DEF SendDatagram
  <2> QED BY <2>1, <2>2 DEF Silent, Offline, Has
<1>8. CASE HpingRun /\ ~ SendDatagram
  <2>1. /\ UNCHANGED <<command, sent_to, sockraw, open>>
        /\ pc' \notin {"apd_open", "apd_send", "apd_close"}
    BY <1>8 DEF HpingRun, Setup, LoopEnds, SendProbe, ReachEnd, BuildFails,
         SendReturns, LoopDone, WaitFails, CaptureEnds, ReadReply, WriteFails,
         SendHcmp, IdleTurn, Finish, Reading, Running, BeginPacket, vars,
         resources, history
  <2> QED BY <1>c, <2>1, HushedSilent
<1>9. CASE HpingDestroy
  <2>1. /\ UNCHANGED <<command, sent_to>> /\ sockraw' \in {sockraw, NONE}
        /\ pc' \in {"close_wake", "close_raw", "exit"}
        /\ \/ UNCHANGED open
           \/ \E gone : open' = Closed(gone)
    BY <1>9 DEF HpingDestroy, RestoreHandlers, CloseWake, ClosePcap,
         CloseSockraw, Exits, history
  <2>2. \A fd \in DOMAIN open' : fd \in DOMAIN open /\ open'[fd] = open[fd]
    BY <1>c, <1>d, <2>1
  <2> QED BY <2>1, <2>2, HushedSilent
<1>10. ASSUME NEW signo, Signal(signo) PROVE Silent'
  <2>1. /\ UNCHANGED <<command, sent_to, sockraw>>
        /\ pc' \in {pc, "killed"}
        /\ UNCHANGED open \/ open' = <<>>
    BY <1>10 DEF Signal, history
  <2>2. \A fd \in DOMAIN open' : fd \in DOMAIN open /\ open'[fd] = open[fd]
    BY <1>c, <2>1
  <2> QED BY <2>1, <2>2, HushedSilent
<1>11. CASE UNCHANGED vars \/ Rest
  BY <1>c, <1>11, HushedSilent DEF vars, Rest, resources, history
<1> QED
  BY <1>1, <1>2, <1>3, <1>4, <1>5, <1>6, <1>7, <1>8, <1>9, <1>10, <1>11
     DEF SessionNext, Process, HpingInit

(***************************************************************************)
(* lifecycle.c:295-298: with --dry-run or --read, together with any other  *)
(* options but --apd-send, nothing leaves and no raw socket is opened.     *)
(***************************************************************************)
THEOREM NothingSentOffline == SessionSpec => []OfflineIsSilent
<1>1. Silent => OfflineIsSilent
  BY DEF Silent, Offline, OfflineIsSilent
<1> QED BY <1>1, InitSilent, StepSilent, PTL DEF SessionSpec

-----------------------------------------------------------------------------
(* Datagrams.                                                              *)

\* The fields that parse_options() fills in.
LEMMA AcceptedIsSender ==
  ASSUME cfg \in Sender
  PROVE  Accepted \in Sender
<1> DEFINE frag   == Has("frag") \/ Has("mtu")
           mtu    == IF Has("mtu") THEN VirtualMtu ELSE cfg.virtual_mtu
           id     == IF Has("safe") THEN 1 ELSE IF Has("id") THEN 7 ELSE cfg.src_id
           routes == [cfg.routes EXCEPT !.opt_rroute = Has("rroute")]
           dry    == Has("dry_run")
           safe   == Has("safe")
           one    == [cfg EXCEPT !.opt_fragment = frag]
           two    == [one EXCEPT !.virtual_mtu = mtu]
           three  == [two EXCEPT !.src_id = id]
           four   == [three EXCEPT !.opt_safe = safe]
           five   == [four EXCEPT !.opt_dry_run = dry]
           six    == [five EXCEPT !.routes = routes]
<1>0. /\ cfg.virtual_mtu \in VirtualMtus /\ cfg.src_id \in Int
      /\ cfg.routes \in Routes
  BY SenderFields
<1>1. Accepted = six
  BY DEF Accepted
<1>2. /\ frag \in BOOLEAN /\ safe \in BOOLEAN /\ dry \in BOOLEAN
      /\ mtu \in VirtualMtus /\ id \in Int
  BY <1>0, SessionAssumption DEF Has
<1>3. routes \in Routes
  <2> DEFINE rroute == Has("rroute")
  <2>1. rroute \in BOOLEAN
    BY DEF Has
  <2> HIDE DEF rroute
  <2>2. [cfg.routes EXCEPT !.opt_rroute = rroute] \in Routes
    BY <1>0, <2>1 DEF Routes
  <2> QED BY <2>2 DEF rroute
<1> HIDE DEF frag, mtu, id, routes, dry, safe
<1>4. one \in Sender
  BY <1>2 DEF Sender
<1> HIDE DEF one
<1>5. two \in Sender
  BY <1>2, <1>4 DEF Sender
<1> HIDE DEF two
<1>6. three \in Sender
  BY <1>2, <1>5 DEF Sender
<1> HIDE DEF three
<1>7. four \in Sender
  BY <1>2, <1>6 DEF Sender
<1> HIDE DEF four
<1>8. five \in Sender
  BY <1>2, <1>7 DEF Sender
<1> HIDE DEF five
<1>9. six \in Sender
  BY <1>3, <1>8 DEF Sender
<1> QED BY <1>1, <1>9

LEMMA SizesFit ==
  ASSUME ~ UsageError
  PROVE  /\ Payload \in 1 .. MaxPayload
         /\ Has("listen") => IPHDR_SIZE + SignLen + 8 \in 1 .. MaxPayload
<1>1. DataSize \in Nat /\ SignLen \in Nat
  BY SessionAssumption
<1>2. Has("data") => DataSize <= 65495
  BY <1>1 DEF UsageError, DataLength, IPHDR_SIZE
<1>3. Has("sign") \/ Has("listen") => SignLen <= 1024
  BY <1>1 DEF UsageError
<1>4. MaxPayload = 65527
  BY DEF MaxPayload
<1>5. Payload \in Nat /\ 1 <= Payload /\ Payload <= MaxPayload
  BY <1>1, <1>2, <1>3, <1>4 DEF Payload, IPHDR_SIZE
<1>6. Has("listen") => /\ IPHDR_SIZE + SignLen + 8 \in Nat
                       /\ 1 <= IPHDR_SIZE + SignLen + 8
                       /\ IPHDR_SIZE + SignLen + 8 <= MaxPayload
  BY <1>1, <1>3, <1>4 DEF IPHDR_SIZE
<1> QED BY <1>5, <1>6, Limits

(***************************************************************************)
(* The invariant of a datagram on its way, proved above; before            *)
(* anything is sent there is none, and what is sent fits.                  *)
(***************************************************************************)
Carried ==
  /\ Typed /\ Laid
  /\ pc = "parse" => handler = "idle" /\ wire = <<>>
  /\ pc \notin {"parse", "exit", "killed"} => ~ UsageError

LEMMA InitCarried == SessionInit => Carried
  BY InitTyped, InitProgress, InitLaid
     DEF SessionInit, Carried, Typed, FragmentationInit

LEMMA UsageFixed ==
  ASSUME UNCHANGED command
  PROVE  UsageError' = UsageError
  BY DEF UsageError, DataLength, Has

\* A step that has nothing to do with datagrams.
LEMMA AsideCarried ==
  ASSUME Carried, UNCHANGED <<command, fragVars>>,
         pc' = pc \/ pc' \in {"exit", "killed"}
         \/ (pc \notin {"parse", "exit", "killed"} /\ pc' # "parse")
  PROVE  Carried'
<1>1. Typed' /\ Laid'
  BY StepTyped, StepLaid DEF Carried
<1>2. handler' = handler /\ wire' = wire
  BY DEF fragVars, datagram
<1> QED BY <1>1, <1>2, UsageFixed DEF Carried

\* A step of send_ip_handler(), or of the file.
LEMMA SendingCarried ==
  ASSUME Carried, UNCHANGED command, SendingStep,
         pc \in {"run", "sending"}, pc' \in {"run", "sending"}
  PROVE  Carried'
<1>1. Typed' /\ Laid'
  BY StepTyped, StepLaid DEF Carried
<1> QED BY <1>1, UsageFixed DEF Carried

LEMMA StepCarried == Carried /\ [SessionNext]_vars => Carried'
<1> SUFFICES ASSUME Carried, [SessionNext]_vars PROVE Carried'
  OBVIOUS
<1>1. CASE ParseOptions
  <2>1. /\ UNCHANGED <<command, h_if_mtu, eof_reached, datagram>>
        /\ pc = "parse" /\ handler = "idle" /\ wire = <<>>
        /\ \/ pc' = "exit" /\ UNCHANGED cfg
           \/ pc' \in {"apd_open", "resolve"} /\ cfg' = Accepted /\ ~ UsageError
    BY <1>1 DEF ParseOptions, Exits, Carried
  <2>2. CASE pc' = "exit" /\ UNCHANGED cfg
    BY <2>1, <2>2, AsideCarried DEF fragVars
  <2>3. CASE pc' \in {"apd_open", "resolve"} /\ cfg' = Accepted /\ ~ UsageError
    <3>1. cfg' \in Sender
      BY <2>3, AcceptedIsSender DEF Carried, Typed, FragmentationTypeOK
    <3>2. FragmentationTypeOK'
      BY <2>1, <3>1 DEF Carried, Typed, FragmentationTypeOK, datagram
    <3>3. Progress' /\ Laid'
      BY <2>1 DEF Progress, Laid, Reassembles, HalfWay, datagram
    <3> QED BY <2>1, <2>3, <3>2, <3>3, UsageFixed DEF Carried, Typed
  <2> QED BY <2>1, <2>2, <2>3
<1>2. CASE GetIfName
  <2>1. /\ UNCHANGED <<command, cfg, eof_reached, datagram>>
        /\ pc = "interface" /\ pc' = "socket" /\ h_if_mtu' \in 28 .. MaxField + 1
    BY <1>2, StageNames, FragmentationAssumption DEF GetIfName, Proceeds
  <2>2. FragmentationTypeOK'
    BY <2>1 DEF Carried, Typed, FragmentationTypeOK, datagram
  <2>3. Progress' /\ Laid'
    BY <2>1 DEF Carried, Typed, Progress, Laid, Reassembles, HalfWay, datagram
  <2> QED BY <2>1, <2>2, <2>3, UsageFixed DEF Carried, Typed
<1>3. CASE SendProbe \/ SendHcmp
  <2>1. /\ pc = "run" /\ pc' = "sending" /\ UNCHANGED command
        /\ \/ SendIpHandler(Payload)
           \/ Has("listen") /\ SendIpHandler(IPHDR_SIZE + SignLen + 8)
    BY <1>3 DEF SendProbe, SendHcmp, BeginPacket, Running, Reading, Mode
  <2>2. ~ UsageError
    BY <2>1 DEF Carried
  <2>3. SendingStep
    BY <2>1, <2>2, SizesFit DEF SendingStep
  <2> QED BY <2>1, <2>3, SendingCarried
<1>4. CASE ReachEnd \/ SendDatagram
  <2>1. /\ pc \in {"run", "sending"} /\ pc' = pc /\ UNCHANGED command
        /\ SendingStep
    BY <1>4 DEF ReachEnd, SendDatagram, Running, SendingStep
  <2> QED BY <2>1, SendingCarried
<1>5. CASE ApdOpen \/ ApdSend \/ ApdClose
  <2>1. /\ UNCHANGED <<command, fragVars>>
        /\ pc \notin {"parse", "exit", "killed"} /\ pc' # "parse"
    BY <1>5 DEF ApdOpen, ApdSend, ApdClose
  <2> QED BY <2>1, AsideCarried
<1>6. CASE HpingInit /\ ~ GetIfName
  <2>1. /\ UNCHANGED <<command, fragVars>>
        /\ pc \notin {"parse", "exit", "killed"} /\ pc' # "parse"
    BY <1>6, StageNames
       DEF HpingInit, StageFails, Resolve, OpenSockraw, OpenPcap, ActivateFails,
           LinkHeader, ResolveLocal, Pipe, ResetFlags, InstallHandler, Proceeds
  <2> QED BY <2>1, AsideCarried
<1>7. CASE \/ Setup \/ LoopEnds \/ BuildFails \/ SendReturns \/ LoopDone
           \/ WaitFails \/ CaptureEnds \/ ReadReply \/ WriteFails \/ IdleTurn
           \/ Finish
  <2>1. /\ UNCHANGED <<command, fragVars>>
        /\ pc \notin {"parse", "exit", "killed"} /\ pc' # "parse"
    BY <1>7 DEF Setup, LoopEnds, BuildFails, SendReturns, LoopDone, WaitFails,
         CaptureEnds, ReadReply, WriteFails, IdleTurn, Finish, Reading, Running,
         vars
  <2> QED BY <2>1, AsideCarried
<1>8. CASE HpingDestroy
  <2>1. /\ UNCHANGED <<command, fragVars>>
        /\ pc \notin {"parse", "exit", "killed"} /\ pc' # "parse"
    BY <1>8 DEF HpingDestroy, RestoreHandlers, CloseWake, ClosePcap,
         CloseSockraw, Exits
  <2> QED BY <2>1, AsideCarried
<1>9. ASSUME NEW signo, Signal(signo) PROVE Carried'
  <2>1. UNCHANGED <<command, fragVars>> /\ pc' \in {pc, "killed"}
    BY <1>9 DEF Signal
  <2> QED BY <2>1, AsideCarried
<1>10. CASE UNCHANGED vars \/ Rest
  BY <1>10, AsideCarried DEF vars, Rest
<1> QED
  BY <1>1, <1>2, <1>3, <1>4, <1>5, <1>6, <1>7, <1>8, <1>9, <1>10
     DEF SessionNext, Process, HpingRun

(***************************************************************************)
(* send_ip_handler(): in every session, whatever was refused on the way,   *)
(* the pieces of a packet lie side by side.                                *)
(***************************************************************************)
THEOREM SessionReassembles == SessionSpec => []Reassembles
<1>1. Carried => Reassembles
  BY DEF Carried, Laid
<1> QED BY <1>1, InitCarried, StepCarried, PTL DEF SessionSpec

-----------------------------------------------------------------------------
(* Types.                                                                  *)

Reasons == {"NONE", "SIGNAL", "COUNT", "SENT", "EOF", "ERROR"}
Targets == {"unset", "target", "random", "described"}

Noted ==
  /\ command \in SUBSET Options
  /\ remote \in {"unset", "target", "random"}
  /\ sig_stop \in BOOLEAN /\ caught \in BOOLEAN /\ failed \in BOOLEAN
  /\ stop_reason \in Reasons
  /\ stats \in [sent : Nat, received : BOOLEAN]
  /\ status \in {0, 1, 18}
  /\ signals \in Nat /\ packets \in Nat
  /\ sent_to \subseteq Targets

LEMMA InitNoted == SessionInit => Noted
<1> SUFFICES ASSUME SessionInit PROVE Noted
  OBVIOUS
<1>1. command \in SUBSET Options
  BY SessionAssumption DEF SessionInit
<1>2. remote = "unset" /\ status = 0 /\ stop_reason = "NONE"
  BY DEF SessionInit
<1>3. ~ sig_stop /\ ~ caught /\ ~ failed /\ sig_stop \in BOOLEAN
      /\ caught \in BOOLEAN /\ failed \in BOOLEAN
  BY DEF SessionInit
<1>4. stats \in [sent : Nat, received : BOOLEAN]
  <2>1. stats = [sent |-> 0, received |-> FALSE]
    BY DEF SessionInit
  <2> QED BY <2>1
<1>5. signals \in Nat /\ packets \in Nat
  BY SessionAssumption DEF SessionInit
<1>6. sent_to \subseteq Targets
  BY DEF SessionInit
<1> QED BY <1>1, <1>2, <1>3, <1>4, <1>5, <1>6 DEF Noted, Reasons

\* A step that notes nothing but a failure.
LEMMA FailureNoted ==
  ASSUME Noted, UNCHANGED <<command, remote, stop_reason, stats, arrivals, history>>,
         UNCHANGED <<status, failed>> \/ Fails
  PROVE  Noted'
  BY DEF Noted, arrivals, history, Fails

LEMMA StepNoted == Noted /\ [SessionNext]_vars => Noted'
<1> SUFFICES ASSUME Noted, [SessionNext]_vars PROVE Noted'
  OBVIOUS
<1>1. CASE ParseOptions
  BY <1>1, FailureNoted DEF ParseOptions
<1>2. CASE ApdOpen \/ ApdClose
  BY <1>2, FailureNoted DEF ApdOpen, ApdClose, results
<1>3. CASE ApdSend
  BY <1>3 DEF ApdSend, Noted, Fails, arrivals, Targets
<1>4. CASE StageFails \/ ActivateFails \/ LinkHeader \/ Setup
  BY <1>4, FailureNoted DEF StageFails, ActivateFails, LinkHeader, Setup
<1>5. CASE GetIfName \/ OpenSockraw \/ OpenPcap \/ ResolveLocal \/ Pipe \/ InstallHandler
  BY <1>5, FailureNoted
     DEF GetIfName, OpenSockraw, OpenPcap, ResolveLocal, Pipe, InstallHandler, results
<1>6. CASE Resolve \/ ResetFlags
  BY <1>6 DEF Resolve, ResetFlags, Noted, results, arrivals, history
<1>7. CASE LoopEnds \/ LoopDone \/ CaptureEnds
  BY <1>7 DEF LoopEnds, LoopDone, CaptureEnds, Stopping, Noted, Reasons,
       arrivals, history
<1>8. CASE BuildFails \/ WaitFails \/ WriteFails
  BY <1>8 DEF BuildFails, WaitFails, WriteFails, Failing, Stopping, Noted,
       Reasons, arrivals, history
<1>9. CASE SendProbe \/ SendHcmp
  <2>1. /\ packets' = packets + 1 /\ remote' \in {"random", remote}
        /\ UNCHANGED <<command, results, arrivals, sent_to>>
    BY <1>9 DEF SendProbe, SendHcmp, BeginPacket
  <2> QED BY <2>1 DEF Noted, results, arrivals
<1>10. CASE ReachEnd
  BY <1>10, FailureNoted DEF ReachEnd, results
<1>11. CASE SendDatagram
  <2>1. /\ sent_to' \subseteq sent_to \cup {remote}
        /\ UNCHANGED <<command, remote, results, arrivals, packets>>
    BY <1>11 DEF SendDatagram
  <2> QED BY <2>1 DEF Noted, results, arrivals, Targets
<1>12. CASE SendReturns
  <2>1. UNCHANGED <<command, remote, arrivals, history>>
    BY <1>12 DEF SendReturns
  <2>2. [stats EXCEPT !.sent = @ + 1] \in [sent : Nat, received : BOOLEAN]
    BY DEF Noted
  <2>3. CASE rc = 0
    BY <1>12, <2>1, <2>2, <2>3
       DEF SendReturns, Stopping, Noted, Reasons, arrivals, history
  <2>4. CASE rc # 0
    BY <1>12, <2>1, <2>4
       DEF SendReturns, Failing, Stopping, Noted, Reasons, arrivals, history, results
  <2> QED BY <2>3, <2>4
<1>13. CASE ReadReply
  <2>1. /\ stats' = [stats EXCEPT !.received = (Mode = "main")]
        /\ stop_reason' \in {stop_reason, Stopping("COUNT")}
        /\ UNCHANGED <<command, remote, status, failed, arrivals, history>>
    BY <1>13 DEF ReadReply
  <2>2. stats' \in [sent : Nat, received : BOOLEAN]
    BY <2>1 DEF Noted
  <2> QED BY <2>1, <2>2 DEF Stopping, Noted, Reasons, arrivals, history
<1>14. CASE IdleTurn \/ Rest \/ UNCHANGED vars
  BY <1>14, FailureNoted DEF IdleTurn, Rest, vars, results
<1>15. CASE Finish
  <2>1. status' \in {0, 1, 18}
    BY <1>15 DEF Finish, ExitStatus, Noted
  <2> QED BY <1>15, <2>1 DEF Finish, Noted, arrivals, history
<1>16. CASE HpingDestroy
  BY <1>16, FailureNoted
     DEF HpingDestroy, RestoreHandlers, CloseWake, ClosePcap, CloseSockraw, results
<1>17. ASSUME NEW signo, Signal(signo) PROVE Noted'
  <2>1. /\ UNCHANGED <<command, remote, results, history>>
        /\ signals > 0 /\ signals' = signals - 1
    BY <1>17 DEF Signal
  <2>2. sig_stop' \in BOOLEAN /\ caught' \in BOOLEAN
    BY <1>17, Zenon DEF Signal, Noted
  <2>3. signals' \in Nat
    BY <2>1 DEF Noted
  <2> QED BY <2>1, <2>2, <2>3 DEF Noted, results, history
<1> QED
  BY <1>1, <1>2, <1>3, <1>4, <1>5, <1>6, <1>7, <1>8, <1>9, <1>10, <1>11, <1>12,
     <1>13, <1>14, <1>15, <1>16, <1>17
     DEF SessionNext, Process, HpingInit, HpingRun

\* Whatever the command line: the process keeps its types, datagrams included.
THEOREM SessionTypeCorrect == SessionSpec => []SessionTypeOK
<1>1. Tidy /\ Carried /\ Noted => SessionTypeOK
  BY DEF Tidy, Numbered, Carried, Typed, Noted, Reasons, Targets, SessionTypeOK
<1> QED
  BY <1>1, InitTidy, StepTidy, InitCarried, StepCarried, InitNoted, StepNoted,
     PTL DEF SessionSpec
=============================================================================
