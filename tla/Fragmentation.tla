---------------------------- MODULE Fragmentation ----------------------------
(***************************************************************************)
(* One datagram on its way to the raw socket (src/src/sendip_handler.c,    *)
(* src/src/sendip.c, src/src/ip_opt_build.c): the IP options, the choice   *)
(* to fragment, and the pieces, each handed over by one send_ip().  The    *)
(* payload is its length; addresses, TTL, TOS and protocol are left out.   *)
(***************************************************************************)
EXTENDS Integers, Sequences

CONSTANTS
  Payloads,     \* the lengths of what the senders hand over
  Mtus,         \* the MTUs an interface may have
  Senders       \* the values of the fields of cfg that concern sending

IPHDR_SIZE == 20
MaxField   == 65535   \* the fields of 16 bits
MaxOffset  == 8191    \* the offset field, in groups of eight octets
MaxPayload == 65527   \* parse_options() caps the data, the headers come on top

\* A route option of 3 octets and 4 per address (0 = not asked for).
RouteLengths == {0} \cup {4 * n + 3 : n \in 0 .. 62}

\* The size of the pieces.  --mtu takes other numbers as well, for which the
\* offset field, which counts eight octets, leaves gaps and overlaps.
VirtualMtus == {n \in 8 .. MaxField : n % 8 = 0}

Field16 == 0 .. MaxField

Routes == [lsr_length : RouteLengths,     \* --lsrr
           ssr_length : RouteLengths,     \* --ssrr
           opt_rroute : BOOLEAN]          \* --rroute

Sender == [opt_fragment : BOOLEAN,        \* --frag
           virtual_mtu  : VirtualMtus,    \* --mtu
           opt_mf       : BOOLEAN,        \* --morefrag
           opt_df       : BOOLEAN,        \* --dontfrag
           ip_frag_offset : Field16,      \* --fragoff
           src_id       : Int,            \* --id, or counted by --safe; -1
           opt_safe     : BOOLEAN,
           opt_dry_run  : BOOLEAN,
           routes       : Routes]

\* 28 octets hold a header and the smallest piece.
ASSUME FragmentationAssumption ==
  /\ Payloads \subseteq 1 .. MaxPayload
  /\ Mtus \subseteq 28 .. MaxField + 1
  /\ Senders \subseteq Sender

VARIABLES
  cfg,          \* the fields of cfg that concern sending
  h_if_mtu,     \* ctx.h_if_mtu
  eof_reached,  \* ctx.eof_reached
  size,         \* the payload of the current datagram
  ip_optlen,    \* ctx.ip_optlen
  remainder,    \* what send_ip_handler() has still to hand over
  frag_offset,  \* where that begins
  handler,      \* send_ip_handler(): "idle", "whole", "pieces"
  rc,           \* what it returned last
  wire          \* every datagram it has built for the current payload

datagram == <<size, ip_optlen, remainder, frag_offset, handler, rc, wire>>
fragVars == <<cfg, h_if_mtu, eof_reached, datagram>>

FragmentationInit ==
  /\ cfg \in Senders
  /\ h_if_mtu \in Mtus
  /\ eof_reached = FALSE
  /\ size = 0 /\ ip_optlen = 0
  /\ remainder = 0 /\ frag_offset = 0
  /\ handler = "idle" /\ rc = 0
  /\ wire = <<>>

-----------------------------------------------------------------------------
(***************************************************************************)
(* ip_opt_build(): the two source routes, as long as there is room, and a  *)
(* record route that takes the rest; padded to whole words.                *)
(***************************************************************************)
IpOptLen ==
  LET routes == cfg.routes
      loose  == IF routes.lsr_length <= 39 THEN routes.lsr_length ELSE 0
      strict == IF loose + routes.ssr_length <= 39
                THEN loose + routes.ssr_length ELSE loose
      all    == IF routes.opt_rroute /\ strict <= 33 THEN 39 ELSE strict
  IN  ((all + 3) \div 4) * 4

\* A bug: the MTU without the rounding.
AutoFragmented_Unaligned ==
  [cfg EXCEPT !.opt_fragment = TRUE, !.virtual_mtu = h_if_mtu - IPHDR_SIZE,
              !.opt_mf = FALSE, !.opt_df = FALSE]

\* Fragmentation turned on: pieces of whole groups of eight octets.
AutoFragmented ==
  LET room == h_if_mtu - IPHDR_SIZE
  IN  [cfg EXCEPT !.opt_fragment = TRUE, !.virtual_mtu = room - (room % 8),
                  !.opt_mf = FALSE, !.opt_df = FALSE]

\* send_ip_handler(), up to the first send_ip().
SendIpHandler(n) ==
  /\ handler = "idle"
  /\ size' = n
  /\ ip_optlen' = IpOptLen
  /\ cfg' = IF ~ cfg.opt_fragment /\ n + IpOptLen + IPHDR_SIZE >= h_if_mtu
            THEN AutoFragmented ELSE cfg
  /\ remainder' = n
  /\ frag_offset' = 0
  /\ handler' = IF cfg'.opt_fragment THEN "pieces" ELSE "whole"
  /\ wire' = <<>>
  /\ UNCHANGED <<h_if_mtu, eof_reached, rc>>

(***************************************************************************)
(* What send_ip() builds: the data it holds, its offset field, which       *)
(* counts eight octets, and its id: 0 stands for the one that the process  *)
(* or chance gives to a datagram without --id.                             *)
(***************************************************************************)
Datagram(len, more, offset) ==
  [len |-> len, more |-> more, offset |-> (offset % 65536) \div 8,
   dont |-> cfg.opt_df /\ ~ cfg.opt_fragment,
   id |-> IF cfg.src_id = -1 THEN 0 ELSE cfg.src_id % 65536]

(***************************************************************************)
(* How send_ip() ends.  "sent": the socket took the datagram, or --dry-run *)
(* printed it.  "lost": it did not, and send_ip() forgives it, for a       *)
(* signal or for random addresses.  "refused": it returns -1; there may be *)
(* no memory even in a dry run.                                            *)
(***************************************************************************)
Outcomes == {"sent", "lost", "refused"}

SendIp(len, more, offset, outcome) ==
  /\ cfg.opt_dry_run => outcome # "lost"
  /\ wire' = Append(wire, Datagram(len, more, offset))
  /\ cfg' = [cfg EXCEPT !.src_id = IF cfg.opt_safe /\ ~ eof_reached
                                      /\ outcome # "refused"
                                   THEN @ + 1 ELSE @]
  /\ UNCHANGED <<h_if_mtu, eof_reached, size, ip_optlen>>

\* send_ip_handler() returns what the last send_ip() returned.
Returns(outcome) ==
  /\ handler' = "idle"
  /\ rc' = IF outcome = "refused" THEN -1 ELSE 0
  /\ UNCHANGED <<remainder, frag_offset>>

\* The datagram goes out in one, with the flags and the offset of the user.
SendWhole(outcome) ==
  /\ handler = "whole"
  /\ SendIp(size, cfg.opt_mf, cfg.ip_frag_offset, outcome)
  /\ Returns(outcome)

\* A bug: a piece that could not be sent is left out.
Advance_Sent(outcome) ==
  /\ remainder' = remainder - cfg.virtual_mtu
  /\ frag_offset' = IF outcome = "refused" THEN frag_offset
                    ELSE frag_offset + cfg.virtual_mtu

\* On to the next piece, whatever became of this one.
Advance(outcome) ==
  /\ remainder' = remainder - cfg.virtual_mtu
  /\ frag_offset' = frag_offset + cfg.virtual_mtu

\* A bug: the length is not compared with the piece.
SendPiece_Always(outcome) ==
  /\ handler = "pieces"
  /\ SendIp(cfg.virtual_mtu, TRUE, frag_offset, outcome)
  /\ Advance(outcome)
  /\ UNCHANGED <<handler, rc>>

\* A piece that is not the last: how send_ip() ends is not looked at.
SendPiece(outcome) ==
  /\ handler = "pieces" /\ remainder > cfg.virtual_mtu
  /\ SendIp(cfg.virtual_mtu, TRUE, frag_offset, outcome)
  /\ Advance(outcome)
  /\ UNCHANGED <<handler, rc>>

SendLast(outcome) ==
  /\ handler = "pieces" /\ remainder <= cfg.virtual_mtu
  /\ SendIp(remainder, FALSE, frag_offset, outcome)
  /\ Returns(outcome)

\* data_handler() meets the end of the file between two datagrams.
EndOfFile ==
  /\ handler = "idle"
  /\ eof_reached' = TRUE
  /\ UNCHANGED <<cfg, h_if_mtu, datagram>>

FragmentationNext ==
  \/ EndOfFile
  \/ \E n \in Payloads : SendIpHandler(n)
  \/ \E outcome \in Outcomes :
       SendWhole(outcome) \/ SendPiece(outcome) \/ SendLast(outcome)

FragmentationSpec == FragmentationInit /\ [][FragmentationNext]_fragVars

-----------------------------------------------------------------------------
(* Correctness.                                                            *)

Pieces == [len : 0 .. MaxPayload, more : BOOLEAN, offset : 0 .. MaxOffset,
           dont : BOOLEAN, id : Field16]

\* One type invariant: every field of a datagram fits the IP header.
FragmentationTypeOK ==
  /\ cfg \in Sender
  /\ h_if_mtu \in 28 .. MaxField + 1
  /\ eof_reached \in BOOLEAN
  /\ size \in 0 .. MaxPayload /\ ip_optlen \in 0 .. 40
  /\ remainder \in 0 .. MaxPayload /\ frag_offset \in 0 .. MaxPayload
  /\ handler \in {"idle", "whole", "pieces"} /\ rc \in {0, -1}
  /\ wire \in Seq(Pieces)

\* Where a receiver puts the data of a datagram, and where the next belongs.
Starts(piece) == 8 * piece.offset
Ends(piece)   == Starts(piece) + piece.len

(***************************************************************************)
(* send_ip_handler(): the pieces of a payload lie side by side, from its   *)
(* first octet to its last, and none but the last promises more - however  *)
(* many of them were refused on the way, so that a receiver puts together  *)
(* the payload or nothing.                                                 *)
(***************************************************************************)
Fits(piece) == piece.more => piece.len % 8 = 0

Reassembles ==
  cfg.opt_fragment /\ wire # <<>> =>
    /\ Starts(wire[1]) = 0
    /\ \A i \in 2 .. Len(wire) : Starts(wire[i]) = Ends(wire[i - 1])
    /\ \A i \in DOMAIN wire : Fits(wire[i])
    /\ \A i \in 1 .. Len(wire) - 1 : wire[i].more
    /\ handler = "idle" => /\ ~ wire[Len(wire)].more
                           /\ Ends(wire[Len(wire)]) = size
=============================================================================
