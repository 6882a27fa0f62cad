----------------------------- MODULE Traceroute -----------------------------
(***************************************************************************)
(* Traceroute (-T): the time exceeded errors that recv_icmp() receives are *)
(* shown as hops and move the TTL of the following probes, on top of the   *)
(* sending and accounting of Probing.  Every action here is an action of   *)
(* Probing with what it does to the TTL and to the list of hops.           *)
(*                                                                         *)
(* The errors carry no hop number: log_traceroute() prints the TTL in use  *)
(* when the error arrives, not the one its probe was sent with.            *)
(***************************************************************************)
EXTENDS Probing

CONSTANTS
  Path,          \* external: the routers towards the target, nearest first
  TtlMod,        \* 256: the TTL has 8 bits
  MaxTtlPresses  \* bound: ctrl+z presses

ASSUME TracerouteAssumption ==
  /\ TtlMod \in Nat
  /\ Path \in Seq(Nat \ {0}) \ {<<>>}
  /\ Len(Path) + 1 < TtlMod
  /\ MaxTtlPresses \in Nat
  /\ \A c \in Configurations :
       /\ c.trace \in {"off", "text", "json"}
       /\ c.keep_ttl \in BOOLEAN
       /\ c.tr_stop \in BOOLEAN
       /\ c.bind_ttl \in BOOLEAN
       /\ c.ttl \in 0 .. TtlMod - 1

VARIABLES
  src_ttl,       \* cfg.src_ttl
  old_src_addr,  \* the router log_traceroute() showed last, 0 at first
  stopped,       \* hping_stop() was called by --tr-stop
  ttls,          \* the TTL of each datagram of wire
  shown,         \* the lines of hops, each with the TTL of the probe quoted
  presses,       \* ctrl+z presses so far
  orderly        \* the network never gave the hops a reason to be wrong

traceVars == <<src_ttl, old_src_addr, stopped, ttls, shown, presses, orderly>>
tracerouteVars == <<probingVars, traceVars>>

Trace   == cfg.trace     \* -T, and whether --json is on
KeepTtl == cfg.keep_ttl  \* --tr-keep-ttl
TrStop  == cfg.tr_stop   \* --tr-stop
BindTtl == cfg.bind_ttl  \* ctrl+z moves the TTL: -T implies it, unless --unbind

\* parse_options() has set cfg.src_ttl: --ttl, or 1 with -T, or 64.
TracerouteInit ==
  /\ ProbingInit
  /\ src_ttl = cfg.ttl
  /\ old_src_addr = 0
  /\ stopped = FALSE
  /\ ttls = [i \in DOMAIN wire |-> cfg.ttl]
  /\ shown = <<>>
  /\ presses = 0
  /\ orderly = TRUE

-----------------------------------------------------------------------------
(* Probes and presses.                                                     *)

\* The TTL that send_ip() writes into the header.
SentTtl == src_ttl % TtlMod

SendProbe(ok) ==
  /\ Transmit(ok)
  /\ ttls' = Append(ttls, SentTtl)
  /\ UNCHANGED <<src_ttl, old_src_addr, stopped, shown, presses, orderly>>

\* inc_destparm() with the TTL bound: a single press, or the second of two
\* within 200 ms.  EventLoop has the clock that decides.
Pressed(p) == {p + 1, IF p >= 2 THEN p - 2 ELSE 0}

Press ==
  /\ BindTtl /\ presses < MaxTtlPresses
  /\ src_ttl' \in Pressed(src_ttl)
  /\ presses' = presses + 1
  /\ UNCHANGED <<probingVars, old_src_addr, stopped, ttls, shown, orderly>>

-----------------------------------------------------------------------------
(* Answers.                                                                *)

\* external: a datagram that runs out of TTL does so at this router.
Expires(i)   == ttls[i] <= Len(Path)
RouterOf(i)  == Path[IF ttls[i] = 0 THEN 1 ELSE ttls[i]]

\* A bug: a router that answers again is taken for the next one.
ShowsHop_Again(i) == Trace # "off"

\* Of the time exceeded errors, those that become a line.  Only the text
\* output ignores the router it has just shown.
ShowsHop(i) ==
  \/ Trace = "json"
  \/ Trace = "text" /\ (KeepTtl \/ RouterOf(i) # old_src_addr)

\* The traceroute part of recv_icmp(): log_traceroute(), or the event of
\* the JSON output.
ShowHop(i) ==
  IF ShowsHop(i)
  THEN /\ shown' = Append(shown, [hop |-> src_ttl, ttl |-> ttls[i]])
       /\ src_ttl' = IF KeepTtl THEN src_ttl ELSE src_ttl + 1
       /\ old_src_addr' = IF Trace = "text" THEN RouterOf(i) ELSE old_src_addr
  ELSE UNCHANGED <<shown, src_ttl, old_src_addr>>

\* History: no answer was overtaken by the answer of a later probe and, as
\* the JSON output counts every error, none came twice or after one more
\* probe had left.
InTurn(i) ==
  IF Trace = "json" THEN i = Len(wire) /\ ~ wire[i].answered
  ELSE \A j \in DOMAIN wire : j > i => ~ wire[j].answered

Answered(i) ==
  /\ orderly' = (orderly /\ (Trace # "off" => InTurn(i)))
  /\ UNCHANGED <<ttls, presses>>

\* wait_packet(): --tr-stop ends the run at the first answer that is not a
\* time exceeded error.
StopsTrace == Trace # "off" /\ TrStop

TimeExceeded(i) ==
  /\ Expires(i)
  /\ ReceiveError(i)
  /\ ShowHop(i)
  /\ Answered(i)
  /\ UNCHANGED stopped

Unreachable(i) ==
  /\ ReceiveError(i)
  /\ Answered(i)
  /\ stopped' = StopsTrace
  /\ UNCHANGED <<src_ttl, old_src_addr, shown>>

TargetReply(i) ==
  /\ ~ Expires(i)
  /\ ReceiveReply(i)
  /\ Answered(i)
  /\ stopped' = StopsTrace
  /\ UNCHANGED <<src_ttl, old_src_addr, shown>>

OtherReply(i) ==
  /\ ~ Expires(i)
  /\ IgnoreReply(i)
  /\ UNCHANGED traceVars

TracerouteNext ==
  /\ ~ stopped
  /\ \/ \E ok \in BOOLEAN : SendProbe(ok)
     \/ Press
     \/ \E i \in DOMAIN wire :
          \/ TimeExceeded(i)
          \/ Unreachable(i)
          \/ TargetReply(i)
          \/ OtherReply(i)
  /\ UNCHANGED cfg

TracerouteSpec == TracerouteInit /\ [][TracerouteNext]_tracerouteVars

-----------------------------------------------------------------------------
(* Correctness.                                                            *)

\* The hop of line k of a run that is not disturbed.
HopOf(k) == IF KeepTtl THEN cfg.ttl ELSE cfg.ttl + k - 1

(***************************************************************************)
(* The list of hops is the path.  Without ctrl+z, and when the answers     *)
(* come in the order of the probes (in the JSON output: one at a time),    *)
(* the lines are numbered without a gap and each names the hop where its   *)
(* probe died, however many probes or answers were lost and however often  *)
(* a router answered.  Out of order, log_traceroute() can print too high a *)
(* hop, but never one nearer than the router is.                           *)
(***************************************************************************)
TracesPath ==
  presses = 0 => \A k \in DOMAIN shown :
     /\ shown[k].ttl <= shown[k].hop
     /\ orderly => shown[k] = [hop |-> HopOf(k), ttl |-> HopOf(k)]
=============================================================================
