------------------------------ MODULE MCProbing ------------------------------
(* Configurations for the model checking of Probing with Traceroute. *)
EXTENDS Traceroute

Base == [mode |-> "tcp", keepstill |-> FALSE, tr_no_rtt |-> FALSE,
         dst_mode |-> "fixed", foreign |-> <<>>,
         trace |-> "off", keep_ttl |-> FALSE, tr_stop |-> FALSE, bind_ttl |-> FALSE,
         ttl |-> 64]

Tracing == [Base EXCEPT !.trace = "text", !.ttl = 1]

\* The command lines that keep books in different ways.
CommandLines ==
  {[Base EXCEPT !.dst_mode = "force"],
   [Base EXCEPT !.dst_mode = "inc"],
   [Base EXCEPT !.tr_no_rtt = TRUE],
   [Base EXCEPT !.mode = "icmp-echo"],
   [Base EXCEPT !.mode = "icmp-timestamp"],
   [Tracing EXCEPT !.bind_ttl = TRUE],
   [Tracing EXCEPT !.mode = "icmp-timestamp", !.keep_ttl = TRUE, !.tr_stop = TRUE],
   [Tracing EXCEPT !.mode = "icmp-echo", !.trace = "json"]}

\* A route that comes back to its first router.
Route == <<1, 2, 1>>
=============================================================================
