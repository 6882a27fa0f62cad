----------------------------- MODULE MCEventLoop -----------------------------
(* Configurations for the model checking of EventLoop. *)
EXTENDS EventLoop

Base == [mode |-> "tcp", keepstill |-> FALSE, tr_no_rtt |-> FALSE,
         dst_mode |-> "fixed", foreign |-> <<>>,
         count |-> -1, selectable |-> TRUE, receive_only |-> FALSE,
         dry_run |-> FALSE, flood |-> FALSE, bind_port |-> FALSE]

Counted == [Base EXCEPT !.count = 2]

\* --read: a savefile with three answers, one of them twice.
ReadFile == [Base EXCEPT !.receive_only = TRUE, !.selectable = FALSE,
                         !.foreign = <<3, 4, 3>>]

\* The sessions that come to an end by themselves: --count, the same with a
\* capture handle that cannot be polled, --dry-run, --flood, and --read.
Ending ==
  {Counted,
   [Counted EXCEPT !.selectable = FALSE],
   [Counted EXCEPT !.dry_run = TRUE],
   [Counted EXCEPT !.flood = TRUE],
   ReadFile}

\* The session that only a signal ends, with ctrl+z bound to the port.
Bound == {[Base EXCEPT !.bind_port = TRUE]}
=============================================================================
