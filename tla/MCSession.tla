------------------------------ MODULE MCSession ------------------------------
(* Command lines, interfaces and sizes for the model checking of Session. *)
EXTENDS Session

\* hping_config_init()
Defaults ==
  [opt_fragment |-> FALSE, virtual_mtu |-> 16, opt_mf |-> FALSE,
   opt_df |-> FALSE, ip_frag_offset |-> 0, src_id |-> -1, opt_safe |-> FALSE,
   opt_dry_run |-> FALSE,
   routes |-> [lsr_length |-> 0, ssr_length |-> 0, opt_rroute |-> FALSE]]

DefaultSenders == {Defaults}

Others == Options \ {"host"}

\* The safe transfer from both sides.
Transfers == {{"safe", "file", "sign", "data"}, {"safe", "listen"}}

\* A target and up to two options, a transfer and one more, and no target.
ManyCommands ==
  {{"host", one, other} : one \in Others, other \in Others}
  \cup {transfer \cup {"host", one} : transfer \in Transfers, one \in Others}
  \cup {{one} : one \in Options}

ApdCommands == {{"apd_send", "dry_run"}}

SafeCommands == {{"host", "safe", "file", "sign", "data"},
                 {"host", "safe", "listen"}}
=============================================================================
