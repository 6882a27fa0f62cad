------------------------------- MODULE Survey -------------------------------
(***************************************************************************)
(* What a port scan promises, without rounds, timers or a port table: every*)
(* selected port is asked up to Probes times until it answers, no port is  *)
(* asked again before the others have been asked as often, and the survey  *)
(* is complete only when nothing is left to ask.                           *)
(***************************************************************************)
EXTENDS Naturals

CONSTANTS Ports, Probes

VARIABLES
  asked,      \* per port: the probes sent to it
  silent,     \* the selected ports that have not answered
  complete    \* the survey was completed

vars == <<asked, silent, complete>>

Init ==
  /\ asked = [p \in Ports |-> 0]
  /\ silent \subseteq Ports
  /\ complete = FALSE

Ask(p) ==
  /\ ~ complete
  /\ asked[p] < Probes
  /\ \A q \in silent : asked[p] <= asked[q]
  /\ asked' = [asked EXCEPT ![p] = @ + 1]
  /\ UNCHANGED <<silent, complete>>

Answer(p) ==
  /\ ~ complete
  /\ silent' = silent \ {p}
  /\ UNCHANGED <<asked, complete>>

Complete ==
  /\ \A p \in silent : asked[p] = Probes
  /\ complete' = TRUE
  /\ UNCHANGED <<asked, silent>>

Next == \/ \E p \in silent : Ask(p) \/ Answer(p)
        \/ Complete

Spec == Init /\ [][Next]_vars
=============================================================================
