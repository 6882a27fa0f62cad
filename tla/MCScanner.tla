----------------------------- MODULE MCScanner -----------------------------
(***************************************************************************)
(* Scanner on a few ports, with a clock that is coarse enough for all of   *)
(* its timers to matter.                                                   *)
(***************************************************************************)
EXTENDS Scanner

OneStray == {1}
=============================================================================
