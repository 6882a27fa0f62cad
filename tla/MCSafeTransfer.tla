--------------------------- MODULE MCSafeTransfer ---------------------------
(***************************************************************************)
(* SafeTransfer on a file of a few blocks.                                 *)
(***************************************************************************)
EXTENDS SafeTransfer

EndOrNot == {TRUE, FALSE}
EndOnly == {TRUE}
=============================================================================
