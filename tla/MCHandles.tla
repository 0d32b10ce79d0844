----------------------------- MODULE MCHandles -----------------------------
(***************************************************************************)
(* Handles for TLC.  Four Handles can be destroyed from the front, the     *)
(* back and the middle of the list, and their cells be used again, with    *)
(* others alive on both sides.                                             *)
(***************************************************************************)
EXTENDS Handles

CONSTANTS c1, c2, c3, c4

MCCells == {c1, c2, c3, c4}
=============================================================================
