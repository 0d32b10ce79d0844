---------------------------- MODULE MCAllocation ----------------------------
(***************************************************************************)
(* Allocation for TLC: objects as large as a pair and larger, in spaces    *)
(* that several of them fill exactly, and one that no space holds.         *)
(***************************************************************************)
EXTENDS Allocation

MCHeapSize == 7

MCSizes == {2, 3, 8}
=============================================================================
