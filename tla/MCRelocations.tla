--------------------------- MODULE MCRelocations ---------------------------
(***************************************************************************)
(* Relocations for TLC: modules of two functions, with enough instructions *)
(* for either array to grow at any of them.                                *)
(***************************************************************************)
EXTENDS Relocations

CONSTANTS global, datum, none, Length

Instructions == {global, datum, none}

MCObjects == {global, datum}

MCFunctionBodies ==
  LET bodiesUpTo(n) == UNION {[1..k -> Instructions] : k \in 1..n}
  IN  {<<b, c>> : b \in bodiesUpTo(Length), c \in bodiesUpTo(2)}
=============================================================================
