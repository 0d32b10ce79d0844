---------------------------- MODULE MCNameTable ----------------------------
(***************************************************************************)
(* NameTable for TLC: names enough for the array to grow three times.      *)
(***************************************************************************)
EXTENDS NameTable

CONSTANTS a, b, c

MCSpellings == {a, b, c}

MCValues == {a, b}
=============================================================================
