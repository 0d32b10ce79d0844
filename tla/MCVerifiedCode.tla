--------------------------- MODULE MCVerifiedCode ---------------------------
(***************************************************************************)
(* The judgement and the invariant of VerifiedCode, on programs of         *)
(* MCPrograms that between them use every instruction.                     *)
(***************************************************************************)
EXTENDS MCPrograms, VerifiedCode

MCVerifiedSource ==
  [name \in {"locals", "append", "forget", "mutual", "overflow", "hoard",
             "mismatch", "erring", "wraps", "redefined", "widest"} |->
     MCSource[name]]
=============================================================================
