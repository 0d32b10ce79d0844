------------------------------- MODULE Names -------------------------------
(***************************************************************************)
(* What the interned symbols and the name table of a module promise: each  *)
(* spelling that is defined gets the next index once and for all, and the  *)
(* value at that index is the last one it was defined with.  There is no   *)
(* memory here, and no step between the steps.                             *)
(***************************************************************************)
EXTENDS Integers, Sequences

CONSTANTS
  Spellings,   \* what names are written with
  Values

VARIABLES
  index,       \* the spellings defined so far, and the index of each
  values,      \* the value at each index, from 0
  trimmed      \* <<>>, then <<the vector of values that code refers to>>

vars == <<index, values, trimmed>>

Init ==
  /\ index = [s \in {} |-> 0]
  /\ values = <<>>
  /\ trimmed = <<>>

Define(s, v) ==
  /\ trimmed = <<>>
  /\ IF s \in DOMAIN index
     THEN /\ values' = [values EXCEPT ![index[s] + 1] = v]
          /\ UNCHANGED index
     ELSE /\ values' = Append(values, v)
          /\ index' = [x \in DOMAIN index \cup {s} |->
                         IF x = s THEN Len(values) ELSE index[x]]
  /\ UNCHANGED trimmed

Trim ==
  /\ trimmed = <<>>
  /\ trimmed' = <<values>>
  /\ UNCHANGED <<index, values>>

Next == Trim \/ \E s \in Spellings, v \in Values : Define(s, v)

Spec == Init /\ [][Next]_vars
=============================================================================
