------------------------------ MODULE MCParser ------------------------------
(***************************************************************************)
(* Texts for TLC: all short ones over one character of every class, longer *)
(* ones over the few that nest, some with data of every kind, with the     *)
(* largest fixnum and literals beyond it, and two complete programs        *)
(* without a blank at their end.                                           *)
(***************************************************************************)
EXTENDS ParserDisplay

CONSTANTS ShortLength, LongLength

AllClasses == {"(", ")", "[", "]", "'", ",", "@", "#", "t", "a", "1", " "}
Nesting    == {"(", ")", "'", "a", "1", " "}

TextsOver(chars, n) == UNION {[1..k -> chars] : k \in 0..n}

Mixed ==
  {<<"[", "a", "(", ")", ",", "@", "1", " ", "#", "t", "]", " ">>,
   <<"1", "2", "7", "a", "(", "1", "0", "0", "a", " ", "9", "(", "0", ")", ")", " ">>,
   <<"(", "1", "2", "8", ")", " ">>, <<"(", "2", "0", "4", "8", ")", " ">>,
   <<"(", "a", " ", "b", " ", "(", "c", " ", ",", "a", ")", " ", "a", ")", " ">>,
   <<"(", "a", " ", "(", "a">>, <<"(", "a", "]", " ">>}

ShortNestedAndMixed ==
  Mixed \cup TextsOver(AllClasses, ShortLength)
    \cup {Append(t, " ") : t \in TextsOver(Nesting, LongLength)}
    \cup {Append(t, " ") : t \in TextsOver({"(", ")", "'"}, LongLength + 1)}

Unterminated == {<<"a">>, <<"(", "a", ")">>}
=============================================================================
