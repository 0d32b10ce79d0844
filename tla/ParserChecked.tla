--------------------------- MODULE ParserChecked ---------------------------
(***************************************************************************)
(* What the texts mean, stated without reference to how the parser reads   *)
(* them: a grammar over spans of the text, from which no character is ever *)
(* consumed or put back, and the characters that a datum is written with.  *)
(***************************************************************************)
EXTENDS Parser

\* Span i..j of t is a whole token: no character after it belongs to it.
IsAtom(t, i, j) ==
  /\ t[i] \notin Digits \cup Quotes \cup {"#"}
  /\ \A k \in i..j : t[k] \notin Delimiters
  /\ j = Len(t) \/ t[j + 1] \in Delimiters

IsNumber(t, i, j) ==
  /\ \A k \in i..j : t[k] \in Digits
  /\ j = Len(t) \/ t[j + 1] \notin Digits

IsTruth(t, i, j) == j = i + 1 /\ t[i] = "#" /\ t[j] \in {"t", "f"}

\* The data that span i..j of t is, as a single token.
TokensAt(t, i, j) ==
  {x \in {Number(SubSeq(t, i, j))} : IsNumber(t, i, j)}
    \cup {x \in {Symbol(SubSeq(t, i, j))} : IsAtom(t, i, j)}
    \cup {x \in {Truth(t[j])} : IsTruth(t, i, j)}

\* The mark at position i of t, and the position after it.
MarkAt(t, i) == IF t[i] = "," /\ t[i + 1] = "@" THEN ",@" ELSE t[i]
AfterMark(t, i) == IF MarkAt(t, i) = ",@" THEN i + 2 ELSE i + 1

\* Each of the data xs followed by one of the sequences yss.
Followed(xs, yss) == {<<p[1]>> \o p[2] : p \in xs \X yss}

\* The sequences of data that span i..j of t can be read as, by what begins
\* it: a blank, a list, a datum that is quoted, or a token.  A mark quotes the
\* first of the data after it.
DataAt(t, i, j) ==
  LET reads[from \in 1..Len(t) + 1] ==
        [to \in 0..Len(t) |->
           IF from > to THEN {<<>>}
           ELSE IF t[from] \in Blanks THEN reads[from + 1][to]
           ELSE IF t[from] \in Opens
                THEN UNION {Followed({List(xs) : xs \in reads[from + 1][k - 1]},
                                     reads[k + 1][to]) :
                              k \in {n \in from + 1..to : t[n] = Closing(t[from])}}
           ELSE IF t[from] \in Quotes
                THEN IF from = to THEN {}
                     ELSE {<<Quoted(MarkAt(t, from), Head(ys))>> \o Tail(ys) :
                             ys \in reads[AfterMark(t, from)][to] \ {<<>>}}
           ELSE UNION {Followed(TokensAt(t, from, k), reads[k + 1][to]) : k \in from..to}]
  IN  reads[i][j]

Readings(t) == DataAt(t, 1, Len(t))

\* The data that are no lists, and those with at most n lists in one another.
Atoms == {Unread} \cup [symbol : Seq(Characters \cup Marks)]
           \cup [number : Seq(Characters)] \cup [truth : Characters]

Data[n \in Nat] == Atoms \cup (IF n = 0 THEN {} ELSE [list : Seq(Data[n - 1])])

\* The mark by which a list was made that quotes its second element.
MarksOf(xs) ==
  {q \in Marks : Len(xs) = 2 /\ xs[1] = Symbol(<<q>>)}

\* A list, by what its elements were written with: only a quote mark makes a
\* list whose first symbol is a mark.
ShowList(xs, parts) ==
  IF MarksOf(xs) = {} THEN <<"(">> \o FlattenSeq(parts) \o <<")">>
  ELSE IF MarksOf(xs) = {",@"} THEN <<",", "@">> \o parts[2]
  ELSE FlattenSeq(parts)

\* The characters a datum with at most n lists in one another was written
\* with, but for the kind of its brackets.
Show(n, x) ==
  LET shown[m \in 0..n] ==
        [y \in Data[m] |->
           CASE y = Unread            -> <<"?">>
             [] "symbol" \in DOMAIN y -> y.symbol
             [] "number" \in DOMAIN y -> y.number
             [] "truth" \in DOMAIN y  -> <<"#", y.truth>>
             [] OTHER -> ShowList(y.list, [i \in DOMAIN y.list |-> shown[m - 1][y.list[i]]])]
  IN  shown[n][x]

ShownItems(n, xs) == FlattenSeq([i \in DOMAIN xs |-> Show(n, xs[i])])

WithoutBlanks(cs) ==
  FlattenSeq([i \in DOMAIN cs |-> IF IsBlank(cs[i]) THEN <<>> ELSE <<cs[i]>>])

\* Brackets of either kind as round ones.
Round(cs) ==
  [i \in DOMAIN cs |->
     IF cs[i] \in Opens THEN "(" ELSE IF cs[i] \in Closes THEN ")" ELSE cs[i]]

-----------------------------------------------------------------------------
\* A program that the grammar can read, and that ends in a blank as every
\* line of a file does, is read as the grammar reads it; the end of the text
\* is never met in the middle of anything.
ReadsGrammar ==
  Ended /\ text # <<>> /\ IsBlank(Last(text)) =>
    \A xs \in Readings(text) : pc = "done" /\ result = List(xs)

\* A text that is accepted has been read once from end to end: what it was
\* read as is written with exactly its characters in their order, none
\* dropped by a lookahead and none read twice after a putBack, whatever the
\* grammar thinks of the text; and no number is a value that was never read.
\* A datum has no more lists in one another than its text has characters.
NothingLost ==
  pc = "done" =>
    Round(ShownItems(Len(text), result.list)) = Round(WithoutBlanks(text))
=============================================================================
