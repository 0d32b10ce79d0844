--------------------------- MODULE ParserDisplay ---------------------------
(***************************************************************************)
(* Object::displayDetail and displayListDetail, which debug output and     *)
(* display# print with, of what the parser made.  They walk the list in    *)
(* memory.                                                                 *)
(***************************************************************************)
EXTENDS ParserMemory

fromFixnum(w) == w.fixnum \div 2 ^ kTagShift

\* The digits that a number is printed with.
Decimal(n) ==
  LET digits[k \in Nat] ==
        IF k < 10 THEN <<ToString(k)>>
        ELSE Append(digits[k \div 10], ToString(k % 10))
  IN  IF n < 0 THEN <<"-">> \o digits[-n] ELSE digits[n]

NameOfMark == "'" :> "quote" @@ "," :> "unquote" @@ ",@" :> "unquote-splicing"
                @@ "quasi" :> "quasiquote"

\* The spelling of a symbol.  That of a mark's symbol is one long character.
Spelled(cs) ==
  IF Len(cs) = 1 /\ cs[1] \in DOMAIN NameOfMark THEN <<NameOfMark[cs[1]]>> ELSE cs

RECURSIVE displayDetail(_), displayRest(_)

displayDetail(w) ==
  CASE IsPair(w) -> <<"(">> \o displayDetail(memory.pairs[w.pair].car)
                      \o displayRest(memory.pairs[w.pair].cdr) \o <<")">>
    [] w = Nil -> <<"(", ")">>
    [] "fixnum" \in DOMAIN w -> Decimal(fromFixnum(w))
    [] "truth" \in DOMAIN w -> <<"#", w.truth>>
    [] "symbol" \in DOMAIN w -> Spelled(w.symbol)

\* Mutant: the elements of a list are printed one right after the other.
displayRest_NoBlank(w) ==
  IF IsPair(w)
  THEN displayDetail(memory.pairs[w.pair].car) \o displayRest(memory.pairs[w.pair].cdr)
  ELSE <<>>

\* The loop of displayListDetail; what the parser made ends in nil.
displayRest(w) ==
  IF IsPair(w)
  THEN <<" ">> \o displayDetail(memory.pairs[w.pair].car)
         \o displayRest(memory.pairs[w.pair].cdr)
  ELSE <<>>

RECURSIVE Named(_)

\* A datum with the symbols that quote marks stand for.
Named(x) ==
  CASE "list" \in DOMAIN x -> List([i \in DOMAIN x.list |-> Named(x.list[i])])
    [] "symbol" \in DOMAIN x -> Symbol(Spelled(x.symbol))
    [] OTHER -> x

RECURSIVE Numbers(_)

Numbers(x) ==
  CASE "list" \in DOMAIN x -> UNION {Numbers(y) : y \in Range(x.list)}
    [] "number" \in DOMAIN x -> {Value(x.number)}
    [] OTHER -> {}

\* What was read is printed as a text that the grammar reads as the same data:
\* no two elements run together, quote marks come back as their names, and a
\* literal comes back as the number that it is, if a fixnum can hold it.
DisplayReadsBack ==
  /\ pc = "done"
  /\ Readings(text) = {result.list}
  /\ \A n \in Numbers(result) : n < 2 ^ (WordBits - kTagShift - 1)
  => Readings(displayDetail(word)) = {<<Named(result)>>}
=============================================================================
