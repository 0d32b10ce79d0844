------------------------------- MODULE Parser -------------------------------
(***************************************************************************)
(* The recursive-descent parser (parser.cpp, parser.hpp) reading one text. *)
(* The recursion is explicit: stack holds the calls of parseProg,          *)
(* parseList and parseQuote that are waiting for a datum, innermost last.  *)
(* One step is one call of parse, one turn of parseList's loop, or the     *)
(* return of a datum to its caller.  ix is the number of characters read.  *)
(*                                                                         *)
(* A failed assert ends the process: the Makefile never defines NDEBUG.    *)
(***************************************************************************)
EXTENDS Integers, SequencesExt

CONSTANT Texts       \* the texts that may be given to parseProg

\* A character is a string; ",@" is two of them.
Characters == STRING \ {",@"}

ASSUME TextsAssumption == Texts \subseteq Seq(Characters)

VARIABLES
  text,              \* Parser::input
  ix,
  stack,
  result,            \* what the last call returned
  pc                 \* "parse", "list", "return", "done", "rejected" or "aborted"

vars == <<text, ix, stack, result, pc>>

(***************************************************************************)
(* Characters and data.  A symbol or a number is the characters it was     *)
(* read from; the symbol of a quote mark is that mark.                     *)
(***************************************************************************)
Blanks == {" ", "\t", "\n", "vertical tab", "\f", "\r"}   \* isspace
Digits == {"0", "1", "2", "3", "4", "5", "6", "7", "8", "9"}
Opens  == {"(", "["}
Closes == {")", "]"}
Quotes == {"'", "quasi", ","}     \* "quasi" is the back quote
Marks  == Quotes \cup {",@"}

Closing(open) == IF open = "(" THEN ")" ELSE "]"

Symbol(cs) == [symbol |-> cs]
Number(cs) == [number |-> cs]
Truth(c)   == [truth |-> c]
List(xs)   == [list |-> xs]

Quoted(mark, x) == List(<<Symbol(<<mark>>), x>>)

\* parseFixnum's val when it was never assigned: any number.
Unread == [unread |-> TRUE]

\* The NULL that parse returns together with ok = false.
NoDatum == [none |-> TRUE]

-----------------------------------------------------------------------------
HasNext == ix < Len(text)

IsBlank(c) == c \in Blanks

Delimiters == Blanks \cup Opens \cup Closes

\* The number of characters read when a loop that began after from of them
\* goes on while they are in chars (or, with in = FALSE, are not), and puts
\* back the first one on which it stops, or meets the end.
ReadWhile(chars, in, from) ==
  LET k == SelectInSubSeq(text, from + 1, Len(text),
                          LAMBDA c : (c \in chars) # in)
  IN  IF k = 0 THEN Len(text) ELSE k - 1

\* getNextSkipWS returns character skipped + 1, or 0 at the end of the text.
skipped == ReadWhile(Blanks, TRUE, ix)
atEnd == skipped = Len(text)
next == IF atEnd THEN "" ELSE text[skipped + 1]

\* The characters of the token that began with next and ended at end.
Token(end) == SubSeq(text, skipped + 1, end)

Call(fn, mark) ==
  stack' = Append(stack, [fn |-> fn, mark |-> mark, items |-> <<>>])

Return(x) == result' = x /\ pc' = "return"

Abort == pc' = "aborted" /\ UNCHANGED <<ix, stack, result>>

Init ==
  /\ text \in Texts
  /\ ix = 0
  /\ stack = <<[fn |-> "prog", mark |-> "", items |-> <<>>]>>
  /\ result = NoDatum
  /\ pc = "parse"

\* assert(hasNext()) at the head of parse.
ParseAssertFails ==
  /\ pc = "parse"
  /\ ~HasNext
  /\ Abort
  /\ UNCHANGED text

\* Mutant: the end of the text is read like a character.
ParseNothing_PastEnd ==
  /\ pc = "parse"
  /\ HasNext
  /\ atEnd
  /\ ix' = Len(text) + 1
  /\ Return(NoDatum)
  /\ UNCHANGED <<text, stack>>

\* Nothing but blanks is left: *ok is false.
ParseNothing ==
  /\ pc = "parse"
  /\ HasNext
  /\ atEnd
  /\ ix' = Len(text)
  /\ Return(NoDatum)
  /\ UNCHANGED <<text, stack>>

\* The dispatch of parse on the character it reads.
Parsing == pc = "parse" /\ HasNext /\ ~atEnd

ParseList ==
  /\ Parsing
  /\ next \in Opens
  /\ ix' = skipped + 1
  /\ Call("list", next)
  /\ pc' = "list"
  /\ UNCHANGED <<text, result>>

\* Mutant: the character after the number is read too.
ParseFixnum_NoPutBack ==
  /\ Parsing
  /\ next \in Digits
  /\ LET end == ReadWhile(Digits, TRUE, skipped + 1)
     IN  IF end = Len(text)
         THEN ix' = end /\ Return(Unread)
         ELSE ix' = end + 1 /\ Return(Number(Token(end)))
  /\ UNCHANGED <<text, stack>>

\* val is only assigned when a character that is no digit ends the number.
ParseFixnum ==
  /\ Parsing
  /\ next \in Digits
  /\ LET end == ReadWhile(Digits, TRUE, skipped + 1)
     IN  /\ ix' = end
         /\ Return(IF end = Len(text) THEN Unread ELSE Number(Token(end)))
  /\ UNCHANGED <<text, stack>>

\* Mutant: the character after a comma is lost.
ParseQuote_NoPutBack ==
  /\ Parsing
  /\ next \in Quotes
  /\ IF next = "," /\ skipped + 1 = Len(text)
     THEN Abort
     ELSE /\ IF next = "," /\ text[skipped + 2] = "@"
             THEN Call("quote", ",@")
             ELSE Call("quote", next)
          /\ ix' = IF next = "," THEN skipped + 2 ELSE skipped + 1
          /\ UNCHANGED <<result, pc>>
  /\ UNCHANGED text

\* getNext asserts that a comma is not the last character.
ParseQuote ==
  /\ Parsing
  /\ next \in Quotes
  /\ IF next = "," /\ skipped + 1 = Len(text)
     THEN Abort
     ELSE /\ IF next = "," /\ text[skipped + 2] = "@"
             THEN Call("quote", ",@") /\ ix' = skipped + 2
             ELSE Call("quote", next) /\ ix' = skipped + 1
          /\ UNCHANGED <<result, pc>>
  /\ UNCHANGED text

\* #t and #f end where they end.  Any other character that parse has no case
\* for begins a symbol, a closing bracket too.
ParseAtom ==
  /\ Parsing
  /\ next \notin Opens \cup Digits \cup Quotes
  /\ IF next = "#" /\ (skipped + 1 = Len(text) \/ IsBlank(text[skipped + 2]))
     THEN Abort
     ELSE /\ IF next = "#" /\ text[skipped + 2] \in {"t", "f"}
             THEN ix' = skipped + 2 /\ Return(Truth(text[skipped + 2]))
             ELSE LET end == ReadWhile(Delimiters, FALSE, skipped + 1)
                  IN  ix' = end /\ Return(Symbol(Token(end)))
          /\ UNCHANGED stack
  /\ UNCHANGED text

-----------------------------------------------------------------------------
frame == Last(stack)

\* The end of the text, or the wrong bracket, within a list.
ListAssertFails ==
  /\ pc = "list"
  /\ ~HasNext \/ next \in Closes \ {Closing(frame.mark)}
  /\ Abort
  /\ UNCHANGED text

ListCloses ==
  /\ pc = "list"
  /\ HasNext
  /\ next = Closing(frame.mark)
  /\ ix' = skipped + 1
  /\ stack' = Front(stack)
  /\ Return(List(frame.items))
  /\ UNCHANGED text

\* Mutant: when only blanks are left the loop goes on instead of parsing.
ListItem_Retries ==
  /\ pc = "list"
  /\ HasNext
  /\ next \notin Closes
  /\ ix' = IF atEnd THEN Len(text) - 1 ELSE skipped
  /\ pc' = IF atEnd THEN "list" ELSE "parse"
  /\ UNCHANGED <<text, stack, result>>

\* putBack also runs when there was no character to put back, and then puts
\* back a blank.
ListItem ==
  /\ pc = "list"
  /\ HasNext
  /\ next \notin Closes
  /\ ix' = IF atEnd THEN Len(text) - 1 ELSE skipped
  /\ pc' = "parse"
  /\ UNCHANGED <<text, stack, result>>

Extended == Front(stack) \o <<[frame EXCEPT !.items = Append(@, result)]>>

Returning(fn) == pc = "return" /\ frame.fn = fn

\* parseProg: no datum ends the program, and the list of its data is the result.
ReturnToProg ==
  /\ Returning("prog")
  /\ IF result = NoDatum
     THEN /\ pc' = IF HasNext THEN "rejected" ELSE "done"
          /\ result' = List(frame.items)
          /\ UNCHANGED stack
     ELSE /\ stack' = Extended
          /\ pc' = "parse"
          /\ UNCHANGED result
  /\ UNCHANGED <<text, ix>>

\* parseList: assert(ok), then the next element.
ReturnToList ==
  /\ Returning("list")
  /\ IF result = NoDatum
     THEN Abort
     ELSE /\ stack' = Extended
          /\ pc' = "list"
          /\ UNCHANGED <<ix, result>>
  /\ UNCHANGED text

\* parseQuote: assert(ok), then the list of the mark's symbol and the datum.
ReturnToQuote ==
  /\ Returning("quote")
  /\ IF result = NoDatum
     THEN Abort
     ELSE /\ stack' = Front(stack)
          /\ Return(Quoted(frame.mark, result))
          /\ UNCHANGED ix
  /\ UNCHANGED text

Next ==
  \/ ParseAssertFails
  \/ ParseNothing
  \/ ParseList
  \/ ParseFixnum
  \/ ParseQuote
  \/ ParseAtom
  \/ ListAssertFails
  \/ ListCloses
  \/ ListItem
  \/ ReturnToProg
  \/ ReturnToList
  \/ ReturnToQuote

Spec == Init /\ [][Next]_vars /\ WF_vars(Next)

-----------------------------------------------------------------------------
(***************************************************************************)
(* Properties.  What a text means is stated in ParserChecked.              *)
(***************************************************************************)
Ended == pc \in {"done", "rejected", "aborted"}

\* The types of the variables: ix counts characters of the text, parseProg
\* is the outermost call, and only the calls that build lists have elements.
TypeOK ==
  /\ text \in Seq(Characters)
  /\ ix \in 0..Len(text)
  /\ stack # <<>>
  /\ \A i \in DOMAIN stack :
       /\ stack[i].fn = "prog" <=> i = 1
       /\ stack[i].fn = "quote" =>
            stack[i].mark \in Marks /\ stack[i].items = <<>>
       /\ stack[i].fn = "list" => stack[i].mark \in Opens
  /\ pc \in {"parse", "list", "return", "done", "rejected", "aborted"}

\* assert(hasNext()) of parse: whoever calls parse has seen that there is
\* text left, so parse itself reports the end of the program through ok.
ParseHasText == pc = "parse" => HasNext

\* Every text is read to its end or refused: putBack and the tests for the
\* end of the text never make a loop run for ever.
Ends == <>Ended
=============================================================================
