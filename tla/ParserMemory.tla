---------------------------- MODULE ParserMemory ----------------------------
(***************************************************************************)
(* The parser with the lists it builds in memory.  Each call of parseProg  *)
(* and parseList reaches its list through two Handles, head and tail; what *)
(* parse returns is a bare word until the caller has it in a Handle; and   *)
(* any allocation may move every pair.  Parser's steps are taken as they   *)
(* are, with what they do to memory conjoined to them, so that the lists   *)
(* in memory can be compared with the data that Parser keeps.              *)
(*                                                                         *)
(* The heap has two spaces: a pair's address is even in one and odd in the *)
(* other, and a collection copies what the Handles lead to from one to the *)
(* other.  A word is an address, a fixnum, or the datum of Parser that has *)
(* no parts.  Symbols are objects too, but reached by the intern table:    *)
(* NameTable is about them.                                                *)
(***************************************************************************)
EXTENDS ParserChecked

CONSTANT WordBits  \* 64: the bits of an intptr_t, kTagShift of them a tag

kTagShift == 4

ASSUME WordBitsAssumption == WordBits \in Nat /\ WordBits > kTagShift + 1

VARIABLES
  memory,  \* the space in use, its pairs, the Handles of the calls in
           \* Parser's stack, and one of the innermost call for a new element
  word     \* what parse returned: an Object *, which no collection updates

memoryVars == <<vars, memory, word>>

Nil == List(<<>>)

PairAt(a) == [pair |-> a]
IsPair(w) == "pair" \in DOMAIN w

NoHandles == [head |-> Nil, tail |-> Nil]

-----------------------------------------------------------------------------
(***************************************************************************)
(* Numbers: read by a stream that stops at LONG_MAX, and shifted left to   *)
(* make a fixnum.                                                          *)
(***************************************************************************)
Value(cs) ==
  LET digit(c) == CHOOSE d \in 0..9 : ToString(d) = c
  IN  FoldLeft(LAMBDA n, c : 10 * n + digit(c), 0, cs)

LongMax == 2 ^ (WordBits - 1) - 1

Signed(n) ==
  LET half == 2 ^ (WordBits - 1) IN ((n + half) % (2 * half)) - half

newFixnum(n) == [fixnum |-> Signed(n * 2 ^ kTagShift)]

AtomWord(x) ==
  IF "number" \in DOMAIN x
  THEN LET n == Value(x.number) IN newFixnum(IF n > LongMax THEN LongMax ELSE n)
  ELSE x

-----------------------------------------------------------------------------
(***************************************************************************)
(* Allocation.                                                             *)
(***************************************************************************)
HandleWords(m) ==
  {m.held} \cup UNION {{f.head, f.tail} : f \in Range(m.frames)}

AddressesOf(ws) == {w.pair : w \in {x \in ws : IsPair(x)}}

Live(m) ==
  LET from(as) == AddressesOf(UNION {{m.pairs[a].car, m.pairs[a].cdr} : a \in as})
      after[n \in 0..Cardinality(DOMAIN m.pairs)] ==
        IF n = 0 THEN AddressesOf(HandleWords(m)) \cap DOMAIN m.pairs
        ELSE after[n - 1] \cup (from(after[n - 1]) \cap DOMAIN m.pairs)
  IN  after[Cardinality(DOMAIN m.pairs)]

\* Where a collection that starts in space moves the live pair at address a.
NewPlace(live, space, a) == 2 * Cardinality({b \in live : b < a}) + (1 - space)

Moved(live, space, w) ==
  IF IsPair(w) /\ w.pair \in live THEN PairAt(NewPlace(live, space, w.pair)) ELSE w

\* Mutant: the address of the last pair is read before newPair allocates, as
\* tail->raw()->cdr() = newPair(...) does.
MovedHandles_TailReadFirst(live, space, f) ==
  [head |-> Moved(live, space, f.head), tail |-> f.tail]

MovedHandles(live, space, f) ==
  [head |-> Moved(live, space, f.head), tail |-> Moved(live, space, f.tail)]

Collected(m) ==
  LET live == Live(m)
      copies == {NewPlace(live, m.space, b) : b \in live}
      original(a) == m.pairs[CHOOSE b \in live : NewPlace(live, m.space, b) = a]
  IN  [space  |-> 1 - m.space,
       pairs  |-> [a \in copies |->
                     [car |-> Moved(live, m.space, original(a).car),
                      cdr |-> Moved(live, m.space, original(a).cdr)]],
       frames |-> [i \in DOMAIN m.frames |->
                     MovedHandles(live, m.space, m.frames[i])],
       held   |-> Moved(live, m.space, m.held)]

\* Memory when an allocation has made room.
Room(m) == {m, Collected(m)}

NewAddress(m) ==
  CHOOSE a \in {2 * n + m.space : n \in 0..Cardinality(DOMAIN m.pairs)} :
    a \notin DOMAIN m.pairs

\* newPair, once there is room: its arguments are references to Handles.
WithPair(m, car, cdr) ==
  LET a == NewAddress(m)
  IN  [m EXCEPT !.pairs = [b \in DOMAIN m.pairs \cup {a} |->
                             IF b = a THEN [car |-> car, cdr |-> cdr] ELSE m.pairs[b]]]

\* The element in held becomes the last of the innermost list.  A write to an
\* address of the space that is not in use is lost.
Linked(m) ==
  LET t == PairAt(NewAddress(m))
      hs == Last(m.frames)
      written == [WithPair(m, m.held, Nil) EXCEPT
                    !.pairs = IF hs.head = Nil THEN @
                              ELSE [@ EXCEPT ![hs.tail.pair].cdr = t]]
  IN  [written EXCEPT !.frames[Len(m.frames)] =
                        [head |-> IF hs.head = Nil THEN t ELSE hs.head, tail |-> t],
                      !.held = Nil]

\* parseQuote's wrapped: the list of the body in held.
Wrapped(m) == [WithPair(m, m.held, Nil) EXCEPT !.held = PairAt(NewAddress(m))]

-----------------------------------------------------------------------------
(***************************************************************************)
(* The steps of Parser, and what they do to memory.                        *)
(***************************************************************************)
MemoryInit ==
  /\ Init
  /\ memory = [space |-> 0, pairs |-> [a \in {} |-> Nil],
               frames |-> <<NoHandles>>, held |-> Nil]
  /\ word = NoDatum

Quiet == UNCHANGED <<memory, word>>

\* A call begins, unless an assertion stops the process.
HandlesBegin ==
  /\ memory' = IF pc' = "aborted" THEN memory
               ELSE [memory EXCEPT !.frames = Append(@, NoHandles)]
  /\ UNCHANGED word

\* An atom is returned; a symbol was interned, and that allocates.
AtomReturned ==
  IF pc' = "aborted" THEN Quiet
  ELSE /\ word' = AtomWord(result')
       /\ memory' \in IF "symbol" \in DOMAIN result' THEN Room(memory) ELSE {memory}

\* head.getPtr() is returned, and the Handles go.
ListReturned ==
  /\ word' = Last(memory.frames).head
  /\ memory' = [memory EXCEPT !.frames = Front(@)]

\* What parse returned goes into a Handle, and from there into the list.
ItemLinked ==
  IF word = NoDatum THEN Quiet
  ELSE /\ memory' \in {Linked(m) : m \in Room([memory EXCEPT !.held = word])}
       /\ UNCHANGED word

QuoteReturned ==
  IF word = NoDatum THEN Quiet
  ELSE \E body \in Room([memory EXCEPT !.held = word]) :
         \E wrapped \in Room(Wrapped(body)) :
           /\ memory' = [WithPair(wrapped, Symbol(<<frame.mark>>), wrapped.held)
                           EXCEPT !.frames = Front(@), !.held = Nil]
           /\ word' = PairAt(NewAddress(wrapped))

\* The program is the list of parseProg, or there is none.
ProgramReturned ==
  IF word = NoDatum
  THEN word' = Last(memory.frames).head /\ UNCHANGED memory
  ELSE ItemLinked

MemoryNext ==
  \/ ParseAssertFails /\ Quiet
  \/ ParseNothing /\ word' = NoDatum /\ UNCHANGED memory
  \/ ParseList /\ HandlesBegin
  \/ ParseFixnum /\ AtomReturned
  \/ ParseQuote /\ HandlesBegin
  \/ ParseAtom /\ AtomReturned
  \/ ListAssertFails /\ Quiet
  \/ ListCloses /\ ListReturned
  \/ ListItem /\ Quiet
  \/ ReturnToProg /\ ProgramReturned
  \/ ReturnToList /\ ItemLinked
  \/ ReturnToQuote /\ QuoteReturned

\* As in Parser, the process goes on as long as it can.
MemorySpec == MemoryInit /\ [][MemoryNext]_memoryVars /\ WF_vars(Next)

-----------------------------------------------------------------------------
(***************************************************************************)
(* Properties.                                                             *)
(***************************************************************************)
\* The words that stand in pairs p for the list xs, if those in ws[x] do for
\* an element x: the pairs of a list end in nil.
ListWords(p, ws, xs) ==
  LET from[i \in 1..Len(xs) + 1] ==
        IF i > Len(xs) THEN {Nil}
        ELSE LET first == ws[xs[i]]
                 rest == from[i + 1]
             IN  {PairAt(a) : a \in {b \in DOMAIN p : p[b].car \in first /\ p[b].cdr \in rest}}
  IN  from[1]

\* The words that stand for a datum with at most n lists in one another.
Words(p, n, x) ==
  LET words[k \in 0..n] ==
        [y \in Data[k] |->
           IF "list" \in DOMAIN y THEN ListWords(p, words[k - 1], y.list)
           ELSE {AtomWord(y)}]
  IN  words[n][x]

\* w stands for x; a list of the text's data has more lists in one another.
StandsFor(w, x) == w \in Words(memory.pairs, Len(text) + 1, x)

\* Wherever collections fall while the text is read, the list of every call
\* has exactly the elements that were read for it, in order, and what parse
\* returns has the parts that it was read with.
MemoryHoldsData ==
  /\ Len(memory.frames) = Len(stack)
  /\ \A i \in DOMAIN stack : StandsFor(memory.frames[i].head, List(stack[i].items))
  /\ pc \in {"return", "done"} =>
       IF result = NoDatum THEN word = NoDatum ELSE StandsFor(word, result)
=============================================================================
