--------------------------- MODULE ParserProofs ---------------------------
(***************************************************************************)
(* The parser on texts of any length, over any characters.                 *)
(***************************************************************************)
EXTENDS ParserChecked, SequenceTheorems, NaturalsInduction, WellFoundedInduction,
        TLAPS

-----------------------------------------------------------------------------
\* A set of naturals has a least one; with it, induction is a proof by the
\* least counterexample.
LEMMA LeastNatural ==
  ASSUME NEW T, T \subseteq Nat, T # {}
  PROVE  \E n \in T : \A m \in T : n <= m
<1>1. \E x \in T : \A y \in T : ~(<<y, x>> \in OpToRel(<, Nat))
  BY NatLessThanWellFounded, WFMin
<1>2. PICK x \in T : \A y \in T : ~(<<y, x>> \in OpToRel(<, Nat))
  BY <1>1
<1>3. \A y \in T : ~(y < x)
  BY <1>2 DEF OpToRel
<1> QED BY <1>3

LEMMA MinIsLeast ==
  ASSUME NEW T, T \subseteq Nat, T # {}
  PROVE  Min(T) \in T /\ \A n \in T : Min(T) <= n
<1>1. \E n \in T : \A m \in T : n =< m
  BY LeastNatural
<1> QED BY <1>1 DEF Min

\* ReadWhile stops at the first character that it is not to read, or at the
\* end of the text.
LEMMA ReadWhileStops ==
  ASSUME text \in Seq(Characters), NEW chars, NEW in \in BOOLEAN,
         NEW from \in 0..Len(text)
  PROVE  /\ ReadWhile(chars, in, from) \in from..Len(text)
         /\ \A k \in from + 1..ReadWhile(chars, in, from) : (text[k] \in chars) = in
         /\ ReadWhile(chars, in, from) # Len(text) =>
              (text[ReadWhile(chars, in, from) + 1] \in chars) # in
<1> DEFINE stops == {i \in from + 1..Len(text) : (text[i] \in chars) # in}
           e == ReadWhile(chars, in, from)
<1>0. Len(text) \in Nat
  OBVIOUS
<1>1. e = LET k == IF stops # {} THEN Min(stops) ELSE 0
          IN  IF k = 0 THEN Len(text) ELSE k - 1
  BY DEF ReadWhile, SelectInSubSeq
<1>2. stops \subseteq Nat
  BY <1>0
<1>3. CASE stops = {}
  <2>1. e = Len(text)
    BY <1>1, <1>3
  <2>2. \A k \in from + 1..Len(text) : k \notin stops
    BY <1>3
  <2> QED BY <2>1, <2>2, <1>0
<1>4. CASE stops # {}
  <2>1. Min(stops) \in stops /\ \A n \in stops : Min(stops) <= n
    <3> HIDE DEF stops
    <3> QED BY <1>2, <1>4, MinIsLeast
  <2>2. e = Min(stops) - 1
    BY <2>1, <1>1, <1>4, <1>0
  <2>3. PICK m : m = Min(stops)
    OBVIOUS
  <2>4. m \in from + 1..Len(text) /\ (text[m] \in chars) # in /\ e = m - 1
    BY <2>1, <2>2, <2>3
  <2>5. ASSUME NEW k \in from + 1..e PROVE (text[k] \in chars) = in
    <3>1. k \in from + 1..Len(text) /\ ~(m <= k)
      BY <2>4, <1>0
    <3>2. k \notin stops
      BY <3>1, <2>1, <2>3
    <3> QED BY <3>1, <3>2
  <2>6. e \in from..Len(text) /\ e + 1 = m
    BY <2>4, <1>0
  <2> QED BY <2>4, <2>5, <2>6
<1> QED BY <1>3, <1>4

-----------------------------------------------------------------------------
(***************************************************************************)
(* Data.  What TLA+ defines by recursion is a function that satisfies the  *)
(* recursion, if there is one.                                             *)
(***************************************************************************)
DataBody(u, n) == Atoms \cup (IF n = 0 THEN {} ELSE [list : Seq(u[n - 1])])

IsDataUpTo(m, u) == \A n \in 0..m : u[n] = DataBody(u, n)

LEMMA DataExistsUpTo == \A m \in Nat : \E u : IsDataUpTo(m, u)
<1> DEFINE T == {m \in Nat : ~\E u : IsDataUpTo(m, u)}
<1> SUFFICES ASSUME T # {} PROVE FALSE
  OBVIOUS
<1>1. PICK m \in T : \A k \in T : m <= k
  <2>1. T \subseteq Nat
    OBVIOUS
  <2> HIDE DEF T
  <2> QED BY <2>1, LeastNatural
<1>2. m \in Nat /\ ~\E u : IsDataUpTo(m, u)
  BY <1>1
<1>3. CASE m = 0
  <2> DEFINE u == [n \in {0} |-> Atoms]
  <2>1. u[0] = DataBody(u, 0) /\ 0..0 = {0}
    BY DEF DataBody
  <2> QED BY <2>1, <1>2, <1>3 DEF IsDataUpTo
<1>4. CASE m # 0
  <2>1. m - 1 \in Nat /\ m - 1 \notin T
    BY <1>1, <1>2, <1>4
  <2>2. PICK u : IsDataUpTo(m - 1, u)
    BY <2>1
  <2> DEFINE v == [n \in 0..m |-> IF n = m THEN DataBody(u, m) ELSE u[n]]
  <2>3. v[m] = DataBody(u, m) /\ \A n \in 0..(m - 1) : v[n] = u[n]
    BY <1>2
  <2> HIDE DEF v
  <2>4. ASSUME NEW n \in 0..m PROVE v[n] = DataBody(v, n)
    <3>1. n # 0 => u[n - 1] = v[n - 1]
      BY <2>3, <1>2
    <3>2. DataBody(u, n) = DataBody(v, n)
      BY <3>1 DEF DataBody
    <3>3. v[n] = DataBody(u, n)
      <4>1. n = m \/ n \in 0..(m - 1)
        BY <1>2
      <4> QED BY <4>1, <2>2, <2>3 DEF IsDataUpTo
    <3> QED BY <3>2, <3>3
  <2> QED BY <2>4, <1>2 DEF IsDataUpTo
<1> QED BY <1>3, <1>4

LEMMA DataIsUnique ==
  ASSUME NEW k \in Nat, NEW u, IsDataUpTo(k, u),
         NEW m \in Nat, NEW v, IsDataUpTo(m, v)
  PROVE  \A n \in Nat : n <= k /\ n <= m => u[n] = v[n]
<1> DEFINE T == {n \in Nat : n <= k /\ n <= m /\ u[n] # v[n]}
<1> SUFFICES ASSUME T # {} PROVE FALSE
  OBVIOUS
<1>1. PICK n \in T : \A i \in T : n <= i
  <2>1. T \subseteq Nat
    OBVIOUS
  <2> HIDE DEF T
  <2> QED BY <2>1, LeastNatural
<1>2. n \in Nat /\ n <= k /\ n <= m /\ u[n] # v[n]
  BY <1>1
<1>3. n # 0 => u[n - 1] = v[n - 1]
  <2>1. n # 0 => n - 1 \in Nat /\ n - 1 \notin T
    BY <1>1, <1>2
  <2> QED BY <2>1, <1>2
<1>4. DataBody(u, n) = DataBody(v, n)
  BY <1>3 DEF DataBody
<1>5. n \in 0..k /\ n \in 0..m
  BY <1>2
<1> QED BY <1>2, <1>4, <1>5 DEF IsDataUpTo

\* The recursion of Data.
LEMMA DataUnfold ==
  ASSUME NEW n \in Nat
  PROVE  Data[n] = Atoms \cup (IF n = 0 THEN {} ELSE [list : Seq(Data[n - 1])])
<1> DEFINE u(m) == CHOOSE w : IsDataUpTo(m, w)
           v == [m \in Nat |-> u(m)[m]]
<1>1. \A m \in Nat : IsDataUpTo(m, u(m))
  BY DataExistsUpTo
<1>2. ASSUME NEW m \in Nat PROVE v[m] = DataBody(v, m)
  <2>1. v[m] = DataBody(u(m), m)
    BY <1>1 DEF IsDataUpTo
  <2>2. m # 0 => u(m)[m - 1] = v[m - 1]
    <3> SUFFICES ASSUME m # 0 PROVE u(m)[m - 1] = u(m - 1)[m - 1]
      OBVIOUS
    <3>1. m - 1 \in Nat /\ m - 1 <= m
      OBVIOUS
    <3> HIDE DEF u
    <3> QED BY <3>1, <1>1, DataIsUnique
  <2> HIDE DEF u, v
  <2> QED BY <2>1, <2>2 DEF DataBody
<1>3. \E w : w = [m \in Nat |-> Atoms \cup (IF m = 0 THEN {} ELSE [list : Seq(w[m - 1])])]
  <2>1. v = [m \in Nat |-> DataBody(v, m)]
    <3> HIDE DEF u
    <3>1. v = [m \in Nat |-> v[m]]
      OBVIOUS
    <3> HIDE DEF v
    <3> QED BY <3>1, <1>2
  <2> HIDE DEF v, u
  <2> QED BY <2>1 DEF DataBody
<1>4. Data = [m \in Nat |-> Atoms \cup (IF m = 0 THEN {} ELSE [list : Seq(Data[m - 1])])]
  BY <1>3, Zenon DEF Data
<1> QED BY <1>4

\* A list of data is deeper by one; what is a datum stays one.
LEMMA DataGrows ==
  ASSUME NEW m \in Nat, NEW n \in Nat, m <= n
  PROVE  Data[m] \subseteq Data[n]
<1> DEFINE T == {i \in Nat : ~(Data[i] \subseteq Data[i + 1])}
<1>1. T = {}
  <2> SUFFICES ASSUME T # {} PROVE FALSE
    OBVIOUS
  <2>1. PICK i \in T : \A j \in T : i <= j
    <3>1. T \subseteq Nat
      OBVIOUS
    <3> HIDE DEF T
    <3> QED BY <3>1, LeastNatural
  <2>2. i \in Nat /\ ~(Data[i] \subseteq Data[i + 1])
    BY <2>1
  <2>3. i # 0 => Data[i - 1] \subseteq Data[i]
    <3>1. i # 0 => i - 1 \in Nat /\ i - 1 \notin T
      BY <2>1, <2>2
    <3> QED BY <3>1
  <2>4. Data[i + 1] = Atoms \cup [list : Seq(Data[i])]
    BY <2>2, DataUnfold
  <2>5. Data[i] = Atoms \cup (IF i = 0 THEN {} ELSE [list : Seq(Data[i - 1])])
    BY <2>2, DataUnfold
  <2>6. CASE i = 0
    BY <2>2, <2>4, <2>5, <2>6
  <2>7. CASE i # 0
    <3>1. \A s \in Seq(Data[i - 1]) : s \in Seq(Data[i])
      BY <2>3, <2>7, SeqMonotonic
    <3>2. [list : Seq(Data[i - 1])] \subseteq [list : Seq(Data[i])]
      BY <3>1
    <3> QED BY <3>2, <2>2, <2>4, <2>5, <2>7
  <2> QED BY <2>6, <2>7
<1> DEFINE U == {i \in Nat : m <= i /\ ~(Data[m] \subseteq Data[i])}
<1>2. U = {}
  <2> SUFFICES ASSUME U # {} PROVE FALSE
    OBVIOUS
  <2>1. PICK i \in U : \A j \in U : i <= j
    <3>1. U \subseteq Nat
      OBVIOUS
    <3> HIDE DEF U
    <3> QED BY <3>1, LeastNatural
  <2>2. i \in Nat /\ m <= i /\ ~(Data[m] \subseteq Data[i]) /\ i # m
    BY <2>1
  <2>3. i - 1 \in Nat /\ m <= i - 1 /\ i - 1 \notin U
    BY <2>1, <2>2
  <2>4. Data[i - 1] \subseteq Data[(i - 1) + 1]
    BY <1>1, <2>3
  <2> QED BY <2>2, <2>3, <2>4
<1> QED BY <1>2
-----------------------------------------------------------------------------
(***************************************************************************)
(* Types.  A datum is no deeper than the characters read since its list    *)
(* was opened: each frame of the stack stands for a character before.      *)
(***************************************************************************)
Frame(n) == [fn : {"prog", "list", "quote"}, mark : {""} \cup Opens \cup Marks,
             items : Seq(Data[n])]

\* What TypeOK says of frame f at place i of the stack.
FrameOK(i, f) ==
  /\ f.fn = "prog" <=> i = 1
  /\ f.fn = "quote" => f.mark \in Marks /\ f.items = <<>>
  /\ f.fn = "list" => f.mark \in Opens

StackOK(s, n) ==
  /\ s \in Seq(Frame(n))
  /\ s # <<>>
  /\ \A i \in DOMAIN s : FrameOK(i, s[i])

Depth == ix + 1 - Len(stack)

Types ==
  /\ text \in Seq(Characters)
  /\ ix \in 0..Len(text)
  /\ pc \in {"parse", "list", "return", "done", "rejected", "aborted"}
  /\ Depth \in Nat
  /\ StackOK(stack, Depth)
  /\ pc = "return" => result = NoDatum \/ result \in Data[Depth]
  /\ pc = "done" => Len(stack) = 1 /\ result = List(frame.items)
  /\ pc = "list" => frame.fn = "list"

LEMMA ShortSeqs ==
  ASSUME NEW S, NEW a \in S, NEW b \in S
  PROVE  <<a>> \in Seq(S) /\ <<a, b>> \in Seq(S)
  OBVIOUS

LEMMA FrontAndLast ==
  ASSUME NEW S, NEW s \in Seq(S), s # <<>>
  PROVE  /\ Len(s) \in Nat \ {0} /\ Last(s) = s[Len(s)] /\ Last(s) \in S
         /\ Front(s) \in Seq(S) /\ Len(Front(s)) = Len(s) - 1
         /\ \A i \in 1..Len(s) - 1 : Front(s)[i] = s[i]
<1>1. Len(s) \in Nat \ {0} /\ \A i \in 1..Len(s) : s[i] \in S
  BY EmptySeq, ElementOfSeq
<1>2. 1 \in Int /\ Len(s) - 1 \in Int /\ \A i \in 1..Len(s) - 1 : s[i] \in S
  BY <1>1
<1>3. PICK n \in Nat : n = Len(s) - 1
  BY <1>1
<1>4. /\ SubSeq(s, 1, n) \in Seq(S)
      /\ Len(SubSeq(s, 1, n)) = IF 1 <= n THEN n - 1 + 1 ELSE 0
      /\ \A i \in 1..n - 1 + 1 : SubSeq(s, 1, n)[i] = s[1 + i - 1]
  BY <1>2, <1>3, SubSeqProperties
<1>5. Len(SubSeq(s, 1, n)) = n /\ \A i \in 1..n : SubSeq(s, 1, n)[i] = s[i]
  BY <1>4
<1> QED BY <1>1, <1>3, <1>4, <1>5 DEF Front, Last

LEMMA FrameGrows ==
  ASSUME NEW m \in Nat, NEW n \in Nat, m <= n
  PROVE  Seq(Frame(m)) \subseteq Seq(Frame(n))
<1>1. Data[m] \subseteq Data[n]
  BY DataGrows
<1>2. Seq(Data[m]) \subseteq Seq(Data[n])
  BY <1>1, SeqMonotonic
<1>3. Frame(m) \subseteq Frame(n)
  BY <1>2 DEF Frame
<1> QED BY <1>3, SeqMonotonic

\* A datum that is no list, and one that is.
LEMMA AtomIsDatum == ASSUME NEW n \in Nat PROVE Atoms \subseteq Data[n]
  BY DataUnfold

LEMMA ListIsDatum ==
  ASSUME NEW n \in Nat, NEW xs \in Seq(Data[n])
  PROVE  List(xs) \in Data[n + 1]
<1>1. n + 1 \in Nat /\ n + 1 # 0 /\ (n + 1) - 1 = n
  OBVIOUS
<1>2. Data[n + 1] = Atoms \cup [list : Seq(Data[n])]
  BY <1>1, DataUnfold
<1> QED BY <1>2 DEF List

LEMMA QuotedIsDatum ==
  ASSUME NEW n \in Nat, NEW x \in Data[n], NEW mark \in Marks
  PROVE  Quoted(mark, x) \in Data[n + 1]
<1>1. <<mark>> \in Seq(Characters \cup Marks)
  BY ShortSeqs
<1>2. Symbol(<<mark>>) \in Data[n]
  BY <1>1, AtomIsDatum DEF Symbol, Atoms
<1>3. <<Symbol(<<mark>>), x>> \in Seq(Data[n])
  BY <1>2, ShortSeqs
<1> QED BY <1>3, ListIsDatum DEF Quoted

\* next is the first character that is no blank.
LEMMA SkipsBlanks ==
  ASSUME text \in Seq(Characters), ix \in 0..Len(text)
  PROVE  /\ skipped \in ix..Len(text) /\ Len(text) \in Nat
         /\ \A k \in ix + 1..skipped : text[k] \in Blanks
         /\ ~atEnd => /\ skipped + 1 \in 1..Len(text)
                      /\ next = text[skipped + 1]
                      /\ next \in Characters \ Blanks
<1>0. Len(text) \in Nat
  OBVIOUS
<1>1. /\ skipped \in ix..Len(text)
      /\ \A k \in ix + 1..skipped : (text[k] \in Blanks) = TRUE
      /\ skipped # Len(text) => (text[skipped + 1] \in Blanks) # TRUE
  BY ReadWhileStops DEF skipped
<1>2. ~atEnd => skipped + 1 \in 1..Len(text)
  BY <1>0, <1>1 DEF atEnd
<1>3. ~atEnd => text[skipped + 1] \in Characters
  BY <1>2, ElementOfSeq
<1> QED BY <1>0, <1>1, <1>2, <1>3 DEF next, atEnd

\* A token's characters are characters.
LEMMA TokenIsText ==
  ASSUME text \in Seq(Characters), ix \in 0..Len(text), NEW end \in skipped + 1..Len(text)
  PROVE  Token(end) \in Seq(Characters) /\ Token(end) \in Seq(Characters \cup Marks)
<1>1. skipped \in Nat /\ Len(text) \in Nat
  BY SkipsBlanks
<1>2. \A k \in skipped + 1..end : text[k] \in Characters
  BY <1>1
<1>3. Token(end) \in Seq(Characters)
  BY <1>1, <1>2, SubSeqProperties DEF Token
<1>4. Characters \subseteq Characters \cup Marks
  OBVIOUS
<1> QED BY <1>3, <1>4, SeqMonotonic
-----------------------------------------------------------------------------
\* What is called, what returns, and what an element is added to.
LEMMA StackGrows ==
  ASSUME NEW m \in Nat, NEW n \in Nat, m <= n, NEW s, StackOK(s, m)
  PROVE  StackOK(s, n)
  BY FrameGrows DEF StackOK

LEMMA Pushed ==
  ASSUME NEW n \in Nat, NEW s, StackOK(s, n),
         NEW f \in Frame(n), FrameOK(Len(s) + 1, f)
  PROVE  /\ StackOK(Append(s, f), n)
         /\ Len(Append(s, f)) = Len(s) + 1 /\ Last(Append(s, f)) = f
         /\ \A i \in 1..Len(s) : Append(s, f)[i] = s[i]
<1>1. s \in Seq(Frame(n)) /\ Len(s) \in Nat /\ DOMAIN s = 1..Len(s)
  BY LenProperties DEF StackOK
<1>2. /\ Append(s, f) \in Seq(Frame(n)) /\ Append(s, f) # <<>>
      /\ Len(Append(s, f)) = Len(s) + 1 /\ Append(s, f)[Len(s) + 1] = f
      /\ \A i \in 1..Len(s) : Append(s, f)[i] = s[i]
  BY <1>1, AppendProperties
<1>3. DOMAIN Append(s, f) = 1..Len(s) + 1
  BY <1>2, LenProperties
<1>4. ASSUME NEW i \in 1..Len(s) + 1 PROVE FrameOK(i, Append(s, f)[i])
  <2>1. i = Len(s) + 1 \/ i \in 1..Len(s)
    BY <1>1
  <2> QED BY <2>1, <1>1, <1>2 DEF StackOK
<1> QED BY <1>2, <1>3, <1>4 DEF StackOK, Last

LEMMA Popped ==
  ASSUME NEW n \in Nat, NEW s, StackOK(s, n), Last(s).fn # "prog"
  PROVE  /\ StackOK(Front(s), n)
         /\ Len(Front(s)) = Len(s) - 1 /\ Len(s) \in Nat /\ Len(s) > 1
         /\ \A i \in 1..Len(s) - 1 : Front(s)[i] = s[i]
<1>1. /\ Len(s) \in Nat \ {0} /\ Last(s) = s[Len(s)] /\ DOMAIN s = 1..Len(s)
      /\ Front(s) \in Seq(Frame(n)) /\ Len(Front(s)) = Len(s) - 1
      /\ \A i \in 1..Len(s) - 1 : Front(s)[i] = s[i]
  BY FrontAndLast, LenProperties DEF StackOK
<1>2. Len(s) > 1
  <2>1. Len(s) \in DOMAIN s
    BY <1>1
  <2>2. Len(s) # 1
    BY <2>1, <1>1 DEF StackOK, FrameOK
  <2> QED BY <2>2, <1>1
<1>3. DOMAIN Front(s) = 1..Len(s) - 1 /\ Front(s) # <<>>
  BY <1>1, <1>2, LenProperties
<1>4. \A i \in 1..Len(s) - 1 : FrameOK(i, Front(s)[i])
  BY <1>1 DEF StackOK
<1> QED BY <1>1, <1>2, <1>3, <1>4 DEF StackOK

LEMMA WithItems ==
  ASSUME NEW n, NEW f \in Frame(n), NEW y
  PROVE  [f EXCEPT !.items = y] = [fn |-> f.fn, mark |-> f.mark, items |-> y]
<1>1. PICK A, B, C : f \in [fn : A, mark : B, items : C]
  BY DEF Frame
<1> QED BY <1>1

\* The innermost frame.
LEMMA FrameTop ==
  ASSUME NEW n \in Nat, StackOK(stack, n)
  PROVE  /\ Len(stack) \in Nat \ {0} /\ DOMAIN stack = 1..Len(stack)
         /\ frame = stack[Len(stack)] /\ frame \in Frame(n)
         /\ FrameOK(Len(stack), frame)
<1>1. /\ Len(stack) \in Nat \ {0} /\ Last(stack) = stack[Len(stack)]
      /\ Last(stack) \in Frame(n) /\ DOMAIN stack = 1..Len(stack)
  BY FrontAndLast, LenProperties DEF StackOK
<1>2. Len(stack) \in DOMAIN stack
  BY <1>1
<1> QED BY <1>1, <1>2 DEF StackOK, frame

LEMMA Extends ==
  ASSUME NEW n \in Nat, StackOK(stack, n), result \in Data[n], frame.fn # "quote"
  PROVE  /\ StackOK(Extended, n)
         /\ Len(Extended) = Len(stack)
         /\ \A i \in 1..Len(stack) - 1 : Extended[i] = stack[i]
         /\ Last(Extended) = [fn |-> frame.fn, mark |-> frame.mark,
                               items |-> Append(frame.items, result)]
<1> DEFINE f == [frame EXCEPT !.items = Append(@, result)]
<1>1. /\ Len(stack) \in Nat \ {0} /\ DOMAIN stack = 1..Len(stack)
      /\ frame = stack[Len(stack)] /\ frame \in Frame(n)
      /\ FrameOK(Len(stack), frame)
  BY FrameTop
<1>2. f = [fn |-> frame.fn, mark |-> frame.mark, items |-> Append(frame.items, result)]
  BY <1>1, WithItems
<1>3. frame.items \in Seq(Data[n])
  BY <1>1 DEF Frame
<1>4. Append(frame.items, result) \in Seq(Data[n])
  BY <1>3, AppendProperties
<1>5. f \in Frame(n) /\ FrameOK(Len(stack), f)
  BY <1>1, <1>2, <1>4 DEF Frame, FrameOK
<1> HIDE DEF f
<1>6. /\ Front(stack) \in Seq(Frame(n)) /\ Len(Front(stack)) = Len(stack) - 1
      /\ \A i \in 1..Len(stack) - 1 : Front(stack)[i] = stack[i]
  BY FrontAndLast DEF StackOK
<1>7. Extended = Append(Front(stack), f)
  <2>1. Extended = Front(stack) \o <<f>>
    BY DEF Extended, f
  <2> QED BY <2>1, <1>5, <1>6, AppendIsConcat
<1>8. /\ Extended \in Seq(Frame(n)) /\ Extended # <<>>
      /\ Len(Extended) = Len(stack)
      /\ Extended[Len(stack)] = f
      /\ \A i \in 1..Len(stack) - 1 : Extended[i] = stack[i]
  <2>1. PICK h \in Nat \ {0} : h = Len(stack)
    BY <1>1
  <2>2. /\ Extended \in Seq(Frame(n)) /\ Extended # <<>>
        /\ Len(Extended) = (h - 1) + 1 /\ Extended[(h - 1) + 1] = f
        /\ \A i \in 1..h - 1 : Extended[i] = Front(stack)[i]
    BY <2>1, <1>5, <1>6, <1>7, AppendProperties
  <2> QED BY <2>1, <2>2, <1>6
<1>9. DOMAIN Extended = 1..Len(stack)
  BY <1>8, LenProperties
<1>10. ASSUME NEW i \in 1..Len(stack) PROVE FrameOK(i, Extended[i])
  <2>1. PICK h \in Nat \ {0} : h = Len(stack)
    BY <1>1
  <2>2. i = h \/ i \in 1..h - 1
    BY <2>1
  <2>3. i \in DOMAIN stack
    BY <1>1
  <2> QED BY <2>1, <2>2, <2>3, <1>5, <1>8 DEF StackOK
<1> QED BY <1>2, <1>8, <1>9, <1>10 DEF StackOK, Last
-----------------------------------------------------------------------------
LEMMA TypesInit == Init => Types
<1> SUFFICES ASSUME Init PROVE Types
  OBVIOUS
<1> DEFINE f == [fn |-> "prog", mark |-> "", items |-> <<>>]
<1>1. /\ text \in Seq(Characters) /\ ix = 0 /\ result = NoDatum /\ pc = "parse"
      /\ stack = <<f>>
  BY TextsAssumption DEF Init
<1>2. f \in Frame(0) /\ FrameOK(1, f)
  <2>1. <<>> \in Seq(Data[0])
    BY EmptySeq
  <2>2. f.fn = "prog"
    OBVIOUS
  <2>3. f \in Frame(0)
    BY <2>1 DEF Frame
  <2> QED BY <2>2, <2>3 DEF FrameOK
<1> HIDE DEF f
<1>3. stack \in Seq(Frame(0)) /\ Len(stack) = 1 /\ stack[1] = f /\ stack # <<>>
  BY <1>1, <1>2, ShortSeqs
<1>4. DOMAIN stack = 1..1
  BY <1>3, LenProperties
<1>5. StackOK(stack, 0) /\ Depth = 0
  BY <1>1, <1>2, <1>3, <1>4 DEF StackOK, Depth
<1>6. Len(text) \in Nat
  BY <1>1, LenProperties
<1> QED BY <1>1, <1>5, <1>6 DEF Types

\* What the steps need of the state that they start in.
LEMMA TypesFacts ==
  ASSUME Types
  PROVE  /\ text \in Seq(Characters) /\ ix \in Nat /\ ix <= Len(text) /\ ix \in 0..Len(text)
         /\ Len(text) \in Nat
         /\ skipped \in Nat /\ ix <= skipped /\ skipped <= Len(text)
         /\ ~atEnd => skipped + 1 <= Len(text) /\ next \in Characters \ Blanks
         /\ Len(stack) \in Nat \ {0}
         /\ Depth \in Nat /\ Depth = ix + 1 - Len(stack) /\ StackOK(stack, Depth)
         /\ frame \in Frame(Depth) /\ FrameOK(Len(stack), frame)
<1>1. /\ text \in Seq(Characters) /\ ix \in 0..Len(text)
      /\ Depth \in Nat /\ StackOK(stack, Depth)
  BY DEF Types
<1>2. Len(stack) \in Nat \ {0} /\ frame \in Frame(Depth) /\ FrameOK(Len(stack), frame)
  BY <1>1, FrameTop
<1>3. /\ skipped \in ix..Len(text) /\ Len(text) \in Nat
      /\ ~atEnd => skipped + 1 \in 1..Len(text) /\ next \in Characters \ Blanks
  BY <1>1, SkipsBlanks
<1> QED BY <1>1, <1>2, <1>3 DEF Depth

\* A step that leaves the stack alone and reads on, or does not.
LEMMA TypesSameStack ==
  ASSUME Types, UNCHANGED <<text, stack>>,
         ix' \in Nat, ix <= ix', ix' <= Len(text),
         pc' \in {"parse", "return", "rejected", "aborted"},
         pc' = "return" => result' = NoDatum \/ result' \in Atoms
  PROVE  Types'
<1>1. /\ text \in Seq(Characters) /\ ix \in Nat /\ Len(text) \in Nat
      /\ Len(stack) \in Nat \ {0} /\ Depth \in Nat /\ Depth = ix + 1 - Len(stack)
      /\ StackOK(stack, Depth)
  BY TypesFacts
<1>2. Depth' = ix' + 1 - Len(stack)
  BY DEF Depth
<1>3. Depth' \in Nat /\ Depth <= Depth'
  BY <1>1, <1>2
<1>4. StackOK(stack, Depth')
  BY <1>1, <1>3, StackGrows
<1>5. StackOK(stack', Depth') /\ text' \in Seq(Characters) /\ ix' \in 0..Len(text')
  BY <1>1, <1>4
<1>6. result' \in Atoms => result' \in Data[Depth']
  BY <1>3, AtomIsDatum
<1> QED BY <1>3, <1>5, <1>6 DEF Types

LEMMA AbortIsTyped ==
  ASSUME Types, Abort, UNCHANGED text
  PROVE  Types'
<1>1. ix \in Nat /\ ix <= Len(text)
  BY TypesFacts
<1> QED BY <1>1, TypesSameStack DEF Abort

\* A call of parseList or parseQuote.
LEMMA CallIsTyped ==
  ASSUME Types, UNCHANGED text, pc' \in {"parse", "list"},
         ix' \in Nat, ix + 1 <= ix', ix' <= Len(text),
         NEW fn \in {"list", "quote"}, NEW mark, Call(fn, mark),
         mark \in IF fn = "list" THEN Opens ELSE Marks,
         pc' = "list" => fn = "list"
  PROVE  Types'
<1> DEFINE f == [fn |-> fn, mark |-> mark, items |-> <<>>]
<1>1. /\ text \in Seq(Characters) /\ ix \in Nat /\ Len(text) \in Nat
      /\ Len(stack) \in Nat \ {0} /\ Depth \in Nat /\ Depth = ix + 1 - Len(stack)
      /\ StackOK(stack, Depth)
  BY TypesFacts
<1>2. f \in Frame(Depth) /\ FrameOK(Len(stack) + 1, f)
  <2>1. <<>> \in Seq(Data[Depth])
    BY EmptySeq
  <2>2. \A h \in Nat \ {0} : h + 1 # 1
    OBVIOUS
  <2>3. Len(stack) + 1 # 1
    BY <2>2, <1>1
  <2>4. f \in Frame(Depth)
    BY <2>1 DEF Frame
  <2> QED BY <2>3, <2>4 DEF FrameOK
<1>3. stack' = Append(stack, f)
  BY DEF Call
<1>9. f.fn = fn
  OBVIOUS
<1> HIDE DEF f
<1>4. StackOK(stack', Depth) /\ Len(stack') = Len(stack) + 1 /\ frame' = f
  BY <1>1, <1>2, <1>3, Pushed DEF frame
<1>5. Depth' = ix' + 1 - Len(stack')
  BY DEF Depth
<1>6. Depth' \in Nat /\ Depth <= Depth'
  <2>1. \A h, d, i, j \in Nat : /\ d = i + 1 - h /\ i + 1 <= j
                                => j + 1 - (h + 1) \in Nat /\ d <= j + 1 - (h + 1)
    OBVIOUS
  <2> QED BY <2>1, <1>1, <1>4, <1>5
<1>7. StackOK(stack', Depth')
  BY <1>1, <1>4, <1>6, StackGrows
<1>8. text' \in Seq(Characters) /\ ix' \in 0..Len(text')
  BY <1>1
<1> QED BY <1>4, <1>6, <1>7, <1>8, <1>9 DEF Types
\* The return of parseList or parseQuote.
LEMMA ReturnIsTyped ==
  ASSUME Types, UNCHANGED text, frame.fn # "prog", stack' = Front(stack), pc' = "return",
         ix' \in Nat, ix <= ix', ix' <= Len(text), result' \in Data[Depth + 1]
  PROVE  Types'
<1>1. /\ text \in Seq(Characters) /\ ix \in Nat /\ Len(text) \in Nat
      /\ Len(stack) \in Nat \ {0} /\ Depth \in Nat /\ Depth = ix + 1 - Len(stack)
      /\ StackOK(stack, Depth)
  BY TypesFacts
<1>2. StackOK(stack', Depth) /\ Len(stack') = Len(stack) - 1
  BY <1>1, Popped DEF frame
<1>3. Depth' = ix' + 1 - Len(stack')
  BY DEF Depth
<1>4. Depth' \in Nat /\ Depth <= Depth' /\ Depth + 1 \in Nat /\ Depth + 1 <= Depth'
  <2>1. \A h, d, i, j \in Nat :
          /\ d = i + 1 - h /\ i <= j
          => /\ j + 1 - (h - 1) \in Nat /\ d <= j + 1 - (h - 1)
             /\ d + 1 \in Nat /\ d + 1 <= j + 1 - (h - 1)
    OBVIOUS
  <2> QED BY <2>1, <1>1, <1>2, <1>3
<1>5. StackOK(stack', Depth') /\ result' \in Data[Depth']
  BY <1>1, <1>2, <1>4, StackGrows, DataGrows
<1>6. text' \in Seq(Characters) /\ ix' \in 0..Len(text')
  BY <1>1
<1> QED BY <1>4, <1>5, <1>6 DEF Types

\* The return to a loop, which goes on.
LEMMA ExtendedIsTyped ==
  ASSUME Types, UNCHANGED <<text, ix>>, frame.fn # "quote", stack' = Extended,
         result \in Data[Depth], pc' \in {"parse", "list"},
         pc' = "list" => frame.fn = "list"
  PROVE  Types'
<1>1. Depth \in Nat /\ StackOK(stack, Depth)
  BY TypesFacts
<1>2. /\ StackOK(stack', Depth) /\ Len(stack') = Len(stack)
      /\ frame'.fn = frame.fn
  BY <1>1, Extends DEF frame
<1>3. Depth' = Depth
  BY <1>2 DEF Depth
<1> QED BY <1>1, <1>2, <1>3 DEF Types

LEMMA TypesNext == Types /\ [Next]_vars => Types'
<1> SUFFICES ASSUME Types, [Next]_vars PROVE Types'
  OBVIOUS
<1>0. /\ text \in Seq(Characters) /\ ix \in Nat /\ ix <= Len(text) /\ ix \in 0..Len(text)
      /\ Len(text) \in Nat
      /\ skipped \in Nat /\ ix <= skipped /\ skipped <= Len(text)
      /\ ~atEnd => skipped + 1 <= Len(text) /\ next \in Characters \ Blanks
      /\ Len(stack) \in Nat \ {0} /\ Depth \in Nat /\ StackOK(stack, Depth)
      /\ frame \in Frame(Depth) /\ FrameOK(Len(stack), frame)
  BY TypesFacts
<1>1. CASE ParseAssertFails
  BY <1>1, AbortIsTyped DEF ParseAssertFails
<1>2. CASE ParseNothing
  BY <1>0, <1>2, TypesSameStack DEF ParseNothing, Return
<1>3. CASE ParseList
  <2>1. skipped + 1 \in Nat /\ ix + 1 <= skipped + 1 /\ skipped + 1 <= Len(text)
    BY <1>0, <1>3 DEF ParseList, Parsing
  <2> QED BY <2>1, <1>3, CallIsTyped DEF ParseList
<1>4. CASE ParseFixnum
  <2>1. PICK end \in skipped + 1..Len(text) :
          /\ ix' = end
          /\ Return(IF end = Len(text) THEN Unread ELSE Number(Token(end)))
    <3>1. skipped + 1 \in 0..Len(text)
      BY <1>0, <1>4 DEF ParseFixnum, Parsing
    <3>2. ReadWhile(Digits, TRUE, skipped + 1) \in skipped + 1..Len(text)
      BY <1>0, <3>1, ReadWhileStops
    <3> QED BY <3>2, <1>4 DEF ParseFixnum
  <2>2. Token(end) \in Seq(Characters)
    BY <1>0, TokenIsText
  <2>3. result' \in Atoms /\ pc' = "return"
    BY <2>1, <2>2 DEF Return, Number, Atoms
  <2>4. ix' \in Nat /\ ix <= ix' /\ ix' <= Len(text)
    BY <2>1, <1>0
  <2> QED BY <2>3, <2>4, <1>4, TypesSameStack DEF ParseFixnum
<1>5. CASE ParseQuote
  <2>1. CASE next = "," /\ skipped + 1 = Len(text)
    BY <2>1, <1>5, AbortIsTyped DEF ParseQuote
  <2>2. CASE ~(next = "," /\ skipped + 1 = Len(text))
    <3>1. skipped + 1 <= Len(text) /\ next \in Quotes /\ pc = "parse"
      BY <1>0, <1>5 DEF ParseQuote, Parsing
    <3>2. PICK mark \in Marks : /\ Call("quote", mark)
                                /\ ix' \in Nat /\ ix + 1 <= ix' /\ ix' <= Len(text)
      <4>1. CASE next = "," /\ text[skipped + 2] = "@"
        <5>1. skipped + 1 # Len(text)
          BY <4>1, <2>2
        <5>2. skipped + 2 \in Nat /\ ix + 1 <= skipped + 2 /\ skipped + 2 <= Len(text)
          BY <5>1, <3>1, <1>0
        <5> QED BY <4>1, <5>2, <2>2, <1>5 DEF ParseQuote, Marks
      <4>2. CASE ~(next = "," /\ text[skipped + 2] = "@")
        <5>1. skipped + 1 \in Nat /\ ix + 1 <= skipped + 1
          BY <1>0
        <5>2. next \in Marks
          BY <3>1 DEF Marks
        <5> QED BY <4>2, <5>1, <5>2, <3>1, <2>2, <1>5 DEF ParseQuote
      <4> QED BY <4>1, <4>2
    <3>3. pc' = "parse" /\ text' = text
      BY <3>1, <2>2, <1>5 DEF ParseQuote
    <3> QED BY <3>2, <3>3, CallIsTyped
  <2> QED BY <2>1, <2>2
<1>6. CASE ParseAtom
  <2>1. CASE next = "#" /\ (skipped + 1 = Len(text) \/ IsBlank(text[skipped + 2]))
    BY <2>1, <1>6, AbortIsTyped DEF ParseAtom
  <2>2. CASE ~(next = "#" /\ (skipped + 1 = Len(text) \/ IsBlank(text[skipped + 2])))
    <3>1. skipped + 1 <= Len(text)
      BY <1>0, <1>6 DEF ParseAtom, Parsing
    <3>2. CASE next = "#" /\ text[skipped + 2] \in {"t", "f"}
      <4>1. skipped + 1 # Len(text)
        BY <3>2, <2>2
      <4>2. skipped + 2 \in 1..Len(text) /\ ix <= skipped + 2
        BY <3>1, <4>1, <1>0
      <4>3. text[skipped + 2] \in Characters
        BY <4>2, <1>0, ElementOfSeq
      <4>4. ix' = skipped + 2 /\ Return(Truth(text[skipped + 2]))
            /\ UNCHANGED <<text, stack>>
        BY <2>2, <3>2, <1>6 DEF ParseAtom
      <4>5. result' \in Atoms /\ pc' = "return"
        BY <4>3, <4>4 DEF Return, Truth, Atoms
      <4>6. ix' \in Nat /\ ix <= ix' /\ ix' <= Len(text)
        BY <4>2, <4>4, <1>0
      <4> QED BY <4>4, <4>5, <4>6, TypesSameStack
    <3>3. CASE ~(next = "#" /\ text[skipped + 2] \in {"t", "f"})
      <4>1. PICK end \in skipped + 1..Len(text) :
              ix' = end /\ Return(Symbol(Token(end))) /\ UNCHANGED <<text, stack>>
        <5>1. skipped + 1 \in 0..Len(text)
          BY <3>1, <1>0
        <5>2. ReadWhile(Delimiters, FALSE, skipped + 1) \in skipped + 1..Len(text)
          BY <1>0, <5>1, ReadWhileStops
        <5> QED BY <5>2, <2>2, <3>3, <1>6 DEF ParseAtom
      <4>2. Token(end) \in Seq(Characters \cup Marks)
        BY <1>0, TokenIsText
      <4>3. result' \in Atoms /\ pc' = "return"
        BY <4>1, <4>2 DEF Return, Symbol, Atoms
      <4>4. ix' \in Nat /\ ix <= ix' /\ ix' <= Len(text)
        BY <4>1, <1>0
      <4> QED BY <4>1, <4>3, <4>4, TypesSameStack
    <3> QED BY <3>2, <3>3
  <2> QED BY <2>1, <2>2
<1>7. CASE ListAssertFails
  BY <1>7, AbortIsTyped DEF ListAssertFails
<1>8. CASE ListCloses
  <2>1. ~atEnd
    BY <1>8 DEF ListCloses, next, Closing
  <2>2. frame.fn # "prog"
    BY <1>8 DEF ListCloses, Types
  <2>3. skipped + 1 \in Nat /\ ix <= skipped + 1 /\ skipped + 1 <= Len(text)
    BY <1>0, <2>1
  <2>4. frame.items \in Seq(Data[Depth])
    BY <1>0 DEF Frame
  <2>5. List(frame.items) \in Data[Depth + 1]
    BY <2>4, <1>0, ListIsDatum
  <2> QED BY <2>2, <2>3, <2>5, <1>8, ReturnIsTyped DEF ListCloses, Return
<1>9. CASE ListItem
  <2>1. ix' \in Nat /\ ix <= ix' /\ ix' <= Len(text)
    BY <1>0, <1>9 DEF ListItem, HasNext
  <2> QED BY <2>1, <1>9, TypesSameStack DEF ListItem
<1>10. CASE ReturnToProg
  <2>1. frame.fn = "prog" /\ pc = "return" /\ UNCHANGED <<text, ix>>
    BY <1>10 DEF ReturnToProg, Returning
  <2>2. CASE result = NoDatum
    <3>1. Len(stack) = 1
      BY <2>1, <1>0 DEF FrameOK
    <3>2. /\ stack' = stack /\ result' = List(frame.items) /\ pc' \in {"rejected", "done"}
      BY <2>2, <1>10 DEF ReturnToProg
    <3>3. frame' = frame /\ Depth' = Depth
      BY <2>1, <3>2 DEF frame, Depth
    <3> QED BY <2>1, <3>1, <3>2, <3>3, <1>0 DEF Types
  <2>3. CASE result # NoDatum
    <3>1. result \in Data[Depth]
      BY <2>1, <2>3 DEF Types
    <3> QED BY <2>1, <2>3, <3>1, <1>10, ExtendedIsTyped DEF ReturnToProg
  <2> QED BY <2>2, <2>3
<1>11. CASE ReturnToList
  <2>1. frame.fn = "list" /\ pc = "return" /\ text' = text
    BY <1>11 DEF ReturnToList, Returning
  <2>2. CASE result = NoDatum
    BY <2>2, <1>11, AbortIsTyped DEF ReturnToList
  <2>3. CASE result # NoDatum
    <3>1. result \in Data[Depth]
      BY <2>1, <2>3 DEF Types
    <3> QED BY <2>1, <2>3, <3>1, <1>11, ExtendedIsTyped DEF ReturnToList
  <2> QED BY <2>2, <2>3
<1>12. CASE ReturnToQuote
  <2>1. frame.fn = "quote" /\ pc = "return" /\ text' = text
    BY <1>12 DEF ReturnToQuote, Returning
  <2>2. CASE result = NoDatum
    BY <2>2, <1>12, AbortIsTyped DEF ReturnToQuote
  <2>3. CASE result # NoDatum
    <3>1. result \in Data[Depth] /\ frame.mark \in Marks
      BY <2>1, <2>3, <1>0 DEF Types, FrameOK
    <3>2. Quoted(frame.mark, result) \in Data[Depth + 1]
      BY <3>1, <1>0, QuotedIsDatum
    <3>3. ix' = ix
      BY <2>3, <1>12 DEF ReturnToQuote
    <3> QED BY <2>1, <2>3, <3>2, <3>3, <1>0, <1>12, ReturnIsTyped DEF ReturnToQuote, Return
  <2> QED BY <2>2, <2>3
<1>13. CASE UNCHANGED vars
  <2>1. frame' = frame /\ Depth' = Depth
    BY <1>13 DEF frame, Depth, vars
  <2> QED BY <2>1, <1>13 DEF Types, vars
<1> QED BY <1>1, <1>2, <1>3, <1>4, <1>5, <1>6, <1>7, <1>8, <1>9, <1>10, <1>11, <1>12, <1>13 DEF Next
LEMMA AlwaysTypes == Spec => []Types
<1>1. Init => Types
  BY TypesInit
<1>2. Types /\ [Next]_vars => Types'
  BY TypesNext
<1> QED BY <1>1, <1>2, PTL DEF Spec

\* For texts of any length: parse and what it calls never read past the end;
\* parseProg is at the bottom of the stack and calls of parseList and parseQuote
\* only are above it; what they have collected, and what parse returns, is
\* nested no deeper than there are characters read besides the one that each of
\* these calls began with; parseProg returns alone, with what it has collected.
THEOREM TypeCorrect == Spec => [](TypeOK /\ Types)
<1>1. Types => TypeOK
  <2> SUFFICES ASSUME Types PROVE TypeOK
    OBVIOUS
  <2>1. stack # <<>> /\ \A i \in DOMAIN stack : FrameOK(i, stack[i])
    BY DEF Types, StackOK
  <2> QED BY <2>1 DEF Types, TypeOK, FrameOK
<1> QED BY <1>1, AlwaysTypes, PTL

-----------------------------------------------------------------------------
(***************************************************************************)
(* What is written out one after the other.                                *)
(***************************************************************************)
FlattenBody(ss, u, i) == IF i = 1 THEN ss[i] ELSE u[i - 1] \o ss[i]

IsFlattenUpTo(ss, m, u) == \A i \in 1..m : u[i] = FlattenBody(ss, u, i)

LEMMA FlattenExistsUpTo ==
  ASSUME NEW ss, Len(ss) \in Nat
  PROVE  \A m \in Nat : \E u : IsFlattenUpTo(ss, m, u)
<1> DEFINE T == {m \in Nat : ~\E u : IsFlattenUpTo(ss, m, u)}
<1> SUFFICES ASSUME T # {} PROVE FALSE
  OBVIOUS
<1>1. PICK m \in T : \A k \in T : m <= k
  <2>1. T \subseteq Nat
    OBVIOUS
  <2> HIDE DEF T
  <2> QED BY <2>1, LeastNatural
<1>2. m \in Nat /\ ~\E u : IsFlattenUpTo(ss, m, u)
  BY <1>1
<1>3. m # 0
  <2>1. \A i \in 1..0 : FALSE
    OBVIOUS
  <2>2. IsFlattenUpTo(ss, 0, <<>>)
    BY <2>1 DEF IsFlattenUpTo
  <2> QED BY <2>2, <1>2
<1>4. m - 1 \in Nat /\ m - 1 \notin T
  BY <1>1, <1>2, <1>3
<1>5. PICK u : IsFlattenUpTo(ss, m - 1, u)
  BY <1>4
<1> DEFINE v == [i \in 1..m |-> IF i = m THEN FlattenBody(ss, u, m) ELSE u[i]]
<1>6. v[m] = FlattenBody(ss, u, m) /\ \A i \in 1..m - 1 : v[i] = u[i]
  BY <1>2, <1>3
<1> HIDE DEF v
<1>7. ASSUME NEW i \in 1..m PROVE v[i] = FlattenBody(ss, v, i)
  <2>1. i # 1 => i - 1 \in 1..m - 1
    BY <1>2
  <2>2. FlattenBody(ss, u, i) = FlattenBody(ss, v, i)
    BY <2>1, <1>6 DEF FlattenBody
  <2>3. i = m \/ i \in 1..m - 1
    BY <1>2
  <2> QED BY <2>2, <2>3, <1>5, <1>6 DEF IsFlattenUpTo
<1> QED BY <1>2, <1>7 DEF IsFlattenUpTo

LEMMA FlattenIsUnique ==
  ASSUME NEW ss, NEW tt, NEW m \in Nat, \A i \in 1..m : ss[i] = tt[i],
         NEW u, IsFlattenUpTo(ss, m, u), NEW v, IsFlattenUpTo(tt, m, v)
  PROVE  \A i \in 1..m : u[i] = v[i]
<1> DEFINE T == {i \in 1..m : u[i] # v[i]}
<1> SUFFICES ASSUME T # {} PROVE FALSE
  OBVIOUS
<1>1. PICK i \in T : \A k \in T : i <= k
  <2>1. T \subseteq Nat
    OBVIOUS
  <2> HIDE DEF T
  <2> QED BY <2>1, LeastNatural
<1>2. i \in 1..m /\ u[i] # v[i]
  BY <1>1
<1>3. i # 1 => u[i - 1] = v[i - 1]
  <2>1. i # 1 => i - 1 \in 1..m /\ i - 1 \notin T
    BY <1>1, <1>2
  <2> QED BY <2>1
<1>4. FlattenBody(ss, u, i) = FlattenBody(tt, v, i)
  BY <1>2, <1>3 DEF FlattenBody
<1> QED BY <1>2, <1>4 DEF IsFlattenUpTo

LEMMA FlattenUnfold ==
  ASSUME NEW ss, Len(ss) \in Nat \ {0}
  PROVE  \E u : IsFlattenUpTo(ss, Len(ss), u) /\ FlattenSeq(ss) = u[Len(ss)]
<1>1. PICK w : IsFlattenUpTo(ss, Len(ss), w)
  BY FlattenExistsUpTo
<1> DEFINE v == [i \in 1..Len(ss) |-> w[i]]
<1>2. ASSUME NEW i \in 1..Len(ss) PROVE v[i] = FlattenBody(ss, v, i)
  <2>1. v[i] = FlattenBody(ss, w, i)
    BY <1>1 DEF IsFlattenUpTo
  <2>2. i # 1 => i - 1 \in 1..Len(ss)
    OBVIOUS
  <2>3. i # 1 => v[i - 1] = w[i - 1]
    BY <2>2
  <2> HIDE DEF v
  <2> QED BY <2>1, <2>3 DEF FlattenBody
<1>3. v = [i \in 1..Len(ss) |-> FlattenBody(ss, v, i)]
  <2>1. v = [i \in 1..Len(ss) |-> v[i]]
    OBVIOUS
  <2> HIDE DEF v
  <2> QED BY <2>1, <1>2
<1> HIDE DEF v
<1>4. \E u : u = [i \in 1..Len(ss) |-> IF i = 1 THEN ss[i] ELSE u[i - 1] \o ss[i]]
  BY <1>3 DEF FlattenBody
<1>5. \E u : /\ u = [i \in 1..Len(ss) |-> IF i = 1 THEN ss[i] ELSE u[i - 1] \o ss[i]]
             /\ Len(ss) # 0 => FlattenSeq(ss) = u[Len(ss)]
  BY <1>4, Zenon DEF FlattenSeq
<1>6. PICK u : /\ u = [i \in 1..Len(ss) |-> FlattenBody(ss, u, i)]
               /\ Len(ss) # 0 => FlattenSeq(ss) = u[Len(ss)]
  BY <1>5 DEF FlattenBody
<1>7. IsFlattenUpTo(ss, Len(ss), u)
  BY <1>6 DEF IsFlattenUpTo
<1> QED BY <1>6, <1>7

LEMMA FlattenNothing == FlattenSeq(<<>>) = <<>>
  BY Len(<<>>) = 0 DEF FlattenSeq

LEMMA FlattenAppend ==
  ASSUME NEW S, NEW ss \in Seq(Seq(S)), NEW s \in Seq(S)
  PROVE  FlattenSeq(Append(ss, s)) = FlattenSeq(ss) \o s
<1> DEFINE tt == Append(ss, s)
<1>1. PICK n \in Nat : n = Len(ss)
  BY LenProperties
<1>2. /\ Len(tt) = n + 1 /\ tt[n + 1] = s
      /\ \A i \in 1..n : tt[i] = ss[i]
  BY <1>1, AppendProperties
<1> HIDE DEF tt
<1>3. PICK u : IsFlattenUpTo(tt, n + 1, u) /\ FlattenSeq(tt) = u[n + 1]
  BY <1>2, FlattenUnfold
<1>4. u[n + 1] = FlattenBody(tt, u, n + 1) /\ IsFlattenUpTo(tt, n, u)
  BY <1>3 DEF IsFlattenUpTo
<1>5. CASE n = 0
  <2>1. ss = <<>>
    BY <1>1, <1>5, EmptySeq
  <2>2. FlattenSeq(tt) = s
    BY <1>2, <1>3, <1>4, <1>5 DEF FlattenBody
  <2>3. <<>> \o s = s
    BY ConcatEmptySeq
  <2> QED BY <2>1, <2>2, <2>3, FlattenNothing DEF tt
<1>6. CASE n # 0
  <2>1. PICK v : IsFlattenUpTo(ss, n, v) /\ FlattenSeq(ss) = v[n]
    BY <1>1, <1>6, FlattenUnfold
  <2>2. n \in 1..n /\ n + 1 # 1 /\ (n + 1) - 1 = n
    BY <1>6
  <2>3. u[n] = v[n]
    BY <1>2, <1>4, <2>1, <2>2, FlattenIsUnique, SMTT(30)
  <2>4. FlattenSeq(tt) = u[n] \o s
    BY <1>2, <1>3, <1>4, <2>2 DEF FlattenBody
  <2> QED BY <2>1, <2>3, <2>4 DEF tt
<1> QED BY <1>5, <1>6

LEMMA FlattenType ==
  ASSUME NEW S, NEW ss \in Seq(Seq(S))
  PROVE  FlattenSeq(ss) \in Seq(S)
<1>1. PICK n \in Nat : n = Len(ss)
  BY LenProperties
<1>2. CASE n = 0
  <2>1. ss = <<>> /\ <<>> \in Seq(S)
    BY <1>1, <1>2, EmptySeq
  <2> QED BY <2>1, FlattenNothing
<1>3. CASE n # 0
  <2>1. PICK u : IsFlattenUpTo(ss, n, u) /\ FlattenSeq(ss) = u[n]
    BY <1>1, <1>3, FlattenUnfold
  <2> DEFINE T == {i \in 1..n : u[i] \notin Seq(S)}
  <2>2. T = {}
    <3> SUFFICES ASSUME T # {} PROVE FALSE
      OBVIOUS
    <3>1. PICK i \in T : \A k \in T : i <= k
      <4>1. T \subseteq Nat
        OBVIOUS
      <4> HIDE DEF T
      <4> QED BY <4>1, LeastNatural
    <3>2. i \in 1..n /\ u[i] \notin Seq(S)
      BY <3>1
    <3>3. ss[i] \in Seq(S)
      BY <3>2, <1>1, ElementOfSeq
    <3>4. i # 1 => u[i - 1] \in Seq(S)
      <4>1. i # 1 => i - 1 \in 1..n /\ i - 1 \notin T
        BY <3>1, <3>2
      <4> QED BY <4>1
    <3>5. u[i] = FlattenBody(ss, u, i)
      BY <3>2, <2>1 DEF IsFlattenUpTo
    <3> QED BY <3>2, <3>3, <3>4, <3>5, ConcatProperties DEF FlattenBody
  <2>3. n \in 1..n
    BY <1>3
  <2> QED BY <2>1, <2>2, <2>3
<1> QED BY <1>2, <1>3

LEMMA FlattenOne ==
  ASSUME NEW S, NEW s \in Seq(S), NEW t \in Seq(S)
  PROVE  FlattenSeq(<<s>>) = s /\ FlattenSeq(<<s, t>>) = s \o t
<1>1. <<>> \in Seq(Seq(S)) /\ <<s>> \in Seq(Seq(S))
  BY EmptySeq, ShortSeqs
<1>2. <<s>> = Append(<<>>, s) /\ <<s, t>> = Append(<<s>>, t)
  OBVIOUS
<1>3. FlattenSeq(<<s>>) = <<>> \o s
  BY <1>1, <1>2, FlattenAppend, FlattenNothing
<1>4. FlattenSeq(<<s>>) = s
  BY <1>3, ConcatEmptySeq
<1>5. FlattenSeq(<<s, t>>) = FlattenSeq(<<s>>) \o t
  BY <1>1, <1>2, FlattenAppend
<1> QED BY <1>4, <1>5

-----------------------------------------------------------------------------
(***************************************************************************)
(* What a datum is written with.                                           *)
(***************************************************************************)
Signs == Characters \cup Marks \cup {"(", ")", "#", "?", "@"}

ShowBody(u, n, y) ==
  CASE y = Unread            -> <<"?">>
    [] "symbol" \in DOMAIN y -> y.symbol
    [] "number" \in DOMAIN y -> y.number
    [] "truth" \in DOMAIN y  -> <<"#", y.truth>>
    [] OTHER -> ShowList(y.list, [i \in DOMAIN y.list |-> u[n - 1][y.list[i]]])

IsShowUpTo(m, u) == \A n \in 0..m : u[n] = [y \in Data[n] |-> ShowBody(u, n, y)]

\* A datum is an atom or a list.
LEMMA DatumKinds ==
  ASSUME NEW n \in Nat, NEW y \in Data[n]
  PROVE  \/ y = Unread
         \/ \E cs \in Seq(Characters \cup Marks) : y = Symbol(cs)
         \/ \E cs \in Seq(Characters) : y = Number(cs)
         \/ \E c \in Characters : y = Truth(c)
         \/ n # 0 /\ \E xs \in Seq(Data[n - 1]) : y = List(xs)
<1>1. y \in Atoms \/ (n # 0 /\ y \in [list : Seq(Data[n - 1])])
  BY DataUnfold
<1>2. CASE y \in Atoms
  BY <1>2 DEF Atoms, Symbol, Number, Truth
<1>3. CASE n # 0 /\ y \in [list : Seq(Data[n - 1])]
  BY <1>3 DEF List
<1> QED BY <1>1, <1>2, <1>3

\* The body, case by case.
LEMMA ShowUnread == ASSUME NEW u, NEW n PROVE ShowBody(u, n, Unread) = <<"?">>
<1>1. /\ "symbol" \notin DOMAIN Unread /\ "number" \notin DOMAIN Unread
      /\ "truth" \notin DOMAIN Unread
  BY DEF Unread
<1> QED BY <1>1 DEF ShowBody

LEMMA ShowSymbol == ASSUME NEW u, NEW n, NEW cs PROVE ShowBody(u, n, Symbol(cs)) = cs
  BY DEF ShowBody, Symbol, Unread

LEMMA ShowNumber == ASSUME NEW u, NEW n, NEW cs PROVE ShowBody(u, n, Number(cs)) = cs
  BY DEF ShowBody, Number, Unread

LEMMA ShowTruth == ASSUME NEW u, NEW n, NEW c PROVE ShowBody(u, n, Truth(c)) = <<"#", c>>
  BY DEF ShowBody, Truth, Unread

LEMMA ShowOfList ==
  ASSUME NEW u, NEW n, NEW xs
  PROVE  ShowBody(u, n, List(xs)) = ShowList(xs, [i \in DOMAIN xs |-> u[n - 1][xs[i]]])
<1>1. /\ List(xs) # Unread /\ "symbol" \notin DOMAIN List(xs)
      /\ "number" \notin DOMAIN List(xs) /\ "truth" \notin DOMAIN List(xs)
      /\ List(xs).list = xs
  BY DEF List, Unread
<1> QED BY <1>1 DEF ShowBody

AgreeBelow(n, u, v, m) == n # 0 => \A x \in Data[n - 1] : u[n - 1][x] = v[m - 1][x]

LEMMA ShowBodyBelow ==
  ASSUME NEW n \in Nat, NEW y \in Data[n], NEW m \in Nat, NEW u, NEW v,
         AgreeBelow(n, u, v, m)
  PROVE  ShowBody(u, n, y) = ShowBody(v, m, y)
<1>1. CASE y = Unread
  BY <1>1, ShowUnread
<1>2. ASSUME NEW cs, y = Symbol(cs) PROVE ShowBody(u, n, y) = ShowBody(v, m, y)
  BY <1>2, ShowSymbol
<1>3. ASSUME NEW cs, y = Number(cs) PROVE ShowBody(u, n, y) = ShowBody(v, m, y)
  BY <1>3, ShowNumber
<1>4. ASSUME NEW c, y = Truth(c) PROVE ShowBody(u, n, y) = ShowBody(v, m, y)
  BY <1>4, ShowTruth
<1>5. ASSUME n # 0, NEW xs \in Seq(Data[n - 1]), y = List(xs)
      PROVE  ShowBody(u, n, y) = ShowBody(v, m, y)
  <2>1. DOMAIN xs = 1..Len(xs)
    BY LenProperties
  <2>2. \A i \in DOMAIN xs : u[n - 1][xs[i]] = v[m - 1][xs[i]]
    BY <1>5, <2>1, ElementOfSeq DEF AgreeBelow
  <2>3. [i \in DOMAIN xs |-> u[n - 1][xs[i]]] = [i \in DOMAIN xs |-> v[m - 1][xs[i]]]
    BY <2>2
  <2>4. ShowBody(u, n, List(xs)) = ShowList(xs, [i \in DOMAIN xs |-> u[n - 1][xs[i]]])
    BY ShowOfList
  <2>5. ShowBody(v, m, List(xs)) = ShowList(xs, [i \in DOMAIN xs |-> v[m - 1][xs[i]]])
    BY ShowOfList
  <2> QED BY <1>5, <2>3, <2>4, <2>5
<1> QED BY <1>1, <1>2, <1>3, <1>4, <1>5, DatumKinds

LEMMA ShowExistsUpTo == \A m \in Nat : \E u : IsShowUpTo(m, u)
<1> DEFINE T == {m \in Nat : ~\E u : IsShowUpTo(m, u)}
<1> SUFFICES ASSUME T # {} PROVE FALSE
  OBVIOUS
<1>1. PICK m \in T : \A k \in T : m <= k
  <2>1. T \subseteq Nat
    OBVIOUS
  <2> HIDE DEF T
  <2> QED BY <2>1, LeastNatural
<1>2. m \in Nat /\ ~\E u : IsShowUpTo(m, u)
  BY <1>1
<1>3. CASE m = 0
  <2> DEFINE u == [n \in {0} |-> [y \in Data[0] |-> ShowBody(<<>>, 0, y)]]
  <2>1. u[0] = [y \in Data[0] |-> ShowBody(<<>>, 0, y)] /\ 0..0 = {0}
    OBVIOUS
  <2> HIDE DEF u
  <2>2. ASSUME NEW y \in Data[0] PROVE ShowBody(<<>>, 0, y) = ShowBody(u, 0, y)
    <3>1. AgreeBelow(0, <<>>, u, 0)
      BY DEF AgreeBelow
    <3>2. 0 \in Nat
      OBVIOUS
    <3> QED BY <3>1, <3>2, ShowBodyBelow
  <2>3. u[0] = [y \in Data[0] |-> ShowBody(u, 0, y)]
    BY <2>1, <2>2
  <2>4. IsShowUpTo(0, u)
    BY <2>1, <2>3 DEF IsShowUpTo
  <2> QED BY <2>4, <1>2, <1>3
<1>4. CASE m # 0
  <2>1. m - 1 \in Nat /\ m - 1 \notin T
    BY <1>1, <1>2, <1>4
  <2>2. PICK u : IsShowUpTo(m - 1, u)
    BY <2>1
  <2> DEFINE g(n) == [y \in Data[n] |-> ShowBody(u, n, y)]
             v == [n \in 0..m |-> IF n = m THEN g(m) ELSE u[n]]
  <2>3. v[m] = g(m) /\ \A n \in 0..(m - 1) : v[n] = u[n]
    BY <1>2
  <2> HIDE DEF v
  <2>4. ASSUME NEW n \in 0..m PROVE v[n] = [y \in Data[n] |-> ShowBody(v, n, y)]
    <3>1. n # 0 => u[n - 1] = v[n - 1]
      BY <2>3, <1>2
    <3>2. ASSUME NEW y \in Data[n] PROVE ShowBody(u, n, y) = ShowBody(v, n, y)
      <4>1. AgreeBelow(n, u, v, n)
        BY <3>1 DEF AgreeBelow
      <4>2. n \in Nat
        BY <1>2
      <4> QED BY <4>1, <4>2, ShowBodyBelow
    <3>3. v[n] = g(n)
      <4>1. n = m \/ n \in 0..(m - 1)
        BY <1>2
      <4> QED BY <4>1, <2>2, <2>3 DEF IsShowUpTo
    <3> QED BY <3>2, <3>3
  <2> QED BY <2>4, <1>2 DEF IsShowUpTo
<1> QED BY <1>3, <1>4

\* What Show computes.
LEMMA ShowUnfold ==
  ASSUME NEW m \in Nat
  PROVE  \E u : IsShowUpTo(m, u) /\ \A x : Show(m, x) = u[m][x]
<1>1. PICK w : IsShowUpTo(m, w)
  BY ShowExistsUpTo
<1> DEFINE v == [n \in 0..m |-> w[n]]
<1>2. ASSUME NEW n \in 0..m PROVE v[n] = [y \in Data[n] |-> ShowBody(v, n, y)]
  <2>1. n # 0 => n - 1 \in 0..m
    OBVIOUS
  <2>2. n # 0 => v[n - 1] = w[n - 1]
    BY <2>1
  <2>3. v[n] = w[n]
    OBVIOUS
  <2> HIDE DEF v
  <2>4. ASSUME NEW y \in Data[n] PROVE ShowBody(w, n, y) = ShowBody(v, n, y)
    <3>1. AgreeBelow(n, w, v, n)
      BY <2>2 DEF AgreeBelow
    <3>2. n \in Nat
      OBVIOUS
    <3> QED BY <3>1, <3>2, ShowBodyBelow
  <2> QED BY <2>3, <2>4, <1>1 DEF IsShowUpTo
<1>3. v = [n \in 0..m |-> [y \in Data[n] |-> ShowBody(v, n, y)]]
  <2>1. v = [n \in 0..m |-> v[n]]
    OBVIOUS
  <2> HIDE DEF v
  <2> QED BY <2>1, <1>2
<1> HIDE DEF v
<1>4. \E u : u = [n \in 0..m |-> [y \in Data[n] |-> ShowBody(u, n, y)]]
  BY <1>3
<1>5. \E u : /\ u = [n \in 0..m |-> [y \in Data[n] |-> ShowBody(u, n, y)]]
             /\ \A x : Show(m, x) = u[m][x]
  BY <1>4, ZenonT(60) DEF Show, ShowBody
<1>6. PICK u : /\ u = [n \in 0..m |-> [y \in Data[n] |-> ShowBody(u, n, y)]]
               /\ \A x : Show(m, x) = u[m][x]
  BY <1>5
<1>7. IsShowUpTo(m, u)
  BY <1>6 DEF IsShowUpTo
<1> QED BY <1>6, <1>7

-----------------------------------------------------------------------------
\* A datum is written the same way at every level that it is on.
LEMMA ShowNextLevel ==
  ASSUME NEW m \in Nat, NEW u, IsShowUpTo(m, u), NEW n \in Nat, n + 1 <= m, NEW y \in Data[n]
  PROVE  u[n][y] = u[n + 1][y]
<1> DEFINE T == {k \in Nat : k + 1 <= m /\ \E x \in Data[k] : u[k][x] # u[k + 1][x]}
<1>1. T = {}
  <2> SUFFICES ASSUME T # {} PROVE FALSE
    OBVIOUS
  <2>1. PICK k \in T : \A j \in T : k <= j
    <3>1. T \subseteq Nat
      OBVIOUS
    <3> HIDE DEF T
    <3> QED BY <3>1, LeastNatural
  <2>2. PICK x \in Data[k] : k \in Nat /\ k + 1 <= m /\ u[k][x] # u[k + 1][x]
    BY <2>1
  <2>3. x \in Data[k + 1]
    BY <2>2, DataGrows
  <2>4. u[k][x] = ShowBody(u, k, x) /\ u[k + 1][x] = ShowBody(u, k + 1, x)
    <3>1. k \in 0..m /\ k + 1 \in 0..m
      BY <2>2
    <3>2. u[k] = [z \in Data[k] |-> ShowBody(u, k, z)]
      BY <3>1 DEF IsShowUpTo
    <3>3. u[k + 1] = [z \in Data[k + 1] |-> ShowBody(u, k + 1, z)]
      BY <3>1 DEF IsShowUpTo
    <3> QED BY <3>2, <3>3, <2>3
  <2>5. AgreeBelow(k, u, u, k + 1)
    <3> SUFFICES ASSUME k # 0, NEW z \in Data[k - 1] PROVE u[k - 1][z] = u[(k + 1) - 1][z]
      BY DEF AgreeBelow
    <3>1. k - 1 \in Nat /\ (k - 1) + 1 = k /\ (k + 1) - 1 = k /\ k <= m
      BY <2>2
    <3>2. k - 1 \notin T
      BY <2>1, <3>1
    <3> QED BY <3>1, <3>2
  <2>6. PICK l \in Nat : l = k + 1 /\ k \in Nat
    BY <2>2
  <2>7. ShowBody(u, k, x) = ShowBody(u, l, x)
    <3>1. AgreeBelow(k, u, u, l) /\ x \in Data[k]
      BY <2>2, <2>5, <2>6
    <3> HIDE DEF T
    <3> QED BY <3>1, <2>6, ShowBodyBelow
  <2> QED BY <2>2, <2>4, <2>6, <2>7
<1>2. n \notin T
  BY <1>1
<1> QED BY <1>2

LEMMA ShowAnyLevel ==
  ASSUME NEW m \in Nat, NEW u, IsShowUpTo(m, u), NEW n \in Nat, n <= m, NEW y \in Data[n]
  PROVE  u[n][y] = u[m][y]
<1> DEFINE T == {k \in Nat : n <= k /\ k <= m /\ u[n][y] # u[k][y]}
<1>1. T = {}
  <2> SUFFICES ASSUME T # {} PROVE FALSE
    OBVIOUS
  <2>1. PICK k \in T : \A j \in T : k <= j
    <3>1. T \subseteq Nat
      OBVIOUS
    <3> HIDE DEF T
    <3> QED BY <3>1, LeastNatural
  <2>2. k \in Nat /\ n <= k /\ k <= m /\ u[n][y] # u[k][y] /\ k # n
    BY <2>1
  <2>3. k - 1 \in Nat /\ n <= k - 1 /\ k - 1 <= m /\ k - 1 \notin T /\ (k - 1) + 1 = k
    BY <2>1, <2>2
  <2>4. y \in Data[k - 1]
    BY <2>3, DataGrows
  <2>5. u[k - 1][y] = u[k][y]
    BY <2>2, <2>3, <2>4, ShowNextLevel
  <2> QED BY <2>2, <2>3, <2>5
<1>2. m \notin T
  BY <1>1
<1> QED BY <1>2

LEMMA ShowAt ==
  ASSUME NEW m \in Nat
  PROVE  \E u : /\ IsShowUpTo(m, u)
                /\ \A n \in 0..m : \A y \in Data[n] :
                     Show(m, y) = u[n][y] /\ Show(m, y) = ShowBody(u, n, y)
<1>1. PICK u : IsShowUpTo(m, u) /\ \A x : Show(m, x) = u[m][x]
  BY ShowUnfold
<1>2. ASSUME NEW n \in 0..m, NEW y \in Data[n]
      PROVE  Show(m, y) = u[n][y] /\ Show(m, y) = ShowBody(u, n, y)
  <2>1. u[n][y] = u[m][y]
    <3>1. n \in Nat /\ n <= m
      OBVIOUS
    <3> QED BY <3>1, <1>1, ShowAnyLevel
  <2>2. u[n] = [z \in Data[n] |-> ShowBody(u, n, z)]
    BY <1>1 DEF IsShowUpTo
  <2> QED BY <1>1, <2>1, <2>2
<1> QED BY <1>1, <1>2

\* What tokens are written with.
LEMMA ShowsToken ==
  ASSUME NEW m \in Nat
  PROVE  /\ Show(m, Unread) = <<"?">>
         /\ \A cs \in Seq(Characters \cup Marks) : Show(m, Symbol(cs)) = cs
         /\ \A cs \in Seq(Characters) : Show(m, Number(cs)) = cs
         /\ \A c \in Characters : Show(m, Truth(c)) = <<"#", c>>
<1>1. PICK u : \A n \in 0..m : \A y \in Data[n] : Show(m, y) = ShowBody(u, n, y)
  BY ShowAt
<1>2. 0 \in 0..m /\ \A y \in Atoms : y \in Data[0]
  BY AtomIsDatum
<1>3. \A y \in Atoms : Show(m, y) = ShowBody(u, 0, y)
  BY <1>1, <1>2
<1>4. Show(m, Unread) = <<"?">>
  BY <1>3, ShowUnread DEF Atoms
<1>5. ASSUME NEW cs \in Seq(Characters \cup Marks) PROVE Show(m, Symbol(cs)) = cs
  <2>1. Symbol(cs) \in Atoms
    BY DEF Atoms, Symbol
  <2> QED BY <2>1, <1>3, ShowSymbol
<1>6. ASSUME NEW cs \in Seq(Characters) PROVE Show(m, Number(cs)) = cs
  <2>1. Number(cs) \in Atoms
    BY DEF Atoms, Number
  <2> QED BY <2>1, <1>3, ShowNumber
<1>7. ASSUME NEW c \in Characters PROVE Show(m, Truth(c)) = <<"#", c>>
  <2>1. Truth(c) \in Atoms
    BY DEF Atoms, Truth
  <2> QED BY <2>1, <1>3, ShowTruth
<1> QED BY <1>4, <1>5, <1>6, <1>7

\* What lists are written with.
LEMMA ShowsList ==
  ASSUME NEW m \in Nat, NEW n \in Nat, n + 1 <= m, NEW xs \in Seq(Data[n])
  PROVE  Show(m, List(xs)) = ShowList(xs, [i \in DOMAIN xs |-> Show(m, xs[i])])
<1>1. PICK u : \A k \in 0..m : \A y \in Data[k] :
                 Show(m, y) = u[k][y] /\ Show(m, y) = ShowBody(u, k, y)
  BY ShowAt
<1>2. n \in 0..m /\ n + 1 \in 0..m /\ (n + 1) - 1 = n
  OBVIOUS
<1>3. Show(m, List(xs)) = ShowBody(u, n + 1, List(xs))
  BY <1>1, <1>2, ListIsDatum
<1>4. ShowBody(u, n + 1, List(xs)) = ShowList(xs, [i \in DOMAIN xs |-> u[(n + 1) - 1][xs[i]]])
  BY ShowOfList
<1>5. DOMAIN xs = 1..Len(xs)
  BY LenProperties
<1>6. ASSUME NEW i \in DOMAIN xs PROVE u[(n + 1) - 1][xs[i]] = Show(m, xs[i])
  <2>1. xs[i] \in Data[n]
    BY <1>5, ElementOfSeq
  <2> QED BY <2>1, <1>1, <1>2
<1>7. [i \in DOMAIN xs |-> u[(n + 1) - 1][xs[i]]] = [i \in DOMAIN xs |-> Show(m, xs[i])]
  BY <1>6
<1> QED BY <1>3, <1>4, <1>7

LEMMA ShowsQuoted ==
  ASSUME NEW m \in Nat, NEW n \in Nat, n + 1 <= m, NEW x \in Data[n],
         Show(m, x) \in Seq(Signs), NEW mark \in Marks
  PROVE  Show(m, Quoted(mark, x)) =
           (IF mark = ",@" THEN <<",", "@">> ELSE <<mark>>) \o Show(m, x)
<1> DEFINE xs == <<Symbol(<<mark>>), x>>
<1>1. <<mark>> \in Seq(Characters \cup Marks)
  BY ShortSeqs
<1>2. Symbol(<<mark>>) \in Data[n] /\ Show(m, Symbol(<<mark>>)) = <<mark>>
  BY <1>1, AtomIsDatum, ShowsToken DEF Symbol, Atoms
<1>3. xs \in Seq(Data[n])
  BY <1>2, ShortSeqs
<1>4. Show(m, Quoted(mark, x)) = ShowList(xs, [i \in DOMAIN xs |-> Show(m, xs[i])])
  BY <1>3, ShowsList DEF Quoted
<1>5. [i \in DOMAIN xs |-> Show(m, xs[i])] = <<<<mark>>, Show(m, x)>>
  BY <1>2
<1>6. MarksOf(xs) = {mark}
  <2>1. Len(xs) = 2 /\ xs[1] = Symbol(<<mark>>)
    OBVIOUS
  <2>2. \A q : Symbol(<<mark>>) = Symbol(<<q>>) => q = mark
    <3> SUFFICES ASSUME NEW q, Symbol(<<mark>>) = Symbol(<<q>>) PROVE q = mark
      OBVIOUS
    <3>1. Symbol(<<mark>>).symbol = <<mark>> /\ Symbol(<<q>>).symbol = <<q>>
      BY DEF Symbol
    <3>2. <<mark>>[1] = <<q>>[1]
      BY <3>1
    <3> QED BY <3>2
  <2> QED BY <2>1, <2>2 DEF MarksOf
<1>7. CASE mark = ",@"
  BY <1>4, <1>5, <1>6, <1>7 DEF ShowList
<1>8. CASE mark # ",@"
  <2>1. <<mark>> \in Seq(Signs)
    BY ShortSeqs DEF Signs
  <2>2. FlattenSeq(<<<<mark>>, Show(m, x)>>) = <<mark>> \o Show(m, x)
    BY <2>1, FlattenOne
  <2> QED BY <2>2, <1>4, <1>5, <1>6, <1>8 DEF ShowList
<1> QED BY <1>7, <1>8

-----------------------------------------------------------------------------
LEMMA MappedSeq ==
  ASSUME NEW S, NEW xs \in Seq(S), NEW f, DOMAIN f = DOMAIN xs,
         NEW R, \A i \in DOMAIN xs : f[i] \in R, f = [i \in DOMAIN xs |-> f[i]]
  PROVE  f \in Seq(R) /\ Len(f) = Len(xs)
<1>1. PICK n \in Nat : n = Len(xs) /\ DOMAIN xs = 1..n
  BY LenProperties
<1>2. f \in [1..n -> R]
  BY <1>1
<1> QED BY <1>1, <1>2

LEMMA ShowListType ==
  ASSUME NEW S, NEW xs \in Seq(S), NEW parts \in Seq(Seq(Signs)), Len(parts) = Len(xs)
  PROVE  ShowList(xs, parts) \in Seq(Signs)
<1>1. FlattenSeq(parts) \in Seq(Signs)
  BY FlattenType
<1>2. <<"(">> \in Seq(Signs) /\ <<")">> \in Seq(Signs) /\ <<",", "@">> \in Seq(Signs)
  <2>1. "(" \in Signs /\ ")" \in Signs /\ "," \in Signs /\ "@" \in Signs
    BY DEF Signs, Marks, Quotes
  <2> QED BY <2>1, ShortSeqs
<1>3. CASE MarksOf(xs) = {}
  <2>1. <<"(">> \o FlattenSeq(parts) \in Seq(Signs)
    BY <1>1, <1>2, ConcatProperties
  <2>2. <<"(">> \o FlattenSeq(parts) \o <<")">> \in Seq(Signs)
    BY <2>1, <1>2, ConcatProperties
  <2> QED BY <2>2, <1>3 DEF ShowList
<1>4. CASE MarksOf(xs) = {",@"}
  <2>1. Len(xs) = 2
    BY <1>4 DEF MarksOf
  <2>2. 2 \in 1..Len(parts)
    BY <2>1
  <2>3. parts[2] \in Seq(Signs)
    BY <2>2, ElementOfSeq
  <2>4. <<",", "@">> \o parts[2] \in Seq(Signs)
    BY <2>3, <1>2, ConcatProperties
  <2> QED BY <2>4, <1>4 DEF ShowList
<1>5. CASE MarksOf(xs) # {} /\ MarksOf(xs) # {",@"}
  BY <1>1, <1>5 DEF ShowList
<1> QED BY <1>3, <1>4, <1>5

LEMMA ShowType ==
  ASSUME NEW m \in Nat, NEW n \in Nat, n <= m, NEW y \in Data[n]
  PROVE  Show(m, y) \in Seq(Signs)
<1> DEFINE T == {k \in Nat : k <= m /\ \E x \in Data[k] : Show(m, x) \notin Seq(Signs)}
<1>1. T = {}
  <2> SUFFICES ASSUME T # {} PROVE FALSE
    OBVIOUS
  <2>1. PICK k \in T : \A j \in T : k <= j
    <3>1. T \subseteq Nat
      OBVIOUS
    <3> HIDE DEF T
    <3> QED BY <3>1, LeastNatural
  <2>2. PICK x \in Data[k] : k \in Nat /\ k <= m /\ Show(m, x) \notin Seq(Signs)
    BY <2>1
  <2>3. k # 0 => \A z \in Data[k - 1] : Show(m, z) \in Seq(Signs)
    <3>1. k # 0 => k - 1 \in Nat /\ k - 1 <= m /\ k - 1 \notin T
      BY <2>1, <2>2
    <3> QED BY <3>1
  <2> HIDE DEF T
  <2>4. k \in Nat /\ x \in Data[k]
    BY <2>2
  <2>5. CASE x = Unread
    <3>1. <<"?">> \in Seq(Signs)
      BY ShortSeqs DEF Signs
    <3> QED BY <3>1, <2>2, <2>5, ShowsToken
  <2>6. ASSUME NEW cs \in Seq(Characters \cup Marks), x = Symbol(cs) PROVE FALSE
    <3>1. cs \in Seq(Signs)
      BY SeqMonotonic DEF Signs
    <3> QED BY <3>1, <2>2, <2>6, ShowsToken
  <2>7. ASSUME NEW cs \in Seq(Characters), x = Number(cs) PROVE FALSE
    <3>1. cs \in Seq(Signs)
      BY SeqMonotonic DEF Signs
    <3> QED BY <3>1, <2>2, <2>7, ShowsToken
  <2>8. ASSUME NEW c \in Characters, x = Truth(c) PROVE FALSE
    <3>1. "#" \in Signs /\ c \in Signs
      BY DEF Signs
    <3>2. <<"#", c>> \in Seq(Signs)
      BY <3>1, ShortSeqs
    <3> QED BY <3>2, <2>2, <2>8, ShowsToken
  <2>9. ASSUME k # 0, NEW xs \in Seq(Data[k - 1]), x = List(xs) PROVE FALSE
    <3> DEFINE parts == [i \in DOMAIN xs |-> Show(m, xs[i])]
    <3>1. k - 1 \in Nat /\ (k - 1) + 1 <= m
      BY <2>2, <2>9
    <3>2. Show(m, x) = ShowList(xs, parts)
      BY <3>1, <2>9, ShowsList
    <3>3. \A i \in DOMAIN xs : parts[i] \in Seq(Signs)
      <4>1. DOMAIN xs = 1..Len(xs)
        BY LenProperties
      <4> QED BY <4>1, <2>3, <2>9, ElementOfSeq
    <3>4. DOMAIN parts = DOMAIN xs /\ parts = [i \in DOMAIN xs |-> parts[i]]
      OBVIOUS
    <3> HIDE DEF parts
    <3>5. parts \in Seq(Seq(Signs)) /\ Len(parts) = Len(xs)
      BY <3>3, <3>4, MappedSeq
    <3> QED BY <3>2, <3>5, <2>2, ShowListType
  <2> QED BY <2>4, <2>5, <2>6, <2>7, <2>8, <2>9, DatumKinds
<1>2. n \notin T
  BY <1>1
<1> QED BY <1>2

\* A function of the elements of a sequence, when one is added.
LEMMA MappedAppend ==
  ASSUME NEW R, NEW m \in Nat, NEW f \in [1..m -> R],
         NEW g \in [1..m + 1 -> R], \A i \in 1..m : g[i] = f[i]
  PROVE  f \in Seq(R) /\ g = Append(f, g[m + 1])
<1>1. f \in Seq(R) /\ Len(f) = m
  OBVIOUS
<1>2. g \in Seq(R) /\ Len(g) = m + 1
  OBVIOUS
<1>3. m + 1 \in 1..m + 1
  OBVIOUS
<1>4. g[m + 1] \in R
  BY <1>3
<1>5. PICK h : h = Append(f, g[m + 1])
  OBVIOUS
<1>6. /\ h \in Seq(R) /\ Len(h) = m + 1 /\ h[m + 1] = g[m + 1]
      /\ \A i \in 1..m : h[i] = f[i]
  BY <1>1, <1>4, <1>5, AppendProperties
<1>7. \A i \in 1..m + 1 : i = m + 1 \/ i \in 1..m
  OBVIOUS
<1>8. \A i \in 1..m + 1 : g[i] = h[i]
  BY <1>6, <1>7
<1>9. g = h
  BY <1>2, <1>6, <1>8, SeqEqual
<1> QED BY <1>1, <1>5, <1>9

\* A sequence that is written element by element.
LEMMA ShownItemsAppend ==
  ASSUME NEW m \in Nat, NEW n \in Nat, n <= m,
         NEW xs \in Seq(Data[n]), NEW x \in Data[n]
  PROVE  /\ ShownItems(m, xs) \in Seq(Signs)
         /\ ShownItems(m, Append(xs, x)) = ShownItems(m, xs) \o Show(m, x)
<1>1. PICK k \in Nat : k = Len(xs) /\ DOMAIN xs = 1..k
  BY LenProperties
<1>2. PICK ys : ys = Append(xs, x)
  OBVIOUS
<1>3. /\ ys \in Seq(Data[n]) /\ Len(ys) = k + 1
      /\ ys[k + 1] = x /\ \A i \in 1..k : ys[i] = xs[i]
  BY <1>1, <1>2, AppendProperties
<1>4. DOMAIN ys = 1..k + 1
  BY <1>3, LenProperties
<1> DEFINE f == [i \in 1..k |-> Show(m, xs[i])]
           g == [i \in 1..k + 1 |-> Show(m, ys[i])]
<1>5. \A y \in Data[n] : Show(m, y) \in Seq(Signs)
  BY ShowType
<1>6. /\ \A i \in 1..k : Show(m, xs[i]) \in Seq(Signs)
      /\ \A i \in 1..k + 1 : Show(m, ys[i]) \in Seq(Signs)
  <2>1. /\ \A i \in 1..k : xs[i] \in Data[n]
        /\ \A i \in 1..k + 1 : ys[i] \in Data[n]
    BY <1>1, <1>3, ElementOfSeq
  <2> QED BY <2>1, <1>5
<1>7. f \in [1..k -> Seq(Signs)] /\ g \in [1..k + 1 -> Seq(Signs)]
  BY <1>6
<1>8. g[k + 1] = Show(m, x) /\ \A i \in 1..k : g[i] = f[i]
  BY <1>3
<1>9. ShownItems(m, xs) = FlattenSeq(f) /\ ShownItems(m, ys) = FlattenSeq(g)
  BY <1>1, <1>4 DEF ShownItems
<1> HIDE DEF f, g
<1>10. f \in Seq(Seq(Signs)) /\ g = Append(f, Show(m, x))
  BY <1>7, <1>8, MappedAppend
<1> QED BY <1>2, <1>5, <1>9, <1>10, FlattenType, FlattenAppend

LEMMA ShownNothing == ASSUME NEW m PROVE ShownItems(m, <<>>) = <<>>
<1>1. [i \in DOMAIN <<>> |-> Show(m, <<>>[i])] = <<>>
  OBVIOUS
<1> QED BY <1>1, FlattenNothing DEF ShownItems

-----------------------------------------------------------------------------
(***************************************************************************)
(* Nothing is lost.  What the waiting calls have read, outermost first,    *)
(* and the datum that is being returned are written with the characters of *)
(* the text before ix that are no blanks.                                  *)
(***************************************************************************)
Opener(f) ==
  IF f.fn = "prog" THEN <<>>
  ELSE IF f.fn = "list" THEN <<"(">>
  ELSE IF f.mark = ",@" THEN <<",", "@">>
  ELSE <<f.mark>>

Shown(m, f) == Opener(f) \o ShownItems(m, f.items)

ShownStack(m, s) == FlattenSeq([i \in DOMAIN s |-> Shown(m, s[i])])

Returned(m, x, isReturned) == IF isReturned /\ x # NoDatum THEN Show(m, x) ELSE <<>>

Written == ShownStack(Len(text), stack) \o Returned(Len(text), result, pc = "return")

Ink(c) == IF IsBlank(c) THEN <<>> ELSE <<c>>

Inked(t, n) == FlattenSeq([i \in 1..n |-> Ink(t[i])])

\* Only the first element of a list that a quote mark made is a mark.
NoMark(x) == \A q \in Marks : x # Symbol(<<q>>)

NoMarks(s) == \A i \in DOMAIN s : \A j \in DOMAIN s[i].items : NoMark(s[i].items[j])

\* A number that the end of the text ends is not known, and the parser then
\* comes to the assert on the end of the text.
Counts ==
  \/ pc \in {"parse", "list"} /\ HasNext
  \/ pc = "return" /\ (HasNext \/ result = NoDatum)
  \/ pc = "done"

AllWritten ==
  /\ NoMarks(stack)
  /\ pc = "return" => NoMark(result)
  /\ Counts => Round(Written) = Round(Inked(text, ix))

-----------------------------------------------------------------------------
\* Round brackets.
LEMMA RoundProperties ==
  ASSUME NEW s \in Seq(Signs)
  PROVE  Round(s) \in Seq(Signs) /\ Len(Round(s)) = Len(s) /\ DOMAIN s = 1..Len(s)
<1>1. PICK n \in Nat : n = Len(s) /\ DOMAIN s = 1..n
  BY LenProperties
<1>2. "(" \in Signs /\ ")" \in Signs
  BY DEF Signs
<1>3. \A i \in 1..n : s[i] \in Signs
  BY <1>1, ElementOfSeq
<1>4. Round(s) \in [1..n -> Signs]
  BY <1>1, <1>2, <1>3 DEF Round
<1> QED BY <1>1, <1>4

LEMMA RoundConcat ==
  ASSUME NEW s \in Seq(Signs), NEW t \in Seq(Signs)
  PROVE  Round(s \o t) = Round(s) \o Round(t)
<1> DEFINE R(c) == IF c \in Opens THEN "(" ELSE IF c \in Closes THEN ")" ELSE c
<1>1. PICK m \in Nat : m = Len(s)
  BY LenProperties
<1>2. PICK n \in Nat : n = Len(t)
  BY LenProperties
<1>3. /\ s \o t \in Seq(Signs) /\ Len(s \o t) = m + n
      /\ \A i \in 1..m + n : (s \o t)[i] = IF i <= m THEN s[i] ELSE t[i - m]
  BY <1>1, <1>2, ConcatProperties
<1>4. PICK c : c = s \o t
  OBVIOUS
<1>5. /\ Round(c) \in Seq(Signs) /\ Len(Round(c)) = m + n /\ DOMAIN c = 1..m + n
      /\ Round(s) \in Seq(Signs) /\ Len(Round(s)) = m /\ DOMAIN s = 1..m
      /\ Round(t) \in Seq(Signs) /\ Len(Round(t)) = n /\ DOMAIN t = 1..n
  BY <1>1, <1>2, <1>3, <1>4, RoundProperties
<1>6. /\ \A i \in 1..m + n : Round(c)[i] = R(c[i])
      /\ \A i \in 1..m : Round(s)[i] = R(s[i])
      /\ \A i \in 1..n : Round(t)[i] = R(t[i])
  BY <1>5 DEF Round
<1>7. PICK d : d = Round(s) \o Round(t)
  OBVIOUS
<1>8. /\ d \in Seq(Signs) /\ Len(d) = m + n
      /\ \A i \in 1..m + n : d[i] = IF i <= m THEN Round(s)[i] ELSE Round(t)[i - m]
  BY <1>5, <1>7, ConcatProperties
<1>9. ASSUME NEW i \in 1..m + n PROVE Round(c)[i] = d[i]
  <2>1. CASE i <= m
    <3>1. i \in 1..m
      BY <2>1
    <3> QED BY <2>1, <3>1, <1>3, <1>4, <1>6, <1>8
  <2>2. CASE ~(i <= m)
    <3>1. i - m \in 1..n
      BY <2>2
    <3> QED BY <2>2, <3>1, <1>3, <1>4, <1>6, <1>8
  <2> QED BY <2>1, <2>2
<1>10. Round(c) = d
  BY <1>5, <1>8, <1>9, SeqEqual
<1> QED BY <1>4, <1>7, <1>10

-----------------------------------------------------------------------------
\* The characters read that are no blanks.
LEMMA InkType ==
  ASSUME NEW t \in Seq(Characters), NEW i \in 1..Len(t)
  PROVE  Ink(t[i]) \in Seq(Signs) /\ t[i] \in Signs
<1>1. t[i] \in Signs
  BY ElementOfSeq DEF Signs
<1>2. <<t[i]>> \in Seq(Signs) /\ <<>> \in Seq(Signs)
  BY <1>1, ShortSeqs, EmptySeq
<1> QED BY <1>1, <1>2 DEF Ink

LEMMA InkedNothing == ASSUME NEW t PROVE Inked(t, 0) = <<>>
<1>1. [i \in 1..0 |-> Ink(t[i])] = <<>>
  OBVIOUS
<1> QED BY <1>1, FlattenNothing DEF Inked

LEMMA InkedNext ==
  ASSUME NEW t \in Seq(Characters), NEW n \in Nat, n + 1 <= Len(t)
  PROVE  /\ Inked(t, n) \in Seq(Signs)
         /\ Inked(t, n + 1) = Inked(t, n) \o Ink(t[n + 1])
<1> DEFINE f == [i \in 1..n |-> Ink(t[i])]
           g == [i \in 1..n + 1 |-> Ink(t[i])]
<1>1. \A i \in 1..n + 1 : i \in 1..Len(t)
  BY LenProperties
<1>2. \A i \in 1..n + 1 : Ink(t[i]) \in Seq(Signs)
  BY <1>1, InkType
<1>3. f \in [1..n -> Seq(Signs)] /\ g \in [1..n + 1 -> Seq(Signs)]
  BY <1>2
<1>4. g[n + 1] = Ink(t[n + 1]) /\ \A i \in 1..n : g[i] = f[i]
  OBVIOUS
<1>5. Inked(t, n) = FlattenSeq(f) /\ Inked(t, n + 1) = FlattenSeq(g)
  BY DEF Inked
<1> HIDE DEF f, g
<1>6. f \in Seq(Seq(Signs)) /\ g = Append(f, Ink(t[n + 1]))
  BY <1>3, <1>4, MappedAppend
<1>7. Ink(t[n + 1]) \in Seq(Signs)
  BY <1>2
<1> QED BY <1>5, <1>6, <1>7, FlattenType, FlattenAppend

LEMMA InkedType ==
  ASSUME NEW t \in Seq(Characters), NEW n \in Nat, n <= Len(t)
  PROVE  Inked(t, n) \in Seq(Signs)
<1>1. \A i \in 1..n : i \in 1..Len(t)
  BY LenProperties
<1>2. \A i \in 1..n : Ink(t[i]) \in Seq(Signs)
  BY <1>1, InkType
<1>3. [i \in 1..n |-> Ink(t[i])] \in Seq(Seq(Signs))
  BY <1>2
<1> QED BY <1>3, FlattenType DEF Inked

LEMMA InkedBlanks ==
  ASSUME NEW t \in Seq(Characters), NEW m \in Nat, NEW n \in Nat, m <= n, n <= Len(t),
         \A k \in m + 1..n : t[k] \in Blanks
  PROVE  Inked(t, n) = Inked(t, m)
<1> DEFINE T == {k \in Nat : m <= k /\ k <= n /\ Inked(t, k) # Inked(t, m)}
<1>1. T = {}
  <2> SUFFICES ASSUME T # {} PROVE FALSE
    OBVIOUS
  <2>1. PICK k \in T : \A j \in T : k <= j
    <3>1. T \subseteq Nat
      OBVIOUS
    <3> HIDE DEF T
    <3> QED BY <3>1, LeastNatural
  <2>2. k \in Nat /\ m <= k /\ k <= n /\ Inked(t, k) # Inked(t, m) /\ k # m
    BY <2>1
  <2>3. /\ k - 1 \in Nat /\ m <= k - 1 /\ k - 1 <= n /\ k - 1 \notin T
        /\ (k - 1) + 1 = k /\ k <= Len(t) /\ k \in m + 1..n
    BY <2>1, <2>2, LenProperties
  <2>4. Inked(t, k - 1) = Inked(t, m)
    BY <2>3
  <2>5. Inked(t, k - 1) \in Seq(Signs) /\ Inked(t, k) = Inked(t, k - 1) \o Ink(t[k])
    BY <2>3, InkedNext
  <2>6. Ink(t[k]) = <<>>
    BY <2>3 DEF Ink, IsBlank
  <2> QED BY <2>2, <2>4, <2>5, <2>6, ConcatEmptySeq
<1>2. n \notin T
  BY <1>1
<1> QED BY <1>2

LEMMA Reassociate ==
  ASSUME NEW s \in Seq(Signs), NEW t \in Seq(Signs), NEW u \in Seq(Signs)
  PROVE  (s \o t) \o u = s \o (t \o u)
  BY ConcatAssociative

LEMMA InkedToken ==
  ASSUME NEW t \in Seq(Characters), NEW m \in Nat, NEW n \in Nat, m <= n, n <= Len(t),
         \A k \in m + 1..n : t[k] \notin Blanks
  PROVE  Inked(t, n) = Inked(t, m) \o SubSeq(t, m + 1, n) /\ SubSeq(t, m + 1, n) \in Seq(Signs)
<1> DEFINE T == {k \in Nat : m <= k /\ k <= n /\ Inked(t, k) # Inked(t, m) \o SubSeq(t, m + 1, k)}
<1>0. Len(t) \in Nat
  BY LenProperties
<1>1. \A k \in 1..Len(t) : t[k] \in Signs
  BY InkType
<1>2. T = {}
  <2> SUFFICES ASSUME T # {} PROVE FALSE
    OBVIOUS
  <2>1. PICK k \in T : \A j \in T : k <= j
    <3>1. T \subseteq Nat
      OBVIOUS
    <3> HIDE DEF T
    <3> QED BY <3>1, LeastNatural
  <2>2. /\ k \in Nat /\ m <= k /\ k <= n
        /\ Inked(t, k) # Inked(t, m) \o SubSeq(t, m + 1, k)
    BY <2>1
  <2>3. Inked(t, m) \in Seq(Signs)
    BY <1>0, InkedType
  <2>4. k # m
    <3>1. SubSeq(t, m + 1, m) = <<>>
      BY SubSeqEmpty
    <3> QED BY <3>1, <2>2, <2>3, ConcatEmptySeq
  <2>5. /\ k - 1 \in Nat /\ m <= k - 1 /\ k - 1 <= n /\ k - 1 \notin T
        /\ (k - 1) + 1 = k /\ k <= Len(t) /\ k \in m + 1..n
        /\ m + 1 \in 1..Len(t) /\ k \in m + 1..Len(t)
    <3>1. PICK h \in Nat : h = Len(t) /\ n <= h
      BY <1>0
    <3>2. k - 1 \in Nat /\ m <= k - 1 /\ k - 1 <= n /\ ~(k <= k - 1)
      BY <2>2, <2>4
    <3>3. k - 1 \notin T
      BY <2>1, <3>2
    <3> HIDE DEF T
    <3> QED BY <2>2, <2>4, <3>1, <3>2, <3>3
  <2>6. Inked(t, k - 1) = Inked(t, m) \o SubSeq(t, m + 1, k - 1)
    BY <2>5
  <2>7. Inked(t, k) = Inked(t, k - 1) \o Ink(t[k])
    BY <2>5, InkedNext
  <2>8. Ink(t[k]) = <<t[k]>>
    BY <2>5 DEF Ink, IsBlank
  <2>9. SubSeq(t, m + 1, k) = SubSeq(t, m + 1, k - 1) \o <<t[k]>>
    BY <2>5, SubSeqRecursiveSecond
  <2>10. SubSeq(t, m + 1, k - 1) \in Seq(Signs) /\ <<t[k]>> \in Seq(Signs)
    <3>1. \A j \in m + 1..k - 1 : t[j] \in Signs
      BY <1>0, <1>1, <2>5
    <3>2. m + 1 \in Int /\ k - 1 \in Int
      BY <2>5
    <3>3. SubSeq(t, m + 1, k - 1) \in Seq(Signs)
      BY <3>1, <3>2, SubSeqProperties
    <3>4. t[k] \in Signs
      BY <2>5, <1>1, <1>0
    <3> QED BY <3>3, <3>4, ShortSeqs
  <2>11. (Inked(t, m) \o SubSeq(t, m + 1, k - 1)) \o <<t[k]>>
           = Inked(t, m) \o (SubSeq(t, m + 1, k - 1) \o <<t[k]>>)
    <3>1. PICK a \in Seq(Signs), b \in Seq(Signs), c \in Seq(Signs) :
            a = Inked(t, m) /\ b = SubSeq(t, m + 1, k - 1) /\ c = <<t[k]>>
      BY <2>3, <2>10
    <3>2. (a \o b) \o c = a \o (b \o c)
      BY Reassociate
    <3> QED BY <3>1, <3>2
  <2> HIDE DEF T
  <2> QED BY <2>2, <2>6, <2>7, <2>8, <2>9, <2>11
<1>3. Inked(t, n) = Inked(t, m) \o SubSeq(t, m + 1, n)
  <2>1. n \notin T
    BY <1>2
  <2>2. n \in Nat /\ m <= n /\ n <= n
    OBVIOUS
  <2> QED BY <2>1, <2>2, Zenon
<1>4. \A j \in m + 1..n : t[j] \in Signs
  <2>1. PICK h \in Nat : h = Len(t) /\ n <= h
    BY <1>0
  <2> QED BY <2>1, <1>1
<1>5. SubSeq(t, m + 1, n) \in Seq(Signs)
  BY <1>4, SubSeqProperties
<1> QED BY <1>3, <1>5

-----------------------------------------------------------------------------
LEMMA RoundBoth ==
  ASSUME NEW a \in Seq(Signs), NEW b \in Seq(Signs), NEW c \in Seq(Signs), NEW d \in Seq(Signs),
         Round(a) = Round(b), Round(c) = Round(d)
  PROVE  Round(a \o c) = Round(b \o d)
<1>1. Round(a \o c) = Round(a) \o Round(c)
  BY RoundConcat
<1>2. Round(b \o d) = Round(b) \o Round(d)
  BY RoundConcat
<1> QED BY <1>1, <1>2

\* The frames of the stack, and what is written of them.
WrittenFrame(m) == {f \in Frame(m) : f.fn = "quote" => f.mark \in Marks}

LEMMA ShownItemsType ==
  ASSUME NEW m \in Nat, NEW xs \in Seq(Data[m])
  PROVE  ShownItems(m, xs) \in Seq(Signs)
<1>1. Unread \in Data[m] /\ m <= m
  BY AtomIsDatum DEF Atoms
<1> QED BY <1>1, ShownItemsAppend

LEMMA ShownFrame ==
  ASSUME NEW m \in Nat, NEW f \in WrittenFrame(m)
  PROVE  Opener(f) \in Seq(Signs) /\ ShownItems(m, f.items) \in Seq(Signs)
         /\ Shown(m, f) \in Seq(Signs)
<1>1. /\ f.items \in Seq(Data[m]) /\ f.fn \in {"prog", "list", "quote"}
      /\ f.fn = "quote" => f.mark \in Marks
  BY DEF WrittenFrame, Frame
<1>2. ShownItems(m, f.items) \in Seq(Signs)
  BY <1>1, ShownItemsType
<1>3. <<>> \in Seq(Signs) /\ <<"(">> \in Seq(Signs) /\ <<",", "@">> \in Seq(Signs)
  <2>1. "(" \in Signs /\ "," \in Signs /\ "@" \in Signs
    BY DEF Signs, Marks, Quotes
  <2> QED BY <2>1, ShortSeqs, EmptySeq
<1>4. \A mark \in Marks : <<mark>> \in Seq(Signs)
  BY ShortSeqs DEF Signs
<1>5. Opener(f) \in Seq(Signs)
  BY <1>1, <1>3, <1>4 DEF Opener
<1> QED BY <1>2, <1>5, ConcatProperties DEF Shown

LEMMA ShownStackAppend ==
  ASSUME NEW m \in Nat, NEW s \in Seq(WrittenFrame(m)), NEW f \in WrittenFrame(m)
  PROVE  /\ ShownStack(m, s) \in Seq(Signs)
         /\ ShownStack(m, Append(s, f)) = ShownStack(m, s) \o Shown(m, f)
<1>1. PICK k \in Nat : k = Len(s) /\ DOMAIN s = 1..k
  BY LenProperties
<1>2. PICK r : r = Append(s, f)
  OBVIOUS
<1>3. /\ r \in Seq(WrittenFrame(m)) /\ Len(r) = k + 1
      /\ r[k + 1] = f /\ \A i \in 1..k : r[i] = s[i]
  BY <1>1, <1>2, AppendProperties
<1>4. DOMAIN r = 1..k + 1
  BY <1>3, LenProperties
<1> DEFINE g == [i \in 1..k |-> Shown(m, s[i])]
           h == [i \in 1..k + 1 |-> Shown(m, r[i])]
<1>5. \A e \in WrittenFrame(m) : Shown(m, e) \in Seq(Signs)
  BY ShownFrame
<1>6. /\ \A i \in 1..k : Shown(m, s[i]) \in Seq(Signs)
      /\ \A i \in 1..k + 1 : Shown(m, r[i]) \in Seq(Signs)
  <2>1. /\ \A i \in 1..k : s[i] \in WrittenFrame(m)
        /\ \A i \in 1..k + 1 : r[i] \in WrittenFrame(m)
    BY <1>1, <1>3, ElementOfSeq
  <2> QED BY <2>1, <1>5
<1>7. g \in [1..k -> Seq(Signs)] /\ h \in [1..k + 1 -> Seq(Signs)]
  BY <1>6
<1>8. h[k + 1] = Shown(m, f) /\ \A i \in 1..k : h[i] = g[i]
  BY <1>3
<1>9. ShownStack(m, s) = FlattenSeq(g) /\ ShownStack(m, r) = FlattenSeq(h)
  BY <1>1, <1>4 DEF ShownStack
<1> HIDE DEF g, h
<1>10. g \in Seq(Seq(Signs)) /\ h = Append(g, Shown(m, f))
  BY <1>7, <1>8, MappedAppend
<1> QED BY <1>2, <1>5, <1>9, <1>10, FlattenType, FlattenAppend

\* What every step needs of the state that it starts in.
LEMMA WrittenFacts ==
  ASSUME Types
  PROVE  \E m \in Nat :
           /\ m = Len(text) /\ Depth <= m
           /\ StackOK(stack, m)
           /\ stack \in Seq(WrittenFrame(m))
           /\ frame \in WrittenFrame(m) /\ Front(stack) \in Seq(WrittenFrame(m))
           /\ stack = Append(Front(stack), frame)
           /\ ShownStack(m, Front(stack)) \in Seq(Signs)
           /\ ShownStack(m, stack) \in Seq(Signs)
           /\ ShownStack(m, stack) = ShownStack(m, Front(stack)) \o Shown(m, frame)
           /\ Inked(text, ix) \in Seq(Signs)
<1>1. PICK m \in Nat : m = Len(text)
  BY TypesFacts
<1>2. Depth \in Nat /\ Depth <= m
  <2>1. \A h \in Nat \ {0} : \A i \in Nat : i <= m => i + 1 - h <= m
    BY <1>1
  <2> QED BY <2>1, <1>1, TypesFacts
<1>3. StackOK(stack, m)
  BY <1>1, <1>2, StackGrows, TypesFacts
<1>4. stack \in Seq(WrittenFrame(m)) /\ stack # <<>>
  <2>1. PICK n \in Nat : n = Len(stack) /\ DOMAIN stack = 1..n /\ stack \in [1..n -> Frame(m)]
    BY <1>3, LenProperties DEF StackOK
  <2>2. \A i \in 1..n : stack[i] \in WrittenFrame(m)
    BY <2>1, <1>3 DEF StackOK, FrameOK, WrittenFrame
  <2>3. stack \in [1..n -> WrittenFrame(m)]
    BY <2>1, <2>2
  <2> QED BY <2>3, <2>1, <1>3 DEF StackOK
<1>5. frame \in WrittenFrame(m) /\ Front(stack) \in Seq(WrittenFrame(m))
  BY <1>4, FrontAndLast DEF frame
<1>6. stack = Append(Front(stack), frame)
  <2>1. PICK h \in Nat \ {0} :
          /\ h = Len(stack) /\ frame = stack[h] /\ Len(Front(stack)) = h - 1
          /\ \A i \in 1..h - 1 : Front(stack)[i] = stack[i]
    BY <1>4, FrontAndLast DEF frame
  <2>2. PICK a : a = Append(Front(stack), frame)
    OBVIOUS
  <2>3. /\ a \in Seq(WrittenFrame(m)) /\ Len(a) = (h - 1) + 1 /\ a[(h - 1) + 1] = frame
        /\ \A i \in 1..h - 1 : a[i] = Front(stack)[i]
    BY <2>1, <2>2, <1>5, AppendProperties
  <2>4. \A i \in 1..h : i = h \/ i \in 1..h - 1
    OBVIOUS
  <2>5. \A i \in 1..h : stack[i] = a[i]
    BY <2>1, <2>3, <2>4
  <2>6. Len(a) = h
    BY <2>3
  <2> QED BY <2>1, <2>2, <2>3, <2>5, <2>6, <1>4, SeqEqual
<1>7. /\ ShownStack(m, Front(stack)) \in Seq(Signs)
      /\ ShownStack(m, stack) = ShownStack(m, Front(stack)) \o Shown(m, frame)
  BY <1>5, <1>6, ShownStackAppend
<1>8. ShownStack(m, stack) \in Seq(Signs)
  BY <1>4, <1>5, ShownStackAppend
<1>9. Inked(text, ix) \in Seq(Signs)
  BY TypesFacts, InkedType
<1> QED BY <1>1, <1>2, <1>3, <1>4, <1>5, <1>6, <1>7, <1>8, <1>9

\* Between what was read before and a token are only blanks.
LEMMA ReadsToken ==
  ASSUME Types, ~atEnd, NEW end \in skipped + 1..Len(text),
         \A k \in skipped + 1..end : text[k] \notin Blanks
  PROVE  /\ Inked(text, end) = Inked(text, ix) \o Token(end)
         /\ Token(end) \in Seq(Signs)
<1>1. /\ text \in Seq(Characters) /\ ix \in 0..Len(text) /\ ix \in Nat /\ Len(text) \in Nat
      /\ skipped \in Nat /\ ix <= skipped /\ skipped <= Len(text)
  BY TypesFacts
<1>2. \A k \in ix + 1..skipped : text[k] \in Blanks
  BY <1>1, SkipsBlanks
<1>3. Inked(text, skipped) = Inked(text, ix)
  BY <1>1, <1>2, InkedBlanks
<1>4. end \in Nat /\ skipped <= end /\ end <= Len(text)
  BY <1>1
<1> QED BY <1>1, <1>3, <1>4, InkedToken DEF Token

-----------------------------------------------------------------------------
\* Written, in the three situations a step can be in.
LEMMA WrittenNow ==
  ASSUME Types
  PROVE  /\ pc # "return" \/ result = NoDatum => Written = ShownStack(Len(text), stack)
         /\ pc = "return" /\ result # NoDatum =>
              /\ Written = ShownStack(Len(text), stack) \o Show(Len(text), result)
              /\ Show(Len(text), result) \in Seq(Signs)
         /\ Written \in Seq(Signs)
<1>1. PICK m \in Nat : m = Len(text) /\ Depth <= m /\ ShownStack(m, stack) \in Seq(Signs)
  BY WrittenFacts
<1>2. pc # "return" \/ result = NoDatum => Written = ShownStack(m, stack)
  <2> SUFFICES ASSUME pc # "return" \/ result = NoDatum PROVE Written = ShownStack(m, stack)
    OBVIOUS
  <2>1. Returned(m, result, pc = "return") = <<>>
    BY DEF Returned
  <2> QED BY <1>1, <2>1, ConcatEmptySeq DEF Written
<1>3. ASSUME pc = "return", result # NoDatum
      PROVE  /\ Written = ShownStack(m, stack) \o Show(m, result)
             /\ Show(m, result) \in Seq(Signs)
  <2>1. Returned(m, result, pc = "return") = Show(m, result)
    BY <1>3 DEF Returned
  <2>2. result \in Data[Depth] /\ Depth \in Nat
    BY <1>3 DEF Types
  <2>3. Show(m, result) \in Seq(Signs)
    BY <1>1, <2>2, ShowType, DataGrows
  <2> QED BY <1>1, <2>1, <2>3 DEF Written
<1>4. Written \in Seq(Signs)
  BY <1>1, <1>2, <1>3, ConcatProperties
<1> QED BY <1>1, <1>2, <1>3, <1>4

\* The frames a step leaves alone, and those it changes.
LEMMA NoMarksPopped ==
  ASSUME NEW S, NEW s \in Seq(S), s # <<>>, NoMarks(s)
  PROVE  /\ NoMarks(Front(s))
         /\ \A j \in DOMAIN Last(s).items : NoMark(Last(s).items[j])
<1>1. PICK h \in Nat \ {0} :
        /\ h = Len(s) /\ Last(s) = s[h] /\ Front(s) \in Seq(S) /\ Len(Front(s)) = h - 1
        /\ \A i \in 1..h - 1 : Front(s)[i] = s[i]
  BY FrontAndLast
<1>2. DOMAIN s = 1..h /\ DOMAIN Front(s) = 1..h - 1
  BY <1>1, LenProperties
<1>3. h \in DOMAIN s /\ \A i \in DOMAIN Front(s) : i \in DOMAIN s /\ Front(s)[i] = s[i]
  BY <1>1, <1>2
<1> QED BY <1>1, <1>3 DEF NoMarks

LEMMA NoMarksPushed ==
  ASSUME NEW S, NEW s \in Seq(S), NEW f \in S, NoMarks(s),
         \A j \in DOMAIN f.items : NoMark(f.items[j])
  PROVE  NoMarks(Append(s, f))
<1>1. PICK h \in Nat : h = Len(s) /\ DOMAIN s = 1..h
  BY LenProperties
<1>2. PICK r : r = Append(s, f)
  OBVIOUS
<1>3. /\ r \in Seq(S) /\ Len(r) = h + 1 /\ r[h + 1] = f /\ \A i \in 1..h : r[i] = s[i]
  BY <1>1, <1>2, AppendProperties
<1>4. DOMAIN r = 1..h + 1
  BY <1>3, LenProperties
<1>5. ASSUME NEW i \in DOMAIN r, NEW j \in DOMAIN r[i].items PROVE NoMark(r[i].items[j])
  <2>1. i = h + 1 \/ i \in 1..h
    BY <1>4
  <2>2. CASE i = h + 1
    BY <2>2, <1>3, <1>5
  <2>3. CASE i \in 1..h
    BY <2>3, <1>1, <1>3, <1>5 DEF NoMarks
  <2> QED BY <2>1, <2>2, <2>3
<1> QED BY <1>2, <1>5 DEF NoMarks

-----------------------------------------------------------------------------
\* The end of the process, and of a program that is refused.
LEMMA StopsWritten ==
  ASSUME Types, AllWritten, UNCHANGED <<text, stack>>, pc' \in {"rejected", "aborted"}
  PROVE  AllWritten'
  BY DEF AllWritten, Counts

\* Only blanks are skipped.
LEMMA SkipWritten ==
  ASSUME Types, AllWritten, Counts, UNCHANGED <<text, stack>>, Types',
         pc \in {"parse", "list"} \/ (pc = "return" /\ result = NoDatum),
         ix <= ix', ix' <= Len(text), \A k \in ix + 1..ix' : text[k] \in Blanks,
         pc' \in {"parse", "list", "done"} \/ (pc' = "return" /\ result' = NoDatum)
  PROVE  AllWritten'
<1>1. /\ text \in Seq(Characters) /\ ix \in Nat /\ ix' \in Nat
  BY DEF Types
<1>2. Inked(text, ix') = Inked(text, ix)
  BY <1>1, InkedBlanks
<1>3. Written = ShownStack(Len(text), stack)
  BY WrittenNow
<1>4. Written' = ShownStack(Len(text), stack)
  <2>1. Returned(Len(text'), result', pc' = "return") = <<>>
    BY DEF Returned
  <2>2. ShownStack(Len(text), stack) \in Seq(Signs)
    BY WrittenFacts
  <2> QED BY <2>1, <2>2, ConcatEmptySeq DEF Written
<1>5. pc' = "return" => NoMark(result')
  BY DEF NoMark, NoDatum, Symbol
<1> QED BY <1>2, <1>3, <1>4, <1>5 DEF AllWritten

-----------------------------------------------------------------------------
\* A token is returned as it was read.
LEMMA TokenWritten ==
  ASSUME Types, AllWritten, pc = "parse", HasNext, ~atEnd, UNCHANGED <<text, stack>>,
         NEW end \in skipped + 1..Len(text), ix' = end,
         \A k \in skipped + 1..end : text[k] \notin Blanks,
         NEW x, Return(x), x # NoDatum, NoMark(x),
         Show(Len(text), x) = Token(end)
  PROVE  AllWritten'
<1>1. PICK m \in Nat : /\ m = Len(text) /\ ShownStack(m, stack) \in Seq(Signs)
                       /\ Inked(text, ix) \in Seq(Signs)
  BY WrittenFacts
<1>2. Written = ShownStack(m, stack) /\ Round(Written) = Round(Inked(text, ix))
  BY <1>1, WrittenNow DEF AllWritten, Counts
<1>3. Inked(text, end) = Inked(text, ix) \o Token(end) /\ Token(end) \in Seq(Signs)
  BY ReadsToken
<1>4. Written' = ShownStack(m, stack) \o Token(end)
  <2>1. Returned(Len(text'), result', pc' = "return") = Show(Len(text), x)
    BY DEF Returned, Return
  <2> QED BY <1>1, <2>1 DEF Written
<1>5. Round(ShownStack(m, stack) \o Token(end)) = Round(Inked(text, ix) \o Token(end))
  BY <1>1, <1>2, <1>3, RoundBoth
<1> QED BY <1>3, <1>4, <1>5 DEF AllWritten, Return

\* A bracket or a mark opens a call.
LEMMA CallWritten ==
  ASSUME Types, AllWritten, pc = "parse", HasNext, ~atEnd, UNCHANGED text,
         NEW end \in skipped + 1..Len(text), ix' = end, pc' \in {"parse", "list"},
         \A k \in skipped + 1..end : text[k] \notin Blanks,
         NEW fn \in {"list", "quote"}, NEW mark \in Opens \cup Marks, Call(fn, mark),
         fn = "quote" => mark \in Marks,
         Round(Opener([fn |-> fn, mark |-> mark, items |-> <<>>])) = Round(Token(end))
  PROVE  AllWritten'
<1> DEFINE f == [fn |-> fn, mark |-> mark, items |-> <<>>]
<1>1. PICK m \in Nat : /\ m = Len(text) /\ ShownStack(m, stack) \in Seq(Signs)
                       /\ stack \in Seq(WrittenFrame(m))
                       /\ Inked(text, ix) \in Seq(Signs)
  BY WrittenFacts
<1>2. Written = ShownStack(m, stack) /\ Round(Written) = Round(Inked(text, ix))
  BY <1>1, WrittenNow DEF AllWritten, Counts
<1>3. Inked(text, end) = Inked(text, ix) \o Token(end) /\ Token(end) \in Seq(Signs)
  BY ReadsToken
<1>4. f \in WrittenFrame(m)
  <2>1. <<>> \in Seq(Data[m])
    BY EmptySeq
  <2>2. f \in Frame(m)
    BY <2>1 DEF Frame
  <2> QED BY <2>2 DEF WrittenFrame
<1>5. stack' = Append(stack, f) /\ f.items = <<>>
  BY DEF Call
<1> HIDE DEF f
<1>6. Shown(m, f) = Opener(f) /\ Opener(f) \in Seq(Signs)
  <2>1. Opener(f) \in Seq(Signs)
    BY <1>4, ShownFrame
  <2> QED BY <2>1, <1>5, ShownNothing, ConcatEmptySeq DEF Shown
<1>7. ShownStack(m, stack') = ShownStack(m, stack) \o Opener(f)
  BY <1>1, <1>4, <1>5, <1>6, ShownStackAppend
<1>8. ShownStack(m, stack) \o Opener(f) \in Seq(Signs)
  BY <1>1, <1>6, ConcatProperties
<1>9. Written' = ShownStack(m, stack) \o Opener(f)
  <2>1. Returned(Len(text'), result', pc' = "return") = <<>>
    BY DEF Returned
  <2> QED BY <1>1, <1>7, <1>8, <2>1, ConcatEmptySeq DEF Written
<1>10. Round(ShownStack(m, stack) \o Opener(f)) = Round(Inked(text, ix) \o Token(end))
  BY <1>1, <1>2, <1>3, <1>6, RoundBoth DEF f
<1>11. NoMarks(stack')
  <2>1. \A j \in DOMAIN f.items : NoMark(f.items[j])
    BY <1>5
  <2> QED BY <2>1, <1>1, <1>4, <1>5, NoMarksPushed DEF AllWritten
<1> QED BY <1>3, <1>9, <1>10, <1>11 DEF AllWritten

\* A datum that is added to a list, or to the program.
LEMMA ExtendWritten ==
  ASSUME Types, AllWritten, pc = "return", result # NoDatum, UNCHANGED <<text, ix>>,
         stack' = Extended, pc' \in {"parse", "list"}
  PROVE  AllWritten'
<1>1. PICK m \in Nat : /\ m = Len(text) /\ Depth <= m
                       /\ Front(stack) \in Seq(WrittenFrame(m)) /\ frame \in WrittenFrame(m)
                       /\ stack \in Seq(WrittenFrame(m))
                       /\ StackOK(stack, m)
                       /\ ShownStack(m, Front(stack)) \in Seq(Signs)
                       /\ ShownStack(m, stack) = ShownStack(m, Front(stack)) \o Shown(m, frame)
                       /\ ShownStack(m, stack) \in Seq(Signs)
  BY WrittenFacts
<1>2. /\ Written = ShownStack(m, stack) \o Show(m, result)
      /\ Show(m, result) \in Seq(Signs) /\ Written \in Seq(Signs)
  BY <1>1, WrittenNow
<1>3. result \in Data[m]
  BY <1>1, DataGrows DEF Types
<1> DEFINE f == [frame EXCEPT !.items = Append(@, result)]
<1>4. frame \in Frame(m) /\ frame.items \in Seq(Data[m])
  BY <1>1 DEF WrittenFrame, Frame
<1>5. f = [fn |-> frame.fn, mark |-> frame.mark, items |-> Append(frame.items, result)]
  BY <1>4, WithItems
<1>6. Append(frame.items, result) \in Seq(Data[m])
  BY <1>3, <1>4, AppendProperties
<1>7. Extended = Front(stack) \o <<f>>
  BY DEF Extended
<1> HIDE DEF f
<1>8. /\ f.fn = frame.fn /\ f.mark = frame.mark /\ f.items = Append(frame.items, result)
      /\ f \in WrittenFrame(m)
  <2>1. f \in Frame(m)
    BY <1>4, <1>5, <1>6 DEF Frame
  <2> QED BY <2>1, <1>1, <1>5 DEF WrittenFrame
<1>9. stack' = Append(Front(stack), f)
  BY <1>1, <1>7, <1>8, AppendIsConcat
<1>10. /\ Opener(frame) \in Seq(Signs) /\ ShownItems(m, frame.items) \in Seq(Signs)
       /\ Shown(m, frame) \in Seq(Signs)
  BY <1>1, ShownFrame
<1>11. Shown(m, f) = Shown(m, frame) \o Show(m, result)
  <2>1. Opener(f) = Opener(frame)
    BY <1>8 DEF Opener
  <2>2. ShownItems(m, f.items) = ShownItems(m, frame.items) \o Show(m, result)
    BY <1>3, <1>4, <1>8, ShownItemsAppend
  <2>3. (Opener(frame) \o ShownItems(m, frame.items)) \o Show(m, result)
          = Opener(frame) \o (ShownItems(m, frame.items) \o Show(m, result))
    <3>1. PICK a \in Seq(Signs), b \in Seq(Signs), c \in Seq(Signs) :
            a = Opener(frame) /\ b = ShownItems(m, frame.items) /\ c = Show(m, result)
      BY <1>2, <1>10
    <3>2. (a \o b) \o c = a \o (b \o c)
      BY Reassociate
    <3> QED BY <3>1, <3>2
  <2> QED BY <2>1, <2>2, <2>3 DEF Shown
<1>12. ShownStack(m, stack') = ShownStack(m, Front(stack)) \o Shown(m, f)
  BY <1>1, <1>8, <1>9, ShownStackAppend
<1>13. ShownStack(m, Front(stack)) \o (Shown(m, frame) \o Show(m, result))
         = (ShownStack(m, Front(stack)) \o Shown(m, frame)) \o Show(m, result)
  <2>1. PICK a \in Seq(Signs), b \in Seq(Signs), c \in Seq(Signs) :
          a = ShownStack(m, Front(stack)) /\ b = Shown(m, frame) /\ c = Show(m, result)
    BY <1>1, <1>2, <1>10
  <2>2. (a \o b) \o c = a \o (b \o c)
    BY Reassociate
  <2> QED BY <2>1, <2>2
<1>14. ShownStack(m, stack') = Written
  BY <1>1, <1>2, <1>11, <1>12, <1>13
<1>15. Written' = Written
  <2>1. Returned(Len(text'), result', pc' = "return") = <<>>
    BY DEF Returned
  <2> QED BY <1>1, <1>2, <1>14, <2>1, ConcatEmptySeq DEF Written
<1>16. NoMarks(stack')
  <2>1. /\ NoMarks(Front(stack))
        /\ \A j \in DOMAIN frame.items : NoMark(frame.items[j])
    BY <1>1, NoMarksPopped DEF AllWritten, StackOK, frame
  <2>2. \A j \in DOMAIN f.items : NoMark(f.items[j])
    <3>0. PICK b \in Seq(Data[m]) : b = frame.items
      BY <1>4
    <3>1. PICK h \in Nat : h = Len(b) /\ DOMAIN b = 1..h
      BY LenProperties
    <3>2. PICK a : a = Append(b, result)
      OBVIOUS
    <3>3. /\ a \in Seq(Data[m]) /\ Len(a) = h + 1 /\ a[h + 1] = result
          /\ \A j \in 1..h : a[j] = b[j]
      BY <1>3, <3>1, <3>2, AppendProperties
    <3>4. DOMAIN a = 1..h + 1 /\ \A j \in 1..h + 1 : j = h + 1 \/ j \in 1..h
      BY <3>3, LenProperties
    <3>5. NoMark(result)
      BY DEF AllWritten
    <3> QED BY <1>8, <2>1, <3>0, <3>1, <3>2, <3>3, <3>4, <3>5
  <2> QED BY <1>1, <1>8, <1>9, <2>1, <2>2, NoMarksPushed
<1>17. Counts' => Counts
  BY DEF Counts, HasNext
<1> QED BY <1>15, <1>16, <1>17 DEF AllWritten

-----------------------------------------------------------------------------
\* parseList returns.
LEMMA ListWritten ==
  ASSUME Types, AllWritten, ListCloses
  PROVE  AllWritten'
<1>0. /\ pc = "list" /\ HasNext /\ next = Closing(frame.mark) /\ ix' = skipped + 1
      /\ stack' = Front(stack) /\ result' = List(frame.items) /\ pc' = "return"
      /\ text' = text
  BY DEF ListCloses, Return
<1>1. PICK m \in Nat : /\ m = Len(text) /\ Depth <= m
                       /\ Front(stack) \in Seq(WrittenFrame(m)) /\ frame \in WrittenFrame(m)
                       /\ stack \in Seq(WrittenFrame(m))
                       /\ StackOK(stack, m)
                       /\ ShownStack(m, Front(stack)) \in Seq(Signs)
                       /\ ShownStack(m, stack) = ShownStack(m, Front(stack)) \o Shown(m, frame)
                       /\ ShownStack(m, stack) \in Seq(Signs)
                       /\ Inked(text, ix) \in Seq(Signs)
  BY WrittenFacts
<1>2. Written = ShownStack(m, stack) /\ Round(Written) = Round(Inked(text, ix))
  BY <1>0, <1>1, WrittenNow DEF AllWritten, Counts
<1>3. frame.fn = "list" /\ frame.items \in Seq(Data[Depth]) /\ Depth \in Nat /\ Depth + 1 <= m
  <2>1. frame.fn = "list"
    BY <1>0 DEF Types
  <2>2. frame \in Frame(Depth) /\ Depth \in Nat
    BY TypesFacts
  <2>3. Depth + 1 <= m
    <3>1. \A h \in Nat \ {0} : \A i \in Nat : i < m => (i + 1 - h) + 1 <= m
      BY <1>1
    <3>2. ix \in Nat /\ ix < m /\ Len(stack) \in Nat \ {0} /\ Depth = ix + 1 - Len(stack)
      BY <1>0, <1>1, TypesFacts DEF HasNext
    <3> QED BY <3>1, <3>2
  <2> QED BY <2>1, <2>2, <2>3 DEF Frame
<1>4. \A j \in DOMAIN frame.items : NoMark(frame.items[j])
  BY <1>1, NoMarksPopped DEF AllWritten, StackOK, frame
<1>5. Show(m, List(frame.items)) = <<"(">> \o ShownItems(m, frame.items) \o <<")">>
  <2>1. MarksOf(frame.items) = {}
    <3>1. PICK b \in Seq(Data[Depth]) : b = frame.items
      BY <1>3
    <3>2. Len(b) = 2 => 1 \in DOMAIN b
      BY LenProperties
    <3>3. ASSUME NEW q \in Marks, Len(b) = 2, b[1] = Symbol(<<q>>) PROVE FALSE
      BY <3>1, <3>2, <3>3, <1>4 DEF NoMark
    <3> QED BY <3>1, <3>3 DEF MarksOf
  <2>2. Show(m, List(frame.items))
          = ShowList(frame.items, [i \in DOMAIN frame.items |-> Show(m, frame.items[i])])
    BY <1>3, ShowsList
  <2> QED BY <2>1, <2>2 DEF ShowList, ShownItems
<1>6. Shown(m, frame) = <<"(">> \o ShownItems(m, frame.items) /\ Shown(m, frame) \in Seq(Signs)
  BY <1>1, <1>3, ShownFrame DEF Shown, Opener
<1>7. <<")">> \in Seq(Signs)
  <2>1. ")" \in Signs
    BY DEF Signs
  <2> QED BY <2>1, ShortSeqs
<1>8. /\ ShownStack(m, Front(stack)) \o Show(m, List(frame.items))
           = ShownStack(m, stack) \o <<")">>
  <2>1. PICK a \in Seq(Signs), b \in Seq(Signs), c \in Seq(Signs) :
          a = ShownStack(m, Front(stack)) /\ b = Shown(m, frame) /\ c = <<")">>
    BY <1>1, <1>6, <1>7
  <2>2. (a \o b) \o c = a \o (b \o c)
    BY Reassociate
  <2> QED BY <2>1, <2>2, <1>1, <1>5, <1>6
<1>9. ~atEnd /\ next \in Closes
  BY <1>0 DEF next, Closing, Closes
<1>10. skipped + 1 \in skipped + 1..Len(text) /\ skipped + 1 \in 1..Len(text)
       /\ next = text[skipped + 1] /\ next \notin Blanks /\ next \in Characters
  BY <1>9, TypesFacts, SkipsBlanks
<1>11. Token(skipped + 1) = <<next>>
  <2>1. PICK k \in Nat : k = skipped + 1 /\ k \in 1..Len(text)
    BY <1>10
  <2>2. SubSeq(text, k, k) = <<text[k]>>
    <3>1. text \in Seq(Characters) /\ k \in 1..Len(text) /\ k \in k..Len(text) /\ k - 1 < k
      BY <2>1, TypesFacts
    <3>2. SubSeq(text, k, k) = SubSeq(text, k, k - 1) \o <<text[k]>>
      BY <3>1, SubSeqRecursiveSecond
    <3>3. SubSeq(text, k, k - 1) = <<>>
      BY <3>1, SubSeqEmpty
    <3>4. <<text[k]>> \in Seq(Characters)
      BY <1>10, <2>1, ShortSeqs
    <3> QED BY <3>2, <3>3, <3>4, ConcatEmptySeq
  <2> QED BY <2>1, <2>2, <1>10 DEF Token
<1>12. Inked(text, skipped + 1) = Inked(text, ix) \o <<next>> /\ <<next>> \in Seq(Signs)
  <2>1. \A k \in skipped + 1..skipped + 1 : text[k] \notin Blanks
    <3>1. \A k \in skipped + 1..skipped + 1 : k = skipped + 1
      BY TypesFacts
    <3> QED BY <3>1, <1>10
  <2> QED BY <2>1, <1>9, <1>10, <1>11, ReadsToken
<1>13. Round(<<")">>) = Round(<<next>>)
  BY <1>9 DEF Round, Closes, Opens
<1>14. Round(ShownStack(m, stack) \o <<")">>) = Round(Inked(text, ix) \o <<next>>)
  <2>1. \A a, b, c, d \in Seq(Signs) :
          Round(a) = Round(b) /\ Round(c) = Round(d) => Round(a \o c) = Round(b \o d)
    BY RoundBoth
  <2>2. Round(ShownStack(m, stack)) = Round(Inked(text, ix))
    BY <1>2
  <2>3. /\ ShownStack(m, stack) \in Seq(Signs) /\ Inked(text, ix) \in Seq(Signs)
        /\ <<")">> \in Seq(Signs) /\ <<next>> \in Seq(Signs)
    BY <1>1, <1>7, <1>12
  <2> QED BY <2>1, <2>2, <2>3, <1>13, ZenonT(60)
<1>15. Written' = ShownStack(m, stack) \o <<")">>
  <2>1. Returned(Len(text'), result', pc' = "return") = Show(m, List(frame.items))
    BY <1>0, <1>1 DEF Returned, List, NoDatum
  <2> QED BY <1>0, <1>1, <1>8, <2>1 DEF Written
<1>16. NoMarks(stack') /\ NoMark(result')
  <2>1. NoMarks(Front(stack))
    BY <1>1, NoMarksPopped DEF AllWritten, StackOK
  <2> QED BY <2>1, <1>0 DEF NoMark, List, Symbol
<1> QED BY <1>0, <1>12, <1>14, <1>15, <1>16 DEF AllWritten

\* parseQuote returns.
LEMMA QuoteWritten ==
  ASSUME Types, AllWritten, ReturnToQuote, result # NoDatum
  PROVE  AllWritten'
<1>0. /\ pc = "return" /\ frame.fn = "quote" /\ stack' = Front(stack)
      /\ result' = Quoted(frame.mark, result) /\ pc' = "return" /\ UNCHANGED <<text, ix>>
  BY DEF ReturnToQuote, Returning, Return
<1>1. PICK m \in Nat : /\ m = Len(text) /\ Depth <= m
                       /\ Front(stack) \in Seq(WrittenFrame(m)) /\ frame \in WrittenFrame(m)
                       /\ stack \in Seq(WrittenFrame(m))
                       /\ StackOK(stack, m)
                       /\ ShownStack(m, Front(stack)) \in Seq(Signs)
                       /\ ShownStack(m, stack) = ShownStack(m, Front(stack)) \o Shown(m, frame)
  BY WrittenFacts
<1>2. /\ Written = ShownStack(m, stack) \o Show(m, result)
      /\ Show(m, result) \in Seq(Signs)
  BY <1>0, <1>1, WrittenNow
<1>3. frame.mark \in Marks /\ frame.items = <<>>
  BY <1>0, TypesFacts DEF FrameOK
<1>4. result \in Data[Depth] /\ Depth \in Nat /\ Depth + 1 <= m
  <2>1. result \in Data[Depth] /\ Depth \in Nat
    BY <1>0 DEF Types
  <2>2. Len(stack) \in Nat /\ Len(stack) > 1
    BY <1>0, <1>1, Popped DEF frame
  <2>3. \A h, i \in Nat : h > 1 /\ i <= m => (i + 1 - h) + 1 <= m
    BY <1>1
  <2>4. ix \in Nat /\ ix <= m /\ Depth = ix + 1 - Len(stack)
    BY <1>1, TypesFacts
  <2> QED BY <2>1, <2>2, <2>3, <2>4
<1>5. Shown(m, frame) = Opener(frame) /\ Opener(frame) \in Seq(Signs)
  <2>1. Opener(frame) \in Seq(Signs)
    BY <1>1, ShownFrame
  <2> QED BY <2>1, <1>3, ShownNothing, ConcatEmptySeq DEF Shown
<1>6. Show(m, Quoted(frame.mark, result)) = Opener(frame) \o Show(m, result)
  BY <1>0, <1>2, <1>3, <1>4, ShowsQuoted DEF Opener
<1>7. ShownStack(m, Front(stack)) \o Show(m, Quoted(frame.mark, result)) = Written
  <2>1. PICK a \in Seq(Signs), b \in Seq(Signs), c \in Seq(Signs) :
          a = ShownStack(m, Front(stack)) /\ b = Opener(frame) /\ c = Show(m, result)
    BY <1>1, <1>2, <1>5
  <2>2. (a \o b) \o c = a \o (b \o c)
    BY Reassociate
  <2> QED BY <2>1, <2>2, <1>1, <1>2, <1>5, <1>6
<1>8. result' # NoDatum
  BY <1>0 DEF Quoted, List, NoDatum
<1>9. Written' = Written
  <2>1. Returned(Len(text'), result', pc' = "return") = Show(m, Quoted(frame.mark, result))
    BY <1>0, <1>1, <1>8 DEF Returned
  <2> QED BY <1>0, <1>1, <1>7, <2>1 DEF Written
<1>10. NoMarks(stack') /\ NoMark(result')
  <2>1. NoMarks(Front(stack))
    BY <1>1, NoMarksPopped DEF AllWritten, StackOK
  <2> QED BY <2>1, <1>0 DEF NoMark, Quoted, List, Symbol
<1>11. Counts' => Counts
  BY <1>0, <1>8 DEF Counts, HasNext
<1> QED BY <1>0, <1>9, <1>10, <1>11 DEF AllWritten

-----------------------------------------------------------------------------
LEMMA WrittenInit == Init => AllWritten
<1> SUFFICES ASSUME Init PROVE AllWritten
  OBVIOUS
<1>1. Types
  BY TypesInit
<1> DEFINE f == [fn |-> "prog", mark |-> "", items |-> <<>>]
<1>2. ix = 0 /\ pc = "parse" /\ stack = <<f>>
  BY DEF Init
<1>3. f.fn = "prog" /\ f.items = <<>>
  OBVIOUS
<1> HIDE DEF f
<1>4. PICK m \in Nat : /\ m = Len(text) /\ ShownStack(m, stack) \in Seq(Signs)
                       /\ stack \in Seq(WrittenFrame(m))
  BY <1>1, WrittenFacts
<1>5. stack = Append(<<>>, f) /\ f \in WrittenFrame(m) /\ <<>> \in Seq(WrittenFrame(m))
  <2>1. Len(stack) = 1 /\ stack[1] = f /\ 1 \in 1..Len(stack)
    BY <1>2
  <2>2. f \in WrittenFrame(m)
    BY <2>1, <1>4, ElementOfSeq
  <2> QED BY <2>2, <1>2, EmptySeq
<1>6. ShownStack(m, <<>>) = <<>>
  <2>1. [i \in DOMAIN <<>> |-> Shown(m, <<>>[i])] = <<>>
    OBVIOUS
  <2> QED BY <2>1, FlattenNothing DEF ShownStack
<1>7. ShownStack(m, stack) = <<>> \o Shown(m, f) /\ Shown(m, f) = <<>>
  <2>1. ShownStack(m, stack) = ShownStack(m, <<>>) \o Shown(m, f)
    BY <1>5, ShownStackAppend
  <2>2. Shown(m, f) = <<>> \o <<>>
    BY <1>3, ShownNothing DEF Shown, Opener
  <2>3. <<>> \o <<>> = <<>>
    BY EmptySeq, ConcatEmptySeq
  <2> QED BY <2>1, <2>2, <2>3, <1>6
<1>8. Written = <<>>
  <2>1. <<>> \o <<>> = <<>>
    BY EmptySeq, ConcatEmptySeq
  <2>2. Written = ShownStack(m, stack)
    BY <1>1, <1>2, <1>4, WrittenNow
  <2> QED BY <2>1, <2>2, <1>7
<1>9. NoMarks(stack)
  <2>1. \A i \in DOMAIN stack : stack[i] = f
    BY <1>2
  <2> QED BY <2>1, <1>3 DEF NoMarks
<1>10. Inked(text, ix) = <<>>
  BY <1>2, InkedNothing
<1> QED BY <1>2, <1>8, <1>9, <1>10 DEF AllWritten

\* Tokens are no marks.
LEMMA TokenIsNoMark ==
  ASSUME Types, ~atEnd, next \notin Quotes, NEW end \in skipped + 1..Len(text)
  PROVE  NoMark(Symbol(Token(end)))
<1>1. /\ skipped + 1 \in 1..Len(text) /\ next = text[skipped + 1] /\ skipped \in Nat
      /\ Len(text) \in Nat /\ text \in Seq(Characters)
  BY TypesFacts, SkipsBlanks
<1>2. next \in Characters
  BY <1>1, ElementOfSeq
<1>3. PICK k \in Nat : k = skipped + 1 /\ k \in 1..Len(text) /\ end \in k..Len(text)
  BY <1>1
<1>4. Token(end)[1] = next
  <2>1. \A i \in k..end : text[i] \in Characters
    BY <1>1, <1>3, ElementOfSeq
  <2>2. 1 \in 1..end - k + 1 /\ k + 1 - 1 = k /\ k \in Int /\ end \in Int
    BY <1>3
  <2>3. SubSeq(text, k, end)[1] = text[k + 1 - 1]
    BY <2>1, <2>2, SubSeqProperties
  <2> QED BY <2>2, <2>3, <1>1, <1>3 DEF Token
<1>5. ASSUME NEW q \in Marks, Symbol(Token(end)) = Symbol(<<q>>) PROVE FALSE
  <2>1. Symbol(Token(end)).symbol = Token(end) /\ Symbol(<<q>>).symbol = <<q>>
    BY DEF Symbol
  <2>2. Token(end)[1] = q
    BY <2>1, <1>5
  <2>3. q \in Quotes \/ q = ",@"
    BY DEF Marks
  <2> QED BY <2>2, <2>3, <1>2, <1>4 DEF Characters
<1> QED BY <1>5 DEF NoMark

LEMMA AppendsPair ==
  ASSUME NEW S, NEW a \in S, NEW b \in S
  PROVE  Append(<<a>>, b) = <<a, b>>
<1>1. <<a>> \in Seq(S) /\ <<a, b>> \in Seq(S)
  BY ShortSeqs
<1>2. Len(<<a>>) = 1 /\ <<a>>[1] = a
  OBVIOUS
<1>3. Len(<<a, b>>) = 2 /\ <<a, b>>[1] = a /\ <<a, b>>[2] = b
  OBVIOUS
<1>4. PICK r : r = Append(<<a>>, b)
  OBVIOUS
<1>5. r \in Seq(S) /\ Len(r) = 2 /\ r[1] = a /\ r[2] = b
  <2>1. /\ r \in Seq(S) /\ Len(r) = Len(<<a>>) + 1 /\ r[Len(<<a>>) + 1] = b
        /\ \A i \in 1..Len(<<a>>) : r[i] = <<a>>[i]
    BY <1>1, <1>4, AppendProperties
  <2>2. 1 \in 1..1 /\ 1 + 1 = 2
    OBVIOUS
  <2> QED BY <2>1, <2>2, <1>2
<1>6. \A i \in 1..2 : i = 1 \/ i = 2
  OBVIOUS
<1>7. PICK p : p = <<a, b>>
  OBVIOUS
<1>8. \A i \in 1..Len(r) : r[i] = p[i]
  BY <1>3, <1>5, <1>6, <1>7
<1>9. r = p
  BY <1>1, <1>3, <1>5, <1>7, <1>8, SeqEqual
<1> QED BY <1>4, <1>7, <1>9

\* A single character, and two.
LEMMA ShortTokens ==
  ASSUME Types, ~atEnd
  PROVE  /\ Token(skipped + 1) = <<next>>
         /\ skipped + 2 <= Len(text) => Token(skipped + 2) = <<next, text[skipped + 2]>>
<1>1. /\ skipped + 1 \in 1..Len(text) /\ next = text[skipped + 1] /\ skipped \in Nat
      /\ Len(text) \in Nat /\ text \in Seq(Characters)
  BY TypesFacts, SkipsBlanks
<1>2. PICK k \in Nat : k = skipped + 1 /\ k + 1 = skipped + 2 /\ k \in 1..Len(text)
  BY <1>1
<1>3. text[k] \in Characters
  BY <1>1, <1>2, ElementOfSeq
<1>4. SubSeq(text, k, k) = <<text[k]>>
  <2>1. k \in k..Len(text) /\ k - 1 < k
    BY <1>2
  <2>2. SubSeq(text, k, k) = SubSeq(text, k, k - 1) \o <<text[k]>>
    BY <2>1, <1>1, <1>2, SubSeqRecursiveSecond
  <2>3. SubSeq(text, k, k - 1) = <<>>
    BY <2>1, <1>2, SubSeqEmpty
  <2>4. <<text[k]>> \in Seq(Characters)
    BY <1>3, ShortSeqs
  <2> QED BY <2>2, <2>3, <2>4, ConcatEmptySeq
<1>5. ASSUME k + 1 <= Len(text) PROVE SubSeq(text, k, k + 1) = <<text[k], text[k + 1]>>
  <2>1. k + 1 \in k..Len(text) /\ (k + 1) - 1 = k
    BY <1>1, <1>2, <1>5
  <2>2. SubSeq(text, k, k + 1) = SubSeq(text, k, (k + 1) - 1) \o <<text[k + 1]>>
    BY <2>1, <1>1, <1>2, SubSeqRecursiveSecond
  <2>3. <<text[k]>> \o <<text[k + 1]>> = <<text[k], text[k + 1]>>
    <3>1. text[k + 1] \in Characters
      BY <1>1, <2>1, ElementOfSeq
    <3>2. PICK a \in Characters, b \in Characters : a = text[k] /\ b = text[k + 1]
      BY <3>1, <1>3
    <3>3. <<a>> \in Seq(Characters)
      BY ShortSeqs
    <3>4. Append(<<a>>, b) = <<a>> \o <<b>>
      BY <3>3, AppendIsConcat
    <3>5. Append(<<a>>, b) = <<a, b>>
      BY AppendsPair
    <3> QED BY <3>2, <3>4, <3>5
  <2> QED BY <2>1, <2>2, <2>3, <1>4
<1> QED BY <1>1, <1>2, <1>4, <1>5 DEF Token

-----------------------------------------------------------------------------
LEMMA WrittenNext == Types /\ Types' /\ AllWritten /\ [Next]_vars => AllWritten'
<1> SUFFICES ASSUME Types, Types', AllWritten, [Next]_vars PROVE AllWritten'
  OBVIOUS
<1>0. /\ text \in Seq(Characters) /\ ix \in Nat /\ ix <= Len(text) /\ ix \in 0..Len(text)
      /\ Len(text) \in Nat
      /\ skipped \in Nat /\ ix <= skipped /\ skipped <= Len(text)
      /\ \A k \in ix + 1..skipped : text[k] \in Blanks
      /\ ~atEnd => /\ next = text[skipped + 1] /\ next \in Characters \ Blanks
                   /\ skipped + 1 \in 0..Len(text)
  BY TypesFacts, SkipsBlanks
<1>1. CASE ParseAssertFails
  BY <1>1, StopsWritten DEF ParseAssertFails, Abort
<1>2. CASE ParseNothing
  <2>1. \A k \in ix + 1..Len(text) : text[k] \in Blanks
    BY <1>0, <1>2 DEF ParseNothing, atEnd
  <2>2. Counts
    BY <1>2 DEF ParseNothing, Counts
  <2> QED BY <1>0, <1>2, <2>1, <2>2, SkipWritten DEF ParseNothing, Return
<1>3. CASE ParseList
  <2>0. /\ pc = "parse" /\ HasNext /\ ~atEnd /\ text' = text /\ next \in Opens
        /\ ix' = skipped + 1 /\ pc' = "list" /\ Call("list", next)
    BY <1>3 DEF ParseList, Parsing
  <2>1. skipped + 1 \in skipped + 1..Len(text)
    BY <1>0, <2>0
  <2>2. \A k \in skipped + 1..skipped + 1 : text[k] \notin Blanks
    BY <1>0, <2>0
  <2>3. Round(Opener([fn |-> "list", mark |-> next, items |-> <<>>])) = Round(Token(skipped + 1))
    <3>1. Opener([fn |-> "list", mark |-> next, items |-> <<>>]) = <<"(">>
      BY DEF Opener
    <3>2. Round(<<"(">>) = Round(<<next>>)
      BY <2>0 DEF Round, Opens
    <3> QED BY <3>1, <3>2, <2>0, ShortTokens
  <2> QED BY <2>0, <2>1, <2>2, <2>3, CallWritten
<1>4. CASE ParseFixnum
  <2>0. /\ pc = "parse" /\ HasNext /\ ~atEnd /\ UNCHANGED <<text, stack>> /\ next \in Digits
    BY <1>4 DEF ParseFixnum, Parsing
  <2>1. PICK end \in skipped + 1..Len(text) :
          /\ \A k \in skipped + 2..end : text[k] \in Digits
          /\ ix' = end
          /\ Return(IF end = Len(text) THEN Unread ELSE Number(Token(end)))
    <3>1. /\ ReadWhile(Digits, TRUE, skipped + 1) \in skipped + 1..Len(text)
          /\ \A k \in (skipped + 1) + 1..ReadWhile(Digits, TRUE, skipped + 1) :
               (text[k] \in Digits) = TRUE
      BY <1>0, <2>0, ReadWhileStops
    <3>2. (skipped + 1) + 1 = skipped + 2
      BY <1>0
    <3> QED BY <3>1, <3>2, <1>4 DEF ParseFixnum
  <2>2. CASE end = Len(text)
    <3>1. ~Counts' /\ result' = Unread /\ pc' = "return"
      <4>1. result' = Unread /\ pc' = "return" /\ ix' = Len(text) /\ text' = text
        BY <2>0, <2>1, <2>2 DEF Return
      <4>2. ~HasNext'
        BY <4>1, <1>0 DEF HasNext
      <4>3. Unread # NoDatum
        BY DEF Unread, NoDatum
      <4> QED BY <4>1, <4>2, <4>3 DEF Counts
    <3>2. NoMark(Unread)
      BY DEF NoMark, Unread, Symbol
    <3> QED BY <3>1, <3>2, <2>0 DEF AllWritten
  <2>3. CASE end # Len(text)
    <3>1. \A k \in skipped + 1..end : text[k] \notin Blanks
      <4>1. \A k \in skipped + 1..end : k = skipped + 1 \/ k \in skipped + 2..end
        BY <1>0
      <4>2. \A c \in Digits : c \notin Blanks
        BY DEF Digits, Blanks
      <4> QED BY <4>1, <4>2, <1>0, <2>0, <2>1
    <3>2. Token(end) \in Seq(Characters)
      BY <1>0, TokenIsText
    <3>3. Show(Len(text), Number(Token(end))) = Token(end)
      BY <3>2, <1>0, ShowsToken
    <3>4. NoMark(Number(Token(end))) /\ Number(Token(end)) # NoDatum
      BY DEF NoMark, Number, Symbol, NoDatum
    <3> QED BY <3>1, <3>3, <3>4, <2>0, <2>1, <2>3, TokenWritten
  <2> QED BY <2>2, <2>3
<1>5. CASE ParseQuote
  <2>1. CASE next = "," /\ skipped + 1 = Len(text)
    BY <2>1, <1>5, StopsWritten DEF ParseQuote, Abort
  <2>2. CASE ~(next = "," /\ skipped + 1 = Len(text))
    <3>0. /\ pc = "parse" /\ HasNext /\ ~atEnd /\ text' = text /\ next \in Quotes /\ pc' = "parse"
      BY <2>2, <1>5 DEF ParseQuote, Parsing
    <3>1. CASE next = "," /\ text[skipped + 2] = "@"
      <4>1. Call("quote", ",@") /\ ix' = skipped + 2
        BY <2>2, <3>1, <1>5 DEF ParseQuote
      <4>2. skipped + 2 \in skipped + 1..Len(text) /\ skipped + 2 <= Len(text)
        <5>1. skipped + 1 # Len(text)
          BY <2>2, <3>1
        <5>2. skipped + 1 <= Len(text)
          BY <1>0, <3>0
        <5> QED BY <5>1, <5>2, <1>0
      <4>3. \A k \in skipped + 1..skipped + 2 : text[k] \notin Blanks
        <5>1. \A k \in skipped + 1..skipped + 2 : k = skipped + 1 \/ k = skipped + 2
          BY <1>0
        <5> QED BY <5>1, <1>0, <3>0, <3>1 DEF Blanks
      <4>4. Opener([fn |-> "quote", mark |-> ",@", items |-> <<>>]) = Token(skipped + 2)
        BY <4>2, <3>0, <3>1, ShortTokens DEF Opener
      <4> QED BY <4>1, <4>2, <4>3, <4>4, <3>0, CallWritten DEF Marks
    <3>2. CASE ~(next = "," /\ text[skipped + 2] = "@")
      <4>1. Call("quote", next) /\ ix' = skipped + 1
        BY <2>2, <3>2, <1>5 DEF ParseQuote
      <4>2. skipped + 1 \in skipped + 1..Len(text)
        BY <1>0, <3>0
      <4>3. \A k \in skipped + 1..skipped + 1 : text[k] \notin Blanks
        BY <1>0, <3>0
      <4>4. Opener([fn |-> "quote", mark |-> next, items |-> <<>>]) = Token(skipped + 1)
        BY <1>0, <3>0, ShortTokens DEF Opener, Characters
      <4> QED BY <4>1, <4>2, <4>3, <4>4, <3>0, CallWritten DEF Marks
    <3> QED BY <3>1, <3>2
  <2> QED BY <2>1, <2>2
<1>6. CASE ParseAtom
  <2>1. CASE next = "#" /\ (skipped + 1 = Len(text) \/ IsBlank(text[skipped + 2]))
    BY <2>1, <1>6, StopsWritten DEF ParseAtom, Abort
  <2>2. CASE ~(next = "#" /\ (skipped + 1 = Len(text) \/ IsBlank(text[skipped + 2])))
    <3>0. /\ pc = "parse" /\ HasNext /\ ~atEnd /\ UNCHANGED <<text, stack>>
          /\ next \notin Opens \cup Digits \cup Quotes
      BY <2>2, <1>6 DEF ParseAtom, Parsing
    <3>1. CASE next = "#" /\ text[skipped + 2] \in {"t", "f"}
      <4>1. ix' = skipped + 2 /\ Return(Truth(text[skipped + 2]))
        BY <2>2, <3>1, <1>6 DEF ParseAtom
      <4>2. skipped + 2 \in skipped + 1..Len(text) /\ skipped + 2 <= Len(text)
            /\ skipped + 2 \in 1..Len(text)
        BY <1>0, <2>2, <3>0, <3>1
      <4>3. \A k \in skipped + 1..skipped + 2 : text[k] \notin Blanks
        <5>1. \A k \in skipped + 1..skipped + 2 : k = skipped + 1 \/ k = skipped + 2
          BY <1>0
        <5> QED BY <5>1, <1>0, <3>0, <3>1 DEF Blanks
      <4>4. Show(Len(text), Truth(text[skipped + 2])) = Token(skipped + 2)
        <5>1. text[skipped + 2] \in Characters
          BY <1>0, <4>2, ElementOfSeq
        <5>2. Show(Len(text), Truth(text[skipped + 2])) = <<"#", text[skipped + 2]>>
          BY <5>1, <1>0, ShowsToken
        <5> QED BY <5>2, <4>2, <3>0, <3>1, ShortTokens
      <4>5. NoMark(Truth(text[skipped + 2])) /\ Truth(text[skipped + 2]) # NoDatum
        BY DEF NoMark, Truth, Symbol, NoDatum
      <4> QED BY <4>1, <4>2, <4>3, <4>4, <4>5, <3>0, TokenWritten
    <3>2. CASE ~(next = "#" /\ text[skipped + 2] \in {"t", "f"})
      <4>1. PICK end \in skipped + 1..Len(text) :
              /\ \A k \in skipped + 2..end : text[k] \notin Delimiters
              /\ ix' = end /\ Return(Symbol(Token(end)))
        <5>1. /\ ReadWhile(Delimiters, FALSE, skipped + 1) \in skipped + 1..Len(text)
              /\ \A k \in (skipped + 1) + 1..ReadWhile(Delimiters, FALSE, skipped + 1) :
                   (text[k] \in Delimiters) = FALSE
          BY <1>0, <3>0, ReadWhileStops
        <5>2. (skipped + 1) + 1 = skipped + 2
          BY <1>0
        <5> QED BY <5>1, <5>2, <2>2, <3>2, <1>6 DEF ParseAtom
      <4>2. \A k \in skipped + 1..end : text[k] \notin Blanks
        <5>1. \A k \in skipped + 1..end : k = skipped + 1 \/ k \in skipped + 2..end
          BY <1>0
        <5> QED BY <5>1, <1>0, <3>0, <4>1 DEF Delimiters
      <4>3. Token(end) \in Seq(Characters \cup Marks)
        BY <1>0, TokenIsText
      <4>4. Show(Len(text), Symbol(Token(end))) = Token(end)
        BY <4>3, <1>0, ShowsToken
      <4>5. NoMark(Symbol(Token(end))) /\ Symbol(Token(end)) # NoDatum
        <5>1. NoMark(Symbol(Token(end)))
          BY <3>0, TokenIsNoMark
        <5> QED BY <5>1 DEF Symbol, NoDatum
      <4> QED BY <4>1, <4>2, <4>4, <4>5, <3>0, TokenWritten
    <3> QED BY <3>1, <3>2
  <2> QED BY <2>1, <2>2
<1>7. CASE ListAssertFails
  BY <1>7, StopsWritten DEF ListAssertFails, Abort
<1>8. CASE ListCloses
  BY <1>8, ListWritten
<1>9. CASE ListItem
  <2>1. Counts /\ pc = "list" /\ HasNext
    BY <1>9 DEF ListItem, Counts
  <2>2. ix <= ix' /\ ix' <= Len(text) /\ \A k \in ix + 1..ix' : text[k] \in Blanks
    <3>1. CASE atEnd
      <4>1. ix' = Len(text) - 1 /\ ix < Len(text) /\ skipped = Len(text)
        BY <3>1, <2>1, <1>0, <1>9 DEF ListItem, atEnd, HasNext
      <4>2. \A k \in ix + 1..ix' : k \in ix + 1..skipped
        BY <4>1, <1>0
      <4> QED BY <4>1, <4>2, <1>0
    <3>2. CASE ~atEnd
      BY <3>2, <1>0, <1>9 DEF ListItem
    <3> QED BY <3>1, <3>2
  <2> QED BY <1>9, <2>1, <2>2, SkipWritten DEF ListItem
<1>10. CASE ReturnToProg
  <2>0. pc = "return" /\ UNCHANGED <<text, ix>>
    BY <1>10 DEF ReturnToProg, Returning
  <2>1. CASE result = NoDatum
    <3>1. UNCHANGED stack /\ pc' = IF HasNext THEN "rejected" ELSE "done"
      BY <2>1, <1>10 DEF ReturnToProg
    <3>2. CASE HasNext
      BY <3>1, <3>2, <2>0, StopsWritten
    <3>3. CASE ~HasNext
      <4>1. \A k \in ix + 1..ix' : text[k] \in Blanks
        BY <2>0, <1>0
      <4>2. Counts
        BY <2>0, <2>1 DEF Counts
      <4> QED BY <4>1, <4>2, <3>1, <3>3, <2>0, <2>1, <1>0, SkipWritten
    <3> QED BY <3>2, <3>3
  <2>2. CASE result # NoDatum
    BY <2>0, <2>2, <1>10, ExtendWritten DEF ReturnToProg
  <2> QED BY <2>1, <2>2
<1>11. CASE ReturnToList
  <2>1. CASE result = NoDatum
    BY <2>1, <1>11, StopsWritten DEF ReturnToList, Abort
  <2>2. CASE result # NoDatum
    BY <2>2, <1>11, ExtendWritten DEF ReturnToList, Returning
  <2> QED BY <2>1, <2>2
<1>12. CASE ReturnToQuote
  <2>1. CASE result = NoDatum
    BY <2>1, <1>12, StopsWritten DEF ReturnToQuote, Abort
  <2>2. CASE result # NoDatum
    BY <2>2, <1>12, QuoteWritten
  <2> QED BY <2>1, <2>2
<1>13. CASE UNCHANGED vars
  BY <1>13 DEF vars, AllWritten, Counts, HasNext, Written
<1> QED BY <1>1, <1>2, <1>3, <1>4, <1>5, <1>6, <1>7, <1>8, <1>9, <1>10, <1>11, <1>12, <1>13 DEF Next

LEMMA AlwaysWritten == Spec => []AllWritten
<1>1. Init => AllWritten
  BY WrittenInit
<1>2. Types /\ Types' /\ AllWritten /\ [Next]_vars => AllWritten'
  BY WrittenNext
<1> QED BY <1>1, <1>2, AlwaysTypes, PTL DEF Spec

\* The text of a program that is accepted is read once from end to end.
\* A program that is accepted was read to its end.
LEMMA AlwaysReadAll == Spec => [](pc = "done" => ix = Len(text))
<1> DEFINE ReadAll == pc = "done" => ix = Len(text)
<1>1. Init => ReadAll
  BY DEF Init
<1>2. Types /\ ReadAll /\ [Next]_vars => ReadAll'
  <2> SUFFICES ASSUME Types, ReadAll, [Next]_vars, pc' = "done" PROVE ix' = Len(text')
    OBVIOUS
  <2>1. CASE ReturnToProg
    <3>1. ~HasNext /\ UNCHANGED <<text, ix>>
      BY <2>1 DEF ReturnToProg, Returning
    <3> QED BY <3>1, TypesFacts DEF HasNext
  <2>2. CASE UNCHANGED vars
    BY <2>2 DEF vars
  <2>3. CASE ParseAssertFails \/ ParseNothing \/ ParseList \/ ParseFixnum
    BY <2>3 DEF ParseAssertFails, ParseNothing, ParseList, ParseFixnum, Abort, Return
  <2>4. CASE ParseQuote \/ ParseAtom
    BY <2>4 DEF ParseQuote, ParseAtom, Parsing, Abort, Return
  <2>5. CASE ListAssertFails \/ ListCloses \/ ListItem
    BY <2>5 DEF ListAssertFails, ListCloses, ListItem, Abort, Return
  <2>6. CASE ReturnToList \/ ReturnToQuote
    BY <2>6 DEF ReturnToList, ReturnToQuote, Abort, Return
  <2> QED BY <2>1, <2>2, <2>3, <2>4, <2>5, <2>6 DEF Next
<1> QED BY <1>1, <1>2, AlwaysTypes, PTL DEF Spec

LEMMA WrittenWhenDone ==
  ASSUME Types, AllWritten, pc = "done", ix = Len(text)
  PROVE  NothingLost
<1>1. PICK m \in Nat : /\ m = Len(text)
                       /\ Front(stack) \in Seq(WrittenFrame(m)) /\ frame \in WrittenFrame(m)
                       /\ ShownStack(m, stack) = ShownStack(m, Front(stack)) \o Shown(m, frame)
                       /\ stack \in Seq(WrittenFrame(m)) /\ StackOK(stack, m)
  BY WrittenFacts
<1>2. Len(stack) = 1 /\ result = List(frame.items) /\ frame.fn = "prog"
  BY TypesFacts DEF Types, FrameOK
<1>3. Front(stack) = <<>>
  <2>1. stack # <<>>
    BY <1>1 DEF StackOK
  <2>2. Len(Front(stack)) = Len(stack) - 1
    BY <1>1, <2>1, FrontAndLast
  <2>3. Len(Front(stack)) = 0
    BY <1>2, <2>2
  <2> QED BY <1>1, <2>3, EmptySeq
<1>4. ShownStack(m, <<>>) = <<>>
  <2>1. [i \in DOMAIN <<>> |-> Shown(m, <<>>[i])] = <<>>
    OBVIOUS
  <2> QED BY <2>1, FlattenNothing DEF ShownStack
<1>5. Written = ShownItems(m, frame.items)
  <2>1. Written = ShownStack(m, stack)
    BY <1>1, WrittenNow
  <2>2. ShownItems(m, frame.items) \in Seq(Signs)
    BY <1>1, ShownFrame
  <2>3. Shown(m, frame) = <<>> \o ShownItems(m, frame.items)
    BY <1>2 DEF Shown, Opener
  <2>4. <<>> \o ShownItems(m, frame.items) = ShownItems(m, frame.items)
    BY <2>2, ConcatEmptySeq
  <2> QED BY <2>1, <2>3, <2>4, <1>1, <1>3, <1>4
<1>6. WithoutBlanks(text) = Inked(text, Len(text))
  <2>1. DOMAIN text = 1..Len(text)
    BY TypesFacts, LenProperties
  <2> QED BY <2>1 DEF WithoutBlanks, Inked, Ink
<1>7. Round(Written) = Round(Inked(text, ix))
  BY DEF AllWritten, Counts
<1>8. result.list = frame.items
  BY <1>2 DEF List
<1> QED BY <1>1, <1>5, <1>6, <1>7, <1>8 DEF NothingLost

\* The text of a program that is accepted is read once from end to end.
THEOREM NothingIsLost == Spec => []NothingLost
<1>1. Types /\ AllWritten /\ (pc = "done" => ix = Len(text)) => NothingLost
  <2>1. pc # "done" => NothingLost
    BY DEF NothingLost
  <2> QED BY <2>1, WrittenWhenDone
<1> QED BY <1>1, AlwaysTypes, AlwaysWritten, AlwaysReadAll, PTL

-----------------------------------------------------------------------------
(***************************************************************************)
(* The grammar.  What a span reads as, by what begins it.                  *)
(***************************************************************************)
ReadBody(t, u, from, to) ==
  IF from > to THEN {<<>>}
  ELSE IF t[from] \in Blanks THEN u[from + 1][to]
  ELSE IF t[from] \in Opens
       THEN UNION {Followed({List(xs) : xs \in u[from + 1][k - 1]}, u[k + 1][to]) :
                     k \in {n \in from + 1..to : t[n] = Closing(t[from])}}
  ELSE IF t[from] \in Quotes
       THEN IF from = to THEN {}
            ELSE {<<Quoted(MarkAt(t, from), Head(ys))>> \o Tail(ys) :
                    ys \in u[AfterMark(t, from)][to] \ {<<>>}}
  ELSE UNION {Followed(TokensAt(t, from, k), u[k + 1][to]) : k \in from..to}

\* u satisfies the recursion at the last m + 1 positions.
IsReadsFrom(t, m, u) ==
  \A from \in Len(t) + 1 - m..Len(t) + 1 :
    u[from] = [to \in 0..Len(t) |-> ReadBody(t, u, from, to)]

LEMMA ReadBodyAfter ==
  ASSUME NEW t, Len(t) \in Nat, NEW from \in 1..Len(t) + 1, NEW to \in 0..Len(t),
         NEW u, NEW v, \A k \in from + 1..Len(t) + 1 : u[k] = v[k]
  PROVE  ReadBody(t, u, from, to) = ReadBody(t, v, from, to)
<1>1. CASE from > to
  BY <1>1 DEF ReadBody
<1>2. CASE ~(from > to)
  <2>0. PICK h \in Nat : h = Len(t)
    OBVIOUS
  <2>1. /\ from + 1 \in from + 1..Len(t) + 1
        /\ \A k \in from..to : k + 1 \in from + 1..Len(t) + 1
        /\ \A k \in from + 1..to : k + 1 \in from + 1..Len(t) + 1
        /\ from # to => /\ from + 1 \in from + 1..Len(t) + 1
                        /\ from + 2 \in from + 1..Len(t) + 1
    BY <2>0, <1>2
  <2>2. u[from + 1] = v[from + 1]
    BY <2>1
  <2>3. \A k \in from + 1..to : u[k + 1] = v[k + 1]
    BY <2>1
  <2>4. \A k \in from..to : u[k + 1] = v[k + 1]
    BY <2>1
  <2>5. from # to => u[AfterMark(t, from)] = v[AfterMark(t, from)]
    BY <2>1, Zenon DEF AfterMark
  <2>6. CASE t[from] \in Blanks
    BY <2>6, <1>2, <2>2 DEF ReadBody
  <2>7. CASE t[from] \notin Blanks /\ t[from] \in Opens
    <3> DEFINE S == {n \in from + 1..to : t[n] = Closing(t[from])}
               L(w, k) == Followed({List(xs) : xs \in w[from + 1][k - 1]}, w[k + 1][to])
    <3>1. ReadBody(t, u, from, to) = UNION {L(u, k) : k \in S}
      BY <2>7, <1>2 DEF ReadBody
    <3>2. ReadBody(t, v, from, to) = UNION {L(v, k) : k \in S}
      BY <2>7, <1>2 DEF ReadBody
    <3>3. \A k \in S : L(u, k) = L(v, k)
      BY <2>2, <2>3
    <3> HIDE DEF L, S
    <3> QED BY <3>1, <3>2, <3>3
  <2>8. CASE t[from] \notin Blanks \cup Opens /\ t[from] \in Quotes
    BY <2>8, <1>2, <2>5 DEF ReadBody
  <2>9. CASE t[from] \notin Blanks \cup Opens \cup Quotes
    <3> DEFINE L(w, k) == Followed(TokensAt(t, from, k), w[k + 1][to])
    <3>1. ReadBody(t, u, from, to) = UNION {L(u, k) : k \in from..to}
      BY <2>9, <1>2 DEF ReadBody
    <3>2. ReadBody(t, v, from, to) = UNION {L(v, k) : k \in from..to}
      BY <2>9, <1>2 DEF ReadBody
    <3>3. \A k \in from..to : L(u, k) = L(v, k)
      BY <2>4
    <3> HIDE DEF L
    <3> QED BY <3>1, <3>2, <3>3
  <2> QED BY <2>6, <2>7, <2>8, <2>9
<1> QED BY <1>1, <1>2

LEMMA ReadsExist ==
  ASSUME NEW t, Len(t) \in Nat
  PROVE  \A m \in 0..Len(t) : \E u : IsReadsFrom(t, m, u)
<1> DEFINE T == {m \in 0..Len(t) : ~\E u : IsReadsFrom(t, m, u)}
<1> SUFFICES ASSUME T # {} PROVE FALSE
  OBVIOUS
<1>1. PICK m \in T : \A k \in T : m <= k
  <2>1. T \subseteq Nat
    OBVIOUS
  <2> HIDE DEF T
  <2> QED BY <2>1, LeastNatural
<1>2. m \in 0..Len(t) /\ ~\E u : IsReadsFrom(t, m, u)
  BY <1>1
<1>3. PICK w : \A from \in (Len(t) + 1 - m) + 1..Len(t) + 1 :
                 w[from] = [to \in 0..Len(t) |-> ReadBody(t, w, from, to)]
  <2>1. CASE m = 0
    <3>1. (Len(t) + 1 - m) + 1..Len(t) + 1 = {}
      BY <2>1
    <3> QED BY <3>1
  <2>2. CASE m # 0
    <3>1. m - 1 \in 0..Len(t) /\ m - 1 \notin T
      BY <1>1, <1>2, <2>2
    <3>2. PICK u : IsReadsFrom(t, m - 1, u)
      BY <3>1
    <3>3. Len(t) + 1 - (m - 1) = (Len(t) + 1 - m) + 1
      BY <1>2
    <3> QED BY <3>2, <3>3 DEF IsReadsFrom
  <2> QED BY <2>1, <2>2
<1>4. PICK p \in 1..Len(t) + 1 : p = Len(t) + 1 - m
  BY <1>2
<1> DEFINE g(from) == [to \in 0..Len(t) |-> ReadBody(t, w, from, to)]
           v == [from \in p..Len(t) + 1 |-> IF from = p THEN g(p) ELSE w[from]]
<1>5. \A from \in p..Len(t) + 1 : v[from] = g(from) /\ (from # p => v[from] = w[from])
  <2>1. \A from \in p..Len(t) + 1 : from = p \/ from \in p + 1..Len(t) + 1
    OBVIOUS
  <2>2. \A from \in p + 1..Len(t) + 1 : w[from] = g(from)
    BY <1>3, <1>4
  <2> QED BY <2>1, <2>2
<1> HIDE DEF v
<1>6. ASSUME NEW from \in p..Len(t) + 1
      PROVE  v[from] = [to \in 0..Len(t) |-> ReadBody(t, v, from, to)]
  <2>1. \A k \in from + 1..Len(t) + 1 : v[k] = w[k]
    <3>1. \A k \in from + 1..Len(t) + 1 : k \in p..Len(t) + 1 /\ k # p
      OBVIOUS
    <3> QED BY <3>1, <1>5
  <2>2. from \in 1..Len(t) + 1
    OBVIOUS
  <2>3. ASSUME NEW to \in 0..Len(t)
        PROVE  ReadBody(t, v, from, to) = ReadBody(t, w, from, to)
    BY <2>1, <2>2, ReadBodyAfter
  <2> QED BY <2>3, <1>5
<1>7. IsReadsFrom(t, m, v)
  BY <1>6, <1>4 DEF IsReadsFrom
<1> QED BY <1>7, <1>2

\* What the grammar says of a span, in terms of the spans after it.
LEMMA ReadingsUnfold ==
  ASSUME NEW t, Len(t) \in Nat
  PROVE  \E u : \A i \in 1..Len(t) + 1 : \A j \in 0..Len(t) :
           DataAt(t, i, j) = u[i][j] /\ DataAt(t, i, j) = ReadBody(t, u, i, j)
<1>1. PICK w : IsReadsFrom(t, Len(t), w)
  BY ReadsExist
<1>2. \A from \in 1..Len(t) + 1 : w[from] = [to \in 0..Len(t) |-> ReadBody(t, w, from, to)]
  BY <1>1 DEF IsReadsFrom
<1> DEFINE v == [from \in 1..Len(t) + 1 |-> w[from]]
<1>3. ASSUME NEW from \in 1..Len(t) + 1
      PROVE  v[from] = [to \in 0..Len(t) |-> ReadBody(t, v, from, to)]
  <2>1. \A k \in from + 1..Len(t) + 1 : v[k] = w[k]
    OBVIOUS
  <2>3. v[from] = w[from]
    OBVIOUS
  <2> HIDE DEF v
  <2>2. ASSUME NEW to \in 0..Len(t)
        PROVE  ReadBody(t, v, from, to) = ReadBody(t, w, from, to)
    BY <2>1, ReadBodyAfter
  <2> QED BY <2>2, <2>3, <1>2
<1>4. v = [from \in 1..Len(t) + 1 |-> v[from]]
  OBVIOUS
<1> HIDE DEF v
<1>5. v = [from \in 1..Len(t) + 1 |-> [to \in 0..Len(t) |-> ReadBody(t, v, from, to)]]
  BY <1>3, <1>4
<1>6. \E u : u = [from \in 1..Len(t) + 1 |-> [to \in 0..Len(t) |-> ReadBody(t, u, from, to)]]
  BY <1>5
<1>7. \E u : /\ u = [from \in 1..Len(t) + 1 |-> [to \in 0..Len(t) |-> ReadBody(t, u, from, to)]]
             /\ \A i, j : DataAt(t, i, j) = u[i][j]
  BY <1>6, ZenonT(60) DEF DataAt, ReadBody
<1>8. PICK u : /\ u = [from \in 1..Len(t) + 1 |-> [to \in 0..Len(t) |-> ReadBody(t, u, from, to)]]
               /\ \A i, j : DataAt(t, i, j) = u[i][j]
  BY <1>7
<1>9. \A i \in 1..Len(t) + 1 : \A j \in 0..Len(t) : u[i][j] = ReadBody(t, u, i, j)
  <2>1. ASSUME NEW i \in 1..Len(t) + 1, NEW j \in 0..Len(t) PROVE u[i][j] = ReadBody(t, u, i, j)
    <3>1. u[i] = [to \in 0..Len(t) |-> ReadBody(t, u, i, to)]
      BY <1>8
    <3> QED BY <3>1
  <2> QED BY <2>1
<1> WITNESS u
<1> QED BY <1>8, <1>9, Zenon

\* z is one of xs followed by one of yss.
Goes(z, xs, yss) == \E x \in xs : \E ys \in yss : z = <<x>> \o ys

LEMMA FollowedBy == \A xs, yss : \A z \in Followed(xs, yss) : Goes(z, xs, yss)
<1> SUFFICES ASSUME NEW xs, NEW yss, NEW z \in Followed(xs, yss)
             PROVE  \E x \in xs : \E ys \in yss : z = <<x>> \o ys
  BY DEF Goes
<1>1. PICK p \in xs \X yss : z = <<p[1]>> \o p[2]
  BY DEF Followed
<1>2. p[1] \in xs /\ p[2] \in yss
  OBVIOUS
<1> QED BY <1>1, <1>2

\* What a span that begins with an opening bracket, a quote mark or a token is
\* read as.
ListFirst(t, i, j, z) ==
  \E k \in i + 1..j :
    /\ t[k] = Closing(t[i])
    /\ \E xs \in DataAt(t, i + 1, k - 1) : \E ys \in DataAt(t, k + 1, j) :
         z = <<List(xs)>> \o ys

QuoteFirst(t, i, j, z) ==
  /\ i < j
  /\ \E ys \in DataAt(t, AfterMark(t, i), j) :
       ys # <<>> /\ z = <<Quoted(MarkAt(t, i), Head(ys))>> \o Tail(ys)

TokenFirst(t, i, j, z) ==
  \E k \in i..j : \E x \in TokensAt(t, i, k) : \E ys \in DataAt(t, k + 1, j) :
    z = <<x>> \o ys

\* The rules of the grammar, one for each way in which a span can begin.
LEMMA ReadsRules ==
  ASSUME NEW t, Len(t) \in Nat, NEW i \in 1..Len(t) + 1, NEW j \in 0..Len(t)
  PROVE  /\ i > j => DataAt(t, i, j) = {<<>>}
         /\ i <= j /\ t[i] \in Blanks => DataAt(t, i, j) = DataAt(t, i + 1, j)
         /\ i <= j /\ t[i] \in Opens =>
              \A z \in DataAt(t, i, j) : ListFirst(t, i, j, z)
         /\ i <= j /\ t[i] \in Quotes =>
              \A z \in DataAt(t, i, j) : QuoteFirst(t, i, j, z)
         /\ i <= j /\ t[i] \notin Blanks \cup Opens \cup Quotes =>
              \A z \in DataAt(t, i, j) : TokenFirst(t, i, j, z)
<1>1. PICK u : \A p \in 1..Len(t) + 1 : \A q \in 0..Len(t) :
                 DataAt(t, p, q) = u[p][q] /\ DataAt(t, p, q) = ReadBody(t, u, p, q)
  BY ReadingsUnfold
<1>2. DataAt(t, i, j) = ReadBody(t, u, i, j)
  BY <1>1
<1>3. i > j => DataAt(t, i, j) = {<<>>}
  BY <1>2 DEF ReadBody
<1>4. ASSUME i <= j
      PROVE  /\ i + 1 \in 1..Len(t) + 1
             /\ \A k \in i..j : k + 1 \in 1..Len(t) + 1
             /\ \A k \in i + 1..j : k + 1 \in 1..Len(t) + 1 /\ k - 1 \in 0..Len(t)
             /\ i < j => i + 2 \in 1..Len(t) + 1
  <2>1. PICK h \in Nat : h = Len(t)
    OBVIOUS
  <2> QED BY <1>4, <2>1
<1>5. ASSUME i <= j, t[i] \in Blanks PROVE DataAt(t, i, j) = DataAt(t, i + 1, j)
  <2>1. ReadBody(t, u, i, j) = u[i + 1][j]
    BY <1>5 DEF ReadBody
  <2>2. u[i + 1][j] = DataAt(t, i + 1, j)
    BY <1>1, <1>4, <1>5
  <2> QED BY <1>2, <2>1, <2>2
<1>6. ASSUME i <= j, t[i] \in Opens, NEW z \in DataAt(t, i, j)
      PROVE  ListFirst(t, i, j, z)
  <2>1. t[i] \notin Blanks
    BY <1>6 DEF Opens, Blanks
  <2>2. PICK k \in {n \in i + 1..j : t[n] = Closing(t[i])} :
          z \in Followed({List(xs) : xs \in u[i + 1][k - 1]}, u[k + 1][j])
    <3>1. ReadBody(t, u, i, j) =
            UNION {Followed({List(xs) : xs \in u[i + 1][k - 1]}, u[k + 1][j]) :
                     k \in {n \in i + 1..j : t[n] = Closing(t[i])}}
      <4>1. ~(i > j)
        BY <1>6
      <4> QED BY <4>1, <1>6, <2>1, Zenon DEF ReadBody
    <3> QED BY <3>1, <1>2, <1>6, Zenon
  <2>3. k \in i + 1..j /\ t[k] = Closing(t[i])
    OBVIOUS
  <2>4. DataAt(t, i + 1, k - 1) = u[i + 1][k - 1] /\ DataAt(t, k + 1, j) = u[k + 1][j]
    BY <1>1, <1>4, <1>6, <2>3
  <2>5. Goes(z, {List(xs) : xs \in u[i + 1][k - 1]}, u[k + 1][j])
    BY <2>2, FollowedBy, Zenon
  <2> QED BY <2>3, <2>4, <2>5 DEF Goes, ListFirst
<1>7. ASSUME i <= j, t[i] \in Quotes, NEW z \in DataAt(t, i, j)
      PROVE  QuoteFirst(t, i, j, z)
  <2>1. t[i] \notin Blanks /\ t[i] \notin Opens
    BY <1>7 DEF Opens, Blanks, Quotes
  <2>2. i # j /\ z \in {<<Quoted(MarkAt(t, i), Head(ys))>> \o Tail(ys) :
                          ys \in u[AfterMark(t, i)][j] \ {<<>>}}
    <3>1. ReadBody(t, u, i, j) =
            IF i = j THEN {} ELSE {<<Quoted(MarkAt(t, i), Head(ys))>> \o Tail(ys) :
                                     ys \in u[AfterMark(t, i)][j] \ {<<>>}}
      BY <1>7, <2>1 DEF ReadBody
    <3> QED BY <3>1, <1>2, <1>7, Zenon
  <2>3. i < j
    BY <2>2, <1>7
  <2>4. AfterMark(t, i) \in 1..Len(t) + 1
    BY <2>3, <1>4, <1>7, Zenon DEF AfterMark
  <2>5. DataAt(t, AfterMark(t, i), j) = u[AfterMark(t, i)][j]
    BY <2>4, <1>1
  <2> QED BY <2>2, <2>3, <2>5 DEF QuoteFirst
<1>8. ASSUME i <= j, t[i] \notin Blanks \cup Opens \cup Quotes, NEW z \in DataAt(t, i, j)
      PROVE  TokenFirst(t, i, j, z)
  <2>1. PICK k \in i..j : z \in Followed(TokensAt(t, i, k), u[k + 1][j])
    BY <1>2, <1>8 DEF ReadBody
  <2>2. DataAt(t, k + 1, j) = u[k + 1][j]
    BY <1>1, <1>4, <1>8
  <2>3. Goes(z, TokensAt(t, i, k), u[k + 1][j])
    BY <2>1, FollowedBy, Zenon
  <2> QED BY <2>2, <2>3 DEF Goes, TokenFirst
<1> QED BY <1>3, <1>5, <1>6, <1>7, <1>8, Zenon

LEMMA TokensAreAtoms ==
  ASSUME NEW t \in Seq(Characters), NEW i \in 1..Len(t), NEW k \in i..Len(t)
  PROVE  TokensAt(t, i, k) \subseteq Atoms
<1>0. PICK h \in Nat : h = Len(t)
  BY LenProperties
<1>1. \A p \in i..k : t[p] \in Characters
  BY <1>0, ElementOfSeq
<1>2. SubSeq(t, i, k) \in Seq(Characters)
  BY <1>0, <1>1, SubSeqProperties
<1>3. SubSeq(t, i, k) \in Seq(Characters \cup Marks)
  <2>1. Characters \subseteq Characters \cup Marks
    OBVIOUS
  <2> QED BY <2>1, <1>2, SeqMonotonic
<1>4. t[k] \in Characters
  BY <1>1
<1>5. Number(SubSeq(t, i, k)) \in Atoms
  BY <1>2 DEF Number, Atoms
<1>6. Symbol(SubSeq(t, i, k)) \in Atoms
  BY <1>3 DEF Symbol, Atoms
<1>7. Truth(t[k]) \in Atoms
  BY <1>4 DEF Truth, Atoms
<1> QED BY <1>5, <1>6, <1>7, Zenon DEF TokensAt

LEMMA Consed ==
  ASSUME NEW S, NEW x \in S, NEW s \in Seq(S)
  PROVE  /\ <<x>> \o s \in Seq(S) /\ <<x>> \o s # <<>>
         /\ Head(<<x>> \o s) = x /\ Tail(<<x>> \o s) = s
         /\ Len(<<x>> \o s) = Len(s) + 1
<1>1. <<x>> \in Seq(S) /\ Len(<<x>>) = 1 /\ <<x>>[1] = x
  OBVIOUS
<1>2. PICK c : c = <<x>> \o s
  OBVIOUS
<1>3. PICK h \in Nat : h = Len(s)
  BY LenProperties
<1>4. /\ c \in Seq(S) /\ Len(c) = h + 1 /\ c[1] = x
      /\ \A i \in 1..h : c[i + 1] = s[i]
  <2>1. c \in Seq(S) /\ Len(c) = 1 + h
    BY <1>1, <1>2, <1>3, ConcatProperties
  <2>2. \A i \in 1..1 + h : c[i] = IF i <= 1 THEN <<x>>[i] ELSE s[i - 1]
    BY <1>1, <1>2, <1>3, ConcatProperties
  <2>3. c[1] = x
    BY <2>2, <1>1
  <2>4. ASSUME NEW i \in 1..h PROVE c[i + 1] = s[i]
    <3>1. i + 1 \in 1..1 + h /\ ~(i + 1 <= 1) /\ (i + 1) - 1 = i
      BY <1>3
    <3> QED BY <3>1, <2>2
  <2> QED BY <2>1, <2>3, <2>4
<1>5. c # <<>> /\ Head(c) = x
  BY <1>4, EmptySeq, HeadTailProperties
<1>6. Tail(c) = s
  <2>1. Tail(c) \in Seq(S) /\ Len(Tail(c)) = h /\ \A i \in 1..h : Tail(c)[i] = c[i + 1]
    <3>1. /\ Tail(c) \in Seq(S) /\ Len(Tail(c)) = Len(c) - 1
          /\ \A i \in 1..Len(Tail(c)) : Tail(c)[i] = c[i + 1]
      BY <1>4, <1>5, HeadTailProperties
    <3> QED BY <3>1, <1>4
  <2> QED BY <2>1, <1>3, <1>4, SeqEqual
<1> QED BY <1>2, <1>3, <1>4, <1>5, <1>6

\* A sequence that is not empty is its head before its tail.
LEMMA Unconsed ==
  ASSUME NEW S, NEW s \in Seq(S), s # <<>>
  PROVE  Head(s) \in S /\ Tail(s) \in Seq(S) /\ s = <<Head(s)>> \o Tail(s)
<1>1. Head(s) \in S /\ Tail(s) \in Seq(S)
  BY HeadTailProperties
<1>2. s = <<Head(s)>> \o Tail(s)
  OBVIOUS
<1> QED BY <1>1, <1>2

-----------------------------------------------------------------------------
\* What the grammar reads are data.
LEMMA ReadingsTyped ==
  ASSUME NEW t \in Seq(Characters), NEW i \in 1..Len(t) + 1, NEW j \in 0..Len(t)
  PROVE  DataAt(t, i, j) \subseteq Seq(Data[Len(t) + 1 - i])
<1>0. PICK h \in Nat : h = Len(t)
  BY LenProperties
<1> DEFINE Typed(p, q) == DataAt(t, p, q) \subseteq Seq(Data[h + 1 - p])
           T == {m \in 0..h : \E q \in 0..h : ~Typed(h + 1 - m, q)}
<1>1. T = {}
  <2> SUFFICES ASSUME T # {} PROVE FALSE
    OBVIOUS
  <2>1. PICK m \in T : \A k \in T : m <= k
    <3>1. T \subseteq Nat
      OBVIOUS
    <3> HIDE DEF T
    <3> QED BY <3>1, LeastNatural
  <2>2. PICK q \in 0..h : m \in 0..h /\ ~Typed(h + 1 - m, q)
    BY <2>1
  <2>3. PICK p \in 1..h + 1 : p = h + 1 - m /\ m = h + 1 - p
    BY <2>2
  <2>4. ~(DataAt(t, p, q) \subseteq Seq(Data[m]))
    BY <2>2, <2>3
  <2>5. ASSUME p <= q
        PROVE  /\ m - 1 \in Nat /\ m \in Nat
               /\ \A k \in p + 1..h + 1 : \A r \in 0..h : DataAt(t, k, r) \subseteq Seq(Data[m - 1])
    <3>1. m - 1 \in Nat /\ m \in Nat
      BY <2>2, <2>3, <2>5
    <3>2. ASSUME NEW k \in p + 1..h + 1, NEW r \in 0..h
          PROVE  DataAt(t, k, r) \subseteq Seq(Data[m - 1])
      <4>1. PICK l \in Nat : l = h + 1 - k /\ k = h + 1 - l /\ l <= m - 1 /\ l \in 0..h /\ ~(m <= l)
        <5>1. /\ h + 1 - k \in 0..h /\ h + 1 - k <= m - 1
              /\ k = h + 1 - (h + 1 - k) /\ ~(m <= h + 1 - k)
          BY <2>3
        <5> QED BY <5>1
      <4>2. l \notin T
        BY <2>1, <4>1
      <4>3. DataAt(t, k, r) \subseteq Seq(Data[l])
        BY <4>1, <4>2
      <4>4. Data[l] \subseteq Data[m - 1]
        BY <3>1, <4>1, DataGrows
      <4>5. Seq(Data[l]) \subseteq Seq(Data[m - 1])
        BY <4>4, SeqMonotonic
      <4> QED BY <4>3, <4>5
    <3> QED BY <3>1, <3>2
  <2> SUFFICES ASSUME NEW z \in DataAt(t, p, q), z \notin Seq(Data[m]) PROVE FALSE
    BY <2>4
  <2>6. <<>> \in Seq(Data[m])
    BY EmptySeq
  <2>7. p <= q
    <3>1. p > q => DataAt(t, p, q) = {<<>>}
      BY <1>0, ReadsRules
    <3>2. ~(p > q)
      BY <3>1, <2>6
    <3> QED BY <3>2
  <2>8. /\ m - 1 \in Nat /\ m \in Nat
        /\ \A k \in p + 1..h + 1 : \A r \in 0..h : DataAt(t, k, r) \subseteq Seq(Data[m - 1])
    BY <2>5, <2>7
  <2>9. \A k \in p..q : k + 1 \in p + 1..h + 1
    BY <2>3
  <2>10. Data[m - 1] \subseteq Data[m]
    BY <2>8, DataGrows
  <2>11. Seq(Data[m - 1]) \subseteq Seq(Data[m])
    BY <2>10, SeqMonotonic
  <2>12. \A k \in p + 1..h + 1 : \A r \in 0..h : DataAt(t, k, r) \subseteq Seq(Data[m])
    BY <2>8, <2>11
  <2>13. p + 1 \in p + 1..h + 1 /\ p \in 1..Len(t) /\ p \in 1..Len(t) + 1 /\ q \in 0..Len(t)
         /\ Len(t) \in Nat
    BY <1>0, <2>3, <2>7
  <2> HIDE DEF T, Typed
  <2>14. ASSUME NEW x \in Data[m], NEW ys \in Seq(Data[m]), z = <<x>> \o ys PROVE FALSE
    BY <2>14, Consed
  <2>15. CASE t[p] \in Blanks
    <3>1. DataAt(t, p, q) = DataAt(t, p + 1, q)
      BY <2>7, <2>13, <2>15, ReadsRules
    <3> QED BY <3>1, <2>12, <2>13
  <2>16. CASE t[p] \in Opens
    <3>0. ListFirst(t, p, q, z)
      BY <2>7, <2>13, <2>16, ReadsRules
    <3>1. PICK k \in p + 1..q : \E xs \in DataAt(t, p + 1, k - 1) :
                                  \E ys \in DataAt(t, k + 1, q) : z = <<List(xs)>> \o ys
      BY <3>0 DEF ListFirst
    <3>2. PICK xs \in DataAt(t, p + 1, k - 1), ys \in DataAt(t, k + 1, q) : z = <<List(xs)>> \o ys
      BY <3>1
    <3>3. k - 1 \in 0..h /\ k + 1 \in p + 1..h + 1
      BY <2>3
    <3>4. xs \in Seq(Data[m - 1]) /\ ys \in Seq(Data[m])
      BY <3>3, <2>8, <2>12, <2>13
    <3>5. List(xs) \in Data[(m - 1) + 1]
      BY <3>4, <2>8, ListIsDatum
    <3>6. (m - 1) + 1 = m
      BY <2>8
    <3> QED BY <3>2, <3>4, <3>5, <3>6, <2>14
  <2>17. CASE t[p] \in Quotes
    <3>0. QuoteFirst(t, p, q, z)
      BY <2>7, <2>13, <2>17, ReadsRules
    <3>1. p < q /\ \E ys \in DataAt(t, AfterMark(t, p), q) :
            ys # <<>> /\ z = <<Quoted(MarkAt(t, p), Head(ys))>> \o Tail(ys)
      BY <3>0 DEF QuoteFirst
    <3>2. PICK ys \in DataAt(t, AfterMark(t, p), q) :
            ys # <<>> /\ z = <<Quoted(MarkAt(t, p), Head(ys))>> \o Tail(ys)
      BY <3>1
    <3>3. p + 2 \in p + 1..h + 1
      BY <3>1, <2>3
    <3>4. AfterMark(t, p) \in p + 1..h + 1
      BY <3>3, <2>13, Zenon DEF AfterMark
    <3>5. ys \in Seq(Data[m - 1])
      BY <3>4, <2>8
    <3>6. Head(ys) \in Data[m - 1] /\ Tail(ys) \in Seq(Data[m - 1])
      BY <3>2, <3>5, HeadTailProperties
    <3>7. MarkAt(t, p) \in Marks
      BY <2>17 DEF MarkAt, Marks
    <3>8. Quoted(MarkAt(t, p), Head(ys)) \in Data[(m - 1) + 1]
      BY <3>6, <3>7, <2>8, QuotedIsDatum
    <3>9. (m - 1) + 1 = m
      BY <2>8
    <3> QED BY <3>2, <3>6, <3>8, <3>9, <2>11, <2>14
  <2>18. CASE t[p] \notin Blanks \cup Opens \cup Quotes
    <3>0. TokenFirst(t, p, q, z)
      BY <2>7, <2>13, <2>18, ReadsRules
    <3>1. PICK k \in p..q : \E x \in TokensAt(t, p, k) :
                              \E ys \in DataAt(t, k + 1, q) : z = <<x>> \o ys
      BY <3>0 DEF TokenFirst
    <3>2. PICK x \in TokensAt(t, p, k), ys \in DataAt(t, k + 1, q) : z = <<x>> \o ys
      BY <3>1
    <3>3. k \in p..Len(t)
      BY <1>0
    <3>4. x \in Data[m]
      BY <3>3, <2>8, <2>13, TokensAreAtoms, AtomIsDatum
    <3>5. ys \in Seq(Data[m])
      BY <2>9, <2>12
    <3> QED BY <3>2, <3>4, <3>5, <2>14
  <2> QED BY <2>15, <2>16, <2>17, <2>18
<1>2. PICK l \in 0..h : l = h + 1 - i /\ i = h + 1 - l
  <2>1. h + 1 - i \in 0..h /\ i = h + 1 - (h + 1 - i)
    BY <1>0
  <2> QED BY <2>1
<1>3. l \notin T
  BY <1>1
<1>4. Typed(i, j)
  BY <1>0, <1>2, <1>3
<1> QED BY <1>0, <1>4

\* All data, however deep.
AnyDatum == UNION {Data[n] : n \in Nat}

LEMMA AnyDatumContains ==
  ASSUME NEW n \in Nat
  PROVE  Data[n] \subseteq AnyDatum /\ Seq(Data[n]) \subseteq Seq(AnyDatum)
<1>1. Data[n] \subseteq AnyDatum
  BY DEF AnyDatum
<1> QED BY <1>1, SeqMonotonic

LEMMA ReadingsAreData ==
  ASSUME NEW t \in Seq(Characters), NEW i \in 1..Len(t) + 1, NEW j \in 0..Len(t)
  PROVE  DataAt(t, i, j) \subseteq Seq(AnyDatum)
<1>1. Len(t) + 1 - i \in Nat
  BY LenProperties
<1> QED BY <1>1, ReadingsTyped, AnyDatumContains

\* Blanks before the data make no difference.
LEMMA BlanksSkipped ==
  ASSUME NEW t \in Seq(Characters), NEW i \in 1..Len(t) + 1, NEW j \in 0..Len(t),
         NEW k \in i..j + 1, \A p \in i..k - 1 : t[p] \in Blanks
  PROVE  DataAt(t, i, j) = DataAt(t, k, j)
<1>0. PICK h \in Nat : h = Len(t)
  BY LenProperties
<1> DEFINE T == {l \in i..k : DataAt(t, i, j) # DataAt(t, l, j)}
<1>1. T = {}
  <2> SUFFICES ASSUME T # {} PROVE FALSE
    OBVIOUS
  <2>1. PICK l \in T : \A n \in T : l <= n
    <3>1. T \subseteq Nat
      OBVIOUS
    <3> HIDE DEF T
    <3> QED BY <3>1, LeastNatural
  <2>2. l \in i..k /\ l # i /\ DataAt(t, i, j) # DataAt(t, l, j)
    BY <2>1
  <2>3. PICK q \in i..k - 1 : q + 1 = l /\ ~(l <= q) /\ q \in i..k
    <3>1. l - 1 \in i..k - 1 /\ (l - 1) + 1 = l /\ ~(l <= l - 1) /\ l - 1 \in i..k
      BY <2>2
    <3> QED BY <3>1
  <2>4. DataAt(t, i, j) = DataAt(t, q, j)
    BY <2>1, <2>3
  <2>5. q \in 1..Len(t) + 1 /\ q <= j /\ t[q] \in Blanks /\ Len(t) \in Nat
    BY <1>0, <2>3
  <2>6. DataAt(t, q, j) = DataAt(t, q + 1, j)
    BY <2>5, ReadsRules
  <2> QED BY <2>2, <2>3, <2>4, <2>6
<1>2. k \in i..k
  OBVIOUS
<1> QED BY <1>1, <1>2

\* The same rules with types: what the first datum is, and what follows it.
ListRead(t, i, j, z) ==
  \E k \in i + 1..j, xs \in Seq(AnyDatum), ys \in Seq(AnyDatum) :
    /\ t[k] = Closing(t[i]) /\ xs \in DataAt(t, i + 1, k - 1)
    /\ ys \in DataAt(t, k + 1, j)
    /\ List(xs) \in AnyDatum /\ z = <<List(xs)>> \o ys

LEMMA ListReadings ==
  ASSUME NEW t \in Seq(Characters), NEW i \in 1..Len(t), NEW j \in i..Len(t),
         t[i] \in Opens, NEW z \in DataAt(t, i, j)
  PROVE  ListRead(t, i, j, z)
<1>0. PICK h \in Nat : h = Len(t)
  BY LenProperties
<1>1. Len(t) \in Nat /\ i \in 1..Len(t) + 1 /\ j \in 0..Len(t) /\ i <= j
  BY <1>0
<1>2. ListFirst(t, i, j, z)
  BY <1>1, ReadsRules
<1>3. PICK k \in i + 1..j : /\ t[k] = Closing(t[i])
                            /\ \E xs \in DataAt(t, i + 1, k - 1) :
                                 \E ys \in DataAt(t, k + 1, j) : z = <<List(xs)>> \o ys
  BY <1>2 DEF ListFirst
<1>4. PICK xs \in DataAt(t, i + 1, k - 1), ys \in DataAt(t, k + 1, j) : z = <<List(xs)>> \o ys
  BY <1>3
<1>5. PICK m \in Nat : m = Len(t) + 1 - (i + 1)
  BY <1>0
<1>6. i + 1 \in 1..Len(t) + 1 /\ k - 1 \in 0..Len(t) /\ k + 1 \in 1..Len(t) + 1
  BY <1>0
<1>7. xs \in Seq(Data[m])
  BY <1>5, <1>6, ReadingsTyped
<1>8. List(xs) \in Data[m + 1] /\ m + 1 \in Nat
  BY <1>7, ListIsDatum
<1>9. List(xs) \in AnyDatum /\ xs \in Seq(AnyDatum)
  BY <1>7, <1>8, AnyDatumContains
<1>10. ys \in Seq(AnyDatum)
  BY <1>1, <1>6, ReadingsAreData
<1>11. xs \in DataAt(t, i + 1, k - 1) /\ ys \in DataAt(t, k + 1, j)
  OBVIOUS
<1> HIDE <1>2, <1>3, <1>5
<1> QED BY <1>3, <1>4, <1>9, <1>10, <1>11, Zenon DEF ListRead

LEMMA QuoteReadings ==
  ASSUME NEW t \in Seq(Characters), NEW i \in 1..Len(t), NEW j \in i..Len(t),
         t[i] \in Quotes, NEW z \in DataAt(t, i, j)
  PROVE  /\ i < j
         /\ \E y \in AnyDatum, ys \in Seq(AnyDatum) :
              /\ <<y>> \o ys \in DataAt(t, AfterMark(t, i), j)
              /\ Quoted(MarkAt(t, i), y) \in AnyDatum
              /\ z = <<Quoted(MarkAt(t, i), y)>> \o ys
<1>0. PICK h \in Nat : h = Len(t)
  BY LenProperties
<1>1. Len(t) \in Nat /\ i \in 1..Len(t) + 1 /\ j \in 0..Len(t) /\ i <= j
  BY <1>0
<1>2. QuoteFirst(t, i, j, z)
  BY <1>1, ReadsRules
<1>3. i < j
  BY <1>2 DEF QuoteFirst
<1>4. PICK zs \in DataAt(t, AfterMark(t, i), j) :
        zs # <<>> /\ z = <<Quoted(MarkAt(t, i), Head(zs))>> \o Tail(zs)
  BY <1>2 DEF QuoteFirst
<1>5. i + 1 \in 1..Len(t) + 1 /\ i + 2 \in 1..Len(t) + 1
  BY <1>0, <1>3
<1>6. AfterMark(t, i) \in 1..Len(t) + 1
  BY <1>5, Zenon DEF AfterMark
<1>7. PICK m \in Nat : m = Len(t) + 1 - AfterMark(t, i)
  BY <1>0, <1>6
<1>8. zs \in Seq(Data[m])
  BY <1>1, <1>6, <1>7, ReadingsTyped
<1>9. /\ Head(zs) \in Data[m] /\ Tail(zs) \in Seq(Data[m])
      /\ zs = <<Head(zs)>> \o Tail(zs)
  BY <1>4, <1>8, Unconsed
<1>10. MarkAt(t, i) \in Marks
  BY DEF MarkAt, Marks
<1>11. Quoted(MarkAt(t, i), Head(zs)) \in Data[m + 1] /\ m + 1 \in Nat
  BY <1>9, <1>10, QuotedIsDatum
<1>12. /\ Head(zs) \in AnyDatum /\ Tail(zs) \in Seq(AnyDatum)
       /\ Quoted(MarkAt(t, i), Head(zs)) \in AnyDatum
  BY <1>9, <1>11, AnyDatumContains
<1> QED BY <1>3, <1>4, <1>9, <1>12

TokenRead(t, i, j, z) ==
  \E k \in i..j, x \in AnyDatum, ys \in Seq(AnyDatum) :
    x \in TokensAt(t, i, k) /\ ys \in DataAt(t, k + 1, j) /\ z = <<x>> \o ys

LEMMA TokenReadings ==
  ASSUME NEW t \in Seq(Characters), NEW i \in 1..Len(t), NEW j \in i..Len(t),
         t[i] \notin Blanks \cup Opens \cup Quotes, NEW z \in DataAt(t, i, j)
  PROVE  TokenRead(t, i, j, z)
<1>0. PICK h \in Nat : h = Len(t)
  BY LenProperties
<1>1. Len(t) \in Nat /\ i \in 1..Len(t) + 1 /\ j \in 0..Len(t) /\ i <= j
  BY <1>0
<1>2. TokenFirst(t, i, j, z)
  BY <1>1, ReadsRules
<1>3. PICK k \in i..j : \E x \in TokensAt(t, i, k) :
                          \E ys \in DataAt(t, k + 1, j) : z = <<x>> \o ys
  BY <1>2 DEF TokenFirst
<1>4. PICK x \in TokensAt(t, i, k), ys \in DataAt(t, k + 1, j) : z = <<x>> \o ys
  BY <1>3
<1>5. k \in i..Len(t) /\ k + 1 \in 1..Len(t) + 1
  BY <1>0
<1>6. x \in Data[0] /\ 0 \in Nat
  BY <1>5, TokensAreAtoms, AtomIsDatum
<1>7. x \in AnyDatum /\ ys \in Seq(AnyDatum)
  BY <1>1, <1>5, <1>6, AnyDatumContains, ReadingsAreData
<1>8. x \in TokensAt(t, i, k) /\ ys \in DataAt(t, k + 1, j)
  OBVIOUS
<1> HIDE <1>2, <1>3, <1>5
<1> QED BY <1>4, <1>7, <1>8, Zenon DEF TokenRead

\* A closing bracket begins nothing, and what is no blank begins a datum.
LEMMA ClosesBeginNothing ==
  ASSUME NEW t \in Seq(Characters), NEW i \in 1..Len(t), NEW j \in i..Len(t),
         NEW z \in DataAt(t, i, j)
  PROVE  t[i] \notin Closes
<1> SUFFICES ASSUME t[i] \in Closes PROVE FALSE
  OBVIOUS
<1>1. t[i] \notin Blanks \cup Opens \cup Quotes \cup Digits \cup {"#"} /\ t[i] \in Delimiters
  BY DEF Closes, Blanks, Opens, Quotes, Digits, Delimiters
<1>2. PICK k \in i..j : \E x : x \in TokensAt(t, i, k)
  BY <1>1, TokenReadings DEF TokenRead
<1>3. i \in i..k
  BY <1>2, LenProperties
<1>4. ~IsNumber(t, i, k)
  BY <1>1, <1>3 DEF IsNumber
<1>5. ~IsAtom(t, i, k)
  BY <1>1, <1>3 DEF IsAtom
<1>6. ~IsTruth(t, i, k)
  BY <1>1 DEF IsTruth
<1> QED BY <1>2, <1>4, <1>5, <1>6 DEF TokensAt

LEMMA DatumBegins ==
  ASSUME NEW t \in Seq(Characters), NEW i \in 1..Len(t), NEW j \in i..Len(t),
         t[i] \notin Blanks
  PROVE  <<>> \notin DataAt(t, i, j)
<1> SUFFICES ASSUME NEW z \in DataAt(t, i, j), z = <<>> PROVE FALSE
  OBVIOUS
<1>1. ASSUME NEW x \in AnyDatum, NEW ys \in Seq(AnyDatum), z = <<x>> \o ys PROVE FALSE
  BY <1>1, Consed
<1>2. CASE t[i] \in Opens
  <2>1. PICK xs \in Seq(AnyDatum), ys \in Seq(AnyDatum) :
          List(xs) \in AnyDatum /\ z = <<List(xs)>> \o ys
    BY <1>2, ListReadings DEF ListRead
  <2> QED BY <2>1, <1>1
<1>3. CASE t[i] \in Quotes
  <2>1. PICK y \in AnyDatum, ys \in Seq(AnyDatum) :
          /\ <<y>> \o ys \in DataAt(t, AfterMark(t, i), j)
          /\ Quoted(MarkAt(t, i), y) \in AnyDatum
          /\ z = <<Quoted(MarkAt(t, i), y)>> \o ys
    BY <1>3, QuoteReadings
  <2> QED BY <2>1, <1>1
<1>4. CASE t[i] \notin Opens \cup Quotes
  <2>1. PICK k \in i..j, x \in AnyDatum, ys \in Seq(AnyDatum) :
          /\ x \in TokensAt(t, i, k) /\ ys \in DataAt(t, k + 1, j)
          /\ z = <<x>> \o ys
    <3>1. t[i] \notin Blanks \cup Opens \cup Quotes
      BY <1>4
    <3>2. TokenRead(t, i, j, z)
      BY <3>1, TokenReadings
    <3> QED BY <3>2, Zenon DEF TokenRead
  <2> QED BY <2>1, <1>1
<1> QED BY <1>2, <1>3, <1>4

-----------------------------------------------------------------------------
\* A program that ends in a blank.
EndsInBlank == text # <<>> /\ IsBlank(Last(text))

LEMMA LastIsBlank ==
  ASSUME text \in Seq(Characters), EndsInBlank
  PROVE  Len(text) \in Nat \ {0} /\ text[Len(text)] \in Blanks
<1>1. Len(text) \in Nat \ {0} /\ Last(text) = text[Len(text)]
  BY FrontAndLast DEF EndsInBlank
<1> QED BY <1>1 DEF EndsInBlank, IsBlank

\* ReadWhile finds the end of a token.
LEMMA TokenEnds ==
  ASSUME text \in Seq(Characters), NEW chars, NEW in \in BOOLEAN,
         NEW i \in 1..Len(text), NEW k \in i..Len(text), k # Len(text),
         \A p \in i..k : (text[p] \in chars) = in, (text[k + 1] \in chars) # in
  PROVE  ReadWhile(chars, in, i) = k
<1>0. PICK h \in Nat : h = Len(text)
  BY LenProperties
<1>1. i \in 0..Len(text)
  BY <1>0
<1>2. PICK e \in i..Len(text) : e = ReadWhile(chars, in, i)
  BY <1>1, ReadWhileStops
<1>3. /\ \A p \in i + 1..e : (text[p] \in chars) = in
      /\ e # Len(text) => (text[e + 1] \in chars) # in
  BY <1>1, <1>2, ReadWhileStops
<1>4. ~(k < e)
  <2>1. k < e => k + 1 \in i + 1..e
    BY <1>0
  <2> QED BY <2>1, <1>3
<1>5. ~(e < k)
  <2>1. e < k => e + 1 \in i..k /\ e # Len(text)
    BY <1>0
  <2> QED BY <2>1, <1>3
<1> QED BY <1>0, <1>2, <1>4, <1>5

LEMMA NumberRead ==
  ASSUME text \in Seq(Characters), EndsInBlank, ix \in 0..Len(text), ~atEnd,
         next \in Digits, NEW k \in skipped + 1..Len(text),
         NEW x \in TokensAt(text, skipped + 1, k)
  PROVE  /\ ReadWhile(Digits, TRUE, skipped + 1) = k /\ k # Len(text)
         /\ x = Number(Token(k)) /\ text[k] \notin Blanks
<1>1. skipped + 1 \in 1..Len(text) /\ next = text[skipped + 1]
  BY SkipsBlanks
<1>2. text[skipped + 1] \notin {"#"}
  BY <1>1 DEF Digits
<1>3. IsNumber(text, skipped + 1, k) /\ x = Number(Token(k))
  BY <1>1, <1>2 DEF TokensAt, IsAtom, IsTruth, Token
<1>4. \A c \in Digits : c \notin Blanks
  BY DEF Digits, Blanks
<1>5. PICK h \in Nat : h = Len(text)
  BY LenProperties
<1>6. k \in skipped + 1..k
  BY <1>1, <1>5
<1>7. text[k] \in Digits
  BY <1>3, <1>6 DEF IsNumber
<1>8. k # Len(text)
  BY <1>4, <1>7, LastIsBlank
<1>9. /\ \A p \in skipped + 1..k : (text[p] \in Digits) = TRUE
      /\ (text[k + 1] \in Digits) # TRUE
  BY <1>3, <1>8 DEF IsNumber
<1>10. ReadWhile(Digits, TRUE, skipped + 1) = k
  BY <1>1, <1>8, <1>9, TokenEnds
<1> QED BY <1>3, <1>4, <1>7, <1>8, <1>10

LEMMA AtomRead ==
  ASSUME text \in Seq(Characters), EndsInBlank, ix \in 0..Len(text), ~atEnd,
         next \notin Opens \cup Digits \cup Quotes, NEW k \in skipped + 1..Len(text),
         NEW x \in TokensAt(text, skipped + 1, k)
  PROVE  /\ text[k] \notin Blanks
         /\ IF next = "#"
            THEN /\ k = skipped + 2 /\ skipped + 1 # Len(text)
                 /\ text[k] \in {"t", "f"} /\ x = Truth(text[k])
            ELSE ReadWhile(Delimiters, FALSE, skipped + 1) = k /\ x = Symbol(Token(k))
<1>1. skipped + 1 \in 1..Len(text) /\ next = text[skipped + 1]
  BY SkipsBlanks
<1>2. PICK h \in Nat : h = Len(text)
  BY LenProperties
<1>3. skipped + 1 \in skipped + 1..k /\ k \in skipped + 1..k
  BY <1>1, <1>2
<1>4. ~IsNumber(text, skipped + 1, k)
  BY <1>1, <1>3 DEF IsNumber
<1>5. CASE next = "#"
  <2>1. IsTruth(text, skipped + 1, k) /\ x = Truth(text[k])
    BY <1>1, <1>4, <1>5 DEF TokensAt, IsAtom
  <2>2. k = skipped + 2
    <3>1. skipped \in Nat /\ (skipped + 1) + 1 = skipped + 2
      BY SkipsBlanks
    <3> QED BY <2>1, <3>1 DEF IsTruth
  <2>3. skipped + 1 # Len(text)
    BY <2>2, <1>1, <1>2, SkipsBlanks
  <2>4. text[k] \in {"t", "f"}
    BY <2>1 DEF IsTruth
  <2>5. text[k] \notin Blanks
    BY <2>4 DEF Blanks
  <2> QED BY <2>1, <2>2, <2>3, <2>4, <2>5, <1>5
<1>6. CASE next # "#"
  <2>1. IsAtom(text, skipped + 1, k) /\ x = Symbol(Token(k))
    BY <1>1, <1>4, <1>6 DEF TokensAt, IsTruth, Token
  <2>2. \A c \in Blanks : c \in Delimiters
    BY DEF Delimiters
  <2>3. text[k] \notin Delimiters
    BY <2>1, <1>3 DEF IsAtom
  <2>4. k # Len(text)
    BY <2>2, <2>3, LastIsBlank
  <2>5. /\ \A p \in skipped + 1..k : (text[p] \in Delimiters) = FALSE
        /\ (text[k + 1] \in Delimiters) # FALSE
    <3>1. /\ \A p \in skipped + 1..k : text[p] \notin Delimiters
          /\ text[k + 1] \in Delimiters
      BY <2>1, <2>4 DEF IsAtom
    <3>2. \A c : c \notin Delimiters => (c \in Delimiters) = FALSE
      OBVIOUS
    <3>3. \A c : c \in Delimiters => (c \in Delimiters) # FALSE
      OBVIOUS
    <3> QED BY <3>1, <3>2, <3>3
  <2>6. ReadWhile(Delimiters, FALSE, skipped + 1) = k
    BY <1>1, <2>4, <2>5, TokenEnds
  <2> QED BY <2>1, <2>2, <2>3, <2>6, <1>6
<1> QED BY <1>5, <1>6

\* The parser looks at the character that the next datum begins with, or that
\* the span of the innermost call ends with.
LEMMA Looks ==
  ASSUME text \in Seq(Characters), ix \in 0..Len(text),
         NEW c \in ix + 1..Len(text) + 1, NEW ys \in DataAt(text, ix + 1, c - 1),
         c <= Len(text) => text[c] \notin Blanks
  PROVE  \/ /\ skipped + 1 = c /\ ys = <<>>
            /\ atEnd <=> c = Len(text) + 1
         \/ /\ skipped + 1 \in 1..Len(text) /\ c - 1 \in skipped + 1..Len(text)
            /\ ~atEnd /\ ys # <<>> /\ ys \in DataAt(text, skipped + 1, c - 1)
            /\ next = text[skipped + 1] /\ next \notin Blanks \cup Closes
<1>0. PICK h \in Nat : h = Len(text)
  BY LenProperties
<1>1. /\ skipped \in ix..Len(text)
      /\ \A k \in ix + 1..skipped : text[k] \in Blanks
      /\ ~atEnd => /\ skipped + 1 \in 1..Len(text)
                   /\ next = text[skipped + 1]
                   /\ next \in Characters \ Blanks
  BY SkipsBlanks
<1>2. skipped + 1 <= c
  <2>1. c <= skipped => c \in ix + 1..skipped /\ c <= Len(text)
    BY <1>0, <1>1
  <2>2. ~(c <= skipped)
    BY <2>1, <1>1
  <2> QED BY <2>2, <1>0, <1>1
<1>3. ys \in DataAt(text, skipped + 1, c - 1)
  <2>1. /\ ix + 1 \in 1..Len(text) + 1 /\ c - 1 \in 0..Len(text)
        /\ skipped + 1 \in ix + 1..(c - 1) + 1 /\ (skipped + 1) - 1 = skipped
    BY <1>0, <1>1, <1>2
  <2>2. DataAt(text, ix + 1, c - 1) = DataAt(text, skipped + 1, c - 1)
    BY <2>1, <1>1, BlanksSkipped
  <2> QED BY <2>2
<1>4. CASE skipped + 1 = c
  <2>1. Len(text) \in Nat /\ skipped + 1 \in 1..Len(text) + 1 /\ c - 1 \in 0..Len(text)
        /\ skipped + 1 > c - 1
    BY <1>0, <1>1, <1>4
  <2>2. ys = <<>>
    BY <2>1, <1>3, ReadsRules
  <2>3. atEnd <=> c = Len(text) + 1
    BY <1>0, <1>1, <1>4 DEF atEnd
  <2> QED BY <2>2, <2>3, <1>4
<1>5. CASE skipped + 1 < c
  <2>1. skipped + 1 \in 1..Len(text) /\ c - 1 \in skipped + 1..Len(text) /\ skipped # Len(text)
    BY <1>0, <1>1, <1>5
  <2>2. ~atEnd
    BY <2>1 DEF atEnd
  <2>3. next = text[skipped + 1] /\ next \notin Blanks
    BY <2>2, <1>1
  <2>4. ys # <<>>
    BY <2>1, <2>3, <1>3, DatumBegins
  <2>5. next \notin Closes
    BY <2>1, <2>3, <1>3, ClosesBeginNothing
  <2> QED BY <2>1, <2>2, <2>3, <2>4, <2>5, <1>3
<1> QED BY <1>0, <1>1, <1>2, <1>4, <1>5

-----------------------------------------------------------------------------
(***************************************************************************)
(* The parser follows the grammar.  Of a reading xs of the text, each      *)
(* waiting call is still to be given the data coming[i], which end before  *)
(* close[i]; the call above it makes the first of them.                    *)
(***************************************************************************)

\* The call with frame f, which gets zs before d, is to make the first of ys,
\* which end before c.
Awaits(t, f, ys, c, zs, d) ==
  \E x \in AnyDatum, rest \in Seq(AnyDatum) :
    /\ ys = <<x>> \o rest
    /\ f.fn = "list" => /\ x = List(f.items \o zs)
                        /\ d < c /\ t[d] = Closing(f.mark)
                        /\ rest \in DataAt(t, d + 1, c - 1)
    /\ f.fn = "quote" => /\ d = c
                         /\ \E y \in AnyDatum : x = Quoted(f.mark, y) /\ zs = <<y>> \o rest

\* The innermost call is given ys.  Between two calls of parse, and at its
\* start, they are still to be read; the datum that is returned is the first.
\* Only parseProg meets the end of the text.
Given(t, i, p, r, n, ys, c) ==
  /\ p \in {"parse", "list", "return"}
  /\ i + 1 <= c
  /\ p # "return" => i < Len(t) /\ ys \in DataAt(t, i + 1, c - 1)
  /\ p = "parse" /\ n > 1 => ys # <<>>
  /\ p = "return" /\ r = NoDatum => n = 1 /\ ys = <<>> /\ i = Len(t)
  /\ p = "return" /\ r # NoDatum =>
       /\ i < Len(t)
       /\ \E rest \in DataAt(t, i + 1, c - 1) : ys = <<r>> \o rest

Plan(xs, coming, close) ==
  /\ coming \in [1..Len(stack) -> Seq(AnyDatum)]
  /\ close \in [1..Len(stack) -> 1..Len(text) + 1]
  /\ stack[1].items \o coming[1] = xs
  /\ close[1] = Len(text) + 1
  /\ \A i \in 1..Len(stack) : close[i] <= Len(text) => text[close[i]] \notin Blanks
  /\ \A i \in 1..Len(stack) - 1 :
       Awaits(text, stack[i + 1], coming[i], close[i], coming[i + 1], close[i + 1])
  /\ Given(text, ix, pc, result, Len(stack), coming[Len(stack)], close[Len(stack)])

Planned(xs) == \E coming, close : Plan(xs, coming, close)

LEMMA PlanFacts ==
  ASSUME Types, NEW xs, NEW coming, NEW close, Plan(xs, coming, close)
  PROVE  /\ Len(stack) \in Nat \ {0}
         /\ coming[Len(stack)] \in Seq(AnyDatum)
         /\ close[Len(stack)] \in ix + 1..Len(text) + 1
         /\ close[Len(stack)] <= Len(text) => text[close[Len(stack)]] \notin Blanks
         /\ Given(text, ix, pc, result, Len(stack), coming[Len(stack)], close[Len(stack)])
         /\ Len(stack) = 1 <=> frame.fn = "prog"
         /\ Len(stack) = 1 => close[1] = Len(text) + 1 /\ stack[1] = frame
         /\ Len(stack) > 1 =>
              /\ Len(stack) - 1 \in 1..Len(stack) - 1
              /\ Awaits(text, frame, coming[Len(stack) - 1], close[Len(stack) - 1],
                        coming[Len(stack)], close[Len(stack)])
<1>1. /\ Len(stack) \in Nat \ {0} /\ FrameOK(Len(stack), frame) /\ StackOK(stack, Depth)
      /\ Depth \in Nat /\ ix \in Nat /\ Len(text) \in Nat
  BY TypesFacts
<1>2. frame = stack[Len(stack)]
  BY <1>1, FrameTop
<1>3. PICK n \in Nat \ {0} : n = Len(stack)
  BY <1>1
<1>4. n \in 1..n
  BY <1>3
<1>5. coming[n] \in Seq(AnyDatum) /\ close[n] \in 1..Len(text) + 1
  BY <1>3, <1>4 DEF Plan
<1>6. Given(text, ix, pc, result, n, coming[n], close[n])
  BY <1>3 DEF Plan
<1>7. close[n] \in ix + 1..Len(text) + 1
  BY <1>1, <1>5, <1>6 DEF Given
<1>8. close[n] <= Len(text) => text[close[n]] \notin Blanks
  BY <1>3, <1>4 DEF Plan
<1>9. ASSUME n > 1
      PROVE  /\ n - 1 \in 1..n - 1
             /\ Awaits(text, frame, coming[n - 1], close[n - 1], coming[n], close[n])
  <2>1. n - 1 \in 1..n - 1 /\ (n - 1) + 1 = n
    BY <1>9
  <2>2. Awaits(text, stack[(n - 1) + 1], coming[n - 1], close[n - 1],
               coming[(n - 1) + 1], close[(n - 1) + 1])
    BY <2>1, <1>3 DEF Plan
  <2> QED BY <2>1, <2>2, <1>2, <1>3
<1>10. n = 1 => close[1] = Len(text) + 1 /\ stack[1] = frame
  BY <1>2, <1>3 DEF Plan
<1>11. n = 1 <=> frame.fn = "prog"
  BY <1>1, <1>3 DEF FrameOK
<1> QED BY <1>3, <1>5, <1>6, <1>7, <1>8, <1>9, <1>10, <1>11

\* A step that leaves the stack alone, and perhaps begins to return.
LEMMA PlanKept ==
  ASSUME Types, NEW xs, NEW coming, NEW close, Plan(xs, coming, close),
         UNCHANGED <<text, stack>>,
         Given(text', ix', pc', result', Len(stack'), coming[Len(stack)], close[Len(stack)])
  PROVE  Planned(xs)'
<1>1. Plan(xs, coming, close)'
  <2>1. Given(text', ix', pc', result', Len(stack'), coming[Len(stack')], close[Len(stack')])
    OBVIOUS
  <2> QED BY <2>1 DEF Plan
<1> QED BY <1>1 DEF Planned

LEMMA PlanCalls ==
  ASSUME Types, NEW xs, NEW coming, NEW close, Plan(xs, coming, close), UNCHANGED text,
         NEW f \in Frame(Depth), stack' = Append(stack, f),
         NEW zs \in Seq(AnyDatum), NEW d \in 1..Len(text) + 1,
         d <= Len(text) => text[d] \notin Blanks,
         Awaits(text, f, coming[Len(stack)], close[Len(stack)], zs, d),
         Given(text', ix', pc', result', Len(stack'), zs, d)
  PROVE  Planned(xs)'
<1>1. Len(stack) \in Nat \ {0} /\ StackOK(stack, Depth) /\ Depth \in Nat
  BY TypesFacts
<1>2. PICK n \in Nat \ {0} : n = Len(stack)
  BY <1>1
<1>3. PICK s : s = stack'
  OBVIOUS
<1>4. Len(s) = n + 1 /\ s[n + 1] = f /\ \A i \in 1..n : s[i] = stack[i]
  BY <1>1, <1>2, <1>3, AppendProperties DEF StackOK
<1> DEFINE c2 == [i \in 1..n + 1 |-> IF i = n + 1 THEN zs ELSE coming[i]]
           d2 == [i \in 1..n + 1 |-> IF i = n + 1 THEN d ELSE close[i]]
<1>5. /\ coming \in [1..n -> Seq(AnyDatum)] /\ close \in [1..n -> 1..Len(text) + 1]
      /\ stack[1].items \o coming[1] = xs /\ close[1] = Len(text) + 1
      /\ \A i \in 1..n : close[i] <= Len(text) => text[close[i]] \notin Blanks
      /\ \A i \in 1..n - 1 :
           Awaits(text, stack[i + 1], coming[i], close[i], coming[i + 1], close[i + 1])
  BY <1>2 DEF Plan
<1>6. \A i \in 1..n + 1 : i = n + 1 \/ i \in 1..n
  OBVIOUS
<1>7. /\ c2[n + 1] = zs /\ d2[n + 1] = d
      /\ \A i \in 1..n : c2[i] = coming[i] /\ d2[i] = close[i]
  OBVIOUS
<1>8. c2 \in [1..n + 1 -> Seq(AnyDatum)] /\ d2 \in [1..n + 1 -> 1..Len(text) + 1]
  BY <1>5, <1>6
<1> HIDE DEF c2, d2
<1>9. \A i \in 1..n + 1 : d2[i] <= Len(text) => text[d2[i]] \notin Blanks
  BY <1>5, <1>6, <1>7
<1>10. ASSUME NEW i \in 1..(n + 1) - 1
       PROVE  Awaits(text, s[i + 1], c2[i], d2[i], c2[i + 1], d2[i + 1])
  <2>1. CASE i = n
    BY <2>1, <1>2, <1>4, <1>7
  <2>2. CASE i # n
    <3>1. i \in 1..n - 1 /\ i \in 1..n /\ i + 1 \in 1..n
      BY <2>2
    <3> QED BY <3>1, <1>4, <1>5, <1>7
  <2> QED BY <2>1, <2>2
<1>11. s[1].items \o c2[1] = xs /\ d2[1] = Len(text) + 1
  <2>1. 1 \in 1..n
    OBVIOUS
  <2> QED BY <2>1, <1>4, <1>5, <1>7
<1>12. Plan(xs, c2, d2)'
  <2>1. Given(text', ix', pc', result', Len(stack'), c2[Len(stack')], d2[Len(stack')])
    BY <1>3, <1>4, <1>7
  <2>2. Len(stack') = n + 1 /\ stack' = s /\ text' = text
    BY <1>3, <1>4
  <2> QED BY <2>1, <2>2, <1>8, <1>9, <1>10, <1>11 DEF Plan
<1> QED BY <1>12 DEF Planned

LEMMA PlanReturns ==
  ASSUME Types, NEW xs, NEW coming, NEW close, Plan(xs, coming, close), UNCHANGED text,
         frame.fn # "prog", stack' = Front(stack),
         Given(text', ix', pc', result', Len(stack'), coming[Len(stack) - 1], close[Len(stack) - 1])
  PROVE  Planned(xs)'
<1>1. Len(stack) \in Nat \ {0} /\ StackOK(stack, Depth) /\ Depth \in Nat
  BY TypesFacts
<1>2. PICK n \in Nat : n = Len(stack) - 1
  <2>1. PICK h \in Nat \ {0} : h = Len(stack)
    BY <1>1
  <2>2. h - 1 \in Nat
    OBVIOUS
  <2> QED BY <2>1, <2>2
<1>3. PICK s : s = stack'
  OBVIOUS
<1>4. n # 0 /\ Len(s) = n /\ \A i \in 1..n : s[i] = stack[i]
  <2>1. /\ Len(s) = Len(stack) - 1 /\ Len(stack) > 1
        /\ \A i \in 1..Len(stack) - 1 : s[i] = stack[i]
    BY <1>1, <1>3, Popped DEF frame
  <2>2. PICK h \in Nat : h = Len(stack)
    BY <1>1
  <2> QED BY <2>1, <2>2, <1>2
<1>5. Len(stack) = n + 1
  BY <1>1, <1>2
<1> DEFINE c2 == [i \in 1..n |-> coming[i]]
           d2 == [i \in 1..n |-> close[i]]
<1>6. /\ coming \in [1..n + 1 -> Seq(AnyDatum)] /\ close \in [1..n + 1 -> 1..Len(text) + 1]
      /\ stack[1].items \o coming[1] = xs /\ close[1] = Len(text) + 1
      /\ \A i \in 1..n + 1 : close[i] <= Len(text) => text[close[i]] \notin Blanks
      /\ \A i \in 1..(n + 1) - 1 :
           Awaits(text, stack[i + 1], coming[i], close[i], coming[i + 1], close[i + 1])
  BY <1>5 DEF Plan
<1>7. \A i \in 1..n : c2[i] = coming[i] /\ d2[i] = close[i] /\ i \in 1..n + 1
  OBVIOUS
<1>8. c2 \in [1..n -> Seq(AnyDatum)] /\ d2 \in [1..n -> 1..Len(text) + 1]
  BY <1>6, <1>7
<1> HIDE DEF c2, d2
<1>9. \A i \in 1..n : d2[i] <= Len(text) => text[d2[i]] \notin Blanks
  BY <1>6, <1>7
<1>10. ASSUME NEW i \in 1..n - 1
       PROVE  Awaits(text, s[i + 1], c2[i], d2[i], c2[i + 1], d2[i + 1])
  <2>1. i \in 1..(n + 1) - 1 /\ i \in 1..n /\ i + 1 \in 1..n
    OBVIOUS
  <2> QED BY <2>1, <1>4, <1>6, <1>7
<1>11. s[1].items \o c2[1] = xs /\ d2[1] = Len(text) + 1
  <2>1. 1 \in 1..n
    BY <1>4
  <2> QED BY <2>1, <1>4, <1>6, <1>7
<1>12. n \in 1..n
  BY <1>4
<1>13. Plan(xs, c2, d2)'
  <2>1. Given(text', ix', pc', result', Len(stack'), c2[Len(stack')], d2[Len(stack')])
    BY <1>2, <1>3, <1>4, <1>7, <1>12
  <2>2. Len(stack') = n /\ stack' = s /\ text' = text
    BY <1>3, <1>4
  <2> QED BY <2>1, <2>2, <1>8, <1>9, <1>10, <1>11 DEF Plan
<1> QED BY <1>13 DEF Planned

LEMMA AppendThen ==
  ASSUME NEW S, NEW a \in Seq(S), NEW x \in S, NEW b \in Seq(S)
  PROVE  Append(a, x) \o b = a \o (<<x>> \o b)
<1>1. Append(a, x) = a \o <<x>> /\ <<x>> \in Seq(S)
  BY AppendIsConcat
<1>2. (a \o <<x>>) \o b = a \o (<<x>> \o b)
  BY <1>1, ConcatAssociative
<1> QED BY <1>1, <1>2

LEMMA ItemsAreData ==
  ASSUME Types
  PROVE  /\ frame.items \in Seq(AnyDatum)
         /\ pc = "return" /\ result # NoDatum => result \in AnyDatum
<1>1. frame \in Frame(Depth) /\ Depth \in Nat
  BY TypesFacts
<1>2. frame.items \in Seq(Data[Depth])
  BY <1>1 DEF Frame
<1> QED BY <1>1, <1>2, AnyDatumContains DEF Types

\* The return to a loop.
LEMMA PlanExtends ==
  ASSUME Types, NEW xs, NEW coming, NEW close, Plan(xs, coming, close), UNCHANGED text,
         pc = "return", result # NoDatum, frame.fn # "quote", stack' = Extended,
         NEW zs \in Seq(AnyDatum), coming[Len(stack)] = <<result>> \o zs,
         Given(text', ix', pc', result', Len(stack'), zs, close[Len(stack)])
  PROVE  Planned(xs)'
<1>1. Len(stack) \in Nat \ {0} /\ StackOK(stack, Depth) /\ Depth \in Nat
  BY TypesFacts
<1>2. PICK n \in Nat \ {0} : n = Len(stack)
  BY <1>1
<1>3. PICK s : s = stack'
  OBVIOUS
<1>4. PICK f : f = [fn |-> frame.fn, mark |-> frame.mark, items |-> Append(frame.items, result)]
  OBVIOUS
<1>5. f.fn = frame.fn /\ f.mark = frame.mark /\ f.items = Append(frame.items, result)
  BY <1>4
<1>6. result \in Data[Depth]
  BY DEF Types
<1>7. Len(s) = n /\ s[n] = f /\ \A i \in 1..n - 1 : s[i] = stack[i]
  <2>1. /\ Len(Extended) = Len(stack) /\ Last(Extended) = f
        /\ \A i \in 1..Len(stack) - 1 : Extended[i] = stack[i]
    BY <1>1, <1>4, <1>6, Extends
  <2> QED BY <2>1, <1>2, <1>3 DEF Last
<1>8. /\ Len(stack) = 1 <=> frame.fn = "prog"
      /\ Len(stack) = 1 => close[1] = Len(text) + 1 /\ stack[1] = frame
      /\ Len(stack) > 1 => Awaits(text, frame, coming[Len(stack) - 1], close[Len(stack) - 1],
                                  coming[Len(stack)], close[Len(stack)])
  BY PlanFacts
<1>9. frame.items \in Seq(AnyDatum) /\ result \in AnyDatum
  BY ItemsAreData
<1>10. frame.items \o (<<result>> \o zs) = f.items \o zs
  <2>1. PICK a \in Seq(AnyDatum), x \in AnyDatum : a = frame.items /\ x = result
    BY <1>9
  <2>2. Append(a, x) \o zs = a \o (<<x>> \o zs)
    BY AppendThen
  <2> QED BY <2>1, <2>2, <1>5
<1> DEFINE c2 == [i \in 1..n |-> IF i = n THEN zs ELSE coming[i]]
<1>11. /\ coming \in [1..n -> Seq(AnyDatum)] /\ close \in [1..n -> 1..Len(text) + 1]
       /\ stack[1].items \o coming[1] = xs /\ close[1] = Len(text) + 1
       /\ \A i \in 1..n : close[i] <= Len(text) => text[close[i]] \notin Blanks
       /\ \A i \in 1..n - 1 :
            Awaits(text, stack[i + 1], coming[i], close[i], coming[i + 1], close[i + 1])
  BY <1>2 DEF Plan
<1>12. /\ c2[n] = zs /\ \A i \in 1..n - 1 : c2[i] = coming[i]
  OBVIOUS
<1>13. c2 \in [1..n -> Seq(AnyDatum)]
  BY <1>11
<1> HIDE DEF c2
<1>14. ASSUME n > 1
       PROVE  Awaits(text, f, coming[n - 1], close[n - 1], zs, close[n])
  <2>1. Awaits(text, frame, coming[n - 1], close[n - 1], <<result>> \o zs, close[n])
    BY <1>2, <1>8, <1>14
  <2>2. frame.fn # "prog"
    BY <1>2, <1>8, <1>14
  <2>3. PICK x \in AnyDatum, rest \in Seq(AnyDatum) :
          /\ coming[n - 1] = <<x>> \o rest
          /\ frame.fn = "list" => /\ x = List(frame.items \o (<<result>> \o zs))
                                  /\ close[n] < close[n - 1]
                                  /\ text[close[n]] = Closing(frame.mark)
                                  /\ rest \in DataAt(text, close[n] + 1, close[n - 1] - 1)
    BY <2>1 DEF Awaits
  <2> QED BY <2>3, <1>5, <1>10 DEF Awaits
<1>15. ASSUME NEW i \in 1..n - 1
       PROVE  Awaits(text, s[i + 1], c2[i], close[i], c2[i + 1], close[i + 1])
  <2>1. CASE i = n - 1
    <3>1. i + 1 = n /\ n > 1
      BY <2>1
    <3> QED BY <3>1, <2>1, <1>7, <1>12, <1>14
  <2>2. CASE i # n - 1
    <3>1. i + 1 \in 1..n - 1
      BY <2>2
    <3> QED BY <3>1, <1>7, <1>11, <1>12
  <2> QED BY <2>1, <2>2
<1>16. s[1].items \o c2[1] = xs
  <2>1. CASE n = 1
    BY <2>1, <1>2, <1>7, <1>8, <1>10, <1>11, <1>12
  <2>2. CASE n # 1
    <3>1. 1 \in 1..n - 1
      BY <2>2
    <3> QED BY <3>1, <1>7, <1>11, <1>12
  <2> QED BY <2>1, <2>2
<1>17. Plan(xs, c2, close)'
  <2>1. Given(text', ix', pc', result', Len(stack'), c2[Len(stack')], close[Len(stack')])
    BY <1>2, <1>3, <1>7, <1>12
  <2>2. Len(stack') = n /\ stack' = s /\ text' = text
    BY <1>3, <1>7
  <2> QED BY <2>1, <2>2, <1>11, <1>13, <1>15, <1>16 DEF Plan
<1> QED BY <1>17 DEF Planned

\* What the parser looks at, when it is about to read.
LEMMA PlanLooks ==
  ASSUME Types, NEW xs, NEW coming, NEW close, Plan(xs, coming, close), pc \in {"parse", "list"}
  PROVE  /\ HasNext
         /\ Len(stack) \in Nat \ {0}
         /\ coming[Len(stack)] \in Seq(AnyDatum)
         /\ close[Len(stack)] \in 1..Len(text) + 1
         /\ pc = "list" => Len(stack) > 1
         /\ pc = "parse" /\ Len(stack) > 1 => coming[Len(stack)] # <<>>
         /\ Len(stack) = 1 => close[Len(stack)] = Len(text) + 1
         /\ \/ /\ skipped + 1 = close[Len(stack)] /\ coming[Len(stack)] = <<>>
               /\ atEnd <=> close[Len(stack)] = Len(text) + 1
            \/ /\ skipped + 1 \in 1..Len(text)
               /\ close[Len(stack)] - 1 \in skipped + 1..Len(text)
               /\ ~atEnd /\ coming[Len(stack)] # <<>>
               /\ coming[Len(stack)] \in DataAt(text, skipped + 1, close[Len(stack)] - 1)
               /\ next = text[skipped + 1] /\ next \notin Blanks \cup Closes
<1>1. PICK n, ys, c : n = Len(stack) /\ ys = coming[Len(stack)] /\ c = close[Len(stack)]
  OBVIOUS
<1>2. /\ n \in Nat \ {0} /\ ys \in Seq(AnyDatum) /\ c \in ix + 1..Len(text) + 1
      /\ c <= Len(text) => text[c] \notin Blanks
      /\ Given(text, ix, pc, result, n, ys, c)
      /\ n = 1 <=> frame.fn = "prog"
      /\ n = 1 => close[1] = Len(text) + 1
  BY <1>1, PlanFacts
<1>3. ix < Len(text) /\ ys \in DataAt(text, ix + 1, c - 1) /\ (pc = "parse" /\ n > 1 => ys # <<>>)
  BY <1>2 DEF Given
<1>4. pc = "list" => n > 1
  BY <1>2 DEF Types
<1>5. text \in Seq(Characters) /\ ix \in 0..Len(text) /\ ix \in Nat /\ Len(text) \in Nat
  BY TypesFacts
<1>6. \/ /\ skipped + 1 = c /\ ys = <<>>
         /\ atEnd <=> c = Len(text) + 1
      \/ /\ skipped + 1 \in 1..Len(text) /\ c - 1 \in skipped + 1..Len(text)
         /\ ~atEnd /\ ys # <<>> /\ ys \in DataAt(text, skipped + 1, c - 1)
         /\ next = text[skipped + 1] /\ next \notin Blanks \cup Closes
  BY <1>2, <1>3, <1>5, Looks
<1>7. c \in 1..Len(text) + 1
  BY <1>2, <1>5
<1>8. HasNext
  BY <1>3 DEF HasNext
<1>9. n = 1 => c = Len(text) + 1
  BY <1>1, <1>2
<1> QED BY <1>1, <1>2, <1>3, <1>4, <1>6, <1>7, <1>8, <1>9

\* parse reads a character that begins the first of the data to be read.
LEMMA PlanParses ==
  ASSUME Types, NEW xs, NEW coming, NEW close, Plan(xs, coming, close), pc = "parse", ~atEnd
  PROVE  /\ Len(stack) \in Nat \ {0}
         /\ close[Len(stack)] \in 1..Len(text) + 1
         /\ skipped + 1 \in 1..Len(text)
         /\ close[Len(stack)] - 1 \in skipped + 1..Len(text)
         /\ coming[Len(stack)] \in DataAt(text, skipped + 1, close[Len(stack)] - 1)
         /\ next = text[skipped + 1] /\ next \notin Blanks \cup Closes
<1>1. PICK h \in Nat \ {0} : h = Len(stack)
  BY TypesFacts
<1>2. Len(stack) = 1 \/ Len(stack) > 1
  BY <1>1
<1> QED BY <1>2, PlanLooks

-----------------------------------------------------------------------------
\* One lemma for each action that is taken while the plan holds.
PlanNow(xs, coming, close) ==
  /\ Types /\ EndsInBlank
  /\ Plan(xs, coming, close)

\* A token is read: the datum it is begins what is to be read.
LEMMA PlanToken ==
  ASSUME NEW xs, NEW coming, NEW close, PlanNow(xs, coming, close),
         pc = "parse", ~atEnd, UNCHANGED <<text, stack>>,
         NEW k \in skipped + 1..close[Len(stack)] - 1, NEW x,
         NEW ys \in DataAt(text, k + 1, close[Len(stack)] - 1),
         coming[Len(stack)] = <<x>> \o ys, text[k] \notin Blanks,
         ix' = k, pc' = "return", result' = x, x # NoDatum
  PROVE  Planned(xs)'
<1>1. Types /\ EndsInBlank /\ Plan(xs, coming, close)
  BY DEF PlanNow
<1>2. /\ close[Len(stack)] \in 1..Len(text) + 1
      /\ skipped + 1 \in 1..Len(text)
  BY <1>1, PlanParses
<1>3. Len(text) \in Nat \ {0} /\ text[Len(text)] \in Blanks
  BY <1>1, LastIsBlank, TypesFacts
<1>4. k \in 1..Len(text) /\ k # Len(text) /\ k + 1 <= close[Len(stack)]
  BY <1>2, <1>3
<1>5. k < Len(text)
  BY <1>3, <1>4
<1>6. Given(text, k, "return", x, Len(stack), coming[Len(stack)], close[Len(stack)])
  BY <1>4, <1>5 DEF Given
<1>7. Given(text', ix', pc', result', Len(stack'), coming[Len(stack)], close[Len(stack)])
  BY <1>6
<1> QED BY <1>1, <1>7, PlanKept

LEMMA ReadsNothing ==
  ASSUME NEW xs, NEW coming, NEW close, PlanNow(xs, coming, close), ParseNothing
  PROVE  Planned(xs)'
<1>1. Types /\ Plan(xs, coming, close)
  BY DEF PlanNow
<1>2. pc = "parse" /\ atEnd /\ ix' = Len(text) /\ pc' = "return" /\ result' = NoDatum
      /\ UNCHANGED <<text, stack>>
  BY DEF ParseNothing, Return
<1>3. PICK h \in Nat \ {0} : h = Len(stack)
  BY TypesFacts, <1>1
<1>4. /\ coming[Len(stack)] = <<>> /\ close[Len(stack)] = Len(text) + 1
      /\ pc = "parse" /\ Len(stack) > 1 => coming[Len(stack)] # <<>>
  BY <1>1, <1>2, PlanLooks
<1>5. Len(stack) = 1
  BY <1>2, <1>3, <1>4
<1>6. Given(text, Len(text), "return", NoDatum, Len(stack), coming[Len(stack)], close[Len(stack)])
  BY <1>4, <1>5, TypesFacts, <1>1 DEF Given
<1>7. Given(text', ix', pc', result', Len(stack'), coming[Len(stack)], close[Len(stack)])
  BY <1>2, <1>6
<1> QED BY <1>1, <1>2, <1>7, PlanKept

LEMMA ReadsList ==
  ASSUME NEW xs, NEW coming, NEW close, PlanNow(xs, coming, close), ParseList
  PROVE  Planned(xs)'
<1>1. Types /\ EndsInBlank /\ Plan(xs, coming, close)
  BY DEF PlanNow
<1>2. /\ pc = "parse" /\ ~atEnd /\ next \in Opens /\ ix' = skipped + 1 /\ pc' = "list"
      /\ Call("list", next) /\ UNCHANGED <<text, result>>
  BY DEF ParseList, Parsing
<1>3. PICK n \in Nat \ {0} : n = Len(stack)
  BY TypesFacts, <1>1
<1>4. /\ close[n] \in 1..Len(text) + 1
      /\ skipped + 1 \in 1..Len(text)
      /\ close[n] - 1 \in skipped + 1..Len(text)
      /\ coming[n] \in DataAt(text, skipped + 1, close[n] - 1)
      /\ next = text[skipped + 1]
  BY <1>1, <1>2, <1>3, PlanParses
<1>5. text \in Seq(Characters) /\ Len(text) \in Nat /\ skipped \in Nat /\ Depth \in Nat
  BY <1>1, TypesFacts
<1>6. PICK k \in (skipped + 1) + 1..close[n] - 1, zs \in Seq(AnyDatum), ys \in Seq(AnyDatum) :
        /\ text[k] = Closing(text[skipped + 1]) /\ zs \in DataAt(text, (skipped + 1) + 1, k - 1)
        /\ ys \in DataAt(text, k + 1, close[n] - 1)
        /\ List(zs) \in AnyDatum /\ coming[n] = <<List(zs)>> \o ys
  <2>1. PICK i, c, z : i = skipped + 1 /\ c = close[n] - 1 /\ z = coming[n]
    OBVIOUS
  <2>2. /\ i \in 1..Len(text) /\ c \in i..Len(text) /\ z \in DataAt(text, i, c)
        /\ text[i] \in Opens
    BY <2>1, <1>2, <1>4
  <2>3. ListRead(text, i, c, z)
    BY <2>2, <1>5, ListReadings
  <2>4. ListRead(text, skipped + 1, close[n] - 1, coming[n])
    BY <2>1, <2>3
  <2> QED BY <2>4 DEF ListRead
<1>7. PICK f : f = [fn |-> "list", mark |-> next, items |-> <<>>]
  OBVIOUS
<1>8. /\ f \in Frame(Depth) /\ f.fn = "list" /\ f.mark = next /\ f.items = <<>>
      /\ stack' = Append(stack, f)
  BY <1>2, <1>7, EmptySeq DEF Frame, Call
<1>9. <<>> \o zs = zs
  OBVIOUS
<1>10. /\ k \in 1..Len(text) + 1 /\ k < close[n]
       /\ (skipped + 1) + 1 <= k /\ skipped + 1 < Len(text)
  BY <1>4, <1>5, <1>6
<1>11. text[k] \notin Blanks
  BY <1>6 DEF Closing, Blanks
<1>12. Awaits(text, f, coming[n], close[n], zs, k)
  <2>1. List(zs) = List(f.items \o zs) /\ text[k] = Closing(f.mark)
    BY <1>4, <1>6, <1>8, <1>9
  <2>2. f.fn # "quote"
    BY <1>8
  <2> QED BY <2>1, <2>2, <1>6, <1>10 DEF Awaits
<1>13. Given(text, skipped + 1, "list", result, Len(stack'), zs, k)
  BY <1>6, <1>10 DEF Given
<1>14. Given(text', ix', pc', result', Len(stack'), zs, k)
  BY <1>2, <1>13
<1> QED BY <1>1, <1>2, <1>3, <1>6, <1>8, <1>10, <1>11, <1>12, <1>14, PlanCalls

LEMMA ReadsFixnum ==
  ASSUME NEW xs, NEW coming, NEW close, PlanNow(xs, coming, close), ParseFixnum
  PROVE  Planned(xs)'
<1>1. Types /\ EndsInBlank /\ Plan(xs, coming, close)
  BY DEF PlanNow
<1>2. pc = "parse" /\ ~atEnd /\ next \in Digits /\ UNCHANGED <<text, stack>>
  BY DEF ParseFixnum, Parsing
<1>3. /\ close[Len(stack)] \in 1..Len(text) + 1
      /\ skipped + 1 \in 1..Len(text)
      /\ close[Len(stack)] - 1 \in skipped + 1..Len(text)
      /\ coming[Len(stack)] \in DataAt(text, skipped + 1, close[Len(stack)] - 1)
      /\ next = text[skipped + 1] /\ next \notin Blanks \cup Closes
  BY <1>1, <1>2, PlanParses
<1>4. text \in Seq(Characters) /\ Len(text) \in Nat /\ ix \in 0..Len(text)
  BY <1>1, TypesFacts
<1>5. text[skipped + 1] \notin Blanks \cup Opens \cup Quotes
  BY <1>2, <1>3 DEF Digits, Blanks, Opens, Quotes
<1>6. PICK k \in skipped + 1..close[Len(stack)] - 1, x \in AnyDatum, ys \in Seq(AnyDatum) :
        /\ x \in TokensAt(text, skipped + 1, k) /\ ys \in DataAt(text, k + 1, close[Len(stack)] - 1)
        /\ coming[Len(stack)] = <<x>> \o ys
  <2>1. PICK i, c, z : i = skipped + 1 /\ c = close[Len(stack)] - 1 /\ z = coming[Len(stack)]
    OBVIOUS
  <2>2. /\ i \in 1..Len(text) /\ c \in i..Len(text) /\ z \in DataAt(text, i, c)
        /\ text[i] \notin Blanks \cup Opens \cup Quotes
    BY <2>1, <1>3, <1>5
  <2>3. TokenRead(text, i, c, z)
    BY <2>2, <1>4, TokenReadings
  <2>4. TokenRead(text, skipped + 1, close[Len(stack)] - 1, coming[Len(stack)])
    BY <2>1, <2>3
  <2> QED BY <2>4 DEF TokenRead
<1>7. k \in skipped + 1..Len(text)
  BY <1>3, <1>4
<1>8. /\ ReadWhile(Digits, TRUE, skipped + 1) = k /\ k # Len(text)
      /\ x = Number(Token(k)) /\ text[k] \notin Blanks
  BY <1>1, <1>2, <1>4, <1>6, <1>7, NumberRead
<1>9. ix' = k /\ pc' = "return" /\ result' = x
  BY <1>8 DEF ParseFixnum, Return
<1>10. x # NoDatum
  BY <1>8 DEF Number, NoDatum
<1> QED BY <1>2, <1>6, <1>8, <1>9, <1>10, PlanToken

LEMMA ReadsAtom ==
  ASSUME NEW xs, NEW coming, NEW close, PlanNow(xs, coming, close), ParseAtom
  PROVE  Planned(xs)'
<1>1. Types /\ EndsInBlank /\ Plan(xs, coming, close)
  BY DEF PlanNow
<1>2. pc = "parse" /\ ~atEnd /\ next \notin Opens \cup Digits \cup Quotes /\ UNCHANGED text
  BY DEF ParseAtom, Parsing
<1>3. /\ close[Len(stack)] \in 1..Len(text) + 1
      /\ skipped + 1 \in 1..Len(text)
      /\ close[Len(stack)] - 1 \in skipped + 1..Len(text)
      /\ coming[Len(stack)] \in DataAt(text, skipped + 1, close[Len(stack)] - 1)
      /\ next = text[skipped + 1] /\ next \notin Blanks \cup Closes
  BY <1>1, <1>2, PlanParses
<1>4. text \in Seq(Characters) /\ Len(text) \in Nat /\ ix \in 0..Len(text) /\ skipped \in Nat
  BY <1>1, TypesFacts
<1>5. text[skipped + 1] \notin Blanks \cup Opens \cup Quotes
  BY <1>2, <1>3
<1>6. PICK k \in skipped + 1..close[Len(stack)] - 1, x \in AnyDatum, ys \in Seq(AnyDatum) :
        /\ x \in TokensAt(text, skipped + 1, k) /\ ys \in DataAt(text, k + 1, close[Len(stack)] - 1)
        /\ coming[Len(stack)] = <<x>> \o ys
  <2>1. PICK i, c, z : i = skipped + 1 /\ c = close[Len(stack)] - 1 /\ z = coming[Len(stack)]
    OBVIOUS
  <2>2. /\ i \in 1..Len(text) /\ c \in i..Len(text) /\ z \in DataAt(text, i, c)
        /\ text[i] \notin Blanks \cup Opens \cup Quotes
    BY <2>1, <1>3, <1>5
  <2>3. TokenRead(text, i, c, z)
    BY <2>2, <1>4, TokenReadings
  <2>4. TokenRead(text, skipped + 1, close[Len(stack)] - 1, coming[Len(stack)])
    BY <2>1, <2>3
  <2> QED BY <2>4 DEF TokenRead
<1>7. k \in skipped + 1..Len(text)
  BY <1>3, <1>4
<1>8. /\ text[k] \notin Blanks
      /\ IF next = "#"
         THEN /\ k = skipped + 2 /\ skipped + 1 # Len(text)
              /\ text[k] \in {"t", "f"} /\ x = Truth(text[k])
         ELSE ReadWhile(Delimiters, FALSE, skipped + 1) = k /\ x = Symbol(Token(k))
  BY <1>1, <1>2, <1>4, <1>6, <1>7, AtomRead
<1>9. ix' = k /\ pc' = "return" /\ result' = x /\ UNCHANGED stack
  <2>1. CASE next = "#"
    <3>1. /\ k = skipped + 2 /\ skipped + 1 # Len(text) /\ text[skipped + 2] \notin Blanks
          /\ text[skipped + 2] \in {"t", "f"} /\ x = Truth(text[skipped + 2])
      BY <2>1, <1>8
    <3>2. ~IsBlank(text[skipped + 2])
      BY <3>1 DEF IsBlank
    <3> QED BY <2>1, <3>1, <3>2 DEF ParseAtom, Return
  <2>2. CASE next # "#"
    BY <2>2, <1>8 DEF ParseAtom, Return
  <2> QED BY <2>1, <2>2
<1>10. x # NoDatum
  <2>1. \A c : Truth(c) # NoDatum
    BY DEF Truth, NoDatum
  <2>2. \A cs : Symbol(cs) # NoDatum
    BY DEF Symbol, NoDatum
  <2> QED BY <2>1, <2>2, <1>8
<1> QED BY <1>2, <1>6, <1>8, <1>9, <1>10, PlanToken

LEMMA ReadsQuote ==
  ASSUME NEW xs, NEW coming, NEW close, PlanNow(xs, coming, close), ParseQuote
  PROVE  Planned(xs)'
<1>1. Types /\ EndsInBlank /\ Plan(xs, coming, close)
  BY DEF PlanNow
<1>2. pc = "parse" /\ ~atEnd /\ next \in Quotes /\ UNCHANGED text
  BY DEF ParseQuote, Parsing
<1>3. PICK n \in Nat \ {0} : n = Len(stack)
  BY TypesFacts, <1>1
<1>4. /\ close[n] \in 1..Len(text) + 1
      /\ skipped + 1 \in 1..Len(text)
      /\ close[n] - 1 \in skipped + 1..Len(text)
      /\ coming[n] \in DataAt(text, skipped + 1, close[n] - 1)
      /\ next = text[skipped + 1]
      /\ close[n] <= Len(text) => text[close[n]] \notin Blanks
  BY <1>1, <1>2, <1>3, PlanParses, PlanFacts
<1>5. text \in Seq(Characters) /\ Len(text) \in Nat /\ skipped \in Nat /\ Depth \in Nat
  BY <1>1, TypesFacts
<1>6. PICK i, a, m : i = skipped + 1 /\ a = AfterMark(text, i) /\ m = MarkAt(text, i)
  OBVIOUS
<1>7. /\ i < close[n] - 1
      /\ \E y \in AnyDatum, ys \in Seq(AnyDatum) :
           /\ <<y>> \o ys \in DataAt(text, a, close[n] - 1)
           /\ Quoted(m, y) \in AnyDatum
           /\ coming[n] = <<Quoted(m, y)>> \o ys
  <2>1. PICK c, z : c = close[n] - 1 /\ z = coming[n]
    OBVIOUS
  <2>2. /\ i \in 1..Len(text) /\ c \in i..Len(text) /\ z \in DataAt(text, i, c)
        /\ text[i] \in Quotes
    BY <2>1, <1>2, <1>4, <1>6
  <2>3. /\ i < c
        /\ \E y \in AnyDatum, ys \in Seq(AnyDatum) :
             /\ <<y>> \o ys \in DataAt(text, AfterMark(text, i), c)
             /\ Quoted(MarkAt(text, i), y) \in AnyDatum
             /\ z = <<Quoted(MarkAt(text, i), y)>> \o ys
    BY <2>2, <1>5, QuoteReadings
  <2> QED BY <2>1, <2>3, <1>6
<1>8. PICK y \in AnyDatum, ys \in Seq(AnyDatum) :
           /\ <<y>> \o ys \in DataAt(text, a, close[n] - 1)
           /\ Quoted(m, y) \in AnyDatum
           /\ coming[n] = <<Quoted(m, y)>> \o ys
  BY <1>7
<1>9. PICK zs : zs = <<y>> \o ys
  OBVIOUS
<1>10. zs \in Seq(AnyDatum) /\ zs # <<>>
  BY <1>9, Consed
<1>11. i + 1 = skipped + 2 /\ i + 2 = skipped + 3 /\ i # Len(text) /\ i < Len(text)
  BY <1>4, <1>5, <1>6, <1>7
<1>12. /\ m \in Marks /\ stack' = Append(stack, [fn |-> "quote", mark |-> m, items |-> <<>>])
       /\ ix' = a - 1 /\ a \in {i + 1, i + 2} /\ UNCHANGED <<result, pc>>
  <2>1. skipped + 1 # Len(text) /\ i \in Nat
    BY <1>5, <1>6, <1>11
  <2>2. CASE next = "," /\ text[skipped + 2] = "@"
    <3>1. text[i] = "," /\ text[i + 1] = "@"
      BY <2>2, <1>4, <1>6, <1>11
    <3>2. m = ",@" /\ a = i + 2
      BY <3>1, <1>6 DEF MarkAt, AfterMark
    <3>3. Call("quote", ",@") /\ ix' = skipped + 2 /\ UNCHANGED <<result, pc>>
      BY <2>1, <2>2 DEF ParseQuote
    <3>4. a - 1 = skipped + 2
      <4>1. \A u, v, w \in Nat : u = v + 1 /\ w = u + 2 => w - 1 = v + 2
        OBVIOUS
      <4>2. i \in Nat /\ a \in Nat /\ i = skipped + 1
        <5>1. i \in Nat /\ i = skipped + 1 /\ a = i + 2
          BY <2>1, <3>2, <1>6
        <5> QED BY <5>1
      <4> QED BY <4>1, <4>2, <3>2, <1>5
    <3> QED BY <3>2, <3>3, <3>4 DEF Call, Marks
  <2>3. CASE ~(next = "," /\ text[skipped + 2] = "@")
    <3>1. ~(text[i] = "," /\ text[i + 1] = "@") /\ next = text[i]
      BY <2>3, <1>4, <1>6, <1>11
    <3>2. next # ",@"
      BY <1>2 DEF Quotes
    <3>3. m = next /\ a = i + 1
      BY <3>1, <3>2, <1>6 DEF MarkAt, AfterMark
    <3>4. Call("quote", next) /\ ix' = skipped + 1 /\ UNCHANGED <<result, pc>>
      BY <2>1, <2>3 DEF ParseQuote
    <3>5. a - 1 = skipped + 1
      BY <3>3, <1>5, <1>6
    <3> QED BY <3>3, <3>4, <3>5, <1>2 DEF Call, Marks
  <2> QED BY <2>2, <2>3
<1>13. PICK f : f = [fn |-> "quote", mark |-> m, items |-> <<>>]
  OBVIOUS
<1>14. f \in Frame(Depth) /\ f.fn = "quote" /\ f.mark = m
  BY <1>12, <1>13, EmptySeq DEF Frame
<1>15. a \in 1..Len(text) + 1 /\ close[n] - 1 \in 0..Len(text) /\ (a - 1) + 1 = a
  BY <1>4, <1>5, <1>11, <1>12, <1>6
<1>16. a <= close[n] - 1
  <2>1. ASSUME a > close[n] - 1 PROVE FALSE
    <3>1. DataAt(text, a, close[n] - 1) = {<<>>}
      BY <2>1, <1>5, <1>15, ReadsRules
    <3> QED BY <3>1, <1>8, <1>9, <1>10
  <2> QED BY <2>1, <1>15
<1>17. a <= close[n] /\ a - 1 < Len(text)
  BY <1>4, <1>5, <1>15, <1>16
<1>18. Awaits(text, f, coming[n], close[n], zs, close[n])
  <2>1. f.fn # "list"
    BY <1>14
  <2> QED BY <2>1, <1>8, <1>9, <1>14 DEF Awaits
<1>19. zs \in DataAt(text, (a - 1) + 1, close[n] - 1)
  BY <1>8, <1>9, <1>15
<1>20. Given(text, a - 1, "parse", result, Len(stack'), zs, close[n])
  BY <1>10, <1>15, <1>17, <1>19 DEF Given
<1>21. Given(text', ix', pc', result', Len(stack'), zs, close[n])
  BY <1>2, <1>12, <1>20
<1>22. stack' = Append(stack, f)
  BY <1>12, <1>13
<1> QED BY <1>1, <1>2, <1>3, <1>4, <1>10, <1>14, <1>18, <1>21, <1>22, PlanCalls

\* parseList looks at its closing bracket, or at the beginning of a datum.
LEMMA ListLooks ==
  ASSUME NEW xs, NEW coming, NEW close, PlanNow(xs, coming, close), pc = "list"
  PROVE  /\ HasNext /\ next \notin Closes \ {Closing(frame.mark)}
         /\ ~atEnd /\ skipped + 1 \in 1..Len(text)
         /\ \/ /\ next = Closing(frame.mark) /\ next \in Closes /\ coming[Len(stack)] = <<>>
               /\ skipped + 1 = close[Len(stack)]
            \/ /\ next \notin Closes /\ coming[Len(stack)] # <<>>
               /\ skipped + 1 <= close[Len(stack)]
               /\ coming[Len(stack)] \in DataAt(text, skipped + 1, close[Len(stack)] - 1)
<1>1. Types /\ EndsInBlank /\ Plan(xs, coming, close) /\ frame.fn = "list"
  BY DEF PlanNow, Types
<1>2. PICK n \in Nat \ {0} : n = Len(stack)
  BY TypesFacts, <1>1
<1>3. /\ HasNext /\ n > 1 /\ close[n] \in 1..Len(text) + 1
      /\ Awaits(text, frame, coming[n - 1], close[n - 1], coming[n], close[n])
      /\ \/ /\ skipped + 1 = close[n] /\ coming[n] = <<>>
            /\ atEnd <=> close[n] = Len(text) + 1
         \/ /\ skipped + 1 \in 1..Len(text)
            /\ close[n] - 1 \in skipped + 1..Len(text)
            /\ ~atEnd /\ coming[n] # <<>>
            /\ coming[n] \in DataAt(text, skipped + 1, close[n] - 1)
            /\ next = text[skipped + 1] /\ next \notin Blanks \cup Closes
  BY <1>1, <1>2, PlanLooks, PlanFacts
<1>4. text \in Seq(Characters) /\ Len(text) \in Nat /\ skipped \in Nat
  BY <1>1, TypesFacts
<1>5. close[n - 1] \in 1..Len(text) + 1
  <2>1. n - 1 \in 1..n
    BY <1>3
  <2>2. close \in [1..n -> 1..Len(text) + 1]
    BY <1>1, <1>2 DEF Plan
  <2> QED BY <2>1, <2>2
<1>6. close[n] < close[n - 1] /\ text[close[n]] = Closing(frame.mark)
  BY <1>1, <1>3 DEF Awaits
<1>7. Closing(frame.mark) \in Closes
  BY DEF Closing, Closes
<1>8. CASE skipped + 1 = close[n] /\ coming[n] = <<>> /\ (atEnd <=> close[n] = Len(text) + 1)
  <2>1. close[n] \in 1..Len(text) /\ close[n] # Len(text) + 1
    BY <1>3, <1>4, <1>5, <1>6
  <2>2. ~atEnd /\ next = text[skipped + 1]
    BY <2>1, <1>8 DEF next
  <2> QED BY <2>1, <2>2, <1>2, <1>3, <1>6, <1>7, <1>8
<1>9. CASE /\ skipped + 1 \in 1..Len(text)
           /\ close[n] - 1 \in skipped + 1..Len(text)
           /\ ~atEnd /\ coming[n] # <<>>
           /\ coming[n] \in DataAt(text, skipped + 1, close[n] - 1)
           /\ next = text[skipped + 1] /\ next \notin Blanks \cup Closes
  <2>1. skipped + 1 <= close[n]
    BY <1>3, <1>4, <1>9
  <2> QED BY <2>1, <1>2, <1>3, <1>9
<1> QED BY <1>3, <1>8, <1>9

LEMMA ReadsItem ==
  ASSUME NEW xs, NEW coming, NEW close, PlanNow(xs, coming, close), ListItem
  PROVE  Planned(xs)'
<1>1. Types /\ EndsInBlank /\ Plan(xs, coming, close)
  BY DEF PlanNow
<1>2. /\ pc = "list" /\ next \notin Closes /\ pc' = "parse"
      /\ ix' = (IF atEnd THEN Len(text) - 1 ELSE skipped)
      /\ UNCHANGED <<text, stack, result>>
  BY DEF ListItem
<1>3. /\ ~atEnd /\ skipped + 1 \in 1..Len(text) /\ coming[Len(stack)] # <<>>
      /\ skipped + 1 <= close[Len(stack)]
      /\ coming[Len(stack)] \in DataAt(text, skipped + 1, close[Len(stack)] - 1)
  BY <1>2, ListLooks
<1>4. skipped < Len(text)
  BY <1>3, <1>1, TypesFacts
<1>5. Given(text, skipped, "parse", result, Len(stack), coming[Len(stack)], close[Len(stack)])
  BY <1>3, <1>4 DEF Given
<1>6. Given(text', ix', pc', result', Len(stack'), coming[Len(stack)], close[Len(stack)])
  BY <1>2, <1>3, <1>5
<1> QED BY <1>1, <1>2, <1>6, PlanKept

LEMMA ReadsListEnd ==
  ASSUME NEW xs, NEW coming, NEW close, PlanNow(xs, coming, close), ListCloses
  PROVE  Planned(xs)'
<1>1. Types /\ EndsInBlank /\ Plan(xs, coming, close)
  BY DEF PlanNow
<1>2. /\ pc = "list" /\ next = Closing(frame.mark) /\ ix' = skipped + 1
      /\ stack' = Front(stack) /\ pc' = "return" /\ result' = List(frame.items)
      /\ UNCHANGED text /\ frame.fn = "list"
  BY <1>1 DEF ListCloses, Return, Types
<1>3. PICK n \in Nat \ {0} : n = Len(stack)
  BY TypesFacts, <1>1
<1>4. next \in Closes
  BY <1>2 DEF Closing, Closes
<1>5. coming[n] = <<>> /\ skipped + 1 = close[n] /\ skipped + 1 \in 1..Len(text)
  BY <1>2, <1>3, <1>4, ListLooks
<1>6. /\ n > 1
      /\ Awaits(text, frame, coming[n - 1], close[n - 1], coming[n], close[n])
  BY <1>1, <1>2, <1>3, PlanLooks, PlanFacts
<1>7. PICK x \in AnyDatum, rest \in Seq(AnyDatum) :
        /\ coming[n - 1] = <<x>> \o rest
        /\ x = List(frame.items \o coming[n])
        /\ close[n] < close[n - 1] /\ text[close[n]] = Closing(frame.mark)
        /\ rest \in DataAt(text, close[n] + 1, close[n - 1] - 1)
  BY <1>2, <1>6 DEF Awaits
<1>8. frame.items \o coming[n] = frame.items
  <2>1. PICK a \in Seq(AnyDatum) : a = frame.items
    BY <1>1, ItemsAreData
  <2>2. a \o <<>> = a
    OBVIOUS
  <2> QED BY <2>1, <2>2, <1>5
<1>9. x = List(frame.items) /\ x # NoDatum
  BY <1>7, <1>8 DEF List, NoDatum
<1>10. close[n] < Len(text)
  <2>1. Len(text) \in Nat \ {0} /\ text[Len(text)] \in Blanks
    BY <1>1, LastIsBlank, TypesFacts
  <2>2. text[close[n]] \notin Blanks
    BY <1>7 DEF Closing, Blanks
  <2> QED BY <2>1, <2>2, <1>5
<1>11. close[n - 1] \in 1..Len(text) + 1
  <2>1. n - 1 \in 1..n
    BY <1>6
  <2>2. close \in [1..n -> 1..Len(text) + 1]
    BY <1>1, <1>3 DEF Plan
  <2> QED BY <2>1, <2>2
<1>12. close[n] + 1 <= close[n - 1]
  BY <1>5, <1>7, <1>11
<1>13. Len(stack') = n - 1
  BY <1>1, <1>2, <1>3, TypesFacts, FrontAndLast DEF StackOK
<1>14. Given(text, close[n], "return", List(frame.items), n - 1, coming[n - 1], close[n - 1])
  BY <1>7, <1>9, <1>10, <1>12 DEF Given
<1>15. Given(text', ix', pc', result', Len(stack'), coming[Len(stack) - 1], close[Len(stack) - 1])
  BY <1>2, <1>3, <1>5, <1>13, <1>14
<1> QED BY <1>1, <1>2, <1>15, PlanReturns

\* A datum is returned: it is the first of what the innermost call is given.
LEMMA ReturnsFirst ==
  ASSUME NEW xs, NEW coming, NEW close, PlanNow(xs, coming, close), pc = "return", result # NoDatum
  PROVE  /\ result \in AnyDatum /\ ix < Len(text) /\ ix + 1 <= close[Len(stack)]
         /\ \E zs \in Seq(AnyDatum) : /\ coming[Len(stack)] = <<result>> \o zs
                                      /\ zs \in DataAt(text, ix + 1, close[Len(stack)] - 1)
<1>1. Types /\ EndsInBlank /\ Plan(xs, coming, close)
  BY DEF PlanNow
<1>2. PICK n \in Nat \ {0} : n = Len(stack)
  BY TypesFacts, <1>1
<1>3. /\ Given(text, ix, pc, result, n, coming[n], close[n])
      /\ close[n] \in ix + 1..Len(text) + 1
  BY <1>1, <1>2, PlanFacts
<1>4. /\ text \in Seq(Characters) /\ ix \in Nat /\ Len(text) \in Nat /\ ix <= Len(text)
  BY <1>1, TypesFacts
<1>5. /\ ix < Len(text) /\ ix + 1 <= close[n]
      /\ \E zs \in DataAt(text, ix + 1, close[n] - 1) : coming[n] = <<result>> \o zs
  BY <1>3 DEF Given
<1>6. ix + 1 \in 1..Len(text) + 1 /\ close[n] - 1 \in 0..Len(text)
  BY <1>3, <1>4
<1>7. DataAt(text, ix + 1, close[n] - 1) \subseteq Seq(AnyDatum)
  BY <1>4, <1>6, ReadingsAreData
<1>8. result \in AnyDatum
  BY <1>1, ItemsAreData
<1> QED BY <1>2, <1>5, <1>7, <1>8

LEMMA ExtendReads ==
  ASSUME NEW xs, NEW coming, NEW close, PlanNow(xs, coming, close), pc = "return", result # NoDatum,
         frame.fn # "quote", stack' = Extended, UNCHANGED <<text, ix, result>>,
         pc' = "list" \/ (pc' = "parse" /\ frame.fn = "prog")
  PROVE  Planned(xs)'
<1>1. Types /\ EndsInBlank /\ Plan(xs, coming, close)
  BY DEF PlanNow
<1>2. PICK n \in Nat \ {0} : n = Len(stack)
  BY TypesFacts, <1>1
<1>3. PICK zs \in Seq(AnyDatum) : /\ coming[n] = <<result>> \o zs
                                  /\ zs \in DataAt(text, ix + 1, close[n] - 1)
  BY <1>2, ReturnsFirst
<1>4. ix < Len(text) /\ ix + 1 <= close[n]
  BY <1>2, ReturnsFirst
<1>5. pc' = "parse" => n = 1
  BY <1>1, <1>2, PlanFacts
<1>6. Len(stack') = n
  <2>1. result \in Data[Depth] /\ Depth \in Nat /\ StackOK(stack, Depth)
    BY <1>1, TypesFacts DEF Types
  <2> QED BY <2>1, <1>2, Extends
<1>7. Given(text, ix, pc', result, n, zs, close[n])
  <2>1. CASE pc' = "list"
    <3>1. Given(text, ix, "list", result, n, zs, close[n])
      BY <1>3, <1>4 DEF Given
    <3> QED BY <2>1, <3>1
  <2>2. CASE pc' = "parse"
    <3>1. Given(text, ix, "parse", result, 1, zs, close[n])
      BY <1>3, <1>4 DEF Given
    <3> QED BY <2>2, <3>1, <1>5
  <2> QED BY <2>1, <2>2
<1>8. Given(text', ix', pc', result', Len(stack'), zs, close[Len(stack)])
  BY <1>2, <1>6, <1>7
<1> QED BY <1>1, <1>2, <1>3, <1>8, PlanExtends

LEMMA QuoteReads ==
  ASSUME NEW xs, NEW coming, NEW close, PlanNow(xs, coming, close), ReturnToQuote, result # NoDatum
  PROVE  Planned(xs)'
<1>1. Types /\ EndsInBlank /\ Plan(xs, coming, close)
  BY DEF PlanNow
<1>2. /\ pc = "return" /\ frame.fn = "quote" /\ UNCHANGED <<text, ix>>
      /\ stack' = Front(stack) /\ pc' = "return" /\ result' = Quoted(frame.mark, result)
  BY DEF ReturnToQuote, Returning, Return
<1>3. PICK n \in Nat \ {0} : n = Len(stack)
  BY TypesFacts, <1>1
<1>4. PICK zs \in Seq(AnyDatum) : /\ coming[n] = <<result>> \o zs
                                  /\ zs \in DataAt(text, ix + 1, close[n] - 1)
  BY <1>2, <1>3, ReturnsFirst
<1>5. ix < Len(text) /\ ix + 1 <= close[n] /\ result \in AnyDatum
  BY <1>2, <1>3, ReturnsFirst
<1>6. /\ n > 1
      /\ Awaits(text, frame, coming[n - 1], close[n - 1], coming[n], close[n])
  <2>1. n # 1
    BY <1>1, <1>2, <1>3, PlanFacts
  <2>2. n > 1
    BY <2>1
  <2> QED BY <2>2, <1>1, <1>3, PlanFacts
<1>7. PICK x \in AnyDatum, rest \in Seq(AnyDatum), y \in AnyDatum :
        /\ coming[n - 1] = <<x>> \o rest
        /\ close[n] = close[n - 1]
        /\ x = Quoted(frame.mark, y) /\ coming[n] = <<y>> \o rest
  BY <1>2, <1>6, Zenon DEF Awaits
<1>8. y = result /\ rest = zs
  <2>1. Head(<<y>> \o rest) = y /\ Tail(<<y>> \o rest) = rest
    BY Consed
  <2>2. Head(<<result>> \o zs) = result /\ Tail(<<result>> \o zs) = zs
    BY <1>5, Consed
  <2> QED BY <2>1, <2>2, <1>4, <1>7
<1>9. Quoted(frame.mark, result) # NoDatum
  BY DEF Quoted, List, NoDatum
<1>10. Len(stack') = n - 1
  BY <1>1, <1>2, <1>3, TypesFacts, FrontAndLast DEF StackOK
<1>11. /\ zs \in DataAt(text, ix + 1, close[n - 1] - 1)
       /\ coming[n - 1] = <<Quoted(frame.mark, result)>> \o zs
       /\ ix + 1 <= close[n - 1]
  BY <1>4, <1>5, <1>7, <1>8
<1>12. Given(text, ix, "return", Quoted(frame.mark, result), n - 1, coming[n - 1], close[n - 1])
  BY <1>5, <1>9, <1>11 DEF Given
<1>13. Given(text', ix', pc', result', Len(stack'), coming[Len(stack) - 1], close[Len(stack) - 1])
  BY <1>2, <1>3, <1>10, <1>12
<1> QED BY <1>1, <1>2, <1>13, PlanReturns

\* No datum is returned at the end of the text only, and to parseProg.
LEMMA ReturnsNothing ==
  ASSUME NEW xs, NEW coming, NEW close, PlanNow(xs, coming, close), pc = "return", result = NoDatum
  PROVE  frame.fn = "prog" /\ ~HasNext /\ frame.items = xs
<1>1. Types /\ EndsInBlank /\ Plan(xs, coming, close)
  BY DEF PlanNow
<1>2. Given(text, ix, pc, result, Len(stack), coming[Len(stack)], close[Len(stack)])
  BY <1>1, PlanFacts
<1>3. Len(stack) = 1 /\ coming[Len(stack)] = <<>> /\ ix = Len(text)
  BY <1>2 DEF Given
<1>4. frame.fn = "prog" /\ stack[1] = frame
  BY <1>1, <1>3, PlanFacts
<1>5. ~HasNext
  BY <1>1, <1>3, TypesFacts DEF HasNext
<1>6. frame.items \o <<>> = xs
  BY <1>1, <1>3, <1>4 DEF Plan
<1>7. frame.items \o <<>> = frame.items
  <2>1. PICK a \in Seq(AnyDatum) : a = frame.items
    BY <1>1, ItemsAreData
  <2>2. a \o <<>> = a
    OBVIOUS
  <2> QED BY <2>1, <2>2
<1> QED BY <1>4, <1>5, <1>6, <1>7

ReadAs(xs) == pc = "done" /\ result = List(xs)

LEMMA PlanNext ==
  ASSUME Types, EndsInBlank, [Next]_vars, NEW xs, Planned(xs)
  PROVE  Planned(xs)' \/ ReadAs(xs)'
<1>1. PICK coming, close : Plan(xs, coming, close)
  BY DEF Planned
<1>2. PlanNow(xs, coming, close)
  BY <1>1 DEF PlanNow
<1>3. CASE ParseAssertFails
  BY <1>1, <1>3, PlanLooks DEF ParseAssertFails
<1>4. CASE ParseNothing
  BY <1>2, <1>4, ReadsNothing
<1>5. CASE ParseList
  BY <1>2, <1>5, ReadsList
<1>6. CASE ParseFixnum
  BY <1>2, <1>6, ReadsFixnum
<1>7. CASE ParseQuote
  BY <1>2, <1>7, ReadsQuote
<1>8. CASE ParseAtom
  BY <1>2, <1>8, ReadsAtom
<1>9. CASE ListAssertFails
  BY <1>2, <1>9, ListLooks DEF ListAssertFails
<1>10. CASE ListCloses
  BY <1>2, <1>10, ReadsListEnd
<1>11. CASE ListItem
  BY <1>2, <1>11, ReadsItem
<1>12. CASE ReturnToProg
  <2>1. pc = "return" /\ frame.fn = "prog"
    BY <1>12 DEF ReturnToProg, Returning
  <2>2. CASE result = NoDatum
    <3>1. ~HasNext /\ frame.items = xs
      BY <1>2, <2>1, <2>2, ReturnsNothing
    <3>2. pc' = "done" /\ result' = List(frame.items)
      BY <1>12, <2>2, <3>1 DEF ReturnToProg
    <3> QED BY <3>1, <3>2 DEF ReadAs
  <2>3. CASE result # NoDatum
    <3>1. stack' = Extended /\ pc' = "parse" /\ UNCHANGED <<text, ix, result>>
      BY <1>12, <2>3 DEF ReturnToProg
    <3> QED BY <1>2, <2>1, <2>3, <3>1, ExtendReads
  <2> QED BY <2>2, <2>3
<1>13. CASE ReturnToList
  <2>1. pc = "return" /\ frame.fn = "list"
    BY <1>13 DEF ReturnToList, Returning
  <2>2. result # NoDatum
    BY <1>2, <2>1, ReturnsNothing
  <2>3. stack' = Extended /\ pc' = "list" /\ UNCHANGED <<text, ix, result>>
    BY <1>13, <2>2 DEF ReturnToList
  <2> QED BY <1>2, <2>1, <2>2, <2>3, ExtendReads
<1>14. CASE ReturnToQuote
  <2>1. pc = "return" /\ frame.fn = "quote"
    BY <1>14 DEF ReturnToQuote, Returning
  <2>2. result # NoDatum
    BY <1>2, <2>1, ReturnsNothing
  <2> QED BY <1>2, <1>14, <2>2, QuoteReads
<1>15. CASE UNCHANGED vars
  <2>1. UNCHANGED <<text, ix, stack, result, pc>>
    BY <1>15 DEF vars
  <2>2. Given(text', ix', pc', result', Len(stack'), coming[Len(stack)], close[Len(stack)])
    BY <2>1, <1>1, PlanFacts
  <2> QED BY <2>1, <2>2, <1>1, PlanKept
<1> QED BY <1>3, <1>4, <1>5, <1>6, <1>7, <1>8, <1>9, <1>10, <1>11, <1>12, <1>13,
           <1>14, <1>15 DEF Next

\* What is still to be read is a reading, or has all been read.
Follows == EndsInBlank => \A xs \in Readings(text) : Planned(xs) \/ ReadAs(xs)

LEMMA FollowsInit == Init => Follows
<1> SUFFICES ASSUME Init, EndsInBlank, NEW xs \in Readings(text) PROVE Planned(xs)
  BY DEF Follows
<1>1. Types
  BY TypesInit
<1>2. PICK h \in Nat \ {0} : h = Len(text)
  BY <1>1, LastIsBlank, TypesFacts
<1>3. text \in Seq(Characters) /\ ix = 0 /\ pc = "parse" /\ result = NoDatum
  BY <1>1 DEF Types, Init
<1>4. xs \in DataAt(text, 1, h) /\ xs \in Seq(AnyDatum)
  <2>1. 1 \in 1..Len(text) + 1 /\ h \in 0..Len(text)
    BY <1>2
  <2> QED BY <2>1, <1>2, <1>3, ReadingsAreData DEF Readings
<1>5. PICK s : s = stack
  OBVIOUS
<1>6. Len(s) = 1 /\ s[1].items = <<>>
  BY <1>5 DEF Init
<1> DEFINE coming == [i \in 1..1 |-> xs]
           close == [i \in 1..1 |-> Len(text) + 1]
<1>7. coming[1] = xs /\ close[1] = Len(text) + 1
  OBVIOUS
<1>8. coming \in [1..1 -> Seq(AnyDatum)] /\ close \in [1..1 -> 1..Len(text) + 1]
  BY <1>2, <1>4
<1> HIDE DEF coming, close
<1>9. /\ \A i \in 1..1 : close[i] <= Len(text) => text[close[i]] \notin Blanks
      /\ ~\E i \in 1..1 - 1 : TRUE
  BY <1>2, <1>7
<1>10. <<>> \o xs = xs
  BY <1>4
<1>11. Given(text, 0, "parse", result, 1, xs, h + 1)
  <2>1. 0 + 1 = 1 /\ (h + 1) - 1 = h
    OBVIOUS
  <2> QED BY <2>1, <1>2, <1>4 DEF Given
<1>12. Plan(xs, coming, close)
  BY <1>2, <1>3, <1>5, <1>6, <1>7, <1>8, <1>9, <1>10, <1>11 DEF Plan
<1> QED BY <1>12 DEF Planned

LEMMA FollowsNext == Types /\ Follows /\ [Next]_vars => Follows'
<1> SUFFICES ASSUME Types, Follows, [Next]_vars PROVE Follows'
  OBVIOUS
<1>1. UNCHANGED text
  BY DEF Next, vars, ParseAssertFails, ParseNothing, ParseList, ParseFixnum, ParseQuote,
         ParseAtom, ListAssertFails, ListCloses, ListItem, ReturnToProg, ReturnToList, ReturnToQuote
<1>2. ASSUME EndsInBlank, NEW xs \in Readings(text), Planned(xs)
      PROVE  Planned(xs)' \/ ReadAs(xs)'
  BY <1>2, PlanNext
<1>3. ASSUME NEW xs, ReadAs(xs) PROVE ReadAs(xs)'
  <2>1. pc \notin {"parse", "list", "return"}
    BY <1>3 DEF ReadAs
  <2>2. UNCHANGED <<pc, result>>
    BY <2>1 DEF Next, vars, ParseAssertFails, ParseNothing, ParseList, ParseFixnum, ParseQuote,
         ParseAtom, Parsing, ListAssertFails, ListCloses, ListItem, ReturnToProg, ReturnToList,
         ReturnToQuote, Returning
  <2> QED BY <2>2, <1>3 DEF ReadAs
<1>4. EndsInBlank' => EndsInBlank
  BY <1>1 DEF EndsInBlank
<1>5. ASSUME EndsInBlank', NEW xs \in Readings(text) PROVE Planned(xs)' \/ ReadAs(xs)'
  <2>1. Planned(xs) \/ ReadAs(xs)
    BY <1>4, <1>5 DEF Follows
  <2> QED BY <2>1, <1>2, <1>3, <1>4, <1>5
<1> QED BY <1>1, <1>5, Zenon DEF Follows

LEMMA AlwaysFollows == Spec => []Follows
<1>1. Init => Follows
  BY FollowsInit
<1>2. Types /\ Follows /\ [Next]_vars => Follows'
  BY FollowsNext
<1> QED BY <1>1, <1>2, AlwaysTypes, PTL DEF Spec

\* A program that the grammar can read, and that ends in a blank, is read as
\* the grammar reads it, whatever its length and however deep it is nested.
THEOREM GrammarIsRead == Spec => []ReadsGrammar
<1>1. Types /\ Follows => ReadsGrammar
  <2> SUFFICES ASSUME Types, Follows, Ended, EndsInBlank, NEW xs \in Readings(text)
               PROVE  pc = "done" /\ result = List(xs)
    BY DEF ReadsGrammar, EndsInBlank
  <2>1. Planned(xs) \/ ReadAs(xs)
    BY DEF Follows
  <2>2. ~Planned(xs)
    <3>1. ASSUME NEW coming, NEW close, Plan(xs, coming, close) PROVE FALSE
      BY <3>1 DEF Plan, Given, Ended
    <3> QED BY <3>1 DEF Planned
  <2> QED BY <2>1, <2>2 DEF ReadAs
<1> QED BY <1>1, AlwaysTypes, AlwaysFollows, PTL
=============================================================================
