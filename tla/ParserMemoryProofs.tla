-------------------------- MODULE ParserMemoryProofs ------------------------
(***************************************************************************)
(* The lists that the parser makes in memory hold the data it read,        *)
(* whatever collections there were while it made them.                     *)
(***************************************************************************)
EXTENDS ParserMemory, ParserProofs, FiniteSetTheorems

-----------------------------------------------------------------------------
(***************************************************************************)
(* What the words of a list are: there are pairs, one for each element,    *)
(* each leading to the next and the last to nil.                           *)
(***************************************************************************)
\* The word for the elements from j on, of n that are in the pairs s.
At(s, n, j) == IF j > n THEN Nil ELSE PairAt(s[j])

\* The pairs s hold the elements of xs from i on; w leads to the first of them.
IsSpine(p, ws, xs, i, s, w) ==
  /\ w = At(s, Len(xs), i)
  /\ \A j \in i..Len(xs) :
       p[s[j]].car \in ws[xs[j]] /\ p[s[j]].cdr = At(s, Len(xs), j + 1)

Spined(p, ws, xs, i, w) ==
  \E s \in [i..Len(xs) -> DOMAIN p] : IsSpine(p, ws, xs, i, s, w)

ListBody(p, ws, xs, u, i) ==
  IF i > Len(xs) THEN {Nil}
  ELSE {PairAt(a) : a \in {b \in DOMAIN p : p[b].car \in ws[xs[i]] /\ p[b].cdr \in u[i + 1]}}

\* Nothing is left of a list after its last element.
LEMMA SpineEnds ==
  ASSUME NEW p, NEW ws, NEW xs, Len(xs) \in Nat, NEW w
  PROVE  Spined(p, ws, xs, Len(xs) + 1, w) <=> w = Nil
<1>1. PICK n \in Nat : n = Len(xs)
  OBVIOUS
<1>2. ASSUME NEW s PROVE IsSpine(p, ws, xs, n + 1, s, w) <=> w = Nil
  BY <1>1 DEF IsSpine, At
<1>3. \E s : s \in [n + 1..n -> DOMAIN p]
  <2>1. [j \in n + 1..n |-> 0] \in [n + 1..n -> DOMAIN p]
    OBVIOUS
  <2> QED BY <2>1
<1> QED BY <1>1, <1>2, <1>3 DEF Spined

\* A list from element i on is a pair and the list from i + 1 on.
LEMMA SpineStep ==
  ASSUME NEW p, NEW ws, NEW xs, Len(xs) \in Nat, NEW i \in 1..Len(xs), NEW w
  PROVE  Spined(p, ws, xs, i, w) <=>
           \E a \in DOMAIN p : /\ w = PairAt(a) /\ p[a].car \in ws[xs[i]]
                               /\ Spined(p, ws, xs, i + 1, p[a].cdr)
<1>1. PICK n \in Nat : n = Len(xs)
  OBVIOUS
<1>2. i \in 1..n /\ i \in i..n /\ ~(i > n)
  BY <1>1
<1>3. ASSUME NEW s \in [i..n -> DOMAIN p], IsSpine(p, ws, xs, i, s, w)
      PROVE  \E a \in DOMAIN p : /\ w = PairAt(a) /\ p[a].car \in ws[xs[i]]
                                 /\ Spined(p, ws, xs, i + 1, p[a].cdr)
  <2> DEFINE t == [j \in i + 1..n |-> s[j]]
  <2>1. \A j \in i + 1..n : j \in i..n /\ t[j] = s[j]
    BY <1>2
  <2>2. t \in [i + 1..n -> DOMAIN p]
    BY <2>1
  <2> HIDE DEF t
  <2>3. \A j \in i + 1..n + 1 : At(s, n, j) = At(t, n, j)
    BY <2>1, <1>2 DEF At
  <2>4. /\ w = PairAt(s[i]) /\ s[i] \in DOMAIN p /\ p[s[i]].car \in ws[xs[i]]
        /\ p[s[i]].cdr = At(s, n, i + 1)
        /\ \A j \in i..n : p[s[j]].car \in ws[xs[j]] /\ p[s[j]].cdr = At(s, n, j + 1)
    BY <1>1, <1>2, <1>3 DEF IsSpine, At
  <2>5. IsSpine(p, ws, xs, i + 1, t, p[s[i]].cdr)
    <3>1. p[s[i]].cdr = At(t, n, i + 1)
      BY <2>3, <2>4, <1>2
    <3>2. ASSUME NEW j \in i + 1..n
          PROVE  p[t[j]].car \in ws[xs[j]] /\ p[t[j]].cdr = At(t, n, j + 1)
      <4>1. j \in i..n /\ j + 1 \in i + 1..n + 1
        BY <1>2
      <4> QED BY <4>1, <2>1, <2>3, <2>4
    <3> QED BY <3>1, <3>2, <1>1 DEF IsSpine
  <2> QED BY <2>2, <2>4, <2>5, <1>1 DEF Spined
<1>4. ASSUME NEW a \in DOMAIN p, w = PairAt(a), p[a].car \in ws[xs[i]],
             NEW t \in [i + 1..n -> DOMAIN p], IsSpine(p, ws, xs, i + 1, t, p[a].cdr)
      PROVE  Spined(p, ws, xs, i, w)
  <2> DEFINE s == [j \in i..n |-> IF j = i THEN a ELSE t[j]]
  <2>1. s[i] = a /\ \A j \in i + 1..n : s[j] = t[j] /\ j \in i..n
    BY <1>2
  <2>2. \A j \in i..n : j = i \/ j \in i + 1..n
    BY <1>2
  <2>3. s \in [i..n -> DOMAIN p]
    BY <2>1, <2>2
  <2> HIDE DEF s
  <2>4. \A j \in i + 1..n + 1 : At(s, n, j) = At(t, n, j)
    BY <2>1, <1>2 DEF At
  <2>5. /\ p[a].cdr = At(t, n, i + 1)
        /\ \A j \in i + 1..n : p[t[j]].car \in ws[xs[j]] /\ p[t[j]].cdr = At(t, n, j + 1)
    BY <1>1, <1>4 DEF IsSpine
  <2>6. w = At(s, n, i)
    BY <1>2, <1>4, <2>1 DEF At
  <2>7. ASSUME NEW j \in i..n
        PROVE  p[s[j]].car \in ws[xs[j]] /\ p[s[j]].cdr = At(s, n, j + 1)
    <3>1. CASE j = i
      <4>1. i + 1 \in i + 1..n + 1
        BY <1>2
      <4> QED BY <3>1, <4>1, <1>4, <2>1, <2>4, <2>5
    <3>2. CASE j \in i + 1..n
      <4>1. j + 1 \in i + 1..n + 1
        BY <1>2, <3>2
      <4> QED BY <3>2, <4>1, <2>1, <2>4, <2>5
    <3> QED BY <3>1, <3>2, <2>2
  <2> QED BY <2>3, <2>6, <2>7, <1>1 DEF Spined, IsSpine
<1>5. ASSUME Spined(p, ws, xs, i, w)
      PROVE  \E a \in DOMAIN p : /\ w = PairAt(a) /\ p[a].car \in ws[xs[i]]
                                 /\ Spined(p, ws, xs, i + 1, p[a].cdr)
  BY <1>1, <1>3, <1>5 DEF Spined
<1>6. ASSUME NEW a \in DOMAIN p, w = PairAt(a), p[a].car \in ws[xs[i]],
             Spined(p, ws, xs, i + 1, p[a].cdr)
      PROVE  Spined(p, ws, xs, i, w)
  BY <1>1, <1>4, <1>6 DEF Spined
<1> QED BY <1>5, <1>6

\* Such pairs solve the recursion.
LEMMA ListBodySolved ==
  ASSUME NEW p, NEW ws, NEW xs, Len(xs) \in Nat
  PROVE  \E u : u = [i \in 1..Len(xs) + 1 |-> ListBody(p, ws, xs, u, i)]
<1>1. PICK n \in Nat : n = Len(xs)
  OBVIOUS
<1> DEFINE All == {Nil} \cup {PairAt(a) : a \in DOMAIN p}
           u == [i \in 1..n + 1 |-> {w \in All : Spined(p, ws, xs, i, w)}]
<1>2. ASSUME NEW i \in 1..n + 1 PROVE u[i] = ListBody(p, ws, xs, u, i)
  <2>1. CASE i = n + 1
    <3>1. \A w : Spined(p, ws, xs, n + 1, w) <=> w = Nil
      BY <1>1, SpineEnds
    <3>2. u[n + 1] = {Nil}
      BY <3>1
    <3> QED BY <2>1, <3>2, <1>1 DEF ListBody
  <2>2. CASE i # n + 1
    <3>1. i \in 1..n /\ i + 1 \in 1..n + 1 /\ ~(i > n)
      BY <2>2
    <3>2. ASSUME NEW w
          PROVE  Spined(p, ws, xs, i, w) <=>
                   \E a \in DOMAIN p : /\ w = PairAt(a) /\ p[a].car \in ws[xs[i]]
                                       /\ Spined(p, ws, xs, i + 1, p[a].cdr)
      BY <1>1, <3>1, SpineStep
    <3>3. ASSUME NEW j \in 1..n + 1, NEW w, Spined(p, ws, xs, j, w) PROVE w \in All
      <4>1. PICK s \in [j..n -> DOMAIN p] : w = At(s, n, j)
        BY <1>1, <3>3 DEF Spined, IsSpine
      <4>2. CASE j > n
        BY <4>1, <4>2 DEF At
      <4>3. CASE ~(j > n)
        <5>1. j \in j..n
          BY <4>3
        <5> QED BY <4>1, <4>3, <5>1 DEF At
      <4> QED BY <4>2, <4>3
    <3>4. \A w : w \in u[i] <=> Spined(p, ws, xs, i, w)
      BY <3>3
    <3>5. \A w : w \in u[i + 1] <=> Spined(p, ws, xs, i + 1, w)
      BY <3>1, <3>3
    <3> HIDE DEF u
    <3>6. \A w : w \in u[i] <=> \E a \in DOMAIN p : /\ w = PairAt(a) /\ p[a].car \in ws[xs[i]]
                                                   /\ p[a].cdr \in u[i + 1]
      BY <3>2, <3>4, <3>5
    <3>7. ListBody(p, ws, xs, u, i) =
            {PairAt(a) : a \in {b \in DOMAIN p : p[b].car \in ws[xs[i]] /\ p[b].cdr \in u[i + 1]}}
      BY <3>1, <1>1 DEF ListBody
    <3>8. \A w : w \in ListBody(p, ws, xs, u, i) <=>
             \E a \in DOMAIN p : /\ w = PairAt(a) /\ p[a].car \in ws[xs[i]]
                                 /\ p[a].cdr \in u[i + 1]
      BY <3>7, Zenon
    <3> QED BY <3>6, <3>8
  <2> QED BY <2>1, <2>2
<1>3. u = [i \in 1..n + 1 |-> ListBody(p, ws, xs, u, i)]
  <2>1. u = [i \in 1..n + 1 |-> u[i]]
    OBVIOUS
  <2> HIDE DEF u
  <2> QED BY <2>1, <1>2
<1> QED BY <1>1, <1>3

\* There is one solution only.
LEMMA ListBodyUnique ==
  ASSUME NEW p, NEW ws, NEW xs, Len(xs) \in Nat,
         NEW u, u = [i \in 1..Len(xs) + 1 |-> ListBody(p, ws, xs, u, i)],
         NEW w
  PROVE  w \in u[1] <=> Spined(p, ws, xs, 1, w)
<1>1. PICK n \in Nat : n = Len(xs)
  OBVIOUS
<1>2. ASSUME NEW i \in 1..n + 1 PROVE u[i] = ListBody(p, ws, xs, u, i)
  BY <1>1
<1> DEFINE Right(i) == \A v : v \in u[i] <=> Spined(p, ws, xs, i, v)
           T == {m \in 0..n : ~Right(n + 1 - m)}
<1>3. Right(n + 1)
  <2>1. u[n + 1] = {Nil}
    BY <1>1, <1>2 DEF ListBody
  <2> QED BY <2>1, <1>1, SpineEnds
<1>4. ASSUME NEW i \in 1..n, Right(i + 1) PROVE Right(i)
  <2> SUFFICES ASSUME NEW v PROVE v \in u[i] <=> Spined(p, ws, xs, i, v)
    OBVIOUS
  <2>1. i \in 1..n + 1 /\ ~(i > n)
    OBVIOUS
  <2>2. u[i] = {PairAt(a) : a \in {b \in DOMAIN p : p[b].car \in ws[xs[i]] /\ p[b].cdr \in u[i + 1]}}
    BY <2>1, <1>1, <1>2 DEF ListBody
  <2>3. v \in u[i] <=> \E a \in DOMAIN p : /\ v = PairAt(a) /\ p[a].car \in ws[xs[i]]
                                          /\ p[a].cdr \in u[i + 1]
    BY <2>2, Zenon
  <2>4. Spined(p, ws, xs, i, v) <=>
          \E a \in DOMAIN p : /\ v = PairAt(a) /\ p[a].car \in ws[xs[i]]
                              /\ Spined(p, ws, xs, i + 1, p[a].cdr)
    BY <1>1, SpineStep
  <2> QED BY <2>3, <2>4, <1>4
<1>5. T = {}
  <2> SUFFICES ASSUME T # {} PROVE FALSE
    OBVIOUS
  <2>1. PICK m \in T : \A k \in T : m <= k
    <3>1. T \subseteq Nat
      OBVIOUS
    <3> HIDE DEF T
    <3> QED BY <3>1, LeastNatural
  <2>2. m \in 0..n /\ ~Right(n + 1 - m) /\ m # 0
    <3>1. m \in 0..n /\ ~Right(n + 1 - m)
      BY <2>1
    <3>2. n + 1 - 0 = n + 1
      OBVIOUS
    <3> HIDE DEF Right
    <3> QED BY <3>1, <3>2, <1>3
  <2>3. m - 1 \in 0..n /\ m - 1 \notin T
    <3>1. m - 1 \in 0..n /\ ~(m <= m - 1)
      BY <2>2
    <3> QED BY <3>1, <2>1
  <2>4. PICK i \in 1..n : i = n + 1 - m /\ i + 1 = n + 1 - (m - 1)
    BY <2>2
  <2>5. Right(i + 1)
    BY <2>3, <2>4
  <2> HIDE DEF Right
  <2> QED BY <2>2, <2>4, <2>5, <1>4
<1>6. Right(1)
  <2>1. n \in 0..n /\ n + 1 - n = 1
    OBVIOUS
  <2> HIDE DEF Right
  <2> QED BY <2>1, <1>5
<1> QED BY <1>6

\* The words of a list are those that some pairs make it with.
LEMMA ListWordsAre ==
  ASSUME NEW p, NEW ws, NEW xs, Len(xs) \in Nat, NEW w
  PROVE  w \in ListWords(p, ws, xs) <=> Spined(p, ws, xs, 1, w)
<1>1. \E u : u = [i \in 1..Len(xs) + 1 |-> ListBody(p, ws, xs, u, i)]
  BY ListBodySolved
<1>2. \E u : /\ u = [i \in 1..Len(xs) + 1 |-> ListBody(p, ws, xs, u, i)]
             /\ ListWords(p, ws, xs) = u[1]
  BY <1>1, ZenonT(60) DEF ListWords, ListBody
<1> QED BY <1>2, ListBodyUnique

\* Only the words of its own elements matter to a list.
LEMMA ListWordsAgree ==
  ASSUME NEW p, NEW us, NEW vs, NEW xs, Len(xs) \in Nat,
         \A j \in 1..Len(xs) : us[xs[j]] = vs[xs[j]]
  PROVE  ListWords(p, us, xs) = ListWords(p, vs, xs)
<1>1. ASSUME NEW w PROVE Spined(p, us, xs, 1, w) <=> Spined(p, vs, xs, 1, w)
  <2>1. \A s : IsSpine(p, us, xs, 1, s, w) <=> IsSpine(p, vs, xs, 1, s, w)
    BY DEF IsSpine
  <2> QED BY <2>1 DEF Spined
<1>2. \A w : w \in ListWords(p, us, xs) <=> w \in ListWords(p, vs, xs)
  BY <1>1, ListWordsAre
<1> QED BY <1>2

WordsBody(p, u, n, y) ==
  IF "list" \in DOMAIN y THEN ListWords(p, u[n - 1], y.list) ELSE {AtomWord(y)}

IsWordsUpTo(p, m, u) == \A n \in 0..m : u[n] = [y \in Data[n] |-> WordsBody(p, u, n, y)]

\* An atom has no elements.
LEMMA AtomIsNoList == \A y \in Atoms : "list" \notin DOMAIN y
  BY DEF Atoms, Unread

\* What stands for a datum depends on levels below its own only.
LEMMA WordsBodyBelow ==
  ASSUME NEW p, NEW n \in Nat, NEW y \in Data[n], NEW m \in Nat, NEW u, NEW v,
         AgreeBelow(n, u, v, m)
  PROVE  WordsBody(p, u, n, y) = WordsBody(p, v, m, y)
<1>1. y \in Atoms \/ (n # 0 /\ y \in [list : Seq(Data[n - 1])])
  BY DataUnfold
<1>2. CASE y \in Atoms
  BY <1>2, AtomIsNoList DEF WordsBody
<1>3. ASSUME n # 0, NEW xs \in Seq(Data[n - 1]), y = List(xs)
      PROVE  WordsBody(p, u, n, y) = WordsBody(p, v, m, y)
  <2>1. "list" \in DOMAIN y /\ y.list = xs
    BY <1>3 DEF List
  <2>2. Len(xs) \in Nat /\ \A j \in 1..Len(xs) : xs[j] \in Data[n - 1]
    BY <1>3, ElementOfSeq, LenProperties
  <2>3. \A j \in 1..Len(xs) : u[n - 1][xs[j]] = v[m - 1][xs[j]]
    BY <2>2, <1>3 DEF AgreeBelow
  <2>4. ListWords(p, u[n - 1], xs) = ListWords(p, v[m - 1], xs)
    BY <2>2, <2>3, ListWordsAgree
  <2> QED BY <2>1, <2>4 DEF WordsBody
<1> QED BY <1>1, <1>2, <1>3 DEF List

\* The recursion of Words has a solution up to every level.
LEMMA WordsExistUpTo == ASSUME NEW p PROVE \A m \in Nat : \E u : IsWordsUpTo(p, m, u)
<1> DEFINE T == {m \in Nat : ~\E u : IsWordsUpTo(p, m, u)}
<1> SUFFICES ASSUME T # {} PROVE FALSE
  OBVIOUS
<1>1. PICK m \in T : \A k \in T : m <= k
  <2>1. T \subseteq Nat
    OBVIOUS
  <2> HIDE DEF T
  <2> QED BY <2>1, LeastNatural
<1>2. m \in Nat /\ ~\E u : IsWordsUpTo(p, m, u)
  BY <1>1
<1>3. CASE m = 0
  <2> DEFINE u == [n \in {0} |-> [y \in Data[0] |-> WordsBody(p, <<>>, 0, y)]]
  <2>1. u[0] = [y \in Data[0] |-> WordsBody(p, <<>>, 0, y)] /\ 0..0 = {0}
    OBVIOUS
  <2> HIDE DEF u
  <2>2. ASSUME NEW y \in Data[0] PROVE WordsBody(p, <<>>, 0, y) = WordsBody(p, u, 0, y)
    <3>1. AgreeBelow(0, <<>>, u, 0)
      BY DEF AgreeBelow
    <3>2. 0 \in Nat
      OBVIOUS
    <3> QED BY <3>1, <3>2, WordsBodyBelow
  <2>3. u[0] = [y \in Data[0] |-> WordsBody(p, u, 0, y)]
    BY <2>1, <2>2
  <2>4. IsWordsUpTo(p, 0, u)
    BY <2>1, <2>3 DEF IsWordsUpTo
  <2> QED BY <2>4, <1>2, <1>3
<1>4. CASE m # 0
  <2>1. m - 1 \in Nat /\ m - 1 \notin T
    BY <1>1, <1>2, <1>4
  <2>2. PICK u : IsWordsUpTo(p, m - 1, u)
    BY <2>1
  <2> DEFINE g(n) == [y \in Data[n] |-> WordsBody(p, u, n, y)]
             v == [n \in 0..m |-> IF n = m THEN g(m) ELSE u[n]]
  <2>3. v[m] = g(m) /\ \A n \in 0..(m - 1) : v[n] = u[n]
    BY <1>2
  <2> HIDE DEF v
  <2>4. ASSUME NEW n \in 0..m PROVE v[n] = [y \in Data[n] |-> WordsBody(p, v, n, y)]
    <3>1. n # 0 => u[n - 1] = v[n - 1]
      BY <2>3, <1>2
    <3>2. ASSUME NEW y \in Data[n] PROVE WordsBody(p, u, n, y) = WordsBody(p, v, n, y)
      <4>1. AgreeBelow(n, u, v, n)
        BY <3>1 DEF AgreeBelow
      <4>2. n \in Nat
        BY <1>2
      <4> QED BY <4>1, <4>2, WordsBodyBelow
    <3>3. v[n] = g(n)
      <4>1. n = m \/ n \in 0..(m - 1)
        BY <1>2
      <4> QED BY <4>1, <2>2, <2>3 DEF IsWordsUpTo
    <3> QED BY <3>2, <3>3
  <2> QED BY <2>4, <1>2 DEF IsWordsUpTo
<1> QED BY <1>3, <1>4

\* What Words computes.
LEMMA WordsUnfold ==
  ASSUME NEW p, NEW m \in Nat
  PROVE  \E u : IsWordsUpTo(p, m, u) /\ \A x : Words(p, m, x) = u[m][x]
<1>1. PICK w : IsWordsUpTo(p, m, w)
  BY WordsExistUpTo
<1> DEFINE v == [n \in 0..m |-> w[n]]
<1>2. ASSUME NEW n \in 0..m PROVE v[n] = [y \in Data[n] |-> WordsBody(p, v, n, y)]
  <2>1. n # 0 => n - 1 \in 0..m
    OBVIOUS
  <2>2. n # 0 => v[n - 1] = w[n - 1]
    BY <2>1
  <2>3. v[n] = w[n]
    OBVIOUS
  <2> HIDE DEF v
  <2>4. ASSUME NEW y \in Data[n] PROVE WordsBody(p, w, n, y) = WordsBody(p, v, n, y)
    <3>1. AgreeBelow(n, w, v, n)
      BY <2>2 DEF AgreeBelow
    <3>2. n \in Nat
      OBVIOUS
    <3> QED BY <3>1, <3>2, WordsBodyBelow
  <2> QED BY <2>3, <2>4, <1>1 DEF IsWordsUpTo
<1>3. v = [n \in 0..m |-> [y \in Data[n] |-> WordsBody(p, v, n, y)]]
  <2>1. v = [n \in 0..m |-> v[n]]
    OBVIOUS
  <2> HIDE DEF v
  <2> QED BY <2>1, <1>2
<1> HIDE DEF v
<1>4. \E u : u = [n \in 0..m |-> [y \in Data[n] |-> WordsBody(p, u, n, y)]]
  BY <1>3
<1>5. \E u : /\ u = [n \in 0..m |-> [y \in Data[n] |-> WordsBody(p, u, n, y)]]
             /\ \A x : Words(p, m, x) = u[m][x]
  BY <1>4, ZenonT(60) DEF Words, WordsBody
<1>6. PICK u : /\ u = [n \in 0..m |-> [y \in Data[n] |-> WordsBody(p, u, n, y)]]
               /\ \A x : Words(p, m, x) = u[m][x]
  BY <1>5
<1>7. IsWordsUpTo(p, m, u)
  BY <1>6 DEF IsWordsUpTo
<1> QED BY <1>6, <1>7

\* A datum stands the same way at every level that it is on.
LEMMA WordsNextLevel ==
  ASSUME NEW p, NEW m \in Nat, NEW u, IsWordsUpTo(p, m, u),
         NEW n \in Nat, n + 1 <= m, NEW y \in Data[n]
  PROVE  u[n][y] = u[n + 1][y]
<1> DEFINE T == {k \in Nat : k + 1 <= m /\ \E x \in Data[k] : u[k][x] # u[k + 1][x]}
<1>1. T = {}
  <2> SUFFICES ASSUME T # {} PROVE FALSE
    OBVIOUS
  <2>1. PICK k \in T : \A j \in T : k <= j
    <3>1. T \subseteq Nat
      OBVIOUS
    <3> HIDE DEF T
    <3> QED BY <3>1, LeastNatural
  <2>2. PICK x \in Data[k] : k \in Nat /\ k + 1 <= m /\ u[k][x] # u[k + 1][x]
    BY <2>1
  <2>3. x \in Data[k + 1]
    BY <2>2, DataGrows
  <2>4. u[k][x] = WordsBody(p, u, k, x) /\ u[k + 1][x] = WordsBody(p, u, k + 1, x)
    <3>1. k \in 0..m /\ k + 1 \in 0..m
      BY <2>2
    <3>2. u[k] = [z \in Data[k] |-> WordsBody(p, u, k, z)]
      BY <3>1 DEF IsWordsUpTo
    <3>3. u[k + 1] = [z \in Data[k + 1] |-> WordsBody(p, u, k + 1, z)]
      BY <3>1 DEF IsWordsUpTo
    <3> QED BY <3>2, <3>3, <2>3
  <2>5. AgreeBelow(k, u, u, k + 1)
    <3> SUFFICES ASSUME k # 0, NEW z \in Data[k - 1] PROVE u[k - 1][z] = u[(k + 1) - 1][z]
      BY DEF AgreeBelow
    <3>1. k - 1 \in Nat /\ (k - 1) + 1 = k /\ (k + 1) - 1 = k /\ k <= m
      BY <2>2
    <3>2. k - 1 \notin T
      BY <2>1, <3>1
    <3> QED BY <3>1, <3>2
  <2>6. PICK l \in Nat : l = k + 1 /\ k \in Nat
    BY <2>2
  <2>7. WordsBody(p, u, k, x) = WordsBody(p, u, l, x)
    <3>1. AgreeBelow(k, u, u, l) /\ x \in Data[k]
      BY <2>2, <2>5, <2>6
    <3> HIDE DEF T
    <3> QED BY <3>1, <2>6, WordsBodyBelow
  <2> QED BY <2>2, <2>4, <2>6, <2>7
<1>2. n \notin T
  BY <1>1
<1> QED BY <1>2

\* A datum stands the same way however many more levels are allowed.
LEMMA WordsAnyLevel ==
  ASSUME NEW p, NEW m \in Nat, NEW u, IsWordsUpTo(p, m, u),
         NEW n \in Nat, n <= m, NEW y \in Data[n]
  PROVE  u[n][y] = u[m][y]
<1> DEFINE T == {k \in Nat : n <= k /\ k <= m /\ u[n][y] # u[k][y]}
<1>1. T = {}
  <2> SUFFICES ASSUME T # {} PROVE FALSE
    OBVIOUS
  <2>1. PICK k \in T : \A j \in T : k <= j
    <3>1. T \subseteq Nat
      OBVIOUS
    <3> HIDE DEF T
    <3> QED BY <3>1, LeastNatural
  <2>2. k \in Nat /\ n <= k /\ k <= m /\ u[n][y] # u[k][y] /\ k # n
    BY <2>1
  <2>3. k - 1 \in Nat /\ n <= k - 1 /\ k - 1 <= m /\ k - 1 \notin T /\ (k - 1) + 1 = k
    BY <2>1, <2>2
  <2>4. y \in Data[k - 1]
    BY <2>3, DataGrows
  <2>5. u[k - 1][y] = u[k][y]
    BY <2>2, <2>3, <2>4, WordsNextLevel
  <2> QED BY <2>2, <2>3, <2>5
<1>2. m \notin T
  BY <1>1
<1> QED BY <1>2

\* What stands for an atom, and for a list.
LEMMA WordsOfAtom ==
  ASSUME NEW p, NEW m \in Nat, NEW x \in Atoms
  PROVE  Words(p, m, x) = {AtomWord(x)}
<1>1. PICK u : IsWordsUpTo(p, m, u) /\ \A y : Words(p, m, y) = u[m][y]
  BY WordsUnfold
<1>2. x \in Data[m]
  BY AtomIsDatum
<1>3. u[m] = [y \in Data[m] |-> WordsBody(p, u, m, y)]
  <2>1. m \in 0..m
    OBVIOUS
  <2> QED BY <2>1, <1>1 DEF IsWordsUpTo
<1>4. WordsBody(p, u, m, x) = {AtomWord(x)}
  BY AtomIsNoList DEF WordsBody
<1> QED BY <1>1, <1>2, <1>3, <1>4

\* w is the first of the pairs s, which hold the elements xs.
Holds(p, m, xs, s, w) ==
  /\ w = At(s, Len(xs), 1)
  /\ \A j \in 1..Len(xs) :
       p[s[j]].car \in Words(p, m, xs[j]) /\ p[s[j]].cdr = At(s, Len(xs), j + 1)

\* A list is stood for by pairs that hold its elements in order.
LEMMA WordsOfList ==
  ASSUME NEW p, NEW m \in Nat, NEW n \in Nat, n < m, NEW xs \in Seq(Data[n]), NEW w
  PROVE  w \in Words(p, m, List(xs)) <=>
           \E s \in [1..Len(xs) -> DOMAIN p] : Holds(p, m, xs, s, w)
<1>1. PICK u : IsWordsUpTo(p, m, u) /\ \A y : Words(p, m, y) = u[m][y]
  BY WordsUnfold
<1>2. PICK k \in Nat : k = n + 1 /\ k - 1 = n /\ k <= m /\ k \in 0..m
  OBVIOUS
<1>3. List(xs) \in Data[k]
  BY <1>2, ListIsDatum
<1>4. u[m][List(xs)] = u[k][List(xs)]
  <2>1. PICK y \in Data[k] : y = List(xs)
    BY <1>3
  <2>2. k <= m /\ IsWordsUpTo(p, m, u)
    BY <1>1, <1>2
  <2>3. u[k][y] = u[m][y]
    BY <2>2, WordsAnyLevel
  <2> QED BY <2>1, <2>3
<1>5. u[k][List(xs)] = WordsBody(p, u, k, List(xs))
  <2>1. u[k] = [y \in Data[k] |-> WordsBody(p, u, k, y)]
    BY <1>1, <1>2 DEF IsWordsUpTo
  <2> QED BY <2>1, <1>3
<1>6. WordsBody(p, u, k, List(xs)) = ListWords(p, u[n], xs)
  BY <1>2 DEF WordsBody, List
<1>7. Len(xs) \in Nat /\ \A j \in 1..Len(xs) : xs[j] \in Data[n]
  BY ElementOfSeq, LenProperties
<1>8. w \in Words(p, m, List(xs)) <=> Spined(p, u[n], xs, 1, w)
  BY <1>1, <1>4, <1>5, <1>6, <1>7, ListWordsAre
<1>9. \A j \in 1..Len(xs) : u[n][xs[j]] = Words(p, m, xs[j])
  <2> TAKE j \in 1..Len(xs)
  <2>1. n <= m /\ xs[j] \in Data[n]
    BY <1>7
  <2>2. PICK y \in Data[n] : y = xs[j]
    BY <2>1
  <2>3. u[n][y] = u[m][y]
    BY <2>1, <1>1, WordsAnyLevel
  <2> QED BY <2>2, <2>3, <1>1
<1>10. \A s : IsSpine(p, u[n], xs, 1, s, w) <=> Holds(p, m, xs, s, w)
  BY <1>9 DEF IsSpine, Holds
<1> QED BY <1>8, <1>10 DEF Spined

-----------------------------------------------------------------------------
\* The pairs q are in p, and the same there.
PartOf(q, p) == \A a \in DOMAIN q : a \in DOMAIN p /\ p[a] = q[a]

\* What stands for a datum does so whatever else there is in memory.
LEMMA WordsKept ==
  ASSUME NEW p, NEW q, PartOf(q, p), NEW m \in Nat, NEW n \in Nat, n <= m,
         NEW x \in Data[n], NEW w \in Words(q, m, x)
  PROVE  w \in Words(p, m, x)
<1> DEFINE Kept(k) == \A y \in Data[k] : \A v \in Words(q, m, y) : v \in Words(p, m, y)
           T == {k \in Nat : k <= m /\ ~Kept(k)}
<1>1. T = {}
  <2> SUFFICES ASSUME T # {} PROVE FALSE
    OBVIOUS
  <2>1. PICK k \in T : \A j \in T : k <= j
    <3>1. T \subseteq Nat
      OBVIOUS
    <3> HIDE DEF T
    <3> QED BY <3>1, LeastNatural
  <2>2. k \in Nat /\ k <= m /\ ~Kept(k)
    BY <2>1
  <2>3. PICK y \in Data[k] : \E v \in Words(q, m, y) : v \notin Words(p, m, y)
    BY <2>2
  <2>9. PICK v \in Words(q, m, y) : v \notin Words(p, m, y)
    BY <2>3
  <2>4. y \in Atoms \/ (k # 0 /\ y \in [list : Seq(Data[k - 1])])
    BY <2>2, DataUnfold
  <2>5. CASE y \in Atoms
    BY <2>9, <2>5, WordsOfAtom
  <2>6. ASSUME k # 0, NEW xs \in Seq(Data[k - 1]), y = List(xs) PROVE FALSE
    <3>1. k - 1 \in Nat /\ k - 1 < m /\ k - 1 <= m /\ k - 1 \notin T
      <4>1. k - 1 \in Nat /\ k - 1 < m /\ k - 1 <= m /\ ~(k <= k - 1)
        BY <2>2, <2>6
      <4> QED BY <4>1, <2>1
    <3>2. Kept(k - 1)
      BY <3>1
    <3>3. PICK l \in Nat : l = k - 1 /\ l < m
      BY <3>1
    <3>4. xs \in Seq(Data[l]) /\ v \in Words(q, m, List(xs)) /\ v \notin Words(p, m, List(xs))
      BY <2>9, <2>6, <3>3
    <3>5. PICK s \in [1..Len(xs) -> DOMAIN q] : Holds(q, m, xs, s, v)
      BY <3>3, <3>4, WordsOfList
    <3>6. s \in [1..Len(xs) -> DOMAIN p] /\ \A j \in 1..Len(xs) : p[s[j]] = q[s[j]]
      BY DEF PartOf
    <3>7. \A j \in 1..Len(xs) : xs[j] \in Data[k - 1]
      BY <2>6, ElementOfSeq
    <3>8. Holds(p, m, xs, s, v)
      <4> HIDE DEF Kept
      <4>1. ASSUME NEW j \in 1..Len(xs)
            PROVE  p[s[j]].car \in Words(p, m, xs[j]) /\ p[s[j]].cdr = At(s, Len(xs), j + 1)
        <5>1. q[s[j]].car \in Words(q, m, xs[j]) /\ q[s[j]].cdr = At(s, Len(xs), j + 1)
          BY <3>5 DEF Holds
        <5>2. q[s[j]].car \in Words(p, m, xs[j])
          BY <5>1, <3>2, <3>7 DEF Kept
        <5> QED BY <5>1, <5>2, <3>6
      <4>2. v = At(s, Len(xs), 1)
        BY <3>5 DEF Holds
      <4> QED BY <4>1, <4>2 DEF Holds
    <3>9. v \in Words(p, m, List(xs))
      BY <3>3, <3>4, <3>6, <3>8, WordsOfList
    <3> QED BY <3>4, <3>9
  <2> QED BY <2>4, <2>5, <2>6 DEF List
<1>2. n \notin T
  BY <1>1
<1> QED BY <1>2

\* A word that stands for a datum is no NULL, and if it is an address there is
\* a pair.
LEMMA AtomWords ==
  ASSUME NEW x \in Atoms PROVE ~IsPair(AtomWord(x)) /\ AtomWord(x) # NoDatum
<1>1. CASE "number" \in DOMAIN x
  <2>1. PICK n : AtomWord(x) = [fixnum |-> n]
    BY <1>1 DEF AtomWord, newFixnum
  <2> QED BY <2>1 DEF IsPair, NoDatum
<1>2. CASE "number" \notin DOMAIN x
  <2>1. AtomWord(x) = x
    BY <1>2 DEF AtomWord
  <2> QED BY <2>1 DEF IsPair, NoDatum, Atoms, Unread
<1> QED BY <1>1, <1>2

\* The end of a list is no pair.
LEMMA PairsAndNil ==
  /\ ~IsPair(Nil) /\ Nil # NoDatum
  /\ \A a : IsPair(PairAt(a)) /\ PairAt(a).pair = a /\ PairAt(a) # NoDatum /\ PairAt(a) # Nil
  BY DEF IsPair, Nil, PairAt, NoDatum, List

IsWord(p, w) == w # NoDatum /\ (IsPair(w) => \E a \in DOMAIN p : w = PairAt(a))

\* What stands for a datum is a word of memory.
LEMMA WordsAreWords ==
  ASSUME NEW p, NEW m \in Nat, NEW n \in Nat, n <= m, NEW x \in Data[n],
         NEW w \in Words(p, m, x)
  PROVE  IsWord(p, w)
<1>1. x \in Atoms \/ (n # 0 /\ x \in [list : Seq(Data[n - 1])])
  BY DataUnfold
<1>2. CASE x \in Atoms
  BY <1>2, WordsOfAtom, AtomWords DEF IsWord
<1>3. ASSUME n # 0, NEW xs \in Seq(Data[n - 1]), x = List(xs)
      PROVE  IsWord(p, w)
  <2>1. PICK l \in Nat : l = n - 1 /\ l < m
    BY <1>3
  <2>2. xs \in Seq(Data[l]) /\ w \in Words(p, m, List(xs))
    BY <1>3, <2>1
  <2>3. PICK s \in [1..Len(xs) -> DOMAIN p] : Holds(p, m, xs, s, w)
    BY <2>1, <2>2, WordsOfList
  <2>4. w = At(s, Len(xs), 1) /\ Len(xs) \in Nat
    BY <2>3, LenProperties DEF Holds
  <2>5. CASE Len(xs) = 0
    BY <2>4, <2>5, PairsAndNil DEF At, IsWord
  <2>6. CASE Len(xs) # 0
    <3>1. 1 \in 1..Len(xs) /\ ~(1 > Len(xs))
      BY <2>4, <2>6
    <3>2. w = PairAt(s[1]) /\ s[1] \in DOMAIN p
      BY <3>1, <2>4 DEF At
    <3> QED BY <3>2, PairsAndNil DEF IsWord
  <2> QED BY <2>5, <2>6
<1> QED BY <1>1, <1>2, <1>3 DEF List

\* What holds of the first pair of a list and is passed on holds of them all.
LEMMA SpineReached ==
  ASSUME NEW p, NEW n \in Nat, NEW s, NEW K,
         \A j \in 1..n : p[s[j]].cdr = At(s, n, j + 1),
         \A j \in 1..n : s[j] \in K /\ IsPair(p[s[j]].cdr) => p[s[j]].cdr.pair \in K,
         n # 0 => s[1] \in K
  PROVE  \A j \in 1..n : s[j] \in K
<1> DEFINE T == {j \in 1..n : s[j] \notin K}
<1> SUFFICES ASSUME T # {} PROVE FALSE
  OBVIOUS
<1>1. PICK j \in T : \A i \in T : j <= i
  <2>1. T \subseteq Nat
    OBVIOUS
  <2> HIDE DEF T
  <2> QED BY <2>1, LeastNatural
<1>2. j \in 1..n /\ s[j] \notin K /\ j # 1
  BY <1>1
<1>3. j - 1 \in 1..n /\ j - 1 \notin T /\ (j - 1) + 1 = j /\ ~(j > n)
  <2>1. j - 1 \in 1..n /\ ~(j <= j - 1) /\ (j - 1) + 1 = j /\ ~(j > n)
    BY <1>2
  <2> QED BY <2>1, <1>1
<1>4. s[j - 1] \in K
  BY <1>3
<1>5. p[s[j - 1]].cdr = PairAt(s[j])
  BY <1>3 DEF At
<1> QED BY <1>2, <1>3, <1>4, <1>5, PairsAndNil

-----------------------------------------------------------------------------
(***************************************************************************)
(* What a collection finds.                                                *)
(***************************************************************************)
LedFrom(m, as) == AddressesOf(UNION {{m.pairs[a].car, m.pairs[a].cdr} : a \in as})

LiveBody(m, u, n) ==
  IF n = 0 THEN AddressesOf(HandleWords(m)) \cap DOMAIN m.pairs
  ELSE u[n - 1] \cup (LedFrom(m, u[n - 1]) \cap DOMAIN m.pairs)

\* The recursion of Live has a solution.
LEMMA LiveExists ==
  ASSUME NEW m
  PROVE  \A k \in Nat : \E u : u = [n \in 0..k |-> LiveBody(m, u, n)]
<1> DEFINE T == {k \in Nat : ~\E u : u = [n \in 0..k |-> LiveBody(m, u, n)]}
<1> SUFFICES ASSUME T # {} PROVE FALSE
  OBVIOUS
<1>1. PICK k \in T : \A i \in T : k <= i
  <2>1. T \subseteq Nat
    OBVIOUS
  <2> HIDE DEF T
  <2> QED BY <2>1, LeastNatural
<1>2. k \in Nat /\ ~\E u : u = [n \in 0..k |-> LiveBody(m, u, n)]
  BY <1>1
<1>3. CASE k = 0
  <2> DEFINE u == [n \in 0..k |-> LiveBody(m, <<>>, 0)]
  <2>1. \A n \in 0..k : n = 0
    BY <1>3
  <2>2. u = [n \in 0..k |-> LiveBody(m, u, n)]
    BY <2>1 DEF LiveBody
  <2> HIDE DEF u
  <2> QED BY <2>2, <1>2
<1>4. CASE k # 0
  <2>1. k - 1 \in Nat /\ k - 1 \notin T
    <3>1. k - 1 \in Nat /\ ~(k <= k - 1)
      BY <1>2, <1>4
    <3> QED BY <3>1, <1>1
  <2>2. PICK u : u = [n \in 0..(k - 1) |-> LiveBody(m, u, n)]
    BY <2>1
  <2> DEFINE w == [n \in 0..k |-> IF n = k THEN LiveBody(m, u, k) ELSE u[n]]
  <2>3. w = [n \in 0..k |-> w[n]]
    OBVIOUS
  <2>4. /\ \A n \in 0..(k - 1) : w[n] = u[n]
        /\ w[k] = LiveBody(m, u, k)
    BY <1>2, <2>1
  <2> HIDE DEF w
  <2>5. \A n \in 0..(k - 1) : u[n] = LiveBody(m, u, n)
    BY <2>2
  <2>6. ASSUME NEW n \in 0..k
        PROVE  w[n] = LiveBody(m, w, n)
    <3>1. LiveBody(m, u, n) = LiveBody(m, w, n)
      <4>1. n # 0 => w[n - 1] = u[n - 1]
        BY <2>4, <1>2
      <4> QED BY <4>1 DEF LiveBody
    <3>2. w[n] = LiveBody(m, u, n)
      <4>1. CASE n = k
        BY <4>1, <2>4
      <4>2. CASE n # k
        <5>1. n \in 0..(k - 1)
          BY <4>2, <1>2
        <5> QED BY <5>1, <2>4, <2>5
      <4> QED BY <4>1, <4>2
    <3> QED BY <3>1, <3>2
  <2>7. w = [n \in 0..k |-> LiveBody(m, w, n)]
    BY <2>3, <2>6
  <2> QED BY <2>7, <1>2
<1> QED BY <1>3, <1>4

\* What Live computes, round by round.
LEMMA LiveUnfolds ==
  ASSUME NEW m, IsFiniteSet(DOMAIN m.pairs)
  PROVE  \E u : /\ \A n \in 0..Cardinality(DOMAIN m.pairs) : u[n] = LiveBody(m, u, n)
                /\ Live(m) = u[Cardinality(DOMAIN m.pairs)]
<1>1. PICK k \in Nat : k = Cardinality(DOMAIN m.pairs)
  BY FS_CardinalityType
<1>2. \E u : u = [n \in 0..Cardinality(DOMAIN m.pairs) |-> LiveBody(m, u, n)]
  BY <1>1, LiveExists
<1>3. \E u : /\ u = [n \in 0..Cardinality(DOMAIN m.pairs) |-> LiveBody(m, u, n)]
             /\ Live(m) = u[Cardinality(DOMAIN m.pairs)]
  BY <1>2, ZenonT(60) DEF Live, LiveBody, LedFrom
<1> QED BY <1>3

\* A collection finds all that it can: every step but the last finds another
\* pair, and there are no more pairs than steps.
LEMMA LiveIsClosed ==
  ASSUME NEW m, IsFiniteSet(DOMAIN m.pairs)
  PROVE  /\ Live(m) \subseteq DOMAIN m.pairs
         /\ AddressesOf(HandleWords(m)) \cap DOMAIN m.pairs \subseteq Live(m)
         /\ LedFrom(m, Live(m)) \cap DOMAIN m.pairs \subseteq Live(m)
<1>1. PICK k \in Nat : k = Cardinality(DOMAIN m.pairs)
  BY FS_CardinalityType
<1>2. PICK D : D = DOMAIN m.pairs
  OBVIOUS
<1>3. PICK u : (\A n \in 0..k : u[n] = LiveBody(m, u, n)) /\ Live(m) = u[k]
  BY <1>1, LiveUnfolds
<1> DEFINE Start == AddressesOf(HandleWords(m)) \cap D
           Closed(n) == LedFrom(m, u[n]) \cap D \subseteq u[n]
           Fine(n) == /\ u[n] \subseteq D /\ Start \subseteq u[n]
                      /\ Closed(n) \/ n + 1 <= Cardinality(u[n])
           T == {n \in 0..k : ~Fine(n)}
<1>4. ASSUME NEW S \in SUBSET D
      PROVE  IsFiniteSet(S) /\ Cardinality(S) \in Nat /\ Cardinality(S) <= k
  BY <1>1, <1>2, FS_Subset, FS_CardinalityType
<1>5. Fine(0)
  <2>1. u[0] = Start
    <3>1. 0 \in 0..k
      OBVIOUS
    <3> QED BY <3>1, <1>2, <1>3 DEF LiveBody
  <2>2. CASE u[0] = {}
    <3>1. LedFrom(m, {}) = {}
      BY DEF LedFrom, AddressesOf
    <3> QED BY <2>1, <2>2, <3>1
  <2>3. CASE u[0] # {}
    <3>1. u[0] \in SUBSET D
      BY <2>1
    <3> HIDE DEF Start
    <3>2. IsFiniteSet(u[0]) /\ Cardinality(u[0]) \in Nat /\ Cardinality(u[0]) # 0
      BY <2>3, <3>1, <1>4, FS_EmptySet
    <3>3. 0 + 1 <= Cardinality(u[0])
      BY <3>2
    <3> QED BY <2>1, <3>1, <3>3
  <2> QED BY <2>2, <2>3
<1>6. ASSUME NEW n \in 0..k, n # 0, Fine(n - 1) PROVE Fine(n)
  <2>1. u[n] = u[n - 1] \cup (LedFrom(m, u[n - 1]) \cap D)
    BY <1>2, <1>3, <1>6 DEF LiveBody
  <2>2. u[n] \subseteq D /\ Start \subseteq u[n] /\ u[n - 1] \subseteq u[n]
    BY <2>1, <1>6
  <2>3. CASE Closed(n - 1)
    <3>1. u[n] = u[n - 1]
      BY <2>1, <2>3
    <3> QED BY <3>1, <2>2, <2>3
  <2>4. CASE ~Closed(n - 1)
    <3>1. u[n] # u[n - 1]
      BY <2>1, <2>4
    <3>2. n <= Cardinality(u[n - 1])
      <4>1. (n - 1) + 1 = n
        BY <1>6
      <4> QED BY <4>1, <2>4, <1>6
    <3>3. u[n] \in SUBSET D /\ u[n - 1] \in SUBSET D /\ u[n - 1] \in SUBSET u[n]
      BY <2>2
    <3> HIDE DEF Start, Closed
    <3>4. /\ Cardinality(u[n]) \in Nat /\ Cardinality(u[n - 1]) \in Nat
          /\ Cardinality(u[n - 1]) <= Cardinality(u[n]) /\ Cardinality(u[n]) # Cardinality(u[n - 1])
      BY <3>1, <3>3, <1>4, FS_Subset
    <3>5. n + 1 <= Cardinality(u[n])
      BY <3>2, <3>4
    <3> QED BY <2>2, <3>5
  <2> QED BY <2>3, <2>4
<1> HIDE DEF Fine
<1>7. T = {}
  <2> SUFFICES ASSUME T # {} PROVE FALSE
    OBVIOUS
  <2>1. PICK n \in T : \A i \in T : n <= i
    <3>1. T \subseteq Nat
      OBVIOUS
    <3> HIDE DEF T
    <3> QED BY <3>1, LeastNatural
  <2>2. n # 0
    BY <2>1, <1>5
  <2>3. n - 1 \in 0..k /\ n - 1 \notin T
    <3>1. n - 1 \in 0..k /\ ~(n <= n - 1)
      BY <2>1, <2>2
    <3> QED BY <3>1, <2>1
  <2>4. Fine(n)
    BY <2>1, <2>2, <2>3, <1>6
  <2> QED BY <2>1, <2>4
<1>8. Fine(k)
  <2>1. k \in 0..k
    OBVIOUS
  <2> QED BY <2>1, <1>7
<1>9. ~(k + 1 <= Cardinality(u[k]))
  <2>1. Cardinality(u[k]) \in Nat /\ Cardinality(u[k]) <= k
    BY <1>4, <1>8 DEF Fine
  <2> QED BY <2>1
<1> QED BY <1>2, <1>3, <1>8, <1>9 DEF Fine

\* No two pairs are moved to the same place.
LEMMA PlacesApart ==
  ASSUME NEW live, IsFiniteSet(live), live \subseteq Nat, NEW space \in {0, 1},
         NEW a \in live, NEW b \in live
  PROVE  /\ NewPlace(live, space, a) \in Nat
         /\ NewPlace(live, space, a) = NewPlace(live, space, b) => a = b
<1> DEFINE Below(c) == {d \in live : d < c}
<1>1. \A c : IsFiniteSet(Below(c)) /\ Cardinality(Below(c)) \in Nat
  <2> TAKE c
  <2>1. Below(c) \in SUBSET live
    OBVIOUS
  <2> HIDE DEF Below
  <2> QED BY <2>1, FS_Subset, FS_CardinalityType
<1>2. ASSUME NEW c \in live, NEW d \in live, c < d
      PROVE  Cardinality(Below(c)) < Cardinality(Below(d))
  <2>0. c \in Nat /\ d \in Nat /\ \A e \in live : e \in Nat
    OBVIOUS
  <2>4. \A e \in live : e < c => e < d
    BY <2>0, <1>2
  <2>1. Below(c) \in SUBSET Below(d)
    BY <2>4
  <2>2. c \in Below(d) /\ c \notin Below(c)
    BY <1>2
  <2> HIDE DEF Below
  <2>3. Cardinality(Below(c)) <= Cardinality(Below(d)) /\ Cardinality(Below(d)) # Cardinality(Below(c))
    BY <2>1, <2>2, <1>1, FS_Subset
  <2> QED BY <2>3, <1>1
<1>3. \A c : NewPlace(live, space, c) = 2 * Cardinality(Below(c)) + (1 - space)
  BY DEF NewPlace
<1> HIDE DEF Below
<1>4. PICK i \in Nat, j \in Nat : i = Cardinality(Below(a)) /\ j = Cardinality(Below(b))
  BY <1>1
<1>5. 2 * i + (1 - space) \in Nat
  OBVIOUS
<1>6. ASSUME 2 * i + (1 - space) = 2 * j + (1 - space) PROVE i = j
  BY <1>6
<1>7. a < b \/ b < a \/ a = b
  <2>1. a \in Nat /\ b \in Nat
    OBVIOUS
  <2> QED BY <2>1
<1>8. i = j => a = b
  <2>1. a < b => i < j
    BY <1>2, <1>4
  <2>2. b < a => j < i
    BY <1>2, <1>4
  <2>3. ~(i < i)
    OBVIOUS
  <2> QED BY <2>1, <2>2, <2>3, <1>7
<1> QED BY <1>3, <1>4, <1>5, <1>6, <1>8

\* There is always a new address.
LEMMA AddressIsNew ==
  ASSUME NEW m, IsFiniteSet(DOMAIN m.pairs), m.space \in {0, 1}
  PROVE  NewAddress(m) \in Nat /\ NewAddress(m) \notin DOMAIN m.pairs
<1>1. PICK k \in Nat : k = Cardinality(DOMAIN m.pairs)
  BY FS_CardinalityType
<1>2. PICK e \in {0, 1} : e = m.space
  OBVIOUS
<1> DEFINE S == {2 * n + e : n \in 0..k}
<1>3. \E a \in S : a \notin DOMAIN m.pairs
  <2> SUFFICES ASSUME \A n \in 0..k : 2 * n + e \in DOMAIN m.pairs PROVE FALSE
    OBVIOUS
  <2> DEFINE f == [n \in 0..k |-> 2 * n + e]
  <2>1. f \in [0..k -> DOMAIN m.pairs]
    OBVIOUS
  <2>2. \A i, j \in 0..k : f[i] = f[j] => i = j
    OBVIOUS
  <2>3. IsFiniteSet(0..k) /\ Cardinality(0..k) = k + 1
    <3>1. 0 \in Int /\ k \in Int /\ ~(0 > k) /\ k - 0 + 1 = k + 1
      OBVIOUS
    <3> QED BY <3>1, FS_Interval
  <2>4. Cardinality(DOMAIN m.pairs) < Cardinality(0..k)
    BY <1>1, <2>3
  <2> HIDE DEF f
  <2>5. \E i, j \in 0..k : i # j /\ f[i] = f[j]
    BY <2>1, <2>3, <2>4, FS_PigeonHole
  <2> QED BY <2>2, <2>5
<1>4. NewAddress(m) = CHOOSE a \in S : a \notin DOMAIN m.pairs
  BY <1>1, <1>2 DEF NewAddress
<1>5. \A a \in S : a \in Nat
  OBVIOUS
<1> HIDE DEF S
<1> QED BY <1>3, <1>4, <1>5

-----------------------------------------------------------------------------
(***************************************************************************)
(* What is in memory while the text is read.  The pairs q are those of the *)
(* data that calls have returned, and are not written any more.  The other *)
(* pairs that the Handles lead to are those of the lists that the calls    *)
(* build: each list has its own.                                           *)
(***************************************************************************)
\* m has the parts of memory: what a proof about a step needs of their types.
IsMemory(m) ==
  /\ m = [space |-> m.space, pairs |-> m.pairs, frames |-> m.frames, held |-> m.held]
  /\ m.space \in {0, 1}
  /\ IsFiniteSet(DOMAIN m.pairs) /\ DOMAIN m.pairs \subseteq Nat
  /\ m.pairs = [a \in DOMAIN m.pairs |-> [car |-> m.pairs[a].car, cdr |-> m.pairs[a].cdr]]
  /\ \E S : m.frames \in Seq(S)

\* The pairs s, in p, are the list of the elements xs, whose words lead into q,
\* and the Handles h are its ends.
Built(p, q, n, xs, h, s) ==
  /\ h.head = At(s, Len(xs), 1)
  /\ h.tail = IF Len(xs) = 0 THEN Nil ELSE PairAt(s[Len(xs)])
  /\ \A j \in 1..Len(xs) :
       /\ s[j] \in DOMAIN p /\ s[j] \notin DOMAIN q
       /\ p[s[j]].car \in Words(q, n, xs[j])
       /\ p[s[j]].cdr = At(s, Len(xs), j + 1)
       /\ \A k \in 1..Len(xs) : s[j] = s[k] => j = k

\* The lists of the calls in stack st are the pairs ss.
AllBuilt(m, q, n, st, ss) ==
  /\ IsMemory(m)
  /\ PartOf(q, m.pairs)
  /\ Len(m.frames) = Len(st)
  /\ \A i \in 1..Len(st) : Built(m.pairs, q, n, st[i].items, m.frames[i], ss[i])
  /\ \A i \in 1..Len(st), k \in 1..Len(st) :
       i # k => \A j \in 1..Len(st[i].items), l \in 1..Len(st[k].items) : ss[i][j] # ss[k][l]

\* The pairs that a collection makes are the live ones.
ByCollection(m, live) ==
  /\ live = Live(m)
  /\ live \subseteq DOMAIN m.pairs
  /\ IsFiniteSet(live) /\ live \subseteq Nat
  /\ Collected(m).space = 1 - m.space
  /\ DOMAIN Collected(m).pairs = {NewPlace(live, m.space, b) : b \in live}
  /\ \A b \in live :
       Collected(m).pairs[NewPlace(live, m.space, b)] =
         [car |-> Moved(live, m.space, m.pairs[b].car),
          cdr |-> Moved(live, m.space, m.pairs[b].cdr)]
  /\ Collected(m).frames = [i \in DOMAIN m.frames |-> MovedHandles(live, m.space, m.frames[i])]
  /\ Collected(m).held = Moved(live, m.space, m.held)
  /\ Collected(m) = [space |-> Collected(m).space, pairs |-> Collected(m).pairs,
                     frames |-> Collected(m).frames, held |-> Collected(m).held]
  /\ Collected(m).pairs = [a \in DOMAIN Collected(m).pairs |->
                            [car |-> Collected(m).pairs[a].car, cdr |-> Collected(m).pairs[a].cdr]]

\* A collection in these terms, without its CHOOSE.
LEMMA CollectedPairs ==
  ASSUME NEW m, IsMemory(m)
  PROVE  \E live : ByCollection(m, live)
<1>1. PICK live : live = Live(m)
  OBVIOUS
<1>2. IsFiniteSet(DOMAIN m.pairs) /\ DOMAIN m.pairs \subseteq Nat /\ m.space \in {0, 1}
  BY DEF IsMemory
<1>3. live \subseteq DOMAIN m.pairs
  BY <1>1, <1>2, LiveIsClosed
<1>4. IsFiniteSet(live) /\ live \subseteq Nat
  BY <1>2, <1>3, FS_Subset
<1>5. PICK e \in {0, 1} : e = m.space
  BY <1>2
<1> DEFINE original(a) == m.pairs[CHOOSE b \in live : NewPlace(live, e, b) = a]
           copies == {NewPlace(live, e, b) : b \in live}
<1>6. \A b \in live : original(NewPlace(live, e, b)) = m.pairs[b]
  <2> TAKE b \in live
  <2>1. PICK c : c = CHOOSE d \in live : NewPlace(live, e, d) = NewPlace(live, e, b)
    OBVIOUS
  <2>2. c \in live /\ NewPlace(live, e, c) = NewPlace(live, e, b)
    BY <2>1
  <2>3. c = b
    BY <2>2, <1>4, PlacesApart
  <2> QED BY <2>1, <2>3
<1>7. Collected(m) =
        [space  |-> 1 - e,
         pairs  |-> [a \in copies |-> [car |-> Moved(live, e, original(a).car),
                                       cdr |-> Moved(live, e, original(a).cdr)]],
         frames |-> [i \in DOMAIN m.frames |-> MovedHandles(live, e, m.frames[i])],
         held   |-> Moved(live, e, m.held)]
  BY <1>1, <1>5 DEF Collected
<1> HIDE DEF original
<1>8. /\ DOMAIN Collected(m).pairs = copies
      /\ \A a \in copies : Collected(m).pairs[a] = [car |-> Moved(live, e, original(a).car),
                                                    cdr |-> Moved(live, e, original(a).cdr)]
      /\ Collected(m).space = 1 - e
      /\ Collected(m).frames = [i \in DOMAIN m.frames |-> MovedHandles(live, e, m.frames[i])]
      /\ Collected(m).held = Moved(live, e, m.held)
      /\ Collected(m) = [space |-> Collected(m).space, pairs |-> Collected(m).pairs,
                         frames |-> Collected(m).frames, held |-> Collected(m).held]
  BY <1>7
<1>11. Collected(m).pairs = [a \in DOMAIN Collected(m).pairs |->
                              [car |-> Collected(m).pairs[a].car, cdr |-> Collected(m).pairs[a].cdr]]
  <2> DEFINE g(a) == [car |-> Moved(live, e, original(a).car), cdr |-> Moved(live, e, original(a).cdr)]
  <2>1. PICK f : f = [a \in copies |-> g(a)]
    OBVIOUS
  <2>2. Collected(m).pairs = f
    BY <1>7, <2>1
  <2>3. DOMAIN f = copies /\ \A a \in copies : f[a] = [car |-> f[a].car, cdr |-> f[a].cdr] /\ f[a] = g(a)
    BY <2>1
  <2> HIDE DEF g
  <2>4. f = [a \in DOMAIN f |-> f[a]]
    BY <2>1, <2>3
  <2>5. f = [a \in DOMAIN f |-> [car |-> f[a].car, cdr |-> f[a].cdr]]
    BY <2>4, <2>3
  <2> QED BY <2>2, <2>5
<1>9. \A b \in live : Collected(m).pairs[NewPlace(live, e, b)] =
                        [car |-> Moved(live, e, m.pairs[b].car), cdr |-> Moved(live, e, m.pairs[b].cdr)]
  BY <1>6, <1>8
<1> HIDE DEF copies
<1>10. copies = {NewPlace(live, e, b) : b \in live}
  BY DEF copies
<1>12. ByCollection(m, live)
  BY <1>1, <1>3, <1>4, <1>5, <1>8, <1>9, <1>10, <1>11 DEF ByCollection
<1> QED BY <1>12

\* What a live pair leads to is live.
LEMMA LedLive ==
  ASSUME NEW m, IsFiniteSet(DOMAIN m.pairs), NEW a \in Live(m)
  PROVE  /\ IsPair(m.pairs[a].car) /\ m.pairs[a].car.pair \in DOMAIN m.pairs
            => m.pairs[a].car.pair \in Live(m)
         /\ IsPair(m.pairs[a].cdr) /\ m.pairs[a].cdr.pair \in DOMAIN m.pairs
            => m.pairs[a].cdr.pair \in Live(m)
<1>1. LedFrom(m, Live(m)) \cap DOMAIN m.pairs \subseteq Live(m)
  BY LiveIsClosed
<1>2. \A v \in {m.pairs[a].car, m.pairs[a].cdr} : IsPair(v) => v.pair \in LedFrom(m, Live(m))
  <2>1. \A v \in {m.pairs[a].car, m.pairs[a].cdr} :
          v \in UNION {{m.pairs[b].car, m.pairs[b].cdr} : b \in Live(m)}
    BY Zenon
  <2> QED BY <2>1 DEF LedFrom, AddressesOf
<1> QED BY <1>1, <1>2

\* The words that Handles hold lead to live pairs.
LEMMA HandlesLive ==
  ASSUME NEW m, IsFiniteSet(DOMAIN m.pairs), NEW w, IsPair(w), w.pair \in DOMAIN m.pairs,
         \/ w = m.held
         \/ \E i \in DOMAIN m.frames : w = m.frames[i].head \/ w = m.frames[i].tail
  PROVE  w.pair \in Live(m)
<1>1. w \in HandleWords(m)
  BY DEF HandleWords, Range
<1>2. w.pair \in AddressesOf(HandleWords(m))
  BY <1>1 DEF AddressesOf
<1> QED BY <1>2, LiveIsClosed

\* The word of the next pair of a list, when the pairs of the list are moved.
LEMMA MovedAt ==
  ASSUME NEW live, NEW e, NEW n \in Nat, NEW s, \A j \in 1..n : s[j] \in live,
         NEW j \in 1..n + 1,
         NEW t, \A i \in 1..n : t[i] = NewPlace(live, e, s[i])
  PROVE  Moved(live, e, At(s, n, j)) = At(t, n, j)
<1>1. CASE j > n
  BY <1>1, PairsAndNil DEF At, Moved
<1>2. CASE ~(j > n)
  <2>1. j \in 1..n
    BY <1>2
  <2>2. At(s, n, j) = PairAt(s[j]) /\ At(t, n, j) = PairAt(NewPlace(live, e, s[j]))
    BY <1>2, <2>1 DEF At
  <2> QED BY <2>1, <2>2, PairsAndNil DEF Moved
<1> QED BY <1>1, <1>2

\* What is in q after a collection.
MovedPairs(m, q) ==
  [a \in {NewPlace(Live(m), m.space, b) : b \in Live(m) \cap DOMAIN q} |-> Collected(m).pairs[a]]

\* The finished pairs that are live are where a collection puts them.
LEMMA MovedPairsAre ==
  ASSUME NEW m, IsMemory(m), NEW q, PartOf(q, m.pairs)
  PROVE  /\ PartOf(MovedPairs(m, q), Collected(m).pairs)
         /\ \A b \in Live(m) \cap DOMAIN q :
              /\ NewPlace(Live(m), m.space, b) \in DOMAIN MovedPairs(m, q)
              /\ MovedPairs(m, q)[NewPlace(Live(m), m.space, b)] =
                   [car |-> Moved(Live(m), m.space, q[b].car),
                    cdr |-> Moved(Live(m), m.space, q[b].cdr)]
         /\ \A b \in Live(m) \ DOMAIN q :
              NewPlace(Live(m), m.space, b) \notin DOMAIN MovedPairs(m, q)
<1>0. PICK live : ByCollection(m, live)
  BY CollectedPairs
<1>1. /\ live = Live(m)
      /\ IsFiniteSet(live) /\ live \subseteq Nat
      /\ DOMAIN Collected(m).pairs = {NewPlace(live, m.space, b) : b \in live}
      /\ \A b \in live :
           Collected(m).pairs[NewPlace(live, m.space, b)] =
             [car |-> Moved(live, m.space, m.pairs[b].car),
              cdr |-> Moved(live, m.space, m.pairs[b].cdr)]
  BY <1>0 DEF ByCollection
<1>2. PICK e \in {0, 1} : e = m.space
  BY DEF IsMemory
<1>3. PICK to : to = {NewPlace(live, e, b) : b \in live \cap DOMAIN q}
  OBVIOUS
<1>4. MovedPairs(m, q) = [a \in to |-> Collected(m).pairs[a]]
  BY <1>1, <1>2, <1>3 DEF MovedPairs
<1>5. DOMAIN MovedPairs(m, q) = to /\ \A a \in to : MovedPairs(m, q)[a] = Collected(m).pairs[a]
  BY <1>4
<1>6. to \subseteq DOMAIN Collected(m).pairs
  BY <1>1, <1>2, <1>3
<1>7. ASSUME NEW b \in live \cap DOMAIN q
      PROVE  /\ NewPlace(live, e, b) \in to
             /\ MovedPairs(m, q)[NewPlace(live, e, b)] =
                  [car |-> Moved(live, e, q[b].car), cdr |-> Moved(live, e, q[b].cdr)]
  <2>1. NewPlace(live, e, b) \in to
    BY <1>3
  <2>2. m.pairs[b] = q[b]
    BY DEF PartOf
  <2> QED BY <2>1, <2>2, <1>1, <1>2, <1>5
<1>8. ASSUME NEW b \in live \ DOMAIN q, NewPlace(live, e, b) \in to
      PROVE  FALSE
  <2>1. PICK c \in live \cap DOMAIN q : NewPlace(live, e, c) = NewPlace(live, e, b)
    BY <1>3, <1>8
  <2>2. c \in live /\ b \in live
    OBVIOUS
  <2>3. c = b
    BY <1>1, <2>1, <2>2, PlacesApart
  <2> QED BY <2>3
<1> QED BY <1>1, <1>2, <1>5, <1>6, <1>7, <1>8 DEF PartOf

\* What is live stands for the same datum when it was moved.
LEMMA WordsMoved ==
  ASSUME NEW m, IsMemory(m), NEW q, PartOf(q, m.pairs),
         NEW h \in Nat, NEW n \in Nat, n <= h, NEW x \in Data[n], NEW w \in Words(q, h, x),
         IsPair(w) => w.pair \in Live(m)
  PROVE  Moved(Live(m), m.space, w) \in Words(MovedPairs(m, q), h, x)
<1>0. IsFiniteSet(DOMAIN m.pairs)
  BY DEF IsMemory
<1>1. PICK live, e, r : live = Live(m) /\ e = m.space /\ r = MovedPairs(m, q)
  OBVIOUS
<1>2. \A b \in live \cap DOMAIN q :
        /\ NewPlace(live, e, b) \in DOMAIN r
        /\ r[NewPlace(live, e, b)] = [car |-> Moved(live, e, q[b].car),
                                      cdr |-> Moved(live, e, q[b].cdr)]
  BY <1>1, MovedPairsAre
<1> DEFINE Kept(k) == \A y \in Data[k] : \A v \in Words(q, h, y) :
                        (IsPair(v) => v.pair \in live) => Moved(live, e, v) \in Words(r, h, y)
           T == {k \in Nat : k <= h /\ ~Kept(k)}
<1>3. T = {}
  <2> SUFFICES ASSUME T # {} PROVE FALSE
    OBVIOUS
  <2>1. PICK k \in T : \A j \in T : k <= j
    <3>1. T \subseteq Nat
      OBVIOUS
    <3> HIDE DEF T
    <3> QED BY <3>1, LeastNatural
  <2>2. k \in Nat /\ k <= h /\ ~Kept(k)
    BY <2>1
  <2>3. PICK y \in Data[k] : \E v \in Words(q, h, y) :
          (IsPair(v) => v.pair \in live) /\ Moved(live, e, v) \notin Words(r, h, y)
    BY <2>2
  <2>4. PICK v \in Words(q, h, y) :
          (IsPair(v) => v.pair \in live) /\ Moved(live, e, v) \notin Words(r, h, y)
    BY <2>3
  <2>5. y \in Atoms \/ (k # 0 /\ y \in [list : Seq(Data[k - 1])])
    BY <2>2, DataUnfold
  <2>6. CASE y \in Atoms
    <3>1. v = AtomWord(y) /\ Words(r, h, y) = {AtomWord(y)}
      BY <2>6, WordsOfAtom
    <3>2. Moved(live, e, v) = v
      BY <3>1, <2>6, AtomWords DEF Moved
    <3> QED BY <3>1, <3>2, <2>4
  <2>7. ASSUME k # 0, NEW xs \in Seq(Data[k - 1]), y = List(xs) PROVE FALSE
    <3>1. k - 1 \in Nat /\ k - 1 < h /\ k - 1 <= h /\ k - 1 \notin T
      <4>1. k - 1 \in Nat /\ k - 1 < h /\ k - 1 <= h /\ ~(k <= k - 1)
        BY <2>2, <2>7
      <4> QED BY <4>1, <2>1
    <3>2. Kept(k - 1)
      BY <3>1
    <3>3. PICK l \in Nat : l = k - 1 /\ l < h /\ l <= h
      BY <3>1
    <3>4. xs \in Seq(Data[l]) /\ v \in Words(q, h, List(xs)) /\ Moved(live, e, v) \notin Words(r, h, List(xs))
      BY <2>4, <2>7, <3>3
    <3>5. PICK s \in [1..Len(xs) -> DOMAIN q] : Holds(q, h, xs, s, v)
      BY <3>3, <3>4, WordsOfList
    <3>6. PICK n1 \in Nat : n1 = Len(xs)
      BY <3>4, LenProperties
    <3>7. \A j \in 1..n1 : xs[j] \in Data[l] /\ s[j] \in DOMAIN q
      BY <3>4, <3>6, ElementOfSeq
    <3>8. /\ v = At(s, n1, 1)
          /\ \A j \in 1..n1 : q[s[j]].car \in Words(q, h, xs[j]) /\ q[s[j]].cdr = At(s, n1, j + 1)
      BY <3>5, <3>6 DEF Holds
    <3>9. ASSUME NEW a \in DOMAIN q PROVE a \in DOMAIN m.pairs /\ m.pairs[a] = q[a]
      BY DEF PartOf
    <3>10. \A j \in 1..n1 : s[j] \in live
      <4>1. ASSUME NEW j \in 1..n1, s[j] \in live, IsPair(q[s[j]].cdr)
            PROVE  q[s[j]].cdr.pair \in live
        <5>1. q[s[j]].cdr = At(s, n1, j + 1)
          BY <3>8
        <5>2. ~(j + 1 > n1)
          BY <5>1, <4>1, PairsAndNil DEF At
        <5>3. j + 1 \in 1..n1 /\ q[s[j]].cdr = PairAt(s[j + 1])
          BY <5>1, <5>2 DEF At
        <5>4. q[s[j]].cdr.pair \in DOMAIN m.pairs /\ m.pairs[s[j]] = q[s[j]]
          BY <5>3, <3>7, <3>9, PairsAndNil
        <5> QED BY <5>4, <4>1, <1>0, <1>1, LedLive
      <4>2. n1 # 0 => s[1] \in live
        <5> HAVE n1 # 0
        <5>1. v = PairAt(s[1])
          BY <3>8 DEF At
        <5> QED BY <5>1, <2>4, PairsAndNil
      <4> QED BY <4>1, <4>2, <3>8, SpineReached
    <3> DEFINE t == [j \in 1..n1 |-> NewPlace(live, e, s[j])]
    <3>11. \A j \in 1..n1 : t[j] = NewPlace(live, e, s[j]) /\ t[j] \in DOMAIN r
      BY <1>2, <3>7, <3>10
    <3>12. t \in [1..Len(xs) -> DOMAIN r]
      BY <3>6, <3>11
    <3> HIDE DEF t, T, Kept
    <3>13. Moved(live, e, v) = At(t, n1, 1)
      <4>1. PICK k1 \in 1..n1 + 1 : k1 = 1
        OBVIOUS
      <4>2. Moved(live, e, At(s, n1, k1)) = At(t, n1, k1)
        BY <3>10, <3>11, MovedAt
      <4> QED BY <4>1, <4>2, <3>8
    <3>14. ASSUME NEW j \in 1..n1
           PROVE  r[t[j]].car \in Words(r, h, xs[j]) /\ r[t[j]].cdr = At(t, n1, j + 1)
      <4>1. s[j] \in live /\ s[j] \in DOMAIN q /\ xs[j] \in Data[l] /\ t[j] = NewPlace(live, e, s[j])
        BY <3>7, <3>10, <3>11
      <4>8. PICK b \in live \cap DOMAIN q : b = s[j]
        BY <4>1
      <4>9. r[NewPlace(live, e, b)] = [car |-> Moved(live, e, q[b].car), cdr |-> Moved(live, e, q[b].cdr)]
        BY <1>2
      <4>10. r[t[j]] = [car |-> Moved(live, e, q[s[j]].car), cdr |-> Moved(live, e, q[s[j]].cdr)]
        BY <4>1, <4>8, <4>9
      <4>2. /\ r[t[j]].car = Moved(live, e, q[s[j]].car)
            /\ r[t[j]].cdr = Moved(live, e, q[s[j]].cdr)
        BY <4>10
      <4>3. r[t[j]].cdr = At(t, n1, j + 1)
        <5>1. j + 1 \in 1..n1 + 1
          OBVIOUS
        <5>2. PICK k1 \in 1..n1 + 1 : k1 = j + 1
          BY <5>1
        <5>3. Moved(live, e, At(s, n1, k1)) = At(t, n1, k1)
          BY <3>10, <3>11, MovedAt
        <5> QED BY <5>2, <5>3, <4>2, <3>8
      <4>4. PICK y1 \in Data[l] : y1 = xs[j]
        BY <4>1
      <4>5. PICK c \in Words(q, h, y1) : c = q[s[j]].car
        BY <4>4, <3>8
      <4>6. IsPair(c) => c.pair \in live
        <5> HAVE IsPair(c)
        <5>3. IsWord(q, c)
          BY <3>3, WordsAreWords
        <5>1. PICK a \in DOMAIN q : c = PairAt(a)
          BY <5>3 DEF IsWord
        <5>2. c.pair \in DOMAIN m.pairs /\ m.pairs[s[j]] = q[s[j]]
          BY <5>1, <3>9, <4>1, PairsAndNil
        <5> QED BY <5>2, <4>1, <4>5, <1>0, <1>1, LedLive
      <4>7. Moved(live, e, c) \in Words(r, h, y1)
        BY <4>6, <3>2, <3>3 DEF Kept
      <4> QED BY <4>2, <4>3, <4>4, <4>5, <4>7
    <3>15. Holds(r, h, xs, t, Moved(live, e, v))
      BY <3>6, <3>13, <3>14 DEF Holds
    <3>16. Moved(live, e, v) \in Words(r, h, List(xs))
      BY <3>3, <3>4, <3>12, <3>15, WordsOfList
    <3> QED BY <3>4, <3>16
  <2> QED BY <2>5, <2>6, <2>7 DEF List
<1>4. n \notin T
  BY <1>3
<1> QED BY <1>1, <1>4

\* The elements of the calls in st are data, some levels deep.
LEMMA ItemsOf ==
  ASSUME NEW d \in Nat, NEW st \in Seq(Frame(d)), NEW i \in 1..Len(st)
  PROVE  /\ Len(st) \in Nat
         /\ st[i].items \in Seq(Data[d]) /\ Len(st[i].items) \in Nat
         /\ \A j \in 1..Len(st[i].items) : st[i].items[j] \in Data[d]
<1>1. st[i] \in Frame(d) /\ Len(st) \in Nat
  BY ElementOfSeq, LenProperties
<1>2. st[i].items \in Seq(Data[d])
  BY <1>1 DEF Frame
<1> QED BY <1>1, <1>2, ElementOfSeq, LenProperties

\* A collection leaves memory in order.
LEMMA CollectedIsMemory ==
  ASSUME NEW m, IsMemory(m)
  PROVE  IsMemory(Collected(m)) /\ Len(Collected(m).frames) = Len(m.frames)
<1>1. PICK live : ByCollection(m, live)
  BY CollectedPairs
<1>2. PICK e \in {0, 1} : e = m.space
  BY DEF IsMemory
<1>3. PICK c : c = Collected(m)
  OBVIOUS
<1>4. PICK to : to = {NewPlace(live, e, b) : b \in live}
  OBVIOUS
<1>5. /\ IsFiniteSet(live) /\ live \subseteq Nat
      /\ c = [space |-> c.space, pairs |-> c.pairs, frames |-> c.frames, held |-> c.held]
      /\ c.space = 1 - e /\ DOMAIN c.pairs = to
      /\ \A b \in live : c.pairs[NewPlace(live, e, b)] =
                           [car |-> Moved(live, e, m.pairs[b].car), cdr |-> Moved(live, e, m.pairs[b].cdr)]
      /\ c.frames = [i \in DOMAIN m.frames |-> MovedHandles(live, e, m.frames[i])]
  BY <1>1, <1>2, <1>3, <1>4 DEF ByCollection
<1>6. IsFiniteSet(to)
  <2> DEFINE f == [b \in live |-> NewPlace(live, e, b)]
  <2>1. f \in Surjection(live, to)
    BY <1>4 DEF Surjection
  <2> HIDE DEF f
  <2> QED BY <2>1, <1>5, FS_Surjection
<1>7. to \subseteq Nat
  BY <1>4, <1>5, PlacesApart
<1>8. c.pairs = [a \in DOMAIN c.pairs |-> [car |-> c.pairs[a].car, cdr |-> c.pairs[a].cdr]]
  BY <1>1, <1>3 DEF ByCollection
<1>9. (\E S : c.frames \in Seq(S)) /\ Len(c.frames) = Len(m.frames)
  <2>1. PICK S : m.frames \in Seq(S)
    BY DEF IsMemory
  <2>2. PICK n \in Nat : n = Len(m.frames) /\ DOMAIN m.frames = 1..n
    BY <2>1, LenProperties
  <2>3. c.frames = [i \in 1..n |-> MovedHandles(live, e, m.frames[i])]
    BY <2>2, <1>5
  <2>4. c.frames \in Seq({MovedHandles(live, e, m.frames[i]) : i \in 1..n}) /\ Len(c.frames) = n
    BY <2>3
  <2> QED BY <2>2, <2>4
<1>10. c.space \in {0, 1}
  BY <1>5
<1>11. IsMemory(c)
  BY <1>5, <1>6, <1>7, <1>8, <1>9, <1>10 DEF IsMemory
<1> QED BY <1>3, <1>9, <1>11

\* A list that a call builds is moved as a whole.
LEMMA BuiltMoved ==
  ASSUME NEW m, IsMemory(m), NEW q, PartOf(q, m.pairs),
         NEW h \in Nat, NEW d \in Nat, d <= h, NEW xs \in Seq(Data[d]),
         NEW i \in DOMAIN m.frames, NEW s, Built(m.pairs, q, h, xs, m.frames[i], s),
         NEW t, \A j \in 1..Len(xs) : t[j] = NewPlace(Live(m), m.space, s[j])
  PROVE  /\ Built(Collected(m).pairs, MovedPairs(m, q), h, xs, Collected(m).frames[i], t)
         /\ \A j \in 1..Len(xs) : s[j] \in Live(m)
<1>1. PICK live : ByCollection(m, live)
  BY CollectedPairs
<1>2. PICK e \in {0, 1} : e = m.space
  BY DEF IsMemory
<1>3. PICK c, r : c = Collected(m) /\ r = MovedPairs(m, q)
  OBVIOUS
<1>4. /\ live = Live(m) /\ IsFiniteSet(live) /\ live \subseteq Nat
      /\ DOMAIN c.pairs = {NewPlace(live, e, b) : b \in live}
      /\ \A b \in live : c.pairs[NewPlace(live, e, b)] =
                           [car |-> Moved(live, e, m.pairs[b].car), cdr |-> Moved(live, e, m.pairs[b].cdr)]
      /\ c.frames[i] = MovedHandles(live, e, m.frames[i])
  BY <1>1, <1>2, <1>3 DEF ByCollection
<1>5. IsFiniteSet(DOMAIN m.pairs)
  BY DEF IsMemory
<1>6. PICK n \in Nat : n = Len(xs) /\ \A j \in 1..n : xs[j] \in Data[d]
  BY LenProperties, ElementOfSeq
<1>7. /\ m.frames[i].head = At(s, n, 1)
      /\ m.frames[i].tail = IF n = 0 THEN Nil ELSE PairAt(s[n])
      /\ \A j \in 1..n :
           /\ s[j] \in DOMAIN m.pairs /\ s[j] \notin DOMAIN q
           /\ m.pairs[s[j]].car \in Words(q, h, xs[j])
           /\ m.pairs[s[j]].cdr = At(s, n, j + 1)
           /\ \A k \in 1..n : s[j] = s[k] => j = k
      /\ \A j \in 1..n : t[j] = NewPlace(live, e, s[j])
  BY <1>2, <1>4, <1>6 DEF Built
<1>8. \A j \in 1..n : s[j] \in live
  <2>1. ASSUME NEW j \in 1..n, s[j] \in live, IsPair(m.pairs[s[j]].cdr)
        PROVE  m.pairs[s[j]].cdr.pair \in live
    <3>1. m.pairs[s[j]].cdr = At(s, n, j + 1)
      BY <1>7
    <3>2. ~(j + 1 > n)
      BY <3>1, <2>1, PairsAndNil DEF At
    <3>3. j + 1 \in 1..n /\ m.pairs[s[j]].cdr = PairAt(s[j + 1])
      BY <3>1, <3>2 DEF At
    <3>4. m.pairs[s[j]].cdr.pair \in DOMAIN m.pairs
      BY <3>3, <1>7, PairsAndNil
    <3> QED BY <3>4, <2>1, <1>5, <1>4, LedLive
  <2>2. n # 0 => s[1] \in live
    <3> HAVE n # 0
    <3>1. PICK w : w = m.frames[i].head
      OBVIOUS
    <3>2. w = PairAt(s[1]) /\ s[1] \in DOMAIN m.pairs
      BY <3>1, <1>7 DEF At
    <3>3. w.pair \in Live(m)
      BY <3>1, <3>2, <1>5, PairsAndNil, HandlesLive
    <3> QED BY <3>2, <3>3, <1>4, PairsAndNil
  <2>3. \A j \in 1..n : m.pairs[s[j]].cdr = At(s, n, j + 1)
    BY <1>7
  <2> QED BY <2>1, <2>2, <2>3, SpineReached
<1>9. \A j \in 1..n + 1 : Moved(live, e, At(s, n, j)) = At(t, n, j)
  BY <1>7, <1>8, MovedAt
<1>10. c.frames[i].head = At(t, n, 1)
  <2>1. 1 \in 1..n + 1
    OBVIOUS
  <2> QED BY <2>1, <1>4, <1>7, <1>9 DEF MovedHandles
<1>11. c.frames[i].tail = IF n = 0 THEN Nil ELSE PairAt(t[n])
  <2>1. CASE n = 0
    BY <2>1, <1>4, <1>7, PairsAndNil DEF MovedHandles, Moved
  <2>2. CASE n # 0
    <3>1. n \in 1..n
      BY <2>2
    <3>2. m.frames[i].tail = PairAt(s[n]) /\ s[n] \in live /\ t[n] = NewPlace(live, e, s[n])
      BY <3>1, <2>2, <1>7, <1>8
    <3> QED BY <3>2, <2>2, <1>4, PairsAndNil DEF MovedHandles, Moved
  <2> QED BY <2>1, <2>2
<1>12. ASSUME NEW j \in 1..n
       PROVE  /\ t[j] \in DOMAIN c.pairs /\ t[j] \notin DOMAIN r
              /\ c.pairs[t[j]].car \in Words(r, h, xs[j])
              /\ c.pairs[t[j]].cdr = At(t, n, j + 1)
              /\ \A k \in 1..n : t[j] = t[k] => j = k
  <2>1. PICK b \in live : b = s[j]
    BY <1>8
  <2>2. t[j] = NewPlace(live, e, b) /\ b \notin DOMAIN q
    BY <2>1, <1>7
  <2>3. t[j] \in DOMAIN c.pairs /\ t[j] \notin DOMAIN r
    BY <2>2, <1>2, <1>3, <1>4, MovedPairsAre
  <2>4. c.pairs[t[j]] = [car |-> Moved(live, e, m.pairs[b].car), cdr |-> Moved(live, e, m.pairs[b].cdr)]
    BY <2>2, <1>4
  <2>5. c.pairs[t[j]].cdr = At(t, n, j + 1)
    <3>1. PICK k1 \in 1..n + 1 : k1 = j + 1
      OBVIOUS
    <3> QED BY <3>1, <2>1, <2>4, <1>7, <1>9
  <2>6. c.pairs[t[j]].car \in Words(r, h, xs[j])
    <3>1. PICK x \in Data[d] : x = xs[j]
      BY <1>6
    <3>0. d \in Nat /\ d <= h
      OBVIOUS
    <3>2. PICK w \in Words(q, h, x) : w = m.pairs[b].car
      BY <3>1, <2>1, <1>7
    <3>3. IsPair(w) => w.pair \in Live(m)
      <4> HAVE IsPair(w)
      <4>0. IsWord(q, w)
        BY <3>0, WordsAreWords
      <4>1. PICK a \in DOMAIN q : w = PairAt(a)
        BY <4>0 DEF IsWord
      <4>2. w.pair \in DOMAIN m.pairs
        BY <4>1, PairsAndNil DEF PartOf
      <4> QED BY <4>2, <3>2, <1>4, <1>5, LedLive
    <3>4. Moved(Live(m), m.space, w) \in Words(r, h, x)
      BY <3>3, <1>3, WordsMoved
    <3> QED BY <3>1, <3>2, <3>4, <2>4, <1>2, <1>4
  <2>7. ASSUME NEW k \in 1..n, t[j] = t[k] PROVE j = k
    <3>1. PICK b2 \in live : b2 = s[k]
      BY <1>8
    <3>2. NewPlace(live, e, b) = NewPlace(live, e, b2)
      BY <2>2, <2>7, <3>1, <1>7
    <3>3. b = b2
      BY <3>2, <1>4, PlacesApart
    <3> QED BY <3>3, <3>1, <2>1, <1>7
  <2> QED BY <2>3, <2>5, <2>6, <2>7
<1> QED BY <1>3, <1>4, <1>6, <1>8, <1>10, <1>11, <1>12 DEF Built

\* A collection moves everything that the calls have read.
LEMMA CollectedIsBuilt ==
  ASSUME NEW m, NEW q, NEW h \in Nat, NEW d \in Nat, d <= h, NEW st \in Seq(Frame(d)),
         NEW ss, AllBuilt(m, q, h, st, ss)
  PROVE  \E ss2 : AllBuilt(Collected(m), MovedPairs(m, q), h, st, ss2)
<1>1. /\ IsMemory(m) /\ PartOf(q, m.pairs) /\ Len(m.frames) = Len(st)
      /\ \A i \in 1..Len(st) : Built(m.pairs, q, h, st[i].items, m.frames[i], ss[i])
      /\ \A i \in 1..Len(st), k \in 1..Len(st) :
           i # k => \A j \in 1..Len(st[i].items), l \in 1..Len(st[k].items) : ss[i][j] # ss[k][l]
  BY DEF AllBuilt
<1>2. DOMAIN m.frames = 1..Len(st)
  BY <1>1, LenProperties DEF IsMemory
<1> DEFINE to(a) == NewPlace(Live(m), m.space, a)
           ss2 == [i \in 1..Len(st) |-> [j \in 1..Len(st[i].items) |-> to(ss[i][j])]]
<1>3. \A i \in 1..Len(st) : \A j \in 1..Len(st[i].items) : ss2[i][j] = to(ss[i][j])
  OBVIOUS
<1> HIDE DEF ss2
<1>4. ASSUME NEW i \in 1..Len(st)
      PROVE  /\ Built(Collected(m).pairs, MovedPairs(m, q), h, st[i].items, Collected(m).frames[i], ss2[i])
             /\ \A j \in 1..Len(st[i].items) : ss[i][j] \in Live(m)
  <2>1. PICK xs \in Seq(Data[d]) : xs = st[i].items
    BY ItemsOf
  <2>2. PICK s, t : s = ss[i] /\ t = ss2[i]
    OBVIOUS
  <2>3. Built(m.pairs, q, h, xs, m.frames[i], s) /\ \A j \in 1..Len(xs) : t[j] = to(s[j])
    BY <2>1, <2>2, <1>1, <1>3
  <2>4. i \in DOMAIN m.frames
    BY <1>2
  <2> HIDE DEF to
  <2>5. /\ Built(Collected(m).pairs, MovedPairs(m, q), h, xs, Collected(m).frames[i], t)
        /\ \A j \in 1..Len(xs) : s[j] \in Live(m)
    BY <2>3, <2>4, <1>1, BuiltMoved DEF to
  <2> QED BY <2>1, <2>2, <2>5
<1>5. IsFiniteSet(Live(m)) /\ Live(m) \subseteq Nat /\ m.space \in {0, 1}
  <2>1. PICK live : ByCollection(m, live)
    BY <1>1, CollectedPairs
  <2> QED BY <2>1, <1>1 DEF ByCollection, IsMemory
<1>6. ASSUME NEW i \in 1..Len(st), NEW k \in 1..Len(st), i # k,
             NEW j \in 1..Len(st[i].items), NEW l \in 1..Len(st[k].items), ss2[i][j] = ss2[k][l]
      PROVE  FALSE
  <2>1. PICK a \in Live(m), b \in Live(m) : a = ss[i][j] /\ b = ss[k][l]
    BY <1>4
  <2>2. to(a) = to(b)
    BY <2>1, <1>3, <1>6
  <2>3. a = b
    BY <2>2, <1>5, PlacesApart
  <2> QED BY <2>1, <2>3, <1>1, <1>6
<1>7. IsMemory(Collected(m)) /\ Len(Collected(m).frames) = Len(st)
  BY <1>1, CollectedIsMemory
<1>8. PartOf(MovedPairs(m, q), Collected(m).pairs)
  BY <1>1, MovedPairsAre
<1>9. AllBuilt(Collected(m), MovedPairs(m, q), h, st, ss2)
  <2> HIDE DEF to
  <2> QED BY <1>4, <1>6, <1>7, <1>8 DEF AllBuilt
<1> QED BY <1>9

\* So it is when an allocation has made room, with the word that is held.
RoomMade(r, m, q, h, st) ==
  \E q2, ss2 : /\ AllBuilt(r, q2, h, st, ss2)
               /\ \A n \in 0..h : \A x \in Data[n] :
                    m.held \in Words(q, h, x) => r.held \in Words(q2, h, x)

\* An allocation that makes room keeps what the calls have read.
LEMMA RoomIsMade ==
  ASSUME NEW m, NEW q, NEW h \in Nat, NEW d \in Nat, d <= h, NEW st \in Seq(Frame(d)),
         NEW ss, AllBuilt(m, q, h, st, ss), NEW r \in Room(m)
  PROVE  RoomMade(r, m, q, h, st)
<1>1. CASE r = m
  BY <1>1 DEF RoomMade
<1>2. CASE r = Collected(m)
  <2>1. PICK ss2 : AllBuilt(Collected(m), MovedPairs(m, q), h, st, ss2)
    BY CollectedIsBuilt
  <2>2. IsMemory(m) /\ PartOf(q, m.pairs)
    BY DEF AllBuilt
  <2>3. IsFiniteSet(DOMAIN m.pairs)
    BY <2>2 DEF IsMemory
  <2>4. Collected(m).held = Moved(Live(m), m.space, m.held)
    <3>1. PICK live : ByCollection(m, live)
      BY <2>2, CollectedPairs
    <3> QED BY <3>1 DEF ByCollection
  <2>5. ASSUME NEW n \in 0..h, NEW x \in Data[n], m.held \in Words(q, h, x)
        PROVE  Collected(m).held \in Words(MovedPairs(m, q), h, x)
    <3>0. n \in Nat /\ n <= h
      OBVIOUS
    <3>1. PICK w \in Words(q, h, x) : w = m.held
      BY <2>5
    <3>2. IsPair(w) => w.pair \in Live(m)
      <4> HAVE IsPair(w)
      <4>0. IsWord(q, w)
        BY <3>0, WordsAreWords
      <4>1. PICK a \in DOMAIN q : w = PairAt(a)
        BY <4>0 DEF IsWord
      <4>2. w.pair \in DOMAIN m.pairs
        BY <4>1, <2>2, PairsAndNil DEF PartOf
      <4> QED BY <4>2, <3>1, <2>3, HandlesLive
    <3>3. Moved(Live(m), m.space, w) \in Words(MovedPairs(m, q), h, x)
      BY <3>0, <3>2, <2>2, WordsMoved
    <3> QED BY <3>1, <3>3, <2>4
  <2> QED BY <2>1, <2>5, <1>2 DEF RoomMade
<1> QED BY <1>1, <1>2 DEF Room

\* Only space, pairs and frames count.
LEMMA HeldIsFree ==
  ASSUME NEW m, NEW q, NEW h, NEW st, NEW ss, AllBuilt(m, q, h, st, ss), NEW v
  PROVE  /\ AllBuilt([m EXCEPT !.held = v], q, h, st, ss)
         /\ [m EXCEPT !.held = v].held = v
<1>1. PICK p, f, e : p = m.pairs /\ f = m.frames /\ e = m.space
  OBVIOUS
<1>2. m = [space |-> e, pairs |-> p, frames |-> f, held |-> m.held]
  BY <1>1 DEF AllBuilt, IsMemory
<1>3. [m EXCEPT !.held = v] = [space |-> e, pairs |-> p, frames |-> f, held |-> v]
  BY <1>2
<1>4. PICK r : r = [space |-> e, pairs |-> p, frames |-> f, held |-> v]
  OBVIOUS
<1>5. r.space = e /\ r.pairs = p /\ r.frames = f /\ r.held = v
  BY <1>4
<1>6. IsMemory(r)
  BY <1>1, <1>4, <1>5 DEF AllBuilt, IsMemory
<1>7. AllBuilt(r, q, h, st, ss)
  BY <1>1, <1>5, <1>6 DEF AllBuilt
<1> QED BY <1>3, <1>4, <1>5, <1>7

\* What else is in memory when its Handles are replaced.
LEMMA FramesReplaced ==
  ASSUME NEW m, IsMemory(m), NEW g
  PROVE  [m EXCEPT !.frames = g] =
           [space |-> m.space, pairs |-> m.pairs, frames |-> g, held |-> m.held]
<1>1. PICK p, f, e, w : p = m.pairs /\ f = m.frames /\ e = m.space /\ w = m.held
  OBVIOUS
<1>2. m = [space |-> e, pairs |-> p, frames |-> f, held |-> w]
  BY <1>1 DEF IsMemory
<1> QED BY <1>1, <1>2

\* A list stays built when its pairs stay.
LEMMA BuiltKept ==
  ASSUME NEW p, NEW q, NEW p2, NEW q2, PartOf(q, q2),
         NEW h \in Nat, NEW d \in Nat, d <= h, NEW xs \in Seq(Data[d]),
         NEW f, NEW s, Built(p, q, h, xs, f, s),
         \A j \in 1..Len(xs) : s[j] \in DOMAIN p2 /\ p2[s[j]] = p[s[j]] /\ s[j] \notin DOMAIN q2
  PROVE  Built(p2, q2, h, xs, f, s)
<1>1. ASSUME NEW j \in 1..Len(xs) PROVE p[s[j]].car \in Words(q2, h, xs[j])
  <2>1. PICK x \in Data[d] : x = xs[j]
    BY ElementOfSeq
  <2>2. PICK w \in Words(q, h, x) : w = p[s[j]].car
    BY <2>1 DEF Built
  <2>3. d \in Nat /\ d <= h
    OBVIOUS
  <2>4. w \in Words(q2, h, x)
    BY <2>3, WordsKept
  <2> QED BY <2>1, <2>2, <2>4
<1> QED BY <1>1 DEF Built

\* A call that begins has built nothing.
LEMMA BeginsBuilt ==
  ASSUME NEW m, NEW q, NEW h \in Nat, NEW d \in Nat, d <= h, NEW st \in Seq(Frame(d)),
         NEW ss, AllBuilt(m, q, h, st, ss), NEW f \in Frame(d), f.items = <<>>
  PROVE  \E ss2 : AllBuilt([m EXCEPT !.frames = Append(@, NoHandles)], q, h, Append(st, f), ss2)
<1>1. PICK p, fs, e : p = m.pairs /\ fs = m.frames /\ e = m.space
  OBVIOUS
<1>2. m = [space |-> e, pairs |-> p, frames |-> fs, held |-> m.held]
  BY <1>1 DEF AllBuilt, IsMemory
<1>17. PICK S : fs \in Seq(S)
  BY <1>1 DEF AllBuilt, IsMemory
<1>3. PICK n \in Nat : n = Len(fs) /\ n = Len(st)
  BY <1>1, LenProperties DEF AllBuilt
<1>4. PICK fs2 : fs2 = Append(fs, NoHandles)
  OBVIOUS
<1>5. /\ fs2 \in Seq(S \cup {NoHandles}) /\ Len(fs2) = n + 1 /\ fs2[n + 1] = NoHandles
      /\ \A i \in 1..n : fs2[i] = fs[i]
  <2>1. PICK S2 : S2 = S \cup {NoHandles}
    OBVIOUS
  <2>2. S \subseteq S2 /\ NoHandles \in S2
    BY <2>1
  <2>3. fs \in Seq(S2)
    BY <2>2, <1>17, SeqMonotonic
  <2>4. PICK last \in S2 : last = NoHandles
    BY <2>2
  <2>5. /\ Append(fs, last) \in Seq(S2) /\ Len(Append(fs, last)) = Len(fs) + 1
        /\ \A i \in 1..Len(fs) : Append(fs, last)[i] = fs[i]
        /\ Append(fs, last)[Len(fs) + 1] = last
    BY <2>3, AppendProperties
  <2> QED BY <2>1, <2>4, <2>5, <1>3, <1>4
<1>6. PICK st2 : st2 = Append(st, f)
  OBVIOUS
<1>7. Len(st2) = n + 1 /\ st2[n + 1] = f /\ \A i \in 1..n : st2[i] = st[i]
  BY <1>3, <1>6, AppendProperties
<1>8. PICK r : r = [space |-> e, pairs |-> p, frames |-> fs2, held |-> m.held]
  OBVIOUS
<1>9. [m EXCEPT !.frames = Append(@, NoHandles)] = r
  <2>1. Append(m.frames, NoHandles) = fs2 /\ IsMemory(m)
    BY <1>1, <1>4 DEF AllBuilt
  <2>2. [m EXCEPT !.frames = fs2] = r
    BY <2>1, <1>1, <1>8, FramesReplaced
  <2> QED BY <2>1, <2>2, Zenon
<1>10. r.space = e /\ r.pairs = p /\ r.frames = fs2 /\ r.held = m.held
  BY <1>8
<1>11. IsMemory(r)
  BY <1>1, <1>5, <1>8, <1>10 DEF AllBuilt, IsMemory
<1>12. \A i \in 1..n + 1 : i \in 1..n \/ i = n + 1
  OBVIOUS
<1>13. Len(f.items) = 0 /\ \A i \in 1..0 : FALSE
  OBVIOUS
<1>14. ASSUME NEW i \in 1..n + 1 PROVE Built(p, q, h, st2[i].items, fs2[i], ss[i])
  <2>1. CASE i \in 1..n
    BY <2>1, <1>1, <1>3, <1>5, <1>7 DEF AllBuilt
  <2>2. CASE i = n + 1
    <3>1. fs2[i].head = Nil /\ fs2[i].tail = Nil /\ st2[i].items = f.items
      BY <2>2, <1>5, <1>7 DEF NoHandles
    <3>2. At(ss[i], 0, 1) = Nil
      BY DEF At
    <3> QED BY <3>1, <3>2, <1>13 DEF Built
  <2> QED BY <2>1, <2>2, <1>12
<1>15. ASSUME NEW i \in 1..n + 1, NEW k \in 1..n + 1, i # k,
              NEW j \in 1..Len(st2[i].items), NEW l \in 1..Len(st2[k].items)
       PROVE  ss[i][j] # ss[k][l]
  <2>1. i \in 1..n /\ k \in 1..n
    BY <1>7, <1>12, <1>13
  <2>2. st2[i] = st[i] /\ st2[k] = st[k]
    BY <2>1, <1>7
  <2> QED BY <2>1, <2>2, <1>3, <1>15 DEF AllBuilt
<1>16. AllBuilt(r, q, h, st2, ss)
  <2>1. PartOf(q, p) /\ Len(fs2) = Len(st2)
    BY <1>1, <1>5, <1>7 DEF AllBuilt
  <2> QED BY <2>1, <1>7, <1>10, <1>11, <1>14, <1>15 DEF AllBuilt
<1> QED BY <1>6, <1>9, <1>16

\* A list of the pairs that a call built is a datum that was read, as its call
\* returns it: the pairs are the caller's now.
Returns(m, q, h, st, x) ==
  \E q2, ss2 : /\ AllBuilt([m EXCEPT !.frames = Front(@)], q2, h, Front(st), ss2)
               /\ PartOf(q, q2)
               /\ Last(m.frames).head \in Words(q2, h, List(x))

\* A call that returns leaves its list among the finished pairs.
LEMMA ReturnsBuilt ==
  ASSUME NEW m, NEW q, NEW h \in Nat, NEW d \in Nat, d < h, NEW st \in Seq(Frame(d)), st # <<>>,
         NEW ss, AllBuilt(m, q, h, st, ss)
  PROVE  Returns(m, q, h, st, Last(st).items)
<1>1. PICK p, fs, e : p = m.pairs /\ fs = m.frames /\ e = m.space
  OBVIOUS
<1>2. m = [space |-> e, pairs |-> p, frames |-> fs, held |-> m.held]
  BY <1>1 DEF AllBuilt, IsMemory
<1>3. PICK n \in Nat : /\ n = Len(st) /\ n # 0 /\ Last(st) = st[n]
                       /\ Len(Front(st)) = n - 1 /\ \A i \in 1..n - 1 : Front(st)[i] = st[i]
  BY FrontAndLast
<1>4. PICK S : fs \in Seq(S) /\ n = Len(fs) /\ fs # <<>>
  <2>1. \E S : fs \in Seq(S)
    BY <1>1 DEF AllBuilt, IsMemory
  <2>2. Len(fs) = n
    BY <1>1, <1>3 DEF AllBuilt
  <2> QED BY <2>1, <2>2, <1>3, EmptySeq
<1>5. PICK fs2 : fs2 = Front(fs)
  OBVIOUS
<1>6. /\ Last(fs) = fs[n] /\ fs2 \in Seq(S) /\ Len(fs2) = n - 1
      /\ \A i \in 1..n - 1 : fs2[i] = fs[i]
  BY <1>4, <1>5, FrontAndLast
<1>7. PICK r : r = [space |-> e, pairs |-> p, frames |-> fs2, held |-> m.held]
  OBVIOUS
<1>8. [m EXCEPT !.frames = Front(@)] = r
  BY <1>1, <1>2, <1>5, <1>7
<1>9. r.space = e /\ r.pairs = p /\ r.frames = fs2
  BY <1>7
<1>10. IsMemory(r)
  BY <1>1, <1>6, <1>7, <1>9 DEF AllBuilt, IsMemory
<1>11. PICK xs, s : xs \in Seq(Data[d]) /\ xs = st[n].items /\ s = ss[n]
  <2>1. n \in 1..Len(st)
    BY <1>3
  <2> QED BY <2>1, ItemsOf
<1> xs \in Seq(Data[d])
  BY <1>11
<1>12. PICK k \in Nat : k = Len(xs) /\ \A j \in 1..k : xs[j] \in Data[d]
  BY LenProperties, ElementOfSeq
<1>13. Built(p, q, h, xs, fs[n], s) /\ n \in 1..Len(st)
  BY <1>1, <1>3, <1>11 DEF AllBuilt
<1>14. /\ fs[n].head = At(s, k, 1)
       /\ \A j \in 1..k : /\ s[j] \in DOMAIN p /\ s[j] \notin DOMAIN q
                          /\ p[s[j]].car \in Words(q, h, xs[j])
                          /\ p[s[j]].cdr = At(s, k, j + 1)
  BY <1>12, <1>13 DEF Built
<1>15. PartOf(q, p)
  BY <1>1 DEF AllBuilt
<1> DEFINE mine == {s[j] : j \in 1..k}
           q2 == [a \in DOMAIN q \cup mine |-> p[a]]
<1>16. /\ PartOf(q, q2) /\ PartOf(q2, p) /\ DOMAIN q2 = DOMAIN q \cup mine
       /\ \A j \in 1..k : s[j] \in DOMAIN q2 /\ q2[s[j]] = p[s[j]]
  BY <1>14, <1>15 DEF PartOf
<1> HIDE DEF q2
<1>17. fs[n].head \in Words(q2, h, List(xs))
  <2> DEFINE t == [j \in 1..k |-> s[j]]
  <2>1. t \in [1..Len(xs) -> DOMAIN q2] /\ \A j \in 1..k : t[j] = s[j]
    BY <1>12, <1>16
  <2> HIDE DEF t
  <2>2. \A j \in 1..k + 1 : At(t, k, j) = At(s, k, j)
    BY <2>1 DEF At
  <2>3. ASSUME NEW j \in 1..k
        PROVE  q2[t[j]].car \in Words(q2, h, xs[j]) /\ q2[t[j]].cdr = At(t, k, j + 1)
    <3>1. PICK x \in Data[d] : x = xs[j]
      BY <1>12
    <3>2. PICK w \in Words(q, h, x) : w = p[s[j]].car
      BY <3>1, <1>14
    <3>3. d \in Nat /\ d <= h
      OBVIOUS
    <3>4. w \in Words(q2, h, x)
      BY <3>3, <1>16, WordsKept
    <3>5. j + 1 \in 1..k + 1 /\ t[j] = s[j]
      BY <2>1
    <3> QED BY <3>1, <3>2, <3>4, <3>5, <2>2, <1>14, <1>16
  <2>4. fs[n].head = At(t, k, 1)
    <3>1. 1 \in 1..k + 1
      OBVIOUS
    <3> QED BY <3>1, <2>2, <1>14
  <2>5. Holds(q2, h, xs, t, fs[n].head)
    BY <2>3, <2>4, <1>12 DEF Holds
  <2> QED BY <2>1, <2>5, WordsOfList
<1>18. ASSUME NEW i \in 1..n - 1
       PROVE  Built(p, q2, h, st[i].items, fs2[i], ss[i])
  <2>1. i \in 1..Len(st) /\ i # n /\ fs2[i] = fs[i]
    BY <1>3, <1>6
  <2>2. PICK ys, u, g : ys \in Seq(Data[d]) /\ ys = st[i].items /\ u = ss[i] /\ g = fs[i]
    BY <2>1, ItemsOf
  <2> ys \in Seq(Data[d])
    BY <2>2
  <2>3. Built(p, q, h, ys, g, u)
    BY <2>1, <2>2, <1>1 DEF AllBuilt
  <2>4. ASSUME NEW j \in 1..Len(ys) PROVE u[j] \in DOMAIN p /\ u[j] \notin DOMAIN q2
    <3>1. u[j] \in DOMAIN p /\ u[j] \notin DOMAIN q
      BY <2>3 DEF Built
    <3>2. \A l \in 1..k : u[j] # s[l]
      BY <2>1, <2>2, <1>11, <1>12, <1>13 DEF AllBuilt
    <3> QED BY <3>1, <3>2, <1>16
  <2>5. d <= h
    OBVIOUS
  <2>6. Built(p, q2, h, ys, g, u)
    BY <2>3, <2>4, <2>5, <1>16, BuiltKept
  <2> QED BY <2>1, <2>2, <2>6
<1>19. AllBuilt(r, q2, h, Front(st), ss)
  <2>1. PICK st2 : st2 = Front(st)
    OBVIOUS
  <2>2. Len(fs2) = Len(st2) /\ Len(st2) = n - 1 /\ \A i \in 1..n - 1 : st2[i] = st[i] /\ i \in 1..Len(st)
    BY <2>1, <1>3, <1>6
  <2>3. ASSUME NEW i \in 1..n - 1, NEW l \in 1..n - 1, i # l
        PROVE  \A j \in 1..Len(st2[i].items), z \in 1..Len(st2[l].items) : ss[i][j] # ss[l][z]
    <3>1. st2[i] = st[i] /\ st2[l] = st[l] /\ i \in 1..Len(st) /\ l \in 1..Len(st)
      BY <2>2
    <3> QED BY <3>1, <2>3 DEF AllBuilt
  <2>4. \A i \in 1..n - 1 : Built(p, q2, h, st2[i].items, fs2[i], ss[i])
    BY <2>2, <1>18
  <2>5. AllBuilt(r, q2, h, st2, ss)
    BY <2>2, <2>3, <2>4, <1>9, <1>10, <1>16 DEF AllBuilt
  <2> QED BY <2>1, <2>5
<1>20. Last(m.frames).head \in Words(q2, h, List(Last(st).items))
  BY <1>1, <1>3, <1>6, <1>11, <1>17
<1> QED BY <1>8, <1>16, <1>19, <1>20 DEF Returns

\* What newPair does to the pairs.
LEMMA PairsReplaced ==
  ASSUME NEW m, IsMemory(m), NEW g
  PROVE  [m EXCEPT !.pairs = g] =
           [space |-> m.space, pairs |-> g, frames |-> m.frames, held |-> m.held]
<1>1. PICK p, f, e, w : p = m.pairs /\ f = m.frames /\ e = m.space /\ w = m.held
  OBVIOUS
<1>2. m = [space |-> e, pairs |-> p, frames |-> f, held |-> w]
  BY <1>1 DEF IsMemory
<1> QED BY <1>1, <1>2

\* m with one more pair is r.
Made(r, m, car, cdr) ==
  /\ IsMemory(r)
  /\ r.space = m.space /\ r.frames = m.frames /\ r.held = m.held
  /\ DOMAIN r.pairs = DOMAIN m.pairs \cup {NewAddress(m)}
  /\ NewAddress(m) \notin DOMAIN m.pairs /\ NewAddress(m) \in Nat
  /\ r.pairs[NewAddress(m)] = [car |-> car, cdr |-> cdr]
  /\ \A a \in DOMAIN m.pairs : r.pairs[a] = m.pairs[a]

\* newPair writes at an address that was free, and nowhere else.
LEMMA PairMade ==
  ASSUME NEW m, IsMemory(m), NEW car, NEW cdr
  PROVE  Made(WithPair(m, car, cdr), m, car, cdr)
<1>1. PICK p, b : p = m.pairs /\ b = NewAddress(m)
  OBVIOUS
<1>2. /\ IsFiniteSet(DOMAIN p) /\ DOMAIN p \subseteq Nat /\ m.space \in {0, 1}
      /\ p = [a \in DOMAIN p |-> [car |-> p[a].car, cdr |-> p[a].cdr]]
      /\ \E S : m.frames \in Seq(S)
  BY <1>1 DEF IsMemory
<1>3. b \in Nat /\ b \notin DOMAIN p
  BY <1>1, <1>2, AddressIsNew
<1> DEFINE g == [a \in DOMAIN p \cup {b} |-> IF a = b THEN [car |-> car, cdr |-> cdr] ELSE p[a]]
<1>5. WithPair(m, car, cdr) = [m EXCEPT !.pairs = g]
  BY <1>1, Zenon DEF WithPair
<1>6. /\ DOMAIN g = DOMAIN p \cup {b} /\ g[b] = [car |-> car, cdr |-> cdr]
      /\ \A a \in DOMAIN p : g[a] = p[a]
      /\ g = [a \in DOMAIN p \cup {b} |-> g[a]]
  BY <1>3
<1> HIDE DEF g
<1>7. WithPair(m, car, cdr) = [space |-> m.space, pairs |-> g, frames |-> m.frames, held |-> m.held]
  BY <1>5, PairsReplaced
<1>8. PICK r : r = WithPair(m, car, cdr) /\ r.space = m.space /\ r.pairs = g /\ r.frames = m.frames
               /\ r.held = m.held /\ r = [space |-> r.space, pairs |-> r.pairs, frames |-> r.frames, held |-> r.held]
  BY <1>7
<1>9. IsFiniteSet(DOMAIN g) /\ DOMAIN g \subseteq Nat
  <2>1. IsFiniteSet(DOMAIN p \cup {b})
    BY <1>2, FS_AddElement
  <2> QED BY <2>1, <1>2, <1>3, <1>6
<1>10. g = [a \in DOMAIN g |-> [car |-> g[a].car, cdr |-> g[a].cdr]]
  <2>1. \A a \in DOMAIN g : g[a] = [car |-> g[a].car, cdr |-> g[a].cdr]
    <3> TAKE a \in DOMAIN g
    <3>1. CASE a = b
      BY <3>1, <1>6
    <3>2. CASE a \in DOMAIN p
      <4>1. p[a] = [car |-> p[a].car, cdr |-> p[a].cdr]
        BY <3>2, <1>2
      <4> QED BY <4>1, <3>2, <1>6
    <3> QED BY <3>1, <3>2, <1>6
  <2> QED BY <2>1, <1>6
<1>11. IsMemory(r)
  BY <1>2, <1>8, <1>9, <1>10 DEF IsMemory
<1> QED BY <1>1, <1>3, <1>6, <1>8, <1>11 DEF Made

\* A pair that nothing but the innermost call knows is a datum's when all of
\* its parts are.
Adds(r, m, q, h, st, ss, a, rec) ==
  \E q2 : /\ AllBuilt(r, q2, h, st, ss)
          /\ PartOf(q, q2)
          /\ a \in DOMAIN q2 /\ q2[a] = rec

\* A new pair that nothing leads to yet may be among the finished ones.
LEMMA PairAdded ==
  ASSUME NEW m, NEW q, NEW h \in Nat, NEW d \in Nat, d <= h, NEW st \in Seq(Frame(d)),
         NEW ss, AllBuilt(m, q, h, st, ss), NEW car, NEW cdr
  PROVE  Adds(WithPair(m, car, cdr), m, q, h, st, ss, NewAddress(m), [car |-> car, cdr |-> cdr])
<1>1. PICK p, b, r, rec : /\ p = m.pairs /\ b = NewAddress(m) /\ r = WithPair(m, car, cdr)
                          /\ rec = [car |-> car, cdr |-> cdr]
  OBVIOUS
<1>2. IsMemory(m) /\ PartOf(q, p)
  BY <1>1 DEF AllBuilt
<1>3. /\ IsMemory(r) /\ r.frames = m.frames
      /\ DOMAIN r.pairs = DOMAIN p \cup {b} /\ b \notin DOMAIN p /\ r.pairs[b] = rec
      /\ \A a \in DOMAIN p : r.pairs[a] = p[a]
  <2>1. Made(r, m, car, cdr)
    BY <1>1, <1>2, PairMade
  <2> QED BY <2>1, <1>1 DEF Made
<1> DEFINE q2 == [a \in DOMAIN q \cup {b} |-> r.pairs[a]]
<1>4. /\ PartOf(q, q2) /\ PartOf(q2, r.pairs) /\ DOMAIN q2 = DOMAIN q \cup {b} /\ q2[b] = rec
  BY <1>2, <1>3 DEF PartOf
<1> HIDE DEF q2
<1>5. ASSUME NEW i \in 1..Len(st) PROVE Built(r.pairs, q2, h, st[i].items, r.frames[i], ss[i])
  <2>1. PICK xs, s, f : xs \in Seq(Data[d]) /\ xs = st[i].items /\ s = ss[i] /\ f = m.frames[i]
    BY ItemsOf
  <2> xs \in Seq(Data[d])
    BY <2>1
  <2>2. Built(p, q, h, xs, f, s)
    BY <2>1, <1>1 DEF AllBuilt
  <2>3. \A j \in 1..Len(xs) : s[j] \in DOMAIN r.pairs /\ r.pairs[s[j]] = p[s[j]] /\ s[j] \notin DOMAIN q2
    BY <2>2, <1>3, <1>4 DEF Built
  <2>4. Built(r.pairs, q2, h, xs, f, s)
    BY <2>2, <2>3, <1>4, BuiltKept
  <2> QED BY <2>1, <2>4, <1>3
<1>6. AllBuilt(r, q2, h, st, ss)
  BY <1>3, <1>4, <1>5 DEF AllBuilt
<1> QED BY <1>1, <1>4, <1>6 DEF Adds

\* A pair of an element and a list is the longer list.
LEMMA ConsWords ==
  ASSUME NEW p, NEW h \in Nat, NEW n \in Nat, n < h, NEW x \in Data[n], NEW xs \in Seq(Data[n]),
         NEW a \in DOMAIN p, p[a].car \in Words(p, h, x), p[a].cdr \in Words(p, h, List(xs)),
         NEW ys \in Seq(Data[n]), Len(ys) = Len(xs) + 1, ys[1] = x,
         \A j \in 1..Len(xs) : ys[j + 1] = xs[j]
  PROVE  PairAt(a) \in Words(p, h, List(ys))
<1>1. PICK k \in Nat : k = Len(xs)
  BY LenProperties
<1>2. PICK w : w = p[a].cdr
  OBVIOUS
<1>3. PICK s \in [1..Len(xs) -> DOMAIN p] : Holds(p, h, xs, s, w)
  BY <1>2, WordsOfList
<1>4. /\ w = At(s, k, 1)
      /\ \A j \in 1..k : p[s[j]].car \in Words(p, h, xs[j]) /\ p[s[j]].cdr = At(s, k, j + 1)
  BY <1>1, <1>3 DEF Holds
<1> DEFINE t == [j \in 1..k + 1 |-> IF j = 1 THEN a ELSE s[j - 1]]
<1>5. /\ t \in [1..Len(ys) -> DOMAIN p] /\ t[1] = a
      /\ \A j \in 1..k : t[j + 1] = s[j]
  <2>1. \A j \in 1..k + 1 : j = 1 \/ j - 1 \in 1..k
    OBVIOUS
  <2>2. \A j \in 1..k : s[j] \in DOMAIN p
    BY <1>1
  <2> QED BY <1>1, <2>1, <2>2
<1> HIDE DEF t
<1>6. \A j \in 1..k + 1 : At(t, k + 1, j + 1) = At(s, k, j)
  BY <1>5 DEF At
<1>7. ASSUME NEW j \in 1..k + 1
      PROVE  p[t[j]].car \in Words(p, h, ys[j]) /\ p[t[j]].cdr = At(t, k + 1, j + 1)
  <2>1. CASE j = 1
    BY <2>1, <1>2, <1>4, <1>5, <1>6
  <2>2. CASE j # 1
    <3>1. PICK i \in 1..k : j = i + 1
      <4>1. j - 1 \in 1..k /\ j = (j - 1) + 1
        BY <2>2
      <4> QED BY <4>1
    <3>2. t[j] = s[i] /\ ys[j] = xs[i]
      BY <3>1, <1>1, <1>5
    <3>3. At(t, k + 1, j + 1) = At(s, k, i + 1)
      BY <3>1, <1>6
    <3> QED BY <3>2, <3>3, <1>4
  <2> QED BY <2>1, <2>2
<1>8. PairAt(a) = At(t, k + 1, 1)
  BY <1>5 DEF At
<1>9. Holds(p, h, ys, t, PairAt(a))
  BY <1>1, <1>7, <1>8 DEF Holds
<1> QED BY <1>5, <1>9, WordsOfList

\* Nil is what stands for the list without elements.
LEMMA NilIsEmptyList ==
  ASSUME NEW p, NEW h \in Nat, h # 0
  PROVE  Nil \in Words(p, h, List(<<>>))
<1>1. <<>> \in Seq(Data[0]) /\ 0 \in Nat /\ 0 < h /\ Len(<<>>) = 0
  OBVIOUS
<1> DEFINE s == [j \in 1..0 |-> 0]
<1>2. s \in [1..Len(<<>>) -> DOMAIN p]
  BY <1>1
<1>3. Holds(p, h, <<>>, s, Nil)
  <2>1. At(s, 0, 1) = Nil
    BY DEF At
  <2> QED BY <1>1, <2>1 DEF Holds
<1> HIDE DEF s
<1> QED BY <1>1, <1>2, <1>3, WordsOfList

\* The pairs and the frames that Linked makes.
LinkedPairs(m, p, hs) ==
  IF hs.head = Nil THEN p ELSE [p EXCEPT ![hs.tail.pair].cdr = PairAt(NewAddress(m))]

LinkedFrames(m, hs) ==
  [m.frames EXCEPT ![Len(m.frames)] =
     [head |-> IF hs.head = Nil THEN PairAt(NewAddress(m)) ELSE hs.head,
      tail |-> PairAt(NewAddress(m))]]

\* What Linked writes, without its EXCEPT.
LEMMA LinkedIs ==
  ASSUME NEW m, IsMemory(m)
  PROVE  LET p == WithPair(m, m.held, Nil).pairs
             hs == Last(m.frames)
         IN  /\ Linked(m).space = m.space
             /\ Linked(m).pairs = LinkedPairs(m, p, hs)
             /\ Linked(m).frames = LinkedFrames(m, hs)
             /\ Linked(m) = [space |-> Linked(m).space, pairs |-> Linked(m).pairs,
                             frames |-> Linked(m).frames, held |-> Linked(m).held]
<1>1. PICK w, p, hs, g, fs2 :
        /\ w = WithPair(m, m.held, Nil) /\ p = w.pairs /\ hs = Last(m.frames)
        /\ g = LinkedPairs(m, p, hs) /\ fs2 = LinkedFrames(m, hs)
  OBVIOUS
<1>2. IsMemory(w) /\ w.space = m.space /\ w.frames = m.frames
  <2>1. Made(w, m, m.held, Nil)
    BY <1>1, PairMade
  <2> QED BY <2>1 DEF Made
<1>3. PICK v : v = [w EXCEPT !.pairs = g]
  OBVIOUS
<1>4. v = [space |-> m.space, pairs |-> g, frames |-> m.frames, held |-> w.held]
  BY <1>2, <1>3, PairsReplaced
<1>5. Linked(m) = [v EXCEPT !.frames = fs2, !.held = Nil]
  <2>1. v = [w EXCEPT !.pairs = IF hs.head = Nil THEN w.pairs
                                ELSE [w.pairs EXCEPT ![hs.tail.pair].cdr = PairAt(NewAddress(m))]]
    BY <1>1, <1>3, Zenon DEF LinkedPairs
  <2>2. Linked(m) = [v EXCEPT !.frames[Len(m.frames)] =
                       [head |-> IF hs.head = Nil THEN PairAt(NewAddress(m)) ELSE hs.head,
                        tail |-> PairAt(NewAddress(m))],
                     !.held = Nil]
    BY <1>1, <2>1, Zenon DEF Linked
  <2>3. v.frames = m.frames
    BY <1>4
  <2> QED BY <1>1, <2>2, <2>3 DEF LinkedFrames
<1>6. Linked(m) = [space |-> m.space, pairs |-> g, frames |-> fs2, held |-> Nil]
  BY <1>4, <1>5
<1> QED BY <1>1, <1>6

\* The word that is held becomes the last of the innermost list.
LEMMA LinkedBuilt ==
  ASSUME NEW m, NEW q, NEW h \in Nat, NEW d \in Nat, d <= h, NEW st \in Seq(Frame(d)), st # <<>>,
         NEW ss, AllBuilt(m, q, h, st, ss),
         NEW x \in Data[d], m.held \in Words(q, h, x),
         NEW st2, Len(st2) = Len(st), \A i \in 1..Len(st) : i # Len(st) => st2[i] = st[i],
         st2[Len(st)].items = Append(st[Len(st)].items, x)
  PROVE  \E ss2 : AllBuilt(Linked(m), q, h, st2, ss2)
<1>1. PICK p, b, w, hs, t : /\ p = m.pairs /\ b = NewAddress(m) /\ w = WithPair(m, m.held, Nil)
                            /\ hs = Last(m.frames) /\ t = PairAt(b)
  OBVIOUS
<1>2. IsMemory(m) /\ PartOf(q, p)
  BY <1>1 DEF AllBuilt
<1>3. /\ IsMemory(w) /\ w.frames = m.frames
      /\ DOMAIN w.pairs = DOMAIN p \cup {b} /\ b \notin DOMAIN p
      /\ w.pairs[b] = [car |-> m.held, cdr |-> Nil]
      /\ \A a \in DOMAIN p : w.pairs[a] = p[a]
  <2>1. Made(w, m, m.held, Nil)
    BY <1>1, <1>2, PairMade
  <2> QED BY <2>1, <1>1 DEF Made
<1>4. PICK n \in Nat : n = Len(st) /\ n # 0 /\ n \in 1..n
  BY FrontAndLast
<1>5. Len(m.frames) = n /\ Last(m.frames) = m.frames[n] /\ hs = m.frames[n]
  BY <1>1, <1>4 DEF AllBuilt, Last
<1>6. PICK xs, s : xs \in Seq(Data[d]) /\ xs = st[n].items /\ s = ss[n]
  BY <1>4, ItemsOf
<1> xs \in Seq(Data[d])
  BY <1>6
<1>7. PICK k \in Nat : k = Len(xs)
  BY LenProperties
<1>8. /\ hs.head = At(s, k, 1)
      /\ hs.tail = IF k = 0 THEN Nil ELSE PairAt(s[k])
      /\ \A j \in 1..k :
           /\ s[j] \in DOMAIN p /\ s[j] \notin DOMAIN q
           /\ p[s[j]].car \in Words(q, h, xs[j])
           /\ p[s[j]].cdr = At(s, k, j + 1)
           /\ \A l \in 1..k : s[j] = s[l] => j = l
  <2>1. Built(p, q, h, xs, hs, s)
    BY <1>1, <1>4, <1>5, <1>6 DEF AllBuilt
  <2> QED BY <2>1, <1>7 DEF Built
<1>9. k = 0 <=> hs.head = Nil
  BY <1>8, PairsAndNil DEF At
<1>10. PICK g, fs2, r : /\ g = LinkedPairs(m, w.pairs, hs) /\ fs2 = LinkedFrames(m, hs) /\ r = Linked(m)
                        /\ r.space = m.space /\ r.pairs = g /\ r.frames = fs2
                        /\ r = [space |-> r.space, pairs |-> r.pairs, frames |-> r.frames, held |-> r.held]
  BY <1>1, <1>2, LinkedIs
<1>11. g = IF k = 0 THEN w.pairs ELSE [w.pairs EXCEPT ![s[k]].cdr = t]
  <2>1. k # 0 => hs.tail.pair = s[k]
    BY <1>8, PairsAndNil
  <2> QED BY <2>1, <1>1, <1>9, <1>10 DEF LinkedPairs
<1>12. \A a \in DOMAIN w.pairs : w.pairs[a] = [car |-> w.pairs[a].car, cdr |-> w.pairs[a].cdr]
  BY <1>3 DEF IsMemory
<1>13. w.pairs = [a \in DOMAIN w.pairs |-> w.pairs[a]]
  BY <1>3 DEF IsMemory
<1>14. k # 0 => s[k] \in DOMAIN p
  BY <1>8
<1>15. /\ DOMAIN g = DOMAIN p \cup {b}
       /\ \A a \in DOMAIN g : k = 0 \/ a # s[k] => g[a] = w.pairs[a]
       /\ k # 0 => g[s[k]] = [car |-> p[s[k]].car, cdr |-> t]
  <2>1. CASE k = 0
    BY <2>1, <1>3, <1>11
  <2>2. CASE k # 0
    <3>1. PICK c, y, z : c = s[k] /\ y = p[c].car /\ z = p[c].cdr
      OBVIOUS
    <3>2. w.pairs[c] = [car |-> y, cdr |-> z] /\ c \in DOMAIN w.pairs
      BY <3>1, <2>2, <1>3, <1>12, <1>14
    <3>3. [w.pairs[c] EXCEPT !.cdr = t] = [car |-> y, cdr |-> t]
      BY <3>2
    <3>4. g = [w.pairs EXCEPT ![c] = [car |-> y, cdr |-> t]]
      BY <3>1, <3>3, <2>2, <1>11
    <3>5. DOMAIN g = DOMAIN w.pairs /\ g[c] = [car |-> y, cdr |-> t]
          /\ \A a \in DOMAIN w.pairs : a # c => g[a] = w.pairs[a]
      BY <3>2, <3>4, <1>13
    <3> QED BY <3>1, <3>5, <2>2, <1>3
  <2> QED BY <2>1, <2>2
<1>16. /\ Len(fs2) = n /\ \E S : fs2 \in Seq(S)
       /\ \A i \in 1..n : i # n => fs2[i] = m.frames[i]
       /\ fs2[n].head = IF k = 0 THEN t ELSE hs.head
       /\ fs2[n].tail = t
  <2>1. PICK S : m.frames \in Seq(S)
    BY <1>2 DEF IsMemory
  <2>2. PICK rec : rec = [head |-> IF k = 0 THEN t ELSE hs.head, tail |-> t]
    OBVIOUS
  <2>3. PICK S2 : S2 = S \cup {rec}
    OBVIOUS
  <2>4. S \subseteq S2 /\ rec \in S2
    BY <2>3
  <2>5. m.frames \in Seq(S2)
    BY <2>1, <2>4, SeqMonotonic
  <2>6. fs2 = [m.frames EXCEPT ![n] = rec]
    BY <2>2, <1>1, <1>5, <1>9, <1>10 DEF LinkedFrames
  <2>7. /\ fs2 \in Seq(S2) /\ Len(fs2) = n /\ fs2[n] = rec
        /\ \A i \in 1..n : i # n => fs2[i] = m.frames[i]
    BY <2>4, <2>5, <2>6, <1>4, <1>5
  <2> QED BY <2>2, <2>7
<1>17. IsMemory(r)
  <2>1. IsFiniteSet(DOMAIN g) /\ DOMAIN g \subseteq Nat
    BY <1>3, <1>15 DEF IsMemory
  <2>2. g = [a \in DOMAIN g |-> [car |-> g[a].car, cdr |-> g[a].cdr]]
    <3>1. \A a \in DOMAIN g : g[a] = [car |-> g[a].car, cdr |-> g[a].cdr]
      <4> TAKE a \in DOMAIN g
      <4>1. CASE k # 0 /\ a = s[k]
        BY <4>1, <1>15
      <4>2. CASE k = 0 \/ a # s[k]
        BY <4>2, <1>3, <1>12, <1>15
      <4> QED BY <4>1, <4>2
    <3>2. g = [a \in DOMAIN g |-> g[a]]
      BY <1>11, <1>13
    <3> QED BY <3>1, <3>2
  <2> QED BY <2>1, <2>2, <1>2, <1>10, <1>16 DEF IsMemory
<1>18. PartOf(q, g)
  <2> SUFFICES ASSUME NEW a \in DOMAIN q PROVE a \in DOMAIN g /\ g[a] = q[a]
    BY DEF PartOf
  <2>1. a \in DOMAIN p /\ p[a] = q[a]
    BY <1>2 DEF PartOf
  <2>2. k # 0 => a # s[k]
    BY <1>8
  <2> QED BY <2>1, <2>2, <1>3, <1>15
<1> DEFINE s2 == [j \in 1..k + 1 |-> IF j = k + 1 THEN b ELSE s[j]]
           ss2 == [i \in 1..n |-> IF i = n THEN s2 ELSE ss[i]]
<1>19. /\ s2[k + 1] = b /\ \A j \in 1..k : s2[j] = s[j]
       /\ ss2[n] = s2 /\ \A i \in 1..n : i # n => ss2[i] = ss[i]
  BY <1>4
<1> HIDE DEF s2, ss2
<1>20. PICK ys : ys = st2[n].items
  OBVIOUS
<1>21. Len(ys) = k + 1 /\ ys[k + 1] = x /\ \A j \in 1..k : ys[j] = xs[j]
  <2>1. ys = Append(xs, x)
    BY <1>4, <1>6, <1>20
  <2> QED BY <2>1, <1>7, AppendProperties
<1>22. Built(g, q, h, ys, fs2[n], s2)
  <2>1. fs2[n].head = At(s2, k + 1, 1)
    <3>1. 1 \in 1..k + 1 /\ ~(1 > k + 1) /\ (k # 0 => 1 \in 1..k /\ ~(1 > k))
      OBVIOUS
    <3> QED BY <3>1, <1>1, <1>8, <1>16, <1>19 DEF At
  <2>2. fs2[n].tail = PairAt(s2[k + 1])
    BY <1>1, <1>16, <1>19
  <2>3. \A j \in 1..k + 1 : j \in 1..k \/ j = k + 1
    OBVIOUS
  <2>4. ASSUME NEW j \in 1..k
        PROVE  /\ s2[j] \in DOMAIN g /\ s2[j] \notin DOMAIN q
               /\ g[s2[j]].car \in Words(q, h, ys[j])
               /\ g[s2[j]].cdr = At(s2, k + 1, j + 1)
    <3>1. s2[j] = s[j] /\ ys[j] = xs[j] /\ s[j] \in DOMAIN p /\ s[j] \notin DOMAIN q
      BY <1>8, <1>19, <1>21
    <3>2. CASE j = k
      <4>1. g[s[j]] = [car |-> p[s[j]].car, cdr |-> t]
        BY <3>2, <1>15
      <4>2. At(s2, k + 1, j + 1) = t
        BY <3>2, <1>1, <1>19 DEF At
      <4> QED BY <3>1, <4>1, <4>2, <1>8, <1>15
    <3>3. CASE j # k
      <4>1. s[j] # s[k] /\ j + 1 \in 1..k /\ ~(j + 1 > k) /\ ~(j + 1 > k + 1)
        BY <3>3, <1>8
      <4>2. g[s[j]] = p[s[j]] /\ s[j] \in DOMAIN g
        BY <3>1, <4>1, <1>3, <1>15
      <4>3. At(s2, k + 1, j + 1) = At(s, k, j + 1)
        BY <4>1, <1>19 DEF At
      <4> QED BY <3>1, <4>2, <4>3, <1>8
    <3> QED BY <3>2, <3>3
  <2>5. /\ b \in DOMAIN g /\ b \notin DOMAIN q
        /\ g[b].car \in Words(q, h, x)
        /\ g[b].cdr = At(s2, k + 1, (k + 1) + 1)
    <3>1. k # 0 => b # s[k]
      BY <1>3, <1>14
    <3>2. b \in DOMAIN g /\ g[b] = [car |-> m.held, cdr |-> Nil]
      BY <3>1, <1>3, <1>15
    <3>3. At(s2, k + 1, (k + 1) + 1) = Nil
      BY DEF At
    <3>4. b \notin DOMAIN q
      BY <1>2, <1>3 DEF PartOf
    <3> QED BY <3>2, <3>3, <3>4
  <2>6. ASSUME NEW j \in 1..k + 1, NEW l \in 1..k + 1, s2[j] = s2[l] PROVE j = l
    <3>1. \A i \in 1..k : s2[i] # b
      BY <1>3, <1>8, <1>19
    <3> QED BY <3>1, <2>3, <2>6, <1>8, <1>19
  <2>7. ASSUME NEW j \in 1..k + 1
        PROVE  /\ s2[j] \in DOMAIN g /\ s2[j] \notin DOMAIN q
               /\ g[s2[j]].car \in Words(q, h, ys[j])
               /\ g[s2[j]].cdr = At(s2, k + 1, j + 1)
    BY <2>3, <2>4, <2>5, <1>19, <1>21
  <2> QED BY <2>1, <2>2, <2>6, <2>7, <1>21 DEF Built
<1>23. ASSUME NEW i \in 1..n, i # n PROVE Built(g, q, h, st2[i].items, fs2[i], ss2[i])
  <2>1. PICK zs, u, f : zs \in Seq(Data[d]) /\ zs = st[i].items /\ u = ss[i] /\ f = m.frames[i]
    BY <1>4, ItemsOf
  <2> zs \in Seq(Data[d])
    BY <2>1
  <2>2. Built(p, q, h, zs, f, u)
    BY <2>1, <1>1, <1>4 DEF AllBuilt
  <2>3. ASSUME NEW j \in 1..Len(zs)
        PROVE  u[j] \in DOMAIN g /\ g[u[j]] = p[u[j]] /\ u[j] \notin DOMAIN q
    <3>1. u[j] \in DOMAIN p /\ u[j] \notin DOMAIN q
      BY <2>2 DEF Built
    <3>2. k # 0 => u[j] # s[k]
      <4> HAVE k # 0
      <4>1. k \in 1..Len(st[n].items) /\ j \in 1..Len(st[i].items)
        BY <2>1, <1>6, <1>7
      <4>2. ss[i][j] # ss[n][k]
        BY <4>1, <1>4, <1>23 DEF AllBuilt
      <4> QED BY <4>2, <2>1, <1>6
    <3> QED BY <3>1, <3>2, <1>3, <1>15
  <2>4. PartOf(q, q) /\ d <= h
    BY DEF PartOf
  <2>5. Built(g, q, h, zs, f, u)
    BY <2>2, <2>3, <2>4, BuiltKept
  <2>6. st2[i] = st[i] /\ fs2[i] = m.frames[i] /\ ss2[i] = ss[i]
    BY <1>4, <1>16, <1>19, <1>23
  <2> QED BY <2>1, <2>5, <2>6
<1>24. ASSUME NEW i \in 1..n, i # n,
              NEW j \in 1..Len(st2[i].items), NEW l \in 1..Len(ys), ss2[i][j] = s2[l]
       PROVE  FALSE
  <2>1. st2[i] = st[i] /\ ss2[i] = ss[i]
    BY <1>4, <1>19, <1>24
  <2>2. ss[i][j] \in DOMAIN p
    BY <2>1, <1>1, <1>4 DEF AllBuilt, Built
  <2>3. l \in 1..k \/ l = k + 1
    BY <1>21
  <2>4. CASE l = k + 1
    BY <2>1, <2>2, <2>4, <1>3, <1>19, <1>24
  <2>5. CASE l \in 1..k
    <3>1. l \in 1..Len(st[n].items) /\ j \in 1..Len(st[i].items)
      BY <2>1, <2>5, <1>6, <1>7
    <3>2. ss[i][j] # ss[n][l]
      BY <3>1, <1>4, <1>24 DEF AllBuilt
    <3> QED BY <3>2, <2>1, <2>5, <1>6, <1>19, <1>24
  <2> QED BY <2>3, <2>4, <2>5
<1>25. ASSUME NEW i \in 1..n, NEW l \in 1..n, i # l,
              NEW j \in 1..Len(st2[i].items), NEW z \in 1..Len(st2[l].items)
       PROVE  ss2[i][j] # ss2[l][z]
  <2>1. CASE i = n
    BY <2>1, <1>19, <1>20, <1>24, <1>25
  <2>2. CASE l = n
    <3>1. i # n /\ ss2[l] = s2 /\ st2[l].items = ys
      BY <2>2, <1>19, <1>20, <1>25
    <3> QED BY <3>1, <1>24
  <2>3. CASE i # n /\ l # n
    <3>1. st2[i] = st[i] /\ ss2[i] = ss[i] /\ st2[l] = st[l] /\ ss2[l] = ss[l]
      BY <2>3, <1>4, <1>19
    <3>2. \A a \in 1..n, c \in 1..n : a # c =>
            \A f \in 1..Len(st[a].items), g2 \in 1..Len(st[c].items) : ss[a][f] # ss[c][g2]
      BY <1>4 DEF AllBuilt
    <3>3. j \in 1..Len(st[i].items) /\ z \in 1..Len(st[l].items)
      BY <3>1
    <3>4. ss[i][j] # ss[l][z]
      BY <3>2, <3>3, <1>25
    <3> QED BY <3>1, <3>4
  <2> QED BY <2>1, <2>2, <2>3
<1>26. AllBuilt(r, q, h, st2, ss2)
  <2>1. \A i \in 1..n : Built(g, q, h, st2[i].items, fs2[i], ss2[i])
    BY <1>19, <1>20, <1>22, <1>23
  <2> QED BY <2>1, <1>4, <1>10, <1>16, <1>17, <1>18, <1>25 DEF AllBuilt
<1> QED BY <1>10, <1>26

\* What a call of parseQuote leaves in memory: the list of its mark and x, or
\* more exactly a word that stands for it.
QuoteMade(r, h, st, mark, x, w) ==
  \E q, ss : /\ AllBuilt(r, q, h, st, ss)
             /\ w \in Words(q, h, Quoted(mark, x))

\* What else is in memory when another word is held.
LEMMA HeldReplaced ==
  ASSUME NEW m, IsMemory(m), NEW v, NEW g
  PROVE  [m EXCEPT !.frames = g, !.held = v] = [[m EXCEPT !.frames = g] EXCEPT !.held = v]
<1>1. PICK p, f, e, w : p = m.pairs /\ f = m.frames /\ e = m.space /\ w = m.held
  OBVIOUS
<1>2. m = [space |-> e, pairs |-> p, frames |-> f, held |-> w]
  BY <1>1 DEF IsMemory
<1> QED BY <1>2

\* The list of one element that wrapped is.
LEMMA WrappedBuilt ==
  ASSUME NEW m, NEW q, NEW h \in Nat, NEW d \in Nat, d < h, NEW st \in Seq(Frame(d)),
         NEW ss, AllBuilt(m, q, h, st, ss), NEW x \in Data[d], m.held \in Words(q, h, x)
  PROVE  \E q2 : /\ AllBuilt(Wrapped(m), q2, h, st, ss)
                 /\ Wrapped(m).held \in Words(q2, h, List(<<x>>))
<1>1. PICK r, a, v : r = WithPair(m, m.held, Nil) /\ a = NewAddress(m) /\ v = m.held
  OBVIOUS
<1>0. d \in Nat /\ d <= h /\ h # 0
  OBVIOUS
<1>2. Adds(r, m, q, h, st, ss, a, [car |-> v, cdr |-> Nil])
  BY <1>0, <1>1, PairAdded
<1>3. PICK q2 : /\ AllBuilt(r, q2, h, st, ss) /\ PartOf(q, q2)
                /\ a \in DOMAIN q2 /\ q2[a] = [car |-> v, cdr |-> Nil]
  BY <1>2 DEF Adds
<1>4. v \in Words(q2, h, x)
  <2>1. PICK w \in Words(q, h, x) : w = v
    BY <1>1
  <2>2. w \in Words(q2, h, x)
    BY <1>0, <1>3, WordsKept
  <2> QED BY <2>1, <2>2
<1>5. PICK none, one \in Seq(Data[d]) : none = <<>> /\ one = <<x>> /\ none \in Seq(Data[d])
  <2>1. <<>> \in Seq(Data[d]) /\ <<x>> \in Seq(Data[d])
    BY EmptySeq, ShortSeqs
  <2> QED BY <2>1
<1>6. Len(none) = 0 /\ Len(one) = Len(none) + 1 /\ one[1] = x
  BY <1>5
<1>7. Nil \in Words(q2, h, List(none))
  BY <1>0, <1>5, NilIsEmptyList
<1>8. q2[a].car \in Words(q2, h, x) /\ q2[a].cdr \in Words(q2, h, List(none))
  BY <1>3, <1>4, <1>7
<1>9. PairAt(a) \in Words(q2, h, List(one))
  <2>1. \A j \in 1..Len(none) : one[j + 1] = none[j]
    BY <1>6
  <2>2. d < h /\ x \in Data[d] /\ one \in Seq(Data[d]) /\ none \in Seq(Data[d]) /\ a \in DOMAIN q2
    BY <1>3, <1>5
  <2>3. PICK y \in Data[d], us \in Seq(Data[d]), ws \in Seq(Data[d]) : y = x /\ us = none /\ ws = one
    BY <2>2
  <2>4. PairAt(a) \in Words(q2, h, List(ws))
    BY <2>1, <2>2, <2>3, <1>6, <1>8, ConsWords
  <2> QED BY <2>3, <2>4
<1>10. PICK z : z = PairAt(a)
  OBVIOUS
<1>11. Wrapped(m) = [r EXCEPT !.held = z]
  BY <1>1, <1>10 DEF Wrapped
<1>12. AllBuilt([r EXCEPT !.held = z], q2, h, st, ss) /\ [r EXCEPT !.held = z].held = z
  BY <1>3, HeldIsFree
<1> QED BY <1>5, <1>9, <1>10, <1>11, <1>12

\* parseQuote makes the list of the quote's name and the body.
LEMMA QuoteBuilt ==
  ASSUME NEW m, NEW q, NEW h \in Nat, NEW d \in Nat, d < h, NEW st \in Seq(Frame(d)), st # <<>>,
         NEW ss, AllBuilt(m, q, h, st, ss), NEW x \in Data[d], m.held \in Words(q, h, x),
         NEW mark \in Marks, NEW body \in Room(m), NEW wrapped \in Room(Wrapped(body))
  PROVE  QuoteMade([WithPair(wrapped, Symbol(<<mark>>), wrapped.held)
                      EXCEPT !.frames = Front(@), !.held = Nil],
                   h, Front(st), mark, x, PairAt(NewAddress(wrapped)))
<1>0. d \in Nat /\ d <= h /\ d \in 0..h /\ h # 0 /\ d + 1 \in 0..h /\ d + 1 \in Nat /\ d + 1 <= h
  OBVIOUS
<1>1. PICK q1, ss1 : AllBuilt(body, q1, h, st, ss1) /\ body.held \in Words(q1, h, x)
  <2>1. RoomMade(body, m, q, h, st)
    BY <1>0, RoomIsMade
  <2> QED BY <2>1, <1>0 DEF RoomMade
<1>2. PICK q2 : /\ AllBuilt(Wrapped(body), q2, h, st, ss1)
                /\ Wrapped(body).held \in Words(q2, h, List(<<x>>))
  BY <1>0, <1>1, WrappedBuilt
<1>3. PICK one \in Seq(Data[d]), two \in Seq(Data[d]), sym \in Atoms :
        one = <<x>> /\ two = <<sym, x>> /\ sym = Symbol(<<mark>>)
  <2>1. Symbol(<<mark>>) \in Atoms
    <3>1. <<mark>> \in Seq(Characters \cup Marks)
      BY ShortSeqs
    <3> QED BY <3>1 DEF Symbol, Atoms
  <2>2. Symbol(<<mark>>) \in Data[d]
    BY <2>1, AtomIsDatum
  <2>3. <<x>> \in Seq(Data[d]) /\ <<Symbol(<<mark>>), x>> \in Seq(Data[d])
    BY <2>2, ShortSeqs
  <2> QED BY <2>1, <2>3
<1>4. PICK ox \in Data[d + 1] : ox = List(one)
  BY ListIsDatum
<1>5. PICK q3, ss3 : AllBuilt(wrapped, q3, h, st, ss3) /\ wrapped.held \in Words(q3, h, ox)
  <2>1. PICK u : u = Wrapped(body) /\ AllBuilt(u, q2, h, st, ss1) /\ u.held \in Words(q2, h, ox)
                 /\ wrapped \in Room(u)
    BY <1>2, <1>3, <1>4
  <2>2. RoomMade(wrapped, u, q2, h, st)
    BY <1>0, <2>1, RoomIsMade
  <2> QED BY <2>1, <2>2, <1>0 DEF RoomMade
<1>6. PICK r, a, v : r = WithPair(wrapped, sym, wrapped.held) /\ a = NewAddress(wrapped) /\ v = wrapped.held
  OBVIOUS
<1>7. Adds(r, wrapped, q3, h, st, ss3, a, [car |-> sym, cdr |-> v])
  BY <1>0, <1>5, <1>6, PairAdded
<1>8. PICK q4 : /\ AllBuilt(r, q4, h, st, ss3) /\ PartOf(q3, q4)
                /\ a \in DOMAIN q4 /\ q4[a] = [car |-> sym, cdr |-> v]
  BY <1>7 DEF Adds
<1>9. v \in Words(q4, h, List(one))
  <2>1. PICK w \in Words(q3, h, ox) : w = v
    BY <1>5, <1>6
  <2>2. PICK n \in Nat : n = d + 1 /\ n <= h /\ ox \in Data[n]
    BY <1>0
  <2>3. w \in Words(q4, h, ox)
    BY <2>2, <1>8, WordsKept
  <2> QED BY <2>1, <2>3, <1>4
<1>10. sym \in Words(q4, h, sym) /\ sym \in Data[d]
  <2>1. AtomWord(sym) = sym
    BY <1>3 DEF AtomWord, Symbol
  <2>2. Words(q4, h, sym) = {AtomWord(sym)}
    BY WordsOfAtom
  <2> QED BY <2>1, <2>2, AtomIsDatum
<1>11. PairAt(a) \in Words(q4, h, List(two))
  <2>1. PICK y \in Data[d] : y = sym
    BY <1>10
  <2>2. Len(one) = 1 /\ Len(two) = Len(one) + 1 /\ two[1] = y /\ two[2] = one[1]
    BY <2>1, <1>3
  <2>3. \A j \in 1..Len(one) : two[j + 1] = one[j]
    BY <2>2
  <2>4. q4[a].car \in Words(q4, h, y) /\ q4[a].cdr \in Words(q4, h, List(one))
    BY <2>1, <1>8, <1>9, <1>10
  <2> QED BY <2>2, <2>3, <2>4, <1>8, ConsWords
<1>12. Returns(r, q4, h, st, Last(st).items)
  BY <1>0, <1>8, ReturnsBuilt
<1>13. PICK r2 : r2 = [r EXCEPT !.frames = Front(@)]
  OBVIOUS
<1>14. PICK q5, ss5 : AllBuilt(r2, q5, h, Front(st), ss5) /\ PartOf(q4, q5)
  BY <1>12, <1>13 DEF Returns
<1>15. PairAt(a) \in Words(q5, h, List(two))
  <2>4. PICK n \in Nat : n = d + 1 /\ n <= h
    BY <1>0
  <2>1. PICK y \in Data[n] : y = List(two)
    BY <2>4, ListIsDatum
  <2>2. PICK w \in Words(q4, h, y) : w = PairAt(a)
    BY <2>1, <1>11
  <2>3. w \in Words(q5, h, y)
    BY <2>4, <1>14, WordsKept
  <2> QED BY <2>1, <2>2, <2>3
<1>16. PICK r3 : r3 = [r2 EXCEPT !.held = Nil]
  OBVIOUS
<1>17. AllBuilt(r3, q5, h, Front(st), ss5)
  BY <1>14, <1>16, HeldIsFree
<1>18. r3 = [r EXCEPT !.frames = Front(@), !.held = Nil]
  <2>1. PICK g : g = Front(r.frames)
    OBVIOUS
  <2>2. IsMemory(r)
    BY <1>8 DEF AllBuilt
  <2>3. [r EXCEPT !.frames = g, !.held = Nil] = [[r EXCEPT !.frames = g] EXCEPT !.held = Nil]
    BY <2>2, HeldReplaced
  <2> QED BY <2>1, <2>3, <1>13, <1>16
<1>19. Quoted(mark, x) = List(two)
  BY <1>3 DEF Quoted
<1>20. QuoteMade(r3, h, Front(st), mark, x, PairAt(a))
  BY <1>15, <1>17, <1>19 DEF QuoteMade
<1> QED BY <1>3, <1>6, <1>18, <1>20

-----------------------------------------------------------------------------
(***************************************************************************)
(* The invariant: the lists of all calls are built, and what parse         *)
(* returned stands for the datum that Parser has.                          *)
(***************************************************************************)
\* The levels that StandsFor allows, one more than a datum of the text can have.
Deepest == Len(text) + 1

WordStands(q, h, w, r) == IF r = NoDatum THEN w = NoDatum ELSE w \in Words(q, h, r)

InMemory ==
  /\ \E q, ss : /\ AllBuilt(memory, q, Deepest, stack, ss)
                /\ pc = "return" => WordStands(q, Deepest, word, result)
  /\ pc = "done" => word = Last(memory.frames).head

\* Data are nested less deep than StandsFor allows.
LEMMA MemoryFacts ==
  ASSUME Types
  PROVE  /\ Depth \in Nat /\ Deepest \in Nat /\ Depth < Deepest /\ Depth <= Deepest
         /\ stack \in Seq(Frame(Depth)) /\ stack # <<>>
<1>1. /\ ix \in Nat /\ ix <= Len(text) /\ Len(text) \in Nat /\ Len(stack) \in Nat \ {0}
      /\ Depth \in Nat /\ Depth = ix + 1 - Len(stack) /\ StackOK(stack, Depth)
  BY TypesFacts
<1>2. PICK d, i, t, n : d = Depth /\ i = ix /\ t = Len(text) /\ n = Len(stack)
  OBVIOUS
<1>3. d \in Nat /\ t + 1 \in Nat /\ d < t + 1 /\ d <= t + 1
  BY <1>1, <1>2
<1> QED BY <1>1, <1>2, <1>3 DEF Deepest, StackOK

\* Each list stands for what its call has read.
LEMMA HeadStands ==
  ASSUME NEW m, NEW q, NEW h \in Nat, NEW d \in Nat, d < h, NEW st \in Seq(Frame(d)),
         NEW ss, AllBuilt(m, q, h, st, ss), NEW i \in 1..Len(st)
  PROVE  m.frames[i].head \in Words(m.pairs, h, List(st[i].items))
<1>1. PICK xs, s, p, w : xs \in Seq(Data[d]) /\ xs = st[i].items /\ s = ss[i] /\ p = m.pairs /\ w = m.frames[i].head
  BY ItemsOf
<1> xs \in Seq(Data[d])
  BY <1>1
<1>2. Built(p, q, h, xs, m.frames[i], s) /\ PartOf(q, p)
  BY <1>1 DEF AllBuilt
<1>3. PICK k \in Nat : k = Len(xs) /\ \A j \in 1..k : xs[j] \in Data[d]
  BY LenProperties, ElementOfSeq
<1>4. /\ w = At(s, k, 1)
      /\ \A j \in 1..k : /\ s[j] \in DOMAIN p /\ p[s[j]].car \in Words(q, h, xs[j])
                         /\ p[s[j]].cdr = At(s, k, j + 1)
  BY <1>1, <1>2, <1>3 DEF Built
<1> DEFINE t == [j \in 1..k |-> s[j]]
<1>5. t \in [1..Len(xs) -> DOMAIN p] /\ \A j \in 1..k : t[j] = s[j]
  BY <1>3, <1>4
<1> HIDE DEF t
<1>6. \A j \in 1..k + 1 : At(t, k, j) = At(s, k, j)
  BY <1>5 DEF At
<1>7. ASSUME NEW j \in 1..k
      PROVE  p[t[j]].car \in Words(p, h, xs[j]) /\ p[t[j]].cdr = At(t, k, j + 1)
  <2>1. PICK x \in Data[d] : x = xs[j]
    BY <1>3
  <2>2. PICK v \in Words(q, h, x) : v = p[s[j]].car
    BY <2>1, <1>4
  <2>3. d \in Nat /\ d <= h
    OBVIOUS
  <2>4. v \in Words(p, h, x)
    BY <2>3, <1>2, WordsKept
  <2>5. j + 1 \in 1..k + 1 /\ t[j] = s[j]
    BY <1>5
  <2> QED BY <2>1, <2>2, <2>4, <2>5, <1>4, <1>6
<1>8. w = At(t, k, 1)
  <2>1. 1 \in 1..k + 1
    OBVIOUS
  <2> QED BY <2>1, <1>4, <1>6
<1>9. Holds(p, h, xs, t, w)
  BY <1>3, <1>7, <1>8 DEF Holds
<1>10. w \in Words(p, h, List(xs))
  BY <1>5, <1>9, WordsOfList
<1> QED BY <1>1, <1>10

\* The invariant says what MemoryHoldsData asks for.
LEMMA InMemoryHoldsData == Types /\ InMemory => MemoryHoldsData
<1> SUFFICES ASSUME Types, InMemory PROVE MemoryHoldsData
  OBVIOUS
<1>1. PICK q, ss : /\ AllBuilt(memory, q, Deepest, stack, ss)
                   /\ pc = "return" => WordStands(q, Deepest, word, result)
  BY DEF InMemory
<1>2. /\ Depth \in Nat /\ Deepest \in Nat /\ Depth < Deepest /\ Depth <= Deepest
      /\ stack \in Seq(Frame(Depth)) /\ stack # <<>>
  BY MemoryFacts
<1>3. DOMAIN stack = 1..Len(stack) /\ Len(stack) \in Nat \ {0}
  BY <1>2, FrontAndLast, LenProperties
<1>4. Len(memory.frames) = Len(stack) /\ PartOf(q, memory.pairs)
  BY <1>1 DEF AllBuilt
<1>5. \A i \in DOMAIN stack : StandsFor(memory.frames[i].head, List(stack[i].items))
  <2> TAKE i \in DOMAIN stack
  <2>1. i \in 1..Len(stack)
    BY <1>3
  <2>2. memory.frames[i].head \in Words(memory.pairs, Deepest, List(stack[i].items))
    BY <2>1, <1>1, <1>2, HeadStands
  <2> QED BY <2>2 DEF StandsFor, Deepest
<1>6. CASE pc = "return"
  <2>1. CASE result = NoDatum
    BY <2>1, <1>1, <1>4, <1>5, <1>6 DEF WordStands, MemoryHoldsData
  <2>2. CASE result # NoDatum
    <3>1. result \in Data[Depth] /\ word \in Words(q, Deepest, result)
      BY <2>2, <1>1, <1>6 DEF WordStands, Types
    <3>2. word \in Words(memory.pairs, Deepest, result)
      BY <3>1, <1>2, <1>4, WordsKept
    <3> QED BY <3>2, <2>2, <1>4, <1>5 DEF MemoryHoldsData, StandsFor, Deepest
  <2> QED BY <2>1, <2>2
<1>7. CASE pc = "done"
  <2>1. word = Last(memory.frames).head /\ Len(stack) = 1 /\ result = List(frame.items)
    BY <1>7 DEF InMemory, Types
  <2>2. Last(memory.frames) = memory.frames[1] /\ frame = stack[1] /\ 1 \in DOMAIN stack
    BY <2>1, <1>3, <1>4 DEF Last, frame
  <2>3. StandsFor(word, result)
    BY <2>1, <2>2, <1>5
  <2>4. result # NoDatum
    BY <2>1 DEF List, NoDatum
  <2> QED BY <2>3, <2>4, <1>4, <1>5 DEF MemoryHoldsData
<1>8. CASE pc \notin {"return", "done"}
  BY <1>4, <1>5, <1>8 DEF MemoryHoldsData
<1> QED BY <1>6, <1>7, <1>8

\* The list of parseProg begins with nothing.
LEMMA MemoryInitially == MemoryInit => InMemory
<1> SUFFICES ASSUME MemoryInit PROVE InMemory
  OBVIOUS
<1>1. PICK p : p = [a \in {} |-> Nil]
  OBVIOUS
<1>2. /\ memory = [space |-> 0, pairs |-> p, frames |-> <<NoHandles>>, held |-> Nil]
      /\ stack = <<[fn |-> "prog", mark |-> "", items |-> <<>>]>>
      /\ pc = "parse"
  BY <1>1 DEF MemoryInit, Init
<1>3. /\ memory.space = 0 /\ memory.pairs = p /\ memory.frames = <<NoHandles>> /\ memory.held = Nil
  BY <1>2
<1>4. DOMAIN p = {} /\ p = [a \in {} |-> [car |-> p[a].car, cdr |-> p[a].cdr]]
  BY <1>1
<1>5. <<NoHandles>> \in Seq({NoHandles}) /\ Len(<<NoHandles>>) = 1 /\ <<NoHandles>>[1] = NoHandles
  OBVIOUS
<1>6. IsMemory(memory)
  <2>1. IsFiniteSet({})
    BY FS_EmptySet
  <2>2. IsFiniteSet(DOMAIN memory.pairs) /\ DOMAIN memory.pairs \subseteq Nat
    BY <2>1, <1>3, <1>4
  <2>3. memory.pairs = [a \in DOMAIN memory.pairs |->
                          [car |-> memory.pairs[a].car, cdr |-> memory.pairs[a].cdr]]
    BY <1>3, <1>4
  <2>4. \E S : memory.frames \in Seq(S)
    BY <1>3, <1>5
  <2>5. memory = [space |-> memory.space, pairs |-> memory.pairs, frames |-> memory.frames,
                  held |-> memory.held]
    BY <1>2, <1>3
  <2> QED BY <2>2, <2>3, <2>4, <2>5, <1>3 DEF IsMemory
<1>7. Len(stack) = 1 /\ stack[1].items = <<>> /\ Len(<<>>) = 0
  BY <1>2
<1>8. PartOf(p, p)
  BY DEF PartOf
<1>9. Built(p, p, Deepest, <<>>, NoHandles, p)
  <2>1. NoHandles.head = Nil /\ NoHandles.tail = Nil /\ At(p, 0, 1) = Nil
    BY DEF NoHandles, At
  <2> QED BY <2>1, <1>7 DEF Built
<1> DEFINE ss == [i \in 1..1 |-> p]
<1>10. AllBuilt(memory, p, Deepest, stack, ss)
  <2>1. \A i \in 1..1 : i = 1 /\ ss[i] = p
    OBVIOUS
  <2> HIDE DEF ss
  <2> QED BY <2>1, <1>3, <1>5, <1>6, <1>7, <1>8, <1>9 DEF AllBuilt
<1> HIDE DEF ss
<1> QED BY <1>2, <1>10 DEF InMemory

\* Nothing happens to memory.
LEMMA QuietInMemory ==
  ASSUME InMemory, UNCHANGED <<text, stack, memory>>, pc' \notin {"return", "done"}
  PROVE  InMemory'
  BY DEF InMemory, Deepest

\* parse returns an atom.
LEMMA AtomInMemory ==
  ASSUME Types, InMemory, UNCHANGED <<text, stack>>, pc' = "return", result' \in Atoms,
         AtomReturned
  PROVE  InMemory'
<1>1. /\ Depth \in Nat /\ Deepest \in Nat /\ Depth < Deepest /\ Depth <= Deepest
      /\ stack \in Seq(Frame(Depth)) /\ stack # <<>>
  BY MemoryFacts
<1>2. PICK q, ss : AllBuilt(memory, q, Deepest, stack, ss)
  BY DEF InMemory
<1>3. word' = AtomWord(result') /\ memory' \in Room(memory)
  BY DEF AtomReturned, Room
<1>4. RoomMade(memory', memory, q, Deepest, stack)
  BY <1>1, <1>2, <1>3, RoomIsMade
<1>5. PICK q2, ss2 : AllBuilt(memory', q2, Deepest, stack, ss2)
  BY <1>4 DEF RoomMade
<1>6. Words(q2, Deepest, result') = {AtomWord(result')}
  BY <1>1, WordsOfAtom
<1>7. result' # NoDatum
  BY DEF Atoms, NoDatum, Unread
<1>8. WordStands(q2, Deepest, word', result') /\ Deepest' = Deepest
  BY <1>3, <1>6, <1>7 DEF WordStands, Deepest
<1> QED BY <1>5, <1>8 DEF InMemory

\* A call begins.
LEMMA CallInMemory ==
  ASSUME Types, InMemory, UNCHANGED text, pc' \in {"parse", "list"}, HandlesBegin,
         NEW fn \in {"list", "quote"}, NEW mark \in Opens \cup Marks, Call(fn, mark)
  PROVE  InMemory'
<1>1. /\ Depth \in Nat /\ Deepest \in Nat /\ Depth < Deepest /\ Depth <= Deepest
      /\ stack \in Seq(Frame(Depth)) /\ stack # <<>>
  BY MemoryFacts
<1>2. PICK q, ss : AllBuilt(memory, q, Deepest, stack, ss)
  BY DEF InMemory
<1>3. PICK f : f = [fn |-> fn, mark |-> mark, items |-> <<>>]
  OBVIOUS
<1>4. f \in Frame(Depth) /\ f.items = <<>>
  <2>1. <<>> \in Seq(Data[Depth])
    BY EmptySeq
  <2> QED BY <2>1, <1>3 DEF Frame
<1>5. stack' = Append(stack, f)
  BY <1>3 DEF Call
<1>6. memory' = [memory EXCEPT !.frames = Append(@, NoHandles)]
  BY DEF HandlesBegin
<1>7. \E ss2 : AllBuilt(memory', q, Deepest, stack', ss2)
  BY <1>1, <1>2, <1>4, <1>5, <1>6, BeginsBuilt
<1> QED BY <1>7 DEF InMemory, Deepest

\* An element is added to the list of a call.
LEMMA ItemInMemory ==
  ASSUME Types, InMemory, UNCHANGED text, pc = "return", result # NoDatum,
         frame.fn # "quote", stack' = Extended, pc' \in {"parse", "list"}, ItemLinked
  PROVE  InMemory'
<1>1. /\ Depth \in Nat /\ Deepest \in Nat /\ Depth < Deepest /\ Depth <= Deepest
      /\ stack \in Seq(Frame(Depth)) /\ stack # <<>>
  BY MemoryFacts
<1>2. PICK q, ss : /\ AllBuilt(memory, q, Deepest, stack, ss)
                   /\ word \in Words(q, Deepest, result)
  BY DEF InMemory, WordStands
<1>3. result \in Data[Depth]
  BY DEF Types
<1>4. word # NoDatum
  <2>1. IsWord(q, word)
    BY <1>1, <1>2, <1>3, WordsAreWords
  <2> QED BY <2>1 DEF IsWord
<1>5. PICK m : m = [memory EXCEPT !.held = word]
  OBVIOUS
<1>6. AllBuilt(m, q, Deepest, stack, ss) /\ m.held = word
  BY <1>2, <1>5, HeldIsFree
<1>7. PICK r \in Room(m) : memory' = Linked(r)
  BY <1>4, <1>5 DEF ItemLinked
<1>8. RoomMade(r, m, q, Deepest, stack)
  BY <1>1, <1>6, RoomIsMade
<1>9. Depth \in 0..Deepest
  BY <1>1
<1>10. PICK q2, ss2 : AllBuilt(r, q2, Deepest, stack, ss2) /\ r.held \in Words(q2, Deepest, result)
  BY <1>2, <1>3, <1>6, <1>8, <1>9 DEF RoomMade
<1>11. /\ Len(Extended) = Len(stack)
       /\ \A i \in 1..Len(stack) - 1 : Extended[i] = stack[i]
       /\ Last(Extended) = [fn |-> frame.fn, mark |-> frame.mark, items |-> Append(frame.items, result)]
  BY <1>1, <1>3, TypesFacts, Extends
<1>12. PICK n \in Nat : n = Len(stack) /\ n # 0
  BY <1>1, FrontAndLast
<1>13. /\ Len(stack') = Len(stack)
       /\ \A i \in 1..Len(stack) : i # Len(stack) => stack'[i] = stack[i]
       /\ stack'[Len(stack)].items = Append(stack[Len(stack)].items, result)
  <2>1. \A i \in 1..n : i # n => i \in 1..n - 1
    OBVIOUS
  <2>2. Last(Extended) = Extended[n] /\ frame = stack[n]
    BY <1>11, <1>12 DEF Last, frame
  <2>3. PICK e, f : e = Extended /\ f = frame /\ e[n] = [fn |-> f.fn, mark |-> f.mark, items |-> Append(f.items, result)]
    BY <2>2, <1>11
  <2>4. e[n].items = Append(f.items, result)
    BY <2>3
  <2>5. stack' = e /\ stack[n] = f
    BY <2>2, <2>3
  <2>6. \A i \in 1..n - 1 : e[i] = stack[i]
    BY <2>3, <1>11, <1>12
  <2>7. Len(e) = n
    BY <2>3, <1>11, <1>12
  <2>8. \A i \in 1..n : i # n => e[i] = stack[i]
    BY <2>1, <2>6
  <2> QED BY <2>4, <2>5, <2>7, <2>8, <1>12
<1>14. \E ss3 : AllBuilt(Linked(r), q2, Deepest, stack', ss3)
  BY <1>1, <1>3, <1>10, <1>13, LinkedBuilt
<1>15. \E q3, ss3 : AllBuilt(memory', q3, Deepest, stack', ss3)
  BY <1>7, <1>14
<1> QED BY <1>15 DEF InMemory, Deepest

\* A list is closed.
LEMMA ListInMemory ==
  ASSUME Types, InMemory, UNCHANGED text, pc' = "return", stack' = Front(stack),
         result' = List(frame.items), ListReturned
  PROVE  InMemory'
<1>1. /\ Depth \in Nat /\ Deepest \in Nat /\ Depth < Deepest /\ Depth <= Deepest
      /\ stack \in Seq(Frame(Depth)) /\ stack # <<>>
  BY MemoryFacts
<1>2. PICK q, ss : AllBuilt(memory, q, Deepest, stack, ss)
  BY DEF InMemory
<1>3. Returns(memory, q, Deepest, stack, Last(stack).items)
  BY <1>1, <1>2, ReturnsBuilt
<1>4. memory' = [memory EXCEPT !.frames = Front(@)] /\ word' = Last(memory.frames).head
  BY DEF ListReturned
<1>5. PICK q2, ss2 : /\ AllBuilt(memory', q2, Deepest, stack', ss2)
                     /\ word' \in Words(q2, Deepest, result')
  BY <1>3, <1>4 DEF Returns, frame
<1>6. result' # NoDatum /\ Deepest' = Deepest
  BY DEF List, NoDatum, Deepest
<1> QED BY <1>5, <1>6 DEF InMemory, WordStands

\* A quoted datum is made a list.
LEMMA QuoteInMemory ==
  ASSUME Types, InMemory, UNCHANGED text, pc = "return", result # NoDatum,
         frame.fn = "quote", pc' = "return", stack' = Front(stack),
         result' = Quoted(frame.mark, result), QuoteReturned
  PROVE  InMemory'
<1>1. /\ Depth \in Nat /\ Deepest \in Nat /\ Depth < Deepest /\ Depth <= Deepest
      /\ stack \in Seq(Frame(Depth)) /\ stack # <<>>
  BY MemoryFacts
<1>2. PICK q, ss : /\ AllBuilt(memory, q, Deepest, stack, ss)
                   /\ word \in Words(q, Deepest, result)
  BY DEF InMemory, WordStands
<1>3. result \in Data[Depth]
  BY DEF Types
<1>4. word # NoDatum
  <2>1. IsWord(q, word)
    BY <1>1, <1>2, <1>3, WordsAreWords
  <2> QED BY <2>1 DEF IsWord
<1>5. PICK m : m = [memory EXCEPT !.held = word]
  OBVIOUS
<1>6. AllBuilt(m, q, Deepest, stack, ss) /\ m.held = word
  BY <1>2, <1>5, HeldIsFree
<1>7. PICK mark \in Marks : mark = frame.mark
  BY TypesFacts DEF FrameOK
<1>8. PICK body \in Room(m) :
        \E wrapped \in Room(Wrapped(body)) :
          /\ memory' = [WithPair(wrapped, Symbol(<<mark>>), wrapped.held)
                          EXCEPT !.frames = Front(@), !.held = Nil]
          /\ word' = PairAt(NewAddress(wrapped))
  BY <1>4, <1>5, <1>7 DEF QuoteReturned
<1>9. PICK wrapped \in Room(Wrapped(body)) :
        /\ memory' = [WithPair(wrapped, Symbol(<<mark>>), wrapped.held)
                        EXCEPT !.frames = Front(@), !.held = Nil]
        /\ word' = PairAt(NewAddress(wrapped))
  BY <1>8
<1>10. QuoteMade([WithPair(wrapped, Symbol(<<mark>>), wrapped.held)
                    EXCEPT !.frames = Front(@), !.held = Nil],
                 Deepest, Front(stack), mark, result, PairAt(NewAddress(wrapped)))
  <2>1. PICK h \in Nat, d \in Nat : h = Deepest /\ d = Depth /\ d < h
    BY <1>1
  <2>2. PICK st \in Seq(Frame(d)), x \in Data[d] : st = stack /\ x = result /\ st # <<>>
    BY <2>1, <1>1, <1>3
  <2>3. AllBuilt(m, q, h, st, ss) /\ m.held \in Words(q, h, x)
    BY <2>1, <2>2, <1>2, <1>6
  <2>4. QuoteMade([WithPair(wrapped, Symbol(<<mark>>), wrapped.held)
                     EXCEPT !.frames = Front(@), !.held = Nil],
                  h, Front(st), mark, x, PairAt(NewAddress(wrapped)))
    BY <2>1, <2>2, <2>3, QuoteBuilt
  <2> QED BY <2>1, <2>2, <2>4
<1>11. QuoteMade(memory', Deepest, stack', mark, result, word')
  BY <1>9, <1>10
<1>12. PICK q2, ss2 : /\ AllBuilt(memory', q2, Deepest, stack', ss2)
                      /\ word' \in Words(q2, Deepest, result')
  BY <1>7, <1>11 DEF QuoteMade
<1>13. result' # NoDatum /\ Deepest' = Deepest
  BY DEF Quoted, List, NoDatum, Deepest
<1> QED BY <1>12, <1>13 DEF InMemory, WordStands

\* Every step of the parser keeps the invariant, wherever it collects.
LEMMA InMemoryNext == Types /\ Types' /\ InMemory /\ [MemoryNext]_memoryVars => InMemory'
<1> SUFFICES ASSUME Types, Types', InMemory, [MemoryNext]_memoryVars PROVE InMemory'
  OBVIOUS
<1>0. /\ text \in Seq(Characters) /\ ix \in Nat /\ ix <= Len(text) /\ ix \in 0..Len(text)
      /\ Len(text) \in Nat
      /\ skipped \in Nat /\ ix <= skipped /\ skipped <= Len(text)
      /\ ~atEnd => skipped + 1 <= Len(text) /\ next \in Characters \ Blanks
      /\ Depth \in Nat /\ frame \in Frame(Depth) /\ FrameOK(Len(stack), frame)
  BY TypesFacts
<1>1. CASE ParseAssertFails /\ Quiet
  BY <1>1, QuietInMemory DEF ParseAssertFails, Abort, Quiet
<1>2. CASE ParseNothing /\ word' = NoDatum /\ UNCHANGED memory
  BY <1>2 DEF ParseNothing, Return, InMemory, WordStands, Deepest
<1>3. CASE ParseList /\ HandlesBegin
  <2>1. Call("list", next) /\ next \in Opens \cup Marks /\ pc' = "list" /\ text' = text
    BY <1>3 DEF ParseList
  <2> QED BY <2>1, <1>3, CallInMemory
<1>4. CASE ParseFixnum /\ AtomReturned
  <2>1. PICK end \in skipped + 1..Len(text) :
          Return(IF end = Len(text) THEN Unread ELSE Number(Token(end)))
    <3>1. skipped + 1 \in 0..Len(text)
      BY <1>0, <1>4 DEF ParseFixnum, Parsing
    <3>2. ReadWhile(Digits, TRUE, skipped + 1) \in skipped + 1..Len(text)
      BY <1>0, <3>1, ReadWhileStops
    <3> QED BY <3>2, <1>4 DEF ParseFixnum
  <2>2. Token(end) \in Seq(Characters)
    BY <1>0, TokenIsText
  <2>3. result' \in Atoms /\ pc' = "return"
    BY <2>1, <2>2 DEF Return, Number, Atoms
  <2> QED BY <2>3, <1>4, AtomInMemory DEF ParseFixnum
<1>5. CASE ParseQuote /\ HandlesBegin
  <2>1. CASE next = "," /\ skipped + 1 = Len(text)
    <3>1. pc' = "aborted" /\ UNCHANGED <<text, stack>>
      BY <2>1, <1>5 DEF ParseQuote, Abort
    <3> QED BY <3>1, <1>5, QuietInMemory DEF HandlesBegin
  <2>2. CASE ~(next = "," /\ skipped + 1 = Len(text))
    <3>1. \E mark \in Marks : Call("quote", mark)
      BY <2>2, <1>5 DEF ParseQuote, Marks
    <3>2. pc' = "parse" /\ text' = text
      BY <2>2, <1>5 DEF ParseQuote, Parsing
    <3> QED BY <3>1, <3>2, <1>5, CallInMemory
  <2> QED BY <2>1, <2>2
<1>6. CASE ParseAtom /\ AtomReturned
  <2>1. CASE next = "#" /\ (skipped + 1 = Len(text) \/ IsBlank(text[skipped + 2]))
    <3>1. pc' = "aborted" /\ UNCHANGED <<text, stack>>
      BY <2>1, <1>6 DEF ParseAtom, Abort
    <3> QED BY <3>1, <1>6, QuietInMemory DEF AtomReturned, Quiet
  <2>2. CASE ~(next = "#" /\ (skipped + 1 = Len(text) \/ IsBlank(text[skipped + 2])))
    <3>1. skipped + 1 <= Len(text)
      BY <1>0, <1>6 DEF ParseAtom, Parsing
    <3>2. CASE next = "#" /\ text[skipped + 2] \in {"t", "f"}
      <4>1. skipped + 2 \in 1..Len(text)
        BY <3>1, <3>2, <2>2, <1>0
      <4>2. text[skipped + 2] \in Characters
        BY <4>1, <1>0, ElementOfSeq
      <4>3. Return(Truth(text[skipped + 2])) /\ UNCHANGED <<text, stack>>
        BY <2>2, <3>2, <1>6 DEF ParseAtom
      <4>4. result' \in Atoms /\ pc' = "return"
        BY <4>2, <4>3 DEF Return, Truth, Atoms
      <4> QED BY <4>3, <4>4, <1>6, AtomInMemory
    <3>3. CASE ~(next = "#" /\ text[skipped + 2] \in {"t", "f"})
      <4>1. PICK end \in skipped + 1..Len(text) :
              Return(Symbol(Token(end))) /\ UNCHANGED <<text, stack>>
        <5>1. skipped + 1 \in 0..Len(text)
          BY <3>1, <1>0
        <5>2. ReadWhile(Delimiters, FALSE, skipped + 1) \in skipped + 1..Len(text)
          BY <1>0, <5>1, ReadWhileStops
        <5> QED BY <5>2, <2>2, <3>3, <1>6 DEF ParseAtom
      <4>2. Token(end) \in Seq(Characters \cup Marks)
        BY <1>0, TokenIsText
      <4>3. result' \in Atoms /\ pc' = "return"
        BY <4>1, <4>2 DEF Return, Symbol, Atoms
      <4> QED BY <4>1, <4>3, <1>6, AtomInMemory
    <3> QED BY <3>2, <3>3
  <2> QED BY <2>1, <2>2
<1>7. CASE ListAssertFails /\ Quiet
  BY <1>7, QuietInMemory DEF ListAssertFails, Abort, Quiet
<1>8. CASE ListCloses /\ ListReturned
  BY <1>8, ListInMemory DEF ListCloses, Return
<1>9. CASE ListItem /\ Quiet
  BY <1>9, QuietInMemory DEF ListItem, Quiet
<1>20. ASSUME pc = "return", result # NoDatum PROVE word # NoDatum
  <2>1. PICK q, ss : word \in Words(q, Deepest, result)
    BY <1>20 DEF InMemory, WordStands
  <2>2. Depth \in Nat /\ Deepest \in Nat /\ Depth <= Deepest /\ result \in Data[Depth]
    BY <1>20, MemoryFacts DEF Types
  <2>3. IsWord(q, word)
    BY <2>1, <2>2, WordsAreWords
  <2> QED BY <2>3 DEF IsWord
<1>21. ASSUME pc = "return", result = NoDatum PROVE word = NoDatum
  BY <1>21 DEF InMemory, WordStands
<1>10. CASE ReturnToProg /\ ProgramReturned
  <2>1. frame.fn = "prog" /\ pc = "return" /\ UNCHANGED <<text, ix>>
    BY <1>10 DEF ReturnToProg, Returning
  <2>2. CASE result = NoDatum
    <3>1. /\ stack' = stack /\ pc' \in {"rejected", "done"}
      BY <2>2, <1>10 DEF ReturnToProg
    <3>2. word' = Last(memory.frames).head /\ memory' = memory
      BY <2>1, <2>2, <1>10, <1>21 DEF ProgramReturned
    <3> QED BY <2>1, <3>1, <3>2 DEF InMemory, Deepest
  <2>3. CASE result # NoDatum
    <3>1. ItemLinked
      BY <2>1, <2>3, <1>10, <1>20 DEF ProgramReturned
    <3>2. stack' = Extended /\ pc' = "parse"
      BY <2>3, <1>10 DEF ReturnToProg
    <3> QED BY <2>1, <2>3, <3>1, <3>2, ItemInMemory
  <2> QED BY <2>2, <2>3
<1>11. CASE ReturnToList /\ ItemLinked
  <2>1. frame.fn = "list" /\ pc = "return" /\ text' = text
    BY <1>11 DEF ReturnToList, Returning
  <2>2. CASE result = NoDatum
    <3>1. pc' = "aborted" /\ stack' = stack
      BY <2>2, <1>11 DEF ReturnToList, Abort
    <3>2. memory' = memory
      BY <2>1, <2>2, <1>11, <1>21 DEF ItemLinked, Quiet
    <3> QED BY <2>1, <3>1, <3>2, QuietInMemory
  <2>3. CASE result # NoDatum
    <3>1. stack' = Extended /\ pc' = "list"
      BY <2>3, <1>11 DEF ReturnToList
    <3> QED BY <2>1, <2>3, <3>1, <1>11, ItemInMemory
  <2> QED BY <2>2, <2>3
<1>12. CASE ReturnToQuote /\ QuoteReturned
  <2>1. frame.fn = "quote" /\ pc = "return" /\ text' = text
    BY <1>12 DEF ReturnToQuote, Returning
  <2>2. CASE result = NoDatum
    <3>1. pc' = "aborted" /\ stack' = stack
      BY <2>2, <1>12 DEF ReturnToQuote, Abort
    <3>2. memory' = memory
      BY <2>1, <2>2, <1>12, <1>21 DEF QuoteReturned, Quiet
    <3> QED BY <2>1, <3>1, <3>2, QuietInMemory
  <2>3. CASE result # NoDatum
    <3>1. stack' = Front(stack) /\ pc' = "return" /\ result' = Quoted(frame.mark, result)
      BY <2>3, <1>12 DEF ReturnToQuote, Return
    <3> QED BY <2>1, <2>3, <3>1, <1>12, QuoteInMemory
  <2> QED BY <2>2, <2>3
<1>13. CASE UNCHANGED memoryVars
  BY <1>13 DEF InMemory, Deepest, memoryVars, vars
<1> QED BY <1>1, <1>2, <1>3, <1>4, <1>5, <1>6, <1>7, <1>8, <1>9, <1>10, <1>11, <1>12, <1>13 DEF MemoryNext

\* The steps of ParserMemory are those of Parser: what Parser promises holds.
THEOREM MemoryIsParser == MemorySpec => Spec
<1>1. MemoryInit => Init
  BY DEF MemoryInit
<1>2. [MemoryNext]_memoryVars => [Next]_vars
  BY DEF MemoryNext, Next, memoryVars
<1> QED BY <1>1, <1>2, PTL DEF MemorySpec, Spec

\* The invariant holds of every run.
LEMMA AlwaysInMemory == MemorySpec => []InMemory
<1>1. MemoryInit => InMemory
  BY MemoryInitially
<1>2. Types /\ Types' /\ InMemory /\ [MemoryNext]_memoryVars => InMemory'
  BY InMemoryNext
<1>3. MemorySpec => []Types
  BY MemoryIsParser, AlwaysTypes, PTL
<1> QED BY <1>1, <1>2, <1>3, PTL DEF MemorySpec

\* Wherever collections fall, parseList and parseProg link every element they read
\* into their own list, in order, and parse returns what was read, for texts of
\* any length and words of any width.
THEOREM DataInMemory == MemorySpec => []MemoryHoldsData
<1>1. Types /\ InMemory => MemoryHoldsData
  BY InMemoryHoldsData
<1>2. MemorySpec => []Types
  BY MemoryIsParser, AlwaysTypes, PTL
<1> QED BY <1>1, <1>2, AlwaysInMemory, PTL

=============================================================================
