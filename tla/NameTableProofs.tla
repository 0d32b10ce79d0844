-------------------------- MODULE NameTableProofs ---------------------------
(***************************************************************************)
(* The name table keeps its promises, for every value of the constants:    *)
(* whatever a collection takes away is not used again, a spelling has one  *)
(* symbol, and the tables implement Names.                                 *)
(*                                                                         *)
(* The invariant names the pairs of the two association lists.  An         *)
(* allocation keeps what the Handles lead to (LedTo is closed), so it      *)
(* keeps these pairs, and with them what they hold; each step then adds a  *)
(* pair to a list or writes one field.                                     *)
(***************************************************************************)
EXTENDS NameTable, FiniteSetTheorems, SequenceTheorems, TLAPS

-----------------------------------------------------------------------------
\* A set of naturals has a least one; with it, induction is a proof by the
\* least counterexample.
LEMMA LeastNatural ==
  ASSUME NEW T, T \subseteq Nat, T # {}
  PROVE  \E n \in T : \A m \in T : n <= m
<1>1. \E x \in T : \A y \in T : ~(<<y, x>> \in OpToRel(<, Nat))
  BY NatLessThanWellFounded, WFMin
<1>2. PICK x \in T : \A y \in T : ~(<<y, x>> \in OpToRel(<, Nat))
  BY <1>1
<1>3. \A y \in T : ~(y < x)
  BY <1>2 DEF OpToRel
<1> QED BY <1>3

-----------------------------------------------------------------------------
\* What the memory is made of.
Objects ==
  [tag : {"symbol"}, spelling : Spellings]
    \cup [tag : {"pair"}, car : Word, cdr : Word]
    \cup [tag : {"vector"}, elems : Seq(Word)]

\* The object that a word points to is there, and of its kind.
Leads(objs, w) ==
  IsHeapAllocated(w) => w.upper \in DOMAIN objs /\ objs[w.upper].tag = w.tag

\* The memory: finitely many objects, whose words lead to objects.
HeapOK(objs) ==
  /\ DOMAIN objs \subseteq Nat
  /\ IsFiniteSet(DOMAIN objs)
  /\ objs \in [DOMAIN objs -> Objects]
  /\ \A o \in DOMAIN objs : \A w \in Pointees(objs[o]) : Leads(objs, w)

\* The words that a collection starts from lead to objects.
HandlesOK == \A w \in HeldWords : w \in Word /\ Leads(objects, w)

-----------------------------------------------------------------------------
\* What LedTo adds in one step, and what it ends with.
More(ids) ==
  ids \cup UNION {Targets(Pointees(objects[o])) : o \in ids \cap DOMAIN objects}

Least(ids) ==
  {o \in Nat : \A S \in SUBSET Nat : ids \subseteq S /\ More(S) = S => o \in S}

\* An object points to objects that are there.
LEMMA TargetsAreThere ==
  ASSUME HeapOK(objects), NEW o \in DOMAIN objects
  PROVE  Targets(Pointees(objects[o])) \subseteq DOMAIN objects
BY DEF HeapOK, Targets, Leads

\* A step of LedTo adds only objects that are there.
LEMMA MoreIsThere ==
  ASSUME HeapOK(objects), NEW ids \in SUBSET Nat
  PROVE  /\ More(ids) \in SUBSET Nat
         /\ ids \subseteq More(ids)
         /\ More(ids) \subseteq ids \cup DOMAIN objects
<1>1. \A o \in ids \cap DOMAIN objects :
        Targets(Pointees(objects[o])) \subseteq DOMAIN objects
  BY TargetsAreThere
<1>2. More(ids) \subseteq ids \cup DOMAIN objects
  BY <1>1 DEF More
<1>3. ids \subseteq More(ids)
  BY DEF More
<1> QED BY <1>2, <1>3 DEF HeapOK

\* It adds no less for more objects.
LEMMA MoreGrows ==
  ASSUME NEW ids, NEW S, ids \subseteq S
  PROVE  More(ids) \subseteq More(S)
BY DEF More

\* The recursion of LedTo is well founded: it equals its body, because the
\* least closed set is a function that does.
LEMMA LedToUnfolds ==
  ASSUME HeapOK(objects), NEW ids \in SUBSET Nat
  PROVE  LedTo[ids] = IF More(ids) = ids THEN ids ELSE LedTo[More(ids)]
<1> DEFINE f == [s \in SUBSET Nat |-> Least(s)]
<1>1. ASSUME NEW s \in SUBSET Nat, More(s) = s PROVE Least(s) = s
  BY <1>1 DEF Least
<1>2. ASSUME NEW s \in SUBSET Nat PROVE Least(s) = Least(More(s))
  <2>1. s \subseteq More(s)
    BY MoreIsThere
  <2>2. \A S \in SUBSET Nat : More(S) = S => (s \subseteq S <=> More(s) \subseteq S)
    <3> TAKE S \in SUBSET Nat
    <3>1. s \subseteq S => More(s) \subseteq More(S)
      BY MoreGrows
    <3> QED BY <2>1, <3>1
  <2> QED BY <2>2 DEF Least
<1>3. \A s \in SUBSET Nat :
        /\ f[s] = Least(s)
        /\ More(s) \in SUBSET Nat
        /\ f[s] = IF More(s) = s THEN s ELSE f[More(s)]
  <2> TAKE s \in SUBSET Nat
  <2>1. More(s) \in SUBSET Nat
    BY MoreIsThere
  <2>2. f[s] = Least(s) /\ f[More(s)] = Least(More(s))
    BY <2>1
  <2> HIDE DEF f
  <2> QED BY <2>1, <2>2, <1>1, <1>2
<1>4. f = [s \in SUBSET Nat |-> f[s]]
  OBVIOUS
<1> HIDE DEF f
<1>5. f = [s \in SUBSET Nat |-> IF More(s) = s THEN s ELSE f[More(s)]]
  BY <1>3, <1>4
<1>6. \E g : g = [s \in SUBSET Nat |-> IF More(s) = s THEN s ELSE g[More(s)]]
  BY <1>5
<1>7. LedTo = CHOOSE g : g = [s \in SUBSET Nat |-> IF More(s) = s THEN s ELSE g[More(s)]]
  BY DEF LedTo, More
<1>8. LedTo = [s \in SUBSET Nat |-> IF More(s) = s THEN s ELSE LedTo[More(s)]]
  BY <1>6, <1>7, Zenon
<1> QED BY <1>8

\* LedTo gives a set that is closed under pointers; by the number of objects
\* that it does not have yet.
LEMMA LedToCloses ==
  ASSUME HeapOK(objects)
  PROVE  \A ids \in SUBSET Nat :
           ids \subseteq LedTo[ids] /\ More(LedTo[ids]) = LedTo[ids]
<1> DEFINE Good(ids) == ids \subseteq LedTo[ids] /\ More(LedTo[ids]) = LedTo[ids]
           Left(ids) == Cardinality(DOMAIN objects \ ids)
           B == {ids \in SUBSET Nat : ~Good(ids)}
           T == {Left(ids) : ids \in B}
<1> SUFFICES ASSUME B # {} PROVE FALSE
  OBVIOUS
<1>1. \A ids : IsFiniteSet(DOMAIN objects \ ids) /\ Left(ids) \in Nat
  BY FS_Difference, FS_CardinalityType DEF HeapOK
<1>2. T \subseteq Nat /\ T # {}
  BY <1>1
<1>3. PICK n \in T : \A m \in T : n <= m
  <2> HIDE DEF T
  <2> QED BY <1>2, LeastNatural
<1>4. PICK ids \in B : Left(ids) = n
  BY <1>3
<1>5. ids \in SUBSET Nat /\ ~Good(ids)
  BY <1>4
<1>6. LedTo[ids] = IF More(ids) = ids THEN ids ELSE LedTo[More(ids)]
  BY <1>5, LedToUnfolds
<1>7. More(ids) # ids
  BY <1>5, <1>6
<1>8. /\ More(ids) \in SUBSET Nat
      /\ ids \subseteq More(ids)
      /\ More(ids) \subseteq ids \cup DOMAIN objects
  BY <1>5, MoreIsThere
<1>9. Left(More(ids)) < n
  <2>1. PICK x : x \in More(ids) /\ x \notin ids
    BY <1>7, <1>8
  <2>2. DOMAIN objects \ More(ids) \subseteq DOMAIN objects \ ids
    BY <1>8
  <2>3. x \in DOMAIN objects \ ids /\ x \notin DOMAIN objects \ More(ids)
    BY <2>1, <1>8
  <2>4. /\ Cardinality(DOMAIN objects \ More(ids)) <= Cardinality(DOMAIN objects \ ids)
        /\ Cardinality(DOMAIN objects \ More(ids)) # Cardinality(DOMAIN objects \ ids)
    BY <2>2, <2>3, <1>1, FS_Subset
  <2>5. Left(More(ids)) <= Left(ids) /\ Left(More(ids)) # Left(ids)
    BY <2>4
  <2>6. Left(More(ids)) \in Nat /\ Left(ids) \in Nat
    BY <1>1
  <2> HIDE DEF Left
  <2> QED BY <2>5, <2>6, <1>4
<1>10. More(ids) \notin B
  <2>1. Left(More(ids)) \in Nat /\ n \in Nat
    BY <1>1, <1>2
  <2>2. Left(More(ids)) \notin T
    BY <2>1, <1>3, <1>9
  <2> QED BY <2>2
<1>11. Good(More(ids))
  BY <1>8, <1>10
<1> QED BY <1>5, <1>6, <1>7, <1>8, <1>11

\* Whether it collects or not, an allocation keeps what is held, and what that
\* leads to.
LEMMA KeptIsClosed ==
  ASSUME HeapOK(objects), HandlesOK, NEW kept \in Kept
  PROVE  /\ kept \subseteq DOMAIN objects
         /\ \A w \in HeldWords : IsHeapAllocated(w) => w.upper \in kept
         /\ \A o \in kept : \A w \in Pointees(objects[o]) :
              IsHeapAllocated(w) => w.upper \in kept
<1>1. kept \subseteq DOMAIN objects
  BY DEF Kept
<1>2. CASE kept = DOMAIN objects
  BY <1>2 DEF HandlesOK, Leads, HeapOK
<1>3. CASE kept = DOMAIN objects \cap Live
  <2>1. Targets(HeldWords) \subseteq DOMAIN objects
    BY DEF HandlesOK, Leads, Targets
  <2>2. Targets(HeldWords) \in SUBSET Nat
    BY <2>1 DEF HeapOK
  <2>3. Targets(HeldWords) \subseteq Live /\ More(Live) = Live
    BY <2>2, LedToCloses DEF Live
  <2>4. \A w \in HeldWords : IsHeapAllocated(w) => w.upper \in kept
    BY <2>1, <2>3, <1>3 DEF Targets
  <2>5. ASSUME NEW o \in kept, NEW w \in Pointees(objects[o]), IsHeapAllocated(w)
        PROVE  w.upper \in kept
    <3>1. o \in Live \cap DOMAIN objects
      BY <1>3
    <3>2. w.upper \in Targets(Pointees(objects[o]))
      BY <2>5 DEF Targets
    <3>3. w.upper \in More(Live)
      BY <3>1, <3>2 DEF More
    <3>4. w.upper \in DOMAIN objects
      BY <2>5, <1>1 DEF HeapOK, Leads
    <3> QED BY <3>3, <3>4, <2>3, <1>3
  <2> QED BY <1>1, <2>4, <2>5
<1> QED BY <1>2, <1>3 DEF Kept

\* What an allocation does.
LEMMA AllocationStep ==
  ASSUME HeapOK(objects), HandlesOK, NEW kept \in Kept, NEW obj \in Objects,
         \A w \in Pointees(obj) :
           IsHeapAllocated(w) => w.upper \in kept /\ objects[w.upper].tag = w.tag
  PROVE  /\ NewId(kept) \in Nat \ kept
         /\ DOMAIN With(kept, obj) = kept \cup {NewId(kept)}
         /\ With(kept, obj)[NewId(kept)] = obj
         /\ \A o \in kept : With(kept, obj)[o] = objects[o]
         /\ HeapOK(With(kept, obj))
         /\ NewWord(kept, obj) = Pointer(obj.tag, NewId(kept))
         /\ NewWord(kept, obj) \in Word
         /\ Leads(With(kept, obj), NewWord(kept, obj))
         /\ \A w \in HeldWords : Leads(With(kept, obj), w)
<1> DEFINE n == NewId(kept)
           objs == With(kept, obj)
<1>1. /\ kept \subseteq DOMAIN objects
      /\ \A w \in HeldWords : IsHeapAllocated(w) => w.upper \in kept
      /\ \A o \in kept : \A w \in Pointees(objects[o]) :
           IsHeapAllocated(w) => w.upper \in kept
  BY KeptIsClosed
<1>2. IsFiniteSet(kept)
  BY <1>1, FS_Subset DEF HeapOK
<1>3. n \in Nat \ kept
  <2>1. Cardinality(kept) \in Nat
    BY <1>2, FS_CardinalityType
  <2>2. IsFiniteSet(0..Cardinality(kept)) /\ Cardinality(0..Cardinality(kept)) = Cardinality(kept) + 1
    BY <2>1, FS_Interval
  <2>3. ~(0..Cardinality(kept) \subseteq kept)
    BY <1>2, <2>1, <2>2, FS_Subset
  <2>4. \E i \in 0..Cardinality(kept) : i \notin kept
    BY <2>3
  <2>5. n \in 0..Cardinality(kept) /\ n \notin kept
    BY <2>4 DEF NewId
  <2> QED BY <2>1, <2>5
<1> HIDE DEF n
<1>4. objs = [o \in kept \cup {n} |-> IF o = n THEN obj ELSE objects[o]]
  BY DEF With, n
<1> HIDE DEF objs
<1>5. DOMAIN objs = kept \cup {n} /\ objs[n] = obj /\ \A o \in kept : objs[o] = objects[o]
  BY <1>3, <1>4
<1>6. \A o \in DOMAIN objs : objs[o] \in Objects
  BY <1>1, <1>5 DEF HeapOK
<1>7. \A w : IsHeapAllocated(w) /\ w.upper \in kept /\ objects[w.upper].tag = w.tag => Leads(objs, w)
  BY <1>5 DEF Leads
<1>8. \A o \in DOMAIN objs : \A w \in Pointees(objs[o]) : Leads(objs, w)
  <2> TAKE o \in DOMAIN objs
  <2> TAKE w \in Pointees(objs[o])
  <2>1. CASE o = n
    BY <2>1, <1>5, <1>7 DEF Leads
  <2>2. CASE o \in kept
    <3>1. w \in Pointees(objects[o])
      BY <2>2, <1>5
    <3>2. IsHeapAllocated(w) => objects[w.upper].tag = w.tag
      BY <3>1, <2>2, <1>1 DEF HeapOK, Leads
    <3> QED BY <3>1, <3>2, <2>2, <1>1, <1>7 DEF Leads
  <2> QED BY <2>1, <2>2, <1>5
<1>9. HeapOK(objs)
  <2>1. DOMAIN objs \subseteq Nat
    BY <1>1, <1>3, <1>5 DEF HeapOK
  <2>2. IsFiniteSet(DOMAIN objs)
    BY <1>2, <1>5, FS_AddElement
  <2>3. objs = [o \in DOMAIN objs |-> objs[o]]
    BY <1>4, <1>5
  <2> QED BY <2>1, <2>2, <2>3, <1>6, <1>8 DEF HeapOK
<1>10. /\ NewWord(kept, obj) = Pointer(obj.tag, n)
       /\ NewWord(kept, obj) \in Word
       /\ Leads(objs, NewWord(kept, obj))
  <2>1. NewWord(kept, obj) = Pointer(obj.tag, n)
    BY DEF NewWord, n
  <2>2. obj.tag \in {"symbol", "pair", "vector"}
    BY DEF Objects
  <2> QED BY <2>1, <2>2, <1>3, <1>5 DEF Pointer, Word, Tags, HeapTags, Leads
<1>11. \A w \in HeldWords : Leads(objs, w)
  BY <1>1, <1>7 DEF HandlesOK, Leads
<1> QED BY <1>3, <1>5, <1>9, <1>10, <1>11 DEF n, objs
-----------------------------------------------------------------------------
\* The definition of Entries, for any objects.
EntriesIn(objs, list) ==
  LET first[n \in 0..Cardinality(DOMAIN objs)] ==
        [w \in Word |-> IF n = 0 \/ w.tag # "pair" THEN <<>>
                        ELSE <<objs[w.upper].car>> \o first[n - 1][objs[w.upper].cdr]]
  IN  first[Cardinality(DOMAIN objs)][list]

\* The function that Entries defines, by its body; up to the lists of m pairs;
\* and for all of them.
FirstBody(objs, u, n) ==
  [w \in Word |-> IF n = 0 \/ w.tag # "pair" THEN <<>>
                  ELSE <<objs[w.upper].car>> \o u[n - 1][objs[w.upper].cdr]]

IsFirst(objs, u) ==
  u = [n \in 0..Cardinality(DOMAIN objs) |-> FirstBody(objs, u, n)]

IsFirstUpTo(objs, m, u) ==
  /\ u = [n \in 0..Cardinality(DOMAIN objs) |-> u[n]]
  /\ \A n \in 0..m : u[n] = FirstBody(objs, u, n)

\* There is such a function, for lists of any length that memory has room for.
LEMMA FirstExistsUpTo ==
  ASSUME NEW objs, Cardinality(DOMAIN objs) \in Nat
  PROVE  \A m \in 0..Cardinality(DOMAIN objs) : \E u : IsFirstUpTo(objs, m, u)
<1> DEFINE N == Cardinality(DOMAIN objs)
           T == {m \in 0..N : ~\E u : IsFirstUpTo(objs, m, u)}
<1> SUFFICES ASSUME T # {} PROVE FALSE
  OBVIOUS
<1>1. PICK m \in T : \A k \in T : m <= k
  <2>1. T \subseteq Nat
    OBVIOUS
  <2> HIDE DEF T
  <2> QED BY <2>1, LeastNatural
<1>2. m \in 0..N /\ ~\E u : IsFirstUpTo(objs, m, u)
  BY <1>1
<1>3. CASE m = 0
  <2> DEFINE u == [n \in 0..N |-> FirstBody(objs, <<>>, 0)]
  <2>1. u = [n \in 0..N |-> u[n]] /\ u[0] = FirstBody(objs, <<>>, 0)
    OBVIOUS
  <2> HIDE DEF u
  <2>2. FirstBody(objs, <<>>, 0) = FirstBody(objs, u, 0)
    BY DEF FirstBody
  <2>3. \A n \in 0..0 : n = 0
    OBVIOUS
  <2> QED BY <2>1, <2>2, <2>3, <1>2, <1>3 DEF IsFirstUpTo
<1>4. CASE m # 0
  <2>1. m - 1 \in 0..N /\ m - 1 \notin T
    <3>1. m - 1 \in 0..N /\ ~(m <= m - 1)
      BY <1>2, <1>4
    <3> QED BY <3>1, <1>1
  <2>2. PICK u : IsFirstUpTo(objs, m - 1, u)
    BY <2>1
  <2> DEFINE v == [n \in 0..N |-> IF n = m THEN FirstBody(objs, u, m) ELSE u[n]]
  <2>3. v = [n \in 0..N |-> v[n]]
    OBVIOUS
  <2>4. /\ \A n \in 0..N : n # m => v[n] = u[n]
        /\ v[m] = FirstBody(objs, u, m)
    BY <1>2
  <2> HIDE DEF v
  <2>5. ASSUME NEW n \in 0..m PROVE v[n] = FirstBody(objs, v, n)
    <3>1. n # 0 => u[n - 1] = v[n - 1]
      BY <2>4, <1>2
    <3>2. FirstBody(objs, u, n) = FirstBody(objs, v, n)
      <4>1. CASE n = 0
        BY <4>1 DEF FirstBody
      <4>2. CASE n # 0
        BY <4>2, <3>1 DEF FirstBody
      <4> QED BY <4>1, <4>2
    <3>3. v[n] = FirstBody(objs, u, n)
      <4>1. CASE n = m
        BY <4>1, <2>4
      <4>2. CASE n # m
        <5>1. n \in 0..(m - 1) /\ n \in 0..N
          BY <4>2, <1>2
        <5> QED BY <5>1, <4>2, <2>2, <2>4 DEF IsFirstUpTo
      <4> QED BY <4>1, <4>2
    <3> QED BY <3>2, <3>3
  <2>6. IsFirstUpTo(objs, m, v)
    BY <2>3, <2>5 DEF IsFirstUpTo
  <2> QED BY <2>6, <1>2
<1> QED BY <1>3, <1>4

\* The recursion of Entries is well founded.
LEMMA EntriesUnfold ==
  ASSUME NEW objs, Cardinality(DOMAIN objs) \in Nat, NEW list
  PROVE  \E u : /\ \A n \in 0..Cardinality(DOMAIN objs) : u[n] = FirstBody(objs, u, n)
                /\ EntriesIn(objs, list) = u[Cardinality(DOMAIN objs)][list]
<1> DEFINE N == Cardinality(DOMAIN objs)
<1>1. PICK v : IsFirstUpTo(objs, N, v)
  <2>1. N \in 0..N
    OBVIOUS
  <2> QED BY <2>1, FirstExistsUpTo
<1>2. IsFirst(objs, v)
  BY <1>1 DEF IsFirst, IsFirstUpTo
<1>3. \E u : /\ u = [n \in 0..Cardinality(DOMAIN objs) |->
                      [w \in Word |-> IF n = 0 \/ w.tag # "pair" THEN <<>>
                        ELSE <<objs[w.upper].car>> \o u[n - 1][objs[w.upper].cdr]]]
  BY <1>2, ZenonT(40) DEF IsFirst, FirstBody
<1>4. \E u : /\ u = [n \in 0..Cardinality(DOMAIN objs) |->
                      [w \in Word |-> IF n = 0 \/ w.tag # "pair" THEN <<>>
                        ELSE <<objs[w.upper].car>> \o u[n - 1][objs[w.upper].cdr]]]
             /\ EntriesIn(objs, list) = u[Cardinality(DOMAIN objs)][list]
  BY <1>3, Zenon DEF EntriesIn
<1>5. PICK u : IsFirst(objs, u) /\ EntriesIn(objs, list) = u[N][list]
  BY <1>4 DEF IsFirst, FirstBody
<1>6. \A n \in 0..N : u[n] = FirstBody(objs, u, n)
  BY <1>5 DEF IsFirst
<1> QED BY <1>5, <1>6

-----------------------------------------------------------------------------
\* The word that leads to pair i of a list, or ends it.
Link(pairs, i) == IF i \in DOMAIN pairs THEN Pointer("pair", pairs[i]) ELSE Nil

\* The entry in pair i of a list, its key and value, and how the key is spelled.
EntryAt(objs, pairs, i) == objs[objs[pairs[i]].car.upper]
KeyAt(objs, pairs, i) == EntryAt(objs, pairs, i).car
ValAt(objs, pairs, i) == EntryAt(objs, pairs, i).cdr
SpellAt(objs, pairs, i) == objs[KeyAt(objs, pairs, i).upper].spelling

\* An entry is a pair, and its key is a symbol.
IsEntry(objs, w) ==
  /\ w.tag = "pair"
  /\ objs[w.upper].tag = "pair"
  /\ objs[w.upper].car.tag = "symbol"

\* The list has these pairs, each of them once, and an entry in each.
IsAssoc(objs, list, pairs) ==
  /\ pairs \in Seq(DOMAIN objs)
  /\ \A i, j \in DOMAIN pairs : pairs[i] = pairs[j] => i = j
  /\ list = Link(pairs, 1)
  /\ \A i \in DOMAIN pairs :
       /\ objs[pairs[i]].tag = "pair"
       /\ objs[pairs[i]].cdr = Link(pairs, i + 1)
       /\ IsEntry(objs, objs[pairs[i]].car)

\* What is known of an object of each kind.
LEMMA PairFields ==
  ASSUME NEW objs, HeapOK(objs), NEW o \in DOMAIN objs, objs[o].tag = "pair"
  PROVE  /\ objs[o] = Pair(objs[o].car, objs[o].cdr)
         /\ objs[o].car \in Word /\ objs[o].cdr \in Word
         /\ Leads(objs, objs[o].car) /\ Leads(objs, objs[o].cdr)
<1>1. objs[o] \in [tag : {"pair"}, car : Word, cdr : Word]
  BY DEF HeapOK, Objects
<1>2. Pointees(objs[o]) = {objs[o].car, objs[o].cdr}
  BY <1>1 DEF Pointees
<1> QED BY <1>1, <1>2 DEF HeapOK, Pair

LEMMA SymbolFields ==
  ASSUME NEW objs, HeapOK(objs), NEW o \in DOMAIN objs, objs[o].tag = "symbol"
  PROVE  objs[o] = Symbol(objs[o].spelling) /\ objs[o].spelling \in Spellings
BY DEF HeapOK, Objects, Symbol

LEMMA VectorFields ==
  ASSUME NEW objs, HeapOK(objs), NEW o \in DOMAIN objs, objs[o].tag = "vector"
  PROVE  /\ objs[o] = Vector(objs[o].elems)
         /\ objs[o].elems \in Seq(Word)
         /\ \A i \in DOMAIN objs[o].elems : Leads(objs, objs[o].elems[i])
<1>1. objs[o] \in [tag : {"vector"}, elems : Seq(Word)]
  BY DEF HeapOK, Objects
<1>2. Pointees(objs[o]) = {objs[o].elems[i] : i \in DOMAIN objs[o].elems}
  BY <1>1 DEF Pointees
<1> QED BY <1>1, <1>2 DEF HeapOK, Vector

\* What an association list leads to is there.
LEMMA AssocIsThere ==
  ASSUME NEW objs, HeapOK(objs), NEW list, NEW pairs, IsAssoc(objs, list, pairs),
         NEW i \in DOMAIN pairs
  PROVE  /\ DOMAIN pairs = 1..Len(pairs) /\ Len(pairs) \in Nat
         /\ pairs[i] \in DOMAIN objs
         /\ objs[pairs[i]] = Pair(objs[pairs[i]].car, objs[pairs[i]].cdr)
         /\ objs[pairs[i]].car \in Word
         /\ objs[pairs[i]].car.tag = "pair"
         /\ objs[pairs[i]].car.upper \in DOMAIN objs
         /\ EntryAt(objs, pairs, i)
              = Pair(KeyAt(objs, pairs, i), ValAt(objs, pairs, i))
         /\ KeyAt(objs, pairs, i) \in Word /\ ValAt(objs, pairs, i) \in Word
         /\ KeyAt(objs, pairs, i).tag = "symbol"
         /\ KeyAt(objs, pairs, i).upper \in DOMAIN objs
         /\ objs[KeyAt(objs, pairs, i).upper].tag = "symbol"
         /\ SpellAt(objs, pairs, i) \in Spellings
<1>1. /\ DOMAIN pairs = 1..Len(pairs) /\ Len(pairs) \in Nat
      /\ pairs[i] \in DOMAIN objs
  BY DEF IsAssoc
<1>2. objs[pairs[i]].tag = "pair" /\ IsEntry(objs, objs[pairs[i]].car)
  BY DEF IsAssoc
<1>3. /\ objs[pairs[i]] = Pair(objs[pairs[i]].car, objs[pairs[i]].cdr)
      /\ objs[pairs[i]].car \in Word
      /\ Leads(objs, objs[pairs[i]].car)
  BY <1>1, <1>2, PairFields
<1>4. /\ objs[pairs[i]].car.tag = "pair"
      /\ objs[pairs[i]].car.upper \in DOMAIN objs
      /\ EntryAt(objs, pairs, i).tag = "pair"
      /\ KeyAt(objs, pairs, i).tag = "symbol"
  BY <1>2, <1>3 DEF IsEntry, Leads, IsHeapAllocated, HeapTags, EntryAt, KeyAt
<1>5. /\ EntryAt(objs, pairs, i)
           = Pair(KeyAt(objs, pairs, i), ValAt(objs, pairs, i))
      /\ KeyAt(objs, pairs, i) \in Word /\ ValAt(objs, pairs, i) \in Word
      /\ Leads(objs, KeyAt(objs, pairs, i))
  BY <1>4, PairFields DEF EntryAt, KeyAt, ValAt
<1>6. /\ KeyAt(objs, pairs, i).upper \in DOMAIN objs
      /\ objs[KeyAt(objs, pairs, i).upper].tag = "symbol"
  BY <1>4, <1>5 DEF Leads, IsHeapAllocated, HeapTags
<1>7. SpellAt(objs, pairs, i) \in Spellings
  BY <1>6, SymbolFields DEF SpellAt
<1> QED BY <1>1, <1>3, <1>4, <1>5, <1>6, <1>7

\* A list is no longer than there are objects.
LEMMA AssocIsShort ==
  ASSUME NEW objs, HeapOK(objs), NEW list, NEW pairs, IsAssoc(objs, list, pairs)
  PROVE  /\ Cardinality(DOMAIN objs) \in Nat
         /\ Len(pairs) \in 0..Cardinality(DOMAIN objs)
         /\ DOMAIN pairs = 1..Len(pairs)
<1>1. DOMAIN pairs = 1..Len(pairs) /\ Len(pairs) \in Nat /\ pairs \in [1..Len(pairs) -> DOMAIN objs]
  BY DEF IsAssoc
<1>2. pairs \in Injection(1..Len(pairs), DOMAIN objs)
  BY <1>1 DEF IsAssoc, Injection, IsInjective
<1>3. Cardinality(1..Len(pairs)) <= Cardinality(DOMAIN objs)
  BY <1>2, FS_Injection DEF HeapOK
<1>4. Cardinality(1..Len(pairs)) = Len(pairs)
  BY <1>1, FS_Interval
<1>5. Cardinality(DOMAIN objs) \in Nat
  BY FS_CardinalityType DEF HeapOK
<1> QED BY <1>1, <1>3, <1>4, <1>5

\* A sequence after its first element.
LEMMA Preceded ==
  ASSUME NEW S, NEW e \in S, NEW r \in Seq(S)
  PROVE  /\ <<e>> \o r \in Seq(S)
         /\ Len(<<e>> \o r) = Len(r) + 1
         /\ (<<e>> \o r)[1] = e
         /\ \A i \in 2..(Len(r) + 1) : (<<e>> \o r)[i] = r[i - 1]
<1> DEFINE h == <<e>>
<1>1. h \in Seq(S) /\ Len(h) = 1 /\ h[1] = e /\ Len(r) \in Nat
  OBVIOUS
<1> HIDE DEF h
<1>2. /\ h \o r \in Seq(S)
      /\ Len(h \o r) = Len(h) + Len(r)
      /\ \A i \in 1..(Len(h) + Len(r)) :
           (h \o r)[i] = IF i <= Len(h) THEN h[i] ELSE r[i - Len(h)]
  BY <1>1, ConcatProperties
<1>3. /\ Len(h \o r) = Len(r) + 1
      /\ (h \o r)[1] = e
      /\ \A i \in 2..(Len(r) + 1) : (h \o r)[i] = r[i - 1]
  BY <1>1, <1>2
<1> QED BY <1>2, <1>3 DEF h

\* The entries of a list are what its pairs hold, in order.
LEMMA EntriesOfAssoc ==
  ASSUME NEW objs, HeapOK(objs), NEW list, NEW pairs, IsAssoc(objs, list, pairs)
  PROVE  EntriesIn(objs, list) = [i \in 1..Len(pairs) |-> objs[pairs[i]].car]
<1> DEFINE N == Cardinality(DOMAIN objs)
           L == Len(pairs)
           Rest(k) == [i \in 1..k |-> objs[pairs[L - k + i]].car]
<1>1. N \in Nat /\ L \in 0..N /\ DOMAIN pairs = 1..L
  BY AssocIsShort
<1>2. PICK u : /\ \A n \in 0..N : u[n] = FirstBody(objs, u, n)
               /\ EntriesIn(objs, list) = u[N][list]
  BY <1>1, EntriesUnfold
<1>3. \A i \in 1..L :
        /\ objs[pairs[i]].car \in Word
        /\ objs[pairs[i]].cdr = Link(pairs, i + 1)
        /\ pairs[i] \in Nat
  BY <1>1, AssocIsThere DEF IsAssoc, HeapOK
<1> HIDE DEF N, L
<1>4. \A k \in 0..L : Rest(k) \in Seq(Word) /\ Len(Rest(k)) = k
  BY <1>1, <1>3
<1>5. \A i \in 1..(L + 1) : Link(pairs, i) \in Word
  <2> TAKE i \in 1..(L + 1)
  <2>1. CASE i \in DOMAIN pairs
    <3>1. pairs[i] \in Nat /\ Link(pairs, i) = Pointer("pair", pairs[i])
      BY <2>1, <1>1, <1>3 DEF Link
    <3> QED BY <3>1 DEF Word, Pointer, Tags, HeapTags
  <2>2. CASE i \notin DOMAIN pairs
    BY <2>2 DEF Link, Word, Nil, Tags, ImmediateTags
  <2> QED BY <2>1, <2>2
<1> DEFINE Found(k) == \A n \in k..N : u[n][Link(pairs, L - k + 1)] = Rest(k)
           T == {k \in 0..L : ~Found(k)}
<1>6. T = {}
  <2> SUFFICES ASSUME T # {} PROVE FALSE
    OBVIOUS
  <2>1. PICK k \in T : \A m \in T : k <= m
    <3>1. T \subseteq Nat
      BY <1>1
    <3> HIDE DEF T
    <3> QED BY <3>1, LeastNatural
  <2>2. k \in 0..L /\ ~Found(k)
    BY <2>1
  <2>3. PICK n \in k..N : u[n][Link(pairs, L - k + 1)] # Rest(k)
    BY <2>2
  <2> DEFINE w == Link(pairs, L - k + 1)
  <2>4. w \in Word /\ n \in 0..N
    BY <1>1, <1>5, <2>2
  <2>5. u[n][w] = IF n = 0 \/ w.tag # "pair" THEN <<>>
                  ELSE <<objs[w.upper].car>> \o u[n - 1][objs[w.upper].cdr]
    <3> HIDE DEF w
    <3>1. u[n] = FirstBody(objs, u, n)
      BY <1>2, <2>4
    <3>2. FirstBody(objs, u, n)[w] = IF n = 0 \/ w.tag # "pair" THEN <<>>
            ELSE <<objs[w.upper].car>> \o u[n - 1][objs[w.upper].cdr]
      BY <2>4, Zenon DEF FirstBody
    <3> QED BY <3>1, <3>2, Zenon
  <2>6. CASE k = 0
    <3>1. w = Nil
      BY <2>6, <1>1 DEF Link
    <3>2. u[n][w] = <<>>
      BY <2>5, <3>1 DEF Nil
    <3>3. Rest(0) = <<>>
      OBVIOUS
    <3> QED BY <3>2, <3>3, <2>3, <2>6
  <2>7. CASE k # 0
    <3> DEFINE j == L - k + 1
    <3>1. j \in 1..L /\ n # 0 /\ w = Pointer("pair", pairs[j])
      BY SMTT(30), <2>7, <2>2, <2>4, <1>1 DEF Link
    <3>2. u[n][w] = <<objs[pairs[j]].car>> \o u[n - 1][Link(pairs, j + 1)]
      <4>1. w.tag = "pair" /\ w.upper = pairs[j]
        BY <3>1 DEF Pointer
      <4>2. objs[pairs[j]].cdr = Link(pairs, j + 1)
        BY <3>1, <1>3
      <4> HIDE DEF w, j
      <4> QED BY <3>1, <4>1, <4>2, <2>5
    <3>3. k - 1 \in 0..L /\ k - 1 \notin T /\ n - 1 \in (k - 1)..N /\ j + 1 = L - (k - 1) + 1
      <4>1. k - 1 \in 0..L /\ ~(k <= k - 1) /\ n - 1 \in (k - 1)..N
        BY <2>2, <2>4, <2>7, <1>1
      <4>2. j + 1 = L - (k - 1) + 1
        BY <2>2, <1>1
      <4> HIDE DEF T
      <4> QED BY <4>1, <4>2, <2>1
    <3>4. u[n - 1][Link(pairs, j + 1)] = Rest(k - 1)
      BY <3>3
    <3> DEFINE e == objs[pairs[j]].car
               rest == Rest(k - 1)
    <3>5. e \in Word
      BY <3>1, <1>3
    <3>6. rest \in Seq(Word) /\ Len(rest) = k - 1
      BY <3>3, <1>4
    <3>7. Rest(k) \in Seq(Word) /\ Len(Rest(k)) = k
      BY <2>2, <1>4
    <3>8. \A i \in 2..k : rest[i - 1] = objs[pairs[L - k + i]].car
      <4>1. \A i \in 2..k : i - 1 \in 1..(k - 1) /\ L - (k - 1) + (i - 1) = L - k + i
        BY <2>2, <1>1
      <4> QED BY <4>1
    <3>9. \A i \in 1..k : Rest(k)[i] = objs[pairs[L - k + i]].car
      OBVIOUS
    <3>10. Rest(k)[1] = e
      BY <3>9, <2>2, <2>7
    <3> HIDE DEF Rest, e, rest
    <3>11. /\ <<e>> \o rest \in Seq(Word)
           /\ Len(<<e>> \o rest) = Len(rest) + 1
           /\ (<<e>> \o rest)[1] = e
           /\ \A i \in 2..(Len(rest) + 1) : (<<e>> \o rest)[i] = rest[i - 1]
      BY <3>5, <3>6, Preceded
    <3>12. Len(<<e>> \o rest) = k /\ \A i \in 1..k : (<<e>> \o rest)[i] = Rest(k)[i]
      <4>1. Len(rest) + 1 = k
        BY <3>6, <2>2
      <4>2. \A i \in 1..k : i = 1 \/ i \in 2..k
        BY <2>2
      <4> QED BY <4>1, <4>2, <3>8, <3>9, <3>10, <3>11
    <3>13. <<e>> \o rest = Rest(k)
      BY <3>7, <3>11, <3>12, SeqEqual
    <3> QED BY <3>2, <3>4, <3>13, <2>3 DEF e, rest
  <2> QED BY <2>6, <2>7
<1>7. Found(L)
  <2>1. L \in 0..L /\ L \notin T
    BY <1>1, <1>6
  <2> HIDE DEF Found
  <2> QED BY <2>1
<1>8. u[N][Link(pairs, 1)] = Rest(L)
  <2>1. L - L + 1 = 1 /\ N \in L..N
    BY <1>1
  <2> QED BY <2>1, <1>7
<1>9. Rest(L) = [i \in 1..L |-> objs[pairs[i]].car]
  <2>1. \A i \in 1..L : L - L + i = i
    BY <1>1
  <2> QED BY <2>1
<1> QED BY <1>2, <1>8, <1>9 DEF IsAssoc, L, N
-----------------------------------------------------------------------------
\* What SelectInSeq selects.
LEMMA Selected ==
  ASSUME NEW n \in Nat, NEW P
  PROVE  LET I == {i \in 1..n : i \in P}
             s == IF I # {} THEN Min(I) ELSE 0
         IN  (s = 0 /\ I = {}) \/ (s \in 1..n /\ s \in P)
<1> DEFINE I == {i \in 1..n : i \in P}
<1>1. CASE I = {}
  BY <1>1
<1>2. CASE I # {}
  <2>1. \E x \in I : \A y \in I : x <= y
    <3>1. I \subseteq Nat
      OBVIOUS
    <3> HIDE DEF I
    <3> QED BY <3>1, <1>2, LeastNatural
  <2>2. Min(I) \in I
    <3> HIDE DEF I
    <3> QED BY <2>1 DEF Min
  <2> QED BY <1>2, <2>2
<1> QED BY <1>1, <1>2

\* Entries, for the objects that are there now.
LEMMA EntriesAreThose ==
  ASSUME NEW list
  PROVE  Entries(list) = EntriesIn(objects, list)
BY Zenon DEF Entries, EntriesIn, Car, Cdr, At

\* assocLookupEntry compares the spellings: it returns an entry whose key is
\* spelled like the key it was given, or NULL when there is none.
LEMMA SymbolEntryFinds ==
  ASSUME HeapOK(objects), NEW list, NEW pairs, IsAssoc(objects, list, pairs), NEW key
  PROVE  \/ /\ SymbolEntry(list, key) = Null
            /\ \A i \in DOMAIN pairs : SpellAt(objects, pairs, i) # At(key).spelling
         \/ \E i \in DOMAIN pairs :
              /\ SymbolEntry(list, key) = objects[pairs[i]].car
              /\ SymbolEntry(list, key) # Null
              /\ SpellAt(objects, pairs, i) = At(key).spelling
<1> DEFINE es == Entries(list)
           P == {i \in 1..Len(pairs) : SpellAt(objects, pairs, i) = At(key).spelling}
           I == {i \in 1..Len(pairs) : i \in P}
           s == IF I # {} THEN Min(I) ELSE 0
<1>1. Len(pairs) \in Nat /\ DOMAIN pairs = 1..Len(pairs)
  BY AssocIsShort
<1>2. es = [i \in 1..Len(pairs) |-> objects[pairs[i]].car]
  BY EntriesOfAssoc, EntriesAreThose
<1> HIDE DEF es
<1>3. Len(es) = Len(pairs) /\ \A i \in 1..Len(pairs) : es[i] = objects[pairs[i]].car
  BY <1>1, <1>2
<1>4. {i \in 1..Len(es) : SameSpelling(Car(es[i]), key)} = I
  BY <1>3 DEF SameSpelling, Car, At, SpellAt, KeyAt, EntryAt
<1> HIDE DEF P
<1>5. (s = 0 /\ I = {}) \/ (s \in 1..Len(pairs) /\ s \in P)
  BY <1>1, Selected
<1> HIDE DEF I
<1>6. SymbolEntry(list, key) = IF s = 0 THEN Null ELSE es[s]
  BY <1>4 DEF SymbolEntry, SelectInSeq, es
<1>7. CASE s = 0 /\ I = {}
  BY <1>1, <1>6, <1>7 DEF P, I
<1>8. CASE s \in 1..Len(pairs) /\ s \in P
  <2> HIDE DEF s
  <2>1. SymbolEntry(list, key) = objects[pairs[s]].car
    BY <1>1, <1>3, <1>6, <1>8
  <2>2. objects[pairs[s]].car.tag = "pair"
    BY <1>1, <1>8, AssocIsThere
  <2> QED BY <1>1, <1>8, <2>1, <2>2 DEF P, Null
<1> QED BY <1>5, <1>7, <1>8

\* assocLookupEntry with kPtrEq: an entry whose key is this symbol, or NULL
\* when there is none.
LEMMA PtrEntryFinds ==
  ASSUME HeapOK(objects), NEW list, NEW pairs, IsAssoc(objects, list, pairs), NEW key
  PROVE  \/ /\ PtrEntry(list, key) = Null
            /\ \A i \in DOMAIN pairs : KeyAt(objects, pairs, i) # key
         \/ \E i \in DOMAIN pairs :
              /\ PtrEntry(list, key) = objects[pairs[i]].car
              /\ PtrEntry(list, key) # Null
              /\ KeyAt(objects, pairs, i) = key
<1> DEFINE es == Entries(list)
           P == {i \in 1..Len(pairs) : KeyAt(objects, pairs, i) = key}
           I == {i \in 1..Len(pairs) : i \in P}
           s == IF I # {} THEN Min(I) ELSE 0
<1>1. Len(pairs) \in Nat /\ DOMAIN pairs = 1..Len(pairs)
  BY AssocIsShort
<1>2. es = [i \in 1..Len(pairs) |-> objects[pairs[i]].car]
  BY EntriesOfAssoc, EntriesAreThose
<1> HIDE DEF es
<1>3. Len(es) = Len(pairs) /\ \A i \in 1..Len(pairs) : es[i] = objects[pairs[i]].car
  BY <1>1, <1>2
<1>4. {i \in 1..Len(es) : Car(es[i]) = key} = I
  BY <1>3 DEF Car, At, KeyAt, EntryAt
<1> HIDE DEF P
<1>5. (s = 0 /\ I = {}) \/ (s \in 1..Len(pairs) /\ s \in P)
  BY <1>1, Selected
<1> HIDE DEF I
<1>6. PtrEntry(list, key) = IF s = 0 THEN Null ELSE es[s]
  BY <1>4 DEF PtrEntry, SelectInSeq, es
<1>7. CASE s = 0 /\ I = {}
  BY <1>1, <1>6, <1>7 DEF P, I
<1>8. CASE s \in 1..Len(pairs) /\ s \in P
  <2> HIDE DEF s
  <2>1. PtrEntry(list, key) = objects[pairs[s]].car
    BY <1>1, <1>3, <1>6, <1>8
  <2>2. objects[pairs[s]].car.tag = "pair"
    BY <1>1, <1>8, AssocIsThere
  <2> QED BY <1>1, <1>8, <2>1, <2>2 DEF P, Null
<1> QED BY <1>5, <1>7, <1>8

-----------------------------------------------------------------------------
\* The objects that no step changes: symbols, and the pairs of lists and of
\* their entries.
Plain(o) == o.tag = "symbol" \/ (o.tag = "pair" /\ o.car.tag # "vector")

\* Of the objects objs, kept is closed and still there in objs2, and the plain
\* ones are as they were.
Preserves(objs, objs2, kept) ==
  /\ kept \subseteq DOMAIN objs
  /\ kept \subseteq DOMAIN objs2
  /\ \A o \in kept : \A w \in Pointees(objs[o]) : IsHeapAllocated(w) => w.upper \in kept
  /\ \A o \in kept : Plain(objs[o]) => objs2[o] = objs[o]

\* A list that is kept is the same list afterwards.
LEMMA AssocKept ==
  ASSUME NEW objs, HeapOK(objs), NEW objs2, NEW kept, Preserves(objs, objs2, kept),
         NEW list, NEW pairs, IsAssoc(objs, list, pairs),
         IsHeapAllocated(list) => list.upper \in kept
  PROVE  /\ IsAssoc(objs2, list, pairs)
         /\ \A i \in DOMAIN pairs :
              /\ pairs[i] \in kept
              /\ objs2[pairs[i]] = objs[pairs[i]]
              /\ EntryAt(objs2, pairs, i) = EntryAt(objs, pairs, i)
              /\ KeyAt(objs2, pairs, i) = KeyAt(objs, pairs, i)
              /\ ValAt(objs2, pairs, i) = ValAt(objs, pairs, i)
              /\ SpellAt(objs2, pairs, i) = SpellAt(objs, pairs, i)
              /\ objs2[KeyAt(objs, pairs, i).upper] = objs[KeyAt(objs, pairs, i).upper]
              /\ objs[pairs[i]].car.upper \in kept
              /\ KeyAt(objs, pairs, i).upper \in kept
<1>1. /\ Len(pairs) \in Nat /\ DOMAIN pairs = 1..Len(pairs)
      /\ \A i \in DOMAIN pairs :
           /\ pairs[i] \in DOMAIN objs
           /\ objs[pairs[i]] = Pair(objs[pairs[i]].car, objs[pairs[i]].cdr)
           /\ objs[pairs[i]].car \in Word
           /\ objs[pairs[i]].car.tag = "pair"
           /\ objs[pairs[i]].car.upper \in DOMAIN objs
           /\ EntryAt(objs, pairs, i) = Pair(KeyAt(objs, pairs, i), ValAt(objs, pairs, i))
           /\ KeyAt(objs, pairs, i).tag = "symbol"
           /\ objs[KeyAt(objs, pairs, i).upper].tag = "symbol"
  <2>1. Len(pairs) \in Nat /\ DOMAIN pairs = 1..Len(pairs)
    BY AssocIsShort
  <2> QED BY <2>1, AssocIsThere
<1>2. \A i \in DOMAIN pairs : pairs[i] \in kept
  <2> DEFINE B == {i \in DOMAIN pairs : pairs[i] \notin kept}
  <2> SUFFICES ASSUME B # {} PROVE FALSE
    OBVIOUS
  <2>1. PICK i \in B : \A j \in B : i <= j
    <3>1. B \subseteq Nat
      BY <1>1
    <3> HIDE DEF B
    <3> QED BY <3>1, LeastNatural
  <2>2. i \in 1..Len(pairs) /\ pairs[i] \notin kept
    BY <2>1, <1>1
  <2>3. CASE i = 1
    <3>1. list = Pointer("pair", pairs[i])
      BY <2>3, <2>2, <1>1 DEF IsAssoc, Link
    <3>2. IsHeapAllocated(list) /\ list.upper = pairs[i]
      BY <3>1 DEF IsHeapAllocated, HeapTags, Pointer
    <3> QED BY <3>2, <2>2
  <2>4. CASE i # 1
    <3>1. i - 1 \in DOMAIN pairs /\ i - 1 \notin B /\ (i - 1) + 1 = i
      <4>1. i - 1 \in 1..Len(pairs) /\ ~(i <= i - 1)
        BY <2>2, <2>4, <1>1
      <4> QED BY <4>1, <2>1, <2>2, <1>1
    <3>2. pairs[i - 1] \in kept
      BY <3>1
    <3>3. objs[pairs[i - 1]].cdr = Pointer("pair", pairs[i])
      BY <3>1, <2>2, <1>1 DEF IsAssoc, Link
    <3>4. Pointer("pair", pairs[i]) \in Pointees(objs[pairs[i - 1]])
      <4>1. objs[pairs[i - 1]] = Pair(objs[pairs[i - 1]].car, objs[pairs[i - 1]].cdr)
        BY <3>1, <1>1
      <4>2. Pointees(objs[pairs[i - 1]]) = {objs[pairs[i - 1]].car, objs[pairs[i - 1]].cdr}
        BY <4>1 DEF Pointees, Pair
      <4> QED BY <4>2, <3>3
    <3>5. IsHeapAllocated(Pointer("pair", pairs[i])) /\ Pointer("pair", pairs[i]).upper = pairs[i]
      BY DEF IsHeapAllocated, HeapTags, Pointer
    <3> QED BY <3>2, <3>4, <3>5, <2>2 DEF Preserves
  <2> QED BY <2>3, <2>4
<1>3. ASSUME NEW i \in DOMAIN pairs
      PROVE  /\ objs2[pairs[i]] = objs[pairs[i]]
             /\ EntryAt(objs2, pairs, i) = EntryAt(objs, pairs, i)
             /\ KeyAt(objs2, pairs, i) = KeyAt(objs, pairs, i)
             /\ ValAt(objs2, pairs, i) = ValAt(objs, pairs, i)
             /\ SpellAt(objs2, pairs, i) = SpellAt(objs, pairs, i)
             /\ objs2[KeyAt(objs, pairs, i).upper] = objs[KeyAt(objs, pairs, i).upper]
             /\ objs[pairs[i]].car.upper \in kept
             /\ KeyAt(objs, pairs, i).upper \in kept
  <2>1. Plain(objs[pairs[i]])
    <3>1. /\ objs[pairs[i]] = Pair(objs[pairs[i]].car, objs[pairs[i]].cdr)
          /\ objs[pairs[i]].car.tag = "pair"
      BY <1>1
    <3>2. objs[pairs[i]].tag = "pair"
      BY <3>1 DEF Pair
    <3> QED BY <3>1, <3>2 DEF Plain
  <2>2. objs2[pairs[i]] = objs[pairs[i]]
    BY <1>2, <2>1 DEF Preserves
  <2>3. objs[pairs[i]].car \in Pointees(objs[pairs[i]])
    <3>1. objs[pairs[i]] = Pair(objs[pairs[i]].car, objs[pairs[i]].cdr)
      BY <1>1
    <3> QED BY <3>1 DEF Pointees, Pair
  <2>4. objs[pairs[i]].car.upper \in kept
    BY <2>3, <1>1, <1>2 DEF Preserves, IsHeapAllocated, HeapTags
  <2>5. Plain(EntryAt(objs, pairs, i))
    <3>1. /\ EntryAt(objs, pairs, i) = Pair(KeyAt(objs, pairs, i), ValAt(objs, pairs, i))
          /\ KeyAt(objs, pairs, i).tag = "symbol"
      BY <1>1
    <3> HIDE DEF EntryAt, KeyAt, ValAt
    <3> QED BY <3>1 DEF Plain, Pair
  <2>6. EntryAt(objs2, pairs, i) = EntryAt(objs, pairs, i)
    BY <2>2, <2>4, <2>5 DEF Preserves, EntryAt
  <2>7. KeyAt(objs2, pairs, i) = KeyAt(objs, pairs, i) /\ ValAt(objs2, pairs, i) = ValAt(objs, pairs, i)
    BY <2>6 DEF KeyAt, ValAt
  <2>8. KeyAt(objs, pairs, i) \in Pointees(EntryAt(objs, pairs, i))
    <3>1. EntryAt(objs, pairs, i) = Pair(KeyAt(objs, pairs, i), ValAt(objs, pairs, i))
      BY <1>1
    <3> HIDE DEF EntryAt, KeyAt, ValAt
    <3> QED BY <3>1 DEF Pointees, Pair
  <2>9. KeyAt(objs, pairs, i).upper \in kept
    <3>1. KeyAt(objs, pairs, i).tag = "symbol"
      BY <1>1
    <3> QED BY <3>1, <2>8, <2>4 DEF Preserves, IsHeapAllocated, HeapTags, EntryAt
  <2>10. objs2[KeyAt(objs, pairs, i).upper] = objs[KeyAt(objs, pairs, i).upper]
    BY <2>9, <1>1 DEF Preserves, Plain
  <2> QED BY <2>2, <2>4, <2>6, <2>7, <2>9, <2>10 DEF SpellAt
<1>4. IsAssoc(objs2, list, pairs)
  <2>1. pairs \in Seq(DOMAIN objs2)
    <3>1. \A i \in 1..Len(pairs) : pairs[i] \in DOMAIN objs2
      BY <1>1, <1>2 DEF Preserves
    <3>2. pairs = [i \in 1..Len(pairs) |-> pairs[i]]
      BY DEF IsAssoc
    <3> QED BY <3>1, <3>2, <1>1
  <2>2. \A i \in DOMAIN pairs : IsEntry(objs2, objs2[pairs[i]].car)
    <3> TAKE i \in DOMAIN pairs
    <3>1. EntryAt(objs2, pairs, i).tag = "pair" /\ EntryAt(objs2, pairs, i).car.tag = "symbol"
      <4>1. IsEntry(objs, objs[pairs[i]].car)
        BY DEF IsAssoc
      <4>2. EntryAt(objs2, pairs, i) = EntryAt(objs, pairs, i)
        BY <1>3
      <4> QED BY <4>1, <4>2 DEF IsEntry, EntryAt
    <3> QED BY <3>1, <1>1, <1>3 DEF IsEntry, EntryAt
  <2> QED BY <2>1, <2>2, <1>3 DEF IsAssoc
<1> QED BY <1>2, <1>3, <1>4

\* An entry is put at the front of a list.
LEMMA AssocCons ==
  ASSUME NEW objs, NEW list, NEW pairs, IsAssoc(objs, list, pairs),
         NEW n \in DOMAIN objs, \A i \in DOMAIN pairs : pairs[i] # n,
         NEW e, objs[n] = Pair(e, list), IsEntry(objs, e)
  PROVE  /\ IsAssoc(objs, Pointer("pair", n), <<n>> \o pairs)
         /\ DOMAIN (<<n>> \o pairs) = 1..(Len(pairs) + 1)
         /\ Len(<<n>> \o pairs) = Len(pairs) + 1
         /\ Len(pairs) \in Nat /\ DOMAIN pairs = 1..Len(pairs)
         /\ EntryAt(objs, <<n>> \o pairs, 1) = objs[e.upper]
         /\ KeyAt(objs, <<n>> \o pairs, 1) = objs[e.upper].car
         /\ ValAt(objs, <<n>> \o pairs, 1) = objs[e.upper].cdr
         /\ \A i \in 2..(Len(pairs) + 1) :
              /\ i - 1 \in DOMAIN pairs
              /\ EntryAt(objs, <<n>> \o pairs, i) = EntryAt(objs, pairs, i - 1)
              /\ KeyAt(objs, <<n>> \o pairs, i) = KeyAt(objs, pairs, i - 1)
              /\ ValAt(objs, <<n>> \o pairs, i) = ValAt(objs, pairs, i - 1)
              /\ SpellAt(objs, <<n>> \o pairs, i) = SpellAt(objs, pairs, i - 1)
<1> DEFINE ps == <<n>> \o pairs
<1>1. pairs \in Seq(DOMAIN objs) /\ Len(pairs) \in Nat /\ DOMAIN pairs = 1..Len(pairs)
  BY DEF IsAssoc
<1>2. /\ ps \in Seq(DOMAIN objs)
      /\ Len(ps) = Len(pairs) + 1
      /\ ps[1] = n
      /\ \A i \in 2..(Len(pairs) + 1) : ps[i] = pairs[i - 1]
  BY <1>1, Preceded
<1> HIDE DEF ps
<1>3. DOMAIN ps = 1..(Len(pairs) + 1)
  BY <1>2
<1>4. \A i \in 1..(Len(pairs) + 1) : i = 1 \/ (i \in 2..(Len(pairs) + 1) /\ i - 1 \in DOMAIN pairs /\ i - 1 # 0)
  BY <1>1
<1>5. \A i, j \in DOMAIN ps : ps[i] = ps[j] => i = j
  <2> SUFFICES ASSUME NEW i \in DOMAIN ps, NEW j \in DOMAIN ps, ps[i] = ps[j] PROVE i = j
    OBVIOUS
  <2>1. CASE i = 1 \/ j = 1
    BY <2>1, <1>2, <1>3, <1>4
  <2>2. CASE i # 1 /\ j # 1
    <3>1. i - 1 \in DOMAIN pairs /\ j - 1 \in DOMAIN pairs /\ pairs[i - 1] = pairs[j - 1]
      BY <2>2, <1>2, <1>3, <1>4
    <3>2. i - 1 = j - 1
      BY <3>1 DEF IsAssoc
    <3> QED BY <3>2, <1>1, <1>3
  <2> QED BY <2>1, <2>2
<1>6. \A i \in 1..(Len(pairs) + 1) : i # 1 => Link(ps, i) = Link(pairs, i - 1)
  BY <1>2, <1>3, <1>4 DEF Link
<1>7. Link(ps, 1) = Pointer("pair", n) /\ Link(ps, 2) = Link(pairs, 1)
  <2>1. Link(ps, 1) = Pointer("pair", n)
    BY <1>1, <1>2, <1>3 DEF Link
  <2>2. CASE Len(pairs) = 0
    <3>1. 2 \notin DOMAIN ps /\ 1 \notin DOMAIN pairs
      BY <2>2, <1>1, <1>3
    <3> QED BY <3>1, <2>1 DEF Link
  <2>3. CASE Len(pairs) # 0
    <3>1. 2 \in 1..(Len(pairs) + 1) /\ 2 # 1 /\ 2 - 1 = 1
      BY <2>3, <1>1
    <3>2. Link(ps, 2) = Link(pairs, 2 - 1)
      BY <3>1, <1>6
    <3> QED BY <3>1, <3>2, <2>1
  <2> QED BY <2>1, <2>2, <2>3
<1>8. \A i \in 2..(Len(pairs) + 1) : Link(ps, i + 1) = Link(pairs, i)
  <2> TAKE i \in 2..(Len(pairs) + 1)
  <2>1. CASE i = Len(pairs) + 1
    BY <2>1, <1>1, <1>3 DEF Link
  <2>2. CASE i # Len(pairs) + 1
    <3>1. i + 1 \in 1..(Len(pairs) + 1) /\ i + 1 # 1 /\ (i + 1) - 1 = i
      BY <2>2, <1>1
    <3> QED BY <3>1, <1>6
  <2> QED BY <2>1, <2>2
<1>9. ASSUME NEW i \in DOMAIN ps
      PROVE  /\ objs[ps[i]].tag = "pair"
             /\ objs[ps[i]].cdr = Link(ps, i + 1)
             /\ IsEntry(objs, objs[ps[i]].car)
  <2>1. CASE i = 1
    <3>1. list = Link(ps, i + 1)
      BY <2>1, <1>7 DEF IsAssoc
    <3> QED BY <2>1, <3>1, <1>2 DEF Pair
  <2>2. CASE i # 1
    <3>1. i \in 2..(Len(pairs) + 1) /\ i - 1 \in DOMAIN pairs /\ (i - 1) + 1 = i
      BY <2>2, <1>1, <1>3, <1>4
    <3>2. ps[i] = pairs[i - 1] /\ Link(ps, i + 1) = Link(pairs, (i - 1) + 1)
      BY <3>1, <1>2, <1>8
    <3> QED BY <3>1, <3>2 DEF IsAssoc
  <2> QED BY <2>1, <2>2
<1>10. IsAssoc(objs, Pointer("pair", n), ps)
  BY <1>2, <1>5, <1>7, <1>9 DEF IsAssoc
<1>11. /\ EntryAt(objs, ps, 1) = objs[e.upper]
       /\ KeyAt(objs, ps, 1) = objs[e.upper].car
       /\ ValAt(objs, ps, 1) = objs[e.upper].cdr
  BY <1>2 DEF EntryAt, KeyAt, ValAt, Pair
<1>12. ASSUME NEW i \in 2..(Len(pairs) + 1)
       PROVE  /\ i - 1 \in DOMAIN pairs
              /\ EntryAt(objs, ps, i) = EntryAt(objs, pairs, i - 1)
              /\ KeyAt(objs, ps, i) = KeyAt(objs, pairs, i - 1)
              /\ ValAt(objs, ps, i) = ValAt(objs, pairs, i - 1)
              /\ SpellAt(objs, ps, i) = SpellAt(objs, pairs, i - 1)
  <2>1. i - 1 \in DOMAIN pairs /\ ps[i] = pairs[i - 1]
    BY <1>1, <1>2
  <2> QED BY <2>1 DEF EntryAt, KeyAt, ValAt, SpellAt
<1> QED BY <1>1, <1>2, <1>3, <1>10, <1>11, <1>12 DEF ps
-----------------------------------------------------------------------------
(***************************************************************************)
(* The invariant.  T are the pairs of the intern table, A the pairs of the *)
(* association list of the module.                                         *)
(***************************************************************************)
Keys(objs, pairs) == {KeyAt(objs, pairs, i) : i \in DOMAIN pairs}

\* Where internSymbol runs, where addName does, and where it has appended the
\* value but not yet the name.
Interning == pc \in {"symbol", "lookup", "entry", "cons"}
Adding == pc \in {"addName", "append", "nameEntry", "nameCons"}
Appended == pc \in {"nameEntry", "nameCons"}

\* The growable array is apart from the module's root.
ArrayOK ==
  /\ root.tag = "vector"
  /\ Len(At(root).elems) = 2
  /\ array.tag = "pair"
  /\ Car(array).tag = "vector"
  /\ Car(array).upper # root.upper
  /\ Cdr(array) = Fixnum(arrayLength)
  /\ arrayLength \in 0..Len(Elems)

\* No two symbols of the intern table are spelled alike.
InternOK(T) ==
  /\ IsAssoc(objects, internTable, T)
  /\ \A i, j \in DOMAIN T :
       SpellAt(objects, T, i) = SpellAt(objects, T, j) => i = j

\* Name i of n has index n - i, and there is a value at that index.
NamesOK(T, A) ==
  /\ IsAssoc(objects, assoc, A)
  /\ \A i, j \in DOMAIN A : KeyAt(objects, A, i) = KeyAt(objects, A, j) => i = j
  /\ \A i \in DOMAIN A : /\ KeyAt(objects, A, i) \in Keys(objects, T)
                         /\ ValAt(objects, A, i) = Fixnum(Len(A) - i)
  /\ \A i \in 1..arrayLength : Elems[i] \in Keys(objects, T)
  /\ arrayLength = IF Appended THEN Len(A) + 1 ELSE Len(A)
  /\ ix \in 0..arrayLength

\* The Handles of the functions that are running.
CallOK(T, A) ==
  /\ IF Interning THEN Len(names) \in {1, 2} /\ names[Len(names)] \in Values
                  ELSE names = <<>>
  /\ IF Adding \/ (Interning /\ Len(names) = 1)
     THEN local.name \in Keys(objects, T) ELSE local.name = Null
  /\ IF Adding
     THEN local.val \in Keys(objects, T) /\ At(local.val).spelling \in Values
     ELSE local.val = Null
  /\ IF pc \in {"lookup", "entry", "cons"}
     THEN local.tmp.tag = "symbol" /\ At(local.tmp).spelling = Head(names)
     ELSE local.tmp = Null
  /\ pc \in {"entry", "cons"} =>
       \A i \in DOMAIN T : SpellAt(objects, T, i) # Head(names)
  /\ IF pc = "cons" \/ pc = "nameCons"
     THEN /\ local.newEntry.tag = "pair"
          /\ At(local.newEntry) = IF pc = "cons" THEN Pair(local.tmp, Nil)
                                  ELSE Pair(local.name, Fixnum(ix))
     ELSE local.newEntry = Null
  /\ IF pc = "append" \/ Appended
     THEN /\ local.hAssoc = assoc
          /\ ix = Len(A)
          /\ local.name \notin Keys(objects, A)
     ELSE local.hAssoc = Null
  /\ Appended => Elems[Len(A) + 1] = local.val

\* What getRoot returns, or is about to.
TrimOK ==
  /\ pc # "idle" => moduleRoot = Null
  /\ IF pc = "newRoot"
     THEN local.trimmedVec.tag = "vector" /\ At(local.trimmedVec).elems = Items
     ELSE local.trimmedVec = Null
  /\ moduleRoot # Null =>
       /\ moduleRoot.tag = "vector"
       /\ Len(At(moduleRoot).elems) = 2
       /\ At(moduleRoot).elems[1] = assoc
       /\ At(moduleRoot).elems[2].tag = "vector"
       /\ At(At(moduleRoot).elems[2]).elems = Items

\* The control and the bounds.
Labels == {"idle", "symbol", "lookup", "entry", "cons", "addName", "append",
           "nameEntry", "nameCons", "newRoot"}

ControlOK ==
  /\ pc \in Labels
  /\ defines \in 0..MaxDefines
  /\ names \in Seq(Spellings)
  /\ local \in [Variables -> Word]

\* The whole of it, for lists of these pairs; and the invariant.
InvWith(T, A) ==
  /\ HeapOK(objects)
  /\ HandlesOK
  /\ ControlOK
  /\ ArrayOK
  /\ InternOK(T)
  /\ NamesOK(T, A)
  /\ CallOK(T, A)
  /\ TrimOK

IInv == \E T, A : InvWith(T, A)
-----------------------------------------------------------------------------
\* Where things are.
LEMMA Layout ==
  ASSUME HeapOK(objects), HandlesOK, ArrayOK
  PROVE  /\ root \in Word /\ root.upper \in DOMAIN objects
         /\ At(root) = Vector(At(root).elems)
         /\ At(root).elems \in Seq(Word) /\ DOMAIN At(root).elems = 1..2
         /\ assoc \in Word /\ Leads(objects, assoc)
         /\ assoc \in Pointees(At(root)) /\ array \in Pointees(At(root))
         /\ array \in Word /\ array.upper \in DOMAIN objects
         /\ At(array) = Pair(Car(array), Cdr(array))
         /\ Car(array) \in Word /\ Car(array).upper \in DOMAIN objects
         /\ At(Car(array)) = Vector(Elems)
         /\ Elems \in Seq(Word) /\ Len(Elems) \in Nat /\ DOMAIN Elems = 1..Len(Elems)
         /\ arrayLength \in Nat /\ arrayLength <= Len(Elems)
         /\ \A i \in DOMAIN Elems : Leads(objects, Elems[i])
         /\ array.upper # root.upper /\ array.upper # Car(array).upper
         /\ Car(array).upper # root.upper
         /\ ~Plain(At(root)) /\ ~Plain(At(array)) /\ ~Plain(At(Car(array)))
<1>1. root \in Word /\ Leads(objects, root) /\ root.tag = "vector"
  BY DEF HandlesOK, HeldWords, ArrayOK
<1>2. root.upper \in DOMAIN objects /\ At(root).tag = "vector"
  BY <1>1 DEF Leads, IsHeapAllocated, HeapTags, At
<1>3. /\ At(root) = Vector(At(root).elems)
      /\ At(root).elems \in Seq(Word)
      /\ \A i \in DOMAIN At(root).elems : Leads(objects, At(root).elems[i])
  BY <1>2, VectorFields DEF At
<1>4. DOMAIN At(root).elems = 1..2
  BY <1>3 DEF ArrayOK
<1>5. /\ assoc \in Word /\ Leads(objects, assoc)
      /\ array \in Word /\ Leads(objects, array)
  <2>1. 1 \in 1..2 /\ 2 \in 1..2
    OBVIOUS
  <2> QED BY <2>1, <1>3, <1>4 DEF assoc, array
<1>6. assoc \in Pointees(At(root)) /\ array \in Pointees(At(root))
  <2>1. Pointees(At(root)) = {At(root).elems[i] : i \in DOMAIN At(root).elems}
    BY <1>3 DEF Pointees, Vector
  <2> QED BY <2>1, <1>4 DEF assoc, array
<1>7. array.tag = "pair" /\ array.upper \in DOMAIN objects /\ At(array).tag = "pair"
  BY <1>5 DEF Leads, IsHeapAllocated, HeapTags, At, ArrayOK
<1>8. /\ At(array) = Pair(Car(array), Cdr(array))
      /\ Car(array) \in Word /\ Leads(objects, Car(array))
  BY <1>7, PairFields DEF At, Car, Cdr
<1>9. /\ Car(array).tag = "vector"
      /\ Car(array).upper \in DOMAIN objects
      /\ At(Car(array)).tag = "vector"
  BY <1>8 DEF Leads, IsHeapAllocated, HeapTags, At, ArrayOK
<1>10. /\ At(Car(array)) = Vector(Elems)
       /\ Elems \in Seq(Word)
       /\ \A i \in DOMAIN Elems : Leads(objects, Elems[i])
  BY <1>9, VectorFields DEF At, Elems
<1>11. Len(Elems) \in Nat /\ DOMAIN Elems = 1..Len(Elems)
  BY <1>10
<1>12. arrayLength \in Nat /\ arrayLength <= Len(Elems)
  BY <1>11 DEF ArrayOK
<1>13. array.upper # root.upper /\ array.upper # Car(array).upper
  BY <1>2, <1>7, <1>9 DEF At
<1>14. ~Plain(At(root)) /\ ~Plain(At(array)) /\ ~Plain(At(Car(array)))
  BY <1>2, <1>7, <1>9, <1>8 DEF Plain, Car
<1> QED
  BY <1>1, <1>2, <1>3, <1>4, <1>5, <1>6, <1>7, <1>8, <1>9, <1>10, <1>11, <1>12,
     <1>13, <1>14 DEF ArrayOK

\* The items of the array are its first elements.
LEMMA ItemsAre ==
  ASSUME Elems \in Seq(Word), arrayLength \in 0..Len(Elems)
  PROVE  /\ Items \in Seq(Word) /\ Len(Items) = arrayLength
         /\ DOMAIN Items = 1..arrayLength
         /\ \A i \in 1..arrayLength : Items[i] = Elems[i]
<1>1. /\ Len(Elems) \in Nat /\ arrayLength \in Nat
      /\ DOMAIN Elems = 1..Len(Elems)
      /\ \A i \in 1..arrayLength : i \in 1..Len(Elems)
  OBVIOUS
<1>2. Items = [i \in 1..arrayLength |-> Elems[i]]
  BY <1>1 DEF Items
<1> QED BY <1>1, <1>2

\* The symbols of a table.
LEMMA KeysAreSymbols ==
  ASSUME NEW objs, HeapOK(objs), NEW list, NEW pairs, IsAssoc(objs, list, pairs),
         NEW k \in Keys(objs, pairs)
  PROVE  /\ k \in Word /\ k.tag = "symbol" /\ k # Null
         /\ k.upper \in DOMAIN objs
         /\ objs[k.upper] = Symbol(objs[k.upper].spelling)
         /\ objs[k.upper].spelling \in Spellings
         /\ Leads(objs, k)
<1>1. PICK i \in DOMAIN pairs : k = KeyAt(objs, pairs, i)
  BY DEF Keys
<1>2. /\ k \in Word /\ k.tag = "symbol"
      /\ k.upper \in DOMAIN objs
      /\ objs[k.upper].tag = "symbol"
  BY <1>1, AssocIsThere
<1>3. k # Null
  BY <1>2 DEF Null
<1> QED BY <1>2, <1>3, SymbolFields DEF Leads

\* Both tables are kept, whatever happens to objects that are not plain.
LEMMA TablesKept ==
  ASSUME NEW T, NEW A, InvWith(T, A), NEW objs2, NEW kept,
         Preserves(objects, objs2, kept),
         \A w \in HeldWords : IsHeapAllocated(w) => w.upper \in kept
  PROVE  /\ IsAssoc(objs2, internTable, T)
         /\ \A i \in DOMAIN T :
              /\ T[i] \in kept
              /\ KeyAt(objs2, T, i) = KeyAt(objects, T, i)
              /\ SpellAt(objs2, T, i) = SpellAt(objects, T, i)
         /\ Keys(objs2, T) = Keys(objects, T)
         /\ \A k \in Keys(objects, T) : k.upper \in kept /\ objs2[k.upper] = objects[k.upper]
         /\ IsAssoc(objs2, assoc, A)
         /\ \A i \in DOMAIN A :
              /\ A[i] \in kept
              /\ KeyAt(objs2, A, i) = KeyAt(objects, A, i)
              /\ ValAt(objs2, A, i) = ValAt(objects, A, i)
              /\ SpellAt(objs2, A, i) = SpellAt(objects, A, i)
         /\ Keys(objs2, A) = Keys(objects, A)
<1>1. HeapOK(objects) /\ HandlesOK /\ ArrayOK
  BY DEF InvWith
<1>2. IsAssoc(objects, internTable, T)
  BY DEF InvWith, InternOK
<1>3. IsHeapAllocated(internTable) => internTable.upper \in kept
  BY DEF HeldWords
<1>4. /\ IsAssoc(objs2, internTable, T)
      /\ \A i \in DOMAIN T :
           /\ T[i] \in kept
           /\ KeyAt(objs2, T, i) = KeyAt(objects, T, i)
           /\ SpellAt(objs2, T, i) = SpellAt(objects, T, i)
           /\ objs2[KeyAt(objects, T, i).upper] = objects[KeyAt(objects, T, i).upper]
           /\ KeyAt(objects, T, i).upper \in kept
  BY <1>1, <1>2, <1>3, AssocKept
<1>5. Keys(objs2, T) = Keys(objects, T)
  BY <1>4 DEF Keys
<1>6. \A k \in Keys(objects, T) : k.upper \in kept /\ objs2[k.upper] = objects[k.upper]
  BY <1>4 DEF Keys
<1>7. IsAssoc(objects, assoc, A)
  BY DEF InvWith, NamesOK
<1>8. IsHeapAllocated(assoc) => assoc.upper \in kept
  <2>1. root.upper \in kept
    BY <1>1 DEF HeldWords, ArrayOK, IsHeapAllocated, HeapTags
  <2>2. assoc \in Pointees(objects[root.upper])
    BY <1>1, Layout DEF At
  <2> QED BY <2>1, <2>2 DEF Preserves
<1>9. /\ IsAssoc(objs2, assoc, A)
      /\ \A i \in DOMAIN A :
           /\ A[i] \in kept
           /\ KeyAt(objs2, A, i) = KeyAt(objects, A, i)
           /\ ValAt(objs2, A, i) = ValAt(objects, A, i)
           /\ SpellAt(objs2, A, i) = SpellAt(objects, A, i)
  BY <1>1, <1>7, <1>8, AssocKept
<1>10. Keys(objs2, A) = Keys(objects, A)
  BY <1>9 DEF Keys
<1> QED BY <1>4, <1>5, <1>6, <1>9, <1>10
-----------------------------------------------------------------------------
\* Of an object with these words in it, an allocation finds them where they
\* were.
Fits(kept, obj) ==
  /\ obj \in Objects
  /\ \A w \in Pointees(obj) :
       IsHeapAllocated(w) => w.upper \in kept /\ objects[w.upper].tag = w.tag

\* A word in a Handle may go into a new object.
LEMMA HeldFits ==
  ASSUME HeapOK(objects), HandlesOK, NEW kept \in Kept, NEW w \in HeldWords
  PROVE  /\ w \in Word
         /\ IsHeapAllocated(w) => w.upper \in kept /\ objects[w.upper].tag = w.tag
BY KeptIsClosed DEF HandlesOK, Leads

\* An allocation changes nothing that is in use.
LEMMA Allocated ==
  ASSUME NEW T, NEW A, InvWith(T, A), NEW kept \in Kept, NEW obj, Fits(kept, obj)
  PROVE  /\ HeapOK(With(kept, obj))
         /\ Preserves(objects, With(kept, obj), kept)
         /\ kept \subseteq DOMAIN objects
         /\ DOMAIN With(kept, obj) = kept \cup {NewId(kept)}
         /\ \A o \in kept : With(kept, obj)[o] = objects[o]
         /\ NewId(kept) \notin kept
         /\ With(kept, obj)[NewId(kept)] = obj
         /\ NewWord(kept, obj) = Pointer(obj.tag, NewId(kept))
         /\ NewWord(kept, obj) \in Word
         /\ Leads(With(kept, obj), NewWord(kept, obj))
         /\ \A w \in HeldWords : w \in Word /\ Leads(With(kept, obj), w)
         /\ \A w \in HeldWords : IsHeapAllocated(w) =>
              w.upper \in kept /\ With(kept, obj)[w.upper] = objects[w.upper]
<1>1. HeapOK(objects) /\ HandlesOK
  BY DEF InvWith
<1>2. /\ kept \subseteq DOMAIN objects
      /\ \A w \in HeldWords : IsHeapAllocated(w) => w.upper \in kept
      /\ \A o \in kept : \A w \in Pointees(objects[o]) :
           IsHeapAllocated(w) => w.upper \in kept
  BY <1>1, KeptIsClosed
<1>3. /\ NewId(kept) \in Nat \ kept
      /\ DOMAIN With(kept, obj) = kept \cup {NewId(kept)}
      /\ With(kept, obj)[NewId(kept)] = obj
      /\ \A o \in kept : With(kept, obj)[o] = objects[o]
      /\ HeapOK(With(kept, obj))
      /\ NewWord(kept, obj) = Pointer(obj.tag, NewId(kept))
      /\ NewWord(kept, obj) \in Word
      /\ Leads(With(kept, obj), NewWord(kept, obj))
      /\ \A w \in HeldWords : Leads(With(kept, obj), w)
  <2>1. /\ obj \in Objects
        /\ \A w \in Pointees(obj) :
             IsHeapAllocated(w) => w.upper \in kept /\ objects[w.upper].tag = w.tag
    BY DEF Fits
  <2> QED BY <1>1, <2>1, AllocationStep
<1>4. \A w \in HeldWords : w \in Word
  BY <1>1 DEF HandlesOK
<1> QED BY <1>2, <1>3, <1>4 DEF Preserves

\* The same of a step that allocates.
LEMMA AllocatedNext ==
  ASSUME NEW T, NEW A, InvWith(T, A), NEW kept \in Kept, NEW obj, Fits(kept, obj),
         objects' = With(kept, obj)
  PROVE  /\ HeapOK(objects')
         /\ Preserves(objects, objects', kept)
         /\ kept \subseteq DOMAIN objects
         /\ DOMAIN objects' = kept \cup {NewId(kept)}
         /\ \A o \in kept : objects'[o] = objects[o]
         /\ NewId(kept) \notin kept
         /\ objects'[NewId(kept)] = obj
         /\ NewWord(kept, obj) = Pointer(obj.tag, NewId(kept))
         /\ NewWord(kept, obj) \in Word
         /\ Leads(objects', NewWord(kept, obj))
         /\ \A w \in HeldWords : w \in Word /\ Leads(objects', w)
         /\ \A w \in HeldWords : IsHeapAllocated(w) =>
              w.upper \in kept /\ objects'[w.upper] = objects[w.upper]
BY Allocated

\* The module's tables are the same in objects that agree on what is kept.
LEMMA LayoutKept ==
  ASSUME HeapOK(objects), HandlesOK, ArrayOK, NEW kept,
         Preserves(objects, objects', kept), root.upper \in kept, root' = root,
         \A o \in kept : objects'[o] = objects[o]
  PROVE  /\ array.upper \in kept /\ Car(array).upper \in kept
         /\ ArrayOK'
         /\ assoc' = assoc /\ array' = array
         /\ Elems' = Elems /\ arrayLength' = arrayLength /\ Items' = Items
<1>1. At(root)' = At(root)
  BY DEF At
<1>2. assoc' = assoc /\ array' = array
  BY <1>1 DEF assoc, array
<1>3. /\ array \in Pointees(objects[root.upper]) /\ array.tag = "pair"
      /\ At(array) = Pair(Car(array), Cdr(array))
      /\ Car(array).tag = "vector"
  BY Layout DEF At, ArrayOK
<1>4. array.upper \in kept
  BY <1>3 DEF Preserves, IsHeapAllocated, HeapTags
<1>5. At(array)' = At(array)
  BY <1>2, <1>4 DEF At
<1>6. Car(array)' = Car(array) /\ Cdr(array)' = Cdr(array)
  BY <1>5 DEF Car, Cdr
<1>7. Car(array) \in Pointees(objects[array.upper])
  BY <1>3 DEF Pointees, Pair, At
<1>8. Car(array).upper \in kept
  BY <1>3, <1>4, <1>7 DEF Preserves, IsHeapAllocated, HeapTags
<1>9. At(Car(array))' = At(Car(array))
  BY <1>6, <1>8 DEF At
<1>10. Elems' = Elems /\ arrayLength' = arrayLength
  BY <1>6, <1>9 DEF Elems, arrayLength
<1>11. Items' = Items
  BY <1>10 DEF Items
<1>12. ArrayOK'
  BY <1>1, <1>2, <1>6, <1>10 DEF ArrayOK
<1> QED BY <1>2, <1>4, <1>8, <1>10, <1>11, <1>12

\* The names, and the values at their indices, are spelled as they were.
SameView(A) ==
  /\ \A i \in DOMAIN A : SpellAt(objects', A, i) = SpellAt(objects, A, i)
  /\ \A j \in 1..Len(A) :
       objects'[Elems'[j].upper].spelling = objects[Elems[j].upper].spelling

\* Each name has an element of the array, and there a symbol.
LEMMA ElementsOfNames ==
  ASSUME NEW T, NEW A, InvWith(T, A)
  PROVE  \A j \in 1..Len(A) : j \in 1..arrayLength /\ Elems[j] \in Keys(objects, T)
<1>1. HeapOK(objects) /\ HandlesOK /\ ArrayOK /\ IsAssoc(objects, assoc, A)
  BY DEF InvWith, NamesOK
<1>2. arrayLength \in Nat /\ Len(A) \in Nat
  BY <1>1, Layout, AssocIsShort
<1>3. Len(A) <= arrayLength
  BY <1>2 DEF InvWith, NamesOK
<1>4. \A j \in 1..Len(A) : j \in 1..arrayLength
  BY <1>2, <1>3
<1> QED BY <1>4 DEF InvWith, NamesOK

\* When nothing that the tables lead to is written, they say the same.
LEMMA ViewCarried ==
  ASSUME NEW T, NEW A, InvWith(T, A),
         \A i \in DOMAIN A : SpellAt(objects', A, i) = SpellAt(objects, A, i),
         \A j \in 1..Len(A) : Elems'[j] = Elems[j],
         \A k \in Keys(objects, T) : objects'[k.upper] = objects[k.upper]
  PROVE  SameView(A)
BY ElementsOfNames DEF SameView

\* A step that only allocates keeps the tables; so does one that does not.
LEMMA TablesCarried ==
  ASSUME NEW T, NEW A, InvWith(T, A), NEW kept, Preserves(objects, objects', kept),
         \A w \in HeldWords : IsHeapAllocated(w) => w.upper \in kept,
         \A o \in kept : objects'[o] = objects[o],
         root' = root, internTable' = internTable, ix' = ix, Appended' = Appended
  PROVE  /\ ArrayOK' /\ InternOK(T)' /\ NamesOK(T, A)'
         /\ assoc' = assoc /\ Elems' = Elems /\ arrayLength' = arrayLength
         /\ Items' = Items
         /\ Keys(objects', T) = Keys(objects, T) /\ Keys(objects', A) = Keys(objects, A)
         /\ \A k \in Keys(objects, T) : k.upper \in kept /\ objects'[k.upper] = objects[k.upper]
         /\ \A i \in DOMAIN T : SpellAt(objects', T, i) = SpellAt(objects, T, i)
         /\ SameView(A)
<1>1. HeapOK(objects) /\ HandlesOK /\ ArrayOK /\ InternOK(T) /\ NamesOK(T, A)
  BY DEF InvWith
<1>2. root.upper \in kept
  BY <1>1 DEF HeldWords, ArrayOK, IsHeapAllocated, HeapTags
<1>3. /\ ArrayOK'
      /\ assoc' = assoc /\ Elems' = Elems /\ arrayLength' = arrayLength
      /\ Items' = Items
  BY <1>1, <1>2, LayoutKept
<1>4. /\ IsAssoc(objects', internTable, T)
      /\ \A i \in DOMAIN T :
           /\ T[i] \in kept
           /\ KeyAt(objects', T, i) = KeyAt(objects, T, i)
           /\ SpellAt(objects', T, i) = SpellAt(objects, T, i)
      /\ Keys(objects', T) = Keys(objects, T)
      /\ \A k \in Keys(objects, T) : k.upper \in kept /\ objects'[k.upper] = objects[k.upper]
      /\ IsAssoc(objects', assoc, A)
      /\ \A i \in DOMAIN A :
           /\ A[i] \in kept
           /\ KeyAt(objects', A, i) = KeyAt(objects, A, i)
           /\ ValAt(objects', A, i) = ValAt(objects, A, i)
           /\ SpellAt(objects', A, i) = SpellAt(objects, A, i)
      /\ Keys(objects', A) = Keys(objects, A)
  BY TablesKept
<1>5. InternOK(T)'
  BY <1>1, <1>4 DEF InternOK
<1>6. NamesOK(T, A)'
  BY <1>1, <1>3, <1>4 DEF NamesOK
<1>7. SameView(A)
  BY <1>3, <1>4, ViewCarried
<1> QED BY <1>3, <1>4, <1>5, <1>6, <1>7
-----------------------------------------------------------------------------
\* Null leads nowhere.
LEMMA NoWord == Null \in Word /\ \A objs : Leads(objs, Null)
BY DEF Null, Word, Tags, Leads, IsHeapAllocated, HeapTags

\* A step that does not allocate.
LEMMA Unmoved ==
  ASSUME HeapOK(objects), HandlesOK, objects' = objects
  PROVE  /\ Preserves(objects, objects', DOMAIN objects)
         /\ \A w \in HeldWords : IsHeapAllocated(w) => w.upper \in DOMAIN objects
         /\ \A o \in DOMAIN objects : objects'[o] = objects[o]
BY DEF Preserves, HeapOK, HandlesOK, Leads

\* Each step keeps the invariant.  The caller is about to add a name.
LEMMA BeginKeeps ==
  ASSUME NEW T, NEW A, InvWith(T, A),
         NEW s \in Spellings, NEW v \in Values, Begin(s, v)
  PROVE  InvWith(T, A)' /\ SameView(A)
<1> USE DEF Begin
<1>1. HeapOK(objects)' /\ HandlesOK' /\ ArrayOK' /\ InternOK(T)'
  <2>1. HeapOK(objects)' /\ HandlesOK' /\ InternOK(T)'
    BY Zenon DEF InvWith, HandlesOK, HeldWords, InternOK
  <2>2. ArrayOK'
    BY Zenon DEF InvWith, ArrayOK, At, Car, Cdr, array, Elems, arrayLength
  <2> QED BY ONLY <2>1, <2>2
<1>2. pc = "idle" /\ pc' = "symbol" /\ moduleRoot = Null /\ names' = <<s, v>>
  BY SMTT(30)
<1>3. NamesOK(T, A)'
  <2>1. ~Appended /\ ~Appended'
    BY <1>2 DEF Appended
  <2>2. /\ assoc' = assoc /\ arrayLength' = arrayLength /\ Elems' = Elems
        /\ objects' = objects /\ ix' = ix
    BY Zenon DEF At, Car, Cdr, assoc, array, Elems, arrayLength
  <2>3. NamesOK(T, A)
    BY DEF InvWith
  <2> QED BY ONLY <2>1, <2>2, <2>3, Zenon DEF NamesOK
<1>4. ControlOK'
  <2>1. s \in Spellings /\ v \in Spellings
    BY ValuesAssumption
  <2>2. <<s, v>> \in Seq(Spellings)
    BY <2>1
  <2>3. defines' \in 0..MaxDefines
    BY MaxDefinesAssumption DEF InvWith, ControlOK
  <2> QED BY <2>2, <2>3, <1>2 DEF InvWith, ControlOK, Labels
<1>5. CallOK(T, A)'
  BY <1>2 DEF InvWith, CallOK, Interning, Adding, Appended
<1>6. TrimOK'
  BY <1>2 DEF InvWith, TrimOK
<1>7. SameView(A)
  BY DEF SameView, Elems, array, At, Car
<1> QED BY ONLY <1>1, <1>3, <1>4, <1>5, <1>6, <1>7 DEF InvWith

\* internSymbol makes a symbol, with a Handle of its own.
LEMMA NewSymbolKeeps ==
  ASSUME NEW T, NEW A, InvWith(T, A), NewSymbol
  PROVE  InvWith(T, A)' /\ SameView(A)
<1> DEFINE obj == Symbol(Head(names))
<1>1. PICK kept \in Kept : /\ objects' = With(kept, obj)
                           /\ local' = [local EXCEPT !.tmp = NewWord(kept, obj)]
  BY DEF NewSymbol
<1>2. /\ pc = "symbol" /\ pc' = "lookup"
      /\ internTable' = internTable /\ root' = root /\ names' = names /\ ix' = ix
      /\ defines' = defines /\ moduleRoot' = moduleRoot
  BY DEF NewSymbol
<1>3. Head(names) \in Spellings
  BY <1>2 DEF InvWith, ControlOK, CallOK, Interning
<1>4. Fits(kept, obj)
  BY <1>3 DEF Fits, Objects, Symbol, Pointees
<1>a. obj.tag = "symbol"
  BY DEF Symbol
<1> HIDE DEF obj
<1>5. /\ HeapOK(objects')
      /\ Preserves(objects, objects', kept)
      /\ \A o \in kept : objects'[o] = objects[o]
      /\ objects'[NewId(kept)] = obj
      /\ NewWord(kept, obj) = Pointer(obj.tag, NewId(kept))
      /\ NewWord(kept, obj) \in Word
      /\ Leads(objects', NewWord(kept, obj))
      /\ \A w \in HeldWords : w \in Word /\ Leads(objects', w)
      /\ \A w \in HeldWords : IsHeapAllocated(w) =>
           w.upper \in kept /\ objects'[w.upper] = objects[w.upper]
  BY <1>1, <1>4, AllocatedNext
<1>6. NewWord(kept, obj).tag = "symbol" /\ objects'[NewWord(kept, obj).upper] = obj
  BY <1>5, <1>a DEF Pointer
<1> DEFINE w0 == NewWord(kept, obj)
<1> HIDE DEF w0
<1>7. /\ ArrayOK' /\ InternOK(T)' /\ NamesOK(T, A)' /\ SameView(A)
      /\ assoc' = assoc /\ Elems' = Elems /\ Items' = Items
      /\ Keys(objects', T) = Keys(objects, T)
  BY <1>2, <1>5, TablesCarried DEF Appended
<1>8. local \in [Variables -> Word] /\ w0 \in Word /\ w0.tag = "symbol" /\ objects'[w0.upper] = obj
  BY <1>5, <1>6 DEF InvWith, ControlOK, w0
<1>9. local' = [local EXCEPT !.tmp = w0]
  BY <1>1 DEF w0
<1>10. local' \in [Variables -> Word] /\ local'.tmp = w0 /\ \A v \in Variables \ {"tmp"} : local'[v] = local[v]
  BY <1>8, <1>9 DEF Variables
<1>11. HandlesOK'
  <2>1. \A w \in HeldWords' : w \in HeldWords \/ w = w0
    BY <1>2, <1>10 DEF HeldWords
  <2>2. Leads(objects', w0)
    BY <1>5 DEF w0
  <2> QED BY <2>1, <2>2, <1>5, <1>8 DEF HandlesOK
<1>12. ControlOK'
  BY <1>2, <1>10 DEF InvWith, ControlOK, Labels
<1>13. CallOK(T, A)'
  BY <1>2, <1>7, <1>8, <1>10 DEF InvWith, CallOK, Interning, Adding, Appended, At, Symbol, Variables, obj
<1>14. TrimOK'
  BY <1>2, <1>10 DEF InvWith, TrimOK, Variables
<1> QED BY <1>5, <1>7, <1>11, <1>12, <1>13, <1>14 DEF InvWith

\* internSymbol returns a symbol that is one of the table's.
LEMMA InternedKeeps ==
  ASSUME NEW T, NEW T2, NEW A, InvWith(T, A), pc \in {"lookup", "cons"},
         NEW w \in Keys(objects', T2), Interned(w), w \in Word, Leads(objects', w),
         objects'[w.upper].spelling = Head(names),
         Keys(objects, T) \subseteq Keys(objects', T2),
         \A u \in HeldWords : u \in Word /\ Leads(objects', u),
         internTable' \in Word, Leads(objects', internTable'),
         root' = root, moduleRoot' = moduleRoot, defines' = defines
  PROVE  HandlesOK' /\ ControlOK' /\ CallOK(T2, A)' /\ TrimOK'
<1>1. /\ local \in [Variables -> Word]
      /\ names \in Seq(Spellings) /\ Len(names) \in {1, 2} /\ names[Len(names)] \in Values
      /\ pc \notin {"idle", "newRoot"}
      /\ local.val = Null /\ local.hAssoc = Null /\ local.trimmedVec = Null
      /\ Len(names) = 1 => local.name \in Keys(objects, T)
      /\ defines \in 0..MaxDefines
      /\ moduleRoot = Null
  BY DEF InvWith, ControlOK, CallOK, TrimOK, Interning, Adding, Appended
<1> DEFINE x == IF Len(names) = 2 THEN "name" ELSE "val"
<1>2. local' = [local EXCEPT ![x] = w, !.tmp = Null, !.newEntry = Null]
  BY DEF Interned
<1>3. x \in Variables /\ x # "tmp" /\ x # "newEntry"
  BY DEF Variables
<1>4. /\ local' \in [Variables -> Word]
      /\ local'[x] = w /\ local'.tmp = Null /\ local'.newEntry = Null
      /\ \A v \in Variables : v \notin {x, "tmp", "newEntry"} => local'[v] = local[v]
  <2> HIDE DEF x
  <2> QED BY <1>1, <1>2, <1>3, NoWord DEF Variables
<1>5. names' = Tail(names) /\ pc' = IF Len(names) = 2 THEN "symbol" ELSE "addName"
  BY DEF Interned
<1>6. HandlesOK'
  <2>1. \A u \in HeldWords' : u \in HeldWords \cup {w, Null, internTable'}
    <3> HIDE DEF x
    <3> QED BY <1>1, <1>3, <1>4 DEF HeldWords
  <2> QED BY <2>1, NoWord DEF HandlesOK
<1>7. names' \in Seq(Spellings) /\ Len(names') = Len(names) - 1
  BY <1>1, <1>5
<1>8. ControlOK'
  BY <1>1, <1>4, <1>5, <1>7 DEF ControlOK, Labels
<1>9. CASE Len(names) = 2
  <2>1. pc' = "symbol" /\ x = "name"
    BY <1>5, <1>9
  <2>2. Len(names') = 1 /\ names'[1] \in Values
    <3>1. names # <<>> /\ names \in Seq(Spellings)
      <4>1. Len(<<>>) = 0
        OBVIOUS
      <4>2. names # <<>>
        BY <4>1, <1>9
      <4> QED BY <4>2, <1>1
    <3>2. /\ Len(Tail(names)) = Len(names) - 1
          /\ \A i \in 1..Len(Tail(names)) : Tail(names)[i] = names[i + 1]
      BY <3>1, HeadTailProperties
    <3>3. Tail(names)[1] = names[2] /\ Len(Tail(names)) = 1
      <4>1. Len(Tail(names)) = 1
        BY <3>2, <1>9
      <4>2. 1 \in 1..1 /\ 1 + 1 = 2
        OBVIOUS
      <4>3. Tail(names)[1] = names[1 + 1]
        BY <4>1, <4>2, <3>2
      <4> QED BY <4>1, <4>2, <4>3
    <3>4. names[2] \in Values
      BY <1>1, <1>9
    <3> QED BY <3>3, <3>4, <1>5
  <2>3. /\ local'.name = w /\ local'.val = Null /\ local'.hAssoc = Null
        /\ local'.trimmedVec = Null
    BY <1>1, <1>4, <2>1 DEF Variables
  <2>4. CallOK(T2, A)'
    BY <2>1, <2>2, <2>3, <1>4 DEF CallOK, Interning, Adding, Appended
  <2>5. TrimOK'
    BY <1>1, <2>1, <2>3 DEF TrimOK
  <2> QED BY <1>6, <1>8, <2>4, <2>5
<1>10. CASE Len(names) = 1
  <2>1. pc' = "addName" /\ x = "val"
    BY <1>5, <1>10
  <2>2. names' = <<>>
    BY <1>7, <1>10
  <2>3. /\ local'.val = w /\ local'.name = local.name /\ local'.hAssoc = Null
        /\ local'.trimmedVec = Null
    BY <1>1, <1>4, <2>1 DEF Variables
  <2>4. local'.name \in Keys(objects', T2) /\ Head(names) \in Values
    BY <1>1, <1>10, <2>3
  <2>5. CallOK(T2, A)'
    BY <2>1, <2>2, <2>3, <2>4, <1>4 DEF CallOK, Interning, Adding, Appended, At
  <2>6. TrimOK'
    BY <1>1, <2>1, <2>3 DEF TrimOK
  <2> QED BY <1>6, <1>8, <2>5, <2>6
<1> QED BY <1>1, <1>9, <1>10

\* internSymbol looks for one that is spelled the same.
LEMMA InternLookupKeeps ==
  ASSUME NEW T, NEW A, InvWith(T, A), InternLookup
  PROVE  InvWith(T, A)' /\ SameView(A)
<1>1. /\ pc = "lookup" /\ objects' = objects
      /\ internTable' = internTable /\ root' = root /\ ix' = ix
      /\ defines' = defines /\ moduleRoot' = moduleRoot
  BY DEF InternLookup
<1>2. HeapOK(objects) /\ HandlesOK /\ IsAssoc(objects, internTable, T)
  BY DEF InvWith, InternOK
<1>3. /\ Preserves(objects, objects', DOMAIN objects)
      /\ \A w \in HeldWords : IsHeapAllocated(w) => w.upper \in DOMAIN objects
      /\ \A o \in DOMAIN objects : objects'[o] = objects[o]
  BY <1>1, <1>2, Unmoved
<1>4. pc' \in {"symbol", "addName", "entry"}
  BY DEF InternLookup, Interned
<1>5. /\ ArrayOK' /\ InternOK(T)' /\ NamesOK(T, A)' /\ SameView(A)
      /\ assoc' = assoc /\ Elems' = Elems /\ Items' = Items
  BY <1>1, <1>3, <1>4, TablesCarried DEF Appended
<1> DEFINE entry == SymbolEntry(internTable, local.tmp)
<1>6. \A u \in HeldWords : u \in Word /\ Leads(objects', u)
  BY <1>1, <1>2 DEF HandlesOK
<1>7. At(local.tmp).spelling = Head(names)
  BY <1>1 DEF InvWith, CallOK
<1>8. CASE entry # Null
  <2>1. PICK i \in DOMAIN T : /\ entry = objects[T[i]].car
                              /\ SpellAt(objects, T, i) = At(local.tmp).spelling
    BY <1>2, <1>8, SymbolEntryFinds
  <2>2. Interned(Car(entry))
    BY <1>8 DEF InternLookup
  <2>3. Car(entry) = KeyAt(objects, T, i)
    BY <2>1 DEF Car, At, KeyAt, EntryAt
  <2> DEFINE w == Car(entry)
  <2>4. w \in Keys(objects, T) /\ objects[w.upper].spelling = Head(names)
    BY <2>1, <2>3, <1>7 DEF Keys, SpellAt
  <2> HIDE DEF w, entry
  <2>5. w \in Word /\ Leads(objects, w)
    BY <1>2, <2>4, KeysAreSymbols
  <2>6. Interned(w)
    BY <2>2 DEF w
  <2>7. internTable \in HeldWords
    BY DEF HeldWords
  <2>8. HandlesOK' /\ ControlOK' /\ CallOK(T, A)' /\ TrimOK'
    BY <2>4, <2>5, <2>6, <2>7, <1>1, <1>6, InternedKeeps
  <2> QED BY <2>8, <1>1, <1>2, <1>5 DEF InvWith
<1>9. CASE entry = Null
  <2>1. pc' = "entry" /\ local' = local /\ names' = names
    BY <1>9 DEF InternLookup
  <2>2. \A i \in DOMAIN T : SpellAt(objects, T, i) # Head(names)
    BY <1>2, <1>7, <1>9, SymbolEntryFinds
  <2>3. HandlesOK'
    BY <1>1, <1>2, <2>1 DEF HandlesOK, HeldWords
  <2>4. ControlOK' /\ TrimOK'
    BY <1>1, <2>1 DEF InvWith, ControlOK, TrimOK, Labels
  <2>5. CallOK(T, A)'
    BY <1>1, <2>1, <2>2 DEF InvWith, CallOK, Interning, Adding, Appended, At
  <2> QED BY <1>1, <1>2, <1>5, <2>3, <2>4, <2>5 DEF InvWith
<1> QED BY <1>8, <1>9

\* What a Handle holds after a step that gives only v another word.
LEMMA HandleSet ==
  ASSUME local \in [Variables -> Word], NEW v \in Variables, NEW w0 \in Word,
         local' = [local EXCEPT ![v] = w0]
  PROVE  /\ local' \in [Variables -> Word]
         /\ local'[v] = w0
         /\ \A x \in Variables \ {v} : local'[x] = local[x]
OBVIOUS

\* assocInsert makes the entry; assocInsert and its caller have Handles of all.
LEMMA InternEntryKeeps ==
  ASSUME NEW T, NEW A, InvWith(T, A), InternEntry
  PROVE  InvWith(T, A)' /\ SameView(A)
<1> DEFINE obj == Pair(local.tmp, Nil)
<1>1. PICK kept \in Kept : /\ objects' = With(kept, obj)
                           /\ local' = [local EXCEPT !.newEntry = NewWord(kept, obj)]
  BY DEF InternEntry, NewEntry
<1>2. /\ pc = "entry" /\ pc' = "cons"
      /\ internTable' = internTable /\ root' = root /\ names' = names /\ ix' = ix
      /\ defines' = defines /\ moduleRoot' = moduleRoot
  BY DEF InternEntry
<1>3. local.tmp \in HeldWords /\ local.tmp.tag = "symbol"
  BY <1>2 DEF HeldWords, Variables, InvWith, CallOK
<1>4. Fits(kept, obj)
  <2>1. /\ local.tmp \in Word
        /\ IsHeapAllocated(local.tmp) =>
             local.tmp.upper \in kept /\ objects[local.tmp.upper].tag = local.tmp.tag
    BY <1>3, HeldFits DEF InvWith
  <2>2. Nil \in Word /\ ~IsHeapAllocated(Nil)
    BY DEF Nil, Word, Tags, ImmediateTags, IsHeapAllocated, HeapTags
  <2>3. Pointees(obj) = {local.tmp, Nil}
    BY DEF Pointees, Pair
  <2>4. obj \in Objects
    BY <2>1, <2>2 DEF Objects, Pair
  <2> HIDE DEF obj
  <2> QED BY <2>1, <2>2, <2>3, <2>4 DEF Fits
<1>5. obj.tag = "pair"
  BY DEF Pair
<1> HIDE DEF obj
<1>6. /\ HeapOK(objects')
      /\ Preserves(objects, objects', kept)
      /\ \A o \in kept : objects'[o] = objects[o]
      /\ objects'[NewId(kept)] = obj
      /\ NewWord(kept, obj) = Pointer(obj.tag, NewId(kept))
      /\ NewWord(kept, obj) \in Word
      /\ Leads(objects', NewWord(kept, obj))
      /\ \A w \in HeldWords : w \in Word /\ Leads(objects', w)
      /\ \A w \in HeldWords : IsHeapAllocated(w) =>
           w.upper \in kept /\ objects'[w.upper] = objects[w.upper]
  BY <1>1, <1>4, AllocatedNext
<1> DEFINE w0 == NewWord(kept, obj)
<1>7. w0.tag = "pair" /\ objects'[w0.upper] = obj /\ w0 \in Word
  BY <1>5, <1>6 DEF Pointer
<1> HIDE DEF w0
<1>8. /\ ArrayOK' /\ InternOK(T)' /\ NamesOK(T, A)' /\ SameView(A)
      /\ assoc' = assoc /\ Elems' = Elems /\ Items' = Items
      /\ Keys(objects', T) = Keys(objects, T)
      /\ \A i \in DOMAIN T : SpellAt(objects', T, i) = SpellAt(objects, T, i)
  BY <1>2, <1>6, TablesCarried DEF Appended
<1>9. /\ local' \in [Variables -> Word]
      /\ local'.newEntry = w0
      /\ \A v \in Variables \ {"newEntry"} : local'[v] = local[v]
  <2>1. local \in [Variables -> Word] /\ "newEntry" \in Variables
    BY DEF InvWith, ControlOK, Variables
  <2> QED BY <1>1, <1>7, <2>1, HandleSet DEF w0
<1>10. HandlesOK'
  <2>1. \A w \in HeldWords' : w \in HeldWords \/ w = w0
    BY <1>2, <1>9 DEF HeldWords
  <2>2. Leads(objects', w0)
    BY <1>6 DEF w0
  <2> QED BY <2>1, <2>2, <1>6, <1>7 DEF HandlesOK
<1>11. ControlOK'
  BY <1>2, <1>9 DEF InvWith, ControlOK, Labels
<1>12. objects'[local.tmp.upper] = objects[local.tmp.upper]
  BY <1>3, <1>6 DEF IsHeapAllocated, HeapTags
<1>13. CallOK(T, A)'
  <2>1. local'.tmp = local.tmp /\ local'.name = local.name /\ local'.val = local.val /\ local'.hAssoc = local.hAssoc
    BY <1>9 DEF Variables
  <2> QED BY <1>2, <1>7, <1>8, <1>9, <1>12, <2>1
          DEF InvWith, CallOK, Interning, Adding, Appended, At, obj
<1>14. TrimOK'
  BY <1>2, <1>9 DEF InvWith, TrimOK, Variables
<1> QED BY <1>6, <1>8, <1>10, <1>11, <1>13, <1>14 DEF InvWith
\* assocInsert makes the pair, and internSymbol puts it into the table.
LEMMA InternConsKeeps ==
  ASSUME NEW T, NEW A, InvWith(T, A), InternCons
  PROVE  \E T2 : InvWith(T2, A)' /\ SameView(A)
<1> DEFINE obj == Pair(local.newEntry, internTable)
<1>1. PICK kept \in Kept : objects' = With(kept, obj) /\ internTable' = NewWord(kept, obj)
  BY DEF InternCons
<1>2. /\ pc = "cons" /\ Interned(local.tmp)
      /\ root' = root /\ ix' = ix /\ defines' = defines /\ moduleRoot' = moduleRoot
  BY DEF InternCons
<1>3. /\ internTable \in HeldWords /\ root \in HeldWords
      /\ local.newEntry \in HeldWords /\ local.tmp \in HeldWords
  BY DEF HeldWords, Variables
<1>4. /\ local.newEntry.tag = "pair" /\ local.tmp.tag = "symbol"
      /\ objects[local.newEntry.upper] = Pair(local.tmp, Nil)
      /\ objects[local.tmp.upper].spelling = Head(names)
      /\ \A i \in DOMAIN T : SpellAt(objects, T, i) # Head(names)
  BY <1>2 DEF InvWith, CallOK, At
<1>5. Fits(kept, obj)
  <2>1. /\ local.newEntry \in Word /\ internTable \in Word
        /\ \A w \in {local.newEntry, internTable} :
             IsHeapAllocated(w) => w.upper \in kept /\ objects[w.upper].tag = w.tag
    BY <1>3, HeldFits DEF InvWith
  <2>2. Pointees(obj) = {local.newEntry, internTable}
    BY DEF Pointees, Pair
  <2>3. obj \in Objects
    BY <2>1 DEF Objects, Pair
  <2> HIDE DEF obj
  <2> QED BY <2>1, <2>2, <2>3 DEF Fits
<1>6. obj.tag = "pair" /\ obj = Pair(local.newEntry, internTable)
  BY DEF Pair
<1> HIDE DEF obj
<1>7. /\ HeapOK(objects')
      /\ Preserves(objects, objects', kept)
      /\ DOMAIN objects' = kept \cup {NewId(kept)}
      /\ \A o \in kept : objects'[o] = objects[o]
      /\ NewId(kept) \notin kept
      /\ objects'[NewId(kept)] = obj
      /\ NewWord(kept, obj) = Pointer(obj.tag, NewId(kept))
      /\ NewWord(kept, obj) \in Word
      /\ Leads(objects', NewWord(kept, obj))
      /\ \A w \in HeldWords : w \in Word /\ Leads(objects', w)
      /\ \A w \in HeldWords : IsHeapAllocated(w) =>
           w.upper \in kept /\ objects'[w.upper] = objects[w.upper]
  BY <1>1, <1>5, AllocatedNext
<1> DEFINE n == NewId(kept)
           T2 == <<n>> \o T
<1> HIDE DEF n, T2
<1>8. /\ IsAssoc(objects', internTable, T)
      /\ \A i \in DOMAIN T :
           /\ T[i] \in kept
           /\ KeyAt(objects', T, i) = KeyAt(objects, T, i)
           /\ SpellAt(objects', T, i) = SpellAt(objects, T, i)
      /\ Keys(objects', T) = Keys(objects, T)
      /\ \A k \in Keys(objects, T) : objects'[k.upper] = objects[k.upper]
      /\ IsAssoc(objects', assoc, A)
      /\ \A i \in DOMAIN A :
           /\ A[i] \in kept
           /\ KeyAt(objects', A, i) = KeyAt(objects, A, i)
           /\ ValAt(objects', A, i) = ValAt(objects, A, i)
           /\ SpellAt(objects', A, i) = SpellAt(objects, A, i)
      /\ Keys(objects', A) = Keys(objects, A)
  BY <1>7, TablesKept
<1>9. /\ objects'[local.newEntry.upper] = Pair(local.tmp, Nil)
      /\ objects'[local.tmp.upper].spelling = Head(names)
  BY <1>3, <1>4, <1>7 DEF IsHeapAllocated, HeapTags
<1>10. IsEntry(objects', local.newEntry)
  BY <1>4, <1>9 DEF IsEntry, Pair
<1>11. /\ n \in DOMAIN objects' /\ \A i \in DOMAIN T : T[i] # n
       /\ objects'[n] = Pair(local.newEntry, internTable)
       /\ internTable' = Pointer("pair", n)
  BY <1>1, <1>6, <1>7, <1>8 DEF n
<1>12. /\ IsAssoc(objects', internTable', T2)
       /\ DOMAIN T2 = 1..(Len(T) + 1)
       /\ Len(T) \in Nat /\ DOMAIN T = 1..Len(T)
       /\ KeyAt(objects', T2, 1) = objects'[local.newEntry.upper].car
       /\ \A i \in 2..(Len(T) + 1) :
            /\ i - 1 \in DOMAIN T
            /\ KeyAt(objects', T2, i) = KeyAt(objects', T, i - 1)
            /\ SpellAt(objects', T2, i) = SpellAt(objects', T, i - 1)
  BY <1>8, <1>10, <1>11, AssocCons DEF T2
<1>13. KeyAt(objects', T2, 1) = local.tmp /\ SpellAt(objects', T2, 1) = Head(names)
  BY <1>9, <1>12 DEF Pair, SpellAt
<1>14. \A i \in DOMAIN T2 : i = 1 \/ i \in 2..(Len(T) + 1)
  BY <1>12
<1>15. local.tmp \in Keys(objects', T2)
  BY <1>12, <1>13 DEF Keys
<1>16. Keys(objects, T) \subseteq Keys(objects', T2)
  <2> SUFFICES ASSUME NEW i \in DOMAIN T PROVE KeyAt(objects', T, i) \in Keys(objects', T2)
    BY <1>8 DEF Keys
  <2>1. i + 1 \in 2..(Len(T) + 1) /\ (i + 1) - 1 = i /\ i + 1 \in DOMAIN T2
    BY <1>12
  <2>2. KeyAt(objects', T2, i + 1) = KeyAt(objects', T, i)
    BY <2>1, <1>12
  <2> QED BY <2>1, <2>2 DEF Keys
<1>17. \A i, j \in DOMAIN T2 : SpellAt(objects', T2, i) = SpellAt(objects', T2, j) => i = j
  <2>1. \A i \in 2..(Len(T) + 1) : SpellAt(objects', T2, i) # Head(names)
    BY <1>4, <1>8, <1>12
  <2> SUFFICES ASSUME NEW i \in DOMAIN T2, NEW j \in DOMAIN T2,
                      SpellAt(objects', T2, i) = SpellAt(objects', T2, j)
               PROVE  i = j
    OBVIOUS
  <2>2. CASE i = 1 \/ j = 1
    BY <2>1, <2>2, <1>13, <1>14
  <2>3. CASE i # 1 /\ j # 1
    <3>1. /\ i - 1 \in DOMAIN T /\ j - 1 \in DOMAIN T
          /\ SpellAt(objects, T, i - 1) = SpellAt(objects, T, j - 1)
      BY <2>3, <1>8, <1>12, <1>14
    <3>2. i - 1 = j - 1
      BY <3>1 DEF InvWith, InternOK
    <3> QED BY <3>2, <1>12
  <2> QED BY <2>2, <2>3
<1>18. InternOK(T2)'
  BY <1>12, <1>17 DEF InternOK
<1>19. /\ ArrayOK' /\ assoc' = assoc /\ Elems' = Elems
       /\ arrayLength' = arrayLength /\ Items' = Items
  <2>1. root.upper \in kept
    BY <1>3, <1>7 DEF InvWith, ArrayOK, IsHeapAllocated, HeapTags
  <2> QED BY <2>1, <1>2, <1>7, LayoutKept DEF InvWith
<1>20. NamesOK(T2, A)'
  <2>1. pc' \in {"symbol", "addName"}
    BY <1>2 DEF Interned
  <2> QED BY <2>1, <1>2, <1>8, <1>16, <1>19 DEF InvWith, NamesOK, Appended
<1>21. HandlesOK' /\ ControlOK' /\ CallOK(T2, A)' /\ TrimOK'
  <2>1. local.tmp \in Word /\ Leads(objects', local.tmp)
    BY <1>3, <1>7
  <2>2. internTable' \in Word /\ Leads(objects', internTable')
    BY <1>1, <1>7
  <2> QED BY <2>1, <2>2, <1>2, <1>7, <1>9, <1>15, <1>16, InternedKeeps
<1>22. SameView(A)
  BY <1>8, <1>19, ViewCarried
<1> QED BY <1>22, <1>7, <1>18, <1>19, <1>20, <1>21 DEF InvWith
-----------------------------------------------------------------------------
\* An object that gets other words, which lead somewhere, keeps its kind.
LEMMA Rewritten ==
  ASSUME NEW objs, HeapOK(objs), NEW o \in DOMAIN objs, NEW obj \in Objects,
         obj.tag = objs[o].tag, \A w \in Pointees(obj) : Leads(objs, w)
  PROVE  /\ HeapOK([objs EXCEPT ![o] = obj])
         /\ \A w : Leads(objs, w) => Leads([objs EXCEPT ![o] = obj], w)
         /\ DOMAIN [objs EXCEPT ![o] = obj] = DOMAIN objs
         /\ [objs EXCEPT ![o] = obj][o] = obj
         /\ \A p \in DOMAIN objs \ {o} : [objs EXCEPT ![o] = obj][p] = objs[p]
<1> DEFINE objs2 == [objs EXCEPT ![o] = obj]
<1>1. /\ DOMAIN objs2 = DOMAIN objs
      /\ objs2 = [p \in DOMAIN objs |-> objs2[p]]
      /\ objs2[o] = obj
      /\ \A p \in DOMAIN objs \ {o} : objs2[p] = objs[p]
  BY DEF HeapOK
<1> HIDE DEF objs2
<1>2. \A w : Leads(objs, w) => Leads(objs2, w)
  BY <1>1 DEF Leads
<1>3. \A p \in DOMAIN objs2 : objs2[p] \in Objects
  BY <1>1 DEF HeapOK
<1>4. \A p \in DOMAIN objs2 : \A w \in Pointees(objs2[p]) : Leads(objs, w)
  BY <1>1 DEF HeapOK
<1>5. HeapOK(objs2)
  BY <1>1, <1>2, <1>3, <1>4 DEF HeapOK
<1> QED BY <1>1, <1>2, <1>5 DEF objs2

\* addName returns, and its Handles go.
LEMMA ReturnKeeps ==
  ASSUME NEW T, NEW A, InvWith(T, A), NEW T2, NEW A2, Return, ~Interning,
         names' = names, defines' = defines,
         root' = root, internTable' = internTable,
         \A w \in HeldWords : w \in Word /\ Leads(objects', w),
         moduleRoot' \in Word, Leads(objects', moduleRoot')
  PROVE  /\ HandlesOK' /\ ControlOK' /\ CallOK(T2, A2)'
         /\ moduleRoot' = Null => TrimOK'
<1>1. pc' = "idle" /\ local' \in [Variables -> Word] /\ \A v \in Variables : local'[v] = Null
  BY NoWord DEF Return
<1>2. HandlesOK'
  <2>1. \A w \in HeldWords' : w \in HeldWords \/ w = Null \/ w = moduleRoot'
    BY <1>1 DEF HeldWords
  <2> QED BY <2>1, NoWord DEF HandlesOK
<1>3. names' = <<>>
  BY DEF InvWith, CallOK
<1>4. ControlOK'
  BY <1>1 DEF InvWith, ControlOK, Labels
<1>5. \A v \in {"name", "val", "tmp", "newEntry", "hAssoc", "trimmedVec"} : local'[v] = Null
  BY <1>1 DEF Variables
<1>6. CallOK(T2, A2)'
  BY <1>1, <1>3, <1>5 DEF CallOK, Interning, Adding, Appended
<1>7. moduleRoot' = Null => TrimOK'
  BY <1>1, <1>5 DEF TrimOK
<1> QED BY <1>2, <1>4, <1>6, <1>7

\* The array's vector gets a symbol at an index that it has.
LEMMA ElementSet ==
  ASSUME HeapOK(objects), HandlesOK, ArrayOK, NEW k \in 1..Len(Elems),
         NEW v, v \in Word, Leads(objects, v)
  PROVE  LET c == Car(array).upper
             new == Vector([Elems EXCEPT ![k] = v])
         IN  /\ [objects EXCEPT ![c].elems[k] = v] = [objects EXCEPT ![c] = new]
             /\ new \in Objects
             /\ [Elems EXCEPT ![k] = v] \in Seq(Word)
             /\ Len([Elems EXCEPT ![k] = v]) = Len(Elems)
             /\ HeapOK([objects EXCEPT ![c] = new])
             /\ \A w : Leads(objects, w) => Leads([objects EXCEPT ![c] = new], w)
             /\ DOMAIN [objects EXCEPT ![c] = new] = DOMAIN objects
             /\ [objects EXCEPT ![c] = new][c] = new
             /\ \A p \in DOMAIN objects \ {c} : [objects EXCEPT ![c] = new][p] = objects[p]
<1> DEFINE c == Car(array).upper
           E2 == [Elems EXCEPT ![k] = v]
           new == Vector(E2)
<1>1. /\ c \in DOMAIN objects /\ objects[c] = Vector(Elems)
      /\ Elems \in Seq(Word) /\ \A i \in DOMAIN Elems : Leads(objects, Elems[i])
      /\ DOMAIN Elems = 1..Len(Elems)
  BY Layout DEF At
<1>2. /\ E2 \in Seq(Word) /\ Len(E2) = Len(Elems) /\ DOMAIN E2 = DOMAIN Elems
      /\ \A i \in DOMAIN E2 : E2[i] = IF i = k THEN v ELSE Elems[i]
  <2> HIDE DEF c
  <2> QED BY <1>1
<1>3. [objects EXCEPT ![c].elems[k] = v] = [objects EXCEPT ![c] = new]
  <2>1. [objects[c] EXCEPT !.elems[k] = v] = new
    BY SMTT(30), <1>1 DEF Vector
  <2> HIDE DEF c, new
  <2> QED BY <2>1
<1> HIDE DEF E2, c
<1>4. new \in Objects /\ new.tag = objects[c].tag
  BY <1>1, <1>2 DEF Objects, Vector
<1>5. \A w \in Pointees(new) : Leads(objects, w)
  BY <1>1, <1>2 DEF Pointees, Vector
<1> HIDE DEF new
<1>6. /\ HeapOK([objects EXCEPT ![c] = new])
      /\ \A w : Leads(objects, w) => Leads([objects EXCEPT ![c] = new], w)
      /\ DOMAIN [objects EXCEPT ![c] = new] = DOMAIN objects
      /\ [objects EXCEPT ![c] = new][c] = new
      /\ \A p \in DOMAIN objects \ {c} : [objects EXCEPT ![c] = new][p] = objects[p]
  BY <1>1, <1>4, <1>5, Rewritten
<1> QED BY <1>2, <1>3, <1>4, <1>6 DEF E2, new, c

\* A name that has an index has another value there.
Redefined(A) ==
  /\ \A i \in DOMAIN A : SpellAt(objects', A, i) = SpellAt(objects, A, i)
  /\ \E i \in DOMAIN A :
       /\ SpellAt(objects, A, i) = At(local.name).spelling
       /\ \A j \in 1..Len(A) :
            objects'[Elems'[j].upper].spelling =
              IF j = Len(A) - i + 1 THEN At(local.val).spelling
              ELSE objects[Elems[j].upper].spelling

\* addName finds the name and rewrites its value, or is to append one.
LEMMA AddNameKeeps ==
  ASSUME NEW T, NEW A, InvWith(T, A), AddName
  PROVE  InvWith(T, A)' /\ (SameView(A) \/ Redefined(A))
<1>1. /\ pc = "addName" /\ names' = names
      /\ internTable' = internTable /\ root' = root
      /\ defines' = defines /\ moduleRoot' = moduleRoot
  BY DEF AddName
<1>2. /\ HeapOK(objects) /\ HandlesOK /\ ArrayOK
      /\ IsAssoc(objects, assoc, A)
      /\ ~Interning /\ Adding /\ ~Appended /\ pc # "append"
      /\ arrayLength = Len(A) /\ moduleRoot = Null
  BY <1>1 DEF InvWith, NamesOK, TrimOK, Interning, Adding, Appended
<1>3. /\ local.val \in HeldWords /\ local.val \in Keys(objects, T)
      /\ local.name \in Keys(objects, T)
  BY <1>1, <1>2 DEF InvWith, CallOK, HeldWords, Variables
<1> DEFINE entry == PtrEntry(assoc, local.name)
<1>4. CASE entry # Null
  <2>1. PICK i \in DOMAIN A : /\ entry = objects[A[i]].car
                              /\ KeyAt(objects, A, i) = local.name
    BY <1>2, <1>4, PtrEntryFinds
  <2> DEFINE k == Cdr(entry).upper + 1
             c == Car(array).upper
             E2 == [Elems EXCEPT ![k] = local.val]
  <2>2. objects' = [objects EXCEPT ![c].elems[k] = local.val] /\ Return /\ ix' = ix
    BY <1>4 DEF AddName
  <2>3. k = Len(A) - i + 1
    <3>1. Cdr(entry) = ValAt(objects, A, i)
      BY <2>1 DEF Cdr, At, ValAt, EntryAt
    <3>2. ValAt(objects, A, i) = Fixnum(Len(A) - i)
      BY DEF InvWith, NamesOK
    <3> QED BY <3>1, <3>2 DEF Fixnum
  <2>4. k \in 1..Len(Elems)
    <3>1. Len(A) \in Nat /\ i \in 1..Len(A) /\ Len(A) <= Len(Elems) /\ Len(Elems) \in Nat
      BY <1>2, AssocIsShort, Layout
    <3> HIDE DEF k
    <3> QED BY <3>1, <2>3
  <2>5. local.val \in Word /\ Leads(objects, local.val)
    BY <1>2, <1>3 DEF HandlesOK
  <2> HIDE DEF k
  <2>6. /\ objects' = [objects EXCEPT ![c] = Vector(E2)]
        /\ E2 \in Seq(Word) /\ Len(E2) = Len(Elems)
        /\ HeapOK(objects')
        /\ \A w : Leads(objects, w) => Leads(objects', w)
        /\ DOMAIN objects' = DOMAIN objects
        /\ objects'[c] = Vector(E2)
        /\ \A p \in DOMAIN objects \ {c} : objects'[p] = objects[p]
    BY ZenonT(60), <1>2, <2>2, <2>4, <2>5, ElementSet
  <2>7. /\ root.upper \in DOMAIN objects \ {c} /\ array.upper \in DOMAIN objects \ {c}
        /\ ~Plain(objects[c]) /\ Elems \in Seq(Word)
    BY <1>2, Layout DEF At
  <2>8. /\ assoc' = assoc /\ array' = array
        /\ Car(array)' = Car(array) /\ Cdr(array)' = Cdr(array)
        /\ At(root)' = At(root)
    BY <2>6, <2>7, <1>1 DEF assoc, array, At, Car, Cdr
  <2> HIDE DEF E2
  <2>9. Elems' = E2 /\ arrayLength' = arrayLength
    <3>1. At(Car(array))' = Vector(E2)
      BY <2>6, <2>8 DEF At
    <3> QED BY <3>1, <2>8 DEF Elems, arrayLength, Vector
  <2>10. ArrayOK'
    BY <1>2, <1>1, <2>6, <2>8, <2>9 DEF ArrayOK
  <2>11. /\ Preserves(objects, objects', DOMAIN objects)
         /\ \A w \in HeldWords : IsHeapAllocated(w) => w.upper \in DOMAIN objects
    BY <1>2, <2>6, <2>7 DEF Preserves, HeapOK, HandlesOK, Leads
  <2>12. /\ IsAssoc(objects', internTable, T)
         /\ \A j \in DOMAIN T : /\ KeyAt(objects', T, j) = KeyAt(objects, T, j)
                                /\ SpellAt(objects', T, j) = SpellAt(objects, T, j)
         /\ Keys(objects', T) = Keys(objects, T)
         /\ \A x \in Keys(objects, T) : objects'[x.upper] = objects[x.upper]
         /\ IsAssoc(objects', assoc, A)
         /\ \A j \in DOMAIN A : /\ KeyAt(objects', A, j) = KeyAt(objects, A, j)
                                /\ ValAt(objects', A, j) = ValAt(objects, A, j)
                                /\ SpellAt(objects', A, j) = SpellAt(objects, A, j)
    BY <2>11, TablesKept
  <2>13. InternOK(T)'
    BY <1>1, <2>12 DEF InvWith, InternOK
  <2>14. \A j \in 1..arrayLength : E2[j] \in Keys(objects, T)
    <3>1. \A j \in 1..arrayLength : Elems[j] \in Keys(objects, T) /\ j \in DOMAIN Elems
      BY <1>2, <2>7 DEF InvWith, NamesOK, ArrayOK
    <3> QED BY <3>1, <1>3 DEF E2
  <2>15. NamesOK(T, A)'
    <3>1. pc' = "idle"
      BY <2>2 DEF Return
    <3> QED BY <1>2, <2>2, <2>8, <2>9, <2>12, <2>14, <3>1 DEF InvWith, NamesOK, Appended
  <2>16. \A w \in HeldWords : w \in Word /\ Leads(objects', w)
    BY <1>2, <2>6 DEF HandlesOK
  <2>17. HandlesOK' /\ ControlOK' /\ CallOK(T, A)' /\ TrimOK'
    BY <1>1, <1>2, <2>2, <2>16, ReturnKeeps, NoWord
  <2>18. \A j \in 1..Len(A) :
           objects'[Elems'[j].upper].spelling =
             IF j = Len(A) - i + 1 THEN At(local.val).spelling
             ELSE objects[Elems[j].upper].spelling
    <3> TAKE j \in 1..Len(A)
    <3>1. j \in DOMAIN Elems /\ Elems[j] \in Keys(objects, T)
      <4>1. arrayLength \in 0..Len(Elems)
        BY <1>2 DEF ArrayOK
      <4> QED BY <4>1, <2>7, ElementsOfNames
    <3>2. E2[j] = IF j = k THEN local.val ELSE Elems[j]
      BY <3>1 DEF E2
    <3>3. objects'[E2[j].upper] = IF j = k THEN At(local.val) ELSE objects[Elems[j].upper]
      BY <3>1, <3>2, <1>3, <2>12 DEF At
    <3> QED BY <3>3, <2>3, <2>9
  <2>19. Redefined(A)
    <3>1. SpellAt(objects, A, i) = At(local.name).spelling
      BY <2>1 DEF SpellAt, At
    <3> QED BY <3>1, <2>12, <2>18 DEF Redefined
  <2> QED BY <2>6, <2>10, <2>13, <2>15, <2>17, <2>19 DEF InvWith
<1>5. CASE entry = Null
  <2>1. /\ objects' = objects /\ pc' = "append" /\ ix' = arrayLength
        /\ local' = [local EXCEPT !.hAssoc = assoc]
    BY <1>5 DEF AddName
  <2>2. local.name \notin Keys(objects, A)
    BY <1>2, <1>5, PtrEntryFinds DEF Keys
  <2>3. assoc \in Word /\ Leads(objects, assoc) /\ arrayLength \in Nat
    BY <1>2, Layout
  <2>4. /\ local' \in [Variables -> Word]
        /\ local'.hAssoc = assoc
        /\ \A v \in Variables \ {"hAssoc"} : local'[v] = local[v]
    <3>1. local \in [Variables -> Word] /\ "hAssoc" \in Variables
      BY DEF InvWith, ControlOK, Variables
    <3> QED BY <2>1, <2>3, <3>1, HandleSet
  <2>5. HandlesOK'
    <3>1. \A w \in HeldWords' : w \in HeldWords \/ w = assoc
      BY <1>1, <2>4 DEF HeldWords
    <3> QED BY SMTT(30), <3>1, <1>2, <2>1, <2>3 DEF HandlesOK
  <2>6. ControlOK'
    BY SMTT(40), <1>1, <2>1, <2>4 DEF InvWith, ControlOK, Labels
  <2>7. /\ assoc' = assoc /\ arrayLength' = arrayLength /\ Elems' = Elems
        /\ ArrayOK' /\ InternOK(T)' /\ HeapOK(objects)'
    BY <1>1, <1>2, <2>1 DEF assoc, array, arrayLength, Elems, At, Car, Cdr, ArrayOK,
       InvWith, InternOK
  <2>8. NamesOK(T, A)'
    BY <1>1, <1>2, <2>1, <2>3, <2>7 DEF InvWith, NamesOK, Appended
  <2>9. CallOK(T, A)'
    <3>1. /\ local'.tmp = local.tmp /\ local'.name = local.name /\ local'.val = local.val
          /\ local'.newEntry = local.newEntry
      BY <2>4 DEF Variables
    <3> QED BY <1>1, <1>2, <2>1, <2>2, <2>4, <2>7, <3>1
            DEF InvWith, CallOK, Interning, Adding, Appended, At
  <2>10. TrimOK'
    BY <1>1, <1>2, <2>1, <2>4 DEF InvWith, TrimOK, Variables
  <2>11. SameView(A)
    BY <2>1, <2>7 DEF SameView
  <2> QED BY <2>5, <2>6, <2>7, <2>8, <2>9, <2>10, <2>11 DEF InvWith
<1> QED BY <1>4, <1>5
\* Where AppendItem writes, and what.
LEMMA AppendItemKeeps ==
  ASSUME NEW T, NEW A, InvWith(T, A), AppendItem
  PROVE  InvWith(T, A)' /\ SameView(A)
<1> DEFINE k == arrayLength + 1
           c == Car(array).upper
           a == array.upper
           E2 == [Elems EXCEPT ![k] = local.val]
           o1 == [objects EXCEPT ![c] = Vector(E2)]
           pair == Pair(Car(array), Fixnum(k))
<1>1. /\ pc = "append" /\ pc' = "nameEntry" /\ names' = names /\ ix' = ix
      /\ internTable' = internTable /\ root' = root /\ local' = local
      /\ defines' = defines /\ moduleRoot' = moduleRoot
      /\ arrayLength < Len(Elems)
      /\ objects' = [objects EXCEPT ![c].elems[k] = local.val, ![a].cdr = Fixnum(k)]
  BY DEF AppendItem
<1>2. /\ HeapOK(objects) /\ HandlesOK /\ ArrayOK
      /\ arrayLength = Len(A) /\ moduleRoot = Null
  BY <1>1 DEF InvWith, NamesOK, TrimOK, Appended
<1>3. /\ c \in DOMAIN objects /\ a \in DOMAIN objects /\ root.upper \in DOMAIN objects
      /\ a # c /\ root.upper # c /\ root.upper # a
      /\ objects[a] = Pair(Car(array), Cdr(array))
      /\ Car(array) \in Word /\ Leads(objects, Car(array)) /\ Car(array).tag = "vector"
      /\ ~Plain(objects[c]) /\ ~Plain(objects[a])
      /\ Elems \in Seq(Word) /\ Len(Elems) \in Nat /\ arrayLength \in Nat
  <2>1. Leads(objects, Car(array))
    BY <1>2, Layout, PairFields DEF At, Car, Pair
  <2> QED BY <2>1, <1>2, Layout DEF At, ArrayOK
<1>4. local.val \in HeldWords /\ local.val \in Keys(objects, T)
  BY <1>1 DEF InvWith, CallOK, HeldWords, Variables, Adding
<1>5. local.val \in Word /\ Leads(objects, local.val)
  BY <1>2, <1>4 DEF HandlesOK
<1>6. k \in 1..Len(Elems)
  BY <1>1, <1>3
<1> HIDE DEF k
<1>7. /\ [objects EXCEPT ![c].elems[k] = local.val] = o1
      /\ E2 \in Seq(Word) /\ Len(E2) = Len(Elems)
      /\ HeapOK(o1)
      /\ \A w : Leads(objects, w) => Leads(o1, w)
      /\ DOMAIN o1 = DOMAIN objects
      /\ o1[c] = Vector(E2)
      /\ \A p \in DOMAIN objects \ {c} : o1[p] = objects[p]
  BY <1>2, <1>5, <1>6, ElementSet
<1>8. pair \in Objects /\ pair.tag = "pair" /\ Pointees(pair) = {Car(array), Fixnum(k)}
  <2>1. Fixnum(k) \in Word
    BY <1>6 DEF Fixnum, Word, Tags, ImmediateTags
  <2> QED BY <2>1, <1>3 DEF Objects, Pair, Pointees
<1>9. [objects EXCEPT ![c].elems[k] = local.val, ![a].cdr = Fixnum(k)]
        = [[objects EXCEPT ![c].elems[k] = local.val] EXCEPT ![a].cdr = Fixnum(k)]
  OBVIOUS
<1> HIDE DEF o1
<1>10. o1[a] = Pair(Car(array), Cdr(array))
  BY <1>3, <1>7
<1>11. objects' = [o1 EXCEPT ![a].cdr = Fixnum(k)]
  BY <1>1, <1>7, <1>9
<1>12. [o1[a] EXCEPT !.cdr = Fixnum(k)] = pair
  BY <1>10 DEF Pair
<1> HIDE DEF pair
<1>13. objects' = [o1 EXCEPT ![a] = pair]
  BY <1>11, <1>12
<1>14. \A w \in Pointees(pair) : Leads(o1, w)
  BY <1>3, <1>7, <1>8 DEF Fixnum, Leads, IsHeapAllocated, HeapTags
<1>15. pair.tag = o1[a].tag
  BY <1>8, <1>10 DEF Pair
<1>16. /\ HeapOK(objects')
       /\ \A w : Leads(o1, w) => Leads(objects', w)
       /\ DOMAIN objects' = DOMAIN o1
       /\ objects'[a] = pair
       /\ \A p \in DOMAIN o1 \ {a} : objects'[p] = o1[p]
  <2>1. a \in DOMAIN o1
    BY <1>3, <1>7
  <2>2. /\ HeapOK([o1 EXCEPT ![a] = pair])
        /\ \A w : Leads(o1, w) => Leads([o1 EXCEPT ![a] = pair], w)
        /\ DOMAIN [o1 EXCEPT ![a] = pair] = DOMAIN o1
        /\ [o1 EXCEPT ![a] = pair][a] = pair
        /\ \A p \in DOMAIN o1 \ {a} : [o1 EXCEPT ![a] = pair][p] = o1[p]
    BY ZenonT(60), <2>1, <1>7, <1>8, <1>14, <1>15, Rewritten
  <2> QED BY <2>2, <1>13
<1>17. /\ DOMAIN objects' = DOMAIN objects
       /\ \A w : Leads(objects, w) => Leads(objects', w)
       /\ objects'[c] = Vector(E2) /\ objects'[a] = pair
       /\ \A p \in DOMAIN objects \ {a, c} : objects'[p] = objects[p]
  BY <1>3, <1>7, <1>16
<1> HIDE DEF E2
<1>18. assoc' = assoc /\ array' = array /\ At(root)' = At(root)
  BY <1>1, <1>3, <1>17 DEF assoc, array, At
<1>19. Car(array)' = Car(array) /\ Cdr(array)' = Fixnum(k)
  BY <1>17, <1>18 DEF Car, Cdr, At, pair, Pair
<1>20. Elems' = E2 /\ arrayLength' = k
  BY <1>17, <1>19 DEF Elems, arrayLength, At, Vector, Fixnum
<1>21. ArrayOK'
  BY <1>1, <1>2, <1>6, <1>7, <1>18, <1>19, <1>20 DEF ArrayOK
<1>22. /\ Preserves(objects, objects', DOMAIN objects)
       /\ \A w \in HeldWords : IsHeapAllocated(w) => w.upper \in DOMAIN objects
  BY <1>2, <1>3, <1>17 DEF Preserves, HeapOK, HandlesOK, Leads
<1>23. /\ IsAssoc(objects', internTable, T)
       /\ \A j \in DOMAIN T : /\ KeyAt(objects', T, j) = KeyAt(objects, T, j)
                              /\ SpellAt(objects', T, j) = SpellAt(objects, T, j)
       /\ Keys(objects', T) = Keys(objects, T)
       /\ \A x \in Keys(objects, T) : objects'[x.upper] = objects[x.upper]
       /\ IsAssoc(objects', assoc, A)
       /\ \A j \in DOMAIN A : /\ KeyAt(objects', A, j) = KeyAt(objects, A, j)
                              /\ ValAt(objects', A, j) = ValAt(objects, A, j)
                              /\ SpellAt(objects', A, j) = SpellAt(objects, A, j)
       /\ Keys(objects', A) = Keys(objects, A)
  BY <1>22, TablesKept
<1>24. InternOK(T)'
  BY <1>1, <1>23 DEF InvWith, InternOK
<1>25. \A j \in 1..k : E2[j] \in Keys(objects, T)
  <2>1. \A j \in 1..arrayLength : Elems[j] \in Keys(objects, T)
    BY DEF InvWith, NamesOK
  <2>2. \A j \in 1..k : j \in DOMAIN Elems /\ (j = k \/ j \in 1..arrayLength)
    BY <1>3, <1>6 DEF k
  <2> QED BY <2>1, <2>2, <1>4 DEF E2
<1>26. ix = Len(A)
  BY <1>1 DEF InvWith, CallOK
<1>27. NamesOK(T, A)'
  <2>1. ix' \in 0..arrayLength' /\ k = Len(A) + 1
    BY <1>1, <1>2, <1>3, <1>20, <1>26 DEF k
  <2> QED BY <1>1, <1>2, <1>18, <1>20, <1>23, <1>25, <2>1 DEF InvWith, NamesOK, Appended
<1>28. E2[Len(A) + 1] = local.val
  BY SMTT(30), <1>2, <1>3, <1>6 DEF k, E2
<1>29. CallOK(T, A)'
  BY <1>1, <1>4, <1>18, <1>20, <1>23, <1>26, <1>28
     DEF InvWith, CallOK, Interning, Adding, Appended, At
<1>30. HandlesOK' /\ ControlOK' /\ TrimOK'
  <2>1. HandlesOK'
    BY ZenonT(60), <1>1, <1>2, <1>17 DEF HandlesOK, HeldWords
  <2> QED BY <1>1, <1>2, <2>1 DEF InvWith, ControlOK, TrimOK, Labels
<1>31. SameView(A)
  <2>1. \A j \in 1..Len(A) : j \in DOMAIN Elems /\ j # k
    <3>1. DOMAIN Elems = 1..Len(Elems)
      BY <1>3
    <3>2. k = Len(A) + 1 /\ Len(A) \in Nat /\ Len(A) <= Len(Elems)
      BY <1>1, <1>2, <1>3 DEF k
    <3>3. \A j \in 1..Len(A) : j \in 1..Len(Elems) /\ j # Len(A) + 1
      BY <3>2, <1>3
    <3> QED BY <3>1, <3>2, <3>3
  <2>2. \A j \in 1..Len(A) : E2[j] = Elems[j]
    BY <2>1 DEF E2
  <2> QED BY <2>2, <1>20, <1>23, ViewCarried
<1> QED BY <1>16, <1>21, <1>24, <1>27, <1>29, <1>30, <1>31 DEF InvWith

-----------------------------------------------------------------------------
\* What the array is made of is kept by every allocation.
LEMMA LayoutClosed ==
  ASSUME HeapOK(objects), HandlesOK, ArrayOK, NEW kept \in Kept
  PROVE  /\ root.upper \in kept /\ array.upper \in kept /\ Car(array).upper \in kept
         /\ \A w \in {assoc, array, Car(array)} \cup {Elems[i] : i \in DOMAIN Elems} :
              IsHeapAllocated(w) => w.upper \in kept /\ objects[w.upper].tag = w.tag
<1>1. /\ \A w \in HeldWords : IsHeapAllocated(w) => w.upper \in kept
      /\ \A o \in kept : \A w \in Pointees(objects[o]) :
           IsHeapAllocated(w) => w.upper \in kept
      /\ kept \subseteq DOMAIN objects
  BY KeptIsClosed
<1>2. /\ root.tag = "vector" /\ array.tag = "pair" /\ Car(array).tag = "vector"
      /\ array \in Pointees(objects[root.upper]) /\ assoc \in Pointees(objects[root.upper])
      /\ objects[array.upper] = Pair(Car(array), Cdr(array))
      /\ objects[Car(array).upper] = Vector(Elems)
  BY Layout DEF At, ArrayOK
<1>3. root.upper \in kept
  BY <1>1, <1>2 DEF HeldWords, IsHeapAllocated, HeapTags
<1>4. array.upper \in kept
  BY <1>1, <1>2, <1>3 DEF IsHeapAllocated, HeapTags
<1>5. Car(array) \in Pointees(objects[array.upper])
  BY <1>2 DEF Pointees, Pair
<1>6. Car(array).upper \in kept
  BY <1>1, <1>2, <1>4, <1>5 DEF IsHeapAllocated, HeapTags
<1>7. \A i \in DOMAIN Elems : Elems[i] \in Pointees(objects[Car(array).upper])
  BY <1>2 DEF Pointees, Vector
<1>8. \A w \in {assoc, array, Car(array)} \cup {Elems[i] : i \in DOMAIN Elems} :
        \E o \in kept : w \in Pointees(objects[o])
  BY <1>2, <1>3, <1>4, <1>5, <1>6, <1>7
<1>9. \A o \in kept : \A w \in Pointees(objects[o]) : Leads(objects, w)
  BY <1>1 DEF HeapOK
<1> QED BY <1>1, <1>3, <1>4, <1>6, <1>8, <1>9 DEF Leads

\* arrayAppend moves the elements into a larger vector.
LEMMA GrowArrayKeeps ==
  ASSUME NEW T, NEW A, InvWith(T, A), GrowArray
  PROVE  InvWith(T, A)' /\ SameView(A)
<1> DEFINE obj == Vector(Grown)
           a == array.upper
<1>1. PICK kept \in Kept :
        objects' = [With(kept, obj) EXCEPT ![a].car = NewWord(kept, obj)]
  BY DEF GrowArray
<1>2. /\ pc = "append" /\ pc' = pc /\ names' = names /\ ix' = ix
      /\ internTable' = internTable /\ root' = root /\ local' = local
      /\ defines' = defines /\ moduleRoot' = moduleRoot
  BY DEF GrowArray
<1>3. /\ HeapOK(objects) /\ HandlesOK /\ ArrayOK /\ moduleRoot = Null
  BY <1>2 DEF InvWith, TrimOK
<1>4. /\ a \in DOMAIN objects /\ root.upper \in DOMAIN objects /\ root.upper # a
      /\ objects[a] = Pair(Car(array), Cdr(array))
      /\ ~Plain(objects[a])
      /\ Elems \in Seq(Word) /\ Len(Elems) \in Nat /\ DOMAIN Elems = 1..Len(Elems)
      /\ arrayLength \in Nat /\ arrayLength <= Len(Elems)
      /\ Cdr(array) = Fixnum(arrayLength)
  BY <1>3, Layout DEF At, ArrayOK
<1>5. /\ root.upper \in kept /\ a \in kept
      /\ \A i \in DOMAIN Elems : IsHeapAllocated(Elems[i]) =>
           Elems[i].upper \in kept /\ objects[Elems[i].upper].tag = Elems[i].tag
  BY <1>3, LayoutClosed
<1>6. /\ Grown \in Seq(Word) /\ Len(Grown) = 2 * Len(Elems) + 1
      /\ DOMAIN Grown = 1..(2 * Len(Elems) + 1)
      /\ \A i \in DOMAIN Grown : Grown[i] = IF i <= Len(Elems) THEN Elems[i] ELSE Nil
  <2>1. Nil \in Word
    BY DEF Nil, Word, Tags, ImmediateTags
  <2>2. 2 * Len(Elems) + 1 \in Nat
    BY <1>4
  <2>3. \A i \in 1..(2 * Len(Elems) + 1) : i <= Len(Elems) => Elems[i] \in Word
    BY <1>4
  <2> QED BY <2>1, <2>2, <2>3 DEF Grown
<1>7. Fits(kept, obj)
  <2>1. obj \in Objects
    BY <1>6 DEF Objects, Vector
  <2>2. Pointees(obj) = {Grown[i] : i \in DOMAIN Grown}
    BY DEF Pointees, Vector
  <2>3. ~IsHeapAllocated(Nil)
    BY DEF Nil, IsHeapAllocated, HeapTags
  <2>4. \A i \in DOMAIN Grown : Grown[i] = Nil \/ (i \in DOMAIN Elems /\ Grown[i] = Elems[i])
    BY <1>4, <1>6
  <2> HIDE DEF obj
  <2> QED BY <2>1, <2>2, <2>3, <2>4, <1>5 DEF Fits
<1>8. obj.tag = "vector" /\ obj = Vector(Grown)
  BY DEF Vector
<1> HIDE DEF obj
<1> DEFINE o1 == With(kept, obj)
           w0 == NewWord(kept, obj)
           n == NewId(kept)
           pair == Pair(w0, Cdr(array))
<1>9. /\ HeapOK(o1)
      /\ Preserves(objects, o1, kept)
      /\ kept \subseteq DOMAIN objects
      /\ DOMAIN o1 = kept \cup {n}
      /\ \A o \in kept : o1[o] = objects[o]
      /\ n \notin kept
      /\ o1[n] = obj
      /\ w0 = Pointer(obj.tag, n)
      /\ w0 \in Word
      /\ Leads(o1, w0)
      /\ \A w \in HeldWords : w \in Word /\ Leads(o1, w)
      /\ \A w \in HeldWords : IsHeapAllocated(w) =>
           w.upper \in kept /\ o1[w.upper] = objects[w.upper]
  BY <1>7, Allocated
<1>10. objects' = [o1 EXCEPT ![a].car = w0]
  BY <1>1
<1> HIDE DEF o1, w0, n
<1>11. o1[a] = Pair(Car(array), Cdr(array))
  BY <1>4, <1>5, <1>9
<1>12. [o1[a] EXCEPT !.car = w0] = pair
  BY <1>11 DEF Pair
<1>13. pair \in Objects /\ pair.tag = o1[a].tag /\ Pointees(pair) = {w0, Cdr(array)}
  <2>1. Cdr(array) \in Word
    BY <1>4 DEF Fixnum, Word, Tags, ImmediateTags
  <2> QED BY <2>1, <1>9, <1>11 DEF Objects, Pair, Pointees
<1>14. \A w \in Pointees(pair) : Leads(o1, w)
  BY <1>4, <1>9, <1>13 DEF Leads, IsHeapAllocated, HeapTags, Fixnum
<1> HIDE DEF pair
<1>15. objects' = [o1 EXCEPT ![a] = pair]
  BY <1>10, <1>12
<1>16. /\ HeapOK(objects')
       /\ \A w : Leads(o1, w) => Leads(objects', w)
       /\ DOMAIN objects' = DOMAIN o1
       /\ objects'[a] = pair
       /\ \A p \in DOMAIN o1 \ {a} : objects'[p] = o1[p]
  <2>1. a \in DOMAIN o1
    BY <1>5, <1>9
  <2>2. /\ HeapOK([o1 EXCEPT ![a] = pair])
        /\ \A w : Leads(o1, w) => Leads([o1 EXCEPT ![a] = pair], w)
        /\ DOMAIN [o1 EXCEPT ![a] = pair] = DOMAIN o1
        /\ [o1 EXCEPT ![a] = pair][a] = pair
        /\ \A p \in DOMAIN o1 \ {a} : [o1 EXCEPT ![a] = pair][p] = o1[p]
    BY <2>1, <1>9, <1>13, <1>14, Rewritten
  <2> QED BY <2>2, <1>15
<1>17. /\ Preserves(objects, objects', kept)
       /\ \A w \in HeldWords : IsHeapAllocated(w) => w.upper \in kept
  BY <1>4, <1>9, <1>16 DEF Preserves
<1>18. objects'[root.upper] = objects[root.upper] /\ objects'[n] = obj
  BY <1>4, <1>5, <1>9, <1>16
<1>19. assoc' = assoc /\ array' = array /\ At(root)' = At(root)
  BY <1>2, <1>18 DEF assoc, array, At
<1>20. Car(array)' = w0 /\ Cdr(array)' = Cdr(array) /\ w0.upper = n /\ w0.tag = "vector"
  BY <1>8, <1>9, <1>16, <1>19 DEF Car, Cdr, At, pair, Pair, Pointer
<1>21. Elems' = Grown /\ arrayLength' = arrayLength
  BY <1>8, <1>18, <1>20 DEF Elems, arrayLength, At, Vector
<1>22. ArrayOK'
  <2>1. n # root.upper
    BY <1>5, <1>9
  <2>2. arrayLength' \in 0..Len(Elems)'
    BY <1>4, <1>6, <1>21
  <2> QED BY <2>1, <2>2, <1>2, <1>3, <1>4, <1>19, <1>20, <1>21 DEF ArrayOK
<1>23. /\ IsAssoc(objects', internTable, T)
       /\ \A j \in DOMAIN T : /\ KeyAt(objects', T, j) = KeyAt(objects, T, j)
                              /\ SpellAt(objects', T, j) = SpellAt(objects, T, j)
       /\ Keys(objects', T) = Keys(objects, T)
       /\ \A x \in Keys(objects, T) : objects'[x.upper] = objects[x.upper]
       /\ IsAssoc(objects', assoc, A)
       /\ \A j \in DOMAIN A : /\ KeyAt(objects', A, j) = KeyAt(objects, A, j)
                              /\ ValAt(objects', A, j) = ValAt(objects, A, j)
                              /\ SpellAt(objects', A, j) = SpellAt(objects, A, j)
       /\ Keys(objects', A) = Keys(objects, A)
  BY <1>17, TablesKept
<1>24. InternOK(T)'
  BY <1>2, <1>23 DEF InvWith, InternOK
<1>25. NamesOK(T, A)'
  <2>1. \A j \in 1..arrayLength : Grown[j] = Elems[j]
    BY <1>4, <1>6
  <2> QED BY <2>1, <1>2, <1>19, <1>21, <1>23 DEF InvWith, NamesOK, Appended
<1>26. CallOK(T, A)'
  BY <1>2, <1>19, <1>23 DEF InvWith, CallOK, Interning, Adding, Appended, At
<1>27. HandlesOK' /\ ControlOK' /\ TrimOK'
  <2>1. HandlesOK'
    BY <1>2, <1>9, <1>16 DEF HandlesOK, HeldWords
  <2> QED BY <1>2, <1>3, <2>1 DEF InvWith, ControlOK, TrimOK, Labels
<1>28. SameView(A)
  <2>1. \A j \in 1..Len(A) : j \in 1..arrayLength
    BY ElementsOfNames
  <2>2. \A j \in 1..Len(A) : Grown[j] = Elems[j]
    BY <2>1, <1>4, <1>6
  <2> QED BY <2>2, <1>21, <1>23, ViewCarried
<1> QED BY <1>16, <1>22, <1>24, <1>25, <1>26, <1>27, <1>28 DEF InvWith
\* assocInsert makes the entry of a name that addName did not find.
LEMMA NameEntryKeeps ==
  ASSUME NEW T, NEW A, InvWith(T, A), NameEntry
  PROVE  InvWith(T, A)' /\ SameView(A)
<1> DEFINE obj == Pair(local.name, Fixnum(ix))
<1>1. PICK kept \in Kept : /\ objects' = With(kept, obj)
                           /\ local' = [local EXCEPT !.newEntry = NewWord(kept, obj)]
  BY DEF NameEntry, NewEntry
<1>2. /\ pc = "nameEntry" /\ pc' = "nameCons"
      /\ internTable' = internTable /\ root' = root /\ names' = names /\ ix' = ix
      /\ defines' = defines /\ moduleRoot' = moduleRoot
  BY DEF NameEntry
<1>3. local.name \in HeldWords /\ local.val \in Keys(objects, T)
  BY <1>2 DEF HeldWords, Variables, InvWith, CallOK, Adding
<1>4. Fits(kept, obj)
  <2>1. /\ local.name \in Word
        /\ IsHeapAllocated(local.name) =>
             local.name.upper \in kept /\ objects[local.name.upper].tag = local.name.tag
    BY <1>3, HeldFits DEF InvWith
  <2>2. ix \in Int
    <3>1. HeapOK(objects) /\ HandlesOK /\ ArrayOK /\ ix \in 0..arrayLength
      BY DEF InvWith, NamesOK
    <3>2. arrayLength \in Nat
      BY <3>1, Layout
    <3> QED BY <3>1, <3>2
  <2>3. Fixnum(ix) \in Word /\ ~IsHeapAllocated(Fixnum(ix))
    BY <2>2 DEF Fixnum, Word, Tags, ImmediateTags, IsHeapAllocated, HeapTags
  <2>4. Pointees(obj) = {local.name, Fixnum(ix)}
    BY DEF Pointees, Pair
  <2>5. obj \in Objects
    BY <2>1, <2>3 DEF Objects, Pair
  <2> HIDE DEF obj
  <2> QED BY <2>1, <2>3, <2>4, <2>5 DEF Fits
<1>5. obj.tag = "pair"
  BY DEF Pair
<1> HIDE DEF obj
<1>6. /\ HeapOK(objects')
      /\ Preserves(objects, objects', kept)
      /\ \A o \in kept : objects'[o] = objects[o]
      /\ objects'[NewId(kept)] = obj
      /\ NewWord(kept, obj) = Pointer(obj.tag, NewId(kept))
      /\ NewWord(kept, obj) \in Word
      /\ Leads(objects', NewWord(kept, obj))
      /\ \A w \in HeldWords : w \in Word /\ Leads(objects', w)
      /\ \A w \in HeldWords : IsHeapAllocated(w) =>
           w.upper \in kept /\ objects'[w.upper] = objects[w.upper]
  BY <1>1, <1>4, AllocatedNext
<1> DEFINE w0 == NewWord(kept, obj)
<1>7. w0.tag = "pair" /\ objects'[w0.upper] = obj /\ w0 \in Word
  BY <1>5, <1>6 DEF Pointer
<1> HIDE DEF w0
<1>8. /\ ArrayOK' /\ InternOK(T)' /\ NamesOK(T, A)' /\ SameView(A)
      /\ assoc' = assoc /\ Elems' = Elems /\ Items' = Items
      /\ Keys(objects', T) = Keys(objects, T) /\ Keys(objects', A) = Keys(objects, A)
      /\ \A k \in Keys(objects, T) : objects'[k.upper] = objects[k.upper]
  BY <1>2, <1>6, TablesCarried DEF Appended
<1>9. /\ local' \in [Variables -> Word]
      /\ local'.newEntry = w0
      /\ \A v \in Variables \ {"newEntry"} : local'[v] = local[v]
  <2>1. local \in [Variables -> Word] /\ "newEntry" \in Variables
    BY DEF InvWith, ControlOK, Variables
  <2> QED BY <1>1, <1>7, <2>1, HandleSet DEF w0
<1>10. HandlesOK'
  <2>1. \A w \in HeldWords' : w \in HeldWords \/ w = w0
    BY <1>2, <1>9 DEF HeldWords
  <2>2. Leads(objects', w0)
    BY <1>6 DEF w0
  <2> QED BY <2>1, <2>2, <1>6, <1>7 DEF HandlesOK
<1>11. ControlOK'
  BY <1>2, <1>9 DEF InvWith, ControlOK, Labels
<1>12. CallOK(T, A)'
  <2>1. /\ local'.tmp = local.tmp /\ local'.name = local.name /\ local'.val = local.val
        /\ local'.hAssoc = local.hAssoc
    BY <1>9 DEF Variables
  <2> QED BY <1>2, <1>3, <1>7, <1>8, <1>9, <2>1
          DEF InvWith, CallOK, Interning, Adding, Appended, At, obj
<1>13. TrimOK'
  BY <1>2, <1>9 DEF InvWith, TrimOK, Variables
<1> QED BY <1>6, <1>8, <1>10, <1>11, <1>12, <1>13 DEF InvWith

\* The name is put in front, and its value is after the others.
Extended(A, A2) ==
  /\ Len(A2) = Len(A) + 1
  /\ SpellAt(objects', A2, 1) = At(local.name).spelling
  /\ \A i \in DOMAIN A : SpellAt(objects', A2, i + 1) = SpellAt(objects, A, i)
  /\ \A j \in 1..(Len(A) + 1) :
       objects'[Elems'[j].upper].spelling =
         IF j = Len(A) + 1 THEN At(local.val).spelling
         ELSE objects[Elems[j].upper].spelling

\* assocInsert makes the pair; addName puts it into the root.
LEMMA NameConsKeeps ==
  ASSUME NEW T, NEW A, InvWith(T, A), NameCons
  PROVE  \E A2 : InvWith(T, A2)' /\ Extended(A, A2)
<1> DEFINE obj == Pair(local.newEntry, local.hAssoc)
           r == root.upper
<1>1. PICK kept \in Kept :
        objects' = [With(kept, obj) EXCEPT ![r].elems[1] = NewWord(kept, obj)]
  BY DEF NameCons
<1>2. /\ pc = "nameCons" /\ Return /\ names' = names /\ ix' = ix
      /\ internTable' = internTable /\ root' = root
      /\ defines' = defines /\ moduleRoot' = moduleRoot
  BY DEF NameCons
<1>3. /\ HeapOK(objects) /\ HandlesOK /\ ArrayOK /\ moduleRoot = Null
      /\ Appended /\ Adding /\ ~Interning
      /\ arrayLength = Len(A) + 1 /\ ix = Len(A) /\ ix \in 0..arrayLength
      /\ local.hAssoc = assoc /\ local.name \notin Keys(objects, A)
      /\ local.name \in Keys(objects, T)
      /\ local.newEntry.tag = "pair"
      /\ objects[local.newEntry.upper] = Pair(local.name, Fixnum(ix))
  BY <1>2 DEF InvWith, TrimOK, NamesOK, CallOK, Appended, Adding, Interning, At
<1>4. /\ r \in DOMAIN objects /\ array.upper # r /\ Car(array).upper # r
      /\ objects[r] = Vector(objects[r].elems)
      /\ objects[r].elems \in Seq(Word) /\ DOMAIN objects[r].elems = 1..2
      /\ array = objects[r].elems[2] /\ array \in Word
      /\ ~Plain(objects[r])
      /\ arrayLength \in Nat
      /\ objects[array.upper] = Pair(Car(array), Cdr(array))
  BY <1>3, Layout DEF At, array
<1>5. /\ r \in kept /\ array.upper \in kept /\ Car(array).upper \in kept
      /\ IsHeapAllocated(array) => array.upper \in kept /\ objects[array.upper].tag = array.tag
  BY <1>3, LayoutClosed
<1>6. local.newEntry \in HeldWords /\ local.hAssoc \in HeldWords /\ local.name \in HeldWords
  BY DEF HeldWords, Variables
<1>7. Fits(kept, obj)
  <2>1. /\ local.newEntry \in Word /\ local.hAssoc \in Word
        /\ \A w \in {local.newEntry, local.hAssoc} :
             IsHeapAllocated(w) => w.upper \in kept /\ objects[w.upper].tag = w.tag
    BY <1>3, <1>6, HeldFits
  <2>2. Pointees(obj) = {local.newEntry, local.hAssoc}
    BY DEF Pointees, Pair
  <2>3. obj \in Objects
    BY <2>1 DEF Objects, Pair
  <2> HIDE DEF obj
  <2> QED BY <2>1, <2>2, <2>3 DEF Fits
<1>8. obj.tag = "pair" /\ obj = Pair(local.newEntry, assoc)
  BY <1>3 DEF Pair
<1> HIDE DEF obj
<1> DEFINE o1 == With(kept, obj)
           w0 == NewWord(kept, obj)
           n == NewId(kept)
           E2 == [objects[r].elems EXCEPT ![1] = w0]
           vec == Vector(E2)
<1>9. /\ HeapOK(o1)
      /\ Preserves(objects, o1, kept)
      /\ kept \subseteq DOMAIN objects
      /\ DOMAIN o1 = kept \cup {n}
      /\ \A o \in kept : o1[o] = objects[o]
      /\ n \notin kept
      /\ o1[n] = obj
      /\ w0 = Pointer(obj.tag, n)
      /\ w0 \in Word
      /\ Leads(o1, w0)
      /\ \A w \in HeldWords : w \in Word /\ Leads(o1, w)
      /\ \A w \in HeldWords : IsHeapAllocated(w) =>
           w.upper \in kept /\ o1[w.upper] = objects[w.upper]
  BY <1>7, Allocated
<1>10. objects' = [o1 EXCEPT ![r].elems[1] = w0]
  BY <1>1
<1> HIDE DEF o1, w0, n
<1>11. o1[r] = objects[r]
  BY <1>5, <1>9
<1>12. /\ E2 \in Seq(Word) /\ DOMAIN E2 = 1..2 /\ Len(E2) = 2
       /\ E2[1] = w0 /\ E2[2] = array
  <2> DEFINE es == objects[r].elems
  <2>1. es \in Seq(Word) /\ DOMAIN es = 1..2 /\ es[2] = array /\ w0 \in Word
    BY <1>4, <1>9
  <2> HIDE DEF es
  <2>2. Len(es) = 2
    BY <2>1
  <2>3. DOMAIN [es EXCEPT ![1] = w0] = 1..2
    BY <2>1
  <2>4. [es EXCEPT ![1] = w0] \in Seq(Word) /\ Len([es EXCEPT ![1] = w0]) = 2
    <3>1. 1 \in 1..Len(es)
      BY <2>2
    <3> QED BY <3>1, <2>1, <2>2, ExceptSeq
  <2>5. [es EXCEPT ![1] = w0][1] = w0 /\ [es EXCEPT ![1] = w0][2] = es[2]
    BY <2>1
  <2> QED BY <2>1, <2>3, <2>4, <2>5 DEF es
<1>13. [o1[r] EXCEPT !.elems[1] = w0] = vec
  <2>1. o1[r] = Vector(objects[r].elems)
    BY <1>4, <1>11
  <2> HIDE DEF r
  <2> QED BY <2>1 DEF Vector
<1> HIDE DEF E2
<1>14. /\ vec \in Objects /\ vec.tag = o1[r].tag
       /\ \A w \in Pointees(vec) : w = w0 \/ w = array
  <2>1. vec \in Objects /\ vec.tag = "vector"
    BY <1>12 DEF Objects, Vector
  <2>2. o1[r].tag = "vector"
    BY <1>4, <1>11 DEF Vector
  <2>3. Pointees(vec) = {E2[i] : i \in DOMAIN E2}
    BY DEF Pointees, Vector
  <2>4. \A i \in DOMAIN E2 : i = 1 \/ i = 2
    BY <1>12
  <2> QED BY <2>1, <2>2, <2>3, <2>4, <1>12
<1>15. \A w \in Pointees(vec) : Leads(o1, w)
  BY <1>5, <1>9, <1>14 DEF Leads
<1> HIDE DEF vec
<1>16. objects' = [o1 EXCEPT ![r] = vec]
  BY <1>10, <1>13
<1>17. /\ HeapOK(objects')
       /\ \A w : Leads(o1, w) => Leads(objects', w)
       /\ DOMAIN objects' = DOMAIN o1
       /\ objects'[r] = vec
       /\ \A p \in DOMAIN o1 \ {r} : objects'[p] = o1[p]
  <2>1. r \in DOMAIN o1
    BY <1>5, <1>9
  <2>2. /\ HeapOK([o1 EXCEPT ![r] = vec])
        /\ \A w : Leads(o1, w) => Leads([o1 EXCEPT ![r] = vec], w)
        /\ DOMAIN [o1 EXCEPT ![r] = vec] = DOMAIN o1
        /\ [o1 EXCEPT ![r] = vec][r] = vec
        /\ \A p \in DOMAIN o1 \ {r} : [o1 EXCEPT ![r] = vec][p] = o1[p]
    BY <2>1, <1>9, <1>14, <1>15, Rewritten
  <2> QED BY <2>2, <1>16
<1>18. /\ Preserves(objects, objects', kept)
       /\ \A w \in HeldWords : IsHeapAllocated(w) => w.upper \in kept
  BY <1>4, <1>9, <1>17 DEF Preserves
<1>19. /\ objects'[n] = obj /\ n # r
       /\ \A o \in kept \ {r} : objects'[o] = objects[o]
  BY <1>5, <1>9, <1>17
<1>20. At(root)' = vec /\ assoc' = w0 /\ array' = array /\ vec = Vector(E2)
  <2>1. At(root)' = vec
    BY <1>2, <1>17 DEF At
  <2>2. vec = Vector(E2)
    BY DEF vec
  <2> QED BY <2>1, <2>2, <1>12 DEF assoc, array, Vector
<1>21. At(array)' = At(array) /\ Car(array)' = Car(array) /\ Cdr(array)' = Cdr(array)
  BY <1>4, <1>5, <1>19, <1>20 DEF At, Car, Cdr
<1>22. Elems' = Elems /\ arrayLength' = arrayLength
  BY <1>4, <1>5, <1>19, <1>21 DEF Elems, arrayLength, At
<1>23. ArrayOK'
  BY <1>2, <1>3, <1>12, <1>20, <1>21, <1>22 DEF ArrayOK, Vector
<1>24. /\ IsAssoc(objects', internTable, T)
       /\ \A j \in DOMAIN T : /\ KeyAt(objects', T, j) = KeyAt(objects, T, j)
                              /\ SpellAt(objects', T, j) = SpellAt(objects, T, j)
       /\ Keys(objects', T) = Keys(objects, T)
       /\ \A k \in Keys(objects, T) : objects'[k.upper] = objects[k.upper]
       /\ IsAssoc(objects', assoc, A)
       /\ \A j \in DOMAIN A : /\ A[j] \in kept
                              /\ SpellAt(objects', A, j) = SpellAt(objects, A, j)
                              /\ KeyAt(objects', A, j) = KeyAt(objects, A, j)
                              /\ ValAt(objects', A, j) = ValAt(objects, A, j)
       /\ Keys(objects', A) = Keys(objects, A)
  BY <1>18, TablesKept
<1>25. InternOK(T)'
  BY <1>2, <1>24 DEF InvWith, InternOK
<1>26. objects'[local.newEntry.upper] = Pair(local.name, Fixnum(ix))
  <2>1. local.newEntry.upper \in kept
    BY <1>3, <1>6, <1>9 DEF IsHeapAllocated, HeapTags
  <2>2. Plain(objects[local.newEntry.upper])
    <3>1. local.name.tag = "symbol"
      BY <1>3, KeysAreSymbols DEF InvWith, InternOK
    <3> QED BY <3>1, <1>3 DEF Plain, Pair
  <2> QED BY <2>1, <2>2, <1>3, <1>18 DEF Preserves
<1>27. IsEntry(objects', local.newEntry)
  <2>1. local.name.tag = "symbol"
    BY <1>3, KeysAreSymbols DEF InvWith, InternOK
  <2> QED BY <2>1, <1>3, <1>26 DEF IsEntry, Pair
<1> DEFINE A2 == <<n>> \o A
<1>28. /\ n \in DOMAIN objects' /\ \A i \in DOMAIN A : A[i] # n
       /\ objects'[n] = Pair(local.newEntry, assoc)
       /\ assoc' = Pointer("pair", n)
  BY <1>8, <1>9, <1>17, <1>19, <1>20, <1>24
<1> HIDE DEF A2
<1>29. /\ IsAssoc(objects', assoc', A2)
       /\ DOMAIN A2 = 1..(Len(A) + 1) /\ Len(A2) = Len(A) + 1
       /\ Len(A) \in Nat /\ DOMAIN A = 1..Len(A)
       /\ KeyAt(objects', A2, 1) = objects'[local.newEntry.upper].car
       /\ ValAt(objects', A2, 1) = objects'[local.newEntry.upper].cdr
       /\ \A i \in 2..(Len(A) + 1) :
            /\ i - 1 \in DOMAIN A
            /\ KeyAt(objects', A2, i) = KeyAt(objects', A, i - 1)
            /\ ValAt(objects', A2, i) = ValAt(objects', A, i - 1)
            /\ SpellAt(objects', A2, i) = SpellAt(objects', A, i - 1)
  BY <1>24, <1>27, <1>28, AssocCons DEF A2
<1>30. KeyAt(objects', A2, 1) = local.name /\ ValAt(objects', A2, 1) = Fixnum(ix)
  BY <1>26, <1>29 DEF Pair
<1>31. \A i \in DOMAIN A2 : i = 1 \/ i \in 2..(Len(A) + 1)
  BY <1>29
<1>32. \A i \in 2..(Len(A) + 1) :
         /\ i - 1 \in DOMAIN A
         /\ KeyAt(objects', A2, i) = KeyAt(objects, A, i - 1)
         /\ ValAt(objects', A2, i) = Fixnum(Len(A2) - i)
         /\ KeyAt(objects', A2, i) \in Keys(objects, T)
         /\ KeyAt(objects', A2, i) # local.name
  <2> TAKE i \in 2..(Len(A) + 1)
  <2>1. /\ i - 1 \in DOMAIN A
        /\ KeyAt(objects', A2, i) = KeyAt(objects, A, i - 1)
        /\ ValAt(objects', A2, i) = ValAt(objects, A, i - 1)
    BY <1>24, <1>29
  <2>2. /\ ValAt(objects, A, i - 1) = Fixnum(Len(A) - (i - 1))
        /\ KeyAt(objects, A, i - 1) \in Keys(objects, T)
    BY <2>1 DEF InvWith, NamesOK
  <2>3. Len(A) - (i - 1) = Len(A2) - i
    BY <1>29
  <2>4. KeyAt(objects, A, i - 1) # local.name
    BY <2>1, <1>3 DEF Keys
  <2> QED BY <2>1, <2>2, <2>3, <2>4
<1>33. \A i, j \in DOMAIN A2 : KeyAt(objects', A2, i) = KeyAt(objects', A2, j) => i = j
  <2> SUFFICES ASSUME NEW i \in DOMAIN A2, NEW j \in DOMAIN A2,
                      KeyAt(objects', A2, i) = KeyAt(objects', A2, j)
               PROVE  i = j
    OBVIOUS
  <2>1. CASE i = 1 \/ j = 1
    BY <2>1, <1>30, <1>31, <1>32
  <2>2. CASE i # 1 /\ j # 1
    <3>1. /\ i - 1 \in DOMAIN A /\ j - 1 \in DOMAIN A
          /\ KeyAt(objects, A, i - 1) = KeyAt(objects, A, j - 1)
      BY <2>2, <1>31, <1>32
    <3>2. i - 1 = j - 1
      BY <3>1 DEF InvWith, NamesOK
    <3> QED BY <3>2, <1>29
  <2> QED BY <2>1, <2>2
<1>34. \A i \in DOMAIN A2 : /\ KeyAt(objects', A2, i) \in Keys(objects, T)
                            /\ ValAt(objects', A2, i) = Fixnum(Len(A2) - i)
  <2>1. ix = Len(A2) - 1
    BY <1>3, <1>29
  <2> QED BY <2>1, <1>3, <1>30, <1>31, <1>32
<1>35. NamesOK(T, A2)'
  <2>1. pc' = "idle"
    BY <1>2 DEF Return
  <2>2. \A i \in 1..arrayLength : Elems[i] \in Keys(objects, T)
    BY DEF InvWith, NamesOK
  <2>3. ix' \in 0..arrayLength'
    BY <1>2, <1>3, <1>22
  <2> QED BY <2>1, <2>2, <2>3, <1>3, <1>22, <1>24, <1>29, <1>33, <1>34 DEF NamesOK, Appended
<1>36. HandlesOK' /\ ControlOK' /\ CallOK(T, A2)' /\ TrimOK'
  <2>1. \A w \in HeldWords : w \in Word /\ Leads(objects', w)
    BY <1>9, <1>17
  <2> QED BY <2>1, <1>2, <1>3, ReturnKeeps, NoWord
<1>37. Extended(A, A2)
  <2>1. SpellAt(objects', A2, 1) = At(local.name).spelling
    BY <1>3, <1>24, <1>30 DEF SpellAt, At
  <2>2. ASSUME NEW i \in DOMAIN A
        PROVE  SpellAt(objects', A2, i + 1) = SpellAt(objects, A, i)
    <3>1. i + 1 \in 2..(Len(A) + 1) /\ (i + 1) - 1 = i
      BY <1>29
    <3>2. SpellAt(objects', A2, i + 1) = SpellAt(objects', A, i)
      BY <3>1, <1>29
    <3> QED BY <3>2, <1>24
  <2>3. ASSUME NEW j \in 1..(Len(A) + 1)
        PROVE  objects'[Elems'[j].upper].spelling =
                 IF j = Len(A) + 1 THEN At(local.val).spelling
                 ELSE objects[Elems[j].upper].spelling
    <3>1. Elems[j] \in Keys(objects, T)
      BY <1>3 DEF InvWith, NamesOK
    <3>2. objects'[Elems'[j].upper] = objects[Elems[j].upper]
      BY <3>1, <1>22, <1>24
    <3>3. Elems[Len(A) + 1] = local.val
      BY <1>3 DEF InvWith, CallOK
    <3> QED BY <3>2, <3>3 DEF At
  <2> QED BY <2>1, <2>2, <2>3, <1>29 DEF Extended
<1> QED BY <1>17, <1>23, <1>25, <1>35, <1>36, <1>37 DEF InvWith

-----------------------------------------------------------------------------
\* getRoot copies the items, and makes the vector of two.
LEMMA TrimArrayKeeps ==
  ASSUME NEW T, NEW A, InvWith(T, A), TrimArray
  PROVE  InvWith(T, A)' /\ SameView(A)
<1> DEFINE obj == Vector(Items)
<1>1. PICK kept \in Kept : /\ objects' = With(kept, obj)
                           /\ local' = [local EXCEPT !.trimmedVec = NewWord(kept, obj)]
  BY DEF TrimArray
<1>2. /\ pc = "idle" /\ pc' = "newRoot" /\ moduleRoot = Null
      /\ internTable' = internTable /\ root' = root /\ names' = names /\ ix' = ix
      /\ defines' = defines /\ moduleRoot' = moduleRoot
  BY DEF TrimArray
<1>3. HeapOK(objects) /\ HandlesOK /\ ArrayOK
  BY DEF InvWith
<1>4. /\ Items \in Seq(Word) /\ DOMAIN Items = 1..arrayLength
      /\ \A i \in 1..arrayLength : i \in DOMAIN Elems /\ Items[i] = Elems[i]
  <2>1. /\ Elems \in Seq(Word) /\ arrayLength \in 0..Len(Elems)
        /\ DOMAIN Elems = 1..Len(Elems) /\ Len(Elems) \in Nat
    BY <1>3, Layout DEF ArrayOK
  <2>2. \A i \in 1..arrayLength : i \in DOMAIN Elems
    BY <2>1
  <2> QED BY <2>1, <2>2, ItemsAre
<1>5. Fits(kept, obj)
  <2>1. \A i \in DOMAIN Elems : IsHeapAllocated(Elems[i]) =>
          Elems[i].upper \in kept /\ objects[Elems[i].upper].tag = Elems[i].tag
    BY <1>3, LayoutClosed
  <2>2. Pointees(obj) = {Items[i] : i \in DOMAIN Items}
    BY DEF Pointees, Vector
  <2>3. obj \in Objects
    BY <1>4 DEF Objects, Vector
  <2> HIDE DEF obj
  <2> QED BY <2>1, <2>2, <2>3, <1>4 DEF Fits
<1>6. obj.tag = "vector" /\ obj.elems = Items
  BY DEF Vector
<1> HIDE DEF obj
<1>7. /\ HeapOK(objects')
      /\ Preserves(objects, objects', kept)
      /\ \A o \in kept : objects'[o] = objects[o]
      /\ objects'[NewId(kept)] = obj
      /\ NewWord(kept, obj) = Pointer(obj.tag, NewId(kept))
      /\ NewWord(kept, obj) \in Word
      /\ Leads(objects', NewWord(kept, obj))
      /\ \A w \in HeldWords : w \in Word /\ Leads(objects', w)
      /\ \A w \in HeldWords : IsHeapAllocated(w) =>
           w.upper \in kept /\ objects'[w.upper] = objects[w.upper]
  BY <1>1, <1>5, AllocatedNext
<1> DEFINE w0 == NewWord(kept, obj)
<1>8. w0.tag = "vector" /\ objects'[w0.upper].elems = Items /\ w0 \in Word
  BY <1>6, <1>7 DEF Pointer
<1> HIDE DEF w0
<1>9. /\ ArrayOK' /\ InternOK(T)' /\ NamesOK(T, A)' /\ SameView(A) /\ Items' = Items
  BY <1>2, <1>7, TablesCarried DEF Appended
<1>10. /\ local' \in [Variables -> Word]
       /\ local'.trimmedVec = w0
       /\ \A v \in Variables \ {"trimmedVec"} : local'[v] = local[v]
  <2>1. local \in [Variables -> Word] /\ "trimmedVec" \in Variables
    BY DEF InvWith, ControlOK, Variables
  <2> QED BY <1>1, <1>8, <2>1, HandleSet DEF w0
<1>11. HandlesOK'
  <2>1. \A w \in HeldWords' : w \in HeldWords \/ w = w0
    BY <1>2, <1>10 DEF HeldWords
  <2>2. Leads(objects', w0)
    BY <1>7 DEF w0
  <2> QED BY <2>1, <2>2, <1>7, <1>8 DEF HandlesOK
<1>12. ControlOK'
  BY <1>2, <1>10 DEF InvWith, ControlOK, Labels
<1>13. CallOK(T, A)'
  <2>1. /\ local'.tmp = local.tmp /\ local'.name = local.name /\ local'.val = local.val
        /\ local'.hAssoc = local.hAssoc /\ local'.newEntry = local.newEntry
    BY <1>10 DEF Variables
  <2> QED BY <1>2, <2>1 DEF InvWith, CallOK, Interning, Adding, Appended
<1>14. TrimOK'
  BY <1>2, <1>8, <1>9, <1>10 DEF TrimOK, At
<1> QED BY <1>7, <1>9, <1>11, <1>12, <1>13, <1>14 DEF InvWith

LEMMA NewRootKeeps ==
  ASSUME NEW T, NEW A, InvWith(T, A), NewRoot
  PROVE  InvWith(T, A)' /\ SameView(A)
<1> DEFINE es == <<assoc, local.trimmedVec>>
           obj == Vector(es)
<1>1. PICK kept \in Kept : objects' = With(kept, obj) /\ moduleRoot' = NewWord(kept, obj)
  BY DEF NewRoot
<1>2. /\ pc = "newRoot" /\ Return
      /\ internTable' = internTable /\ root' = root /\ names' = names /\ ix' = ix
      /\ defines' = defines
  BY DEF NewRoot
<1>3. HeapOK(objects) /\ HandlesOK /\ ArrayOK /\ ~Interning
  BY <1>2 DEF InvWith, Interning
<1>4. /\ local.trimmedVec \in HeldWords
      /\ local.trimmedVec.tag = "vector"
      /\ objects[local.trimmedVec.upper].elems = Items
  BY <1>2 DEF HeldWords, Variables, InvWith, TrimOK, At
<1>5. /\ assoc \in Word /\ local.trimmedVec \in Word
      /\ \A w \in {assoc, local.trimmedVec} :
           IsHeapAllocated(w) => w.upper \in kept /\ objects[w.upper].tag = w.tag
  <2>1. /\ local.trimmedVec \in Word
        /\ IsHeapAllocated(local.trimmedVec) =>
             /\ local.trimmedVec.upper \in kept
             /\ objects[local.trimmedVec.upper].tag = local.trimmedVec.tag
    BY <1>3, <1>4, HeldFits
  <2>2. assoc \in Word
    BY <1>3, Layout
  <2>3. IsHeapAllocated(assoc) => assoc.upper \in kept /\ objects[assoc.upper].tag = assoc.tag
    BY <1>3, LayoutClosed
  <2> QED BY <2>1, <2>2, <2>3
<1>6. es \in Seq(Word) /\ Len(es) = 2 /\ es[1] = assoc /\ es[2] = local.trimmedVec
  BY <1>5
<1>7. Fits(kept, obj)
  <2>1. \A w \in Pointees(obj) : w = assoc \/ w = local.trimmedVec
    <3>1. Pointees(obj) = {es[i] : i \in DOMAIN es}
      BY DEF Pointees, Vector
    <3>2. \A i \in DOMAIN es : i = 1 \/ i = 2
      BY <1>6
    <3> HIDE DEF es, obj
    <3> QED BY <3>1, <3>2, <1>6
  <2>2. obj \in Objects
    <3> HIDE DEF es
    <3> QED BY <1>6 DEF Objects, Vector
  <2> HIDE DEF obj, es
  <2> QED BY <2>1, <2>2, <1>5 DEF Fits
<1>8. obj.tag = "vector" /\ obj.elems = es
  BY DEF Vector
<1> HIDE DEF obj, es
<1>9. /\ HeapOK(objects')
      /\ Preserves(objects, objects', kept)
      /\ \A o \in kept : objects'[o] = objects[o]
      /\ objects'[NewId(kept)] = obj
      /\ NewWord(kept, obj) = Pointer(obj.tag, NewId(kept))
      /\ NewWord(kept, obj) \in Word
      /\ Leads(objects', NewWord(kept, obj))
      /\ \A w \in HeldWords : w \in Word /\ Leads(objects', w)
      /\ \A w \in HeldWords : IsHeapAllocated(w) =>
           w.upper \in kept /\ objects'[w.upper] = objects[w.upper]
  BY <1>1, <1>7, AllocatedNext
<1>10. /\ moduleRoot'.tag = "vector" /\ objects'[moduleRoot'.upper].elems = es
       /\ moduleRoot' \in Word /\ Leads(objects', moduleRoot')
  BY <1>1, <1>8, <1>9 DEF Pointer
<1>11. /\ ArrayOK' /\ InternOK(T)' /\ NamesOK(T, A)' /\ SameView(A) /\ Items' = Items /\ assoc' = assoc
  <2>1. pc' = "idle"
    BY <1>2 DEF Return
  <2> QED BY <1>2, <1>9, <2>1, TablesCarried DEF Appended
<1>12. HandlesOK' /\ ControlOK' /\ CallOK(T, A)'
  BY <1>2, <1>3, <1>9, <1>10, ReturnKeeps
<1>13. TrimOK'
  <2>1. pc' = "idle" /\ local'.trimmedVec = Null
    BY <1>2 DEF Return, Variables
  <2>2. objects'[local.trimmedVec.upper].elems = Items
    BY <1>4, <1>9 DEF IsHeapAllocated, HeapTags
  <2> QED BY <2>1, <2>2, <1>4, <1>6, <1>10, <1>11 DEF TrimOK, At
<1> QED BY <1>9, <1>11, <1>12, <1>13 DEF InvWith
-----------------------------------------------------------------------------
\* Module::Module leaves tables without names.
LEMMA InitHolds == Init => IInv
<1> SUFFICES ASSUME Init PROVE InvWith(<<>>, <<>>)
  BY DEF IInv
<1>1. /\ internTable = Nil /\ root = Pointer("vector", 0) /\ names = <<>>
      /\ local = [v \in Variables |-> Null]
      /\ ix = 0 /\ pc = "idle" /\ defines = 0 /\ moduleRoot = Null
  BY DEF Init
<1>2. /\ DOMAIN objects = {0, 1, 2}
      /\ objects = [o \in {0, 1, 2} |-> objects[o]]
      /\ objects[0] = Vector(<<Nil, Pointer("pair", 1)>>)
      /\ objects[1] = Pair(Pointer("vector", 2), Fixnum(0))
      /\ objects[2] = Vector(<<>>)
  <2>1. 0..2 = {0, 1, 2}
    OBVIOUS
  <2>2. DOMAIN objects = {0, 1, 2} /\ objects = [o \in {0, 1, 2} |-> objects[o]]
    BY <2>1 DEF Init
  <2>3. objects[0] = Vector(<<Nil, Pointer("pair", 1)>>)
    BY DEF Init
  <2>4. objects[1] = Pair(Pointer("vector", 2), Fixnum(0))
    BY DEF Init
  <2>5. objects[2] = Vector(<<>>)
    BY DEF Init
  <2> QED BY <2>2, <2>3, <2>4, <2>5
<1>3. /\ Nil \in Word /\ Pointer("pair", 1) \in Word /\ Pointer("vector", 2) \in Word
      /\ Pointer("vector", 0) \in Word /\ Fixnum(0) \in Word
      /\ ~IsHeapAllocated(Nil) /\ ~IsHeapAllocated(Fixnum(0))
  BY DEF Nil, Pointer, Fixnum, Word, Tags, HeapTags, ImmediateTags, IsHeapAllocated
<1> DEFINE es == <<Nil, Pointer("pair", 1)>>
<1>4. /\ es \in Seq(Word) /\ Len(es) = 2 /\ es[1] = Nil /\ es[2] = Pointer("pair", 1)
      /\ \A i \in DOMAIN es : i = 1 \/ i = 2
  BY <1>3
<1>5. <<>> \in Seq(Word) /\ DOMAIN <<>> = {} /\ Len(<<>>) = 0
  OBVIOUS
<1> HIDE DEF es
<1>6. objects[0] = Vector(es)
  BY <1>2 DEF es
<1>7. /\ \A w \in Pointees(objects[0]) : w = Nil \/ w = Pointer("pair", 1)
      /\ Pointees(objects[1]) = {Pointer("vector", 2), Fixnum(0)}
      /\ Pointees(objects[2]) = {}
  <2>1. Pointees(objects[0]) = {es[i] : i \in DOMAIN es}
    BY <1>6 DEF Pointees, Vector
  <2>2. Pointees(objects[1]) = {Pointer("vector", 2), Fixnum(0)}
    BY <1>2 DEF Pointees, Pair
  <2>3. Pointees(objects[2]) = {}
    BY <1>2, <1>5 DEF Pointees, Vector
  <2> QED BY <2>1, <2>2, <2>3, <1>4
<1>8. /\ objects[0] \in Objects /\ objects[1] \in Objects /\ objects[2] \in Objects
      /\ objects[0].tag = "vector" /\ objects[1].tag = "pair" /\ objects[2].tag = "vector"
  <2>1. objects[0] \in Objects /\ objects[0].tag = "vector"
    BY <1>4, <1>6 DEF Objects, Vector
  <2>2. objects[1] \in Objects /\ objects[1].tag = "pair"
    BY <1>2, <1>3 DEF Objects, Pair
  <2>3. objects[2] \in Objects /\ objects[2].tag = "vector"
    BY <1>2, <1>5 DEF Objects, Vector
  <2> QED BY <2>1, <2>2, <2>3
<1>9. /\ Leads(objects, Pointer("pair", 1)) /\ Leads(objects, Pointer("vector", 2))
      /\ Leads(objects, Pointer("vector", 0))
      /\ Leads(objects, Nil) /\ Leads(objects, Fixnum(0))
  BY <1>2, <1>3, <1>8 DEF Leads, Pointer
<1>10. HeapOK(objects)
  <2>1. IsFiniteSet({0, 1, 2}) /\ {0, 1, 2} \subseteq Nat
    <3>1. {0, 1, 2} = 0..2
      OBVIOUS
    <3>2. IsFiniteSet(0..2)
      <4>1. 0 \in Int /\ 2 \in Int
        OBVIOUS
      <4> QED BY <4>1, FS_Interval
    <3> QED BY <3>1, <3>2
  <2>2. \A o \in DOMAIN objects : objects[o] \in Objects
    BY <1>2, <1>8
  <2>3. \A o \in DOMAIN objects : \A w \in Pointees(objects[o]) : Leads(objects, w)
    BY <1>2, <1>7, <1>9
  <2> QED BY <2>1, <2>2, <2>3, <1>2 DEF HeapOK
<1>11. HandlesOK
  <2>1. \A w \in HeldWords : w = Nil \/ w = Pointer("vector", 0) \/ w = Null
    BY <1>1 DEF HeldWords
  <2> QED BY <2>1, <1>3, <1>9, NoWord DEF HandlesOK
<1>12. /\ At(root) = Vector(es) /\ assoc = Nil /\ array = Pointer("pair", 1)
       /\ Car(array) = Pointer("vector", 2) /\ Cdr(array) = Fixnum(0)
       /\ Elems = <<>> /\ arrayLength = 0
  <2>1. At(root) = Vector(es)
    BY <1>1, <1>6 DEF At, Pointer
  <2>2. assoc = Nil /\ array = Pointer("pair", 1)
    BY <2>1, <1>4 DEF assoc, array, Vector
  <2>3. Car(array) = Pointer("vector", 2) /\ Cdr(array) = Fixnum(0)
    BY <2>2, <1>2 DEF Car, Cdr, At, Pointer, Pair
  <2>4. Elems = <<>> /\ arrayLength = 0
    BY <2>3, <1>2 DEF Elems, At, Pointer, Vector, arrayLength, Fixnum
  <2> QED BY <2>1, <2>2, <2>3, <2>4
<1>13. ArrayOK
  BY <1>1, <1>4, <1>5, <1>12 DEF ArrayOK, Pointer, Vector
<1>14. IsAssoc(objects, Nil, <<>>)
  BY <1>5 DEF IsAssoc, Link
<1>15. InternOK(<<>>) /\ NamesOK(<<>>, <<>>)
  BY <1>1, <1>5, <1>12, <1>14 DEF InternOK, NamesOK, Appended
<1>16. ControlOK
  BY <1>1, NoWord, MaxDefinesAssumption DEF ControlOK, Labels
<1>17. \A v \in Variables : local[v] = Null
  BY <1>1
<1>18. CallOK(<<>>, <<>>) /\ TrimOK
  <2>1. /\ local.name = Null /\ local.val = Null /\ local.tmp = Null /\ local.newEntry = Null
        /\ local.hAssoc = Null /\ local.trimmedVec = Null
    BY <1>17 DEF Variables
  <2> QED BY <2>1, <1>1 DEF CallOK, TrimOK, Interning, Adding, Appended
<1> QED BY <1>10, <1>11, <1>13, <1>15, <1>16, <1>18 DEF InvWith

\* A step that changes nothing.
LEMMA StutterKeeps ==
  ASSUME NEW T, NEW A, InvWith(T, A), UNCHANGED vars
  PROVE  InvWith(T, A)' /\ SameView(A)
<1>1. InvWith(T, A)'
  <2>1. HeapOK(objects)' /\ HandlesOK' /\ ControlOK' /\ InternOK(T)'
    BY Zenon DEF InvWith, HandlesOK, HeldWords, ControlOK, InternOK, vars
  <2>2. ArrayOK'
    BY Zenon DEF InvWith, ArrayOK, At, Car, Cdr, array, Elems, arrayLength, vars
  <2>3. NamesOK(T, A)'
    BY Zenon DEF InvWith, NamesOK, Appended, At, Car, Cdr, assoc, array, Elems, arrayLength, vars
  <2>4. CallOK(T, A)'
    BY Zenon DEF InvWith, CallOK, Interning, Adding, Appended, At, Car, Cdr, assoc, array, Elems,
       arrayLength, vars
  <2>5. TrimOK'
    BY Zenon DEF InvWith, TrimOK, At, Car, Cdr, assoc, array, Elems, arrayLength, Items, vars
  <2> QED BY <2>1, <2>2, <2>3, <2>4, <2>5 DEF InvWith
<1>2. SameView(A)
  BY DEF SameView, SpellAt, KeyAt, EntryAt, Elems, array, At, Car, vars
<1> QED BY <1>1, <1>2

\* Every step keeps the invariant.
LEMMA NextKeeps == IInv /\ [Next]_vars => IInv'
<1> SUFFICES ASSUME IInv, [Next]_vars PROVE IInv'
  OBVIOUS
<1>1. PICK T, A : InvWith(T, A)
  BY DEF IInv
<1>2. CASE \E s \in Spellings, v \in Values : Begin(s, v)
  BY <1>1, <1>2, BeginKeeps DEF IInv
<1>3. CASE NewSymbol
  BY <1>1, <1>3, NewSymbolKeeps DEF IInv
<1>4. CASE InternLookup
  BY <1>1, <1>4, InternLookupKeeps DEF IInv
<1>5. CASE InternEntry
  BY <1>1, <1>5, InternEntryKeeps DEF IInv
<1>6. CASE InternCons
  BY <1>1, <1>6, InternConsKeeps DEF IInv
<1>7. CASE AddName
  BY <1>1, <1>7, AddNameKeeps DEF IInv
<1>8. CASE AppendItem
  BY <1>1, <1>8, AppendItemKeeps DEF IInv
<1>9. CASE GrowArray
  BY <1>1, <1>9, GrowArrayKeeps DEF IInv
<1>10. CASE NameEntry
  BY <1>1, <1>10, NameEntryKeeps DEF IInv
<1>11. CASE NameCons
  BY <1>1, <1>11, NameConsKeeps DEF IInv
<1>12. CASE TrimArray
  BY <1>1, <1>12, TrimArrayKeeps DEF IInv
<1>13. CASE NewRoot
  BY <1>1, <1>13, NewRootKeeps DEF IInv
<1>14. CASE UNCHANGED vars
  BY <1>1, <1>14, StutterKeeps DEF IInv
<1> QED BY <1>2, <1>3, <1>4, <1>5, <1>6, <1>7, <1>8, <1>9, <1>10, <1>11, <1>12, <1>13,
           <1>14 DEF Next

\* The tables of symbols and names are well formed at every step, and every
\* Handle leads to an object of its kind, wherever a collection comes between
\* two steps of internSymbol, assocInsert, arrayAppend, addName and getRoot.
THEOREM TablesAreIntact == Spec => []IInv
BY InitHolds, NextKeeps, PTL DEF Spec

-----------------------------------------------------------------------------
\* The types follow.
LEMMA TypesHold == IInv => TypeOK
<1> SUFFICES ASSUME IInv PROVE TypeOK
  OBVIOUS
<1>1. PICK T, A : InvWith(T, A)
  BY DEF IInv
<1>2. HeapOK(objects) /\ HandlesOK /\ ArrayOK
  BY <1>1 DEF InvWith
<1>3. \A o \in DOMAIN objects : Pointees(objects[o]) \subseteq Word
  <2> TAKE o \in DOMAIN objects
  <2>1. objects[o] \in Objects
    BY <1>2 DEF HeapOK
  <2>2. CASE objects[o] \in [tag : {"symbol"}, spelling : Spellings]
    BY <2>2 DEF Pointees
  <2>3. CASE objects[o] \in [tag : {"pair"}, car : Word, cdr : Word]
    BY <2>3 DEF Pointees
  <2>4. CASE objects[o] \in [tag : {"vector"}, elems : Seq(Word)]
    BY <2>4 DEF Pointees
  <2> QED BY <2>1, <2>2, <2>3, <2>4 DEF Objects
<1>4. {internTable, root, moduleRoot} \cup Range(local) \subseteq Word
  <2>1. DOMAIN local = Variables
    BY <1>1 DEF InvWith, ControlOK
  <2> QED BY <2>1, <1>2 DEF HandlesOK, HeldWords, Range
<1>5. names \in UNION {[1..n -> Spellings] : n \in 0..2}
  <2>1. names \in Seq(Spellings)
    BY <1>1 DEF InvWith, ControlOK
  <2>2. Len(names) \in 0..2
    <3>1. Len(<<>>) = 0
      OBVIOUS
    <3>2. Len(names) \in {1, 2} \/ names = <<>>
      BY <1>1 DEF InvWith, CallOK
    <3> QED BY <3>1, <3>2
  <2>3. names \in [1..Len(names) -> Spellings]
    BY <2>1
  <2> QED BY <2>2, <2>3
<1>6. ix \in 0..arrayLength /\ arrayLength \in 0..Len(Elems) /\ defines \in 0..MaxDefines
  BY <1>1, <1>2 DEF InvWith, NamesOK, ArrayOK, ControlOK
<1> QED BY <1>3, <1>4, <1>5, <1>6 DEF TypeOK

\* The types of the variables, for any spellings and any number of names; an
\* array is never longer than its vector.
THEOREM NameTableTyped == Spec => []TypeOK
BY TablesAreIntact, TypesHold, PTL

\* The entries of a table are pairs of a symbol and a value.
LEMMA EntriesOfTable ==
  ASSUME HeapOK(objects), NEW list, NEW pairs, IsAssoc(objects, list, pairs)
  PROVE  /\ Range(Entries(list)) = {objects[pairs[i]].car : i \in DOMAIN pairs}
         /\ \A i \in DOMAIN pairs :
              /\ objects[pairs[i]].car.tag = "pair"
              /\ Car(objects[pairs[i]].car) = KeyAt(objects, pairs, i)
              /\ KeyAt(objects, pairs, i).tag = "symbol"
<1>1. Entries(list) = [i \in 1..Len(pairs) |-> objects[pairs[i]].car]
  BY EntriesAreThose, EntriesOfAssoc
<1>2. DOMAIN pairs = 1..Len(pairs)
  BY AssocIsShort
<1>3. Range(Entries(list)) = {objects[pairs[i]].car : i \in DOMAIN pairs}
  BY <1>1, <1>2 DEF Range
<1>4. \A i \in DOMAIN pairs :
        /\ objects[pairs[i]].car.tag = "pair"
        /\ Car(objects[pairs[i]].car) = KeyAt(objects, pairs, i)
        /\ KeyAt(objects, pairs, i).tag = "symbol"
  BY AssocIsThere DEF Car, At, KeyAt, EntryAt
<1> QED BY <1>3, <1>4

\* What a collection keeps is there, and is what it was.
LEMMA NothingIsReclaimed == IInv => NothingReclaimedIsUsed
<1> SUFFICES ASSUME IInv PROVE NothingReclaimedIsUsed
  OBVIOUS
<1>1. PICK T, A : InvWith(T, A)
  BY DEF IInv
<1>2. /\ HeapOK(objects) /\ HandlesOK
      /\ IsAssoc(objects, internTable, T) /\ IsAssoc(objects, assoc, A)
  BY <1>1 DEF InvWith, InternOK, NamesOK
<1>3. \A w \in HeldWords : IsHeapAllocated(w) =>
        w.upper \in DOMAIN objects /\ At(w).tag = w.tag
  BY <1>2 DEF HandlesOK, Leads, At
<1>4. \A o \in DOMAIN objects \cap Live : \A w \in Pointees(objects[o]) :
        IsHeapAllocated(w) => w.upper \in DOMAIN objects /\ At(w).tag = w.tag
  BY <1>2 DEF HeapOK, Leads, At
<1>5. \A e \in Range(Entries(internTable)) \cup Range(Entries(assoc)) :
        e.tag = "pair" /\ Car(e).tag = "symbol"
  BY <1>2, EntriesOfTable
<1> QED BY <1>3, <1>4, <1>5 DEF NothingReclaimedIsUsed

\* No C++ function here uses an object that the collections before could not
\* find from a Handle: for any names, in any order, however often the tables
\* and the array grow.
THEOREM NothingReclaimed == Spec => []NothingReclaimedIsUsed
BY TablesAreIntact, NothingIsReclaimed, PTL

\* Every symbol that is compared by address is a key of the intern table.
LEMMA ComparedAreInterned ==
  ASSUME NEW T, NEW A, InvWith(T, A)
  PROVE  ComparedSymbols \subseteq Keys(objects, T)
<1>1. /\ HeapOK(objects) /\ HandlesOK /\ ArrayOK
      /\ IsAssoc(objects, internTable, T) /\ IsAssoc(objects, assoc, A)
  BY DEF InvWith, InternOK, NamesOK
<1>2. {Car(e) : e \in Range(Entries(internTable))} \subseteq Keys(objects, T)
  BY <1>1, EntriesOfTable DEF Keys
<1>3. {Car(e) : e \in Range(Entries(assoc))} \subseteq Keys(objects, T)
  <2>1. \A i \in DOMAIN A : KeyAt(objects, A, i) \in Keys(objects, T)
    BY DEF InvWith, NamesOK
  <2> QED BY <2>1, <1>1, EntriesOfTable
<1>4. {local.name, local.val} \ {Null} \subseteq Keys(objects, T)
  BY DEF InvWith, CallOK
<1>5. Range(Items) \subseteq Keys(objects, T)
  <2>1. DOMAIN Items = 1..arrayLength /\ \A i \in 1..arrayLength : Items[i] = Elems[i]
    BY <1>1, Layout, ItemsAre DEF ArrayOK
  <2>2. \A i \in 1..arrayLength : Elems[i] \in Keys(objects, T)
    BY DEF InvWith, NamesOK
  <2> QED BY <2>1, <2>2 DEF Range
<1> QED BY <1>2, <1>3, <1>4, <1>5 DEF ComparedSymbols

\* So two that are spelled the same are one.
LEMMA SymbolsAreInternedOnce == IInv => InternedOnce
<1> SUFFICES ASSUME IInv, NEW k \in ComparedSymbols, NEW l \in ComparedSymbols,
                    SameSpelling(k, l)
             PROVE  k = l
  BY DEF InternedOnce
<1>1. PICK T, A : InvWith(T, A)
  BY DEF IInv
<1>2. k \in Keys(objects, T) /\ l \in Keys(objects, T)
  BY <1>1, ComparedAreInterned
<1>3. PICK i \in DOMAIN T : k = KeyAt(objects, T, i)
  BY <1>2 DEF Keys
<1>4. PICK j \in DOMAIN T : l = KeyAt(objects, T, j)
  BY <1>2 DEF Keys
<1>5. SpellAt(objects, T, i) = SpellAt(objects, T, j)
  BY <1>3, <1>4 DEF SameSpelling, At, SpellAt
<1>6. i = j
  BY <1>1, <1>5 DEF InvWith, InternOK
<1> QED BY <1>3, <1>4, <1>6

\* internSymbol returns the same object for the same spelling, whatever was
\* collected in between: kPtrEq in addName and kSymbolEq in internSymbol agree.
THEOREM SymbolsInternedOnce == Spec => []InternedOnce
BY TablesAreIntact, SymbolsAreInternedOnce, PTL
-----------------------------------------------------------------------------
(***************************************************************************)
(* That it implements Names: what index, values and trimmed stand for.     *)
(***************************************************************************)
TableIndex == [s \in DefinedSpellings |-> IndexOf(s)]
TableValues == SpellingsOf(SubSeq(Items, 1, Cardinality(DefinedSpellings)))
TableTrimmed == IF moduleRoot = Null THEN <<>>
                ELSE <<SpellingsOf(At(At(moduleRoot).elems[2]).elems)>>

\* The spellings of the names, and what the abstract state is for such a list.
Spells(A) == {SpellAt(objects, A, i) : i \in DOMAIN A}

View(A) ==
  /\ Len(A) \in Nat /\ DOMAIN A = 1..Len(A)
  /\ \A i, j \in DOMAIN A : SpellAt(objects, A, i) = SpellAt(objects, A, j) => i = j
  /\ \A i \in DOMAIN A : SpellAt(objects, A, i) \in Spellings
  /\ TableIndex = [s \in Spells(A) |-> TableIndex[s]]
  /\ \A i \in DOMAIN A : TableIndex[SpellAt(objects, A, i)] = Len(A) - i
  /\ TableValues = [j \in 1..Len(A) |-> objects[Elems[j].upper].spelling]
  /\ TableTrimmed = IF moduleRoot = Null THEN <<>> ELSE <<TableValues>>

\* Selecting from a list the entry that a name is spelled in.
LEMMA SelectedOnly ==
  ASSUME NEW n \in Nat, NEW P, NEW i \in 1..n, \A j \in 1..n : j \in P <=> j = i
  PROVE  LET I == {j \in 1..n : j \in P}
         IN  (IF I # {} THEN Min(I) ELSE 0) = i
<1> DEFINE I == {j \in 1..n : j \in P}
<1>1. I = {i}
  OBVIOUS
<1>2. Min({i}) = i
  <2>1. \E x \in {i} : \A y \in {i} : x <= y
    OBVIOUS
  <2> QED BY <2>1 DEF Min
<1> QED BY <1>1, <1>2

\* No two names are spelled the same.
LEMMA SpellingsDiffer ==
  ASSUME NEW T, NEW A, InvWith(T, A), NEW i \in DOMAIN A, NEW j \in DOMAIN A,
         SpellAt(objects, A, i) = SpellAt(objects, A, j)
  PROVE  i = j
<1>1. KeyAt(objects, A, i) \in Keys(objects, T) /\ KeyAt(objects, A, j) \in Keys(objects, T)
  BY DEF InvWith, NamesOK
<1>2. PICK p \in DOMAIN T : KeyAt(objects, A, i) = KeyAt(objects, T, p)
  BY <1>1 DEF Keys
<1>3. PICK q \in DOMAIN T : KeyAt(objects, A, j) = KeyAt(objects, T, q)
  BY <1>1 DEF Keys
<1>4. SpellAt(objects, T, p) = SpellAt(objects, T, q)
  BY <1>2, <1>3 DEF SpellAt
<1>5. KeyAt(objects, A, i) = KeyAt(objects, A, j)
  BY <1>2, <1>3, <1>4 DEF InvWith, InternOK
<1> QED BY <1>5 DEF InvWith, NamesOK

\* The invariant tells what the abstract state is.
LEMMA ViewHolds == \A T, A : InvWith(T, A) => View(A)
<1> SUFFICES ASSUME NEW T, NEW A, InvWith(T, A) PROVE View(A)
  OBVIOUS
<1> DEFINE es == Entries(assoc)
           L == Len(A)
<1>1. HeapOK(objects) /\ HandlesOK /\ ArrayOK /\ IsAssoc(objects, assoc, A)
  BY DEF InvWith, NamesOK
<1>2. L \in Nat /\ DOMAIN A = 1..L
  BY <1>1, AssocIsShort
<1>3. \A i, j \in DOMAIN A : SpellAt(objects, A, i) = SpellAt(objects, A, j) => i = j
  BY SpellingsDiffer
<1>4. \A i \in DOMAIN A : SpellAt(objects, A, i) \in Spellings
  BY <1>1, AssocIsThere
<1>5. es = [i \in 1..L |-> objects[A[i]].car]
  BY <1>1, EntriesOfAssoc, EntriesAreThose
<1> HIDE DEF es
<1>6. /\ Len(es) = L
      /\ \A i \in 1..L : /\ es[i] = objects[A[i]].car
                         /\ At(Car(es[i])).spelling = SpellAt(objects, A, i)
                         /\ Cdr(es[i]) = ValAt(objects, A, i)
  BY <1>2, <1>5 DEF At, Car, Cdr, SpellAt, KeyAt, ValAt, EntryAt
<1>7. DefinedSpellings = Spells(A)
  <2>1. Range(es) = {es[i] : i \in 1..L}
    BY <1>5 DEF Range
  <2>2. DefinedSpellings = {At(Car(es[i])).spelling : i \in 1..L}
    BY <2>1 DEF DefinedSpellings, es
  <2> QED BY <2>2, <1>2, <1>6 DEF Spells
<1>8. ASSUME NEW i \in DOMAIN A
      PROVE  IndexOf(SpellAt(objects, A, i)) = L - i
  <2> DEFINE s == SpellAt(objects, A, i)
             P == {j \in 1..L : SpellAt(objects, A, j) = s}
             I == {j \in 1..L : j \in P}
             k == IF I # {} THEN Min(I) ELSE 0
  <2>1. \A j \in 1..L : j \in P <=> j = i
    BY <1>2, <1>3
  <2>2. {j \in 1..Len(es) : At(Car(es[j])).spelling = s} = I
    BY <1>6
  <2> HIDE DEF P, s
  <2>3. k = i
    BY <2>1, <1>2, SelectedOnly
  <2> HIDE DEF I
  <2>4. IndexOf(s) = Cdr(es[k]).upper
    BY <2>2 DEF IndexOf, SelectInSeq, es
  <2> HIDE DEF k
  <2>5. Cdr(es[k]) = Fixnum(L - i)
    BY <2>3, <1>2, <1>6 DEF InvWith, NamesOK
  <2> QED BY <2>4, <2>5 DEF s, Fixnum
<1>9. /\ TableIndex = [s \in Spells(A) |-> TableIndex[s]]
      /\ \A i \in DOMAIN A : TableIndex[SpellAt(objects, A, i)] = L - i
  <2>1. TableIndex = [s \in Spells(A) |-> IndexOf(s)]
    BY <1>7 DEF TableIndex
  <2>2. \A i \in DOMAIN A : SpellAt(objects, A, i) \in Spells(A)
    BY DEF Spells
  <2> QED BY <2>1, <2>2, <1>8
<1>10. Cardinality(DefinedSpellings) = L
  <2> DEFINE f == [i \in 1..L |-> SpellAt(objects, A, i)]
  <2>1. f \in Bijection(1..L, Spells(A))
    <3>1. f \in Injection(1..L, Spells(A))
      BY <1>2, <1>3 DEF Injection, IsInjective, Spells
    <3>2. f \in Surjection(1..L, Spells(A))
      BY <1>2 DEF Surjection, Spells
    <3> QED BY <3>1, <3>2 DEF Bijection
  <2>2. IsFiniteSet(1..L) /\ Cardinality(1..L) = L
    <3>1. 1 \in Int /\ L \in Int
      BY <1>2
    <3>2. /\ IsFiniteSet(1..L)
          /\ Cardinality(1..L) = IF 1 > L THEN 0 ELSE L - 1 + 1
      BY <3>1, FS_Interval
    <3> QED BY <3>2, <1>2
  <2> HIDE DEF f
  <2>3. ExistsBijection(1..L, Spells(A))
    BY <2>1 DEF ExistsBijection
  <2> QED BY <2>2, <2>3, <1>7, FS_Bijection
<1>11. /\ Items \in Seq(Word) /\ Len(Items) = arrayLength
       /\ \A i \in 1..arrayLength : Items[i] = Elems[i]
       /\ arrayLength \in Nat
  BY <1>1, Layout, ItemsAre DEF ArrayOK
<1>12. \A j \in 1..L : /\ j \in 1..arrayLength
                       /\ Elems[j].tag = "symbol"
  BY ElementsOfNames, KeysAreSymbols DEF InvWith, InternOK
<1>13. TableValues = [j \in 1..L |-> objects[Elems[j].upper].spelling]
  <2> DEFINE ws == SubSeq(Items, 1, L)
  <2>1. ws = [j \in 1..L |-> Elems[j]]
    <3>1. L <= Len(Items)
      <4>1. arrayLength = L + 1 \/ arrayLength = L
        BY DEF InvWith, NamesOK
      <4> HIDE DEF L
      <4> QED BY <4>1, <1>2, <1>11
    <3>2. ws = [j \in 1..L |-> Items[j]]
      BY <1>2, <1>11, <3>1
    <3> HIDE DEF ws
    <3> QED BY <3>2, <1>11, <1>12
  <2> HIDE DEF ws
  <2>2. SpellingsOf(ws) = [j \in 1..L |-> objects[Elems[j].upper].spelling]
    BY <2>1, <1>12 DEF SpellingsOf, At
  <2> QED BY <2>2, <1>10 DEF TableValues, ws
<1>14. TableTrimmed = IF moduleRoot = Null THEN <<>> ELSE <<TableValues>>
  <2> SUFFICES ASSUME moduleRoot # Null PROVE TableTrimmed = <<TableValues>>
    BY DEF TableTrimmed
  <2>1. At(At(moduleRoot).elems[2]).elems = Items /\ pc = "idle"
    BY DEF InvWith, TrimOK
  <2>2. arrayLength = L
    BY <2>1 DEF InvWith, NamesOK, Appended
  <2>3. SubSeq(Items, 1, Cardinality(DefinedSpellings)) = Items
    BY <2>2, <1>10, <1>11, SubSeqFull
  <2> QED BY <2>1, <2>3 DEF TableTrimmed, TableValues
<1> QED BY <1>2, <1>3, <1>4, <1>9, <1>13, <1>14 DEF View

\* The same of the next state.
LEMMA ViewHoldsNext == \A T, A : InvWith(T, A)' => View(A)'
<1>1. (\A T, A : InvWith(T, A) => View(A))'
  BY ViewHolds, PTL
<1> QED BY <1>1

-----------------------------------------------------------------------------
\* A table that says the same is the same abstract table.
LEMMA SameViewStutters ==
  ASSUME NEW A, View(A), View(A)', SameView(A)
  PROVE  /\ TableIndex' = TableIndex /\ TableValues' = TableValues
         /\ moduleRoot' = moduleRoot => TableTrimmed' = TableTrimmed
<1>1. Spells(A)' = Spells(A)
  BY DEF SameView, Spells
<1>2. TableIndex' = TableIndex
  <2>1. \A s \in Spells(A) : TableIndex'[s] = TableIndex[s]
    <3>1. ASSUME NEW i \in DOMAIN A
          PROVE  TableIndex'[SpellAt(objects, A, i)] = TableIndex[SpellAt(objects, A, i)]
      BY DEF View, SameView
    <3> QED BY <3>1 DEF Spells
  <2>2. /\ TableIndex = [s \in Spells(A) |-> TableIndex[s]]
        /\ TableIndex' = [s \in Spells(A) |-> TableIndex'[s]]
    BY <1>1 DEF View
  <2> QED BY <2>1, <2>2
<1>3. TableValues' = TableValues
  BY DEF View, SameView
<1>4. moduleRoot' = moduleRoot => TableTrimmed' = TableTrimmed
  BY <1>3 DEF View
<1> QED BY <1>2, <1>3, <1>4

\* Where the name was defined before.
LEMMA RedefinedDefines ==
  ASSUME NEW A, View(A), View(A)', Redefined(A),
         moduleRoot = Null, moduleRoot' = Null,
         At(local.name).spelling \in Spellings, At(local.val).spelling \in Values
  PROVE  \E s \in Spellings, v \in Values :
           /\ TableTrimmed = <<>> /\ TableTrimmed' = TableTrimmed
           /\ s \in DOMAIN TableIndex
           /\ TableValues' = [TableValues EXCEPT ![TableIndex[s] + 1] = v]
           /\ TableIndex' = TableIndex
<1> DEFINE s == At(local.name).spelling
           v == At(local.val).spelling
<1>1. PICK i \in DOMAIN A :
        /\ SpellAt(objects, A, i) = s
        /\ \A j \in 1..Len(A) :
             objects'[Elems'[j].upper].spelling =
               IF j = Len(A) - i + 1 THEN v ELSE objects[Elems[j].upper].spelling
  BY DEF Redefined
<1> HIDE DEF s, v
<1>2. Spells(A)' = Spells(A)
  BY DEF Redefined, Spells
<1>3. TableIndex' = TableIndex
  <2>1. \A x \in Spells(A) : TableIndex'[x] = TableIndex[x]
    <3>1. ASSUME NEW k \in DOMAIN A
          PROVE  TableIndex'[SpellAt(objects, A, k)] = TableIndex[SpellAt(objects, A, k)]
      BY DEF View, Redefined
    <3> QED BY <3>1 DEF Spells
  <2>2. /\ TableIndex = [x \in Spells(A) |-> TableIndex[x]]
        /\ TableIndex' = [x \in Spells(A) |-> TableIndex'[x]]
    BY <1>2 DEF View
  <2> QED BY <2>1, <2>2
<1>4. s \in DOMAIN TableIndex /\ TableIndex[s] = Len(A) - i
  <2>1. s \in Spells(A)
    BY <1>1 DEF Spells
  <2> QED BY <2>1, <1>1 DEF View
<1>5. TableValues' = [TableValues EXCEPT ![TableIndex[s] + 1] = v]
  <2> DEFINE old == [j \in 1..Len(A) |-> objects[Elems[j].upper].spelling]
             new == [j \in 1..Len(A) |-> objects'[Elems'[j].upper].spelling]
  <2>1. TableValues = old /\ TableValues' = new
    BY DEF View
  <2>2. new = [old EXCEPT ![Len(A) - i + 1] = v]
    <3>1. new = [j \in 1..Len(A) |->
                   IF j = Len(A) - i + 1 THEN v ELSE objects[Elems[j].upper].spelling]
      BY <1>1
    <3> HIDE DEF new
    <3> QED BY <3>1
  <2> HIDE DEF old, new
  <2> QED BY <2>1, <2>2, <1>4
<1>6. TableTrimmed = <<>> /\ TableTrimmed' = TableTrimmed
  BY DEF View
<1>7. s \in Spellings /\ v \in Values
  BY DEF s, v
<1> QED BY <1>3, <1>4, <1>5, <1>6, <1>7

\* Where it was not.
LEMMA ExtendedDefines ==
  ASSUME NEW A, NEW A2, View(A), View(A2)', Extended(A, A2),
         moduleRoot = Null, moduleRoot' = Null,
         At(local.name).spelling \in Spellings, At(local.val).spelling \in Values
  PROVE  \E s \in Spellings, v \in Values :
           /\ TableTrimmed = <<>> /\ TableTrimmed' = TableTrimmed
           /\ s \notin DOMAIN TableIndex
           /\ TableValues' = Append(TableValues, v)
           /\ TableIndex' = [x \in DOMAIN TableIndex \cup {s} |->
                              IF x = s THEN Len(TableValues) ELSE TableIndex[x]]
<1> DEFINE s == At(local.name).spelling
           v == At(local.val).spelling
           L == Len(A)
<1>1. /\ Len(A2) = L + 1
      /\ SpellAt(objects', A2, 1) = s
      /\ \A i \in DOMAIN A : SpellAt(objects', A2, i + 1) = SpellAt(objects, A, i)
      /\ \A j \in 1..(L + 1) :
           objects'[Elems'[j].upper].spelling =
             IF j = L + 1 THEN v ELSE objects[Elems[j].upper].spelling
  BY DEF Extended
<1> HIDE DEF s, v
<1>2. L \in Nat /\ DOMAIN A = 1..L /\ DOMAIN A2 = 1..(L + 1)
  BY <1>1 DEF View
<1>3. \A i \in DOMAIN A2 : i = 1 \/ (i - 1 \in DOMAIN A /\ (i - 1) + 1 = i)
  BY <1>2
<1>4. \A i \in DOMAIN A : i + 1 \in DOMAIN A2 /\ i + 1 # 1
  BY <1>2
<1>5. /\ DOMAIN TableIndex = Spells(A)
      /\ \A i \in DOMAIN A : TableIndex[SpellAt(objects, A, i)] = L - i
      /\ TableIndex' = [x \in Spells(A2)' |-> TableIndex'[x]]
      /\ \A i \in DOMAIN A2 : TableIndex'[SpellAt(objects', A2, i)] = L + 1 - i
      /\ \A i, j \in DOMAIN A2 : SpellAt(objects', A2, i) = SpellAt(objects', A2, j) => i = j
  <2>1. DOMAIN TableIndex = Spells(A)
    <3>1. TableIndex = [x \in Spells(A) |-> TableIndex[x]]
      BY DEF View
    <3> QED BY <3>1
  <2>2. \A i \in DOMAIN A : TableIndex[SpellAt(objects, A, i)] = L - i
    BY DEF View
  <2>3. TableIndex' = [x \in Spells(A2)' |-> TableIndex'[x]]
    BY DEF View
  <2>4. \A i \in DOMAIN A2 : TableIndex'[SpellAt(objects', A2, i)] = L + 1 - i
    <3>1. \A i \in DOMAIN A2 : TableIndex'[SpellAt(objects', A2, i)] = Len(A2) - i
      BY DEF View
    <3>2. Len(A2) = L + 1
      BY <1>1
    <3> HIDE DEF L
    <3> QED BY <3>1, <3>2, <1>2
  <2>5. \A i, j \in DOMAIN A2 :
          SpellAt(objects', A2, i) = SpellAt(objects', A2, j) => i = j
    BY DEF View
  <2> QED BY ONLY <2>1, <2>2, <2>3, <2>4, <2>5
<1>6. Spells(A2)' = Spells(A) \cup {s}
  <2>1. 1 \in DOMAIN A2
    BY <1>2
  <2>2. Spells(A2)' = {SpellAt(objects', A2, i) : i \in DOMAIN A2}
    BY DEF Spells
  <2>3. \A x \in Spells(A2)' : x \in Spells(A) \cup {s}
    BY <2>2, <1>1, <1>3 DEF Spells
  <2>4. \A x \in Spells(A) : x \in Spells(A2)'
    BY <2>2, <1>1, <1>4 DEF Spells
  <2>5. s \in Spells(A2)'
    BY <2>1, <2>2, <1>1
  <2> QED BY <2>3, <2>4, <2>5
<1>7. s \notin Spells(A)
  <2>1. \A i \in DOMAIN A : SpellAt(objects, A, i) # s
    <3> TAKE i \in DOMAIN A
    <3>1. 1 \in DOMAIN A2
      BY <1>2
    <3> QED BY <3>1, <1>1, <1>4, <1>5
  <2> QED BY <2>1 DEF Spells
<1>8. TableValues = [j \in 1..L |-> objects[Elems[j].upper].spelling] /\ Len(TableValues) = L
  BY <1>2 DEF View
<1>9. \A x \in Spells(A) \cup {s} : TableIndex'[x] = IF x = s THEN L ELSE TableIndex[x]
  <2>1. TableIndex'[s] = L
    <3>1. 1 \in DOMAIN A2 /\ L + 1 - 1 = L
      BY <1>2
    <3> QED BY <3>1, <1>1, <1>5
  <2>2. ASSUME NEW i \in DOMAIN A
        PROVE  TableIndex'[SpellAt(objects, A, i)] = TableIndex[SpellAt(objects, A, i)]
    <3>1. TableIndex'[SpellAt(objects', A2, i + 1)] = L + 1 - (i + 1)
      BY <1>4, <1>5
    <3>2. L + 1 - (i + 1) = L - i
      BY <1>2
    <3> QED BY <3>1, <3>2, <1>1, <1>5
  <2> QED BY <2>1, <2>2, <1>7 DEF Spells
<1>10. TableIndex' = [x \in DOMAIN TableIndex \cup {s} |->
                        IF x = s THEN Len(TableValues) ELSE TableIndex[x]]
  BY <1>5, <1>6, <1>8, <1>9
<1>11. TableValues' = Append(TableValues, v)
  <2>1. TableValues' = [j \in 1..(L + 1) |-> objects'[Elems'[j].upper].spelling]
    BY <1>1 DEF View
  <2>2. TableValues' = [j \in 1..(L + 1) |->
                          IF j = L + 1 THEN v ELSE objects[Elems[j].upper].spelling]
    BY <2>1, <1>1
  <2>3. Append(TableValues, v) =
          [j \in 1..(L + 1) |-> IF j <= L THEN TableValues[j] ELSE v]
    BY <1>2, <1>8
  <2>4. \A j \in 1..(L + 1) : j = L + 1 \/ (j \in 1..L /\ j <= L /\ j # L + 1)
    BY <1>2
  <2>5. ~(L + 1 <= L)
    BY <1>2
  <2> QED BY <2>2, <2>3, <2>4, <2>5, <1>8
<1>12. TableTrimmed = <<>> /\ TableTrimmed' = TableTrimmed
  BY DEF View
<1>13. s \in Spellings /\ v \in Values
  BY DEF s, v
<1> QED BY <1>5, <1>7, <1>10, <1>11, <1>12, <1>13

-----------------------------------------------------------------------------
\* What a step of the name table is for Names.
NamesStep ==
  \/ TableIndex' = TableIndex /\ TableValues' = TableValues /\ TableTrimmed' = TableTrimmed
  \/ /\ TableTrimmed = <<>> /\ TableTrimmed' = <<TableValues>>
     /\ TableIndex' = TableIndex /\ TableValues' = TableValues
  \/ \E s \in Spellings, v \in Values :
       /\ TableTrimmed = <<>> /\ TableTrimmed' = TableTrimmed
       /\ s \in DOMAIN TableIndex
       /\ TableValues' = [TableValues EXCEPT ![TableIndex[s] + 1] = v]
       /\ TableIndex' = TableIndex
  \/ \E s \in Spellings, v \in Values :
       /\ TableTrimmed = <<>> /\ TableTrimmed' = TableTrimmed
       /\ s \notin DOMAIN TableIndex
       /\ TableValues' = Append(TableValues, v)
       /\ TableIndex' = [x \in DOMAIN TableIndex \cup {s} |->
                          IF x = s THEN Len(TableValues) ELSE TableIndex[x]]

\* That is a step of Names, or none.
LEMMA NamesStepIsTaken == NamesStep => [Table!Next]_Table!vars
<1> SUFFICES ASSUME NamesStep PROVE [Table!Next]_Table!vars
  OBVIOUS
<1> USE DEF Table!Next, Table!Trim, Table!Define, Table!vars, TableIndex, TableValues,
            TableTrimmed
<1>1. CASE TableIndex' = TableIndex /\ TableValues' = TableValues /\ TableTrimmed' = TableTrimmed
  BY <1>1
<1>2. CASE /\ TableTrimmed = <<>> /\ TableTrimmed' = <<TableValues>>
           /\ TableIndex' = TableIndex /\ TableValues' = TableValues
  BY <1>2
<1>3. ASSUME NEW s \in Spellings, NEW v \in Values,
             TableTrimmed = <<>>, TableTrimmed' = TableTrimmed,
             s \in DOMAIN TableIndex,
             TableValues' = [TableValues EXCEPT ![TableIndex[s] + 1] = v],
             TableIndex' = TableIndex
      PROVE  Table!Define(s, v)
  BY <1>3
<1>4. ASSUME NEW s \in Spellings, NEW v \in Values,
             TableTrimmed = <<>>, TableTrimmed' = TableTrimmed,
             s \notin DOMAIN TableIndex,
             TableValues' = Append(TableValues, v),
             TableIndex' = [x \in DOMAIN TableIndex \cup {s} |->
                             IF x = s THEN Len(TableValues) ELSE TableIndex[x]]
      PROVE  Table!Define(s, v)
  BY <1>4
<1> QED BY ONLY <1>1, <1>2, <1>3, <1>4, NamesStep DEF NamesStep, Table!Next

\* At first nothing is defined.
LEMMA InitIsEmpty == Init => Table!Init
<1> SUFFICES ASSUME Init PROVE Table!Init
  OBVIOUS
<1>1. PICK T, A : InvWith(T, A)
  BY InitHolds DEF IInv
<1>2. assoc = Nil /\ moduleRoot = Null
  <2>1. root = Pointer("vector", 0) /\ moduleRoot = Null
    BY DEF Init
  <2>2. objects[0] = Vector(<<Nil, Pointer("pair", 1)>>)
    BY DEF Init
  <2> QED BY <2>1, <2>2 DEF assoc, At, Pointer, Vector
<1>3. A = <<>>
  <2>1. IsAssoc(objects, Nil, A) /\ Len(A) \in Nat /\ DOMAIN A = 1..Len(A)
    BY <1>1, <1>2, AssocIsShort DEF InvWith, NamesOK
  <2>2. Nil = Link(A, 1)
    BY <2>1 DEF IsAssoc
  <2>3. Pointer("pair", A[1]) # Nil
    BY DEF Nil, Pointer
  <2>4. 1 \notin DOMAIN A
    BY <2>2, <2>3 DEF Link
  <2>5. Len(A) = 0 /\ A \in Seq(DOMAIN objects)
    BY <2>1, <2>4 DEF IsAssoc
  <2> QED BY <2>5
<1>4. View(A)
  BY <1>1, ViewHolds
<1>5. TableIndex = [s \in {} |-> 0] /\ TableValues = <<>> /\ TableTrimmed = <<>>
  <2>1. Spells(A) = {} /\ Len(A) = 0
    BY <1>3 DEF Spells
  <2>2. TableIndex = [s \in {} |-> TableIndex[s]]
    BY <2>1, <1>4 DEF View
  <2>3. [s \in {} |-> TableIndex[s]] = [s \in {} |-> 0]
    OBVIOUS
  <2>4. TableValues = [j \in 1..0 |-> objects[Elems[j].upper].spelling]
    BY <2>1, <1>4 DEF View
  <2>5. TableValues = <<>>
    BY <2>4
  <2> QED BY <2>2, <2>3, <2>5, <1>2, <1>4 DEF View
<1> QED BY <1>5 DEF Table!Init, TableIndex, TableValues, TableTrimmed

\* Where the table is what it was, a step that does not trim it is none.
LEMMA SameViewIsNone ==
  ASSUME NEW T, NEW A, InvWith(T, A), InvWith(T, A)', SameView(A), moduleRoot' = moduleRoot
  PROVE  NamesStep
BY ViewHolds, ViewHoldsNext, SameViewStutters DEF NamesStep

\* What addName is called with.
LEMMA CallNames ==
  ASSUME NEW T, NEW A, InvWith(T, A), Adding
  PROVE  /\ At(local.name).spelling \in Spellings /\ At(local.val).spelling \in Values
         /\ moduleRoot = Null
<1>1. local.name \in Keys(objects, T)
  BY DEF InvWith, CallOK
<1>2. objects[local.name.upper].spelling \in Spellings
  BY <1>1, KeysAreSymbols DEF InvWith, InternOK
<1>3. At(local.val).spelling \in Values
  BY DEF InvWith, CallOK
<1>4. moduleRoot = Null
  BY DEF InvWith, TrimOK, Adding
<1> QED BY <1>2, <1>3, <1>4 DEF At

\* Every step of the name table is one of these.
LEMMA StepsAreOfNames ==
  ASSUME IInv, [Next]_vars
  PROVE  NamesStep
<1>1. PICK T, A : InvWith(T, A)
  BY DEF IInv
<1>2. CASE \E s \in Spellings, v \in Values : Begin(s, v)
  BY <1>1, <1>2, BeginKeeps, SameViewIsNone DEF Begin
<1>3. CASE NewSymbol
  BY <1>1, <1>3, NewSymbolKeeps, SameViewIsNone DEF NewSymbol
<1>4. CASE InternLookup
  BY <1>1, <1>4, InternLookupKeeps, SameViewIsNone DEF InternLookup
<1>5. CASE InternEntry
  BY <1>1, <1>5, InternEntryKeeps, SameViewIsNone DEF InternEntry
<1>6. CASE InternCons
  <2>1. PICK T2 : InvWith(T2, A)' /\ SameView(A)
    BY <1>1, <1>6, InternConsKeeps
  <2>2. View(A) /\ View(A)' /\ moduleRoot' = moduleRoot
    BY <1>1, <1>6, <2>1, ViewHolds, ViewHoldsNext DEF InternCons
  <2> QED BY <2>1, <2>2, SameViewStutters DEF NamesStep
<1>7. CASE AddName
  <2>1. moduleRoot' = moduleRoot /\ Adding
    BY <1>7 DEF AddName, Adding
  <2>2. InvWith(T, A)' /\ (SameView(A) \/ Redefined(A))
    BY <1>1, <1>7, AddNameKeeps
  <2>3. CASE SameView(A)
    BY <1>1, <2>1, <2>2, <2>3, SameViewIsNone
  <2>4. CASE Redefined(A)
    <3>1. View(A) /\ View(A)'
      BY <1>1, <2>2, ViewHolds, ViewHoldsNext
    <3> QED BY <1>1, <2>1, <2>4, <3>1, CallNames, RedefinedDefines DEF NamesStep
  <2> QED BY <2>2, <2>3, <2>4
<1>8. CASE AppendItem
  BY <1>1, <1>8, AppendItemKeeps, SameViewIsNone DEF AppendItem
<1>9. CASE GrowArray
  BY <1>1, <1>9, GrowArrayKeeps, SameViewIsNone DEF GrowArray
<1>10. CASE NameEntry
  BY <1>1, <1>10, NameEntryKeeps, SameViewIsNone DEF NameEntry
<1>11. CASE NameCons
  <2>1. moduleRoot' = moduleRoot /\ Adding
    BY <1>11 DEF NameCons, Adding
  <2>2. PICK A2 : InvWith(T, A2)' /\ Extended(A, A2)
    BY <1>1, <1>11, NameConsKeeps
  <2>3. View(A) /\ View(A2)'
    BY <1>1, <2>2, ViewHolds, ViewHoldsNext
  <2> QED BY <1>1, <2>1, <2>2, <2>3, CallNames, ExtendedDefines DEF NamesStep
<1>12. CASE TrimArray
  BY <1>1, <1>12, TrimArrayKeeps, SameViewIsNone DEF TrimArray
<1>13. CASE NewRoot
  <2>1. moduleRoot = Null /\ moduleRoot' # Null
    <3>1. moduleRoot = Null
      BY <1>1, <1>13 DEF InvWith, TrimOK, NewRoot
    <3>2. moduleRoot'.tag = "vector"
      BY <1>13 DEF NewRoot, NewWord, Vector, Pointer
    <3> QED BY <3>1, <3>2 DEF Null
  <2>2. InvWith(T, A)' /\ SameView(A)
    BY <1>1, <1>13, NewRootKeeps
  <2>3. View(A) /\ View(A)'
    BY <1>1, <2>2, ViewHolds, ViewHoldsNext
  <2>4. TableIndex' = TableIndex /\ TableValues' = TableValues
    BY <2>2, <2>3, SameViewStutters
  <2>5. TableTrimmed = <<>> /\ TableTrimmed' = <<TableValues'>>
    BY <2>1, <2>3 DEF View
  <2> QED BY <2>4, <2>5 DEF NamesStep
<1>14. CASE UNCHANGED vars
  BY <1>1, <1>14, StutterKeeps, SameViewIsNone DEF vars
<1> QED BY <1>2, <1>3, <1>4, <1>5, <1>6, <1>7, <1>8, <1>9, <1>10, <1>11, <1>12, <1>13,
           <1>14 DEF Next

\* Module keeps the promise of Names, for any spellings, values and number of
\* calls: a name gets its index once, its value is the last one given to it, and
\* what getRoot returns has exactly the values, through lists that are searched,
\* arrays that grow, and collections at every allocation.
THEOREM NameTableImplementsNames == Spec => ImplementsNames
<1>1. Init => Table!Init
  BY InitIsEmpty
<1>2. IInv /\ [Next]_vars => [Table!Next]_Table!vars
  BY StepsAreOfNames, NamesStepIsTaken
<1> QED BY <1>1, <1>2, TablesAreIntact, PTL DEF Spec, ImplementsNames, Table!Spec
=============================================================================
