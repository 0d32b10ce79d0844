----------------------------- MODULE HeapProofs -----------------------------
(***************************************************************************)
(* The inductive invariant of the heap, and that every step of clients and *)
(* collector preserves it, so that for any heap size, any roots and any    *)
(* requests: copies fit into the new space, no two objects overlap, and    *)
(* when the old space is given up nothing points there.                    *)
(*                                                                         *)
(* No address is mentioned in what is said of words: they are in order as  *)
(* long as every object keeps its kind, whether it is the original or the  *)
(* copy.  The argument that gcScavenge needs no test for room: the units   *)
(* copied so far are exactly those of the marked objects, which were all   *)
(* in the old space.  The argument that nothing dangles: every word of the *)
(* new space and every root points into the new space, or is still to be   *)
(* scavenged.                                                              *)
(***************************************************************************)
EXTENDS Heap, SequenceTheorems, FiniteSetTheorems, TLAPS

Mem(x, s) == \E i \in DOMAIN s : s[i] = x

(***************************************************************************)
(* Words and objects.                                                      *)
(***************************************************************************)
\* The vector of constant offsets of a function; only it has fixnums.
IsOffsets(o) ==
  o.tag = "vector" /\ \E i \in DOMAIN o.fields : o.fields[i].tag = "fixnum"

\* A word that clients may see, in heap h.
Plain(w, h) ==
  /\ w \in Word
  /\ w.tag # "fixnum"
  /\ IsHeapAllocated(w) =>
       /\ w.upper \in DOMAIN h /\ h[w.upper].tag = w.tag
       /\ ~IsOffsets(h[w.upper])

\* The word of a vector of n offsets.
OffsetsWord(w, n, h) ==
  /\ w \in Word
  /\ w.tag = "vector"
  /\ w.upper \in DOMAIN h
  /\ h[w.upper].tag = "vector"
  /\ h[w.upper].fields = [i \in 1..n |-> Fixnum(i)]

CodeOK(f, h, cd) ==
  /\ f \in Funs
  /\ Len(cd[f]) >= 2
  /\ Plain(cd[f][1], h)
  /\ OffsetsWord(cd[f][2], Len(cd[f]) - 2, h)
  /\ \A i \in 3..Len(cd[f]) : Plain(cd[f][i], h)

ObjectOK(o, h, cd) ==
  /\ o.tag = "closure" => o.fields = <<>>
  /\ o.tag # "closure" => o.info = NoFun
  /\ IsOffsets(o) => \A i \in DOMAIN o.fields : o.fields[i].tag = "fixnum"
  /\ ~IsOffsets(o) => \A i \in DOMAIN o.fields : Plain(o.fields[i], h)
  /\ o.info # NoFun => CodeOK(o.info, h, cd)

WordsOK ==
  /\ \A r \in Roots : Plain(roots[r], heap)
  /\ \A a \in DOMAIN heap : ObjectOK(heap[a], heap, code)

(***************************************************************************)
(* Layout.                                                                 *)
(***************************************************************************)
InFrom(a) == Within(a, fromSpace, heapPtr)
InTo(a) == Within(a, toSpace, heapCopyPtr)

Layout ==
  /\ fromSpace <= heapPtr /\ heapPtr <= fromSpace + HeapSize
  /\ \A a \in DOMAIN heap : heap[a].size >= 1
  /\ \A a \in DOMAIN heap : InFrom(a) \/ (pc = "scavenge" /\ InTo(a))
  /\ \A a, b \in DOMAIN heap : a < b => a + heap[a].size <= b

\* The units of the objects that were copied.
CopiedUnits(h) ==
  {u \in fromSpace..(heapPtr - 1) :
     \E a \in DOMAIN h : h[a].mark /\ a <= u /\ u < a + h[a].size}

Room == pc = "scavenge" => heapCopyPtr = toSpace + Cardinality(CopiedUnits(heap))

\* What moving, storing and linking leave alone in an object.
SameKind(o, p) ==
  /\ o.tag = p.tag
  /\ DOMAIN o.fields = DOMAIN p.fields
  /\ \A i \in DOMAIN o.fields :
       o.fields[i].tag = "fixnum" \/ p.fields[i].tag = "fixnum" =>
         o.fields[i] = p.fields[i]

Marks ==
  \A a \in DOMAIN heap : heap[a].mark =>
    /\ pc = "scavenge"
    /\ InFrom(a)
    /\ heap[a].copiedTo \in DOMAIN heap
    /\ InToSpace(heap[a].copiedTo)
    /\ SameKind(heap[a], heap[heap[a].copiedTo])
    /\ heap[a].info = heap[heap[a].copiedTo].info

(***************************************************************************)
(* Work.                                                                   *)
(***************************************************************************)
Linked(f) == f # NoFun /\ \E a \in DOMAIN heap : heap[a].info = f

ValidLocation(l) ==
  \/ l[1] = "root" /\ l[2] \in Roots /\ l[3] = 0
  \/ /\ l[1] = "field"
     /\ l[2] \in DOMAIN heap /\ InToSpace(l[2])
     /\ l[3] \in DOMAIN heap[l[2]].fields
  \/ l[1] = "code" /\ Linked(l[2]) /\ l[3] \in DOMAIN code[l[2]]
  \/ l[1] = "consts" /\ Linked(l[2])

Clean(w) == IsHeapAllocated(w) => InToSpace(w.upper)

CoveredObject(a) ==
  /\ \A i \in DOMAIN heap[a].fields :
       Clean(heap[a].fields[i]) \/ Mem(<<"field", a, i>>, work)
  /\ heap[a].info # NoFun =>
       \A i \in DOMAIN code[heap[a].info] :
         \/ Clean(code[heap[a].info][i])
         \/ Mem(<<"code", heap[a].info, i>>, work)
         \/ i > 2 /\ Mem(<<"consts", heap[a].info, 0>>, work)

RootsCovered ==
  \A r \in Roots : Clean(roots[r]) \/ Mem(<<"root", r, 0>>, work)

Covered ==
  /\ RootsCovered
  /\ \A a \in DOMAIN heap : InToSpace(a) => CoveredObject(a)

WorkOK ==
  pc = "scavenge" => Covered /\ \A l : Mem(l, work) => ValidLocation(l)

RequestOK == pc \in {"scavenge", "check"} => req \in Requests /\ MayRequest(req)

IInv ==
  /\ TypeOK
  /\ WordsOK
  /\ Layout
  /\ Room
  /\ Marks
  /\ WorkOK
  /\ RequestOK

-----------------------------------------------------------------------------
(***************************************************************************)
(* Sequences of locations.                                                 *)
(***************************************************************************)
\* Taking the head off a sequence takes nothing else away.
LEMMA MemTail ==
  ASSUME NEW S, NEW s \in Seq(S), s # <<>>, NEW x
  PROVE  /\ Mem(Head(s), s)
         /\ Mem(x, Tail(s)) => Mem(x, s)
         /\ Mem(x, s) => x = Head(s) \/ Mem(x, Tail(s))
<1>1. Len(s) \in Nat /\ Len(s) >= 1 /\ DOMAIN s = 1..Len(s) /\ Head(s) = s[1]
  BY EmptySeq, LenProperties
<1>2. /\ Len(Tail(s)) = Len(s) - 1 /\ DOMAIN Tail(s) = 1..(Len(s) - 1)
      /\ \A i \in 1..(Len(s) - 1) : Tail(s)[i] = s[i + 1]
  BY <1>1, HeadTailProperties
<1>3. Mem(Head(s), s)
  BY <1>1 DEF Mem
<1>4. ASSUME Mem(x, Tail(s)) PROVE Mem(x, s)
  <2>1. PICK i \in 1..(Len(s) - 1) : Tail(s)[i] = x
    BY <1>2, <1>4 DEF Mem
  <2> QED BY <1>1, <1>2, <2>1 DEF Mem
<1>5. ASSUME Mem(x, s), x # Head(s) PROVE Mem(x, Tail(s))
  <2>1. PICK i \in 1..Len(s) : s[i] = x
    BY <1>1, <1>5 DEF Mem
  <2>2. i - 1 \in 1..(Len(s) - 1) /\ Tail(s)[i - 1] = x
    BY <1>1, <1>2, <1>5, <2>1
  <2> QED BY <1>2, <2>2 DEF Mem
<1> QED BY <1>3, <1>4, <1>5

\* A concatenation holds what its parts hold.
LEMMA MemConcat ==
  ASSUME NEW S, NEW s \in Seq(S), NEW t \in Seq(S), NEW x
  PROVE  Mem(x, s \o t) <=> Mem(x, s) \/ Mem(x, t)
<1>1. /\ DOMAIN s = 1..Len(s) /\ DOMAIN t = 1..Len(t)
      /\ Len(s) \in Nat /\ Len(t) \in Nat
  BY LenProperties
<1>2. /\ DOMAIN (s \o t) = 1..(Len(s) + Len(t))
      /\ \A i \in 1..(Len(s) + Len(t)) :
           (s \o t)[i] = IF i <= Len(s) THEN s[i] ELSE t[i - Len(s)]
  BY <1>1
<1>3. ASSUME Mem(x, s \o t) PROVE Mem(x, s) \/ Mem(x, t)
  <2>1. PICK i \in 1..(Len(s) + Len(t)) : (s \o t)[i] = x
    BY <1>2, <1>3 DEF Mem
  <2>2. CASE i <= Len(s)
    BY <1>1, <1>2, <2>1, <2>2 DEF Mem
  <2>3. CASE ~(i <= Len(s))
    <3>1. i - Len(s) \in 1..Len(t) /\ t[i - Len(s)] = x
      BY <1>1, <1>2, <2>1, <2>3
    <3> QED BY <1>1, <3>1 DEF Mem
  <2> QED BY <2>2, <2>3
<1>4. ASSUME Mem(x, s) PROVE Mem(x, s \o t)
  <2>1. PICK i \in 1..Len(s) : s[i] = x
    BY <1>1, <1>4 DEF Mem
  <2> QED BY <1>1, <1>2, <2>1 DEF Mem
<1>5. ASSUME Mem(x, t) PROVE Mem(x, s \o t)
  <2>1. PICK i \in 1..Len(t) : t[i] = x
    BY <1>1, <1>5 DEF Mem
  <2>2. Len(s) + i \in 1..(Len(s) + Len(t)) /\ (s \o t)[Len(s) + i] = x
    BY <1>1, <1>2, <2>1
  <2> QED BY <1>2, <2>2 DEF Mem
<1> QED BY <1>3, <1>4, <1>5

(***************************************************************************)
(* What a heap may become without disturbing the words that point into it. *)
(***************************************************************************)
HeapType(h) == DOMAIN h \subseteq Nat /\ h \in [DOMAIN h -> Object]

Grows(h, k) ==
  /\ DOMAIN h \subseteq DOMAIN k
  /\ \A a \in DOMAIN h : SameKind(h[a], k[a])

\* The fields of an object are words.
LEMMA FieldsAreWords ==
  ASSUME NEW o \in Object
  PROVE  /\ o.fields \in Seq(Word)
         /\ DOMAIN o.fields = 1..Len(o.fields)
         /\ Len(o.fields) \in Nat
         /\ \A i \in DOMAIN o.fields : o.fields[i] \in Word
BY DEF Object

\* An object of the same kind is a vector of offsets or is none.
LEMMA SameKindOffsets ==
  ASSUME NEW o \in Object, NEW p \in Object, SameKind(o, p)
  PROVE  IsOffsets(o) <=> IsOffsets(p)
BY DEF SameKind, IsOffsets

\* To be of the same kind is an equivalence.
LEMMA SameKindEquivalence ==
  ASSUME NEW o, NEW p, NEW q
  PROVE  /\ SameKind(o, o)
         /\ SameKind(o, p) => SameKind(p, o)
         /\ SameKind(o, p) /\ SameKind(p, q) => SameKind(o, q)
BY DEF SameKind

\* A word that clients may see stays one in a heap that grows.
LEMMA PlainGrows ==
  ASSUME NEW h, HeapType(h), NEW k, HeapType(k), Grows(h, k),
         NEW w, Plain(w, h)
  PROVE  Plain(w, k)
<1> SUFFICES ASSUME IsHeapAllocated(w)
             PROVE  /\ w.upper \in DOMAIN k /\ k[w.upper].tag = w.tag
                    /\ ~IsOffsets(k[w.upper])
  BY DEF Plain
<1>1. h[w.upper] \in Object /\ k[w.upper] \in Object /\ SameKind(h[w.upper], k[w.upper])
  BY DEF Plain, Grows, HeapType
<1> QED BY <1>1, SameKindOffsets DEF Plain, Grows, SameKind

\* The word of a vector of offsets stays one.
LEMMA OffsetsGrows ==
  ASSUME NEW h, HeapType(h), NEW k, HeapType(k), Grows(h, k),
         NEW n \in Nat, NEW w, OffsetsWord(w, n, h)
  PROVE  OffsetsWord(w, n, k)
<1> DEFINE o == h[w.upper]
           p == k[w.upper]
<1>1. o \in Object /\ p \in Object /\ SameKind(o, p)
  BY DEF OffsetsWord, Grows, HeapType
<1>2. o.fields = [i \in 1..n |-> Fixnum(i)] /\ DOMAIN p.fields = 1..n
  BY <1>1 DEF OffsetsWord, SameKind
<1>3. ASSUME NEW i \in 1..n PROVE p.fields[i] = Fixnum(i)
  <2>1. o.fields[i] = Fixnum(i) /\ i \in DOMAIN o.fields
    BY <1>2
  <2>2. o.fields[i].tag = "fixnum"
    BY <2>1 DEF Fixnum
  <2> QED BY <1>1, <2>1, <2>2 DEF SameKind
<1>4. p.fields = [i \in 1..n |-> Fixnum(i)]
  BY <1>1, <1>2, <1>3, FieldsAreWords
<1> QED BY <1>1, <1>4 DEF OffsetsWord, SameKind, Grows

\* The words in the code of a function stay in order.
LEMMA CodeGrows ==
  ASSUME NEW h, HeapType(h), NEW k, HeapType(k), Grows(h, k),
         NEW cd \in [Funs -> Seq(Word)], NEW f, CodeOK(f, h, cd)
  PROVE  CodeOK(f, k, cd)
<1>1. Len(cd[f]) - 2 \in Nat
  BY DEF CodeOK
<1>2. OffsetsWord(cd[f][2], Len(cd[f]) - 2, k)
  BY <1>1, OffsetsGrows DEF CodeOK
<1> QED BY <1>2, PlainGrows DEF CodeOK

\* The words in an object stay in order.
LEMMA ObjectGrows ==
  ASSUME NEW h, HeapType(h), NEW k, HeapType(k), Grows(h, k),
         NEW cd \in [Funs -> Seq(Word)], NEW o, ObjectOK(o, h, cd)
  PROVE  ObjectOK(o, k, cd)
BY PlainGrows, CodeGrows DEF ObjectOK

\* The size of an object counts its header.
LEMMA ObjectSizePositive ==
  ASSUME NEW tag \in HeapTags, NEW n \in Nat
  PROVE  ObjectSize(tag, n) \in Nat /\ ObjectSize(tag, n) >= 1
<1> DEFINE body == CASE tag = "pair"    -> Units(16)
                     [] tag = "vector"  -> Units(8 * (1 + n))
                     [] tag = "symbol"  -> Units(n + 1)
                     [] tag = "closure" -> Units(8)
<1>1. \A m \in Nat : Units(m) \in Nat
  BY DEF Units
<1>2. 8 * (1 + n) \in Nat /\ n + 1 \in Nat /\ 16 \in Nat /\ 8 \in Nat
  OBVIOUS
<1>3. body \in Nat
  BY <1>1, <1>2 DEF HeapTags
<1>4. ObjectSize(tag, n) = 1 + body
  BY Zenon DEF ObjectSize
<1> HIDE DEF body
<1> QED BY <1>3, <1>4

\* The two objects differ at most in fields that are no fixnums.
SameObject(o, p) ==
  /\ SameKind(o, p)
  /\ o.size = p.size
  /\ o.info = p.info
  /\ o.mark = p.mark
  /\ o.copiedTo = p.copiedTo

ObjectsOK(h, cd) == \A a \in DOMAIN h : ObjectOK(h[a], h, cd)

FieldSet(h, a, i, w) == [h EXCEPT ![a].fields[i] = w]

\* A field that is no fixnum gets a word that is none.
LEMMA FieldWrite ==
  ASSUME NEW h, HeapType(h),
         NEW a \in DOMAIN h, NEW i \in DOMAIN h[a].fields,
         NEW w \in Word, w.tag # "fixnum", h[a].fields[i].tag # "fixnum",
         NEW k, k = FieldSet(h, a, i, w)
  PROVE  /\ HeapType(k)
         /\ DOMAIN k = DOMAIN h
         /\ \A x \in DOMAIN h : SameObject(h[x], k[x])
         /\ Grows(h, k)
         /\ k[a].fields[i] = w
         /\ \A x \in DOMAIN h : \A j \in DOMAIN h[x].fields :
              (x = a /\ j = i) \/ k[x].fields[j] = h[x].fields[j]
<1>1. h[a] \in Object /\ h \in [DOMAIN h -> Object] /\ DOMAIN h \subseteq Nat
  BY DEF HeapType
<1> DEFINE fs == [h[a].fields EXCEPT ![i] = w]
           o == [h[a] EXCEPT !.fields = fs]
<1>2. k = [h EXCEPT ![a] = o]
  BY DEF FieldSet
<1>3. fs \in Seq(Word) /\ DOMAIN fs = DOMAIN h[a].fields /\ fs[i] = w
      /\ \A j \in DOMAIN h[a].fields : j # i => fs[j] = h[a].fields[j]
  BY <1>1, FieldsAreWords
<1>4. /\ o \in Object /\ o.fields = fs /\ o.tag = h[a].tag /\ o.size = h[a].size
      /\ o.info = h[a].info /\ o.mark = h[a].mark /\ o.copiedTo = h[a].copiedTo
  BY <1>1, <1>3 DEF Object
<1> HIDE DEF fs
<1>5. SameObject(h[a], o)
  BY <1>3, <1>4 DEF SameObject, SameKind
<1> HIDE DEF o
<1>6. /\ DOMAIN k = DOMAIN h /\ k[a] = o
      /\ \A x \in DOMAIN h : x # a => k[x] = h[x]
  BY <1>1, <1>2
<1>7. HeapType(k)
  <2>1. \A x \in DOMAIN k : k[x] \in Object
    BY <1>1, <1>4, <1>6
  <2>2. k = [x \in DOMAIN k |-> k[x]]
    BY <1>1, <1>2
  <2> QED BY <1>1, <1>6, <2>1, <2>2 DEF HeapType
<1>8. \A x \in DOMAIN h : SameObject(h[x], k[x])
  BY <1>5, <1>6 DEF SameObject, SameKind
<1>9. Grows(h, k)
  BY <1>6, <1>8 DEF Grows, SameObject
<1>10. \A x \in DOMAIN h : \A j \in DOMAIN h[x].fields :
              (x = a /\ j = i) \/ k[x].fields[j] = h[x].fields[j]
  BY <1>3, <1>4, <1>6
<1> QED BY <1>3, <1>4, <1>6, <1>7, <1>8, <1>9, <1>10

\* The words of all objects are in order after such a write.
LEMMA FieldWriteObjects ==
  ASSUME NEW h, HeapType(h), NEW cd \in [Funs -> Seq(Word)], ObjectsOK(h, cd),
         NEW a \in DOMAIN h, NEW i \in DOMAIN h[a].fields,
         NEW w, Plain(w, h), h[a].fields[i].tag # "fixnum",
         NEW k, k = FieldSet(h, a, i, w)
  PROVE  ObjectsOK(k, cd)
<1>1. w \in Word /\ w.tag # "fixnum"
  BY DEF Plain
<1>2. /\ HeapType(k)
      /\ DOMAIN k = DOMAIN h
      /\ \A x \in DOMAIN h : SameObject(h[x], k[x])
      /\ Grows(h, k)
      /\ k[a].fields[i] = w
      /\ \A x \in DOMAIN h : \A j \in DOMAIN h[x].fields :
           (x = a /\ j = i) \/ k[x].fields[j] = h[x].fields[j]
  BY <1>1, FieldWrite
<1> SUFFICES ASSUME NEW x \in DOMAIN h PROVE ObjectOK(k[x], k, cd)
  BY <1>2 DEF ObjectsOK
<1>3. /\ h[x] \in Object /\ k[x] \in Object
      /\ ObjectOK(h[x], k, cd) /\ ObjectOK(h[a], h, cd)
  BY <1>2, ObjectGrows DEF ObjectsOK, HeapType
<1>4. /\ k[x].tag = h[x].tag /\ k[x].info = h[x].info
      /\ DOMAIN k[x].fields = DOMAIN h[x].fields
      /\ IsOffsets(k[x]) <=> IsOffsets(h[x])
  BY <1>2, <1>3, SameKindOffsets DEF SameObject, SameKind
<1>5. k[x].tag = "closure" => k[x].fields = <<>>
  BY <1>3, <1>4, FieldsAreWords, EmptySeq DEF ObjectOK
<1>6. k[x].tag # "closure" => k[x].info = NoFun
  BY <1>3, <1>4 DEF ObjectOK
<1>7. ASSUME IsOffsets(k[x])
      PROVE  \A j \in DOMAIN k[x].fields : k[x].fields[j].tag = "fixnum"
  <2>1. x # a
    BY <1>3, <1>4, <1>7 DEF ObjectOK
  <2> QED BY <1>2, <1>3, <1>4, <1>7, <2>1 DEF ObjectOK
<1>8. ASSUME ~IsOffsets(k[x]), NEW j \in DOMAIN k[x].fields
      PROVE  Plain(k[x].fields[j], k)
  <2>1. Plain(w, k)
    BY <1>2, PlainGrows
  <2> QED BY <1>2, <1>3, <1>4, <1>8, <2>1 DEF ObjectOK
<1>9. k[x].info # NoFun => CodeOK(k[x].info, k, cd)
  BY <1>3, <1>4 DEF ObjectOK
<1> QED BY <1>5, <1>6, <1>7, <1>8, <1>9 DEF ObjectOK

CodeSet(cd, f, i, w) == [cd EXCEPT ![f][i] = w]

\* A word in the code gets a word that serves the same purpose.
LEMMA CodeWriteObjects ==
  ASSUME NEW h, NEW cd \in [Funs -> Seq(Word)], ObjectsOK(h, cd),
         NEW f \in Funs, NEW i \in DOMAIN cd[f], NEW w \in Word,
         Plain(cd[f][i], h) => Plain(w, h),
         \A n \in Nat : OffsetsWord(cd[f][i], n, h) => OffsetsWord(w, n, h),
         NEW ce, ce = CodeSet(cd, f, i, w)
  PROVE  /\ ce \in [Funs -> Seq(Word)]
         /\ \A g \in Funs : DOMAIN ce[g] = DOMAIN cd[g]
         /\ ce[f][i] = w
         /\ \A g \in Funs : \A j \in DOMAIN cd[g] :
              (g = f /\ j = i) \/ ce[g][j] = cd[g][j]
         /\ ObjectsOK(h, ce)
<1> DEFINE cs == [cd[f] EXCEPT ![i] = w]
<1>1. cd[f] \in Seq(Word)
  OBVIOUS
<1>2. /\ cs \in Seq(Word) /\ DOMAIN cs = DOMAIN cd[f] /\ Len(cs) = Len(cd[f])
      /\ cs[i] = w /\ \A j \in DOMAIN cd[f] : j # i => cs[j] = cd[f][j]
  BY <1>1
<1>3. ce = [cd EXCEPT ![f] = cs]
  BY DEF CodeSet
<1> HIDE DEF cs
<1>4. /\ ce \in [Funs -> Seq(Word)] /\ ce[f] = cs
      /\ \A g \in Funs : g # f => ce[g] = cd[g]
  BY <1>2, <1>3
<1>5. \A g \in Funs : DOMAIN ce[g] = DOMAIN cd[g]
  BY <1>2, <1>4
<1>6. \A g \in Funs : \A j \in DOMAIN cd[g] : (g = f /\ j = i) \/ ce[g][j] = cd[g][j]
  BY <1>2, <1>4
<1>7. ASSUME NEW g, CodeOK(g, h, cd) PROVE CodeOK(g, h, ce)
  <2>1. CASE g # f
    BY <1>4, <1>7, <2>1 DEF CodeOK
  <2>2. CASE g = f
    <3>1. /\ Len(cd[f]) \in Nat /\ Len(cd[f]) >= 2 /\ DOMAIN cd[f] = 1..Len(cd[f])
          /\ Len(cd[f]) - 2 \in Nat /\ Len(ce[f]) = Len(cd[f])
      BY <1>1, <1>2, <1>4, <1>7, <2>2 DEF CodeOK
    <3>2. \A j \in 1..Len(cd[f]) : (ce[f][j] = w /\ j = i) \/ ce[f][j] = cd[f][j]
      BY <1>2, <1>4, <3>1
    <3>3. \A j \in 1..Len(cd[f]) : Plain(cd[f][j], h) => Plain(ce[f][j], h)
      BY <3>2
    <3>4. \A n \in Nat : OffsetsWord(cd[f][2], n, h) => OffsetsWord(ce[f][2], n, h)
      BY <3>1, <3>2
    <3> QED BY <1>7, <2>2, <3>1, <3>3, <3>4 DEF CodeOK
  <2> QED BY <2>1, <2>2
<1>8. ObjectsOK(h, ce)
  BY <1>7 DEF ObjectsOK, ObjectOK
<1> QED BY <1>2, <1>4, <1>5, <1>6, <1>8

-----------------------------------------------------------------------------
(***************************************************************************)
(* Every step that clients take between two collections, and the step that *)
(* starts a collection, preserves the invariant.                           *)
(***************************************************************************)
\* The two spaces do not overlap.
LEMMA TwoSpaces ==
  ASSUME TypeOK
  PROVE  /\ \/ fromSpace = 0 /\ toSpace = HeapSize
            \/ fromSpace = HeapSize /\ toSpace = 0
         /\ fromSpace \in Nat /\ toSpace \in Nat
         /\ toSpace + HeapSize <= fromSpace \/ fromSpace + HeapSize <= toSpace
<1>1. fromSpace \in {0, HeapSize} /\ toSpace \in {0, HeapSize}
      /\ 0 \in {fromSpace, toSpace} /\ HeapSize \in {fromSpace, toSpace}
  BY DEF TypeOK
<1> QED BY <1>1, HeapSizeAssumption

\* The heap starts empty and every root NULL or nil.
LEMMA InitIInv == Init => IInv
<1> SUFFICES ASSUME Init PROVE IInv
  OBVIOUS
<1> USE HeapSizeAssumption, RootsAssumption, NoneAssumption DEF Init
<1>1. TypeOK
  <2>1. Null \in Word /\ Nil \in Word
    BY DEF Null, Nil, Word, Tags, HeapTags, ImmediateTags
  <2>2. heap \in [DOMAIN heap -> Object] /\ DOMAIN heap = {}
    OBVIOUS
  <2> QED BY <2>1, <2>2 DEF TypeOK
<1>2. WordsOK
  BY DEF WordsOK, Plain, Null, Nil, Word, Tags, HeapTags, ImmediateTags, IsHeapAllocated
<1>3. Layout /\ Room /\ Marks /\ WorkOK /\ RequestOK
  BY DEF Layout, Room, Marks, WorkOK, RequestOK
<1> QED BY <1>1, <1>2, <1>3 DEF IInv

\* What is behind a word in a root, at any time.
LEMMA ReadPlain ==
  ASSUME IInv, NEW r \in Roots, IsHeapAllocated(roots[r])
  PROVE  /\ roots[r].upper \in DOMAIN heap
         /\ ObjectAt(r) \in Object
         /\ ObjectAt(r).tag = roots[r].tag
         /\ ~IsOffsets(ObjectAt(r))
         /\ ObjectOK(ObjectAt(r), heap, code)
         /\ \A i \in DOMAIN ObjectAt(r).fields : Plain(ObjectAt(r).fields[i], heap)
BY DEF IInv, TypeOK, WordsOK, Plain, ObjectAt, ObjectOK

\* A root may get any word that clients may see.
LEMMA PutIInv ==
  ASSUME IInv, pc = "mutator",
         NEW dst \in Roots, NEW w, Plain(w, heap),
         roots' = [roots EXCEPT ![dst] = w],
         UNCHANGED <<heap, code, spaces, req, work, pc>>
  PROVE  IInv'
<1> USE DEF IInv, spaces
<1>1. TypeOK'
  BY DEF TypeOK, Plain
<1>2. WordsOK'
  BY DEF TypeOK, WordsOK
<1>3. Layout' /\ Room' /\ Marks' /\ WorkOK' /\ RequestOK'
  <2>1. Layout'
    BY DEF Layout, Within, InFrom, InTo
  <2>2. Marks'
    BY DEF Marks
  <2> QED BY <2>1, <2>2 DEF Room, WorkOK, RequestOK
<1> QED BY <1>1, <1>2, <1>3

\* What a client reads through a word is a word that it may see.
LEMMA LoadIInv ==
  ASSUME IInv, NEW dst \in ClientRoots, NEW src \in Roots, Load(dst, src)
  PROVE  IInv'
<1> DEFINE o == ObjectAt(src)
<1>1. /\ o \in Object /\ o.tag = roots[src].tag /\ ObjectOK(o, heap, code)
      /\ \A i \in DOMAIN o.fields : Plain(o.fields[i], heap)
  BY ReadPlain DEF Load
<1>2. PICK i \in DOMAIN Fields(o) :
        /\ ~(roots[src].tag = "closure" /\ i = 2)
        /\ roots' = [roots EXCEPT ![dst] = Fields(o)[i]]
  BY DEF Load
<1>3. Plain(Fields(o)[i], heap)
  <2>1. CASE o.info = NoFun
    BY <1>1, <1>2, <2>1 DEF Fields
  <2>2. CASE o.info # NoFun
    <3>1. o.tag = "closure" /\ CodeOK(o.info, heap, code)
      BY <1>1, <2>2 DEF ObjectOK
    <3>2. code[o.info] \in Seq(Word) /\ i \in 1..Len(code[o.info]) /\ i # 2
      BY <1>1, <1>2, <2>2, <3>1 DEF Fields, CodeOK, IInv, TypeOK
    <3> QED BY <2>2, <3>1, <3>2 DEF CodeOK, Fields
  <2> QED BY <2>1, <2>2
<1> QED BY <1>2, <1>3, PutIInv DEF Load, ClientRoots

\* A client never stores into a vector of offsets.
LEMMA StoreIInv ==
  ASSUME IInv, NEW obj \in ClientRoots, NEW src \in ClientRoots, Store(obj, src)
  PROVE  IInv'
<1> DEFINE a == roots[obj].upper
           w == roots[src]
<1>1. obj \in Roots /\ src \in Roots /\ IsHeapAllocated(roots[obj])
  BY DEF ClientRoots, Store, IsHeapAllocated, HeapTags
<1>2. /\ a \in DOMAIN heap /\ heap[a] \in Object
      /\ \A i \in DOMAIN heap[a].fields : Plain(heap[a].fields[i], heap)
  BY <1>1, ReadPlain DEF ObjectAt
<1>3. PICK i \in DOMAIN heap[a].fields :
        heap' = [heap EXCEPT ![a].fields[i] = w]
  BY DEF Store, ObjectAt
<1>4. /\ HeapType(heap) /\ code \in [Funs -> Seq(Word)]
      /\ ObjectsOK(heap, code) /\ Plain(w, heap)
  BY <1>1 DEF IInv, TypeOK, HeapType, WordsOK, ObjectsOK
<1>5. /\ heap' = FieldSet(heap, a, i, w)
      /\ w \in Word /\ w.tag # "fixnum" /\ heap[a].fields[i].tag # "fixnum"
  BY <1>2, <1>3, <1>4 DEF Plain, FieldSet
<1> HIDE DEF a, w
<1>6. /\ HeapType(heap')
      /\ DOMAIN heap' = DOMAIN heap
      /\ \A x \in DOMAIN heap : SameObject(heap[x], heap'[x])
      /\ Grows(heap, heap')
  BY <1>2, <1>4, <1>5, FieldWrite
<1>7. ObjectsOK(heap', code)
  BY <1>2, <1>4, <1>5, FieldWriteObjects
<1>8. /\ pc = "mutator" /\ pc' = pc /\ roots' = roots /\ code' = code /\ work' = work
      /\ fromSpace' = fromSpace /\ toSpace' = toSpace /\ heapPtr' = heapPtr
      /\ heapLimit' = heapLimit /\ heapCopyPtr' = heapCopyPtr /\ req' = req
  BY DEF Store, spaces
<1>9. TypeOK'
  BY <1>6, <1>8 DEF IInv, TypeOK, HeapType
<1>10. WordsOK'
  <2>1. \A r \in Roots : Plain(roots[r], heap')
    BY <1>4, <1>6, PlainGrows DEF IInv, WordsOK
  <2> QED BY <1>7, <1>8, <2>1 DEF WordsOK, ObjectsOK
<1>11. Layout'
  BY <1>6, <1>8 DEF IInv, Layout, Within, InFrom, InTo, SameObject
<1>12. Marks'
  BY <1>6, <1>8 DEF IInv, Marks, SameObject
<1> QED BY <1>8, <1>9, <1>10, <1>11, <1>12 DEF IInv, Room, WorkOK, RequestOK

\* A collection starts with every root to scavenge and an empty new space.
LEMMA AllocSlowIInv ==
  ASSUME IInv, NEW q \in Requests, AllocSlow(q)
  PROVE  IInv'
<1> USE RootsAssumption, HeapSizeAssumption
<1>1. /\ pc = "mutator" /\ pc' = "scavenge" /\ req' = q /\ MayRequest(q)
      /\ heapCopyPtr' = toSpace /\ work' = RootLocations
      /\ roots' = roots /\ heap' = heap /\ code' = code /\ fromSpace' = fromSpace
      /\ toSpace' = toSpace /\ heapPtr' = heapPtr /\ heapLimit' = heapLimit
  BY DEF AllocSlow
<1>2. \A a \in DOMAIN heap : ~heap[a].mark /\ InFrom(a)
  BY <1>1 DEF IInv, Marks, Layout
<1>3. /\ toSpace \in Nat /\ fromSpace \in Nat /\ heapPtr \in Nat
      /\ toSpace + HeapSize <= fromSpace \/ fromSpace + HeapSize <= toSpace
  BY TwoSpaces DEF IInv, TypeOK
<1>4. RootLocations \in Seq(Location) /\ DOMAIN RootLocations = DOMAIN RootSeq
  BY DEF RootLocations, Location, Roots
<1>5. TypeOK'
  BY <1>1, <1>3, <1>4 DEF IInv, TypeOK
<1>6. WordsOK'
  BY <1>1 DEF IInv, WordsOK
<1>7. Layout'
  BY <1>1, <1>2 DEF IInv, Layout, Within, InFrom, InTo
<1>8. Room'
  <2>1. CopiedUnits(heap)' = {}
    BY <1>1, <1>2 DEF CopiedUnits
  <2> QED BY <1>1, <1>3, <2>1, FS_EmptySet DEF Room
<1>9. Marks'
  BY <1>1, <1>2 DEF Marks
<1>10. WorkOK'
  <2>1. \A r \in Roots : Mem(<<"root", r, 0>>, RootLocations)
    BY <1>4 DEF Roots, RootLocations, Mem
  <2>2. \A a \in DOMAIN heap : ~InToSpace(a)
    <3> SUFFICES ASSUME NEW a \in DOMAIN heap PROVE ~InToSpace(a)
      OBVIOUS
    <3>1. a \in Nat /\ heap[a].size >= 1 /\ heap[a].size \in Nat
      BY DEF IInv, TypeOK, Layout, Object
    <3>2. /\ fromSpace <= a /\ a + heap[a].size <= heapPtr
          /\ heapPtr <= fromSpace + HeapSize
      BY <1>2 DEF InFrom, Within, IInv, Layout
    <3> QED BY <1>3, <3>1, <3>2 DEF InToSpace, InSpace
  <2>3. Covered'
    BY <1>1, <2>1, <2>2 DEF Covered, RootsCovered, InToSpace, InSpace
  <2>4. \A l : Mem(l, RootLocations) => l[1] = "root" /\ l[2] \in Roots /\ l[3] = 0
    BY <1>4 DEF Mem, RootLocations, Roots
  <2>5. \A l : Mem(l, work') => ValidLocation(l)'
    BY <1>1, <2>4 DEF ValidLocation
  <2> QED BY <2>3, <2>5 DEF WorkOK
<1>11. RequestOK'
  BY <1>1 DEF RequestOK, MayRequest, IsUnlinked, ObjectAt, Unlinked
<1> QED BY <1>5, <1>6, <1>7, <1>8, <1>9, <1>10, <1>11 DEF IInv

\* The fields of a new object.
LEMMA InitialFieldsOK ==
  ASSUME IInv, NEW q \in Requests, MayRequest(q)
  PROVE  /\ InitialFields(q) \in Seq(Word)
         /\ q.tag \in {"symbol", "closure"} => InitialFields(q) = <<>>
         /\ q.tag # "function" =>
              \A i \in DOMAIN InitialFields(q) : Plain(InitialFields(q)[i], heap)
         /\ q.tag = "function" =>
              InitialFields(q) = [i \in 1..q.n |-> Fixnum(i)]
<1> USE DEF InitialFields
<1>1. IsRequest(q) /\ q.tag \in {"pair", "symbol", "closure", "vector", "function"}
  BY RequestsAssumption DEF IsRequest, HeapTags
<1>2. \A r \in ClientRoots : roots[r] \in Word /\ Plain(roots[r], heap)
  BY DEF IInv, WordsOK, Plain, ClientRoots
<1>3. CASE q.tag = "pair"
  <2>1. q.srcs[1] \in ClientRoots /\ q.srcs[2] \in ClientRoots
    BY <1>1, <1>3, ElementOfSeq DEF IsRequest
  <2>2. InitialFields(q) = <<roots[q.srcs[1]], roots[q.srcs[2]]>>
    BY <1>3
  <2> QED BY <1>2, <1>3, <2>1, <2>2
<1>4. CASE q.tag = "vector"
  <2>1. InitialFields(q) = [i \in 1..q.n |-> Nil]
    BY <1>4
  <2>2. Plain(Nil, heap) /\ Nil \in Word
    BY DEF Plain, Nil, Word, Tags, HeapTags, ImmediateTags, IsHeapAllocated
  <2>3. q.n \in Nat
    BY <1>1 DEF IsRequest
  <2> QED BY <1>4, <2>1, <2>2, <2>3
<1>5. CASE q.tag = "function"
  <2>1. InitialFields(q) = [i \in 1..q.n |-> Fixnum(i)]
    BY <1>5
  <2>2. q.n \in Nat /\ \A i \in 1..q.n : Fixnum(i) \in Word
    BY <1>1 DEF IsRequest, Fixnum, Word, Tags, HeapTags, ImmediateTags
  <2> QED BY <1>5, <2>1, <2>2
<1>6. CASE q.tag \in {"symbol", "closure"}
  <2>1. InitialFields(q) = <<>>
    BY <1>6
  <2> QED BY <1>6, <2>1
<1> QED BY <1>1, <1>3, <1>4, <1>5, <1>6

\* What the new object is.
LEMMA NewObjectOK ==
  ASSUME IInv, NEW q \in Requests, MayRequest(q), NEW id \in Ids
  PROVE  /\ NewObject(q, id) \in Object
         /\ NewObject(q, id).tag = RequestTag(q)
         /\ NewObject(q, id).size = RequestSize(q)
         /\ NewObject(q, id).fields = InitialFields(q)
         /\ NewObject(q, id).info = NoFun
         /\ NewObject(q, id).mark = FALSE
         /\ RequestTag(q) \in HeapTags
         /\ RequestSize(q) >= 1
<1>1. q.n \in Nat /\ q.tag \in HeapTags \cup {"function"}
  BY RequestsAssumption DEF IsRequest
<1>2. RequestTag(q) \in HeapTags
  BY <1>1 DEF RequestTag, HeapTags
<1>3. RequestSize(q) \in Nat /\ RequestSize(q) >= 1
  BY <1>1, <1>2, ObjectSizePositive DEF RequestSize
<1> QED BY <1>2, <1>3, InitialFieldsOK DEF NewObject, Object

\* There is no object yet where the next one goes.
LEMMA FreeAtTop ==
  ASSUME IInv, pc # "scavenge"
  PROVE  heapPtr \notin DOMAIN heap
<1> SUFFICES ASSUME heapPtr \in DOMAIN heap PROVE FALSE
  OBVIOUS
<1>1. heapPtr \in Nat /\ heap[heapPtr].size \in Nat /\ heap[heapPtr].size >= 1
  BY DEF IInv, TypeOK, Layout, Object
<1>2. InFrom(heapPtr)
  BY DEF IInv, Layout
<1> QED BY <1>1, <1>2 DEF InFrom, Within

\* The new object stands where the space was free.
LEMMA PlaceLayout ==
  ASSUME IInv, pc # "scavenge", NEW new \in Object, new.size >= 1, ~new.mark,
         heapPtr + new.size <= heapLimit,
         heapPtr' = heapPtr + new.size,
         UNCHANGED <<fromSpace, toSpace, heapLimit>>, pc' = "mutator",
         DOMAIN heap' = DOMAIN heap \cup {heapPtr},
         heap'[heapPtr] = new,
         \A a \in DOMAIN heap :
           heap'[a].size = heap[a].size /\ heap'[a].mark = heap[a].mark
  PROVE  Layout' /\ Room' /\ Marks' /\ heapPtr \notin DOMAIN heap
<1>1. /\ heapPtr \in Nat /\ fromSpace \in Nat /\ HeapSize \in Nat
      /\ heapLimit = fromSpace + HeapSize
      /\ \A a \in DOMAIN heap : a \in Nat /\ heap[a].size \in Nat /\ heap[a].size >= 1
  BY TwoSpaces, HeapSizeAssumption DEF IInv, TypeOK, Layout, Object
<1>2. \A a \in DOMAIN heap : fromSpace <= a /\ a + heap[a].size <= heapPtr
  BY DEF IInv, Layout, InFrom, Within
<1>3. heapPtr \notin DOMAIN heap
  BY <1>1, <1>2
<1>4. new.size \in Nat
  BY DEF Object
<1>5. Layout'
  <2>1. fromSpace <= heapPtr + new.size /\ heapPtr + new.size <= fromSpace + HeapSize
    BY <1>1, <1>4 DEF IInv, Layout
  <2>2. \A a \in DOMAIN heap' : heap'[a].size >= 1
    BY <1>1
  <2>3. \A a \in DOMAIN heap' :
          fromSpace <= a /\ a + heap'[a].size <= heapPtr + new.size
    BY <1>1, <1>2, <1>4 DEF IInv, Layout
  <2>4. ASSUME NEW a \in DOMAIN heap', NEW b \in DOMAIN heap', a < b
        PROVE  a + heap'[a].size <= b
    BY <1>1, <1>2, <1>3, <2>4 DEF IInv, Layout
  <2> QED BY <2>1, <2>2, <2>3, <2>4 DEF Layout, InFrom, Within
<1>6. Marks'
  BY <1>3 DEF IInv, Marks
<1> QED BY <1>3, <1>5, <1>6 DEF Room

\* The allocation, and for a function the end of its compilation.
LEMMA PlaceIInv ==
  ASSUME IInv, pc \in {"mutator", "check"},
         NEW q \in Requests, MayRequest(q),
         heapPtr + RequestSize(q) <= heapLimit,
         Place(q),
         UNCHANGED <<fromSpace, toSpace, heapLimit, heapCopyPtr, work>>,
         pc' = "mutator", req' \in Requests \cup {NoReq}
  PROVE  IInv'
<1> DEFINE id == CHOOSE i \in Ids : i \notin UsedIds
           new == NewObject(q, id)
           ptr == Pointer(new.tag, heapPtr)
<1>1. id \in Ids
  BY DEF Place
<1>2. /\ new \in Object /\ new.tag = RequestTag(q) /\ new.size = RequestSize(q)
      /\ new.fields = InitialFields(q) /\ new.info = NoFun /\ ~new.mark
      /\ RequestTag(q) \in HeapTags /\ RequestSize(q) >= 1
  BY <1>1, NewObjectOK
<1>3. heapPtr' = heapPtr + new.size
  BY DEF Place
<1> HIDE DEF new
<1>4. /\ HeapType(heap) /\ code \in [Funs -> Seq(Word)] /\ ObjectsOK(heap, code)
      /\ roots \in [Roots -> Word] /\ \A r \in Roots : Plain(roots[r], heap)
      /\ heapPtr \in Nat /\ new.size \in Nat
  BY <1>2 DEF IInv, TypeOK, HeapType, WordsOK, ObjectsOK, Object
<1>5. /\ IsRequest(q) /\ q.dst \in Roots /\ q.n \in Nat
      /\ q.srcs \in Seq(Roots)
  BY RequestsAssumption DEF IsRequest, ClientRoots
<1>6. ASSUME HeapType(heap'), DOMAIN heap' = DOMAIN heap \cup {heapPtr},
             code' \in [Funs -> Seq(Word)], roots' \in [Roots -> Word],
             heap'[heapPtr] = new,
             \A a \in DOMAIN heap :
               heap'[a].size = heap[a].size /\ heap'[a].mark = heap[a].mark,
             ObjectsOK(heap', code'), \A r \in Roots : Plain(roots'[r], heap')
      PROVE  IInv'
  <2>1. TypeOK'
    <3>1. /\ fromSpace' = fromSpace /\ toSpace' = toSpace /\ heapLimit' = heapLimit
          /\ heapCopyPtr' = heapCopyPtr /\ work' = work /\ pc' = "mutator"
          /\ heapPtr' \in Nat /\ req' \in Requests \cup {NoReq}
      BY <1>3, <1>4
    <3>2. DOMAIN heap' \subseteq Nat /\ heap' \in [DOMAIN heap' -> Object]
      BY <1>6 DEF HeapType
    <3> QED BY <1>6, <3>1, <3>2 DEF IInv, TypeOK
  <2>2. WordsOK'
    BY <1>6 DEF WordsOK, ObjectsOK
  <2>3. Layout' /\ Room' /\ Marks'
    BY <1>2, <1>3, <1>6, PlaceLayout
  <2> QED BY <2>1, <2>2, <2>3 DEF IInv, WorkOK, RequestOK
<1>7. heapPtr \notin DOMAIN heap
  BY FreeAtTop
<1>8. CASE q.tag # "function"
  <2>1. /\ heap' = [a \in DOMAIN heap \cup {heapPtr} |->
                            IF a = heapPtr THEN new ELSE heap[a]]
        /\ roots' = [roots EXCEPT ![q.dst] = ptr]
        /\ code' = code
    BY <1>8, Zenon DEF Place, new
  <2>2. /\ DOMAIN heap' = DOMAIN heap \cup {heapPtr} /\ heap'[heapPtr] = new
        /\ \A a \in DOMAIN heap : heap'[a] = heap[a]
    BY <1>7, <2>1
  <2>3. HeapType(heap') /\ Grows(heap, heap')
    BY <1>2, <1>4, <2>1, <2>2 DEF HeapType, Grows, SameKind
  <2>4. /\ new.tag = q.tag
        /\ new.tag \in {"symbol", "closure"} => new.fields = <<>>
        /\ \A i \in DOMAIN new.fields : Plain(new.fields[i], heap')
    BY <1>2, <1>4, <1>8, <2>3, InitialFieldsOK, PlainGrows DEF RequestTag
  <2>5. ~IsOffsets(new)
    BY <2>4 DEF IsOffsets, Plain
  <2>6. ObjectOK(new, heap', code)
    BY <1>2, <2>4, <2>5 DEF ObjectOK
  <2>7. ObjectsOK(heap', code')
    BY <1>4, <2>1, <2>2, <2>3, <2>6, ObjectGrows DEF ObjectsOK
  <2>8. Plain(ptr, heap')
    <3>1. ptr.tag = new.tag /\ ptr.upper = heapPtr /\ ptr \in Word /\ ptr.tag # "fixnum"
      BY <1>2, <1>4 DEF Pointer, Word, Tags, HeapTags
    <3> QED BY <2>2, <2>5, <3>1 DEF Plain
  <2>9. \A r \in Roots : Plain(roots'[r], heap')
    BY <1>4, <1>5, <2>1, <2>3, <2>8, PlainGrows
  <2>10. roots' \in [Roots -> Word]
    BY <1>4, <1>5, <2>1, <2>8 DEF Plain
  <2> QED BY <1>4, <1>6, <2>1, <2>2, <2>3, <2>7, <2>9, <2>10
<1>9. CASE q.tag = "function"
  <2> DEFINE f == CHOOSE g \in Funs : Unlinked(g)
             clo == roots[q.dst].upper
             linked == [heap[clo] EXCEPT !.info = f]
             words == LinkedCode(q, ptr)
  <2>1. /\ heap' = [a \in DOMAIN heap \cup {heapPtr} |->
                                IF a = heapPtr THEN new
                                ELSE IF a = clo THEN [heap[a] EXCEPT !.info = f]
                                ELSE heap[a]]
        /\ code' = [code EXCEPT ![f] = words]
        /\ roots' = roots
    BY <1>9, Zenon DEF Place, new
  <2>2. f \in Funs /\ code[f] = <<>> /\ f # NoFun
    BY <1>9, NoneAssumption DEF MayRequest, Unlinked
  <2> HIDE DEF f
  <2>3. /\ clo \in DOMAIN heap /\ heap[clo] \in Object /\ heap[clo].tag = "closure"
        /\ heap[clo].info = NoFun /\ heap[clo].fields = <<>>
    <3>1. IsUnlinked(q.dst) /\ IsHeapAllocated(roots[q.dst])
      BY <1>9 DEF MayRequest, IsUnlinked, IsHeapAllocated, HeapTags
    <3> QED BY <1>5, <3>1, ReadPlain DEF IsUnlinked, ObjectAt, ObjectOK
  <2>4. /\ linked \in Object /\ linked.info = f /\ linked.fields = <<>>
        /\ linked.tag = "closure" /\ linked.size = heap[clo].size
        /\ linked.mark = heap[clo].mark
    BY <2>2, <2>3 DEF Object
  <2>5. /\ DOMAIN heap' = DOMAIN heap \cup {heapPtr} /\ heap'[heapPtr] = new
        /\ heap'[clo] = linked
        /\ \A a \in DOMAIN heap \ {clo} : heap'[a] = heap[a]
    BY <1>7, <2>1, <2>3
  <2> HIDE DEF linked, clo
  <2>6. HeapType(heap')
    BY ZenonT(40), <1>2, <1>4, <2>1, <2>4, <2>5 DEF HeapType
  <2>7. Grows(heap, heap')
    BY <2>3, <2>4, <2>5 DEF Grows, SameKind
  <2>8. /\ new.tag = "vector"
        /\ new.fields = [i \in 1..q.n |-> Fixnum(i)]
    BY <1>2, <1>9, InitialFieldsOK DEF RequestTag
  <2>9. ptr \in Word /\ ptr.tag = "vector" /\ ptr.upper = heapPtr
    BY <1>2, <1>4, <2>8 DEF Pointer, Word, Tags
  <2>10. /\ words \in Seq(Word) /\ Len(words) = q.n + 2 /\ words[2] = ptr
         /\ \A i \in 1..Len(words) : i # 2 => Plain(words[i], heap)
    <3> DEFINE front == <<roots[q.srcs[1]], ptr>>
               back == [i \in 1..q.n |-> roots[q.srcs[i + 1]]]
    <3>1. Len(q.srcs) = q.n + 1
      BY <1>5, <1>9 DEF IsRequest
    <3>2. \A i \in 1..(q.n + 1) : q.srcs[i] \in Roots
      BY <1>5, <3>1, ElementOfSeq
    <3>3. /\ front \in Seq(Word) /\ Len(front) = 2 /\ front[2] = ptr
          /\ front[1] = roots[q.srcs[1]] /\ Plain(front[1], heap)
      BY <1>4, <1>5, <2>9, <3>2
    <3>4. /\ back \in Seq(Word) /\ Len(back) = q.n
          /\ \A i \in 1..q.n : Plain(back[i], heap)
      <4>1. \A i \in 1..q.n : i + 1 \in 1..(q.n + 1)
        BY <1>5
      <4>2. \A i \in 1..q.n :
              roots[q.srcs[i + 1]] \in Word /\ Plain(roots[q.srcs[i + 1]], heap)
        BY <1>4, <3>2, <4>1
      <4> QED BY <1>5, <4>2
    <3>5. words = front \o back
      BY DEF LinkedCode
    <3> HIDE DEF front, back, words
    <3>6. /\ words \in Seq(Word) /\ Len(words) = q.n + 2
          /\ \A i \in 1..(q.n + 2) : words[i] = IF i <= 2 THEN front[i] ELSE back[i - 2]
      <4>1. Len(front) = 2 /\ Len(back) = q.n /\ q.n \in Nat
        BY <1>5, <3>3, <3>4
      <4>2. words \in Seq(Word) /\ Len(words) = Len(front) + Len(back)
        BY <3>3, <3>4, <3>5, ConcatProperties
      <4>3. \A i \in 1..(Len(front) + Len(back)) :
              words[i] = IF i <= Len(front) THEN front[i] ELSE back[i - Len(front)]
        BY <3>3, <3>4, <3>5, ConcatProperties
      <4> QED BY <4>1, <4>2, <4>3
    <3>7. ASSUME NEW i \in 1..(q.n + 2), i # 2 PROVE Plain(words[i], heap)
      <4>1. CASE i = 1
        BY <1>5, <3>3, <3>6, <4>1
      <4>2. CASE i > 2
        <5>1. i - 2 \in 1..q.n /\ words[i] = back[i - 2]
          BY <1>5, <3>6, <4>2
        <5> QED BY <3>4, <5>1
      <4> QED BY <1>5, <3>7, <4>1, <4>2
    <3> QED BY <1>5, <3>3, <3>6, <3>7
  <2> HIDE DEF words
  <2>11. code' \in [Funs -> Seq(Word)] /\ code'[f] = words
         /\ \A g \in Funs : g # f => code'[g] = code[g]
    BY <1>4, <2>1, <2>2, <2>10
  <2>12. CodeOK(f, heap', code')
    <3>1. \A i \in 1..Len(words) : i # 2 => Plain(words[i], heap')
      BY <1>4, <2>6, <2>7, <2>10, PlainGrows
    <3>2. OffsetsWord(words[2], q.n, heap')
      BY <2>5, <2>8, <2>9, <2>10 DEF OffsetsWord
    <3>3. Len(words) - 2 = q.n /\ Len(words) >= 2
      BY <1>5, <2>10
    <3> QED BY <2>2, <2>11, <3>1, <3>2, <3>3, <2>10, <1>5 DEF CodeOK
  <2>13. \A g : CodeOK(g, heap, code) => CodeOK(g, heap', code')
    <3> SUFFICES ASSUME NEW g, CodeOK(g, heap, code) PROVE CodeOK(g, heap', code')
      OBVIOUS
    <3>1. g # f /\ g \in Funs
      BY <2>2, EmptySeq DEF CodeOK
    <3>2. CodeOK(g, heap', code)
      BY <1>4, <2>6, <2>7, CodeGrows
    <3> QED BY <2>11, <3>1, <3>2 DEF CodeOK
  <2>14. ObjectOK(new, heap', code')
    BY <1>2, <2>8 DEF ObjectOK, IsOffsets, Fixnum
  <2>15. ObjectOK(linked, heap', code')
    BY <2>4, <2>12 DEF ObjectOK, IsOffsets
  <2>16. ASSUME NEW a \in DOMAIN heap, a # clo PROVE ObjectOK(heap[a], heap', code')
    BY <1>4, <2>6, <2>7, <2>13, <2>16, PlainGrows DEF ObjectsOK, ObjectOK
  <2>17. ObjectsOK(heap', code')
    BY <2>5, <2>14, <2>15, <2>16 DEF ObjectsOK
  <2>18. \A r \in Roots : Plain(roots'[r], heap')
    BY <1>4, <2>1, <2>6, <2>7, PlainGrows
  <2> QED BY <1>4, <1>6, <2>1, <2>4, <2>5, <2>6, <2>11, <2>17, <2>18
<1> QED BY <1>8, <1>9

-----------------------------------------------------------------------------
(***************************************************************************)
(* The collector.                                                          *)
(***************************************************************************)
\* A word may point to another object of the same kind.
LEMMA RedirectWord ==
  ASSUME NEW h, HeapType(h), NEW w \in Word, IsHeapAllocated(w),
         w.upper \in DOMAIN h, h[w.upper].tag = w.tag,
         NEW b \in DOMAIN h, SameKind(h[w.upper], h[b]),
         NEW u, u = Pointer(w.tag, b)
  PROVE  /\ u \in Word /\ u.tag = w.tag /\ u.upper = b
         /\ Plain(w, h) => Plain(u, h)
         /\ \A n \in Nat : OffsetsWord(w, n, h) => OffsetsWord(u, n, h)
<1>1. u \in Word /\ u.tag = w.tag /\ u.upper = b
  BY DEF Pointer, Word, HeapType
<1>2. h[w.upper] \in Object /\ h[b] \in Object
  BY DEF HeapType
<1>3. Plain(w, h) => Plain(u, h)
  BY <1>1, <1>2, SameKindOffsets DEF Plain, SameKind, IsHeapAllocated
<1>4. ASSUME NEW n \in Nat, OffsetsWord(w, n, h) PROVE OffsetsWord(u, n, h)
  <2> DEFINE o == h[w.upper]
             p == h[b]
  <2>1. DOMAIN p.fields = 1..n /\ o.fields = [i \in 1..n |-> Fixnum(i)]
    BY <1>4 DEF OffsetsWord, SameKind
  <2>2. ASSUME NEW i \in 1..n PROVE p.fields[i] = Fixnum(i)
    <3>1. o.fields[i] = Fixnum(i) /\ i \in DOMAIN o.fields
      BY <2>1
    <3>2. o.fields[i].tag = "fixnum"
      BY <3>1 DEF Fixnum
    <3> QED BY <3>1, <3>2 DEF SameKind
  <2>3. p.fields = [i \in 1..n |-> Fixnum(i)]
    BY <1>2, <2>1, <2>2, FieldsAreWords
  <2> QED BY <1>1, <1>4, <2>3 DEF OffsetsWord, SameKind
<1> QED BY <1>1, <1>3, <1>4

\* What the collector reads points to an object under that object's tag.
LEMMA ReadWord ==
  ASSUME IInv, Scavenging(Locations), NEW loc, loc = Head(work)
  PROVE  /\ loc \in Location /\ ValidLocation(loc)
         /\ Read(loc) \in Word
         /\ IsHeapAllocated(Read(loc)) =>
              /\ Read(loc).upper \in DOMAIN heap
              /\ heap[Read(loc).upper].tag = Read(loc).tag
<1>1. work \in Seq(Location) /\ work # <<>> /\ pc = "scavenge"
  BY DEF IInv, TypeOK, Scavenging
<1>2. loc \in Location /\ ValidLocation(loc)
  BY <1>1, MemTail DEF IInv, WorkOK, Mem
<1>3. loc[1] \in {"root", "field", "code"}
  BY DEF Scavenging, Locations
<1>4. CASE loc[1] = "root"
  <2>1. Read(loc) = roots[loc[2]] /\ loc[2] \in Roots
    BY <1>2, <1>4 DEF Read, ValidLocation
  <2> QED BY <1>2, <2>1 DEF IInv, WordsOK, Plain
<1>5. CASE loc[1] = "field"
  <2> DEFINE o == heap[loc[2]]
  <2>1. /\ Read(loc) = o.fields[loc[3]]
        /\ loc[2] \in DOMAIN heap /\ loc[3] \in DOMAIN o.fields
    BY <1>2, <1>5 DEF Read, ValidLocation
  <2>2. o \in Object /\ ObjectOK(o, heap, code)
    BY <2>1 DEF IInv, TypeOK, WordsOK
  <2>3. Read(loc) \in Word
    BY <2>1, <2>2, FieldsAreWords
  <2>4. Plain(Read(loc), heap) \/ Read(loc).tag = "fixnum"
    BY <2>1, <2>2 DEF ObjectOK
  <2> QED BY <1>2, <2>3, <2>4 DEF Plain, IsHeapAllocated, HeapTags
<1>6. CASE loc[1] = "code"
  <2> DEFINE f == loc[2]
             i == loc[3]
  <2>1. Read(loc) = code[f][i] /\ Linked(f) /\ i \in DOMAIN code[f]
    BY <1>2, <1>6 DEF Read, ValidLocation
  <2>2. CodeOK(f, heap, code)
    BY <2>1 DEF Linked, IInv, WordsOK, ObjectOK
  <2>3. code[f] \in Seq(Word) /\ i \in 1..Len(code[f])
    BY <2>1, <2>2 DEF CodeOK, IInv, TypeOK
  <2>4. Plain(code[f][i], heap) \/ OffsetsWord(code[f][i], Len(code[f]) - 2, heap)
    <3>1. i = 1 \/ i = 2 \/ i \in 3..Len(code[f])
      BY <2>3
    <3> QED BY <2>2, <3>1 DEF CodeOK
  <2> QED BY <1>2, <2>1, <2>4 DEF Plain, OffsetsWord
<1> QED BY <1>3, <1>4, <1>5, <1>6

\* The word w at the head of the work becomes u, the address of an object of
\* the kind w points to, in a heap h in which the words are in order.
Redirection(loc, w, u, h, b) ==
  /\ Scavenging(Locations) /\ loc = Head(work) /\ w = Read(loc)
  /\ IsHeapAllocated(w)
  /\ HeapType(h) /\ Grows(heap, h) /\ ObjectsOK(h, code)
  /\ \A a \in DOMAIN heap :
       h[a].fields = heap[a].fields /\ h[a].info = heap[a].info
  /\ b \in DOMAIN h /\ SameKind(heap[w.upper], h[b])
  /\ u = Pointer(w.tag, b)
  /\ WriteTo(loc, u, h)

\* At most the word at loc changed since the heap was h; it is u now.
OneWord(loc, u, h) ==
  /\ DOMAIN heap' = DOMAIN h
  /\ \A x \in DOMAIN h : SameObject(h[x], heap'[x])
  /\ \A f \in Funs : DOMAIN code'[f] = DOMAIN code[f]
  /\ \A r \in Roots :
       \/ loc # <<"root", r, 0>> /\ roots'[r] = roots[r]
       \/ roots'[r] = u
  /\ \A x \in DOMAIN h : \A j \in DOMAIN h[x].fields :
       \/ loc # <<"field", x, j>> /\ heap'[x].fields[j] = h[x].fields[j]
       \/ heap'[x].fields[j] = u
  /\ \A f \in Funs : \A j \in DOMAIN code[f] :
       \/ loc # <<"code", f, j>> /\ code'[f][j] = code[f][j]
       \/ code'[f][j] = u

Redirected(loc, w, u, h, b) ==
  /\ u.tag = w.tag /\ u.upper = b
  /\ roots' \in [Roots -> Word] /\ HeapType(heap')
  /\ code' \in [Funs -> Seq(Word)]
  /\ \A r \in Roots : Plain(roots'[r], heap')
  /\ ObjectsOK(heap', code')
  /\ \A r \in Roots : roots'[r] = roots[r] \/ (roots[r] = w /\ roots'[r] = u)
  /\ OneWord(loc, u, h)

\* Every word is still in order once that word is redirected.
LEMMA RedirectWords ==
  ASSUME IInv, NEW loc, NEW w, NEW u, NEW h, NEW b,
         Redirection(loc, w, u, h, b)
  PROVE  Redirected(loc, w, u, h, b)
<1> USE DEF Redirection, Redirected, OneWord
<1>1. /\ ValidLocation(loc) /\ w \in Word
      /\ w.upper \in DOMAIN heap /\ heap[w.upper].tag = w.tag
  BY ReadWord
<1>2. /\ HeapType(heap) /\ roots \in [Roots -> Word] /\ code \in [Funs -> Seq(Word)]
      /\ \A r \in Roots : Plain(roots[r], heap)
  BY DEF IInv, TypeOK, HeapType, WordsOK
<1>3. \A r \in Roots : Plain(roots[r], h)
  BY <1>2, PlainGrows
<1>4. w.upper \in DOMAIN h /\ h[w.upper].tag = w.tag /\ SameKind(h[w.upper], h[b])
  BY <1>1, SameKindEquivalence DEF Grows, SameKind
<1>5. /\ u \in Word /\ u.tag = w.tag /\ u.upper = b
      /\ Plain(w, h) => Plain(u, h)
      /\ \A n \in Nat : OffsetsWord(w, n, h) => OffsetsWord(u, n, h)
  BY <1>1, <1>4, RedirectWord
<1>6. \A x \in DOMAIN h : SameObject(h[x], h[x])
  BY DEF SameObject, SameKind
<1>7. loc[1] \in {"root", "field", "code"}
  BY DEF Scavenging, Locations
<1>8. CASE loc[1] = "root"
  <2>1. loc[2] \in Roots /\ w = roots[loc[2]]
    BY <1>1, <1>8 DEF ValidLocation, Read
  <2>2. roots' = [roots EXCEPT ![loc[2]] = u] /\ heap' = h /\ code' = code
    BY <1>8 DEF WriteTo
  <2>3. Plain(u, h)
    BY <1>3, <1>5, <2>1
  <2>4. \A r \in Roots :
          \/ r = loc[2] /\ roots[r] = w /\ roots'[r] = u
          \/ r # loc[2] /\ roots'[r] = roots[r]
    BY <1>2, <2>1, <2>2
  <2>5. roots' \in [Roots -> Word]
    BY <1>2, <1>5, <2>2
  <2>6. \A r \in Roots : Plain(roots'[r], heap')
    BY <1>3, <2>2, <2>3, <2>4
  <2>7. \A x, j : loc # <<"field", x, j>> /\ loc # <<"code", x, j>>
    BY <1>8
  <2>8. \A r \in Roots : r # loc[2] => loc # <<"root", r, 0>>
    OBVIOUS
  <2> QED BY SMTT(30), <1>2, <1>5, <1>6, <2>2, <2>4, <2>5, <2>6, <2>7, <2>8
<1>9. CASE loc[1] = "field"
  <2> DEFINE a == loc[2]
             i == loc[3]
  <2>1. a \in DOMAIN heap /\ i \in DOMAIN heap[a].fields /\ w = heap[a].fields[i]
    BY <1>1, <1>9 DEF ValidLocation, Read
  <2>2. roots' = roots /\ heap' = FieldSet(h, a, i, u) /\ code' = code
    BY <1>9 DEF WriteTo, FieldSet
  <2>3. a \in DOMAIN h /\ i \in DOMAIN h[a].fields /\ h[a].fields[i] = w
    BY <2>1 DEF Grows
  <2>4. w.tag # "fixnum" /\ u.tag # "fixnum"
    BY <1>5 DEF IsHeapAllocated, HeapTags
  <2>5. Plain(w, h)
    <3>1. ObjectOK(h[a], h, code)
      BY <2>3 DEF ObjectsOK
    <3> QED BY <2>3, <2>4, <3>1 DEF ObjectOK
  <2> HIDE DEF a, i
  <2>6. /\ HeapType(heap')
        /\ DOMAIN heap' = DOMAIN h
        /\ \A x \in DOMAIN h : SameObject(h[x], heap'[x])
        /\ Grows(h, heap')
        /\ heap'[a].fields[i] = u
        /\ \A x \in DOMAIN h : \A j \in DOMAIN h[x].fields :
             (x = a /\ j = i) \/ heap'[x].fields[j] = h[x].fields[j]
    BY <1>5, <2>2, <2>3, <2>4, FieldWrite
  <2>7. ObjectsOK(heap', code')
    BY <1>2, <1>5, <2>2, <2>3, <2>4, <2>5, FieldWriteObjects
  <2>8. \A r \in Roots : Plain(roots'[r], heap')
    BY <1>3, <2>2, <2>6, PlainGrows
  <2>9. \A x, j : loc # <<"root", x, j>> /\ loc # <<"code", x, j>>
    BY <1>9
  <2>10. \A x \in DOMAIN h : \A j \in DOMAIN h[x].fields :
           (x = a /\ j = i) \/ loc # <<"field", x, j>>
    BY DEF a, i
  <2>11. \A x \in DOMAIN h : \A j \in DOMAIN h[x].fields :
              \/ loc # <<"field", x, j>> /\ heap'[x].fields[j] = h[x].fields[j]
              \/ heap'[x].fields[j] = u
    BY <2>6, <2>10
  <2>12. \A r \in Roots : loc # <<"root", r, 0>> /\ roots'[r] = roots[r]
    BY <2>2, <2>9
  <2>13. \A g \in Funs : \A j \in DOMAIN code[g] :
           loc # <<"code", g, j>> /\ code'[g][j] = code[g][j]
    BY <2>2, <2>9
  <2> QED BY SMTT(30), <1>2, <1>5, <2>2, <2>6, <2>7, <2>8, <2>11, <2>12, <2>13
<1>10. CASE loc[1] = "code"
  <2> DEFINE f == loc[2]
             i == loc[3]
  <2>1. Linked(f) /\ i \in DOMAIN code[f] /\ w = code[f][i]
    BY <1>1, <1>10 DEF ValidLocation, Read
  <2>2. roots' = roots /\ heap' = h /\ code' = CodeSet(code, f, i, u)
    BY <1>10 DEF WriteTo, CodeSet
  <2>3. f \in Funs
    BY <2>1 DEF Linked, IInv, WordsOK, ObjectOK, CodeOK
  <2> HIDE DEF f, i
  <2>4. /\ code' \in [Funs -> Seq(Word)]
        /\ \A g \in Funs : DOMAIN code'[g] = DOMAIN code[g]
        /\ code'[f][i] = u
        /\ \A g \in Funs : \A j \in DOMAIN code[g] :
             (g = f /\ j = i) \/ code'[g][j] = code[g][j]
        /\ ObjectsOK(h, code')
    <3>1. /\ Plain(code[f][i], h) => Plain(u, h)
          /\ \A n \in Nat : OffsetsWord(code[f][i], n, h) => OffsetsWord(u, n, h)
      BY <1>5, <2>1
    <3>2. code \in [Funs -> Seq(Word)] /\ i \in DOMAIN code[f] /\ u \in Word
      BY <1>2, <1>5, <2>1
    <3>3. ObjectsOK(h, code)
      OBVIOUS
    <3> HIDE DEF Redirection, Redirected, OneWord
    <3> QED BY ONLY <2>2, <2>3, <3>1, <3>2, <3>3, CodeWriteObjects
  <2>5. \A x, j : loc # <<"root", x, j>> /\ loc # <<"field", x, j>>
    BY <1>10
  <2>6. \A g \in Funs : \A j \in DOMAIN code[g] :
          (g = f /\ j = i) \/ loc # <<"code", g, j>>
    BY DEF f, i
  <2>7. \A g \in Funs : \A j \in DOMAIN code[g] :
              \/ loc # <<"code", g, j>> /\ code'[g][j] = code[g][j]
              \/ code'[g][j] = u
    BY <2>4, <2>6
  <2>8. \A r \in Roots : loc # <<"root", r, 0>> /\ roots'[r] = roots[r]
    BY <2>2, <2>5
  <2>9. \A x \in DOMAIN h : \A j \in DOMAIN h[x].fields :
          loc # <<"field", x, j>> /\ heap'[x].fields[j] = h[x].fields[j]
    BY <2>2, <2>5
  <2> QED BY SMTT(30), <1>2, <1>3, <1>5, <1>6, <2>2, <2>4, <2>7, <2>8, <2>9
<1> QED BY <1>7, <1>8, <1>9, <1>10

\* The request in progress outlives the moves of the objects it names.
LEMMA RequestKept ==
  ASSUME IInv, pc = "scavenge", req' = req,
         \A r \in Roots : \/ roots'[r] = roots[r]
                          \/ IsHeapAllocated(roots'[r]) /\ roots'[r].tag = roots[r].tag,
         \A r \in Roots : roots[r].tag = "closure" =>
           heap'[roots'[r].upper].info = heap[roots[r].upper].info,
         code' \in [Funs -> Seq(Word)],
         \A f \in Funs : DOMAIN code'[f] = DOMAIN code[f]
  PROVE  RequestOK'
<1>1. req \in Requests /\ MayRequest(req) /\ IsRequest(req)
  BY RequestsAssumption DEF IInv, RequestOK
<1>2. req.dst \in Roots /\ req.srcs \in Seq(Roots)
  BY <1>1 DEF IsRequest, ClientRoots
<1>3. \A i \in 1..Len(req.srcs) : req.srcs[i] \in Roots
  BY <1>2, ElementOfSeq
<1>4. \A r \in Roots : roots'[r].tag = roots[r].tag
  OBVIOUS
<1>5. \A r \in Roots : roots[r] # Null => roots'[r] # Null
  BY DEF Null, IsHeapAllocated, HeapTags
<1>6. \A i \in DOMAIN req.srcs : roots'[req.srcs[i]] # Null
  BY <1>1, <1>2, <1>3, <1>5 DEF MayRequest
<1>7. ASSUME req.tag = "function" PROVE MayRequest(req)'
  <2>1. 1 \in 1..Len(req.srcs)
    BY <1>1, <1>7 DEF IsRequest
  <2>2. IsUnlinked(req.dst)'
    BY <1>1, <1>2, <1>4, <1>7 DEF MayRequest, IsUnlinked, ObjectAt
  <2>3. roots'[req.srcs[1]].tag = "symbol"
    BY <1>1, <1>3, <1>4, <1>7, <2>1 DEF MayRequest
  <2>4. \A i \in 2..Len(req.srcs) : IsHeapAllocated(roots'[req.srcs[i]])
    BY <1>1, <1>2, <1>3, <1>4, <1>7 DEF MayRequest, IsHeapAllocated
  <2>5. \E f \in Funs : code'[f] = <<>>
    <3>1. PICK f \in Funs : code[f] = <<>>
      BY <1>1, <1>7 DEF MayRequest, Unlinked
    <3>2. code'[f] \in Seq(Word) /\ DOMAIN code'[f] = {}
      BY <3>1
    <3>3. Len(code'[f]) \in Nat /\ DOMAIN code'[f] = 1..Len(code'[f])
      BY <3>2, LenProperties
    <3>4. Len(code'[f]) = 0
      <4>1. 1 \notin 1..Len(code'[f])
        BY <3>2, <3>3
      <4> QED BY <3>3, <4>1
    <3>5. code'[f] = <<>>
      BY <3>2, <3>4, EmptySeq
    <3> QED BY <3>5
  <2> QED BY <1>6, <1>7, <2>2, <2>3, <2>4, <2>5 DEF MayRequest, Unlinked
<1>8. MayRequest(req)'
  BY <1>6, <1>7 DEF MayRequest
<1> QED BY <1>1, <1>8 DEF RequestOK

\* What is still to be scavenged stays there when other words change.
LEMMA ValidKept ==
  ASSUME toSpace' = toSpace, DOMAIN heap \subseteq DOMAIN heap',
         \A x \in DOMAIN heap :
           /\ DOMAIN heap'[x].fields = DOMAIN heap[x].fields
           /\ heap'[x].info = heap[x].info,
         \A f \in Funs : DOMAIN code'[f] = DOMAIN code[f],
         \A f : Linked(f) => f \in Funs,
         NEW l, ValidLocation(l)
  PROVE  ValidLocation(l)'
<1>1. \A f : Linked(f) => Linked(f)'
  BY DEF Linked
<1> QED BY <1>1 DEF ValidLocation, InToSpace, InSpace

\* A closure that is linked has a function with words in order.
LEMMA LinkedFuns ==
  ASSUME IInv
  PROVE  /\ \A f : Linked(f) => f \in Funs /\ CodeOK(f, heap, code)
         /\ \A x \in DOMAIN heap : heap[x].info # NoFun => heap[x].info \in Funs
BY DEF IInv, WordsOK, Linked, ObjectOK, CodeOK

\* One word is scavenged and the rest of the work is still there.
LEMMA CoveredKept ==
  ASSUME IInv, pc = "scavenge", NEW loc, NEW u,
         InToSpace(u.upper) \/ ~IsHeapAllocated(u),
         toSpace' = toSpace,
         \A l : Mem(l, work) /\ l # loc => Mem(l, work'),
         loc[1] # "consts",
         NEW h, DOMAIN heap \subseteq DOMAIN h,
         \A a \in DOMAIN heap :
           h[a].fields = heap[a].fields /\ h[a].info = heap[a].info,
         OneWord(loc, u, h)
  PROVE  RootsCovered' /\ \A a \in DOMAIN heap : InToSpace(a) => CoveredObject(a)'
<1> USE DEF OneWord
<1>1. \A v : Clean(v)' <=> Clean(v)
  BY DEF Clean, InToSpace, InSpace
<1>2. Clean(u)
  BY DEF Clean
<1>3. \A r \in Roots : Clean(roots'[r]) \/ Mem(<<"root", r, 0>>, work')
  <2>1. \A r \in Roots : Clean(roots[r]) \/ Mem(<<"root", r, 0>>, work)
    BY DEF IInv, WorkOK, Covered, RootsCovered
  <2> QED BY <1>2, <2>1
<1>4. ASSUME NEW a \in DOMAIN heap, InToSpace(a) PROVE CoveredObject(a)'
  <2>1. CoveredObject(a)
    BY <1>4 DEF IInv, WorkOK, Covered
  <2>2. \A i \in DOMAIN heap[a].fields :
          Clean(heap'[a].fields[i]) \/ Mem(<<"field", a, i>>, work')
    BY <1>2, <2>1 DEF CoveredObject
  <2>3. ASSUME heap[a].info # NoFun, NEW i \in DOMAIN code[heap[a].info]
        PROVE  \/ Clean(code'[heap[a].info][i])
               \/ Mem(<<"code", heap[a].info, i>>, work')
               \/ i > 2 /\ Mem(<<"consts", heap[a].info, 0>>, work')
    <3>1. heap[a].info \in Funs
      BY <2>3, LinkedFuns
    <3>2. loc # <<"consts", heap[a].info, 0>>
      OBVIOUS
    <3> QED BY <1>2, <2>1, <2>3, <3>1, <3>2 DEF CoveredObject
  <2>4. \A f \in Funs : DOMAIN code'[f] = DOMAIN code[f]
    OBVIOUS
  <2>5. heap[a].info # NoFun => heap[a].info \in Funs
    BY LinkedFuns
  <2>6. DOMAIN heap'[a].fields = DOMAIN heap[a].fields /\ heap'[a].info = heap[a].info
    BY DEF SameObject, SameKind
  <2> QED BY <1>1, <2>2, <2>3, <2>4, <2>5, <2>6 DEF CoveredObject
<1>5. RootsCovered'
  BY <1>3 DEF RootsCovered, Clean, InToSpace, InSpace
<1> QED BY <1>4, <1>5

\* A word that needs no work is already clean.
LEMMA ScavengeSkipIInv ==
  ASSUME IInv, ScavengeSkip
  PROVE  IInv'
<1> DEFINE loc == Head(work)
<1>1. /\ pc = "scavenge" /\ work # <<>> /\ work \in Seq(Location)
      /\ Scavenging(Locations)
      /\ loc[1] \in {"root", "field", "code"}
      /\ NeedsNoWork(Read(loc)) /\ work' = Tail(work)
      /\ UNCHANGED <<roots, heap, code, req, pc>>
      /\ UNCHANGED <<fromSpace, toSpace, heapPtr, heapLimit, heapCopyPtr>>
  BY DEF IInv, TypeOK, ScavengeSkip, Scavenging, Locations, spaces
<1>2. ValidLocation(loc) /\ (InToSpace(Read(loc).upper) \/ ~IsHeapAllocated(Read(loc)))
  BY <1>1, ReadWord DEF NeedsNoWork
<1>3. \A l : Mem(l, work) /\ l # loc => Mem(l, work')
  BY <1>1, MemTail
<1>4. work' \in Seq(Location) /\ \A l : Mem(l, work') => Mem(l, work)
  BY <1>1, MemTail, HeadTailProperties
<1>5. WorkOK'
  <2>1. \A r \in Roots : loc # <<"root", r, 0>> \/ roots[r] = Read(loc)
    BY DEF Read
  <2>2. \A x \in DOMAIN heap : \A j \in DOMAIN heap[x].fields :
          loc # <<"field", x, j>> \/ heap[x].fields[j] = Read(loc)
    BY DEF Read
  <2>3. \A f \in Funs : \A j \in DOMAIN code[f] :
          loc # <<"code", f, j>> \/ code[f][j] = Read(loc)
    BY DEF Read
  <2> HIDE DEF loc
  <2>4. loc[1] # "consts"
    BY <1>1
  <2>5. OneWord(loc, Read(loc), heap)
    BY <1>1, <2>1, <2>2, <2>3 DEF OneWord, SameObject, SameKind
  <2>6. Covered'
    <3>1. RootsCovered' /\ \A a \in DOMAIN heap : InToSpace(a) => CoveredObject(a)'
      BY <1>1, <1>2, <1>3, <2>4, <2>5, CoveredKept
    <3> QED BY <1>1, <3>1 DEF Covered, InToSpace, InSpace
  <2>7. \A l : Mem(l, work') => ValidLocation(l)'
    BY <1>1, <1>4 DEF IInv, WorkOK, ValidLocation, InToSpace, InSpace, Linked
  <2> QED BY <2>6, <2>7 DEF WorkOK
<1>6. TypeOK'
  BY <1>1, <1>4 DEF IInv, TypeOK
<1>7. WordsOK' /\ Layout' /\ Room' /\ Marks'
  <2>1. WordsOK' /\ Marks'
    BY <1>1 DEF IInv, WordsOK, Marks, InFrom, Within, InToSpace, InSpace
  <2>2. Layout' /\ Room'
    BY <1>1 DEF IInv, Layout, InFrom, InTo, Within, Room, CopiedUnits
  <2> QED BY <2>1, <2>2
<1>8. RequestOK'
  BY <1>1 DEF IInv, RequestOK, MayRequest, IsUnlinked, ObjectAt, Unlinked
<1> QED BY <1>5, <1>6, <1>7, <1>8 DEF IInv

\* A word is forwarded to the copy, an object of the same kind.
LEMMA ScavengeForwardIInv ==
  ASSUME IInv, ScavengeForward
  PROVE  IInv'
<1> DEFINE loc == Head(work)
           w == Read(loc)
           b == heap[w.upper].copiedTo
           u == Pointer(w.tag, b)
<1>1. /\ pc = "scavenge" /\ work # <<>> /\ work \in Seq(Location)
      /\ Scavenging(Locations)
      /\ loc[1] \in {"root", "field", "code"}
      /\ IsHeapAllocated(w) /\ heap[w.upper].mark /\ WriteTo(loc, u, heap)
      /\ work' = Tail(work) /\ UNCHANGED <<req, pc>>
      /\ UNCHANGED <<fromSpace, toSpace, heapPtr, heapLimit, heapCopyPtr>>
  BY DEF IInv, TypeOK, ScavengeForward, Scavenging, Locations, spaces
<1>2. ValidLocation(loc) /\ w \in Word /\ w.upper \in DOMAIN heap
      /\ heap[w.upper].tag = w.tag
  BY <1>1, ReadWord
<1>3. /\ b \in DOMAIN heap /\ InToSpace(b) /\ SameKind(heap[w.upper], heap[b])
      /\ heap[w.upper].info = heap[b].info
  BY <1>1, <1>2 DEF IInv, Marks
<1>4. /\ HeapType(heap) /\ ObjectsOK(heap, code) /\ Grows(heap, heap)
      /\ code \in [Funs -> Seq(Word)]
  BY DEF IInv, TypeOK, HeapType, WordsOK, ObjectsOK, Grows, SameKind
<1> HIDE DEF b, u, loc, w
<1>5. Redirected(loc, w, u, heap, b)
  <2>1. Redirection(loc, w, u, heap, b)
    BY <1>1, <1>3, <1>4 DEF Redirection, loc, w, u
  <2> QED BY <2>1, RedirectWords
<1>6. \A x \in DOMAIN heap :
        /\ DOMAIN heap'[x].fields = DOMAIN heap[x].fields
        /\ heap'[x].info = heap[x].info /\ heap'[x].size = heap[x].size
        /\ heap'[x].mark = heap[x].mark /\ heap'[x].copiedTo = heap[x].copiedTo
  BY <1>5 DEF Redirected, OneWord, SameObject, SameKind
<1>7. \A l : Mem(l, work) /\ l # loc => Mem(l, work')
  BY <1>1, MemTail DEF loc
<1>8. work' \in Seq(Location) /\ \A l : Mem(l, work') => Mem(l, work)
  BY <1>1, MemTail, HeadTailProperties
<1>9. WorkOK'
  <2>1. loc[1] # "consts"
    BY <1>1
  <2>2. RootsCovered' /\ \A a \in DOMAIN heap : InToSpace(a) => CoveredObject(a)'
    <3>1. OneWord(loc, u, heap) /\ InToSpace(u.upper)
      BY <1>3, <1>5 DEF Redirected
    <3> QED BY <1>1, <1>7, <2>1, <3>1, CoveredKept
  <2>3. Covered'
    BY <1>1, <1>5, <2>2 DEF Redirected, OneWord, Covered, InToSpace, InSpace
  <2>4. \A l : Mem(l, work') => ValidLocation(l)
    BY <1>1, <1>8 DEF IInv, WorkOK
  <2>5. \A l : Mem(l, work') => ValidLocation(l)'
    BY <1>1, <1>5, <1>6, <2>4, ValidKept, LinkedFuns DEF Redirected, OneWord
  <2> QED BY <2>3, <2>5 DEF WorkOK
<1>10. TypeOK'
  BY <1>1, <1>5, <1>8 DEF Redirected, IInv, TypeOK, HeapType
<1>11. WordsOK'
  BY <1>5 DEF Redirected, WordsOK, ObjectsOK
<1>12. Layout'
  BY <1>1, <1>5, <1>6 DEF Redirected, OneWord, IInv, Layout, InFrom, InTo, Within
<1>13. Room'
  <2>1. CopiedUnits(heap)' = CopiedUnits(heap)
    BY <1>1, <1>5, <1>6 DEF Redirected, OneWord, CopiedUnits
  <2> QED BY <1>1, <2>1 DEF IInv, Room
<1>14. Marks'
  <2> SUFFICES ASSUME NEW a \in DOMAIN heap, heap[a].mark
               PROVE  /\ InFrom(a)'
                      /\ heap[a].copiedTo \in DOMAIN heap
                      /\ InToSpace(heap[a].copiedTo)
                      /\ SameKind(heap'[a], heap'[heap[a].copiedTo])
                      /\ heap[a].info = heap[heap[a].copiedTo].info
    BY <1>1, <1>5, <1>6 DEF Redirected, OneWord, Marks, InToSpace, InSpace
  <2>1. /\ InFrom(a) /\ heap[a].copiedTo \in DOMAIN heap
        /\ InToSpace(heap[a].copiedTo)
        /\ SameKind(heap[a], heap[heap[a].copiedTo])
        /\ heap[a].info = heap[heap[a].copiedTo].info
    BY DEF IInv, Marks
  <2>2. SameKind(heap'[a], heap'[heap[a].copiedTo])
    <3> DEFINE c == heap[a].copiedTo
    <3>1. /\ SameKind(heap[a], heap'[a]) /\ SameKind(heap[c], heap'[c])
          /\ SameKind(heap[a], heap[c])
      BY <1>5, <2>1 DEF Redirected, OneWord, SameObject
    <3>2. SameKind(heap'[a], heap[a])
      BY <3>1, SameKindEquivalence
    <3>3. SameKind(heap'[a], heap[c])
      BY <3>1, <3>2, SameKindEquivalence
    <3> QED BY <3>1, <3>3, SameKindEquivalence
  <2>3. InFrom(a)'
    BY <1>1, <1>6, <2>1 DEF InFrom, Within
  <2> QED BY <2>1, <2>2, <2>3
<1>15. RequestOK'
  <2>1. \A r \in Roots : \/ roots'[r] = roots[r]
                         \/ IsHeapAllocated(roots'[r]) /\ roots'[r].tag = roots[r].tag
    BY <1>1, <1>5 DEF Redirected, IsHeapAllocated
  <2>2. ASSUME NEW r \in Roots, roots[r].tag = "closure"
        PROVE  heap'[roots'[r].upper].info = heap[roots[r].upper].info
    <3>1. roots[r].upper \in DOMAIN heap
      BY <2>2 DEF IInv, WordsOK, Plain, IsHeapAllocated, HeapTags
    <3> QED BY <1>3, <1>5, <1>6, <3>1 DEF Redirected
  <2> QED BY <1>1, <1>5, <2>1, <2>2, RequestKept DEF Redirected, OneWord
<1> QED BY <1>9, <1>10, <1>11, <1>12, <1>13, <1>14, <1>15 DEF IInv

\* The vector of offsets lists every constant of the function.
LEMMA ConstLocationsOK ==
  ASSUME IInv, NEW f, Linked(f)
  PROVE  /\ f \in Funs
         /\ ConstLocations(f) \in Seq(Location)
         /\ \A i \in DOMAIN code[f] : i > 2 => Mem(<<"code", f, i>>, ConstLocations(f))
         /\ \A l : Mem(l, ConstLocations(f)) => ValidLocation(l)
<1> DEFINE n == Len(code[f]) - 2
           offsets == heap[code[f][2].upper].fields
<1>1. f \in Funs /\ CodeOK(f, heap, code)
  BY LinkedFuns
<1>2. /\ code[f] \in Seq(Word) /\ DOMAIN code[f] = 1..Len(code[f])
      /\ Len(code[f]) \in Nat /\ n \in Nat /\ Len(code[f]) = n + 2
  BY <1>1 DEF IInv, TypeOK, CodeOK
<1>3. offsets = [i \in 1..n |-> Fixnum(i)]
  BY <1>1 DEF CodeOK, OffsetsWord
<1> HIDE DEF n
<1>4. Len(offsets) = n /\ \A i \in 1..n : offsets[i].upper = i
  BY <1>2, <1>3 DEF Fixnum
<1> HIDE DEF offsets
<1>5. ConstLocations(f) = [i \in 1..n |-> <<"code", f, 2 + offsets[i].upper>>]
  BY <1>4 DEF ConstLocations, offsets
<1>6. ConstLocations(f) = [i \in 1..n |-> <<"code", f, 2 + i>>]
  BY <1>4, <1>5
<1>7. \A i \in 1..n : <<"code", f, 2 + i>> \in Location
  BY <1>1, <1>2 DEF Location
<1>8. ConstLocations(f) \in Seq(Location)
  BY <1>2, <1>6, <1>7
<1>9. ASSUME NEW i \in DOMAIN code[f], i > 2
      PROVE  Mem(<<"code", f, i>>, ConstLocations(f))
  <2>1. i - 2 \in 1..n /\ 2 + (i - 2) = i
    BY <1>2, <1>9
  <2>2. /\ ConstLocations(f)[i - 2] = <<"code", f, i>>
        /\ i - 2 \in DOMAIN ConstLocations(f)
    BY <1>6, <2>1
  <2> QED BY <2>2 DEF Mem
<1>10. ASSUME NEW l, Mem(l, ConstLocations(f)) PROVE ValidLocation(l)
  <2>1. PICK i \in 1..n : l = <<"code", f, 2 + i>>
    BY <1>6, <1>10 DEF Mem
  <2>2. 2 + i \in DOMAIN code[f]
    BY <1>2
  <2> QED BY <2>1, <2>2 DEF ValidLocation
<1> QED BY <1>1, <1>8, <1>9, <1>10

\* The loop over the constants becomes one location for each.
LEMMA ScavengeConstsIInv ==
  ASSUME IInv, ScavengeConsts
  PROVE  IInv'
<1> DEFINE loc == Head(work)
           f == loc[2]
           locs == ConstLocations(f)
<1>1. /\ pc = "scavenge" /\ work # <<>> /\ work \in Seq(Location) /\ loc[1] = "consts"
      /\ work' = locs \o Tail(work) /\ UNCHANGED <<roots, heap, code, req, pc>>
      /\ UNCHANGED <<fromSpace, toSpace, heapPtr, heapLimit, heapCopyPtr>>
  BY DEF IInv, TypeOK, ScavengeConsts, Scavenging, spaces
<1>2. ValidLocation(loc) /\ Linked(f)
  <2>1. ValidLocation(loc)
    BY <1>1, MemTail DEF IInv, WorkOK
  <2> QED BY <1>1, <2>1 DEF ValidLocation
<1>3. /\ f \in Funs /\ locs \in Seq(Location)
      /\ \A i \in DOMAIN code[f] : i > 2 => Mem(<<"code", f, i>>, locs)
      /\ \A l : Mem(l, locs) => ValidLocation(l)
  BY <1>2, ConstLocationsOK
<1>4. Tail(work) \in Seq(Location)
  BY <1>1, HeadTailProperties
<1>5. /\ work' \in Seq(Location)
      /\ \A l : Mem(l, work') <=> Mem(l, locs) \/ Mem(l, Tail(work))
  BY <1>1, <1>3, <1>4, MemConcat, ConcatProperties
<1>6. \A l : Mem(l, work) => l = loc \/ Mem(l, work')
  BY <1>1, <1>5, MemTail
<1>7. WorkOK'
  <2>1. RootsCovered'
    <3>1. RootsCovered
      BY <1>1 DEF IInv, WorkOK, Covered
    <3>2. \A r \in Roots : loc # <<"root", r, 0>>
      BY <1>1
    <3> QED BY <1>1, <1>6, <3>1, <3>2 DEF RootsCovered, Clean, InToSpace, InSpace
  <2>2. ASSUME NEW a \in DOMAIN heap, InToSpace(a) PROVE CoveredObject(a)'
    <3>1. CoveredObject(a)
      BY <1>1, <2>2 DEF IInv, WorkOK, Covered
    <3>2. \A i \in DOMAIN heap[a].fields :
            Clean(heap[a].fields[i]) \/ Mem(<<"field", a, i>>, work')
      BY <1>1, <1>6, <3>1 DEF CoveredObject
    <3>3. ASSUME heap[a].info # NoFun, NEW i \in DOMAIN code[heap[a].info]
          PROVE  \/ Clean(code[heap[a].info][i])
                 \/ Mem(<<"code", heap[a].info, i>>, work')
                 \/ i > 2 /\ Mem(<<"consts", heap[a].info, 0>>, work')
      <4>1. loc = <<"consts", heap[a].info, 0>> => f = heap[a].info
        OBVIOUS
      <4>2. \/ Clean(code[heap[a].info][i])
            \/ Mem(<<"code", heap[a].info, i>>, work)
            \/ i > 2 /\ Mem(<<"consts", heap[a].info, 0>>, work)
        BY <3>1, <3>3 DEF CoveredObject
      <4> QED BY <1>1, <1>3, <1>5, <1>6, <4>1, <4>2
    <3> HIDE DEF loc
    <3> QED BY <1>1, <3>2, <3>3 DEF CoveredObject, Clean, InToSpace, InSpace
  <2>3. Covered'
    BY <1>1, <2>1, <2>2 DEF Covered, InToSpace, InSpace
  <2>4. \A l : Mem(l, work') => ValidLocation(l)
    <3>1. \A l : Mem(l, Tail(work)) => ValidLocation(l)
      BY <1>1, MemTail DEF IInv, WorkOK
    <3> QED BY <1>3, <1>5, <3>1
  <2>5. \A l : Mem(l, work') => ValidLocation(l)'
    BY <1>1, <2>4 DEF ValidLocation, InToSpace, InSpace, Linked
  <2> QED BY <2>3, <2>5 DEF WorkOK
<1>8. TypeOK'
  BY <1>1, <1>5 DEF IInv, TypeOK
<1>9. WordsOK' /\ Marks'
  BY <1>1 DEF IInv, WordsOK, Marks, InFrom, Within, InToSpace, InSpace
<1>10. Layout' /\ Room'
  BY <1>1 DEF IInv, Layout, InFrom, InTo, Within, Room, CopiedUnits
<1>11. RequestOK'
  BY <1>1 DEF IInv, RequestOK, MayRequest, IsUnlinked, ObjectAt, Unlinked
<1> QED BY <1>7, <1>8, <1>9, <1>10, <1>11 DEF IInv

\* In the heap k the object at a is marked too, and nothing else is.
MarksOneMore(a, k) ==
  /\ DOMAIN heap \subseteq DOMAIN k
  /\ \A x \in DOMAIN k \ DOMAIN heap : ~k[x].mark
  /\ \A x \in DOMAIN heap :
       k[x].size = heap[x].size /\ (k[x].mark <=> x = a \/ heap[x].mark)

\* Copying an object that was not copied before fits into the new space: its
\* units in the old one are not yet accounted for.
LEMMA CopyRoom ==
  ASSUME IInv, pc = "scavenge", NEW a \in DOMAIN heap, ~heap[a].mark, InFrom(a),
         NEW k, MarksOneMore(a, k)
  PROVE  /\ toSpace <= heapCopyPtr
         /\ heapCopyPtr + heap[a].size <= toSpace + HeapSize
         /\ heapCopyPtr + heap[a].size = toSpace + Cardinality(CopiedUnits(k))
<1> USE DEF MarksOneMore
<1> DEFINE used == fromSpace..(heapPtr - 1)
           mine == a..(a + heap[a].size - 1)
           before == CopiedUnits(heap)
<1>1. /\ fromSpace \in Nat /\ toSpace \in Nat /\ heapPtr \in Nat /\ HeapSize \in Nat
      /\ a \in Nat /\ heap[a].size \in Nat /\ heap[a].size >= 1
      /\ \A x \in DOMAIN heap : x \in Nat /\ heap[x].size \in Nat
  BY TwoSpaces, HeapSizeAssumption DEF IInv, TypeOK, Layout, Object
<1>2. fromSpace <= a /\ a + heap[a].size <= heapPtr /\ heapPtr <= fromSpace + HeapSize
  BY DEF IInv, Layout, InFrom, Within
<1>3. IsFiniteSet(used) /\ Cardinality(used) <= HeapSize
  <2> DEFINE last == heapPtr - 1
  <2>1. last \in Int /\ fromSpace \in Int
    BY <1>1
  <2> HIDE DEF last
  <2>2. /\ IsFiniteSet(fromSpace..last)
        /\ Cardinality(fromSpace..last)
             = IF fromSpace > last THEN 0 ELSE last - fromSpace + 1
    BY <2>1, FS_Interval
  <2> QED BY <1>1, <1>2, <2>2 DEF last
<1>4. IsFiniteSet(mine) /\ Cardinality(mine) = heap[a].size
  <2> DEFINE last == a + heap[a].size - 1
  <2>1. last \in Int /\ a \in Int
    BY <1>1
  <2> HIDE DEF last
  <2>2. /\ IsFiniteSet(a..last)
        /\ Cardinality(a..last) = IF a > last THEN 0 ELSE last - a + 1
    BY <2>1, FS_Interval
  <2> QED BY <1>1, <2>2 DEF last
<1>5. mine \subseteq used /\ before \subseteq used
  BY <1>1, <1>2 DEF CopiedUnits
<1>6. before \cap mine = {}
  <2> SUFFICES ASSUME NEW u \in before, u \in mine PROVE FALSE
    OBVIOUS
  <2>1. PICK x \in DOMAIN heap : heap[x].mark /\ x <= u /\ u < x + heap[x].size
    BY DEF CopiedUnits
  <2>2. x # a /\ u \in Nat
    BY <1>1, <2>1
  <2>3. x < a \/ a < x
    BY <1>1, <2>2
  <2>4. (x < a => x + heap[x].size <= a) /\ (a < x => a + heap[a].size <= x)
    BY DEF IInv, Layout
  <2> QED BY <1>1, <2>1, <2>2, <2>3, <2>4
<1>7. CopiedUnits(k) = before \cup mine
  <2>1. ASSUME NEW u \in CopiedUnits(k) PROVE u \in before \cup mine
    <3>1. u \in used /\ \E x \in DOMAIN k : k[x].mark /\ x <= u /\ u < x + k[x].size
      BY DEF CopiedUnits
    <3>2. PICK x \in DOMAIN heap : k[x].mark /\ x <= u /\ u < x + k[x].size
      BY <3>1
    <3>3. k[x].size = heap[x].size /\ (x = a \/ heap[x].mark)
      BY <3>2
    <3>4. CASE x = a
      BY <1>1, <3>1, <3>2, <3>3, <3>4
    <3>5. CASE heap[x].mark
      BY <3>1, <3>2, <3>3, <3>5 DEF CopiedUnits
    <3> QED BY <3>3, <3>4, <3>5
  <2>2. ASSUME NEW u \in before PROVE u \in CopiedUnits(k)
    BY DEF CopiedUnits
  <2>3. ASSUME NEW u \in mine PROVE u \in CopiedUnits(k)
    <3>1. u \in used /\ a <= u /\ u < a + heap[a].size
      BY <1>1, <1>5
    <3>2. a \in DOMAIN k /\ k[a].mark /\ k[a].size = heap[a].size
      OBVIOUS
    <3> QED BY <3>1, <3>2 DEF CopiedUnits
  <2> QED BY <2>1, <2>2, <2>3
<1> HIDE DEF used, mine, before
<1>8. IsFiniteSet(before) /\ IsFiniteSet(before \cup mine)
  BY <1>3, <1>4, <1>5, FS_Subset, FS_Union
<1>9. Cardinality(before \cup mine) = Cardinality(before) + heap[a].size
  <2>1. Cardinality(before \cup mine)
          = Cardinality(before) + Cardinality(mine) - Cardinality(before \cap mine)
    BY <1>4, <1>8, FS_Union
  <2>2. Cardinality(before) \in Nat /\ Cardinality(before \cap mine) = 0
    BY <1>6, <1>8, FS_CardinalityType, FS_EmptySet
  <2> QED BY <1>1, <1>4, <2>1, <2>2
<1>10. Cardinality(before \cup mine) <= Cardinality(used)
  BY <1>3, <1>5, FS_Subset
<1>11. Cardinality(before) \in Nat /\ Cardinality(used) \in Nat
  BY <1>3, <1>8, FS_CardinalityType
<1>12. heapCopyPtr = toSpace + Cardinality(before)
  BY DEF IInv, Room, before
<1> QED BY <1>1, <1>3, <1>7, <1>9, <1>10, <1>11, <1>12

\* Every unit copied is a unit of the old space.
LEMMA CopyPtrBound ==
  ASSUME IInv, pc = "scavenge"
  PROVE  toSpace <= heapCopyPtr /\ heapCopyPtr <= toSpace + HeapSize
<1> DEFINE last == heapPtr - 1
<1>1. /\ fromSpace \in Nat /\ toSpace \in Nat /\ heapPtr \in Nat /\ HeapSize \in Nat
      /\ heapPtr <= fromSpace + HeapSize /\ fromSpace <= heapPtr
  BY TwoSpaces, HeapSizeAssumption DEF IInv, TypeOK, Layout
<1>2. last \in Int /\ fromSpace \in Int /\ CopiedUnits(heap) \subseteq fromSpace..last
  BY <1>1 DEF CopiedUnits
<1>3. last - fromSpace + 1 <= HeapSize
  BY <1>1
<1> HIDE DEF last
<1>4. /\ IsFiniteSet(fromSpace..last)
      /\ Cardinality(fromSpace..last)
           = IF fromSpace > last THEN 0 ELSE last - fromSpace + 1
  BY <1>2, FS_Interval
<1>5. /\ IsFiniteSet(CopiedUnits(heap))
      /\ Cardinality(CopiedUnits(heap)) <= Cardinality(fromSpace..last)
  BY <1>2, <1>4, FS_Subset
<1>6. Cardinality(CopiedUnits(heap)) \in Nat /\ Cardinality(fromSpace..last) \in Nat
  BY <1>4, <1>5, FS_CardinalityType
<1>7. heapCopyPtr = toSpace + Cardinality(CopiedUnits(heap))
  BY DEF IInv, Room
<1>8. Cardinality(fromSpace..last) <= HeapSize
  BY <1>1, <1>2, <1>3, <1>4
<1> QED BY <1>1, <1>5, <1>6, <1>7, <1>8

\* The locations inside a copy are what has to be done about it.
LEMMA InteriorOK ==
  ASSUME NEW b \in Nat, NEW o \in Object, o.info # NoFun => o.info \in Funs,
         o.tag = "closure" => o.fields = <<>>,
         o.tag # "closure" => o.info = NoFun
  PROVE  /\ Interior(b, o) \in Seq(Location)
         /\ \A i \in DOMAIN o.fields : Mem(<<"field", b, i>>, Interior(b, o))
         /\ o.info # NoFun =>
              /\ Mem(<<"code", o.info, 1>>, Interior(b, o))
              /\ Mem(<<"code", o.info, 2>>, Interior(b, o))
              /\ Mem(<<"consts", o.info, 0>>, Interior(b, o))
         /\ \A l : Mem(l, Interior(b, o)) =>
              \/ l[1] = "field" /\ l[2] = b /\ l[3] \in DOMAIN o.fields
              \/ l[1] = "code" /\ l[2] = o.info /\ l[3] \in {1, 2} /\ o.info # NoFun
              \/ l[1] = "consts" /\ l[2] = o.info /\ o.info # NoFun
<1>1. /\ DOMAIN o.fields = 1..Len(o.fields) /\ Len(o.fields) \in Nat
  BY FieldsAreWords
<1>2. CASE o.tag # "closure"
  <2>1. Interior(b, o) = [i \in 1..Len(o.fields) |-> <<"field", b, i>>]
    BY <1>2 DEF Interior
  <2>2. \A i \in 1..Len(o.fields) : <<"field", b, i>> \in Location
    BY <1>1 DEF Location
  <2>3. Interior(b, o) \in Seq(Location)
    BY <1>1, <2>1, <2>2
  <2>4. \A i \in DOMAIN o.fields : Mem(<<"field", b, i>>, Interior(b, o))
    BY <1>1, <2>1 DEF Mem
  <2>5. \A l : Mem(l, Interior(b, o)) =>
          l[1] = "field" /\ l[2] = b /\ l[3] \in DOMAIN o.fields
    BY <1>1, <2>1 DEF Mem
  <2> QED BY <1>2, <2>3, <2>4, <2>5
<1>3. CASE o.tag = "closure" /\ o.info = NoFun
  <2>1. Interior(b, o) = <<>> /\ o.fields = <<>>
    BY <1>3 DEF Interior
  <2>2. DOMAIN o.fields = {} /\ DOMAIN Interior(b, o) = {}
    BY <2>1
  <2> QED BY <1>3, <2>1, <2>2 DEF Mem
<1>4. CASE o.tag = "closure" /\ o.info # NoFun
  <2> DEFINE s == << <<"code", o.info, 1>>, <<"code", o.info, 2>>,
                     <<"consts", o.info, 0>> >>
  <2>1. Interior(b, o) = s /\ o.fields = <<>>
    BY <1>4 DEF Interior
  <2>2. /\ <<"code", o.info, 1>> \in Location
        /\ <<"code", o.info, 2>> \in Location
        /\ <<"consts", o.info, 0>> \in Location
    BY <1>4 DEF Location
  <2>3. /\ s \in Seq(Location) /\ DOMAIN s = 1..3
        /\ s[1] = <<"code", o.info, 1>> /\ s[2] = <<"code", o.info, 2>>
        /\ s[3] = <<"consts", o.info, 0>>
    BY <2>2
  <2> HIDE DEF s
  <2>4. DOMAIN o.fields = {}
    BY <2>1
  <2>5. \A l : Mem(l, s) <=> l = s[1] \/ l = s[2] \/ l = s[3]
    <3>1. \A i \in 1..3 : i = 1 \/ i = 2 \/ i = 3
      OBVIOUS
    <3>2. 1 \in DOMAIN s /\ 2 \in DOMAIN s /\ 3 \in DOMAIN s
      BY <2>3
    <3>3. \A l : Mem(l, s) => l = s[1] \/ l = s[2] \/ l = s[3]
      BY <2>3, <3>1 DEF Mem
    <3> QED BY <3>2, <3>3 DEF Mem
  <2> QED BY <1>4, <2>1, <2>3, <2>4, <2>5
<1> QED BY <1>2, <1>3, <1>4

\* What is copied lies in the old space, and its copy where no object is.
LEMMA CopyPlace ==
  ASSUME IInv, ScavengeCopy, NEW a, a = Read(Head(work)).upper
  PROVE  /\ IsHeapAllocated(Read(Head(work)))
         /\ a \in DOMAIN heap /\ InFrom(a)
         /\ toSpace <= heapCopyPtr
         /\ heapCopyPtr + heap[a].size <= toSpace + HeapSize
         /\ heapCopyPtr \notin DOMAIN heap /\ InToSpace(heapCopyPtr)
<1> DEFINE w == Read(Head(work))
           b == heapCopyPtr
<1>1. pc = "scavenge" /\ Scavenging(Locations) /\ ~NeedsNoWork(w) /\ ~heap[a].mark
  BY DEF ScavengeCopy, Scavenging
<1>2. IsHeapAllocated(w) /\ ~InToSpace(a) /\ a \in DOMAIN heap
  BY <1>1, ReadWord DEF NeedsNoWork
<1>3. /\ heap[a] \in Object /\ heap \in [DOMAIN heap -> Object] /\ b \in Nat
      /\ \A x \in DOMAIN heap : x \in Nat /\ heap[x].size \in Nat /\ heap[x].size >= 1
  BY <1>2 DEF IInv, TypeOK, Layout, Object
<1>4. /\ fromSpace \in Nat /\ toSpace \in Nat /\ heapPtr \in Nat /\ HeapSize \in Nat
      /\ toSpace + HeapSize <= fromSpace \/ fromSpace + HeapSize <= toSpace
      /\ fromSpace <= heapPtr /\ heapPtr <= fromSpace + HeapSize
  BY TwoSpaces, HeapSizeAssumption DEF IInv, TypeOK, Layout
<1> HIDE DEF b, w
<1>5. InFrom(a)
  <2> SUFFICES ASSUME InTo(a) PROVE FALSE
    BY <1>2 DEF IInv, Layout
  <2>1. InSpace(toSpace, a)
    BY <1>1, <1>2, <1>3, <1>4, CopyPtrBound DEF InTo, Within, InSpace, b
  <2> QED BY <1>2, <2>1 DEF InToSpace
<1>6. toSpace <= b /\ b + heap[a].size <= toSpace + HeapSize
  <2> DEFINE k == [heap EXCEPT ![a].mark = TRUE]
  <2>1. MarksOneMore(a, k)
    BY <1>2, <1>3 DEF Object, MarksOneMore
  <2> HIDE DEF k
  <2> QED BY <1>1, <1>2, <1>5, <2>1, CopyRoom DEF b
<1>7. InToSpace(b)
  BY <1>2, <1>3, <1>4, <1>6 DEF InToSpace, InSpace
<1>8. ASSUME b \in DOMAIN heap PROVE FALSE
  <2>1. InFrom(b) \/ InTo(b)
    BY <1>8 DEF IInv, Layout
  <2>2. heap[a].size >= 1 /\ heap[b].size >= 1 /\ heap[a].size \in Nat /\ heap[b].size \in Nat
    BY <1>2, <1>3, <1>8
  <2> QED BY <1>3, <1>4, <1>6, <2>1, <2>2 DEF InFrom, InTo, Within, b
<1> QED BY <1>2, <1>5, <1>6, <1>7, <1>8 DEF b, w

\* A copy is of the same kind, fits, and all of it is still to be scavenged.
LEMMA ScavengeCopyIInv ==
  ASSUME IInv, ScavengeCopy
  PROVE  IInv'
<1> DEFINE loc == Head(work)
           w == Read(loc)
           a == w.upper
           b == heapCopyPtr
           u == Pointer(w.tag, b)
           h == CopiedHeap(a, b)
           inside == Interior(b, heap[a])
<1>1. /\ pc = "scavenge" /\ work # <<>> /\ work \in Seq(Location)
      /\ Scavenging(Locations)
      /\ loc[1] \in {"root", "field", "code"}
      /\ ~NeedsNoWork(w) /\ ~heap[a].mark /\ WriteTo(loc, u, h)
      /\ heapCopyPtr' = b + heap[a].size /\ work' = inside \o Tail(work)
      /\ UNCHANGED <<req, pc>>
      /\ UNCHANGED <<fromSpace, toSpace, heapPtr, heapLimit>>
  BY DEF IInv, TypeOK, ScavengeCopy, Scavenging, Locations
<1>2. /\ IsHeapAllocated(w) /\ ~InToSpace(a)
      /\ w \in Word /\ a \in DOMAIN heap /\ heap[a].tag = w.tag /\ ValidLocation(loc)
  BY <1>1, ReadWord DEF NeedsNoWork
<1>3. /\ HeapType(heap) /\ ObjectsOK(heap, code) /\ code \in [Funs -> Seq(Word)]
      /\ heap[a] \in Object /\ ObjectOK(heap[a], heap, code)
      /\ b \in Nat /\ a \in Nat /\ heap[a].size \in Nat /\ heap[a].size >= 1
  BY <1>2 DEF IInv, TypeOK, HeapType, WordsOK, ObjectsOK, Object, Layout
<1>4. \A x \in DOMAIN heap : x \in Nat /\ heap[x].size \in Nat /\ heap[x].size >= 1
  BY DEF IInv, TypeOK, Layout, Object
<1>5. /\ fromSpace \in Nat /\ toSpace \in Nat /\ heapPtr \in Nat /\ HeapSize \in Nat
      /\ toSpace + HeapSize <= fromSpace \/ fromSpace + HeapSize <= toSpace
      /\ fromSpace <= heapPtr /\ heapPtr <= fromSpace + HeapSize
  BY TwoSpaces, HeapSizeAssumption DEF IInv, TypeOK, Layout
<1> HIDE DEF b, u, loc, w, a, h, inside
<1>6. /\ InFrom(a) /\ toSpace <= b /\ b + heap[a].size <= toSpace + HeapSize
      /\ b \notin DOMAIN heap /\ InToSpace(b)
  BY CopyPlace DEF a, b, w, loc
<1>7. /\ DOMAIN h = DOMAIN heap \cup {b}
      /\ h[b] = heap[a]
      /\ b # a => h[a] = [heap[a] EXCEPT !.mark = TRUE, !.copiedTo = b]
      /\ \A x \in DOMAIN heap : x # a /\ x # b => h[x] = heap[x]
  BY <1>2 DEF CopiedHeap, h
<1>8. b < toSpace + HeapSize
  BY <1>3, <1>5, <1>6
<1>9. b \notin DOMAIN heap /\ InToSpace(b)
  BY <1>6
<1>10. /\ h[a] \in Object /\ h[a].mark /\ h[a].copiedTo = b
       /\ h[a].fields = heap[a].fields /\ h[a].info = heap[a].info
       /\ h[a].tag = heap[a].tag /\ h[a].size = heap[a].size
  BY <1>2, <1>3, <1>7, <1>9 DEF Object
<1>11. \A x \in DOMAIN heap :
         /\ h[x].fields = heap[x].fields /\ h[x].info = heap[x].info
         /\ h[x].tag = heap[x].tag /\ h[x].size = heap[x].size
         /\ h[x].mark <=> x = a \/ heap[x].mark
         /\ x # a => h[x].copiedTo = heap[x].copiedTo
  BY <1>7, <1>9, <1>10
<1>12. HeapType(h) /\ Grows(heap, h)
  <2>1. \A x \in DOMAIN h : x \in Nat /\ h[x] \in Object
    BY <1>3, <1>4, <1>7, <1>10 DEF HeapType
  <2>2. h = [x \in DOMAIN h |-> h[x]]
    BY DEF h, CopiedHeap
  <2> QED BY <1>7, <1>11, <2>1, <2>2 DEF HeapType, Grows, SameKind
<1>13. ObjectsOK(h, code)
  <2>1. \A x \in DOMAIN heap : ObjectOK(heap[x], h, code)
    BY <1>3, <1>12, ObjectGrows DEF ObjectsOK
  <2>2. \A x \in DOMAIN heap : ObjectOK(h[x], h, code)
    BY <1>11, <2>1 DEF ObjectOK, IsOffsets
  <2> QED BY <1>2, <1>7, <2>1, <2>2 DEF ObjectsOK
<1>14. Redirected(loc, w, u, h, b)
  <2>1. SameKind(heap[a], h[b]) /\ b \in DOMAIN h
    BY <1>7 DEF SameKind
  <2>2. Redirection(loc, w, u, h, b)
    BY <1>1, <1>2, <1>11, <1>12, <1>13, <2>1 DEF Redirection, loc, w, u, a
  <2> QED BY <2>2, RedirectWords
<1>15. /\ DOMAIN heap' = DOMAIN heap \cup {b}
       /\ \A x \in DOMAIN h :
            /\ DOMAIN heap'[x].fields = DOMAIN h[x].fields
            /\ heap'[x].info = h[x].info /\ heap'[x].size = h[x].size
            /\ heap'[x].mark = h[x].mark /\ heap'[x].copiedTo = h[x].copiedTo
            /\ heap'[x].tag = h[x].tag /\ SameKind(h[x], heap'[x])
  BY <1>7, <1>14 DEF Redirected, OneWord, SameObject, SameKind
<1>16. \A x \in DOMAIN heap :
         /\ DOMAIN heap'[x].fields = DOMAIN heap[x].fields
         /\ heap'[x].info = heap[x].info /\ heap'[x].size = heap[x].size
         /\ heap'[x].mark <=> x = a \/ heap[x].mark
         /\ x # a => heap'[x].copiedTo = heap[x].copiedTo
         /\ SameKind(heap[x], heap'[x])
  <2> SUFFICES ASSUME NEW x \in DOMAIN heap
               PROVE  /\ DOMAIN heap'[x].fields = DOMAIN heap[x].fields
                      /\ heap'[x].info = heap[x].info /\ heap'[x].size = heap[x].size
                      /\ heap'[x].mark <=> x = a \/ heap[x].mark
                      /\ x # a => heap'[x].copiedTo = heap[x].copiedTo
                      /\ SameKind(heap[x], heap'[x])
    OBVIOUS
  <2>1. x \in DOMAIN h
    BY <1>7
  <2> QED BY <1>11, <1>15, <2>1 DEF SameKind
<1>17. /\ heap'[b].size = heap[a].size /\ heap'[b].mark = FALSE
       /\ heap'[b].info = heap[a].info /\ SameKind(heap[a], heap'[b])
       /\ DOMAIN heap'[b].fields = DOMAIN heap[a].fields
       /\ heap'[a].mark /\ heap'[a].copiedTo = b
  BY <1>1, <1>2, <1>3, <1>7, <1>10, <1>15 DEF Object
<1>18. TypeOK' /\ WordsOK'
  <2>1. inside \in Seq(Location)
    BY <1>3, InteriorOK, LinkedFuns, <1>2 DEF ObjectOK, inside
  <2>2. work' \in Seq(Location)
    BY <1>1, <2>1, HeadTailProperties, ConcatProperties
  <2>3. heapCopyPtr' \in Nat
    BY <1>1, <1>3
  <2>4. TypeOK'
    BY <1>1, <1>14, <2>2, <2>3 DEF Redirected, IInv, TypeOK, HeapType
  <2> QED BY <1>14, <2>4 DEF Redirected, WordsOK, ObjectsOK
<1>19. Layout'
  <2>1. \A x \in DOMAIN heap' : heap'[x].size >= 1
    BY <1>3, <1>4, <1>15, <1>16, <1>17
  <2>2. ASSUME NEW x \in DOMAIN heap'
        PROVE  \/ fromSpace <= x /\ x + heap'[x].size <= heapPtr
               \/ toSpace <= x /\ x + heap'[x].size <= b + heap[a].size
    <3>1. CASE x = b
      BY <1>3, <1>5, <1>6, <1>8, <1>17, <3>1
    <3>2. CASE x \in DOMAIN heap
      <4>1. InFrom(x) \/ InTo(x)
        BY <3>2 DEF IInv, Layout
      <4> QED BY <1>3, <1>4, <1>5, <1>16, <3>2, <4>1 DEF InFrom, InTo, Within, b
    <3> QED BY <1>15, <3>1, <3>2
  <2>3. ASSUME NEW x \in DOMAIN heap', NEW y \in DOMAIN heap', x < y
        PROVE  x + heap'[x].size <= y
    <3>1. CASE x \in DOMAIN heap /\ y \in DOMAIN heap
      BY <1>16, <2>3, <3>1 DEF IInv, Layout
    <3>2. CASE x = b /\ y \in DOMAIN heap
      <4>1. InFrom(y) \/ InTo(y)
        BY <3>2 DEF IInv, Layout
      <4>2. /\ InTo(y) => y + heap[y].size <= b
            /\ InFrom(y) => fromSpace <= y /\ y < fromSpace + HeapSize
        BY <1>4, <1>5, <3>2 DEF InFrom, InTo, Within, b
      <4>3. InFrom(y) /\ toSpace + HeapSize <= fromSpace
        BY <1>3, <1>4, <1>5, <1>6, <1>8, <2>3, <3>2, <4>1, <4>2
      <4>4. b + heap[a].size <= y
        BY <1>3, <1>4, <1>5, <1>6, <1>8, <3>2, <4>2, <4>3
      <4> QED BY <1>17, <3>2, <4>4
    <3>3. CASE y = b /\ x \in DOMAIN heap
      <4>1. InFrom(x) \/ InTo(x)
        BY <3>3 DEF IInv, Layout
      <4>2. /\ InTo(x) => x + heap[x].size <= b
            /\ InFrom(x) => fromSpace <= x /\ x + heap[x].size <= fromSpace + HeapSize
        BY <1>4, <1>5, <3>3 DEF InFrom, InTo, Within, b
      <4>3. x + heap[x].size <= b
        BY <1>3, <1>4, <1>5, <1>6, <1>8, <2>3, <3>3, <4>1, <4>2
      <4> QED BY <1>16, <3>3, <4>3
    <3>4. CASE x = b /\ y = b
      BY <1>3, <2>3, <3>4
    <3> QED BY <1>15, <3>1, <3>2, <3>3, <3>4
  <2> QED BY <1>1, <1>5, <2>1, <2>2, <2>3 DEF Layout, InFrom, InTo, Within
<1>20. Room'
  <2>1. MarksOneMore(a, heap')
    BY <1>9, <1>15, <1>16, <1>17 DEF MarksOneMore
  <2>2. b + heap[a].size = toSpace + Cardinality(CopiedUnits(heap'))
    BY <1>1, <1>2, <1>6, <2>1, CopyRoom DEF b
  <2>3. CopiedUnits(heap)' = CopiedUnits(heap')
    BY <1>1 DEF CopiedUnits
  <2> QED BY <1>1, <2>2, <2>3 DEF Room
<1>21. Marks'
  <2> SUFFICES ASSUME NEW x \in DOMAIN heap', heap'[x].mark
               PROVE  /\ InFrom(x)'
                      /\ heap'[x].copiedTo \in DOMAIN heap'
                      /\ InToSpace(heap'[x].copiedTo)
                      /\ SameKind(heap'[x], heap'[heap'[x].copiedTo])
                      /\ heap'[x].info = heap'[heap'[x].copiedTo].info
    BY <1>1 DEF Marks, InToSpace, InSpace
  <2>1. x \in DOMAIN heap
    BY <1>15, <1>17
  <2>2. CASE x = a
    <3>1. InFrom(x)'
      BY <1>1, <1>6, <1>16, <2>1, <2>2 DEF InFrom, Within
    <3>2. SameKind(heap'[a], heap[a])
      BY <1>16, <2>1, <2>2, SameKindEquivalence
    <3>3. SameKind(heap'[a], heap'[b])
      BY <1>17, <3>2, SameKindEquivalence
    <3> QED BY <1>9, <1>15, <1>16, <1>17, <2>1, <2>2, <3>1, <3>3
  <2>3. CASE x # a
    <3> DEFINE c == heap[x].copiedTo
    <3>1. /\ InFrom(x) /\ c \in DOMAIN heap /\ InToSpace(c)
          /\ SameKind(heap[x], heap[c]) /\ heap[x].info = heap[c].info
      BY <1>16, <2>1, <2>3 DEF IInv, Marks
    <3>2. heap'[x].copiedTo = c
      BY <1>16, <2>1, <2>3
    <3> HIDE DEF c
    <3>3. InFrom(x)'
      BY <1>1, <1>16, <2>1, <3>1 DEF InFrom, Within
    <3>4. SameKind(heap'[x], heap[x]) /\ SameKind(heap[c], heap'[c])
      BY <1>16, <2>1, <3>1, SameKindEquivalence
    <3>5. SameKind(heap'[x], heap[c])
      BY <3>1, <3>4, SameKindEquivalence
    <3>6. SameKind(heap'[x], heap'[c])
      BY <3>4, <3>5, SameKindEquivalence
    <3> QED BY <1>15, <1>16, <2>1, <3>1, <3>2, <3>3, <3>6
  <2> QED BY <2>2, <2>3
<1>22. /\ inside \in Seq(Location) /\ Tail(work) \in Seq(Location)
       /\ \A l : Mem(l, work') <=> Mem(l, inside) \/ Mem(l, Tail(work))
       /\ \A l : Mem(l, work) /\ l # loc => Mem(l, work')
       /\ \A l : Mem(l, Tail(work)) => Mem(l, work)
  <2>1. inside \in Seq(Location)
    BY <1>2, <1>3, InteriorOK, LinkedFuns DEF ObjectOK, inside
  <2>2. Tail(work) \in Seq(Location)
    BY <1>1, HeadTailProperties
  <2>3. \A l : Mem(l, work') <=> Mem(l, inside) \/ Mem(l, Tail(work))
    BY <1>1, <2>1, <2>2, MemConcat
  <2>4. /\ \A l : Mem(l, work) /\ l # loc => Mem(l, Tail(work))
        /\ \A l : Mem(l, Tail(work)) => Mem(l, work)
    BY <1>1, MemTail DEF loc
  <2> QED BY <2>1, <2>2, <2>3, <2>4
<1>23. /\ \A i \in DOMAIN heap[a].fields : Mem(<<"field", b, i>>, inside)
       /\ heap[a].info # NoFun =>
            /\ Mem(<<"code", heap[a].info, 1>>, inside)
            /\ Mem(<<"code", heap[a].info, 2>>, inside)
            /\ Mem(<<"consts", heap[a].info, 0>>, inside)
       /\ \A l : Mem(l, inside) =>
            \/ l[1] = "field" /\ l[2] = b /\ l[3] \in DOMAIN heap[a].fields
            \/ /\ l[1] = "code" /\ l[2] = heap[a].info
               /\ l[3] \in {1, 2} /\ heap[a].info # NoFun
            \/ l[1] = "consts" /\ l[2] = heap[a].info /\ heap[a].info # NoFun
  BY <1>2, <1>3, InteriorOK, LinkedFuns DEF ObjectOK, inside
<1>24. WorkOK'
  <2>1. loc[1] # "consts"
    BY <1>1
  <2>2. RootsCovered' /\ \A x \in DOMAIN heap : InToSpace(x) => CoveredObject(x)'
    <3>1. OneWord(loc, u, h) /\ InToSpace(u.upper)
      BY <1>9, <1>14 DEF Redirected
    <3>2. DOMAIN heap \subseteq DOMAIN h
      BY <1>7
    <3>3. \A x \in DOMAIN heap :
            h[x].fields = heap[x].fields /\ h[x].info = heap[x].info
      BY <1>11
    <3> QED BY <1>1, <1>22, <2>1, <3>1, <3>2, <3>3, CoveredKept
  <2>3. ASSUME NEW y, y = b PROVE CoveredObject(y)'
    <3>1. \A i \in DOMAIN heap'[b].fields : Mem(<<"field", b, i>>, work')
      BY <1>17, <1>22, <1>23
    <3>2. ASSUME heap'[b].info # NoFun, NEW i \in DOMAIN code'[heap'[b].info]
          PROVE  \/ Mem(<<"code", heap'[b].info, i>>, work')
                 \/ i > 2 /\ Mem(<<"consts", heap'[b].info, 0>>, work')
      <4>1. heap'[b].info = heap[a].info /\ heap[a].info \in Funs
        BY <1>2, <1>17, <3>2, LinkedFuns
      <4>2. code'[heap[a].info] \in Seq(Word)
        BY <1>14, <4>1 DEF Redirected
      <4>3. i \in Nat /\ i >= 1
        BY <3>2, <4>1, <4>2
      <4>4. i = 1 \/ i = 2 \/ i > 2
        BY <4>3
      <4> QED BY <1>22, <1>23, <3>2, <4>1, <4>4
    <3> QED BY <2>3, <3>1, <3>2 DEF CoveredObject
  <2>4. Covered'
    BY <1>1, <1>15, <2>2, <2>3 DEF Covered, InToSpace, InSpace
  <2>5. \A f : Linked(f) => Linked(f)'
    BY <1>15, <1>16 DEF Linked
  <2>6. ASSUME NEW l, Mem(l, Tail(work)) PROVE ValidLocation(l)'
    <3>1. ValidLocation(l)
      BY <1>1, <1>22, <2>6 DEF IInv, WorkOK
    <3>2. \A f \in Funs : DOMAIN code'[f] = DOMAIN code[f]
      BY <1>14 DEF Redirected, OneWord
    <3>3. \A f : Linked(f) => f \in Funs
      BY LinkedFuns
    <3> QED BY <1>1, <1>15, <1>16, <3>1, <3>2, <3>3, ValidKept
  <2>7. ASSUME NEW l, Mem(l, inside) PROVE ValidLocation(l)'
    <3>1. CASE l[1] = "field" /\ l[2] = b /\ l[3] \in DOMAIN heap[a].fields
      BY <1>1, <1>9, <1>15, <1>17, <3>1 DEF ValidLocation, InToSpace, InSpace
    <3>2. CASE l[1] = "code" /\ l[2] = heap[a].info
               /\ l[3] \in {1, 2} /\ heap[a].info # NoFun
      <4>1. Linked(heap[a].info)
        BY <1>2, <3>2 DEF Linked
      <4>2. CodeOK(heap[a].info, heap, code)
        BY <4>1, LinkedFuns
      <4>3. 1 \in DOMAIN code[heap[a].info] /\ 2 \in DOMAIN code[heap[a].info]
        <5>1. code[heap[a].info] \in Seq(Word)
          BY <1>3, <4>2 DEF CodeOK
        <5> QED BY <4>2, <5>1 DEF CodeOK
      <4>4. DOMAIN code'[heap[a].info] = DOMAIN code[heap[a].info]
        BY <1>14, <4>2 DEF Redirected, OneWord, CodeOK
      <4> QED BY <2>5, <3>2, <4>1, <4>3, <4>4 DEF ValidLocation
    <3>3. CASE l[1] = "consts" /\ l[2] = heap[a].info /\ heap[a].info # NoFun
      <4>1. Linked(heap[a].info)
        BY <1>2, <3>3 DEF Linked
      <4> QED BY <2>5, <3>3, <4>1 DEF ValidLocation
    <3> QED BY <1>23, <2>7, <3>1, <3>2, <3>3
  <2>8. \A l : Mem(l, work') => ValidLocation(l)'
    BY <1>22, <2>6, <2>7
  <2> QED BY <2>4, <2>8 DEF WorkOK
<1>25. RequestOK'
  <2>1. \A r \in Roots : \/ roots'[r] = roots[r]
                         \/ IsHeapAllocated(roots'[r]) /\ roots'[r].tag = roots[r].tag
    BY <1>2, <1>14 DEF Redirected, IsHeapAllocated
  <2>2. ASSUME NEW r \in Roots, roots[r].tag = "closure"
        PROVE  heap'[roots'[r].upper].info = heap[roots[r].upper].info
    <3>1. roots[r].upper \in DOMAIN heap
      BY <2>2 DEF IInv, WordsOK, Plain, IsHeapAllocated, HeapTags
    <3>2. CASE roots'[r] = roots[r]
      BY <1>16, <3>1, <3>2
    <3>3. CASE roots[r] = w /\ roots'[r] = u
      BY <1>14, <1>17, <3>3 DEF Redirected, a
    <3> QED BY <1>14, <3>2, <3>3 DEF Redirected
  <2> QED BY <1>1, <1>14, <2>1, <2>2, RequestKept DEF Redirected, OneWord
<1> QED BY <1>18, <1>19, <1>20, <1>21, <1>24, <1>25 DEF IInv

\* Every word points into the new space: nothing needs what is given up.
LEMMA FlipIInv ==
  ASSUME IInv, Flip
  PROVE  IInv'
<1>1. /\ pc = "scavenge" /\ work = <<>> /\ pc' = "check"
      /\ fromSpace' = toSpace /\ toSpace' = fromSpace /\ heapPtr' = heapCopyPtr
      /\ heapLimit' = toSpace + HeapSize /\ heapCopyPtr' = 0
      /\ heap' = [a \in {x \in DOMAIN heap : InToSpace(x)} |-> heap[a]]
      /\ UNCHANGED <<roots, code, req, work>>
  BY DEF Flip
<1>2. /\ DOMAIN heap' = {x \in DOMAIN heap : InToSpace(x)}
      /\ \A x \in DOMAIN heap' : heap'[x] = heap[x]
  BY <1>1
<1>3. \A l : ~Mem(l, work)
  BY <1>1 DEF Mem
<1>4. \A r \in Roots : Clean(roots[r])
  BY <1>1, <1>3 DEF IInv, WorkOK, Covered, RootsCovered
<1>5. \A a \in DOMAIN heap' :
        /\ \A i \in DOMAIN heap[a].fields : Clean(heap[a].fields[i])
        /\ heap[a].info # NoFun =>
             \A i \in DOMAIN code[heap[a].info] : Clean(code[heap[a].info][i])
  BY <1>1, <1>2, <1>3 DEF IInv, WorkOK, Covered, CoveredObject
<1>6. \A w : Clean(w) /\ Plain(w, heap) => Plain(w, heap')
  BY <1>2 DEF Clean, Plain
<1>7. \A w, n : Clean(w) /\ OffsetsWord(w, n, heap) => OffsetsWord(w, n, heap')
  BY <1>2 DEF Clean, OffsetsWord, IsHeapAllocated, HeapTags
<1>8. TypeOK'
  <2>1. DOMAIN heap' \subseteq Nat /\ heap' \in [DOMAIN heap' -> Object]
    BY <1>1, <1>2 DEF IInv, TypeOK
  <2>2. {toSpace, fromSpace} = {0, HeapSize} /\ heapCopyPtr \in Nat
    BY DEF IInv, TypeOK
  <2> QED BY <1>1, <2>1, <2>2 DEF IInv, TypeOK
<1>9. WordsOK'
  <2>1. \A r \in Roots : Plain(roots[r], heap')
    BY <1>4, <1>6 DEF IInv, WordsOK
  <2>2. ASSUME NEW a \in DOMAIN heap' PROVE ObjectOK(heap[a], heap', code)
    <3>1. ObjectOK(heap[a], heap, code)
      BY <1>2 DEF IInv, WordsOK
    <3>2. ASSUME heap[a].info # NoFun PROVE CodeOK(heap[a].info, heap', code)
      <4>1. CodeOK(heap[a].info, heap, code)
        BY <3>1, <3>2 DEF ObjectOK
      <4>2. /\ code[heap[a].info] \in Seq(Word)
            /\ DOMAIN code[heap[a].info] = 1..Len(code[heap[a].info])
            /\ Len(code[heap[a].info]) >= 2 /\ Len(code[heap[a].info]) \in Nat
        BY <4>1 DEF CodeOK, IInv, TypeOK
      <4>3. \A i \in 1..Len(code[heap[a].info]) : Clean(code[heap[a].info][i])
        BY <1>5, <3>2, <4>2
      <4> QED BY <1>6, <1>7, <4>1, <4>2, <4>3 DEF CodeOK
    <3> QED BY <1>5, <1>6, <3>1, <3>2 DEF ObjectOK
  <2> QED BY <1>1, <1>2, <2>1, <2>2 DEF WordsOK
<1>10. \A a \in DOMAIN heap : InToSpace(a) => InTo(a)
  <2> SUFFICES ASSUME NEW a \in DOMAIN heap, InToSpace(a) PROVE ~InFrom(a)
    BY DEF IInv, Layout
  <2>1. /\ fromSpace \in Nat /\ toSpace \in Nat /\ HeapSize \in Nat /\ heapPtr \in Nat
        /\ toSpace + HeapSize <= fromSpace \/ fromSpace + HeapSize <= toSpace
        /\ heapPtr <= fromSpace + HeapSize
        /\ a \in Nat /\ heap[a].size \in Nat /\ heap[a].size >= 1
    BY TwoSpaces, HeapSizeAssumption DEF IInv, TypeOK, Layout, Object
  <2> QED BY <2>1 DEF InToSpace, InSpace, InFrom, Within
<1>11. Layout'
  <2>1. toSpace <= heapCopyPtr /\ heapCopyPtr <= toSpace + HeapSize
    BY <1>1, CopyPtrBound
  <2> QED BY <1>1, <1>2, <1>10, <2>1 DEF IInv, Layout, InFrom, InTo, Within
<1>12. Marks'
  <2>1. \A a \in DOMAIN heap : heap[a].mark => ~InToSpace(a)
    <3> SUFFICES ASSUME NEW a \in DOMAIN heap, heap[a].mark, InToSpace(a) PROVE FALSE
      OBVIOUS
    <3>1. InFrom(a)
      BY DEF IInv, Marks
    <3>2. /\ fromSpace \in Nat /\ toSpace \in Nat /\ HeapSize \in Nat /\ heapPtr \in Nat
          /\ toSpace + HeapSize <= fromSpace \/ fromSpace + HeapSize <= toSpace
          /\ heapPtr <= fromSpace + HeapSize
          /\ a \in Nat /\ heap[a].size \in Nat /\ heap[a].size >= 1
      BY TwoSpaces, HeapSizeAssumption DEF IInv, TypeOK, Layout, Object
    <3> QED BY <3>1, <3>2 DEF InToSpace, InSpace, InFrom, Within
  <2> QED BY <1>2, <2>1 DEF Marks
<1>13. RequestOK'
  <2>1. req \in Requests /\ MayRequest(req) /\ IsRequest(req)
    BY <1>1, RequestsAssumption DEF IInv, RequestOK
  <2>2. ASSUME req.tag = "function" PROVE IsUnlinked(req.dst)'
    <3>1. req.dst \in Roots
      BY <2>1 DEF IsRequest, ClientRoots
    <3>2. roots[req.dst].tag = "closure" /\ heap[roots[req.dst].upper].info = NoFun
      BY <2>1, <2>2 DEF MayRequest, IsUnlinked, ObjectAt
    <3>3. roots[req.dst].upper \in DOMAIN heap'
      BY <2>1, <3>1, <3>2, <1>4, <1>6
         DEF IInv, WordsOK, Plain, IsHeapAllocated, HeapTags
    <3> QED BY <1>1, <1>2, <3>2, <3>3 DEF IsUnlinked, ObjectAt
  <2>3. MayRequest(req)'
    BY <1>1, <2>1, <2>2 DEF MayRequest, Unlinked
  <2> QED BY <1>1, <2>1, <2>3 DEF RequestOK
<1> QED BY <1>1, <1>8, <1>9, <1>11, <1>12, <1>13 DEF IInv, Room, WorkOK

\* Every step preserves the invariant.
LEMMA NextIInv == IInv /\ [Next]_vars => IInv'
<1> SUFFICES ASSUME IInv, [Next]_vars PROVE IInv'
  OBVIOUS
<1> USE HeapSizeAssumption, RootsAssumption, RequestsAssumption
<1>1. /\ heapPtr \in Nat /\ heapLimit \in Nat
      /\ \A q \in Requests : RequestSize(q) \in Nat
  <2>1. \A q \in Requests : RequestTag(q) \in HeapTags /\ q.n \in Nat
    BY DEF IsRequest, RequestTag, HeapTags
  <2>2. \A q \in Requests : RequestSize(q) \in Nat
    BY <2>1, ObjectSizePositive DEF RequestSize
  <2>3. fromSpace \in Nat /\ heapLimit = fromSpace + HeapSize /\ heapPtr \in Nat
    BY TwoSpaces DEF IInv, TypeOK
  <2> QED BY <2>2, <2>3
<1>2. ASSUME NEW q \in Requests, AllocFast(q) PROVE IInv'
  BY <1>2, PlaceIInv DEF AllocFast, Fits, IInv, TypeOK
<1>3. ASSUME NEW q \in Requests, AllocSlow(q) PROVE IInv'
  BY <1>3, AllocSlowIInv
<1>4. ASSUME NEW dst \in ClientRoots, NEW src \in ClientRoots, Put(dst, roots[src])
      PROVE  IInv'
  BY <1>4, PutIInv DEF Put, ClientRoots, IInv, WordsOK
<1>5. ASSUME NEW dst \in ClientRoots, Put(dst, Null) PROVE IInv'
  <2>1. Plain(Null, heap)
    BY DEF Plain, Null, Word, Tags, HeapTags, ImmediateTags, IsHeapAllocated
  <2> QED BY <1>5, <2>1, PutIInv DEF Put, ClientRoots
<1>6. ASSUME NEW src \in ClientRoots, InternTablePut(src) PROVE IInv'
  BY <1>6, PutIInv DEF InternTablePut, Put, ClientRoots, IInv, WordsOK
<1>7. ASSUME NEW dst \in ClientRoots, NEW src \in Roots, Load(dst, src) PROVE IInv'
  BY <1>7, LoadIInv
<1>8. ASSUME NEW obj \in ClientRoots, NEW src \in ClientRoots, Store(obj, src)
      PROVE  IInv'
  BY <1>8, StoreIInv
<1>9. CASE ScavengeSkip
  BY <1>9, ScavengeSkipIInv
<1>10. CASE ScavengeForward
  BY <1>10, ScavengeForwardIInv
<1>11. CASE ScavengeCopy
  BY <1>11, ScavengeCopyIInv
<1>12. CASE ScavengeConsts
  BY <1>12, ScavengeConstsIInv
<1>13. CASE Flip
  BY <1>13, FlipIInv
<1>14. CASE AllocRetry
  <2>1. pc = "check" /\ req \in Requests /\ MayRequest(req)
    BY <1>14 DEF AllocRetry, IInv, RequestOK
  <2>2. heapPtr + RequestSize(req) <= heapLimit
    BY <1>1, <1>14, <2>1 DEF AllocRetry, Exhausted
  <2> QED BY <1>14, <2>1, <2>2, PlaceIInv DEF AllocRetry
<1>15. CASE Exit
  <2>1. /\ pc = "check" /\ pc' = "exhausted"
        /\ UNCHANGED <<roots, heap, code, req, work>>
        /\ UNCHANGED <<fromSpace, toSpace, heapPtr, heapLimit, heapCopyPtr>>
    BY <1>15 DEF Exit, spaces
  <2>2. TypeOK' /\ WordsOK'
    BY <2>1 DEF IInv, TypeOK, WordsOK
  <2>3. Layout' /\ Marks'
    BY <2>1 DEF IInv, Layout, InFrom, InTo, Within, Marks
  <2> QED BY <2>1, <2>2, <2>3 DEF IInv, Room, WorkOK, RequestOK
<1>16. CASE UNCHANGED vars
  <2>1. /\ UNCHANGED <<roots, heap, code, req, work, pc>>
        /\ UNCHANGED <<fromSpace, toSpace, heapPtr, heapLimit, heapCopyPtr>>
    BY <1>16 DEF vars, spaces
  <2>2. TypeOK' /\ WordsOK'
    BY <2>1 DEF IInv, TypeOK, WordsOK
  <2>3. Layout' /\ Marks' /\ Room'
    BY <2>1 DEF IInv, Layout, InFrom, InTo, Within, Marks, InToSpace, InSpace,
                Room, CopiedUnits
  <2>4. RequestOK'
    BY <2>1 DEF IInv, RequestOK, MayRequest, IsUnlinked, ObjectAt, Unlinked
  <2>5. WorkOK'
    <3>1. Covered => Covered'
      BY <2>1 DEF Covered, RootsCovered, CoveredObject, Clean, InToSpace, InSpace
    <3>2. \A l : ValidLocation(l) => ValidLocation(l)'
      BY <2>1 DEF ValidLocation, InToSpace, InSpace, Linked
    <3> QED BY <2>1, <3>1, <3>2 DEF IInv, WorkOK
  <2> QED BY <2>2, <2>3, <2>4, <2>5 DEF IInv
<1> QED
  BY <1>2, <1>3, <1>4, <1>5, <1>6, <1>7, <1>8, <1>9, <1>10, <1>11, <1>12,
     <1>13, <1>14, <1>15, <1>16 DEF Next, Mutator, Collector

\* The inductive invariant holds in every behaviour.
THEOREM Invariance == Spec => []IInv
BY InitIInv, NextIInv, PTL DEF Spec

\* The variables keep their types: the copies fit into the addresses there are.
THEOREM Typing == Spec => []TypeOK
<1>1. IInv => TypeOK
  BY DEF IInv
<1> QED BY <1>1, Invariance, PTL

\* No object, copied or new, lies outside its space or overlaps another one.
THEOREM NoOverlap == Spec => []ObjectsDisjoint
<1>1. IInv => ObjectsDisjoint
  <2> SUFFICES ASSUME IInv PROVE ObjectsDisjoint
    OBVIOUS
  <2>1. heapPtr <= heapLimit
    BY DEF IInv, TypeOK, Layout
  <2>2. pc = "scavenge" => heapCopyPtr <= toSpace + HeapSize
    BY CopyPtrBound
  <2> QED BY <2>1, <2>2 DEF IInv, Layout, InFrom, InTo, ObjectsDisjoint
<1> QED BY <1>1, Invariance, PTL

\* The invariant leaves no word that points to where no object is.
LEMMA InvariantNothingDangles == IInv => NoDangling
<1> SUFFICES ASSUME IInv PROVE NoDangling
  OBVIOUS
<1>1. \A w : Plain(w, heap) => PointsToObject(w)
  BY DEF Plain, PointsToObject
<1>2. \A w, n : OffsetsWord(w, n, heap) => PointsToObject(w)
  BY DEF OffsetsWord, PointsToObject
<1>3. \A r \in Roots : PointsToObject(roots[r])
  BY <1>1 DEF IInv, WordsOK
<1>4. ASSUME NEW a \in DOMAIN heap, NEW i \in DOMAIN Fields(heap[a])
      PROVE  PointsToObject(Fields(heap[a])[i])
  <2>1. ObjectOK(heap[a], heap, code)
    BY DEF IInv, WordsOK
  <2>2. CASE heap[a].info = NoFun
    BY <1>1, <1>4, <2>1, <2>2
       DEF Fields, ObjectOK, PointsToObject, IsHeapAllocated, HeapTags
  <2>3. CASE heap[a].info # NoFun
    <3> DEFINE f == heap[a].info
    <3>1. CodeOK(f, heap, code) /\ code[f] \in Seq(Word) /\ i \in 1..Len(code[f])
      BY <1>4, <2>1, <2>3 DEF ObjectOK, CodeOK, IInv, TypeOK, Fields
    <3>2. i = 1 \/ i = 2 \/ i \in 3..Len(code[f])
      BY <3>1
    <3> QED BY <1>1, <1>2, <2>3, <3>1, <3>2 DEF Fields, CodeOK
  <2> QED BY <2>2, <2>3
<1> QED BY <1>3, <1>4 DEF NoDangling

\* No root, field or word in code ever points to where no object is.
THEOREM NothingDangles == Spec => []NoDangling
BY InvariantNothingDangles, Invariance, PTL

-----------------------------------------------------------------------------
(***************************************************************************)
(* The heap of addresses implements the graph of identities: whatever the  *)
(* sizes, the roots and the requests, clients cannot tell the collector    *)
(* from one that drops objects nothing leads to and does nothing else.     *)
(*                                                                         *)
(* What stands for an object is its original until it is marked, then its  *)
(* copy.  The invariant needed on top of what is above is that no two      *)
(* such objects share an identity, and that a copy has its original's.     *)
(*                                                                         *)
(* At the end: what a collection leaves is what the roots lead to.         *)
(***************************************************************************)

(***************************************************************************)
(* The graph of a heap h and of the words cd in the code: AbsWord, Fields  *)
(* and AbsNode of Heap for any heap, so that two heaps can be compared.    *)
(***************************************************************************)
Named(w, h) ==
  IF IsHeapAllocated(w) THEN Pointer(w.tag, h[w.upper].oid) ELSE w

FieldsIn(o, cd) == IF o.info = NoFun THEN o.fields ELSE cd[o.info]

NodeAt(a, h, cd) ==
  [tag    |-> h[a].tag,
   fields |-> [i \in DOMAIN FieldsIn(h[a], cd) |-> Named(FieldsIn(h[a], cd)[i], h)]]

Unmarked(h) == {a \in DOMAIN h : ~h[a].mark}

Oids(h) == {h[a].oid : a \in Unmarked(h)}

GraphOf(h, cd) ==
  [o \in Oids(h) |-> NodeAt(CHOOSE a \in Unmarked(h) : h[a].oid = o, h, cd)]

RootsOf(rs, h) == [r \in Roots |-> Named(rs[r], h)]

Identities(h) ==
  /\ \A a, b \in Unmarked(h) : h[a].oid = h[b].oid => a = b
  /\ \A a \in DOMAIN h : h[a].mark => h[h[a].copiedTo].oid = h[a].oid

GraphInv == IInv /\ Identities(heap)

-----------------------------------------------------------------------------
(***************************************************************************)
(* Graphs of two heaps.                                                    *)
(***************************************************************************)
\* The node of an identity is that of the object that has it.
LEMMA NodeOfObject ==
  ASSUME NEW h, NEW cd, Identities(h), NEW a \in Unmarked(h)
  PROVE  h[a].oid \in Oids(h) /\ GraphOf(h, cd)[h[a].oid] = NodeAt(a, h, cd)
<1> DEFINE o == h[a].oid
           c == CHOOSE x \in Unmarked(h) : h[x].oid = o
<1>1. o \in Oids(h)
  BY DEF Oids
<1>2. c \in Unmarked(h) /\ h[c].oid = o
  OBVIOUS
<1>3. c = a
  BY <1>2 DEF Identities
<1>4. GraphOf(h, cd)[o] = NodeAt(c, h, cd)
  BY <1>1, Zenon DEF GraphOf
<1> QED BY <1>1, <1>3, <1>4

\* Objects whose words have the same names have the same node.
LEMMA SameNode ==
  ASSUME NEW h, NEW cd, NEW a, NEW k, NEW ce, NEW b,
         k[b].tag = h[a].tag,
         DOMAIN FieldsIn(k[b], ce) = DOMAIN FieldsIn(h[a], cd),
         \A i \in DOMAIN FieldsIn(h[a], cd) :
           Named(FieldsIn(k[b], ce)[i], k) = Named(FieldsIn(h[a], cd)[i], h)
  PROVE  NodeAt(b, k, ce) = NodeAt(a, h, cd)
<1> DEFINE fs == [i \in DOMAIN FieldsIn(h[a], cd) |-> Named(FieldsIn(h[a], cd)[i], h)]
           gs == [i \in DOMAIN FieldsIn(k[b], ce) |-> Named(FieldsIn(k[b], ce)[i], k)]
<1>1. fs = gs
  OBVIOUS
<1> QED BY <1>1 DEF NodeAt

\* A graph is known by its nodes.
LEMMA GraphIs ==
  ASSUME NEW h, NEW cd, Identities(h), NEW g, g = [o \in Oids(h) |-> g[o]],
         \A a \in Unmarked(h) : g[h[a].oid] = NodeAt(a, h, cd)
  PROVE  GraphOf(h, cd) = g
<1>1. ASSUME NEW o \in Oids(h) PROVE GraphOf(h, cd)[o] = g[o]
  <2>1. PICK a \in Unmarked(h) : h[a].oid = o
    BY DEF Oids
  <2> QED BY <2>1, NodeOfObject
<1>2. GraphOf(h, cd) = [o \in Oids(h) |-> GraphOf(h, cd)[o]]
  BY DEF GraphOf
<1> QED BY <1>1, <1>2

\* Two heaps have the same graph when the same identities have the same nodes.
LEMMA SameGraph ==
  ASSUME NEW h, NEW cd, Identities(h), NEW k, NEW ce, Identities(k),
         \A a \in Unmarked(h) : \E b \in Unmarked(k) :
           k[b].oid = h[a].oid /\ NodeAt(b, k, ce) = NodeAt(a, h, cd),
         \A b \in Unmarked(k) : \E a \in Unmarked(h) : h[a].oid = k[b].oid
  PROVE  GraphOf(k, ce) = GraphOf(h, cd)
<1>1. Oids(k) = Oids(h)
  BY DEF Oids
<1>2. ASSUME NEW o \in Oids(h) PROVE GraphOf(k, ce)[o] = GraphOf(h, cd)[o]
  <2>1. PICK a \in Unmarked(h) : h[a].oid = o
    BY DEF Oids
  <2>2. PICK b \in Unmarked(k) :
          k[b].oid = h[a].oid /\ NodeAt(b, k, ce) = NodeAt(a, h, cd)
    OBVIOUS
  <2> QED BY <2>1, <2>2, NodeOfObject
<1>3. /\ GraphOf(k, ce) = [o \in Oids(k) |-> GraphOf(k, ce)[o]]
      /\ GraphOf(h, cd) = [o \in Oids(h) |-> GraphOf(h, cd)[o]]
  BY DEF GraphOf
<1> QED BY <1>1, <1>2, <1>3

\* A word keeps its name when the object it points to keeps its identity.
LEMMA SameName ==
  ASSUME NEW h, NEW k, NEW w, IsHeapAllocated(w) => k[w.upper].oid = h[w.upper].oid
  PROVE  Named(w, k) = Named(w, h)
BY DEF Named

\* A name has the tag of its word, and only NULL is named NULL.
LEMMA NameTag ==
  ASSUME NEW w, NEW h
  PROVE  /\ Named(w, h).tag = w.tag
         /\ IsHeapAllocated(Named(w, h)) <=> IsHeapAllocated(w)
         /\ IsHeapAllocated(w) => Named(w, h).upper = h[w.upper].oid
         /\ ~IsHeapAllocated(w) => Named(w, h) = w
         /\ Named(w, h) = Null => w = Null
BY DEF Named, Pointer, IsHeapAllocated, Null, HeapTags

\* Every word of a heap in order points to an object, if it is a pointer.
LEMMA WordsPoint ==
  ASSUME IInv
  PROVE  /\ \A r \in Roots : IsHeapAllocated(roots[r]) => roots[r].upper \in DOMAIN heap
         /\ \A a \in DOMAIN heap : \A i \in DOMAIN FieldsIn(heap[a], code) :
              IsHeapAllocated(FieldsIn(heap[a], code)[i]) =>
                FieldsIn(heap[a], code)[i].upper \in DOMAIN heap
BY InvariantNothingDangles DEF NoDangling, PointsToObject, Fields, FieldsIn

\* A client's object is its own node.
LEMMA ObjectNode ==
  ASSUME GraphInv, pc # "scavenge", NEW r \in Roots, IsHeapAllocated(roots[r])
  PROVE  /\ roots[r].upper \in Unmarked(heap)
         /\ RootsOf(roots, heap)[r].upper = ObjectAt(r).oid
         /\ GraphOf(heap, code)[ObjectAt(r).oid] = NodeAt(roots[r].upper, heap, code)
<1>1. roots[r].upper \in Unmarked(heap)
  BY WordsPoint DEF GraphInv, IInv, Marks, Unmarked
<1>2. RootsOf(roots, heap)[r].upper = ObjectAt(r).oid
  BY NameTag DEF RootsOf, ObjectAt
<1> QED BY <1>1, <1>2, NodeOfObject DEF GraphInv, ObjectAt

-----------------------------------------------------------------------------
(***************************************************************************)
(* The collector.                                                          *)
(***************************************************************************)
\* The word w at the head of the work becomes u, whose object in h has the
\* identity of the object of w; the heap was h before.
Renamed(loc, w, u, h, b) ==
  /\ Scavenging(Locations) /\ loc = Head(work) /\ w = Read(loc)
  /\ IsHeapAllocated(w)
  /\ HeapType(h) /\ DOMAIN heap \subseteq DOMAIN h
  /\ \A x \in DOMAIN heap :
       /\ h[x].fields = heap[x].fields /\ h[x].info = heap[x].info
       /\ h[x].tag = heap[x].tag /\ h[x].oid = heap[x].oid
  /\ b \in DOMAIN h /\ h[b].oid = heap[w.upper].oid
  /\ u = Pointer(w.tag, b)
  /\ WriteTo(loc, u, h)

\* Every other word stays, and nothing else in an object changes.
LEMMA WrittenWords ==
  ASSUME IInv, NEW loc, NEW w, NEW u, NEW h, NEW b, Renamed(loc, w, u, h, b)
  PROVE  /\ DOMAIN heap' = DOMAIN h
         /\ \A x \in DOMAIN h :
              /\ heap'[x].tag = h[x].tag /\ heap'[x].info = h[x].info
              /\ heap'[x].mark = h[x].mark /\ heap'[x].copiedTo = h[x].copiedTo
              /\ heap'[x].oid = h[x].oid /\ heap'[x].size = h[x].size
              /\ DOMAIN heap'[x].fields = DOMAIN h[x].fields
              /\ \A i \in DOMAIN h[x].fields :
                   \/ heap'[x].fields[i] = h[x].fields[i]
                   \/ h[x].fields[i] = w /\ heap'[x].fields[i] = u
         /\ \A f \in Funs :
              /\ DOMAIN code'[f] = DOMAIN code[f]
              /\ \A i \in DOMAIN code[f] :
                   \/ code'[f][i] = code[f][i]
                   \/ code[f][i] = w /\ code'[f][i] = u
         /\ \A r \in Roots :
              roots'[r] = roots[r] \/ (roots[r] = w /\ roots'[r] = u)
<1> USE DEF Renamed
<1>1. ValidLocation(loc) /\ w = Read(loc) /\ loc[1] \in {"root", "field", "code"}
  BY ReadWord DEF Scavenging, Locations
<1>2. /\ roots \in [Roots -> Word] /\ code \in [Funs -> Seq(Word)]
      /\ h \in [DOMAIN h -> Object]
  BY DEF IInv, TypeOK, HeapType
<1>3. CASE loc[1] = "root"
  <2>1. /\ w = roots[loc[2]] /\ roots' = [roots EXCEPT ![loc[2]] = u]
        /\ heap' = h /\ code' = code
    BY <1>1, <1>3 DEF Read, WriteTo
  <2> QED BY SMTT(30), <1>2, <2>1
<1>4. CASE loc[1] = "field"
  <2> DEFINE a == loc[2]
             j == loc[3]
             fs == [h[a].fields EXCEPT ![j] = u]
             o == [h[a] EXCEPT !.fields = fs]
  <2>1. /\ a \in DOMAIN h /\ j \in DOMAIN h[a].fields /\ w = h[a].fields[j]
        /\ heap' = [h EXCEPT ![a] = o] /\ roots' = roots /\ code' = code
    BY <1>1, <1>4 DEF Read, WriteTo, ValidLocation
  <2>2. h[a] \in Object
    BY <1>2, <2>1
  <2>3. DOMAIN fs = DOMAIN h[a].fields /\ fs[j] = u
        /\ \A i \in DOMAIN fs : i # j => fs[i] = h[a].fields[i]
    BY <2>1, <2>2, FieldsAreWords
  <2> HIDE DEF fs
  <2>4. /\ o.tag = h[a].tag /\ o.info = h[a].info /\ o.mark = h[a].mark
        /\ o.copiedTo = h[a].copiedTo /\ o.oid = h[a].oid /\ o.size = h[a].size
        /\ o.fields = fs
    BY <2>2 DEF Object
  <2> HIDE DEF o
  <2>5. DOMAIN heap' = DOMAIN h /\ heap'[a] = o
        /\ \A x \in DOMAIN h : x # a => heap'[x] = h[x]
    BY <1>2, <2>1
  <2> QED BY SMTT(30), <1>2, <2>1, <2>3, <2>4, <2>5
<1>5. CASE loc[1] = "code"
  <2> DEFINE f == loc[2]
             j == loc[3]
             cs == [code[f] EXCEPT ![j] = u]
  <2>1. /\ f \in Funs /\ j \in DOMAIN code[f] /\ w = code[f][j]
        /\ code' = [code EXCEPT ![f] = cs] /\ roots' = roots /\ heap' = h
    BY <1>1, <1>5, LinkedFuns DEF Read, WriteTo, ValidLocation
  <2>2. DOMAIN cs = DOMAIN code[f] /\ cs[j] = u
        /\ \A i \in DOMAIN cs : i # j => cs[i] = code[f][i]
    BY <1>2, <2>1
  <2> HIDE DEF cs
  <2>3. code'[f] = cs /\ \A g \in Funs : g # f => code'[g] = code[g]
    BY <1>2, <2>1
  <2> QED BY <1>2, <2>1, <2>2, <2>3
<1> QED BY <1>1, <1>3, <1>4, <1>5

\* Seen through identities nothing happens to the roots, nor to an object and
\* to what h holds as its copy.
LEMMA NamesKept ==
  ASSUME IInv, NEW loc, NEW w, NEW u, NEW h, NEW b, Renamed(loc, w, u, h, b)
  PROVE  /\ RootsOf(roots', heap') = RootsOf(roots, heap)
         /\ \A x \in DOMAIN h, y \in DOMAIN heap :
              /\ h[x].fields = heap[y].fields /\ h[x].info = heap[y].info
              /\ h[x].tag = heap[y].tag
              => NodeAt(x, heap', code') = NodeAt(y, heap, code)
<1>1. w = Read(Head(work)) /\ w.upper \in DOMAIN heap
  BY ReadWord DEF Renamed
<1>2. /\ DOMAIN heap' = DOMAIN h
      /\ \A x \in DOMAIN h : heap'[x].oid = h[x].oid
  BY WrittenWords
<1>3. \A x \in DOMAIN heap : heap'[x].oid = heap[x].oid
  BY <1>2 DEF Renamed
<1>4. ASSUME NEW v, IsHeapAllocated(v) => v.upper \in DOMAIN heap
      PROVE  Named(v, heap') = Named(v, heap)
  BY <1>3, <1>4, SameName
<1>5. Named(u, heap') = Named(w, heap)
  BY <1>2 DEF Named, Renamed, Pointer, IsHeapAllocated
<1>6. RootsOf(roots', heap') = RootsOf(roots, heap)
  <2>1. \A r \in Roots : Named(roots'[r], heap') = Named(roots[r], heap)
    BY <1>4, <1>5, WordsPoint, WrittenWords
  <2> QED BY <2>1 DEF RootsOf
<1>7. ASSUME NEW x \in DOMAIN h, NEW y \in DOMAIN heap,
             h[x].fields = heap[y].fields, h[x].info = heap[y].info,
             h[x].tag = heap[y].tag
      PROVE  NodeAt(x, heap', code') = NodeAt(y, heap, code)
  <2> DEFINE before == FieldsIn(heap[y], code)
             after  == FieldsIn(heap'[x], code')
  <2>1. heap[y].info # NoFun => heap[y].info \in Funs
    BY LinkedFuns
  <2>2. /\ DOMAIN after = DOMAIN before
        /\ \A i \in DOMAIN before :
             after[i] = before[i] \/ (before[i] = w /\ after[i] = u)
    BY <1>7, <2>1, WrittenWords DEF FieldsIn
  <2>3. \A i \in DOMAIN before :
          IsHeapAllocated(before[i]) => before[i].upper \in DOMAIN heap
    BY WordsPoint
  <2>4. heap'[x].tag = heap[y].tag
    BY <1>7, WrittenWords
  <2> HIDE DEF before, after
  <2>5. \A i \in DOMAIN before : Named(after[i], heap') = Named(before[i], heap)
    BY <1>4, <1>5, <2>2, <2>3
  <2> QED BY <2>2, <2>4, <2>5, SameNode DEF before, after
<1> QED BY <1>6, <1>7

\* What clients see: the graph, the roots, and whether the process goes on.
SameView ==
  /\ RootsOf(roots, heap)' = RootsOf(roots, heap)
  /\ GraphOf(heap, code)' = GraphOf(heap, code)
  /\ (pc = "exhausted")' = (pc = "exhausted")

\* A word takes the address of the copy that its object already has.
LEMMA ForwardUnseen ==
  ASSUME GraphInv, ScavengeForward
  PROVE  Identities(heap') /\ SameView
<1> DEFINE loc == Head(work)
           w == Read(loc)
           b == heap[w.upper].copiedTo
           u == Pointer(w.tag, b)
<1>1. /\ Scavenging(Locations) /\ pc = "scavenge" /\ pc' = pc
      /\ IsHeapAllocated(w) /\ heap[w.upper].mark /\ WriteTo(loc, u, heap)
  BY DEF ScavengeForward, Scavenging
<1>2. w.upper \in DOMAIN heap
  BY <1>1, ReadWord DEF GraphInv
<1>3. /\ b \in DOMAIN heap /\ heap[b].oid = heap[w.upper].oid
      /\ HeapType(heap) /\ IInv /\ Identities(heap)
  BY <1>1, <1>2 DEF GraphInv, Identities, IInv, Marks, TypeOK, HeapType
<1> HIDE DEF loc, w, b, u
<1>4. Renamed(loc, w, u, heap, b)
  BY <1>1, <1>3 DEF Renamed, loc, w, u
<1>5. /\ DOMAIN heap' = DOMAIN heap
      /\ \A x \in DOMAIN heap :
           /\ heap'[x].oid = heap[x].oid /\ heap'[x].mark = heap[x].mark
           /\ heap'[x].copiedTo = heap[x].copiedTo
  BY <1>3, <1>4, WrittenWords
<1>6. Unmarked(heap') = Unmarked(heap)
  BY <1>5 DEF Unmarked
<1>7. Identities(heap')
  <2>1. \A x \in DOMAIN heap : heap[x].mark => heap[x].copiedTo \in DOMAIN heap
    BY <1>3 DEF IInv, Marks
  <2> QED BY <1>3, <1>5, <1>6, <2>1 DEF Identities, Unmarked
<1>8. /\ RootsOf(roots', heap') = RootsOf(roots, heap)
      /\ \A x \in DOMAIN heap : NodeAt(x, heap', code') = NodeAt(x, heap, code)
  BY <1>3, <1>4, NamesKept
<1>9. GraphOf(heap', code') = GraphOf(heap, code)
  <2>1. \A x \in Unmarked(heap) :
          heap'[x].oid = heap[x].oid /\ NodeAt(x, heap', code') = NodeAt(x, heap, code)
    BY <1>5, <1>8 DEF Unmarked
  <2> QED BY <1>3, <1>6, <1>7, <2>1, SameGraph
<1> QED BY <1>1, <1>7, <1>8, <1>9 DEF SameView

\* A copy stands for its object from the moment it is made.
LEMMA CopyUnseen ==
  ASSUME GraphInv, ScavengeCopy
  PROVE  Identities(heap') /\ SameView
<1> DEFINE loc == Head(work)
           w == Read(loc)
           a == w.upper
           b == heapCopyPtr
           u == Pointer(w.tag, b)
           h == CopiedHeap(a, b)
<1>1. /\ Scavenging(Locations) /\ pc = "scavenge" /\ pc' = pc
      /\ ~heap[a].mark /\ WriteTo(loc, u, h)
  BY DEF ScavengeCopy, Scavenging
<1>2. /\ IInv /\ Identities(heap)
      /\ IsHeapAllocated(w) /\ a \in DOMAIN heap /\ b \notin DOMAIN heap
  BY CopyPlace DEF GraphInv
<1>3. /\ heap \in [DOMAIN heap -> Object] /\ DOMAIN heap \subseteq Nat /\ b \in Nat
  BY <1>2 DEF IInv, TypeOK
<1>4. /\ DOMAIN h = DOMAIN heap \cup {b} /\ h[b] = heap[a]
      /\ h[a] = [heap[a] EXCEPT !.mark = TRUE, !.copiedTo = b]
      /\ \A x \in DOMAIN heap : x # a => h[x] = heap[x]
      /\ h = [x \in DOMAIN heap \cup {b} |-> h[x]]
  BY <1>2 DEF CopiedHeap
<1> HIDE DEF loc, w, a, b, u, h
<1>5. /\ h[a] \in Object /\ h[a].mark /\ h[a].copiedTo = b
      /\ h[a].fields = heap[a].fields /\ h[a].info = heap[a].info
      /\ h[a].tag = heap[a].tag /\ h[a].oid = heap[a].oid
  BY ZenonT(60), <1>2, <1>3, <1>4 DEF Object
<1>6. HeapType(h)
  BY <1>2, <1>3, <1>4, <1>5 DEF HeapType
<1>7. Renamed(loc, w, u, h, b)
  BY <1>1, <1>2, <1>4, <1>5, <1>6 DEF Renamed, loc, w, u, a
<1>8. /\ DOMAIN heap' = DOMAIN h
      /\ \A x \in DOMAIN h :
           /\ heap'[x].oid = h[x].oid /\ heap'[x].mark = h[x].mark
           /\ heap'[x].copiedTo = h[x].copiedTo
  BY <1>2, <1>7, WrittenWords
<1>9. Unmarked(heap') = (Unmarked(heap) \ {a}) \cup {b}
  <2>1. \A x \in DOMAIN heap : ~heap'[x].mark <=> x # a /\ ~heap[x].mark
    BY ZenonT(60), <1>2, <1>4, <1>5, <1>8
  <2>2. ~heap'[b].mark
    BY <1>1, <1>4, <1>8 DEF a, w, loc
  <2> QED BY <1>2, <1>4, <1>8, <2>1, <2>2 DEF Unmarked
<1>10. /\ heap'[b].oid = heap[a].oid
       /\ \A x \in DOMAIN heap : heap'[x].oid = heap[x].oid
  <2>1. heap'[b].oid = heap[a].oid
    BY <1>4, <1>8
  <2>2. ASSUME NEW x \in DOMAIN heap PROVE heap'[x].oid = heap[x].oid
    <3>1. x \in DOMAIN h /\ h[x].oid = heap[x].oid
      BY <1>4, <1>5
    <3> QED BY <1>8, <3>1
  <2> QED BY <2>1, <2>2
<1>11. a \in Unmarked(heap)
  BY <1>1, <1>2 DEF Unmarked
<1>12. Identities(heap')
  <2>1. ASSUME NEW x \in Unmarked(heap'), NEW y \in Unmarked(heap'),
               heap'[x].oid = heap'[y].oid
        PROVE  x = y
    <3> DEFINE of(z) == IF z = b THEN a ELSE z
    <3>1. /\ of(x) \in Unmarked(heap) /\ of(y) \in Unmarked(heap)
          /\ heap[of(x)].oid = heap'[x].oid /\ heap[of(y)].oid = heap'[y].oid
      BY <1>9, <1>10, <1>11 DEF Unmarked
    <3>2. of(x) = of(y)
      BY <1>2, <2>1, <3>1 DEF Identities
    <3> QED BY <1>9, <3>2
  <2>2. ASSUME NEW x \in DOMAIN heap', heap'[x].mark
        PROVE  heap'[heap'[x].copiedTo].oid = heap'[x].oid
    <3>1. CASE x = a
      BY <1>2, <1>4, <1>5, <1>8, <1>10, <3>1
    <3>2. CASE x # a
      <4>1. x # b
        BY <1>9, <2>2 DEF Unmarked
      <4>2. x \in DOMAIN heap /\ heap[x].mark /\ heap'[x].copiedTo = heap[x].copiedTo
        BY <1>4, <1>8, <2>2, <3>2, <4>1
      <4>3. /\ heap[x].copiedTo \in DOMAIN heap
            /\ heap[heap[x].copiedTo].oid = heap[x].oid
        BY <1>2, <4>2 DEF IInv, Marks, Identities
      <4> QED BY <1>10, <4>2, <4>3
    <3> QED BY <3>1, <3>2
  <2> QED BY <2>1, <2>2 DEF Identities
<1>13. /\ RootsOf(roots', heap') = RootsOf(roots, heap)
       /\ \A x \in DOMAIN heap : NodeAt(x, heap', code') = NodeAt(x, heap, code)
       /\ NodeAt(b, heap', code') = NodeAt(a, heap, code)
  <2>1. \A x \in DOMAIN heap :
          /\ x \in DOMAIN h
          /\ h[x].fields = heap[x].fields /\ h[x].info = heap[x].info
          /\ h[x].tag = heap[x].tag
    BY <1>4, <1>5
  <2>2. b \in DOMAIN h /\ h[b] = heap[a]
    BY <1>4
  <2> QED BY <1>2, <1>7, <2>1, <2>2, NamesKept
<1>14. GraphOf(heap', code') = GraphOf(heap, code)
  <2>1. ASSUME NEW x \in Unmarked(heap)
        PROVE  \E y \in Unmarked(heap') :
                 /\ heap'[y].oid = heap[x].oid
                 /\ NodeAt(y, heap', code') = NodeAt(x, heap, code)
    BY <1>9, <1>10, <1>13 DEF Unmarked
  <2>2. ASSUME NEW y \in Unmarked(heap')
        PROVE  \E x \in Unmarked(heap) : heap[x].oid = heap'[y].oid
    BY <1>9, <1>10, <1>11 DEF Unmarked
  <2> QED BY <1>2, <1>12, <2>1, <2>2, SameGraph
<1> QED BY <1>1, <1>12, <1>13, <1>14 DEF SameView

\* What has no copy when the collector is done leaves the graph, and no root
\* and no object that stays leads to it.
LEMMA FlipReclaims ==
  ASSUME GraphInv, Flip
  PROVE  /\ Identities(heap')
         /\ RootsOf(roots', heap') = RootsOf(roots, heap)
         /\ Oids(heap') \subseteq Oids(heap)
         /\ GraphOf(heap', code') = [o \in Oids(heap') |-> GraphOf(heap, code)[o]]
         /\ \A r \in Roots : LET v == RootsOf(roots, heap)[r]
                             IN  IsHeapAllocated(v) => v.upper \in Oids(heap')
         /\ \A o \in Oids(heap') :
              \A i \in DOMAIN GraphOf(heap, code)[o].fields :
                LET v == GraphOf(heap, code)[o].fields[i]
                IN  IsHeapAllocated(v) => v.upper \in Oids(heap')
<1>1. /\ pc = "scavenge" /\ work = <<>> /\ pc' = "check"
      /\ roots' = roots /\ code' = code
      /\ DOMAIN heap' = {x \in DOMAIN heap : InToSpace(x)}
      /\ \A x \in DOMAIN heap' : heap'[x] = heap[x]
      /\ IInv /\ Identities(heap)
  BY DEF Flip, GraphInv
<1>2. \A x \in DOMAIN heap' : ~heap'[x].mark /\ ~heap[x].mark
  BY <1>1, FlipIInv DEF IInv, Marks
<1>3. Unmarked(heap') = DOMAIN heap' /\ Unmarked(heap') \subseteq Unmarked(heap)
  BY <1>1, <1>2 DEF Unmarked
<1>4. Identities(heap')
  BY <1>1, <1>2, <1>3 DEF Identities
<1>5. \A x \in DOMAIN heap' : heap[x].oid \in Oids(heap')
  BY <1>1, <1>3 DEF Oids
<1>6. \A v : IsHeapAllocated(v) /\ v.upper \in DOMAIN heap' =>
             /\ Named(v, heap') = Named(v, heap)
             /\ Named(v, heap).upper \in Oids(heap')
  BY <1>1, <1>5, SameName, NameTag
<1>7. \A l : ~Mem(l, work)
  BY <1>1 DEF Mem
<1>8. ASSUME NEW r \in Roots, IsHeapAllocated(roots[r])
      PROVE  roots[r].upper \in DOMAIN heap'
  <2>1. InToSpace(roots[r].upper)
    BY <1>1, <1>7, <1>8 DEF IInv, WorkOK, Covered, RootsCovered, Clean
  <2> QED BY <1>1, <1>8, <2>1, WordsPoint
<1>9. ASSUME NEW x \in DOMAIN heap', NEW i \in DOMAIN FieldsIn(heap[x], code),
             IsHeapAllocated(FieldsIn(heap[x], code)[i])
      PROVE  FieldsIn(heap[x], code)[i].upper \in DOMAIN heap'
  <2>1. CoveredObject(x)
    BY <1>1 DEF IInv, WorkOK, Covered
  <2>2. InToSpace(FieldsIn(heap[x], code)[i].upper)
    BY <1>7, <1>9, <2>1 DEF CoveredObject, FieldsIn, Clean
  <2> QED BY <1>1, <1>9, <2>2, WordsPoint
<1>10. RootsOf(roots', heap') = RootsOf(roots, heap)
  <2>1. \A r \in Roots : Named(roots[r], heap') = Named(roots[r], heap)
    BY <1>6, <1>8 DEF Named
  <2> QED BY <1>1, <2>1 DEF RootsOf
<1>11. ASSUME NEW x \in DOMAIN heap'
       PROVE  NodeAt(x, heap', code') = NodeAt(x, heap, code)
  <2>1. heap'[x] = heap[x] /\ code' = code
    BY <1>1
  <2>2. \A i \in DOMAIN FieldsIn(heap[x], code) :
          Named(FieldsIn(heap[x], code)[i], heap') = Named(FieldsIn(heap[x], code)[i], heap)
    BY <1>6, <1>9 DEF Named
  <2> QED BY <2>1, <2>2, SameNode
<1>12. Oids(heap') \subseteq Oids(heap)
  BY <1>1, <1>3 DEF Oids
<1>13. GraphOf(heap', code') = [o \in Oids(heap') |-> GraphOf(heap, code)[o]]
  <2> DEFINE g == [o \in Oids(heap') |-> GraphOf(heap, code)[o]]
  <2>1. ASSUME NEW x \in Unmarked(heap')
        PROVE  g[heap'[x].oid] = NodeAt(x, heap', code')
    <3>1. GraphOf(heap, code)[heap[x].oid] = NodeAt(x, heap, code)
      BY <1>1, <1>3, NodeOfObject
    <3> QED BY <1>1, <1>3, <1>5, <1>11, <3>1
  <2>2. g = [o \in Oids(heap') |-> g[o]]
    OBVIOUS
  <2> HIDE DEF g
  <2> QED BY ZenonT(60), <1>4, <2>1, <2>2, GraphIs DEF g
<1>14. ASSUME NEW r \in Roots, IsHeapAllocated(RootsOf(roots, heap)[r])
       PROVE  RootsOf(roots, heap)[r].upper \in Oids(heap')
  <2>1. RootsOf(roots, heap)[r] = Named(roots[r], heap) /\ IsHeapAllocated(roots[r])
    BY <1>14, NameTag DEF RootsOf
  <2> QED BY <1>6, <1>8, <2>1
<1>15. ASSUME NEW o \in Oids(heap'), NEW i \in DOMAIN GraphOf(heap, code)[o].fields,
              IsHeapAllocated(GraphOf(heap, code)[o].fields[i])
       PROVE  GraphOf(heap, code)[o].fields[i].upper \in Oids(heap')
  <2>1. PICK x \in DOMAIN heap' : heap[x].oid = o /\ x \in Unmarked(heap)
    BY <1>1, <1>3 DEF Oids
  <2>2. GraphOf(heap, code)[o] = NodeAt(x, heap, code)
    BY <1>1, <2>1, NodeOfObject
  <2>3. /\ i \in DOMAIN FieldsIn(heap[x], code)
        /\ GraphOf(heap, code)[o].fields[i] = Named(FieldsIn(heap[x], code)[i], heap)
    BY <2>2 DEF NodeAt
  <2> QED BY <1>6, <1>9, <1>15, <2>3, NameTag
<1> QED BY <1>4, <1>10, <1>12, <1>13, <1>14, <1>15

-----------------------------------------------------------------------------
(***************************************************************************)
(* Clients.                                                                *)
(***************************************************************************)
\* A root gets a word, under the name that word has.
LEMMA RootSeen ==
  ASSUME GraphInv, NEW dst \in Roots, NEW w, roots' = [roots EXCEPT ![dst] = w],
         heap' = heap, code' = code
  PROVE  /\ Identities(heap')
         /\ RootsOf(roots', heap')
              = [RootsOf(roots, heap) EXCEPT ![dst] = Named(w, heap)]
         /\ GraphOf(heap', code') = GraphOf(heap, code)
<1>1. /\ roots \in [Roots -> Word] /\ Identities(heap)
  BY DEF GraphInv, IInv, TypeOK
<1>2. \A r \in Roots : roots'[r] = IF r = dst THEN w ELSE roots[r]
  BY <1>1
<1>3. RootsOf(roots', heap') = [RootsOf(roots, heap) EXCEPT ![dst] = Named(w, heap)]
  <2>1. \A r \in Roots :
          Named(roots'[r], heap') = IF r = dst THEN Named(w, heap) ELSE Named(roots[r], heap)
    BY <1>2
  <2> QED BY <2>1 DEF RootsOf
<1> QED BY <1>1, <1>3

\* An object gets a word, under the name that word has.
LEMMA StoreSeen ==
  ASSUME GraphInv, NEW obj \in ClientRoots, NEW src \in ClientRoots, Store(obj, src)
  PROVE  LET v == RootsOf(roots, heap)[obj]
             g == GraphOf(heap, code)
         IN  /\ Identities(heap')
             /\ RootsOf(roots', heap') = RootsOf(roots, heap)
             /\ \E i \in DOMAIN g[v.upper].fields :
                  GraphOf(heap', code')
                    = [g EXCEPT ![v.upper].fields[i] = RootsOf(roots, heap)[src]]
<1> DEFINE a == roots[obj].upper
           w == roots[src]
           g == GraphOf(heap, code)
           id == heap[a].oid
<1>1. /\ pc # "scavenge" /\ obj \in Roots /\ src \in Roots
      /\ IsHeapAllocated(roots[obj]) /\ roots[obj].tag # "closure"
      /\ roots' = roots /\ code' = code /\ IInv /\ Identities(heap)
  BY DEF Store, ClientRoots, GraphInv, IsHeapAllocated, HeapTags
<1>2. PICK i \in DOMAIN heap[a].fields : heap' = [heap EXCEPT ![a].fields[i] = w]
  BY DEF Store, ObjectAt
<1>3. /\ a \in Unmarked(heap) /\ a \in DOMAIN heap
      /\ RootsOf(roots, heap)[obj].upper = id /\ g[id] = NodeAt(a, heap, code)
  BY <1>1, ObjectNode DEF ObjectAt, Unmarked
<1>4. heap[a].info = NoFun /\ heap[a] \in Object
      /\ heap \in [DOMAIN heap -> Object]
  BY <1>1, ReadPlain DEF ObjectAt, ObjectOK, IInv, TypeOK
<1> HIDE DEF a, w, g, id
<1> DEFINE fs == [heap[a].fields EXCEPT ![i] = w]
           o == [heap[a] EXCEPT !.fields = fs]
<1>5. heap' = [heap EXCEPT ![a] = o]
  BY <1>2
<1>6. /\ DOMAIN fs = DOMAIN heap[a].fields
      /\ \A j \in DOMAIN fs : fs[j] = IF j = i THEN w ELSE heap[a].fields[j]
  BY <1>4, FieldsAreWords
<1> HIDE DEF fs
<1>7. /\ o.tag = heap[a].tag /\ o.info = NoFun /\ o.mark = heap[a].mark
      /\ o.copiedTo = heap[a].copiedTo /\ o.oid = heap[a].oid /\ o.fields = fs
  BY <1>4 DEF Object
<1> HIDE DEF o
<1>8. /\ DOMAIN heap' = DOMAIN heap /\ heap'[a] = o
      /\ \A x \in DOMAIN heap : x # a => heap'[x] = heap[x]
  BY <1>3, <1>4, <1>5
<1>9. \A x \in DOMAIN heap :
        /\ heap'[x].oid = heap[x].oid /\ heap'[x].mark = heap[x].mark
        /\ heap'[x].copiedTo = heap[x].copiedTo
  BY <1>7, <1>8
<1>10. Unmarked(heap') = Unmarked(heap) /\ Oids(heap') = Oids(heap)
  <2>1. Unmarked(heap') = Unmarked(heap)
    BY <1>8, <1>9 DEF Unmarked
  <2> QED BY <1>9, <2>1 DEF Oids, Unmarked
<1>11. Identities(heap')
  <2>1. \A x \in DOMAIN heap : heap[x].mark => heap[x].copiedTo \in DOMAIN heap
    BY <1>1 DEF IInv, Marks
  <2> QED BY <1>1, <1>8, <1>9, <1>10, <2>1 DEF Identities, Unmarked
<1>12. \A v : (IsHeapAllocated(v) => v.upper \in DOMAIN heap) =>
              Named(v, heap') = Named(v, heap)
  BY <1>9, SameName
<1>13. RootsOf(roots', heap') = RootsOf(roots, heap)
  BY <1>1, <1>12, WordsPoint DEF RootsOf
<1>14. Named(w, heap') = RootsOf(roots, heap)[src]
  BY <1>1, <1>12, WordsPoint DEF RootsOf, w
<1>15. ASSUME NEW x \in DOMAIN heap, x # a
       PROVE  NodeAt(x, heap', code') = NodeAt(x, heap, code)
  BY <1>1, <1>8, <1>12, <1>15, WordsPoint, SameNode
<1>16. NodeAt(a, heap', code')
         = [NodeAt(a, heap, code) EXCEPT !.fields[i] = RootsOf(roots, heap)[src]]
  <2>1. FieldsIn(heap[a], code) = heap[a].fields /\ FieldsIn(heap'[a], code') = fs
    BY <1>4, <1>7, <1>8 DEF FieldsIn
  <2>2. \A j \in DOMAIN fs :
          Named(fs[j], heap') = IF j = i THEN RootsOf(roots, heap)[src]
                                ELSE Named(heap[a].fields[j], heap)
    BY <1>1, <1>3, <1>6, <1>12, <1>14, <2>1, WordsPoint
  <2> DEFINE ns == [j \in DOMAIN fs |-> Named(fs[j], heap')]
             ms == [j \in DOMAIN heap[a].fields |-> Named(heap[a].fields[j], heap)]
  <2>3. ns = [ms EXCEPT ![i] = RootsOf(roots, heap)[src]]
    BY <1>6, <2>2
  <2>4. /\ NodeAt(a, heap', code') = [tag |-> heap[a].tag, fields |-> ns]
        /\ NodeAt(a, heap, code) = [tag |-> heap[a].tag, fields |-> ms]
    BY <1>7, <1>8, <2>1 DEF NodeAt
  <2> QED BY <2>3, <2>4
<1>17. DOMAIN g[id].fields = DOMAIN heap[a].fields
  BY <1>3, <1>4 DEF NodeAt, FieldsIn
<1>18. GraphOf(heap', code') = [g EXCEPT ![id].fields[i] = RootsOf(roots, heap)[src]]
  <2> DEFINE k == [g EXCEPT ![id].fields[i] = RootsOf(roots, heap)[src]]
  <2>1. g = [x \in Oids(heap) |-> g[x]] /\ id \in Oids(heap)
    BY <1>3, NodeOfObject, <1>1 DEF GraphOf, g, id
  <2>2. /\ k = [x \in Oids(heap') |-> k[x]] /\ k[id] = NodeAt(a, heap', code')
        /\ \A x \in Oids(heap) : x # id => k[x] = g[x]
    BY <1>3, <1>10, <1>16, <2>1
  <2> HIDE DEF k
  <2>3. ASSUME NEW x \in Unmarked(heap') PROVE k[heap'[x].oid] = NodeAt(x, heap', code')
    <3>1. x \in Unmarked(heap) /\ x \in DOMAIN heap /\ heap'[x].oid = heap[x].oid
      BY <1>9, <1>10 DEF Unmarked
    <3>2. CASE x = a
      BY <2>2, <3>1, <3>2 DEF id
    <3>3. CASE x # a
      <4>1. heap[x].oid # id /\ heap[x].oid \in Oids(heap)
        BY <1>1, <1>3, <3>1, <3>3, NodeOfObject DEF Identities, id
      <4>2. g[heap[x].oid] = NodeAt(x, heap, code)
        BY <1>1, <3>1, NodeOfObject DEF g
      <4> QED BY <1>15, <2>2, <3>1, <3>3, <4>1, <4>2
    <3> QED BY <3>2, <3>3
  <2>4. GraphOf(heap', code') = k
    BY <1>11, <2>2, <2>3, GraphIs
  <2> QED BY <2>4 DEF k
<1> QED BY <1>3, <1>11, <1>13, <1>17, <1>18 DEF g

-----------------------------------------------------------------------------
(***************************************************************************)
(* Steps of the graph.                                                     *)
(***************************************************************************)
\* The refinement mapping of Heap, in the terms of this module.
LEMMA View ==
  /\ [r \in Roots |-> AbsWord(roots[r])] = RootsOf(roots, heap)
  /\ [o \in {heap[a].oid : a \in Current} |-> AbsNode(o)] = GraphOf(heap, code)
BY DEF RootsOf, GraphOf, Oids, Unmarked, Current, AbsNode, NodeAt, AbsWord, Named,
       Fields, FieldsIn

\* The mapping after a step.
LEMMA ViewAfter ==
  /\ [r \in Roots |-> AbsWord(roots[r])]' = RootsOf(roots', heap')
  /\ [o \in {heap[a].oid : a \in Current} |-> AbsNode(o)]' = GraphOf(heap', code')
BY DEF RootsOf, GraphOf, Oids, Unmarked, Current, AbsNode, NodeAt, AbsWord, Named,
       Fields, FieldsIn

\* A step that is not seen is a stutter.
LEMMA Unseen ==
  ASSUME SameView
  PROVE  UNCHANGED Graph!vars
BY View, ViewAfter DEF SameView, Graph!vars

\* The graph has the same words.
LEMMA SameTags == \A w : Graph!IsHeapAllocated(w) <=> IsHeapAllocated(w)
BY DEF IsHeapAllocated, HeapTags, Graph!IsHeapAllocated, Graph!HeapTags

\* The end of a collection is a Reclaim.
LEMMA FlipIsReclaim ==
  ASSUME GraphInv, Flip
  PROVE  Graph!Reclaim
<1> DEFINE rs == RootsOf(roots, heap)
           g == GraphOf(heap, code)
           keep == Oids(heap')
<1>1. ~(pc = "exhausted") /\ ~(pc' = "exhausted")
  BY DEF Flip
<1>2. /\ RootsOf(roots', heap') = rs
      /\ keep \in SUBSET DOMAIN g
      /\ GraphOf(heap', code') = [o \in keep |-> g[o]]
      /\ \A r \in Roots : IsHeapAllocated(rs[r]) => rs[r].upper \in keep
      /\ \A o \in keep : \A i \in DOMAIN g[o].fields :
           IsHeapAllocated(g[o].fields[i]) => g[o].fields[i].upper \in keep
  BY FlipReclaims DEF GraphOf
<1> HIDE DEF rs, g, keep
<1>3. Graph!ClosedUnderReference(keep)
  BY <1>2, View, SameTags DEF Graph!ClosedUnderReference, rs, g
<1> QED BY <1>1, <1>2, <1>3, View, ViewAfter DEF Graph!Reclaim, rs, g

\* A root that gets a word gets its name.
LEMMA PutIsPut ==
  ASSUME GraphInv, NEW dst \in Roots, NEW w, Put(dst, w)
  PROVE  Identities(heap') /\ Graph!Put(dst, Named(w, heap))
<1>1. /\ ~(pc = "exhausted") /\ (pc = "exhausted")' = (pc = "exhausted")
      /\ roots' = [roots EXCEPT ![dst] = w] /\ heap' = heap /\ code' = code
  BY DEF Put
<1>2. /\ Identities(heap')
      /\ RootsOf(roots', heap')
           = [RootsOf(roots, heap) EXCEPT ![dst] = Named(w, heap)]
      /\ GraphOf(heap', code') = GraphOf(heap, code)
  BY <1>1, RootSeen
<1> QED BY <1>1, <1>2, View, ViewAfter DEF Graph!Put

\* What a client reads is named by a field of the node.
LEMMA LoadIsLoad ==
  ASSUME GraphInv, NEW dst \in ClientRoots, NEW src \in Roots, Load(dst, src)
  PROVE  Identities(heap') /\ Graph!Load(dst, src)
<1> DEFINE rs == RootsOf(roots, heap)
           g == GraphOf(heap, code)
           node == g[rs[src].upper]
<1>1. /\ pc = "mutator" /\ IsHeapAllocated(roots[src])
      /\ (pc = "exhausted")' = (pc = "exhausted") /\ dst \in Roots
      /\ heap' = heap /\ code' = code
  BY DEF Load, ClientRoots
<1>2. PICK i \in DOMAIN Fields(ObjectAt(src)) :
        /\ ~(roots[src].tag = "closure" /\ i = 2)
        /\ roots' = [roots EXCEPT ![dst] = Fields(ObjectAt(src))[i]]
  BY DEF Load
<1>3. node = NodeAt(roots[src].upper, heap, code)
  <2>1. pc # "scavenge"
    BY <1>1
  <2> QED BY <1>1, <2>1, ObjectNode
<1>4. /\ i \in DOMAIN node.fields
      /\ node.fields[i] = Named(Fields(ObjectAt(src))[i], heap)
  <2> DEFINE fs == Fields(ObjectAt(src))
  <2>1. fs = FieldsIn(heap[roots[src].upper], code) /\ i \in DOMAIN fs
    BY <1>2 DEF ObjectAt, Fields, FieldsIn
  <2> HIDE DEF fs, node
  <2>2. node.fields = [j \in DOMAIN fs |-> Named(fs[j], heap)]
    BY <1>3, <2>1 DEF NodeAt
  <2>3. i \in DOMAIN node.fields /\ node.fields[i] = Named(fs[i], heap)
    BY <2>1, <2>2
  <2> QED BY <2>3 DEF fs
<1>5. rs[src].tag = roots[src].tag /\ IsHeapAllocated(rs[src])
  BY <1>1, NameTag DEF RootsOf
<1>6. /\ Identities(heap') /\ GraphOf(heap', code') = g
      /\ RootsOf(roots', heap') = [rs EXCEPT ![dst] = node.fields[i]]
  <2> DEFINE v == Fields(ObjectAt(src))[i]
  <2>1. roots' = [roots EXCEPT ![dst] = v]
    BY <1>2
  <2> HIDE DEF v
  <2>2. /\ Identities(heap') /\ GraphOf(heap', code') = g
        /\ RootsOf(roots', heap') = [rs EXCEPT ![dst] = Named(v, heap)]
    BY <1>1, <2>1, RootSeen
  <2> QED BY <1>4, <2>2 DEF v
<1>7. Graph!Node(src) = node
  BY View DEF Graph!Node
<1> HIDE DEF node
<1>8. Graph!Load(dst, src)
  <2>1. i \in DOMAIN Graph!Node(src).fields
    BY <1>4, <1>7
  <2>2. ~(rs[src].tag = "closure" /\ i = 2)
    BY <1>2, <1>5
  <2>3. RootsOf(roots', heap') = [rs EXCEPT ![dst] = Graph!Node(src).fields[i]]
    BY <1>6, <1>7
  <2> QED BY <1>1, <1>5, <1>6, <2>1, <2>2, <2>3, View, ViewAfter, SameTags DEF Graph!Load
<1> QED BY <1>6, <1>8

\* What a client stores is what is named by the field of the node.
LEMMA StoreIsStore ==
  ASSUME GraphInv, NEW obj \in ClientRoots, NEW src \in ClientRoots, Store(obj, src)
  PROVE  Identities(heap') /\ Graph!Store(obj, src)
<1> DEFINE rs == RootsOf(roots, heap)
           g == GraphOf(heap, code)
<1>1. /\ pc = "mutator" /\ (pc = "exhausted")' = (pc = "exhausted")
      /\ roots[obj].tag \in {"pair", "vector"} /\ roots[src] # Null
      /\ obj \in Roots /\ src \in Roots
  BY DEF Store, ClientRoots
<1>2. rs[obj].tag \in {"pair", "vector"} /\ rs[src] # Null
  BY <1>1, NameTag DEF RootsOf
<1>3. /\ Identities(heap') /\ RootsOf(roots', heap') = rs
      /\ \E i \in DOMAIN g[rs[obj].upper].fields :
           GraphOf(heap', code') = [g EXCEPT ![rs[obj].upper].fields[i] = rs[src]]
  BY StoreSeen
<1> HIDE DEF rs, g
<1>4. Graph!Null = Null
  BY DEF Null, Graph!Null
<1>5. /\ [r \in Roots |-> AbsWord(roots[r])] = rs
      /\ [o \in {heap[a].oid : a \in Current} |-> AbsNode(o)] = g
  BY View DEF rs, g
<1>6. Graph!Node(obj) = g[rs[obj].upper]
  BY <1>5 DEF Graph!Node
<1>7. Graph!Store(obj, src)
  BY ZenonT(60), <1>1, <1>2, <1>3, <1>4, <1>5, <1>6, ViewAfter DEF Graph!Store
<1> QED BY <1>3, <1>7

-----------------------------------------------------------------------------
(***************************************************************************)
(* New objects.                                                            *)
(***************************************************************************)
\* Two words before others: what the code of a function refers to.
LEMMA WordsInCode ==
  ASSUME NEW S, NEW x \in S, NEW y \in S, NEW n \in Nat,
         NEW t, t = [i \in 1..n |-> t[i]], \A i \in 1..n : t[i] \in S,
         NEW s, s = <<x, y>> \o t
  PROVE  /\ s = [i \in 1..(n + 2) |-> s[i]]
         /\ s[1] = x /\ s[2] = y
         /\ \A i \in 1..(n + 2) : i # 1 /\ i # 2 => i - 2 \in 1..n /\ s[i] = t[i - 2]
<1> DEFINE front == <<x, y>>
<1>1. front \in Seq(S) /\ Len(front) = 2 /\ front[1] = x /\ front[2] = y
  OBVIOUS
<1>2. t \in Seq(S) /\ Len(t) = n
  <2>1. t \in [1..n -> S]
    OBVIOUS
  <2> QED BY <2>1
<1> HIDE DEF front
<1>3. s = front \o t
  BY DEF front
<1>4. /\ s \in Seq(S) /\ Len(s) = n + 2
      /\ \A i \in 1..(n + 2) : s[i] = IF i <= 2 THEN front[i] ELSE t[i - 2]
  <2>1. s \in Seq(S) /\ Len(s) = Len(front) + Len(t)
    BY <1>1, <1>2, <1>3, ConcatProperties
  <2>2. \A i \in 1..(Len(front) + Len(t)) :
          s[i] = IF i <= Len(front) THEN front[i] ELSE t[i - Len(front)]
    BY <1>1, <1>2, <1>3, ConcatProperties
  <2>3. Len(front) + Len(t) = n + 2
    BY <1>1, <1>2
  <2> QED BY <1>1, <2>1, <2>2, <2>3
<1>5. s = [i \in 1..(n + 2) |-> s[i]]
  <2>1. s \in [1..(n + 2) -> S]
    BY <1>4, LenProperties
  <2> QED BY <2>1
<1>6. s[1] = x /\ s[2] = y
  <2>1. 1 \in 1..(n + 2) /\ 2 \in 1..(n + 2) /\ 1 <= 2 /\ 2 <= 2
    OBVIOUS
  <2> QED BY <1>1, <1>4, <2>1
<1>7. ASSUME NEW i \in 1..(n + 2), i # 1, i # 2
      PROVE  i - 2 \in 1..n /\ s[i] = t[i - 2]
  BY <1>4, <1>7
<1> QED BY <1>5, <1>6, <1>7

\* The fields of a new object, by their names.
LEMMA InitialNames ==
  ASSUME IInv, NEW q \in Requests, MayRequest(q)
  PROVE  Graph!InitialFields(q)
           = [i \in DOMAIN InitialFields(q) |-> Named(InitialFields(q)[i], heap)]
<1> DEFINE rs == RootsOf(roots, heap)
<1>1. /\ q.tag \in {"pair", "symbol", "closure", "vector", "function"}
      /\ q.n \in Nat /\ IsRequest(q)
  BY RequestsAssumption DEF IsRequest, HeapTags
<1>2. [r \in Roots |-> AbsWord(roots[r])] = rs
  BY View
<1> HIDE DEF rs
<1>3. CASE q.tag = "pair"
  <2>1. q.srcs[1] \in Roots /\ q.srcs[2] \in Roots
    BY <1>1, <1>3, ElementOfSeq DEF IsRequest, ClientRoots
  <2>2. /\ rs[q.srcs[1]] = Named(roots[q.srcs[1]], heap)
        /\ rs[q.srcs[2]] = Named(roots[q.srcs[2]], heap)
    BY <2>1 DEF rs, RootsOf
  <2>3. InitialFields(q) = <<roots[q.srcs[1]], roots[q.srcs[2]]>>
    BY <1>3 DEF InitialFields
  <2>4. Graph!InitialFields(q) = <<rs[q.srcs[1]], rs[q.srcs[2]]>>
    BY <1>2, <1>3 DEF Graph!InitialFields
  <2> QED BY <2>2, <2>3, <2>4
<1>4. CASE q.tag = "vector"
  <2>1. InitialFields(q) = [i \in 1..q.n |-> Nil]
    BY <1>4 DEF InitialFields
  <2>2. Graph!InitialFields(q) = [i \in 1..q.n |-> Nil]
    BY <1>4 DEF Graph!InitialFields, Graph!Nil, Nil
  <2>3. Named(Nil, heap) = Nil
    BY DEF Named, Nil, IsHeapAllocated, HeapTags
  <2> QED BY <2>1, <2>2, <2>3
<1>5. CASE q.tag = "function"
  <2>1. InitialFields(q) = [i \in 1..q.n |-> Fixnum(i)]
    BY <1>5 DEF InitialFields
  <2>2. Graph!InitialFields(q) = [i \in 1..q.n |-> Fixnum(i)]
    BY <1>5 DEF Graph!InitialFields, Graph!Fixnum, Fixnum
  <2>3. \A i \in 1..q.n : Named(Fixnum(i), heap) = Fixnum(i)
    BY DEF Named, Fixnum, IsHeapAllocated, HeapTags
  <2> QED BY <2>1, <2>2, <2>3
<1>6. CASE q.tag \in {"symbol", "closure"}
  <2>1. InitialFields(q) = <<>>
    BY <1>6 DEF InitialFields
  <2>2. Graph!InitialFields(q) = <<>>
    BY <1>6 DEF Graph!InitialFields
  <2> QED BY <2>1, <2>2
<1> QED BY <1>1, <1>3, <1>4, <1>5, <1>6

\* A request that clients may make of the heap they may make of the graph.
LEMMA MayRequestNode ==
  ASSUME GraphInv, pc # "scavenge", NEW q \in Requests, MayRequest(q)
  PROVE  Graph!MayRequest(q)
<1> DEFINE rs == RootsOf(roots, heap)
           g == GraphOf(heap, code)
<1>1. IsRequest(q) /\ q.dst \in Roots /\ \A i \in DOMAIN q.srcs : q.srcs[i] \in Roots
  BY RequestsAssumption DEF IsRequest, ClientRoots
<1>2. \A r \in Roots :
        /\ rs[r].tag = roots[r].tag
        /\ IsHeapAllocated(rs[r]) <=> IsHeapAllocated(roots[r])
        /\ rs[r] = Null => roots[r] = Null
  BY NameTag DEF RootsOf
<1>3. \A i \in DOMAIN q.srcs : rs[q.srcs[i]] # Null
  BY <1>1, <1>2 DEF MayRequest
<1>4. ASSUME q.tag = "function"
      PROVE  /\ rs[q.dst].tag = "closure" /\ g[rs[q.dst].upper].fields = <<>>
             /\ rs[q.srcs[1]].tag = "symbol"
             /\ \A i \in 2..Len(q.srcs) : IsHeapAllocated(rs[q.srcs[i]])
  <2>1. /\ IsUnlinked(q.dst) /\ roots[q.srcs[1]].tag = "symbol"
        /\ \A i \in 2..Len(q.srcs) : IsHeapAllocated(roots[q.srcs[i]])
    BY <1>4 DEF MayRequest
  <2>2. Len(q.srcs) \in Nat /\ Len(q.srcs) >= 1 /\ DOMAIN q.srcs = 1..Len(q.srcs)
    BY <1>1, <1>4 DEF IsRequest
  <2>3. 1 \in DOMAIN q.srcs /\ \A i \in 2..Len(q.srcs) : i \in DOMAIN q.srcs
    BY <2>2
  <2>4. IsHeapAllocated(roots[q.dst]) /\ ObjectAt(q.dst).info = NoFun
    BY <2>1 DEF IsUnlinked, IsHeapAllocated, HeapTags
  <2>5. ObjectAt(q.dst).fields = <<>>
    BY <1>1, <2>1, <2>4, ReadPlain DEF GraphInv, ObjectOK, IsUnlinked
  <2>6. g[rs[q.dst].upper] = NodeAt(roots[q.dst].upper, heap, code)
    BY <1>1, <2>4, ObjectNode
  <2>7. g[rs[q.dst].upper].fields = <<>>
    BY <2>4, <2>5, <2>6 DEF NodeAt, FieldsIn, ObjectAt
  <2> QED BY <1>1, <1>2, <2>1, <2>3, <2>7 DEF IsUnlinked
<1> HIDE DEF rs, g
<1>5. /\ [r \in Roots |-> AbsWord(roots[r])] = rs
      /\ [o \in {heap[a].oid : a \in Current} |-> AbsNode(o)] = g
  BY View DEF rs, g
<1>6. Graph!Null = Null
  BY DEF Null, Graph!Null
<1>7. q.tag = "function" => Graph!IsUnlinked(q.dst)
  BY <1>4, <1>5 DEF Graph!IsUnlinked, Graph!Node
<1> QED BY <1>3, <1>4, <1>5, <1>6, <1>7, SameTags DEF Graph!MayRequest

\* The new object has an identity of its own and the node of a new object;
\* what pointed to an object still points to that object.
LEMMA NewObjectNode ==
  ASSUME GraphInv, pc # "scavenge", NEW q \in Requests, MayRequest(q),
         NEW id \in Ids \ UsedIds,
         DOMAIN heap' = DOMAIN heap \cup {heapPtr},
         heap'[heapPtr] = NewObject(q, id),
         \A a \in DOMAIN heap :
           heap'[a].oid = heap[a].oid /\ heap'[a].mark = heap[a].mark
  PROVE  /\ Identities(heap') /\ heapPtr \notin DOMAIN heap
         /\ Unmarked(heap) = DOMAIN heap /\ Unmarked(heap') = DOMAIN heap'
         /\ id \notin Oids(heap) /\ Oids(heap') = Oids(heap) \cup {id}
         /\ heap'[heapPtr].oid = id
         /\ \A v : (IsHeapAllocated(v) => v.upper \in DOMAIN heap) =>
                   Named(v, heap') = Named(v, heap)
         /\ NodeAt(heapPtr, heap', code') = Graph!NewNode(q)
<1> DEFINE new == NewObject(q, id)
<1>1. /\ IInv /\ Identities(heap) /\ heapPtr \notin DOMAIN heap
      /\ \A a \in DOMAIN heap : ~heap[a].mark
  BY FreeAtTop DEF GraphInv, IInv, Marks
<1>2. /\ new.tag = RequestTag(q) /\ new.fields = InitialFields(q)
      /\ new.info = NoFun /\ ~new.mark
  BY <1>1, NewObjectOK
<1>3. new.oid = id
  BY DEF NewObject
<1> HIDE DEF new
<1>4. heap'[heapPtr] = new
  BY DEF new
<1>5. Unmarked(heap) = DOMAIN heap /\ Unmarked(heap') = DOMAIN heap'
  BY <1>1, <1>2, <1>4 DEF Unmarked
<1>6. Oids(heap) = UsedIds /\ id \notin Oids(heap)
  BY <1>5 DEF Oids, UsedIds
<1>7. Oids(heap') = Oids(heap) \cup {id}
  BY <1>3, <1>4, <1>5 DEF Oids
<1>8. Identities(heap')
  <2>1. \A a \in DOMAIN heap : heap[a].oid # id
    BY <1>5, <1>6 DEF Oids
  <2>2. ASSUME NEW a \in DOMAIN heap', NEW b \in DOMAIN heap', heap'[a].oid = heap'[b].oid
        PROVE  a = b
    BY <1>1, <1>3, <1>4, <1>5, <2>1, <2>2 DEF Identities
  <2>3. \A a \in DOMAIN heap' : ~heap'[a].mark
    BY <1>1, <1>2, <1>4
  <2> QED BY <1>5, <2>2, <2>3 DEF Identities
<1>9. \A v : (IsHeapAllocated(v) => v.upper \in DOMAIN heap) =>
             Named(v, heap') = Named(v, heap)
  BY SameName
<1>10. NodeAt(heapPtr, heap', code') = Graph!NewNode(q)
  <2> DEFINE fs == InitialFields(q)
  <2>1. \A i \in DOMAIN fs : IsHeapAllocated(fs[i]) => fs[i].upper \in DOMAIN heap
    <3>1. CASE q.tag # "function"
      BY <1>1, <3>1, InitialFieldsOK DEF Plain
    <3>2. CASE q.tag = "function"
      <4>1. fs = [i \in 1..q.n |-> Fixnum(i)]
        BY <1>1, <3>2, InitialFieldsOK
      <4>2. \A i : ~IsHeapAllocated(Fixnum(i))
        BY DEF Fixnum, IsHeapAllocated, HeapTags
      <4> QED BY <4>1, <4>2
    <3> QED BY <3>1, <3>2
  <2>2. Graph!InitialFields(q) = [i \in DOMAIN fs |-> Named(fs[i], heap)]
    BY <1>1, InitialNames
  <2> HIDE DEF fs
  <2>3. \A i \in DOMAIN fs : Named(fs[i], heap') = Named(fs[i], heap)
    BY <1>9, <2>1
  <2>4. FieldsIn(heap'[heapPtr], code') = fs
    BY <1>2, <1>4 DEF FieldsIn, fs
  <2>5. NodeAt(heapPtr, heap', code')
          = [tag |-> new.tag, fields |-> [i \in DOMAIN fs |-> Named(fs[i], heap')]]
    BY <1>4, <2>4 DEF NodeAt
  <2>6. [i \in DOMAIN fs |-> Named(fs[i], heap')] = [i \in DOMAIN fs |-> Named(fs[i], heap)]
    BY <2>3
  <2> QED BY <1>2, <2>2, <2>5, <2>6 DEF Graph!NewNode, RequestTag
<1> QED BY <1>1, <1>3, <1>4, <1>5, <1>6, <1>7, <1>8, <1>9, <1>10

\* An object whose words are the same has the same node.
LEMMA OldNode ==
  ASSUME IInv, NEW x \in DOMAIN heap, heap'[x].tag = heap[x].tag,
         FieldsIn(heap'[x], code') = FieldsIn(heap[x], code),
         \A v : (IsHeapAllocated(v) => v.upper \in DOMAIN heap) =>
                Named(v, heap') = Named(v, heap)
  PROVE  NodeAt(x, heap', code') = NodeAt(x, heap, code)
<1>1. \A i \in DOMAIN FieldsIn(heap[x], code) :
        Named(FieldsIn(heap'[x], code')[i], heap') = Named(FieldsIn(heap[x], code)[i], heap)
  BY WordsPoint
<1> QED BY <1>1, SameNode

\* A new pair, vector, symbol or closure is a new node.
LEMMA ObjectIsNew ==
  ASSUME GraphInv, pc \in {"mutator", "check"}, NEW q \in Requests, MayRequest(q),
         q.tag # "function", Place(q), pc' = "mutator"
  PROVE  Identities(heap') /\ Graph!New(q)
<1> DEFINE id == CHOOSE i \in Ids : i \notin UsedIds
           new == NewObject(q, id)
           ptr == Pointer(new.tag, heapPtr)
           rs == [r \in Roots |-> AbsWord(roots[r])]
           g == [o \in {heap[a].oid : a \in Current} |-> AbsNode(o)]
           node == Graph!NewNode(q)
<1>1. id \in Ids \ UsedIds
  BY DEF Place
<1>2. /\ heap' = [a \in DOMAIN heap \cup {heapPtr} |->
                     IF a = heapPtr THEN new ELSE heap[a]]
      /\ roots' = [roots EXCEPT ![q.dst] = ptr] /\ code' = code
  BY Zenon DEF Place
<1>3. /\ IInv /\ Identities(heap) /\ heapPtr \notin DOMAIN heap /\ q.dst \in Roots
      /\ roots \in [Roots -> Word] /\ pc # "scavenge"
  BY FreeAtTop, RequestsAssumption DEF GraphInv, IInv, TypeOK, IsRequest, ClientRoots
<1> HIDE DEF id, new
<1>4. /\ DOMAIN heap' = DOMAIN heap \cup {heapPtr} /\ heap'[heapPtr] = NewObject(q, id)
      /\ \A a \in DOMAIN heap : heap'[a] = heap[a]
  BY <1>2, <1>3 DEF new
<1>5. /\ Identities(heap')
      /\ Unmarked(heap) = DOMAIN heap /\ Unmarked(heap') = DOMAIN heap'
      /\ id \notin Oids(heap) /\ Oids(heap') = Oids(heap) \cup {id}
      /\ heap'[heapPtr].oid = id
      /\ \A v : (IsHeapAllocated(v) => v.upper \in DOMAIN heap) =>
                Named(v, heap') = Named(v, heap)
      /\ NodeAt(heapPtr, heap', code') = node
  BY <1>1, <1>3, <1>4, NewObjectNode
<1>6. rs = RootsOf(roots, heap) /\ g = GraphOf(heap, code)
  BY View
<1>7. new.tag = q.tag /\ node.tag = q.tag /\ q.tag \in HeapTags
  BY <1>1, <1>3, NewObjectOK DEF new, RequestTag, Graph!NewNode
<1> HIDE DEF rs, g, node
<1>8. RootsOf(roots', heap') = [rs EXCEPT ![q.dst] = Pointer(q.tag, id)]
  <2>1. Named(ptr, heap') = Pointer(q.tag, id)
    BY <1>5, <1>7 DEF Named, Pointer, IsHeapAllocated
  <2>2. \A r \in Roots : roots'[r] = IF r = q.dst THEN ptr ELSE roots[r]
    BY <1>2, <1>3
  <2>3. \A r \in Roots : Named(roots[r], heap') = Named(roots[r], heap)
    BY <1>3, <1>5, WordsPoint
  <2>4. \A r \in Roots : Named(roots'[r], heap')
          = IF r = q.dst THEN Pointer(q.tag, id) ELSE Named(roots[r], heap)
    BY <2>1, <2>2, <2>3
  <2> QED BY <1>6, <2>4 DEF RootsOf
<1>9. GraphOf(heap', code')
        = [x \in DOMAIN g \cup {id} |-> IF x = id THEN node ELSE g[x]]
  <2> DEFINE k == [x \in DOMAIN g \cup {id} |-> IF x = id THEN node ELSE g[x]]
  <2>1. DOMAIN g = Oids(heap)
    BY <1>6 DEF GraphOf
  <2>2. /\ k = [x \in Oids(heap') |-> k[x]] /\ k[id] = node
        /\ \A x \in Oids(heap) : k[x] = g[x]
    BY <1>5, <2>1
  <2> HIDE DEF k
  <2>3. ASSUME NEW a \in Unmarked(heap') PROVE k[heap'[a].oid] = NodeAt(a, heap', code')
    <3>1. CASE a = heapPtr
      BY <1>5, <2>2, <3>1
    <3>2. CASE a # heapPtr
      <4>1. a \in DOMAIN heap /\ heap'[a] = heap[a]
        BY <1>4, <1>5, <3>2
      <4>2. NodeAt(a, heap', code') = NodeAt(a, heap, code)
        BY <1>2, <1>3, <1>5, <4>1, OldNode
      <4>3. heap[a].oid \in Oids(heap) /\ g[heap[a].oid] = NodeAt(a, heap, code)
        BY <1>3, <1>5, <1>6, <4>1, NodeOfObject
      <4> QED BY <2>2, <4>1, <4>2, <4>3
    <3> QED BY <3>1, <3>2
  <2>4. GraphOf(heap', code') = k
    BY <1>5, <2>2, <2>3, GraphIs
  <2> QED BY <2>4 DEF k
<1>10. Graph!Pointer(node.tag, id) = Pointer(q.tag, id)
  BY <1>7 DEF Graph!Pointer, Pointer
<1>11. /\ ~(pc = "exhausted") /\ (pc = "exhausted")' = (pc = "exhausted")
       /\ id \in Ids \ DOMAIN g
  BY <1>1, <1>5, <1>6 DEF GraphOf
<1>12. Graph!MayRequest(q)
  BY <1>3, MayRequestNode
<1>13. \E o \in Ids \ DOMAIN g :
         /\ GraphOf(heap', code')
              = [x \in DOMAIN g \cup {o} |-> IF x = o THEN node ELSE g[x]]
         /\ RootsOf(roots', heap') = [rs EXCEPT ![q.dst] = Graph!Pointer(node.tag, o)]
  BY <1>8, <1>9, <1>10, <1>11
<1>14. Graph!New(q)
  BY <1>11, <1>12, <1>13, ViewAfter DEF Graph!New, node, rs, g
<1> QED BY <1>5, <1>14

\* The end of a compilation is a new vector, and a closure that refers to the
\* words in the code.
LEMMA FunctionIsNew ==
  ASSUME GraphInv, pc \in {"mutator", "check"}, NEW q \in Requests, MayRequest(q),
         q.tag = "function", Place(q), pc' = "mutator"
  PROVE  Identities(heap') /\ Graph!New(q)
<1> DEFINE id == CHOOSE i \in Ids : i \notin UsedIds
           new == NewObject(q, id)
           ptr == Pointer(new.tag, heapPtr)
           f == CHOOSE h \in Funs : Unlinked(h)
           clo == roots[q.dst].upper
           linked == [heap[clo] EXCEPT !.info = f]
           words == LinkedCode(q, ptr)
           rs == [r \in Roots |-> AbsWord(roots[r])]
           g == [o \in {heap[a].oid : a \in Current} |-> AbsNode(o)]
           vec == Graph!Pointer("vector", id)
           node == Graph!NewNode(q)
           lnode == Graph!LinkedNode(q, vec)
<1>1. id \in Ids \ UsedIds
  BY DEF Place
<1>2. /\ heap' = [a \in DOMAIN heap \cup {heapPtr} |->
                     IF a = heapPtr THEN new
                     ELSE IF a = clo THEN [heap[a] EXCEPT !.info = f]
                     ELSE heap[a]]
      /\ code' = [code EXCEPT ![f] = words]
      /\ roots' = roots
  BY Zenon DEF Place
<1>3. /\ IInv /\ Identities(heap) /\ heapPtr \notin DOMAIN heap /\ q.dst \in Roots
      /\ roots \in [Roots -> Word] /\ code \in [Funs -> Seq(Word)] /\ pc # "scavenge"
      /\ heapPtr \in Nat
  BY FreeAtTop, RequestsAssumption DEF GraphInv, IInv, TypeOK, IsRequest, ClientRoots
<1>4. f \in Funs /\ code[f] = <<>> /\ f # NoFun
  BY NoneAssumption DEF MayRequest, Unlinked
<1> HIDE DEF id, new, f
<1>5. /\ clo \in DOMAIN heap /\ heap[clo] \in Object /\ heap[clo].tag = "closure"
      /\ IsHeapAllocated(roots[q.dst])
  <2>1. IsUnlinked(q.dst) /\ IsHeapAllocated(roots[q.dst])
    BY DEF MayRequest, IsUnlinked, IsHeapAllocated, HeapTags
  <2> QED BY <1>3, <2>1, ReadPlain DEF IsUnlinked, ObjectAt
<1>6. /\ linked.info = f /\ linked.tag = "closure" /\ linked.mark = heap[clo].mark
      /\ linked.oid = heap[clo].oid
  BY <1>5 DEF Object
<1>7. /\ DOMAIN heap' = DOMAIN heap \cup {heapPtr} /\ heap'[heapPtr] = NewObject(q, id)
      /\ heap'[clo] = linked
      /\ \A a \in DOMAIN heap \ {clo} : heap'[a] = heap[a]
  BY <1>2, <1>3, <1>5 DEF new
<1> HIDE DEF linked
<1>8. /\ Identities(heap')
      /\ Unmarked(heap) = DOMAIN heap /\ Unmarked(heap') = DOMAIN heap'
      /\ id \notin Oids(heap) /\ Oids(heap') = Oids(heap) \cup {id}
      /\ heap'[heapPtr].oid = id
      /\ \A v : (IsHeapAllocated(v) => v.upper \in DOMAIN heap) =>
                Named(v, heap') = Named(v, heap)
      /\ NodeAt(heapPtr, heap', code') = node
  <2>1. \A a \in DOMAIN heap :
          heap'[a].oid = heap[a].oid /\ heap'[a].mark = heap[a].mark
    BY <1>6, <1>7
  <2> QED BY <1>1, <1>3, <1>7, <2>1, NewObjectNode
<1>9. rs = RootsOf(roots, heap) /\ g = GraphOf(heap, code)
  BY View
<1>10. new.tag = "vector" /\ ptr = Pointer("vector", heapPtr)
  BY <1>1, <1>3, NewObjectOK DEF new, RequestTag
<1>11. /\ q.n \in Nat /\ 1 \in DOMAIN q.srcs /\ q.srcs[1] \in Roots
       /\ \A i \in 1..q.n : q.srcs[i + 1] \in Roots
  <2>1. /\ q.n \in Nat /\ Len(q.srcs) = q.n + 1 /\ q.srcs \in Seq(Roots)
    BY RequestsAssumption DEF IsRequest, ClientRoots
  <2>2. \A i \in 1..(q.n + 1) : i \in DOMAIN q.srcs /\ q.srcs[i] \in Roots
    BY <2>1
  <2> QED BY <2>1, <2>2
<1> HIDE DEF ptr, words, rs, g, vec, node, lnode, clo
<1>12. \A r \in Roots : Named(roots[r], heap') = rs[r] /\ roots[r] \in Word
  BY <1>3, <1>8, <1>9, WordsPoint DEF RootsOf
<1>13. ptr \in Word /\ Named(ptr, heap') = vec
  BY <1>3, <1>8, <1>10
     DEF Named, Pointer, IsHeapAllocated, HeapTags, Word, Tags, Graph!Pointer, vec
<1>14. [i \in DOMAIN words |-> Named(words[i], heap')] = lnode.fields
  <2> DEFINE t == [i \in 1..q.n |-> roots[q.srcs[i + 1]]]
             u == [i \in 1..q.n |-> rs[q.srcs[i + 1]]]
             x == roots[q.srcs[1]]
             y == rs[q.srcs[1]]
             names == <<y, vec>> \o u
  <2>1. words = <<x, ptr>> \o t
    BY DEF words, LinkedCode
  <2>2. lnode.fields = names
    BY Zenon DEF lnode, Graph!LinkedNode, rs
  <2>3. /\ t = [i \in 1..q.n |-> t[i]] /\ u = [i \in 1..q.n |-> u[i]]
        /\ \A i \in 1..q.n : t[i] \in Word /\ u[i] = Named(t[i], heap')
        /\ x \in Word /\ y = Named(x, heap')
    BY <1>11, <1>12
  <2> DEFINE S == {Named(v, heap') : v \in Word}
  <2>4. y \in S /\ vec \in S /\ \A i \in 1..q.n : u[i] \in S
    BY <1>13, <2>3
  <2> HIDE DEF t, u, x, y, names, S
  <2>5. /\ words = [i \in 1..(q.n + 2) |-> words[i]]
        /\ words[1] = x /\ words[2] = ptr
        /\ \A i \in 1..(q.n + 2) :
             i # 1 /\ i # 2 => i - 2 \in 1..q.n /\ words[i] = t[i - 2]
    BY <1>11, <1>13, <2>1, <2>3, WordsInCode
  <2>6. /\ names = [i \in 1..(q.n + 2) |-> names[i]]
        /\ names[1] = y /\ names[2] = vec
        /\ \A i \in 1..(q.n + 2) :
             i # 1 /\ i # 2 => i - 2 \in 1..q.n /\ names[i] = u[i - 2]
    BY <1>11, <2>3, <2>4, WordsInCode DEF names
  <2>7. \A i \in 1..(q.n + 2) : Named(words[i], heap') = names[i]
    BY <1>13, <2>3, <2>5, <2>6
  <2>8. [i \in DOMAIN words |-> Named(words[i], heap')] = names
    BY <2>5, <2>6, <2>7
  <2> QED BY <2>2, <2>8
<1>15. NodeAt(clo, heap', code') = lnode
  <2>1. code'[f] = words
    BY <1>2, <1>3, <1>4
  <2>2. FieldsIn(heap'[clo], code') = words /\ heap'[clo].tag = "closure"
    BY <1>4, <1>6, <1>7, <2>1 DEF FieldsIn
  <2>3. lnode = [tag |-> "closure", fields |-> lnode.fields]
    BY DEF lnode, Graph!LinkedNode
  <2> QED BY <1>14, <2>2, <2>3 DEF NodeAt
<1>16. ASSUME NEW a \in DOMAIN heap, a # clo
       PROVE  NodeAt(a, heap', code') = NodeAt(a, heap, code)
  <2>1. heap'[a] = heap[a]
    BY <1>7, <1>16
  <2>2. heap[a].info # NoFun => heap[a].info \in Funs /\ heap[a].info # f
    <3>1. heap[a].info # NoFun => CodeOK(heap[a].info, heap, code)
      BY <1>3 DEF IInv, WordsOK, ObjectOK
    <3> QED BY <1>4, <3>1, EmptySeq DEF CodeOK
  <2>3. \A h \in Funs : h # f => code'[h] = code[h]
    BY <1>2, <1>3, <1>4
  <2>4. FieldsIn(heap'[a], code') = FieldsIn(heap[a], code)
    BY <2>1, <2>2, <2>3 DEF FieldsIn
  <2> QED BY <1>3, <1>8, <2>1, <2>4, OldNode
<1>17. rs[q.dst].upper = heap[clo].oid
  BY <1>3, <1>5, <1>9, NameTag DEF RootsOf, clo
<1>18. GraphOf(heap', code')
         = [x \in DOMAIN g \cup {id} |->
              IF x = id THEN node ELSE IF x = rs[q.dst].upper THEN lnode ELSE g[x]]
  <2> DEFINE k == [x \in DOMAIN g \cup {id} |->
                     IF x = id THEN node
                     ELSE IF x = rs[q.dst].upper THEN lnode ELSE g[x]]
  <2>1. DOMAIN g = Oids(heap)
    BY <1>9 DEF GraphOf
  <2>2. /\ k = [x \in Oids(heap') |-> k[x]] /\ k[id] = node
        /\ \A x \in Oids(heap) :
             k[x] = IF x = heap[clo].oid THEN lnode ELSE g[x]
    BY <1>8, <1>17, <2>1
  <2> HIDE DEF k
  <2>3. ASSUME NEW a \in Unmarked(heap') PROVE k[heap'[a].oid] = NodeAt(a, heap', code')
    <3>1. CASE a = heapPtr
      BY <1>8, <2>2, <3>1
    <3>2. CASE a = clo
      <4>1. heap[clo].oid \in Oids(heap) /\ heap'[a].oid = heap[clo].oid
        BY <1>3, <1>5, <1>6, <1>7, <1>8, <3>2, NodeOfObject
      <4> QED BY <1>15, <2>2, <3>2, <4>1
    <3>3. CASE a # heapPtr /\ a # clo
      <4>1. a \in DOMAIN heap /\ heap'[a] = heap[a]
        BY <1>7, <1>8, <3>3
      <4>2. NodeAt(a, heap', code') = NodeAt(a, heap, code)
        BY <1>16, <3>3, <4>1
      <4>3. heap[a].oid \in Oids(heap) /\ g[heap[a].oid] = NodeAt(a, heap, code)
        BY <1>3, <1>8, <1>9, <4>1, NodeOfObject
      <4>4. heap[a].oid # heap[clo].oid
        BY <1>3, <1>5, <1>8, <3>3, <4>1 DEF Identities
      <4> QED BY <2>2, <4>1, <4>2, <4>3, <4>4
    <3> QED BY <3>1, <3>2, <3>3
  <2>4. GraphOf(heap', code') = k
    BY <1>8, <2>2, <2>3, GraphIs
  <2> QED BY <2>4 DEF k
<1>19. RootsOf(roots', heap') = rs
  <2>1. \A r \in Roots : Named(roots[r], heap') = Named(roots[r], heap)
    BY <1>3, <1>8, WordsPoint
  <2> QED BY <1>2, <1>9, <2>1 DEF RootsOf
<1>20. /\ ~(pc = "exhausted") /\ (pc = "exhausted")' = (pc = "exhausted")
       /\ id \in Ids \ DOMAIN g
  BY <1>1, <1>8, <1>9 DEF GraphOf
<1>21. Graph!MayRequest(q)
  BY <1>3, MayRequestNode
<1>22. \E o \in Ids \ DOMAIN g :
         /\ GraphOf(heap', code')
              = [x \in DOMAIN g \cup {o} |->
                   IF x = o THEN node
                   ELSE IF x = rs[q.dst].upper
                        THEN Graph!LinkedNode(q, Graph!Pointer("vector", o))
                        ELSE g[x]]
         /\ RootsOf(roots', heap') = rs
  BY <1>18, <1>19, <1>20 DEF lnode, vec
<1>23. Graph!New(q)
  BY <1>20, <1>21, <1>22, ViewAfter DEF Graph!New, node, rs, g
<1> QED BY <1>8, <1>23

-----------------------------------------------------------------------------
(***************************************************************************)
(* The refinement.                                                         *)
(***************************************************************************)
\* The empty heap is the empty graph.
LEMMA InitialGraph == Init => Identities(heap) /\ Graph!Init
<1> SUFFICES ASSUME Init PROVE Identities(heap) /\ Graph!Init
  OBVIOUS
<1>1. /\ DOMAIN heap = {} /\ ~(pc = "exhausted")
      /\ roots = [r \in Roots |-> IF r = InternTable THEN Nil ELSE Null]
  BY DEF Init
<1>2. Identities(heap) /\ Current = {}
  BY <1>1 DEF Identities, Unmarked, Current
<1>3. [o \in {heap[a].oid : a \in Current} |-> AbsNode(o)] = [o \in {} |-> <<>>]
  BY <1>2
<1>4. Graph!Nil = Nil /\ Graph!Null = Null /\ AbsWord(Nil) = Nil /\ AbsWord(Null) = Null
  BY DEF Nil, Null, Graph!Nil, Graph!Null, AbsWord, IsHeapAllocated, HeapTags
<1>5. [r \in Roots |-> AbsWord(roots[r])]
        = [r \in Roots |-> IF r = InternTable THEN Graph!Nil ELSE Graph!Null]
  BY <1>1, <1>4
<1> QED BY <1>1, <1>2, <1>3, <1>5 DEF Graph!Init

\* A step that changes no word, no object and no outcome is not seen.
LEMMA Stutters ==
  ASSUME GraphInv, UNCHANGED <<roots, heap, code>>,
         (pc = "exhausted")' = (pc = "exhausted")
  PROVE  Identities(heap') /\ UNCHANGED Graph!vars
<1>1. SameView
  BY DEF SameView, RootsOf, GraphOf, NodeAt, FieldsIn, Named, Oids, Unmarked
<1> QED BY <1>1, Unseen DEF GraphInv, Identities, Unmarked

\* Every request that is granted is a New.
LEMMA RequestIsNew ==
  ASSUME GraphInv, pc \in {"mutator", "check"}, NEW q \in Requests, MayRequest(q),
         Place(q), pc' = "mutator"
  PROVE  Identities(heap') /\ [Graph!Next]_Graph!vars
<1>1. Identities(heap') /\ Graph!New(q)
  BY ObjectIsNew, FunctionIsNew
<1> QED BY <1>1 DEF Graph!Next

\* A step of a client is a step of the graph, or starts a collection.
LEMMA MutatorImplements ==
  ASSUME GraphInv, Mutator
  PROVE  Identities(heap') /\ [Graph!Next]_Graph!vars
<1> DEFINE rs == [r \in Roots |-> AbsWord(roots[r])]
<1>1. /\ ClientRoots \subseteq Roots /\ InternTable \in Roots
      /\ \A r \in Roots : rs[r] = Named(roots[r], heap)
  BY RootsAssumption DEF ClientRoots, AbsWord, Named
<1>2. ASSUME NEW q \in Requests, AllocFast(q)
      PROVE  Identities(heap') /\ [Graph!Next]_Graph!vars
  BY <1>2, RequestIsNew DEF AllocFast
<1>3. ASSUME NEW q \in Requests, AllocSlow(q)
      PROVE  Identities(heap') /\ [Graph!Next]_Graph!vars
  BY <1>3, Stutters DEF AllocSlow
<1>4. ASSUME NEW dst \in Roots, NEW src \in Roots, Put(dst, roots[src])
      PROVE  Identities(heap') /\ [Graph!Next]_Graph!vars
  <2>1. Identities(heap') /\ Graph!Put(dst, Named(roots[src], heap))
    BY <1>4, PutIsPut
  <2>2. Graph!Put(dst, rs[src])
    BY <1>1, <2>1
  <2> QED BY <2>1, <2>2 DEF Graph!Next
<1>5. ASSUME NEW dst \in ClientRoots, Put(dst, Null)
      PROVE  Identities(heap') /\ [Graph!Next]_Graph!vars
  <2>1. Identities(heap') /\ Graph!Put(dst, Named(Null, heap)) /\ dst \in Roots
    BY <1>1, <1>5, PutIsPut
  <2>2. Named(Null, heap) = Graph!Null
    BY DEF Named, Null, Graph!Null, IsHeapAllocated, HeapTags
  <2> QED BY <2>1, <2>2 DEF Graph!Next
<1>6. ASSUME NEW src \in ClientRoots, InternTablePut(src)
      PROVE  Identities(heap') /\ [Graph!Next]_Graph!vars
  BY <1>1, <1>4, <1>6 DEF InternTablePut
<1>7. ASSUME NEW dst \in ClientRoots, NEW src \in Roots, Load(dst, src)
      PROVE  Identities(heap') /\ [Graph!Next]_Graph!vars
  BY <1>1, <1>7, LoadIsLoad DEF Graph!Next
<1>8. ASSUME NEW obj \in ClientRoots, NEW src \in ClientRoots, Store(obj, src)
      PROVE  Identities(heap') /\ [Graph!Next]_Graph!vars
  BY <1>1, <1>8, StoreIsStore DEF Graph!Next
<1> HIDE DEF rs
<1> QED BY <1>1, <1>2, <1>3, <1>4, <1>5, <1>6, <1>7, <1>8 DEF Mutator

\* A step of the collector is not seen, unless it ends the collection.
LEMMA CollectorImplements ==
  ASSUME GraphInv, Collector
  PROVE  Identities(heap') /\ [Graph!Next]_Graph!vars
<1>1. CASE ScavengeSkip
  BY <1>1, Stutters DEF ScavengeSkip
<1>2. CASE ScavengeForward
  BY <1>2, ForwardUnseen, Unseen
<1>3. CASE ScavengeCopy
  BY <1>3, CopyUnseen, Unseen
<1>4. CASE ScavengeConsts
  BY <1>4, Stutters DEF ScavengeConsts
<1>5. CASE Flip
  BY <1>5, FlipReclaims, FlipIsReclaim DEF Graph!Next
<1>6. CASE AllocRetry
  BY <1>6, RequestIsNew DEF AllocRetry, GraphInv, IInv, RequestOK
<1>7. CASE Exit
  <2>1. /\ pc = "check" /\ pc' = "exhausted" /\ UNCHANGED <<roots, heap, code>>
    BY <1>7 DEF Exit
  <2>2. RootsOf(roots', heap') = RootsOf(roots, heap)
        /\ GraphOf(heap', code') = GraphOf(heap, code)
    BY <2>1
  <2>3. Graph!Exit
    BY <2>1, <2>2, View, ViewAfter DEF Graph!Exit
  <2> QED BY <2>1, <2>3 DEF Graph!Next, GraphInv
<1> QED BY <1>1, <1>2, <1>3, <1>4, <1>5, <1>6, <1>7 DEF Collector

\* Every step of the heap is a step of the graph, or a stutter.
LEMMA StepImplements ==
  GraphInv /\ [Next]_vars => Identities(heap') /\ [Graph!Next]_Graph!vars
<1> SUFFICES ASSUME GraphInv, [Next]_vars
             PROVE  Identities(heap') /\ [Graph!Next]_Graph!vars
  OBVIOUS
<1>1. CASE Next
  BY <1>1, MutatorImplements, CollectorImplements DEF Next
<1>2. CASE UNCHANGED vars
  BY <1>2, Stutters DEF vars
<1> QED BY <1>1, <1>2

\* No two objects that stand for themselves ever share an identity, and a
\* copy always has the identity of its original.
THEOREM IdentitiesKept == Spec => []GraphInv
<1>1. Init => GraphInv
  BY InitIInv, InitialGraph DEF GraphInv
<1>2. GraphInv /\ [Next]_vars => GraphInv'
  BY NextIInv, StepImplements DEF GraphInv, Identities, Unmarked
<1> QED BY <1>1, <1>2, PTL DEF Spec

\* Heap implements ObjectGraph: clients cannot tell the copying collector from
\* one that does nothing but drop objects that no root leads to.
THEOREM GraphImplementation == Spec => ImplementsObjectGraph
BY InitialGraph, StepImplements, IdentitiesKept, PTL
   DEF Spec, ImplementsObjectGraph, Graph!Spec

-----------------------------------------------------------------------------
(***************************************************************************)
(* What survives a collection.                                             *)
(*                                                                         *)
(* A set of objects encloses the heap when the roots lead into it and its  *)
(* objects lead nowhere else, where a marked original leads to its copy.   *)
(* While a collection runs every such set holds every copy; so when it is  *)
(* over, every object that is left is reachable.                           *)
(***************************************************************************)
LeadsInto(a, keep) ==
  IF heap[a].mark THEN heap[a].copiedTo \in keep
  ELSE \A i \in DOMAIN FieldsIn(heap[a], code) :
         IsHeapAllocated(FieldsIn(heap[a], code)[i]) =>
           FieldsIn(heap[a], code)[i].upper \in keep

Encloses(keep) ==
  /\ \A r \in Roots : IsHeapAllocated(roots[r]) => roots[r].upper \in keep
  /\ \A a \in keep : LeadsInto(a, keep)

NoGarbage ==
  pc # "mutator" =>
    \A keep \in SUBSET DOMAIN heap :
      Encloses(keep) =>
        \A a \in DOMAIN heap : (pc = "scavenge" => InToSpace(a)) => a \in keep

\* The code that is still to be scavenged is the code of a copied closure.
TracedWork ==
  pc = "scavenge" =>
    \A l : Mem(l, work) /\ l[1] \in {"code", "consts"} =>
      \E a \in DOMAIN heap : InToSpace(a) /\ heap[a].info = l[2]

\* There are no holes: every unit below an allocation pointer is in use.
Occupied(u) == \E a \in DOMAIN heap : a <= u /\ u < a + heap[a].size

Tiled ==
  /\ \A u \in fromSpace..(heapPtr - 1) : Occupied(u)
  /\ pc = "scavenge" => \A u \in toSpace..(heapCopyPtr - 1) : Occupied(u)

Refusal == pc = "exhausted" => req \in Requests /\ Exhausted

FullInv ==
  /\ IInv
  /\ NoGarbage
  /\ TracedWork
  /\ Tiled
  /\ Refusal

\* The word w at the head of the work becomes the address u of the copy at b
\* of its object, which is made in this step if it was not there yet.
Moved(loc, w, u, h, b) ==
  /\ Renamed(loc, w, u, h, b)
  /\ pc = "scavenge" /\ pc' = pc /\ toSpace' = toSpace /\ fromSpace' = fromSpace
  /\ heapPtr' = heapPtr /\ req' = req
  /\ h[w.upper].mark /\ h[w.upper].copiedTo = b
  /\ \A x \in DOMAIN heap : x # w.upper => h[x] = heap[x]
  /\ \A x \in DOMAIN heap : h[x].size = heap[x].size
  /\ DOMAIN h = DOMAIN heap \cup {b}
  /\ ~h[b].mark /\ InToSpace(b) /\ ~InToSpace(w.upper)
  /\ heap[w.upper].mark => b \in DOMAIN heap /\ heap[w.upper].copiedTo = b
  /\ ~heap[w.upper].mark => b \notin DOMAIN heap /\ h[b] = heap[w.upper]

\* What encloses the heap after such a step enclosed it before, with the
\* originals of the copies that are in it.
LEMMA MovedEncloses ==
  ASSUME IInv, NEW loc, NEW w, NEW u, NEW h, NEW b, Moved(loc, w, u, h, b),
         NEW kept \in SUBSET DOMAIN heap', Encloses(kept)',
         NEW keep,
         keep = {x \in DOMAIN heap :
                   x \in kept \/ (heap'[x].mark /\ heap'[x].copiedTo \in kept)}
  PROVE  Encloses(keep)
<1> DEFINE a == w.upper
<1>1. /\ Renamed(loc, w, u, h, b) /\ IsHeapAllocated(w) /\ a \in DOMAIN heap
      /\ u = Pointer(w.tag, b) /\ IsHeapAllocated(u) /\ u.upper = b
  <2>1. Renamed(loc, w, u, h, b) /\ w = Read(Head(work))
    BY DEF Moved, Renamed
  <2>2. a \in DOMAIN heap
    BY <2>1, ReadWord DEF Renamed
  <2> QED BY <2>1, <2>2 DEF Renamed, Pointer, IsHeapAllocated
<1>2. /\ DOMAIN heap' = DOMAIN heap \cup {b}
      /\ heap'[a].mark /\ heap'[a].copiedTo = b /\ ~heap'[b].mark
      /\ \A x \in DOMAIN heap : x # a =>
           heap'[x].mark = heap[x].mark /\ heap'[x].copiedTo = heap[x].copiedTo
  BY <1>1, WrittenWords DEF Moved
<1>3. heap[a].mark => heap[a].copiedTo = b /\ b \in DOMAIN heap
  BY DEF Moved
<1>4. a \in keep <=> b \in kept
  <2>1. a \in kept => b \in kept
    BY <1>2 DEF Encloses, LeadsInto
  <2> QED BY <1>1, <1>2, <2>1
<1>5. ASSUME NEW v, NEW v1, v1 = v \/ (v = w /\ v1 = u),
             IsHeapAllocated(v) => v.upper \in DOMAIN heap,
             IsHeapAllocated(v1) => v1.upper \in kept, IsHeapAllocated(v)
      PROVE  v.upper \in keep
  BY <1>1, <1>4, <1>5
<1>6. ASSUME NEW r \in Roots, IsHeapAllocated(roots[r]) PROVE roots[r].upper \in keep
  <2>1. roots'[r] = roots[r] \/ (roots[r] = w /\ roots'[r] = u)
    BY <1>1, WrittenWords
  <2>2. IsHeapAllocated(roots'[r]) => roots'[r].upper \in kept
    BY DEF Encloses
  <2> QED BY <1>5, <1>6, <2>1, <2>2, WordsPoint
<1>7. ASSUME NEW x \in keep, heap[x].mark PROVE heap[x].copiedTo \in keep
  <2>1. heap'[x].mark /\ heap'[x].copiedTo = heap[x].copiedTo
    BY <1>2, <1>3, <1>7
  <2>2. heap'[x].copiedTo \in kept
    BY <2>1 DEF Encloses, LeadsInto
  <2>3. heap[x].copiedTo \in DOMAIN heap
    BY <1>7 DEF IInv, Marks
  <2> QED BY <2>1, <2>2, <2>3
<1>8. ASSUME NEW x \in keep, ~heap[x].mark,
             NEW i \in DOMAIN FieldsIn(heap[x], code),
             IsHeapAllocated(FieldsIn(heap[x], code)[i])
      PROVE  FieldsIn(heap[x], code)[i].upper \in keep
  <2> DEFINE y == IF x = a THEN b ELSE x
  <2>1. y \in kept /\ ~heap'[y].mark
    BY <1>2, <1>4, <1>8
  <2>2. /\ y \in DOMAIN h /\ h[y].fields = heap[x].fields /\ h[y].info = heap[x].info
        /\ x \in DOMAIN heap
    BY <1>1, <1>8 DEF Moved, Renamed
  <2>3. heap[x].info # NoFun => heap[x].info \in Funs
    BY <2>2, LinkedFuns
  <2>4. /\ DOMAIN FieldsIn(heap'[y], code') = DOMAIN FieldsIn(heap[x], code)
        /\ \/ FieldsIn(heap'[y], code')[i] = FieldsIn(heap[x], code)[i]
           \/ /\ FieldsIn(heap[x], code)[i] = w
              /\ FieldsIn(heap'[y], code')[i] = u
    BY <1>1, <1>8, <2>2, <2>3, WrittenWords DEF FieldsIn
  <2>5. IsHeapAllocated(FieldsIn(heap'[y], code')[i]) =>
          FieldsIn(heap'[y], code')[i].upper \in kept
    BY <1>8, <2>1, <2>4 DEF Encloses, LeadsInto
  <2>6. FieldsIn(heap[x], code)[i].upper \in DOMAIN heap
    BY <1>8, <2>2, WordsPoint
  <2> QED BY <1>5, <1>8, <2>4, <2>5, <2>6
<1> QED BY <1>6, <1>7, <1>8 DEF Encloses, LeadsInto

\* Copies are never marked.
LEMMA CopiesUnmarked ==
  ASSUME IInv, NEW x \in DOMAIN heap, InToSpace(x)
  PROVE  ~heap[x].mark
<1>1. heap[x].size \in Nat /\ heap[x].size >= 1 /\ x \in Nat /\ HeapSize \in Nat
      /\ heapPtr \in Nat /\ heapPtr <= fromSpace + HeapSize
  BY HeapSizeAssumption DEF IInv, TypeOK, Object, Layout
<1> SUFFICES ASSUME InFrom(x) PROVE FALSE
  BY DEF IInv, Marks
<1> QED BY <1>1, TwoSpaces DEF IInv, InFrom, Within, InToSpace, InSpace

\* A collection that copies only what the work leads to copies no garbage.
LEMMA MovedNoGarbage ==
  ASSUME FullInv, NEW loc, NEW w, NEW u, NEW h, NEW b, Moved(loc, w, u, h, b)
  PROVE  NoGarbage'
<1> SUFFICES ASSUME NEW kept \in SUBSET DOMAIN heap', Encloses(kept)',
                    NEW x \in DOMAIN heap', InToSpace(x)
             PROVE  x \in kept
  <2>1. pc = "scavenge" /\ pc' = pc /\ toSpace' = toSpace
    BY DEF Moved
  <2> QED BY <2>1 DEF NoGarbage, InToSpace, InSpace
<1> DEFINE keep == {y \in DOMAIN heap :
                      y \in kept \/ (heap'[y].mark /\ heap'[y].copiedTo \in kept)}
<1>1. Encloses(keep)
  BY MovedEncloses DEF FullInv
<1>2. /\ IInv /\ pc = "scavenge" /\ Renamed(loc, w, u, h, b)
      /\ u = Pointer(w.tag, b) /\ IsHeapAllocated(u) /\ u.upper = b
  BY DEF FullInv, Moved, Renamed, Pointer, IsHeapAllocated
<1>3. ASSUME NEW y \in DOMAIN heap, InToSpace(y)
      PROVE  y \in kept /\ ~heap'[y].mark /\ heap'[y].info = heap[y].info
  <2>1. y \in keep
    BY <1>1, <1>2, <1>3 DEF FullInv, NoGarbage
  <2>2. ~heap[y].mark
    BY <1>2, <1>3, CopiesUnmarked
  <2>3. /\ heap'[y].info = h[y].info /\ h[y].info = heap[y].info
        /\ heap'[y].mark = h[y].mark
    BY <1>2, WrittenWords DEF Renamed
  <2>4. h[y] = heap[y]
    BY <1>3 DEF Moved
  <2> QED BY <2>1, <2>2, <2>3, <2>4
<1>4. b \in kept
  <2>1. /\ ValidLocation(loc) /\ w = Read(loc) /\ loc[1] \in {"root", "field", "code"}
        /\ WriteTo(loc, u, h) /\ HeapType(h) /\ code \in [Funs -> Seq(Word)]
        /\ roots \in [Roots -> Word] /\ DOMAIN heap \subseteq DOMAIN h
    BY <1>2, ReadWord DEF Renamed, Scavenging, Locations, IInv, TypeOK
  <2>2. CASE loc[1] = "root"
    <3>1. loc[2] \in Roots /\ roots'[loc[2]] = u
      BY <2>1, <2>2 DEF WriteTo, ValidLocation
    <3> QED BY <1>2, <3>1 DEF Encloses
  <2>3. CASE loc[1] = "field"
    <3> DEFINE y == loc[2]
               i == loc[3]
    <3>1. y \in DOMAIN heap /\ InToSpace(y) /\ i \in DOMAIN heap[y].fields
      BY <2>1, <2>3 DEF ValidLocation
    <3>2. heap' = FieldSet(h, y, i, u) /\ h[y] \in Object /\ h \in [DOMAIN h -> Object]
          /\ y \in DOMAIN h /\ h[y].fields = heap[y].fields
      BY <1>2, <2>1, <2>3, <3>1 DEF WriteTo, FieldSet, HeapType, Renamed
    <3>3. heap'[y].fields[i] = u /\ i \in DOMAIN heap'[y].fields
      <4> DEFINE fs == [h[y].fields EXCEPT ![i] = u]
                 o == [h[y] EXCEPT !.fields = fs]
      <4>1. fs[i] = u /\ i \in DOMAIN fs
        BY <3>1, <3>2, FieldsAreWords
      <4>2. heap' = [h EXCEPT ![y] = o]
        BY <3>2 DEF FieldSet
      <4> HIDE DEF fs
      <4>3. o.fields = fs
        BY <3>2 DEF Object
      <4> HIDE DEF o
      <4>4. heap'[y] = o
        BY <3>2, <4>2
      <4> QED BY <4>1, <4>3, <4>4
    <3>4. heap'[y].info = NoFun
      <4>1. ObjectOK(heap[y], heap, code) /\ heap[y] \in Object
        BY <1>2, <3>1 DEF IInv, WordsOK, TypeOK
      <4>2. heap[y].fields # <<>>
        BY <3>1, <4>1, FieldsAreWords, EmptySeq
      <4> QED BY <1>3, <3>1, <4>1, <4>2 DEF ObjectOK
    <3>5. y \in kept /\ ~heap'[y].mark
      BY <1>3, <3>1
    <3>6. LeadsInto(y, kept)'
      BY <3>5 DEF Encloses
    <3> QED BY <1>2, <3>3, <3>4, <3>5, <3>6 DEF LeadsInto, FieldsIn
  <2>4. CASE loc[1] = "code"
    <3> DEFINE f == loc[2]
               i == loc[3]
    <3>1. f \in Funs /\ i \in DOMAIN code[f] /\ f # NoFun
      BY <1>2, <2>1, <2>4, LinkedFuns DEF ValidLocation, Linked
    <3>2. code'[f][i] = u /\ i \in DOMAIN code'[f]
      BY <2>1, <2>4, <3>1 DEF WriteTo
    <3>3. PICK y \in DOMAIN heap : InToSpace(y) /\ heap[y].info = f
      <4>1. Mem(loc, work)
        <5>1. work \in Seq(Location) /\ work # <<>> /\ loc = Head(work)
          BY <1>2 DEF Renamed, Scavenging, IInv, TypeOK
        <5> QED BY <5>1, MemTail
      <4> QED BY <1>2, <2>4, <4>1 DEF FullInv, TracedWork
    <3>4. y \in kept /\ ~heap'[y].mark /\ heap'[y].info = f
      BY <1>3, <3>3
    <3>5. LeadsInto(y, kept)'
      BY <3>4 DEF Encloses
    <3> QED BY <1>2, <3>1, <3>2, <3>4, <3>5 DEF LeadsInto, FieldsIn
  <2> QED BY <2>1, <2>2, <2>3, <2>4
<1>5. x \in DOMAIN heap \/ x = b
  <2>1. DOMAIN heap' = DOMAIN h
    BY <1>2, WrittenWords
  <2> QED BY <2>1 DEF Moved
<1> QED BY <1>3, <1>4, <1>5

\* Forwarding a word is such a step.
LEMMA ForwardMoves ==
  ASSUME GraphInv, ScavengeForward,
         NEW loc, loc = Head(work), NEW w, w = Read(loc),
         NEW b, b = heap[w.upper].copiedTo, NEW u, u = Pointer(w.tag, b)
  PROVE  Moved(loc, w, u, heap, b)
<1>1. /\ Scavenging(Locations) /\ pc = "scavenge" /\ pc' = pc
      /\ IsHeapAllocated(w) /\ heap[w.upper].mark /\ WriteTo(loc, u, heap)
      /\ toSpace' = toSpace /\ fromSpace' = fromSpace /\ heapPtr' = heapPtr
      /\ req' = req
  BY DEF ScavengeForward, Scavenging, spaces
<1>2. IInv /\ Identities(heap) /\ w.upper \in DOMAIN heap
  BY <1>1, ReadWord DEF GraphInv
<1>3. b \in DOMAIN heap /\ InToSpace(b) /\ HeapType(heap)
      /\ heap[b].oid = heap[w.upper].oid
  BY <1>1, <1>2 DEF IInv, Marks, TypeOK, HeapType, Identities
<1>4. ~heap[b].mark /\ ~InToSpace(w.upper)
  BY <1>1, <1>2, <1>3, CopiesUnmarked
<1> QED BY <1>1, <1>2, <1>3, <1>4 DEF Moved, Renamed

\* Copying an object is such a step.
LEMMA CopyMoves ==
  ASSUME GraphInv, ScavengeCopy,
         NEW loc, loc = Head(work), NEW w, w = Read(loc),
         NEW b, b = heapCopyPtr, NEW u, u = Pointer(w.tag, b),
         NEW h, h = CopiedHeap(w.upper, b)
  PROVE  Moved(loc, w, u, h, b)
<1> DEFINE a == w.upper
<1>1. /\ Scavenging(Locations) /\ pc = "scavenge" /\ pc' = pc
      /\ ~heap[a].mark /\ WriteTo(loc, u, h) /\ IInv
      /\ toSpace' = toSpace /\ fromSpace' = fromSpace /\ heapPtr' = heapPtr
      /\ req' = req
  BY DEF ScavengeCopy, Scavenging, GraphInv
<1>2. /\ IsHeapAllocated(w) /\ a \in DOMAIN heap /\ b \notin DOMAIN heap
      /\ InToSpace(b) /\ ~InToSpace(a)
  BY <1>1, CopyPlace DEF ScavengeCopy, NeedsNoWork
<1>3. heap \in [DOMAIN heap -> Object] /\ DOMAIN heap \subseteq Nat /\ b \in Nat
  BY <1>1 DEF IInv, TypeOK
<1>4. /\ DOMAIN h = DOMAIN heap \cup {b} /\ h[b] = heap[a]
      /\ h[a] = [heap[a] EXCEPT !.mark = TRUE, !.copiedTo = b]
      /\ \A x \in DOMAIN heap : x # a => h[x] = heap[x]
      /\ h = [x \in DOMAIN heap \cup {b} |-> h[x]]
  BY <1>2 DEF CopiedHeap
<1> HIDE DEF a
<1>8. a \in DOMAIN h /\ heap[a] \in Object
  BY <1>2, <1>3, <1>4
<1>5. /\ h[a] \in Object /\ h[a].mark /\ h[a].copiedTo = b
      /\ h[a].fields = heap[a].fields /\ h[a].info = heap[a].info
      /\ h[a].tag = heap[a].tag /\ h[a].oid = heap[a].oid /\ h[a].size = heap[a].size
  BY <1>3, <1>4, <1>8 DEF Object
<1>6. HeapType(h)
  BY <1>2, <1>3, <1>4, <1>5 DEF HeapType
<1>7. Renamed(loc, w, u, h, b)
  BY <1>1, <1>2, <1>4, <1>5, <1>6 DEF Renamed, a
<1> QED BY <1>1, <1>2, <1>4, <1>5, <1>7 DEF Moved, a

\* Such a step moves no object that is there.
LEMMA MovedSizes ==
  ASSUME IInv, NEW loc, NEW w, NEW u, NEW h, NEW b, Moved(loc, w, u, h, b)
  PROVE  /\ DOMAIN heap' = DOMAIN heap \cup {b}
         /\ \A x \in DOMAIN heap : /\ heap'[x].size = heap[x].size
                                   /\ heap'[x].info = heap[x].info
<1>1. /\ DOMAIN heap' = DOMAIN h
      /\ \A x \in DOMAIN h : heap'[x].size = h[x].size /\ heap'[x].info = h[x].info
  BY WrittenWords DEF Moved
<1> QED BY <1>1 DEF Moved, Renamed

\* What is below the allocation pointers stays in use.
LEMMA StillOccupied ==
  ASSUME DOMAIN heap \subseteq DOMAIN heap',
         \A x \in DOMAIN heap : heap'[x].size = heap[x].size,
         NEW v, Occupied(v)
  PROVE  Occupied(v)'
BY DEF Occupied

\* The holders of the code still to be scavenged stay.
LEMMA StillTraced ==
  ASSUME FullInv, pc = "scavenge", toSpace' = toSpace,
         DOMAIN heap \subseteq DOMAIN heap',
         \A x \in DOMAIN heap : heap'[x].info = heap[x].info,
         \A l : Mem(l, work') /\ l[1] \in {"code", "consts"} =>
           \/ Mem(l, work)
           \/ \E a \in DOMAIN heap : InToSpace(a) /\ heap[a].info = l[2]
           \/ \E a \in DOMAIN heap' : InToSpace(a) /\ heap'[a].info = l[2]
  PROVE  TracedWork'
<1> SUFFICES ASSUME NEW l, Mem(l, work'), l[1] \in {"code", "consts"}
             PROVE  \E a \in DOMAIN heap' : InToSpace(a)' /\ heap'[a].info = l[2]
  BY DEF TracedWork
<1>1. \A a : InToSpace(a)' <=> InToSpace(a)
  BY DEF InToSpace, InSpace
<1>2. CASE \E a \in DOMAIN heap' : InToSpace(a) /\ heap'[a].info = l[2]
  BY <1>1, <1>2
<1>3. CASE \E a \in DOMAIN heap : InToSpace(a) /\ heap[a].info = l[2]
  BY <1>1, <1>3
<1>4. CASE Mem(l, work)
  BY <1>1, <1>4 DEF FullInv, TracedWork
<1> QED BY <1>2, <1>3, <1>4

\* Taking the head off the work.
LEMMA WorkLess ==
  ASSUME IInv, work # <<>>
  PROVE  /\ Mem(Head(work), work)
         /\ Tail(work) \in Seq(Location)
         /\ \A l : Mem(l, Tail(work)) => Mem(l, work)
<1>1. work \in Seq(Location)
  BY DEF IInv, TypeOK
<1> QED BY <1>1, MemTail

\* Forwarding a word keeps garbage out.
LEMMA ForwardFull ==
  ASSUME FullInv, GraphInv, ScavengeForward
  PROVE  NoGarbage' /\ TracedWork' /\ Tiled' /\ Refusal'
<1> DEFINE loc == Head(work)
           w == Read(loc)
           b == heap[w.upper].copiedTo
           u == Pointer(w.tag, b)
<1>1. /\ pc = "scavenge" /\ pc' = pc /\ work # <<>> /\ work' = Tail(work)
      /\ UNCHANGED spaces /\ heap[w.upper].mark /\ IInv
  BY DEF ScavengeForward, Scavenging, FullInv
<1> HIDE DEF loc, w, b, u
<1>2. Moved(loc, w, u, heap, b)
  BY ForwardMoves DEF loc, w, b, u
<1>3. /\ DOMAIN heap' = DOMAIN heap
      /\ \A x \in DOMAIN heap : heap'[x].size = heap[x].size /\ heap'[x].info = heap[x].info
  <2>1. b \in DOMAIN heap
    BY <1>1, ReadWord DEF IInv, Marks, ScavengeForward, b, w, loc
  <2>2. DOMAIN heap' = DOMAIN heap \cup {b}
    BY <1>1, <1>2, MovedSizes
  <2>3. \A x \in DOMAIN heap : heap'[x].size = heap[x].size /\ heap'[x].info = heap[x].info
    BY <1>1, <1>2, MovedSizes
  <2> QED BY <2>1, <2>2, <2>3
<1>4. NoGarbage'
  BY <1>2, MovedNoGarbage
<1>5. TracedWork'
  BY <1>1, <1>3, WorkLess, StillTraced DEF spaces
<1>6. Tiled'
  BY <1>1, <1>3, StillOccupied DEF FullInv, Tiled, spaces
<1> QED BY <1>1, <1>4, <1>5, <1>6 DEF Refusal

\* Copying an object keeps garbage out: what leads to it was copied before.
LEMMA CopyFull ==
  ASSUME FullInv, GraphInv, ScavengeCopy
  PROVE  NoGarbage' /\ TracedWork' /\ Tiled' /\ Refusal'
<1> DEFINE loc == Head(work)
           w == Read(loc)
           a == w.upper
           b == heapCopyPtr
           u == Pointer(w.tag, b)
           h == CopiedHeap(a, b)
<1>1. /\ pc = "scavenge" /\ pc' = pc /\ work # <<>> /\ b = heapCopyPtr
      /\ work' = Interior(b, heap[a]) \o Tail(work)
      /\ fromSpace' = fromSpace /\ toSpace' = toSpace /\ heapPtr' = heapPtr
      /\ heapCopyPtr' = b + heap[a].size /\ ~heap[a].mark /\ IInv
  BY DEF ScavengeCopy, Scavenging, FullInv
<1>2. a \in DOMAIN heap /\ b \notin DOMAIN heap /\ InToSpace(b)
  BY <1>1, CopyPlace
<1> HIDE DEF loc, w, a, b, u, h
<1>3. Moved(loc, w, u, h, b)
  BY CopyMoves DEF loc, w, a, b, u, h
<1>9. a = w.upper
  BY DEF a
<1>4. /\ DOMAIN heap' = DOMAIN heap \cup {b}
      /\ \A x \in DOMAIN heap : heap'[x].size = heap[x].size /\ heap'[x].info = heap[x].info
      /\ heap'[b].size = heap[a].size /\ heap'[b].info = heap[a].info
  <2>1. Renamed(loc, w, u, h, b) /\ h[b] = heap[a] /\ b \in DOMAIN h
    BY <1>1, <1>3, <1>9 DEF Moved
  <2>2. heap'[b].size = h[b].size /\ heap'[b].info = h[b].info
    BY <1>1, <2>1, WrittenWords
  <2> QED BY <1>1, <1>3, <2>1, <2>2, MovedSizes
<1>5. NoGarbage'
  BY <1>3, MovedNoGarbage
<1>6. /\ heap[a] \in Object /\ b \in Nat /\ heapPtr \in Nat
      /\ fromSpace \in Nat /\ toSpace \in Nat /\ heap[a].size \in Nat
  BY <1>1, <1>2, TwoSpaces DEF IInv, TypeOK, Object
<1>7. TracedWork'
  <2>1. /\ Interior(b, heap[a]) \in Seq(Location)
        /\ \A l : Mem(l, Interior(b, heap[a])) /\ l[1] \in {"code", "consts"} =>
             l[2] = heap[a].info
    <3>1. /\ heap[a].info # NoFun => heap[a].info \in Funs
          /\ ObjectOK(heap[a], heap, code)
      BY <1>1, <1>2, LinkedFuns DEF IInv, WordsOK
    <3> QED BY <1>6, <3>1, InteriorOK DEF ObjectOK
  <2>2. ASSUME NEW l, Mem(l, work'), l[1] \in {"code", "consts"}
        PROVE  \/ Mem(l, work)
               \/ \E x \in DOMAIN heap' : InToSpace(x) /\ heap'[x].info = l[2]
    <3>1. Mem(l, Interior(b, heap[a])) \/ Mem(l, Tail(work))
      BY <1>1, <2>1, <2>2, WorkLess, MemConcat
    <3>2. CASE Mem(l, Tail(work))
      BY <1>1, <3>2, WorkLess
    <3>3. CASE Mem(l, Interior(b, heap[a]))
      BY <1>2, <1>4, <2>1, <2>2, <3>3
    <3> QED BY <3>1, <3>2, <3>3
  <2> QED BY <1>1, <1>4, <2>2, StillTraced
<1>8. Tiled'
  <2>1. ASSUME NEW v \in fromSpace..(heapPtr - 1) PROVE Occupied(v)'
    BY <1>4, StillOccupied DEF FullInv, Tiled
  <2>2. ASSUME NEW v \in toSpace..(b + heap[a].size - 1) PROVE Occupied(v)'
    <3>1. CASE v <= b - 1
      <4>1. Occupied(v)
        BY <1>1, <1>6, <3>1 DEF FullInv, Tiled
      <4> QED BY <1>4, <4>1, StillOccupied
    <3>2. CASE b <= v
      BY <1>4, <1>6, <3>2 DEF Occupied
    <3> QED BY <1>6, <3>1, <3>2
  <2>3. toSpace'..(heapCopyPtr' - 1) = toSpace..(b + heap[a].size - 1)
    BY <1>1, <1>6
  <2>4. fromSpace'..(heapPtr' - 1) = fromSpace..(heapPtr - 1)
    BY <1>1
  <2> QED BY <2>1, <2>2, <2>3, <2>4 DEF Tiled
<1> QED BY <1>1, <1>5, <1>7, <1>8 DEF Refusal

\* The constants to visit are those of a closure that was copied.
LEMMA ConstsFull ==
  ASSUME FullInv, ScavengeConsts
  PROVE  NoGarbage' /\ TracedWork' /\ Tiled' /\ Refusal'
<1> DEFINE f == Head(work)[2]
<1>1. /\ pc = "scavenge" /\ pc' = pc /\ work # <<>> /\ Head(work)[1] = "consts"
      /\ work' = ConstLocations(f) \o Tail(work)
      /\ UNCHANGED <<roots, heap, code, spaces>> /\ IInv
  BY DEF ScavengeConsts, Scavenging, FullInv
<1>2. Mem(Head(work), work)
  BY <1>1, WorkLess
<1>3. Linked(f)
  BY <1>1, <1>2 DEF IInv, WorkOK, ValidLocation
<1>4. ConstLocations(f) \in Seq(Location)
  BY <1>1, <1>3, ConstLocationsOK
<1>5. ASSUME NEW l, Mem(l, ConstLocations(f)) PROVE l[2] = f
  <2> DEFINE offsets == heap[code[f][2].upper].fields
  <2>1. ConstLocations(f)
          = [i \in 1..Len(offsets) |-> <<"code", f, 2 + offsets[i].upper>>]
    BY DEF ConstLocations
  <2> HIDE DEF f, offsets
  <2>2. PICK i \in 1..Len(offsets) : l = <<"code", f, 2 + offsets[i].upper>>
    BY <1>5, <2>1 DEF Mem
  <2> QED BY <2>2
<1>6. PICK a \in DOMAIN heap : InToSpace(a) /\ heap[a].info = f
  BY <1>1, <1>2 DEF FullInv, TracedWork
<1> HIDE DEF f
<1>7. TracedWork'
  <2>1. ASSUME NEW l, Mem(l, work') PROVE Mem(l, work) \/ l[2] = f
    BY <1>1, <1>4, <1>5, <2>1, WorkLess, MemConcat
  <2> QED BY <1>1, <1>6, <2>1, StillTraced DEF spaces
<1>8. NoGarbage'
  BY <1>1 DEF FullInv, NoGarbage, Encloses, LeadsInto, InToSpace, InSpace, spaces
<1>9. Tiled'
  BY <1>1 DEF FullInv, Tiled, Occupied, spaces
<1> QED BY <1>1, <1>7, <1>8, <1>9 DEF Refusal

\* A word that needs no work changes nothing.
LEMMA SkipFull ==
  ASSUME FullInv, ScavengeSkip
  PROVE  NoGarbage' /\ TracedWork' /\ Tiled' /\ Refusal'
<1>1. /\ pc = "scavenge" /\ pc' = pc /\ work # <<>> /\ work' = Tail(work)
      /\ UNCHANGED <<roots, heap, code, spaces>> /\ IInv
  BY DEF ScavengeSkip, Scavenging, FullInv
<1>2. TracedWork'
  BY <1>1, WorkLess, StillTraced DEF spaces
<1>3. NoGarbage'
  BY <1>1 DEF FullInv, NoGarbage, Encloses, LeadsInto, InToSpace, InSpace, spaces
<1>4. Tiled'
  BY <1>1 DEF FullInv, Tiled, Occupied, spaces
<1> QED BY <1>1, <1>2, <1>3, <1>4 DEF Refusal

\* Giving the old space up leaves the copies.
LEMMA FlipFull ==
  ASSUME FullInv, Flip
  PROVE  NoGarbage' /\ TracedWork' /\ Tiled' /\ Refusal'
<1>1. /\ pc = "scavenge" /\ pc' = "check" /\ roots' = roots /\ code' = code
      /\ DOMAIN heap' = {x \in DOMAIN heap : InToSpace(x)}
      /\ \A x \in DOMAIN heap' : heap'[x] = heap[x]
      /\ fromSpace' = toSpace /\ heapPtr' = heapCopyPtr /\ IInv
  BY DEF Flip, FullInv
<1>2. ASSUME NEW kept \in SUBSET DOMAIN heap', Encloses(kept)', NEW x \in DOMAIN heap'
      PROVE  x \in kept
  <2>1. \A y \in kept : LeadsInto(y, kept)
    BY <1>1, <1>2 DEF Encloses, LeadsInto
  <2>2. Encloses(kept) /\ kept \in SUBSET DOMAIN heap
    BY <1>1, <1>2, <2>1 DEF Encloses
  <2> QED BY <1>1, <2>2 DEF FullInv, NoGarbage
<1>3. NoGarbage'
  BY <1>1, <1>2 DEF NoGarbage
<1>4. Tiled'
  <2> SUFFICES ASSUME NEW v \in toSpace..(heapCopyPtr - 1) PROVE Occupied(v)'
    BY <1>1 DEF Tiled
  <2>1. PICK x \in DOMAIN heap : x <= v /\ v < x + heap[x].size
    BY <1>1 DEF FullInv, Tiled, Occupied
  <2>2. /\ x \in Nat /\ heap[x].size \in Nat /\ heapPtr \in Nat /\ heapCopyPtr \in Nat
        /\ toSpace <= heapCopyPtr /\ heapCopyPtr <= toSpace + HeapSize
        /\ heapPtr <= fromSpace + HeapSize /\ HeapSize \in Nat
        /\ InFrom(x) \/ InTo(x)
        /\ heap[x].size >= 1
    BY <1>1, CopyPtrBound, HeapSizeAssumption DEF IInv, TypeOK, Object, Layout
  <2>3. InToSpace(x)
    BY <1>1, <2>1, <2>2, TwoSpaces DEF IInv, InFrom, InTo, Within, InToSpace, InSpace
  <2> QED BY <1>1, <2>1, <2>3 DEF Occupied
<1> QED BY <1>1, <1>3, <1>4 DEF TracedWork, Refusal

\* A new object takes the units at the top and moves no other object.
LEMMA PlaceFull ==
  ASSUME FullInv, pc # "scavenge", NEW q \in Requests, MayRequest(q), Place(q),
         UNCHANGED <<fromSpace, toSpace>>, pc' = "mutator"
  PROVE  Tiled'
<1> DEFINE id == CHOOSE i \in Ids : i \notin UsedIds
           new == NewObject(q, id)
<1>1. IInv /\ id \in Ids
  BY DEF Place, FullInv
<1>2. new \in Object
  BY <1>1, NewObjectOK
<1>3. heapPtr' = heapPtr + new.size
  BY DEF Place
<1> HIDE DEF new
<1>4. /\ heap \in [DOMAIN heap -> Object] /\ heapPtr \in Nat /\ new.size \in Nat
      /\ heapPtr \notin DOMAIN heap /\ fromSpace \in Nat
  BY <1>1, <1>2, FreeAtTop, TwoSpaces DEF IInv, TypeOK, Object
<1>5. /\ DOMAIN heap' = DOMAIN heap \cup {heapPtr} /\ heap'[heapPtr].size = new.size
      /\ \A x \in DOMAIN heap : heap'[x].size = heap[x].size
  <2>1. CASE q.tag # "function"
    <3>1. heap' = [a \in DOMAIN heap \cup {heapPtr} |->
                     IF a = heapPtr THEN new ELSE heap[a]]
      BY <2>1, Zenon DEF Place, new
    <3> QED BY <1>4, <3>1
  <2>2. CASE q.tag = "function"
    <3> DEFINE f == CHOOSE g \in Funs : Unlinked(g)
               clo == roots[q.dst].upper
    <3>1. heap' = [a \in DOMAIN heap \cup {heapPtr} |->
                     IF a = heapPtr THEN new
                     ELSE IF a = clo THEN [heap[a] EXCEPT !.info = f]
                     ELSE heap[a]]
      BY <2>2, Zenon DEF Place, new
    <3> HIDE DEF f, clo
    <3>2. \A x \in DOMAIN heap : [heap[x] EXCEPT !.info = f].size = heap[x].size
      BY <1>4 DEF Object
    <3> QED BY <1>4, <3>1, <3>2
  <2> QED BY <2>1, <2>2
<1>6. ASSUME NEW v \in fromSpace..(heapPtr + new.size - 1) PROVE Occupied(v)'
  <2>1. CASE v <= heapPtr - 1
    <3>1. Occupied(v)
      BY <1>4, <2>1 DEF FullInv, Tiled
    <3> QED BY <1>5, <3>1, StillOccupied
  <2>2. CASE heapPtr <= v
    BY <1>4, <1>5, <2>2 DEF Occupied
  <2> QED BY <1>4, <2>1, <2>2
<1>7. fromSpace'..(heapPtr' - 1) = fromSpace..(heapPtr + new.size - 1)
  BY <1>3, <1>4
<1>8. \A v \in fromSpace'..(heapPtr' - 1) : Occupied(v)'
  BY <1>6, <1>7
<1> QED BY <1>8 DEF Tiled

\* Before a collection there is no copy yet.
LEMMA AllocSlowFull ==
  ASSUME FullInv, NEW q \in Requests, AllocSlow(q)
  PROVE  NoGarbage' /\ TracedWork' /\ Tiled' /\ Refusal'
<1>1. /\ pc = "mutator" /\ pc' = "scavenge" /\ heapCopyPtr' = toSpace
      /\ work' = RootLocations /\ heap' = heap /\ IInv
      /\ fromSpace' = fromSpace /\ toSpace' = toSpace /\ heapPtr' = heapPtr
  BY DEF AllocSlow, FullInv
<1>2. \A x \in DOMAIN heap : ~InToSpace(x)
  <2> SUFFICES ASSUME NEW x \in DOMAIN heap, InToSpace(x) PROVE FALSE
    OBVIOUS
  <2>1. /\ x \in Nat /\ heap[x].size \in Nat /\ heap[x].size >= 1 /\ InFrom(x)
        /\ heapPtr \in Nat /\ heapPtr <= fromSpace + HeapSize /\ HeapSize \in Nat
    BY <1>1, HeapSizeAssumption DEF IInv, TypeOK, Layout, Object
  <2> QED BY <1>1, <2>1, TwoSpaces DEF IInv, InFrom, Within, InToSpace, InSpace
<1>3. NoGarbage'
  BY <1>1, <1>2 DEF NoGarbage, InToSpace, InSpace
<1>4. TracedWork'
  <2>1. \A l : Mem(l, RootLocations) => l[1] = "root"
    BY DEF Mem, RootLocations
  <2> QED BY <1>1, <2>1 DEF TracedWork
<1>5. Tiled'
  <2>1. toSpace..(toSpace - 1) = {}
    BY <1>1, TwoSpaces DEF IInv
  <2> QED BY <1>1, <2>1 DEF FullInv, Tiled, Occupied
<1> QED BY <1>1, <1>3, <1>4, <1>5 DEF Refusal

\* A client that allocates nothing moves nothing.
LEMMA ClientFull ==
  ASSUME FullInv, pc = "mutator", pc' = "mutator", UNCHANGED spaces,
         DOMAIN heap' = DOMAIN heap,
         \A x \in DOMAIN heap : heap'[x].size = heap[x].size
  PROVE  NoGarbage' /\ TracedWork' /\ Tiled' /\ Refusal'
BY DEF FullInv, NoGarbage, TracedWork, Tiled, Refusal, Occupied, spaces

\* A store changes no size.
LEMMA StoreFull ==
  ASSUME FullInv, NEW obj \in ClientRoots, NEW src \in ClientRoots, Store(obj, src)
  PROVE  NoGarbage' /\ TracedWork' /\ Tiled' /\ Refusal'
<1> DEFINE a == roots[obj].upper
           w == roots[src]
<1>1. /\ pc = "mutator" /\ pc' = pc /\ UNCHANGED spaces
      /\ heap \in [DOMAIN heap -> Object]
  BY DEF Store, FullInv, IInv, TypeOK
<1>2. PICK i \in DOMAIN heap[a].fields : heap' = [heap EXCEPT ![a].fields[i] = w]
  BY DEF Store, ObjectAt
<1> DEFINE fs == [heap[a].fields EXCEPT ![i] = w]
           o == [heap[a] EXCEPT !.fields = fs]
<1>3. heap' = [heap EXCEPT ![a] = o]
  BY <1>2
<1> HIDE DEF fs
<1>4. a \in DOMAIN heap => o.size = heap[a].size
  BY <1>1 DEF Object
<1> HIDE DEF o
<1>5. /\ DOMAIN heap' = DOMAIN heap
      /\ \A x \in DOMAIN heap : heap'[x].size = heap[x].size
  BY <1>1, <1>3, <1>4
<1> QED BY <1>1, <1>5, ClientFull

\* Every step of a client.
LEMMA MutatorFull ==
  ASSUME FullInv, Mutator
  PROVE  NoGarbage' /\ TracedWork' /\ Tiled' /\ Refusal'
<1>1. ASSUME NEW q \in Requests, AllocFast(q)
      PROVE  NoGarbage' /\ TracedWork' /\ Tiled' /\ Refusal'
  <2>1. Tiled' /\ pc' = "mutator"
    BY <1>1, PlaceFull DEF AllocFast
  <2> QED BY <2>1 DEF NoGarbage, TracedWork, Refusal
<1>2. ASSUME NEW q \in Requests, AllocSlow(q)
      PROVE  NoGarbage' /\ TracedWork' /\ Tiled' /\ Refusal'
  BY <1>2, AllocSlowFull
<1>3. ASSUME NEW dst \in Roots, NEW w, Put(dst, w)
      PROVE  NoGarbage' /\ TracedWork' /\ Tiled' /\ Refusal'
  BY <1>3, ClientFull DEF Put
<1>4. ASSUME NEW src \in ClientRoots, InternTablePut(src)
      PROVE  NoGarbage' /\ TracedWork' /\ Tiled' /\ Refusal'
  BY <1>3, <1>4, RootsAssumption DEF InternTablePut
<1>5. ASSUME NEW dst \in ClientRoots, NEW src \in Roots, Load(dst, src)
      PROVE  NoGarbage' /\ TracedWork' /\ Tiled' /\ Refusal'
  BY <1>5, ClientFull DEF Load
<1> QED BY <1>1, <1>2, <1>3, <1>4, <1>5, StoreFull DEF Mutator, ClientRoots

\* Every step of the collector.
LEMMA CollectorFull ==
  ASSUME FullInv, GraphInv, Collector
  PROVE  NoGarbage' /\ TracedWork' /\ Tiled' /\ Refusal'
<1>1. CASE AllocRetry
  <2>1. Tiled' /\ pc' = "mutator"
    BY <1>1, PlaceFull DEF AllocRetry, FullInv, IInv, RequestOK
  <2> QED BY <2>1 DEF NoGarbage, TracedWork, Refusal
<1>2. CASE Exit
  <2>1. /\ pc = "check" /\ pc' = "exhausted" /\ Exhausted /\ req \in Requests
        /\ roots' = roots /\ heap' = heap /\ code' = code /\ req' = req
        /\ fromSpace' = fromSpace /\ heapPtr' = heapPtr /\ heapLimit' = heapLimit
    BY <1>2 DEF Exit, spaces, FullInv, IInv, RequestOK
  <2>2. NoGarbage'
    BY <2>1 DEF FullInv, NoGarbage, Encloses, LeadsInto
  <2>3. Tiled'
    BY <2>1 DEF FullInv, Tiled, Occupied
  <2>4. Refusal'
    BY <2>1 DEF Refusal, Exhausted
  <2> QED BY <2>1, <2>2, <2>3, <2>4 DEF TracedWork
<1> QED BY <1>1, <1>2, SkipFull, ForwardFull, CopyFull, ConstsFull, FlipFull DEF Collector

\* The set that encloses the heap after the last collection has every unit
\* below the allocation pointer.
LEMMA FullMeansFull ==
  ASSUME FullInv
  PROVE  ExhaustedOnlyWhenFull
<1> SUFFICES ASSUME pc = "exhausted", NEW keep \in SUBSET DOMAIN heap,
                    ClosedUnderReference(keep)
             PROVE  Cardinality(UnitsOf(keep)) + RequestSize(req) > HeapSize
  BY DEF ExhaustedOnlyWhenFull
<1>1. IInv /\ \A a \in DOMAIN heap : ~heap[a].mark
  BY DEF FullInv, IInv, Marks
<1>2. Encloses(keep)
  BY <1>1 DEF ClosedUnderReference, Encloses, LeadsInto, Fields, FieldsIn
<1>3. \A a \in DOMAIN heap : a \in keep
  BY <1>2 DEF FullInv, NoGarbage
<1>4. /\ fromSpace \in Nat /\ heapPtr \in Nat /\ HeapSize \in Nat
      /\ heapLimit = fromSpace + HeapSize /\ fromSpace <= HeapSize
      /\ fromSpace <= heapPtr /\ heapPtr <= fromSpace + HeapSize
  <2>1. TypeOK /\ Layout /\ HeapSize \in Nat
    BY <1>1, HeapSizeAssumption DEF IInv
  <2>2. /\ fromSpace = 0 \/ fromSpace = HeapSize
        /\ heapPtr \in Nat /\ heapLimit = fromSpace + HeapSize
    BY <2>1, TwoSpaces DEF TypeOK
  <2> QED BY <2>1, <2>2 DEF Layout
<1>5. fromSpace..(heapPtr - 1) \subseteq UnitsOf(keep)
  <2> SUFFICES ASSUME NEW v \in fromSpace..(heapPtr - 1) PROVE v \in UnitsOf(keep)
    OBVIOUS
  <2>1. PICK a \in DOMAIN heap : a <= v /\ v < a + heap[a].size
    BY DEF FullInv, Tiled, Occupied
  <2> QED BY <1>3, <1>4, <2>1 DEF UnitsOf
<1>6. /\ IsFiniteSet(UnitsOf(keep)) /\ Cardinality(UnitsOf(keep)) \in Nat
      /\ Cardinality(fromSpace..(heapPtr - 1)) <= Cardinality(UnitsOf(keep))
  <2>1. IsFiniteSet(0..(2 * HeapSize - 1))
    BY <1>4, FS_Interval
  <2>2. UnitsOf(keep) \subseteq 0..(2 * HeapSize - 1)
    BY DEF UnitsOf
  <2>3. IsFiniteSet(UnitsOf(keep))
    BY <2>1, <2>2, FS_Subset
  <2> QED BY <1>5, <2>3, FS_Subset, FS_CardinalityType
<1>7. Cardinality(fromSpace..(heapPtr - 1)) = heapPtr - fromSpace
  BY <1>4, FS_Interval
<1>8. Exhausted /\ RequestSize(req) \in Nat
  <2>1. Exhausted /\ req \in Requests
    BY DEF FullInv, Refusal
  <2>2. RequestTag(req) \in HeapTags /\ req.n \in Nat
    BY <2>1, RequestsAssumption DEF IsRequest, RequestTag, HeapTags
  <2> QED BY <2>1, <2>2, ObjectSizePositive DEF RequestSize
<1> QED BY <1>4, <1>6, <1>7, <1>8 DEF Exhausted

\* The heap starts with no garbage and no unit in use.
LEMMA InitFull == Init => FullInv
<1> SUFFICES ASSUME Init PROVE FullInv
  OBVIOUS
<1>1. IInv /\ pc = "mutator" /\ fromSpace = 0 /\ heapPtr = 0
  BY InitIInv DEF Init
<1>2. Tiled
  BY <1>1 DEF Tiled
<1> QED BY <1>1, <1>2 DEF FullInv, NoGarbage, TracedWork, Refusal

\* Every step.
LEMMA NextFull == FullInv /\ GraphInv /\ [Next]_vars => FullInv'
<1> SUFFICES ASSUME FullInv, GraphInv, [Next]_vars PROVE FullInv'
  OBVIOUS
<1>1. IInv'
  BY NextIInv DEF FullInv
<1>2. CASE Next
  BY <1>1, <1>2, MutatorFull, CollectorFull DEF Next, FullInv
<1>3. CASE UNCHANGED vars
  <2>1. /\ UNCHANGED <<roots, heap, code, req, work, pc>>
        /\ UNCHANGED <<fromSpace, toSpace, heapPtr, heapLimit, heapCopyPtr>>
    BY <1>3 DEF vars, spaces
  <2>2. NoGarbage'
    BY <2>1 DEF FullInv, NoGarbage, Encloses, LeadsInto, InToSpace, InSpace
  <2>3. TracedWork'
    BY <2>1 DEF FullInv, TracedWork, InToSpace, InSpace
  <2>4. Tiled' /\ Refusal'
    BY <2>1 DEF FullInv, Tiled, Occupied, Refusal, Exhausted
  <2> QED BY <1>1, <2>2, <2>3, <2>4 DEF FullInv
<1> QED BY <1>2, <1>3

\* "heap exhausted" is only reported when what the roots lead to and the
\* request exceed one space: no garbage survives a collection to cause it.
THEOREM FullWhenExhausted == Spec => []ExhaustedOnlyWhenFull
<1>1. Spec => []FullInv
  BY InitFull, NextFull, IdentitiesKept, PTL DEF Spec
<1> QED BY <1>1, FullMeansFull, PTL
=============================================================================
