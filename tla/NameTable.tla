----------------------------- MODULE NameTable -----------------------------
(***************************************************************************)
(* Symbols and names while the memory under them moves: the intern table   *)
(* (Object::internSymbol), association lists and growable arrays           *)
(* (util.cpp), and the name table of a module (Module in codegen2.cpp)     *)
(* built from them, as test-gc.cpp and CGModule use them.                  *)
(*                                                                         *)
(* One step runs from one allocation to the next.  A collection may happen *)
(* at each: it reclaims every object that no Handle, and no object a       *)
(* Handle leads to, points to, and a later allocation may take its place.  *)
(* An object keeps its identity when it moves, so what this module watches *)
(* is that each word a C++ function goes on using is one that a collection *)
(* would have found; Heap shows that such a word is then kept up to date.  *)
(***************************************************************************)
EXTENDS Words, SequencesExt

CONSTANTS
  Spellings,     \* what names are written with
  Values,        \* the spellings of the symbols that names are bound to
  MaxDefines     \* bound: calls of addName

ASSUME ValuesAssumption == Values \subseteq Spellings
ASSUME MaxDefinesAssumption == MaxDefines \in Nat

VARIABLES
  objects,       \* identity -> object
  internTable,   \* ThreadState::symbolInternTable
  root,          \* Module::root
  local,         \* the Handles of the functions that are running
  names,         \* spellings still to be interned for the call of addName
  ix,            \* addName's ix
  pc,            \* the step to come
  defines,       \* the number of calls of addName so far
  moduleRoot     \* what getRoot returned, or Null

vars ==
  <<objects, internTable, root, local, names, ix, pc, defines, moduleRoot>>

(***************************************************************************)
(* Handles, by the functions that have them.  A Handle whose function has  *)
(* returned is Null.                                                       *)
(***************************************************************************)
Variables == {"name", "val",               \* the caller of addName
              "tmp",                       \* internSymbol
              "newEntry",                  \* assocInsert
              "hAssoc",                    \* addName
              "trimmedVec"}                \* getRoot

Symbol(s)     == [tag |-> "symbol", spelling |-> s]
Pair(x, y)    == [tag |-> "pair", car |-> x, cdr |-> y]
Vector(elems) == [tag |-> "vector", elems |-> elems]

At(w) == objects[w.upper]
Car(w) == At(w).car
Cdr(w) == At(w).cdr

(***************************************************************************)
(* What a collection keeps.                                                *)
(***************************************************************************)
Pointees(o) ==
  CASE o.tag = "symbol" -> {}
    [] o.tag = "pair"   -> {o.car, o.cdr}
    [] o.tag = "vector" -> {o.elems[i] : i \in DOMAIN o.elems}

Targets(ws) == {w.upper : w \in {x \in ws : IsHeapAllocated(x)}}

\* Mutant: newEntry in assocInsert is an Object *, and newPair takes its car as
\* one, so that no temporary Handle is made for it either.
HeldWords_NotNewEntry ==
  {internTable, root, moduleRoot}
    \cup {local[v] : v \in Variables \ {"newEntry"}}

HeldWords == {internTable, root, moduleRoot} \cup {local[v] : v \in Variables}

\* What the objects ids lead to, with themselves.
LedTo[ids \in SUBSET Nat] ==
  LET more == ids \cup UNION {Targets(Pointees(objects[o])) :
                                o \in ids \cap DOMAIN objects}
  IN  IF more = ids THEN ids ELSE LedTo[more]

Live == LedTo[Targets(HeldWords)]

\* The objects left when an allocation collects, or does not.
Kept == {DOMAIN objects, DOMAIN objects \cap Live}

NewId(kept) == CHOOSE i \in 0..Cardinality(kept) : i \notin kept

NewWord(kept, obj) == Pointer(obj.tag, NewId(kept))

\* The heap with obj in it; the constructors read their arguments, which are
\* Handles, after the collection.
With(kept, obj) ==
  [o \in kept \cup {NewId(kept)} |-> IF o = NewId(kept) THEN obj ELSE objects[o]]

-----------------------------------------------------------------------------
(***************************************************************************)
(* Association lists and growable arrays.                                  *)
(***************************************************************************)
\* The entries of a list; the first ones of it, should it never end.
Entries(list) ==
  LET first[n \in 0..Cardinality(DOMAIN objects)] ==
        [w \in Word |-> IF n = 0 \/ w.tag # "pair" THEN <<>>
                        ELSE <<Car(w)>> \o first[n - 1][Cdr(w)]]
  IN  first[Cardinality(DOMAIN objects)][list]

SameSpelling(k, l) == At(k).spelling = At(l).spelling

\* Mutant: spellings are not compared.
SymbolEntry_PtrEq(list, key) ==
  LET es == Entries(list)
      i == SelectInSeq(es, LAMBDA e : Car(e) = key)
  IN  IF i = 0 THEN Null ELSE es[i]

\* assocLookupEntry with kSymbolEq and with kPtrEq; Null when there is none.
SymbolEntry(list, key) ==
  LET es == Entries(list)
      i == SelectInSeq(es, LAMBDA e : SameSpelling(Car(e), key))
  IN  IF i = 0 THEN Null ELSE es[i]

PtrEntry(list, key) ==
  LET es == Entries(list)
      i == SelectInSeq(es, LAMBDA e : Car(e) = key)
  IN  IF i = 0 THEN Null ELSE es[i]

assoc == At(root).elems[1]
array == At(root).elems[2]

Elems == At(Car(array)).elems
arrayLength == Cdr(array).upper

\* The first arrayLength elements: what arrayToVector keeps.
Items == SubSeq(Elems, 1, arrayLength)

-----------------------------------------------------------------------------
\* After Module::Module: no names, and an array of capacity 0.
Init ==
  /\ objects =
       [o \in 0..2 |-> CASE o = 0 -> Vector(<<Nil, Pointer("pair", 1)>>)
                         [] o = 1 -> Pair(Pointer("vector", 2), Fixnum(0))
                         [] o = 2 -> Vector(<<>>)]
  /\ internTable = Nil
  /\ root = Pointer("vector", 0)
  /\ local = [v \in Variables |-> Null]
  /\ names = <<>>
  /\ ix = 0
  /\ pc = "idle"
  /\ defines = 0
  /\ moduleRoot = Null

\* The caller is about to intern a name and what to bind it to, and to call
\* addName.  Nothing is added after getRoot.
Begin(s, v) ==
  /\ pc = "idle"
  /\ moduleRoot = Null
  /\ defines < MaxDefines
  /\ names' = <<s, v>>
  /\ defines' = defines + 1
  /\ pc' = "symbol"
  /\ UNCHANGED <<objects, internTable, root, local, ix, moduleRoot>>

NewSymbol ==
  /\ pc = "symbol"
  /\ \E kept \in Kept :
       LET obj == Symbol(Head(names))
       IN  /\ objects' = With(kept, obj)
           /\ local' = [local EXCEPT !.tmp = NewWord(kept, obj)]
  /\ pc' = "lookup"
  /\ UNCHANGED <<internTable, root, names, ix, defines, moduleRoot>>

\* internSymbol returns w to the caller's Handle.
Interned(w) ==
  /\ local' = [local EXCEPT ![IF Len(names) = 2 THEN "name" ELSE "val"] = w,
                            !.tmp = Null, !.newEntry = Null]
  /\ names' = Tail(names)
  /\ pc' = IF Len(names) = 2 THEN "symbol" ELSE "addName"

InternLookup ==
  /\ pc = "lookup"
  /\ LET entry == SymbolEntry(internTable, local.tmp)
     IN  IF entry # Null
         THEN Interned(Car(entry))
         ELSE pc' = "entry" /\ UNCHANGED <<local, names>>
  /\ UNCHANGED <<objects, internTable, root, ix, defines, moduleRoot>>

\* assocInsert: it looks for the key again, and does not find it.
NewEntry(list, key, val) ==
  /\ PtrEntry(list, key) = Null
  /\ \E kept \in Kept :
       LET obj == Pair(key, val)
       IN  /\ objects' = With(kept, obj)
           /\ local' = [local EXCEPT !.newEntry = NewWord(kept, obj)]

InternEntry ==
  /\ pc = "entry"
  /\ NewEntry(internTable, local.tmp, Nil)
  /\ pc' = "cons"
  /\ UNCHANGED <<internTable, root, names, ix, defines, moduleRoot>>

InternCons ==
  /\ pc = "cons"
  /\ \E kept \in Kept :
       LET obj == Pair(local.newEntry, internTable)
       IN  /\ objects' = With(kept, obj)
           /\ internTable' = NewWord(kept, obj)
  /\ Interned(local.tmp)
  /\ UNCHANGED <<root, ix, defines, moduleRoot>>

-----------------------------------------------------------------------------
\* addName and its caller return, and their Handles go.
Return == pc' = "idle" /\ local' = [v \in Variables |-> Null]

AddName ==
  /\ pc = "addName"
  /\ LET entry == PtrEntry(assoc, local.name)
     IN  IF entry # Null
         THEN /\ objects' = [objects EXCEPT
                    ![Car(array).upper].elems[Cdr(entry).upper + 1] = local.val]
              /\ Return
              /\ UNCHANGED ix
         ELSE /\ ix' = arrayLength
              /\ local' = [local EXCEPT !.hAssoc = assoc]
              /\ pc' = "append"
              /\ UNCHANGED objects
  /\ UNCHANGED <<internTable, root, names, defines, moduleRoot>>

\* Mutant: an array that is full passes for one with room.
AppendItem_WhenFull ==
  /\ pc = "append"
  /\ arrayLength <= Len(Elems)
  /\ LET i == arrayLength + 1
     IN  objects' = [objects EXCEPT
           ![Car(array).upper].elems =
             [j \in DOMAIN Elems |-> IF j = i THEN local.val ELSE Elems[j]],
           ![array.upper].cdr = Fixnum(i)]
  /\ pc' = "nameEntry"
  /\ UNCHANGED <<internTable, root, local, names, ix, defines, moduleRoot>>

\* arrayAppend where there is room.
AppendItem ==
  /\ pc = "append"
  /\ arrayLength < Len(Elems)
  /\ LET i == arrayLength + 1
     IN  objects' = [objects EXCEPT ![Car(array).upper].elems[i] = local.val,
                                    ![array.upper].cdr = Fixnum(i)]
  /\ pc' = "nameEntry"
  /\ UNCHANGED <<internTable, root, local, names, ix, defines, moduleRoot>>

\* Mutants: an empty array never grows; the elements are not copied.
Grown_Doubled ==
  [i \in 1..2 * Len(Elems) |-> IF i <= Len(Elems) THEN Elems[i] ELSE Nil]

Grown_NotCopied == [i \in 1..2 * Len(Elems) + 1 |-> Nil]

Grown ==
  [i \in 1..2 * Len(Elems) + 1 |-> IF i <= Len(Elems) THEN Elems[i] ELSE Nil]

\* arrayAppend where there is none: a larger vector, then try again.
GrowArray ==
  /\ pc = "append"
  /\ arrayLength >= Len(Elems)
  /\ \E kept \in Kept :
       LET obj == Vector(Grown)
       IN  objects' =
             [With(kept, obj) EXCEPT ![array.upper].car = NewWord(kept, obj)]
  /\ UNCHANGED <<internTable, root, local, names, ix, pc, defines, moduleRoot>>

NameEntry ==
  /\ pc = "nameEntry"
  /\ NewEntry(local.hAssoc, local.name, Fixnum(ix))
  /\ pc' = "nameCons"
  /\ UNCHANGED <<internTable, root, names, ix, defines, moduleRoot>>

NameCons ==
  /\ pc = "nameCons"
  /\ \E kept \in Kept :
       LET obj == Pair(local.newEntry, local.hAssoc)
       IN  objects' =
             [With(kept, obj) EXCEPT ![root.upper].elems[1] = NewWord(kept, obj)]
  /\ Return
  /\ UNCHANGED <<internTable, root, names, ix, defines, moduleRoot>>

-----------------------------------------------------------------------------
\* getRoot: arrayToVector, then a vector of two for the result.
TrimArray ==
  /\ pc = "idle"
  /\ moduleRoot = Null
  /\ \E kept \in Kept :
       LET obj == Vector(Items)
       IN  /\ objects' = With(kept, obj)
           /\ local' = [local EXCEPT !.trimmedVec = NewWord(kept, obj)]
  /\ pc' = "newRoot"
  /\ UNCHANGED <<internTable, root, names, ix, defines, moduleRoot>>

NewRoot ==
  /\ pc = "newRoot"
  /\ \E kept \in Kept :
       LET obj == Vector(<<assoc, local.trimmedVec>>)
       IN  objects' = With(kept, obj) /\ moduleRoot' = NewWord(kept, obj)
  /\ Return
  /\ UNCHANGED <<internTable, root, names, ix, defines>>

Next ==
  \/ \E s \in Spellings, v \in Values : Begin(s, v)
  \/ NewSymbol
  \/ InternLookup
  \/ InternEntry
  \/ InternCons
  \/ AddName
  \/ AppendItem
  \/ GrowArray
  \/ NameEntry
  \/ NameCons
  \/ TrimArray
  \/ NewRoot

Spec == Init /\ [][Next]_vars

\* One thread, and a program that is finite.
FairSpec == Spec /\ WF_vars(Next)

-----------------------------------------------------------------------------
(***************************************************************************)
(* Properties.                                                             *)
(***************************************************************************)
\* The types of the variables; an array is never longer than its vector.
TypeOK ==
  /\ \A o \in DOMAIN objects : Pointees(objects[o]) \subseteq Word
  /\ {internTable, root, moduleRoot} \cup Range(local) \subseteq Word
  /\ names \in UNION {[1..n -> Spellings] : n \in 0..2}
  /\ defines \in 0..MaxDefines
  /\ arrayLength \in 0..Len(Elems)
  /\ ix \in 0..arrayLength

\* Whatever a C++ function still uses after an allocation, it holds in a
\* Handle or reaches from one: no word that is used leads to an object that
\* a collection took away, or to another one in its place.
NothingReclaimedIsUsed ==
  /\ \A w \in HeldWords : IsHeapAllocated(w) =>
       w.upper \in DOMAIN objects /\ At(w).tag = w.tag
  /\ \A o \in DOMAIN objects \cap Live : \A w \in Pointees(objects[o]) :
       IsHeapAllocated(w) => w.upper \in DOMAIN objects /\ At(w).tag = w.tag
  /\ \A e \in Range(Entries(internTable)) \cup Range(Entries(assoc)) :
       e.tag = "pair" /\ Car(e).tag = "symbol"

\* The symbols that the compiler compares by address.
ComparedSymbols ==
  {Car(e) : e \in Range(Entries(internTable)) \cup Range(Entries(assoc))}
    \cup ({local.name, local.val} \ {Null}) \cup Range(Items)

\* Two symbols that are spelled alike are the same object, in every table and
\* Handle, whatever was collected between the two times they were interned.
InternedOnce ==
  \A k, l \in ComparedSymbols : SameSpelling(k, l) => k = l

SpellingsOf(ws) ==
  [i \in DOMAIN ws |-> IF ws[i].tag = "symbol" THEN At(ws[i]).spelling ELSE ws[i]]

DefinedSpellings == {At(Car(e)).spelling : e \in Range(Entries(assoc))}

IndexOf(s) ==
  LET es == Entries(assoc)
  IN  Cdr(es[SelectInSeq(es, LAMBDA e : At(Car(e)).spelling = s)]).upper

\* A name counts as defined once the table leads to it; its value is in the
\* array by then.
Table ==
  INSTANCE Names WITH
    index   <- [s \in DefinedSpellings |-> IndexOf(s)],
    values  <- SpellingsOf(SubSeq(Items, 1, Cardinality(DefinedSpellings))),
    trimmed <- IF moduleRoot = Null THEN <<>>
               ELSE <<SpellingsOf(At(At(moduleRoot).elems[2]).elems)>>

\* Through lists, arrays that grow, and collections between any two steps,
\* names keep their indices, indices their latest values, and the vector
\* that compiled code refers to has exactly these.
ImplementsNames == Table!Spec

\* Every call returns; an array that is full does not stay full.
CallsReturn == []<>(pc = "idle")
=============================================================================
