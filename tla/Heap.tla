-------------------------------- MODULE Heap --------------------------------
(***************************************************************************)
(* The semispace copying collector of gc.cpp, gc.hpp and object.cpp, with  *)
(* the allocation path that triggers it (ThreadState::gcAlloc,             *)
(* gcAllocSlow, gcCollect, gcScavenge, Object::gcScavenge) and the heap    *)
(* operations of its clients between two collections.                      *)
(*                                                                         *)
(* Addresses are in units of 16 bytes, the alignment of every object.  The *)
(* two spaces are the address ranges 0..HeapSize-1 and                     *)
(* HeapSize..2*HeapSize-1.  The recursion of gcScavenge is made explicit:  *)
(* work is the sequence of locations still to be scavenged, in the order   *)
(* the recursion reaches them, and one step scavenges one location.        *)
(***************************************************************************)
EXTENDS Words, Sequences, Integers, FiniteSets

CONSTANTS
  HeapSize,    \* units in one space
  RootSeq,     \* the roots, in the order gcCollect visits them
  InternTable, \* the root ThreadState::symbolInternTable
  Funs,        \* compiled functions: RawObjects outside the heap
  Ids,         \* object identities, a history value kept in each object
  Requests,    \* the allocations that clients may ask for
  NoFun,       \* the NULL cloInfo of a closure that is not compiled yet
  NoReq

Roots == {RootSeq[i] : i \in DOMAIN RootSeq}

\* Handles and slots of the Scheme stack; only internSymbol has the table.
ClientRoots == Roots \ {InternTable}

IsRequest(q) ==
  /\ q.tag \in HeapTags \cup {"function"}
  /\ q.n \in Nat
  /\ q.dst \in ClientRoots
  /\ q.srcs \in Seq(ClientRoots)
  /\ q.tag = "pair" => q.n = 2 /\ Len(q.srcs) = 2
  /\ q.tag = "function" => Len(q.srcs) = q.n + 1

ASSUME HeapSizeAssumption == HeapSize \in Nat \ {0}
ASSUME RootsAssumption ==
  /\ RootSeq \in Seq(Roots)
  /\ \A i, j \in DOMAIN RootSeq : RootSeq[i] = RootSeq[j] => i = j
  /\ InternTable \in Roots
ASSUME RequestsAssumption == \A q \in Requests : IsRequest(q)
ASSUME NoneAssumption == NoFun \notin Funs /\ NoReq \notin Requests

VARIABLES
  roots,       \* Root -> Word: handles, scheme stack slots, intern table
  heap,        \* address of each object -> its header and fields
  code,        \* Fun -> the words embedded in the function, in scan order
  fromSpace, toSpace, heapPtr, heapLimit, heapCopyPtr,
  req,         \* the allocation in progress; lastAllocReq is its size
  work,        \* locations still to be scavenged
  pc           \* "mutator", "scavenge", "check" or "exhausted"

spaces == <<fromSpace, toSpace, heapPtr, heapLimit, heapCopyPtr>>
vars == <<roots, heap, code, spaces, req, work, pc>>

(***************************************************************************)
(* Objects.  fields are the scavenged fields of pairs and vectors; info is *)
(* the function of a closure.  copiedTo is only meaningful under the mark. *)
(***************************************************************************)
Units(bytes) == (bytes + 15) \div 16

\* The GcHeader takes one unit.
ObjectSize(tag, n) ==
  1 + CASE tag = "pair"    -> Units(16)
        [] tag = "vector"  -> Units(8 * (1 + n))
        [] tag = "symbol"  -> Units(n + 1)
        [] tag = "closure" -> Units(8)

RequestTag(q) == IF q.tag = "function" THEN "vector" ELSE q.tag

RequestSize(q) == ObjectSize(RequestTag(q), q.n)

InSpace(base, a) == base <= a /\ a < base + HeapSize

InToSpace(a) == InSpace(toSpace, a)

ObjectAt(r) == heap[roots[r].upper]

IsUnlinked(r) == roots[r].tag = "closure" /\ ObjectAt(r).info = NoFun

Unlinked(f) == code[f] = <<>>

-----------------------------------------------------------------------------
(***************************************************************************)
(* Clients, between collections.                                           *)
(***************************************************************************)
Init ==
  /\ roots = [r \in Roots |-> IF r = InternTable THEN Nil ELSE Null]
  /\ heap = [a \in {} |-> <<>>]
  /\ code = [f \in Funs |-> <<>>]
  /\ fromSpace = 0
  /\ toSpace = HeapSize
  /\ heapPtr = 0
  /\ heapLimit = HeapSize
  /\ heapCopyPtr = 0
  /\ req = NoReq
  /\ work = <<>>
  /\ pc = "mutator"

MayRequest(q) ==
  /\ \A i \in DOMAIN q.srcs : roots[q.srcs[i]] # Null
  /\ q.tag = "function" =>
       /\ IsUnlinked(q.dst)
       /\ roots[q.srcs[1]].tag = "symbol"
       /\ \A i \in 2..Len(q.srcs) : IsHeapAllocated(roots[q.srcs[i]])
       /\ \E f \in Funs : Unlinked(f)

InitialFields(q) ==
  CASE q.tag = "pair"     -> <<roots[q.srcs[1]], roots[q.srcs[2]]>>
    [] q.tag = "vector"   -> [i \in 1..q.n |-> Nil]
    [] q.tag = "function" -> [i \in 1..q.n |-> Fixnum(i)]
    [] OTHER              -> <<>>

UsedIds == {heap[a].oid : a \in DOMAIN heap}

NewObject(q, id) ==
  [tag |-> RequestTag(q), size |-> RequestSize(q), fields |-> InitialFields(q),
   info |-> NoFun, mark |-> FALSE, copiedTo |-> 0, oid |-> id]

\* Mutant: the placeholders in the code are never patched.
LinkedCode_NotPatched(q, offsets) ==
  <<roots[q.srcs[1]], offsets>> \o [i \in 1..q.n |-> Null]

\* The words of a compiled function: its name, its offsets, its constants.
LinkedCode(q, offsets) ==
  <<roots[q.srcs[1]], offsets>> \o [i \in 1..q.n |-> roots[q.srcs[i + 1]]]

\* initGcHeader at heapPtr, then the constructor's stores.  For "function"
\* the constructor is the end of compileFunction: the vector of constant
\* offsets is filled, the closure gets its function and the constants are
\* patched into the code, with no allocation in between.
Place(q) ==
  LET id == CHOOSE i \in Ids : i \notin UsedIds
      new == NewObject(q, id)
      ptr == Pointer(new.tag, heapPtr)
  IN  /\ Ids \ UsedIds # {}
      /\ heapPtr' = heapPtr + new.size
      /\ IF q.tag = "function"
         THEN LET f == CHOOSE g \in Funs : Unlinked(g)
                  clo == roots[q.dst].upper
              IN  /\ heap' = [a \in DOMAIN heap \cup {heapPtr} |->
                                IF a = heapPtr THEN new
                                ELSE IF a = clo THEN [heap[a] EXCEPT !.info = f]
                                ELSE heap[a]]
                  /\ code' = [code EXCEPT ![f] = LinkedCode(q, ptr)]
                  /\ UNCHANGED roots
         ELSE /\ heap' = [a \in DOMAIN heap \cup {heapPtr} |->
                            IF a = heapPtr THEN new ELSE heap[a]]
              /\ roots' = [roots EXCEPT ![q.dst] = ptr]
              /\ UNCHANGED code

Fits(size) == heapPtr + size <= heapLimit

\* gcAlloc, and the inline test of the compiled allocPair.
AllocFast(q) ==
  /\ pc = "mutator"
  /\ MayRequest(q)
  /\ Fits(RequestSize(q))
  /\ Place(q)
  /\ UNCHANGED <<fromSpace, toSpace, heapLimit, heapCopyPtr, req, work, pc>>

\* Mutant: the intern table is not a root.
RootLocations_NoInternTable ==
  [i \in 1..(Len(RootSeq) - 1) |-> <<"root", RootSeq[i], 0>>]

RootLocations == [i \in DOMAIN RootSeq |-> <<"root", RootSeq[i], 0>>]

\* gcAllocSlow gives the units back and starts gcCollect.
AllocSlow(q) ==
  /\ pc = "mutator"
  /\ MayRequest(q)
  /\ ~Fits(RequestSize(q))
  /\ req' = q
  /\ heapCopyPtr' = toSpace
  /\ work' = RootLocations
  /\ pc' = "scavenge"
  /\ UNCHANGED <<roots, heap, code, fromSpace, toSpace, heapPtr, heapLimit>>

Put(dst, w) ==
  /\ pc = "mutator"
  /\ roots' = [roots EXCEPT ![dst] = w]
  /\ UNCHANGED <<heap, code, spaces, req, work, pc>>

\* The end of internSymbol: the table is the list that assocInsert returned.
InternTablePut(src) ==
  /\ roots[src].tag = "pair"
  /\ Put(InternTable, roots[src])

\* What a client can read through a word: car, cdr, a vector element, and
\* from the closure being run its function's name and constants.
Fields(o) == IF o.info = NoFun THEN o.fields ELSE code[o.info]

Load(dst, src) ==
  /\ pc = "mutator"
  /\ IsHeapAllocated(roots[src])
  /\ \E i \in DOMAIN Fields(ObjectAt(src)) :
       /\ ~(roots[src].tag = "closure" /\ i = 2)
       /\ roots' = [roots EXCEPT ![dst] = Fields(ObjectAt(src))[i]]
  /\ UNCHANGED <<heap, code, spaces, req, work, pc>>

Store(obj, src) ==
  /\ pc = "mutator"
  /\ roots[obj].tag \in {"pair", "vector"}
  /\ roots[src] # Null
  /\ \E i \in DOMAIN ObjectAt(obj).fields :
       heap' = [heap EXCEPT ![roots[obj].upper].fields[i] = roots[src]]
  /\ UNCHANGED <<roots, code, spaces, req, work, pc>>

-----------------------------------------------------------------------------
(***************************************************************************)
(* The collector.  A location is a triple: <<"root", r, 0>>, a root;       *)
(* <<"field", a, i>>, a field of the object at a; <<"code", f, i>>, a word *)
(* embedded in function f.  <<"consts", f, 0>> is not a location: it is    *)
(* the loop over the constants of f, which reads the vector of offsets     *)
(* only after that vector has itself been scavenged.                       *)
(***************************************************************************)
Read(loc) ==
  CASE loc[1] = "root"  -> roots[loc[2]]
    [] loc[1] = "field" -> heap[loc[2]].fields[loc[3]]
    [] loc[1] = "code"  -> code[loc[2]][loc[3]]

\* Store w at loc, the heap being h otherwise.
WriteTo(loc, w, h) ==
  /\ roots' = IF loc[1] = "root" THEN [roots EXCEPT ![loc[2]] = w] ELSE roots
  /\ heap' = IF loc[1] = "field"
             THEN [h EXCEPT ![loc[2]].fields[loc[3]] = w] ELSE h
  /\ code' = IF loc[1] = "code"
             THEN [code EXCEPT ![loc[2]][loc[3]] = w] ELSE code

\* Mutant: the constants in the code of a closure are not scavenged.
Interior_NoConsts(a, o) ==
  IF o.tag = "closure"
  THEN IF o.info = NoFun THEN <<>>
       ELSE << <<"code", o.info, 1>>, <<"code", o.info, 2>> >>
  ELSE [i \in 1..Len(o.fields) |-> <<"field", a, i>>]

\* Object::gcScavenge: the interior locations of a fresh copy, in scan order.
\* A closure that is not compiled yet has none.
Interior(a, o) ==
  IF o.tag = "closure"
  THEN IF o.info = NoFun THEN <<>>
       ELSE << <<"code", o.info, 1>>, <<"code", o.info, 2>>,
               <<"consts", o.info, 0>> >>
  ELSE [i \in 1..Len(o.fields) |-> <<"field", a, i>>]

\* The code positions that the vector of offsets of f lists.
ConstLocations(f) ==
  LET offsets == heap[code[f][2].upper].fields
  IN  [i \in 1..Len(offsets) |-> <<"code", f, 2 + offsets[i].upper>>]

Scavenging(kinds) ==
  pc = "scavenge" /\ work # <<>> /\ Head(work)[1] \in kinds

Locations == {"root", "field", "code"}

\* NULL, an immediate, or a word that already points into to-space.
NeedsNoWork(w) ==
  IsHeapAllocated(w) => ~heap[w.upper].mark /\ InToSpace(w.upper)

ScavengeSkip ==
  /\ Scavenging(Locations)
  /\ NeedsNoWork(Read(Head(work)))
  /\ work' = Tail(work)
  /\ UNCHANGED <<roots, heap, code, spaces, req, pc>>

ScavengeForward ==
  /\ Scavenging(Locations)
  /\ LET loc == Head(work)
         w == Read(loc)
     IN  /\ IsHeapAllocated(w)
         /\ heap[w.upper].mark
         /\ WriteTo(loc, Pointer(w.tag, heap[w.upper].copiedTo), heap)
  /\ work' = Tail(work)
  /\ UNCHANGED <<spaces, req, pc>>

\* Mutants: the original keeps no forwarding address; it is not marked.
CopiedHeap_NoForwarding(a, b) ==
  [x \in DOMAIN heap \cup {b} |->
     IF x = b THEN heap[a]
     ELSE IF x = a THEN [heap[a] EXCEPT !.mark = TRUE]
     ELSE heap[x]]

CopiedHeap_NoMark(a, b) ==
  [x \in DOMAIN heap \cup {b} |->
     IF x = b THEN heap[a]
     ELSE IF x = a THEN [heap[a] EXCEPT !.copiedTo = b]
     ELSE heap[x]]

\* The heap once the object at a is marked and copied to b.
CopiedHeap(a, b) ==
  [x \in DOMAIN heap \cup {b} |->
     IF x = b THEN heap[a]
     ELSE IF x = a THEN [heap[a] EXCEPT !.mark = TRUE, !.copiedTo = b]
     ELSE heap[x]]

ScavengeCopy ==
  /\ Scavenging(Locations)
  /\ LET loc == Head(work)
         w == Read(loc)
         a == w.upper
     IN  /\ ~NeedsNoWork(w)
         /\ ~heap[a].mark
         /\ WriteTo(loc, Pointer(w.tag, heapCopyPtr), CopiedHeap(a, heapCopyPtr))
         /\ heapCopyPtr' = heapCopyPtr + heap[a].size
         /\ work' = Interior(heapCopyPtr, heap[a]) \o Tail(work)
  /\ UNCHANGED <<fromSpace, toSpace, heapPtr, heapLimit, req, pc>>

ScavengeConsts ==
  /\ Scavenging({"consts"})
  /\ work' = ConstLocations(Head(work)[2]) \o Tail(work)
  /\ UNCHANGED <<roots, heap, code, spaces, req, pc>>

\* Mutant: the limit stays that of the space that was given up.
Flip_KeepsLimit ==
  /\ pc = "scavenge"
  /\ work = <<>>
  /\ fromSpace' = toSpace
  /\ toSpace' = fromSpace
  /\ heapPtr' = heapCopyPtr
  /\ heap' = [a \in {x \in DOMAIN heap : InToSpace(x)} |-> heap[a]]
  /\ heapCopyPtr' = 0
  /\ pc' = "check"
  /\ UNCHANGED <<roots, code, heapLimit, req, work>>

\* The end of gcCollect.  What is left in the old space is never read again
\* before it is overwritten; dropping it makes any such read an error.
\* heapCopyPtr is dead until the next collection sets it, so it is cleared.
Flip ==
  /\ pc = "scavenge"
  /\ work = <<>>
  /\ fromSpace' = toSpace
  /\ toSpace' = fromSpace
  /\ heapPtr' = heapCopyPtr
  /\ heapLimit' = toSpace + HeapSize
  /\ heap' = [a \in {x \in DOMAIN heap : InToSpace(x)} |-> heap[a]]
  /\ heapCopyPtr' = 0
  /\ pc' = "check"
  /\ UNCHANGED <<roots, code, req, work>>

\* Mutants: the request is forgotten; a request that just fits is refused.
Exhausted_IgnoresRequest == heapLimit < heapPtr

Exhausted_OffByOne == heapLimit - heapPtr <= RequestSize(req)

Exhausted == heapLimit - heapPtr < RequestSize(req)

\* Back in gcAllocSlow (or in allocPair): the allocation is retried once.
AllocRetry ==
  /\ pc = "check"
  /\ ~Exhausted
  /\ Place(req)
  /\ req' = NoReq
  /\ pc' = "mutator"
  /\ UNCHANGED <<fromSpace, toSpace, heapLimit, heapCopyPtr, work>>

\* Mutant: a collection that did not free enough is followed by another one.
Exit_CollectsAgain ==
  /\ pc = "check"
  /\ Exhausted
  /\ heapCopyPtr' = toSpace
  /\ work' = RootLocations
  /\ pc' = "scavenge"
  /\ UNCHANGED <<roots, heap, code, fromSpace, toSpace, heapPtr, heapLimit, req>>

Exit ==
  /\ pc = "check"
  /\ Exhausted
  /\ pc' = "exhausted"
  /\ UNCHANGED <<roots, heap, code, spaces, req, work>>

Collector ==
  \/ ScavengeSkip
  \/ ScavengeForward
  \/ ScavengeCopy
  \/ ScavengeConsts
  \/ Flip
  \/ AllocRetry
  \/ Exit

Mutator ==
  \/ \E q \in Requests : AllocFast(q) \/ AllocSlow(q)
  \/ \E dst, src \in ClientRoots : Put(dst, roots[src])
  \/ \E dst \in ClientRoots : Put(dst, Null)
  \/ \E src \in ClientRoots : InternTablePut(src)
  \/ \E dst \in ClientRoots, src \in Roots : Load(dst, src)
  \/ \E obj, src \in ClientRoots : Store(obj, src)

Next == Mutator \/ Collector

Spec == Init /\ [][Next]_vars

\* The collector runs on the only thread and is never suspended.
FairSpec == Spec /\ WF_vars(Collector)

-----------------------------------------------------------------------------
(***************************************************************************)
(* Properties.                                                             *)
(***************************************************************************)
Object ==
  [tag : HeapTags, size : Nat, fields : Seq(Word), info : Funs \cup {NoFun},
   mark : BOOLEAN, copiedTo : Nat, oid : Ids]

Location ==
  ({"root"} \X Roots \X Nat) \cup ({"field"} \X Nat \X Nat)
    \cup ({"code", "consts"} \X Funs \X Nat)

\* The types of the variables.
TypeOK ==
  /\ roots \in [Roots -> Word]
  /\ DOMAIN heap \subseteq Nat
  /\ heap \in [DOMAIN heap -> Object]
  /\ code \in [Funs -> Seq(Word)]
  /\ {fromSpace, toSpace} = {0, HeapSize}
  /\ heapPtr \in Nat
  /\ heapLimit = fromSpace + HeapSize
  /\ heapCopyPtr \in Nat
  /\ req \in Requests \cup {NoReq}
  /\ work \in Seq(Location)
  /\ pc \in {"mutator", "scavenge", "check", "exhausted"}

\* The object at a lies within the part of a space that is in use.
Within(a, base, end) == base <= a /\ a + heap[a].size <= end

\* gcScavenge never tests that a copy fits, and allocPair never tests again
\* after a collection: still no object, copied or new, ever lies outside the
\* used part of its space or overlaps another one.
ObjectsDisjoint ==
  /\ heapPtr <= heapLimit
  /\ pc = "scavenge" => heapCopyPtr <= toSpace + HeapSize
  /\ \A a \in DOMAIN heap :
       \/ Within(a, fromSpace, heapPtr)
       \/ pc = "scavenge" /\ Within(a, toSpace, heapCopyPtr)
  /\ \A a, b \in DOMAIN heap :
       a < b => a + heap[a].size <= b

PointsToObject(w) ==
  IsHeapAllocated(w) => w.upper \in DOMAIN heap /\ heap[w.upper].tag = w.tag

\* Nobody ever holds the address of an object that moved or died: when the
\* collector gives the old space up, every root, every field and every
\* constant in the code of a live closure names an object of the new space,
\* under the tag that object has.
NoDangling ==
  /\ \A r \in Roots : PointsToObject(roots[r])
  /\ \A a \in DOMAIN heap :
       \A i \in DOMAIN Fields(heap[a]) : PointsToObject(Fields(heap[a])[i])

ClosedUnderReference(keep) ==
  /\ \A r \in Roots : IsHeapAllocated(roots[r]) => roots[r].upper \in keep
  /\ \A a \in keep : \A i \in DOMAIN Fields(heap[a]) :
       LET w == Fields(heap[a])[i] IN IsHeapAllocated(w) => w.upper \in keep

\* The units of a set of objects.
UnitsOf(keep) ==
  {u \in 0..(2 * HeapSize - 1) :
     \E a \in keep : a <= u /\ u < a + heap[a].size}

\* "heap exhausted" is only reported when the objects that the roots lead to
\* and the request really exceed one space: no garbage survives a collection
\* to cause it, and a request that exactly fills the space is granted.
ExhaustedOnlyWhenFull ==
  pc = "exhausted" =>
    \A keep \in SUBSET DOMAIN heap :
      ClosedUnderReference(keep) =>
        Cardinality(UnitsOf(keep)) + RequestSize(req) > HeapSize

\* The graph that the addresses stand for.  An object that is being moved is
\* its copy; the words of a word's reader keep the identity they name.
AbsWord(w) ==
  IF IsHeapAllocated(w) THEN Pointer(w.tag, heap[w.upper].oid) ELSE w

Current == {a \in DOMAIN heap : ~heap[a].mark}

AbsNode(o) ==
  LET obj == heap[CHOOSE a \in Current : heap[a].oid = o]
  IN  [tag    |-> obj.tag,
       fields |-> [i \in DOMAIN Fields(obj) |-> AbsWord(Fields(obj)[i])]]

Graph ==
  INSTANCE ObjectGraph WITH
    roots   <- [r \in Roots |-> AbsWord(roots[r])],
    graph   <- [o \in {heap[a].oid : a \in Current} |-> AbsNode(o)],
    stopped <- pc = "exhausted"

\* Seen through object identities the collector does nothing but drop
\* unreachable objects: sharing, cycles, contents and the constants embedded
\* in code are what the clients left, during and after every collection.
ImplementsObjectGraph == Graph!Spec

\* A collection comes to an end, with the allocation made or the exit taken;
\* cycles do not make gcScavenge recurse for ever.
CollectionEnds == pc = "scavenge" ~> pc \in {"mutator", "exhausted"}
=============================================================================
