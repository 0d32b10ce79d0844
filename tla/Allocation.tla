----------------------------- MODULE Allocation -----------------------------
(***************************************************************************)
(* The two allocators of one heap, at the granularity of their reads and   *)
(* writes: ThreadState::gcAlloc for C++, which works on the ThreadState,   *)
(* and the code of CGFunction::allocPair, which works on copies of the     *)
(* heap pointer and limit in r12 and r13.  The copies are made when Scheme *)
(* is entered, stored before a collection and loaded after it.             *)
(*                                                                         *)
(* A size is in units and includes the GcHeader.  What a collection keeps  *)
(* is left to the module Heap: here it is any amount that was in use.      *)
(***************************************************************************)
EXTENDS Integers

CONSTANTS
  HeapSize,   \* units in one space
  Sizes,      \* of the objects that are allocated
  PairUnits   \* of a pair, the only object that compiled code allocates

ASSUME SizesAssumption ==
  /\ HeapSize \in Nat
  /\ Sizes \subseteq Nat \ {0}
  /\ PairUnits \in Sizes

VARIABLES
  fromSpace, heapPtr, heapLimit, lastAllocReq,  \* of the ThreadState
  r12, r13, rcx,
  side,       \* who runs: "cpp" or "scheme"
  size,       \* what the slow path in progress is to allocate; 0: none
  pc,
  survivors,  \* the units that the last collection kept
  objects     \* address -> size: the objects that were made since then

threadState == <<fromSpace, heapPtr, heapLimit, lastAllocReq>>
registers == <<r12, r13, rcx>>
vars == <<threadState, registers, side, size, pc, survivors, objects>>

Init ==
  /\ fromSpace = 0
  /\ heapPtr = 0
  /\ heapLimit = HeapSize
  /\ lastAllocReq = 0
  /\ r12 = 0 /\ r13 = 0 /\ rcx = 0
  /\ side = "cpp"
  /\ size = 0
  /\ pc = "idle"
  /\ survivors = 0
  /\ objects = [a \in {} |-> 0]

\* The object that initGcHeader, or the compiled code, makes at a.
WithObject(a, n) ==
  [x \in DOMAIN objects \cup {a} |-> IF x = a THEN n ELSE objects[x]]

-----------------------------------------------------------------------------
\* gcAlloc advances the pointer before it looks whether the object fits.
GcAlloc(n) ==
  /\ side = "cpp" /\ pc = "idle"
  /\ heapPtr' = heapPtr + n
  /\ IF heapPtr' <= heapLimit
     THEN objects' = WithObject(heapPtr, n) /\ UNCHANGED <<size, pc>>
     ELSE size' = n /\ pc' = "slow" /\ UNCHANGED objects
  /\ UNCHANGED <<fromSpace, heapLimit, lastAllocReq, registers, side, survivors>>

\* gcAllocSlow takes the advance back.
GcAllocSlow ==
  /\ pc = "slow"
  /\ heapPtr' = heapPtr - size
  /\ lastAllocReq' = size
  /\ pc' = "collect"
  /\ UNCHANGED <<fromSpace, heapLimit, registers, side, size, survivors, objects>>

\* What gcCollect finds in use.
InUse == (IF side = "scheme" THEN r12 ELSE heapPtr) - fromSpace

\* gcCollect, up to its last test: the spaces change places.
GcCollect ==
  /\ pc = "collect"
  /\ fromSpace' = HeapSize - fromSpace
  /\ \E kept \in 0..InUse :
       /\ survivors' = kept
       /\ heapPtr' = fromSpace' + kept
  /\ heapLimit' = fromSpace' + HeapSize
  /\ objects' = [a \in {} |-> 0]
  /\ pc' = "collected"
  /\ UNCHANGED <<lastAllocReq, registers, side, size>>

Exhausted == heapLimit - heapPtr < lastAllocReq

Exit ==
  /\ pc = "collected"
  /\ Exhausted
  /\ pc' = "exhausted"
  /\ UNCHANGED <<threadState, registers, side, size, survivors, objects>>

\* The end of gcAllocSlow; it does not test again.
GcAllocRetry ==
  /\ side = "cpp" /\ pc = "collected"
  /\ ~Exhausted
  /\ objects' = WithObject(heapPtr, size)
  /\ heapPtr' = heapPtr + size
  /\ size' = 0
  /\ pc' = "idle"
  /\ UNCHANGED <<fromSpace, heapLimit, lastAllocReq, registers, side, survivors>>

-----------------------------------------------------------------------------
\* callScheme_0 and Scheme_asmEntry.
Enter ==
  /\ side = "cpp" /\ pc = "idle"
  /\ r12' = heapPtr
  /\ r13' = heapLimit
  /\ side' = "scheme"
  /\ UNCHANGED <<threadState, rcx, size, pc, survivors, objects>>

\* Mutant: jl for jle.
TryAlloc_Jl ==
  /\ side = "scheme" /\ pc = "idle"
  /\ rcx' = r12 + PairUnits
  /\ pc' = IF rcx' < r13 THEN "fill" ELSE "sync"
  /\ UNCHANGED <<threadState, r12, r13, side, size, survivors, objects>>

\* allocPair's test.
TryAlloc ==
  /\ side = "scheme" /\ pc = "idle"
  /\ rcx' = r12 + PairUnits
  /\ pc' = IF rcx' <= r13 THEN "fill" ELSE "sync"
  /\ UNCHANGED <<threadState, r12, r13, side, size, survivors, objects>>

\* syncThreadState, and the size of a pair to lastAllocReq.
Sync ==
  /\ pc = "sync"
  /\ heapPtr' = r12
  /\ heapLimit' = r13
  /\ lastAllocReq' = PairUnits
  /\ size' = PairUnits
  /\ pc' = "collect"
  /\ UNCHANGED <<fromSpace, registers, side, survivors, objects>>

\* Mutant: the limit stays that of the space that was given up.
Reload_NotLimit ==
  /\ side = "scheme" /\ pc = "collected"
  /\ ~Exhausted
  /\ r12' = heapPtr
  /\ rcx' = heapPtr + PairUnits
  /\ pc' = "fill"
  /\ UNCHANGED <<threadState, r13, side, size, survivors, objects>>

\* The registers after collectAndAlloc; there is no second test.
Reload ==
  /\ side = "scheme" /\ pc = "collected"
  /\ ~Exhausted
  /\ r12' = heapPtr
  /\ r13' = heapLimit
  /\ rcx' = heapPtr + PairUnits
  /\ pc' = "fill"
  /\ UNCHANGED <<threadState, side, size, survivors, objects>>

\* The pair is made at r12, and r12 advanced.
Fill ==
  /\ pc = "fill"
  /\ objects' = WithObject(r12, PairUnits)
  /\ r12' = rcx
  /\ size' = 0
  /\ pc' = "idle"
  /\ UNCHANGED <<threadState, r13, rcx, side, survivors>>

\* The program ends: it returns, and the registers are those of C++ again, or
\* an error exit stores them first.  Only ThreadState::destroy is left to do;
\* after a return heapPtr is not that of the heap any more.
Leave ==
  /\ side = "scheme" /\ pc = "idle"
  /\ \/ UNCHANGED <<heapPtr, heapLimit>>
     \/ heapPtr' = r12 /\ heapLimit' = r13
  /\ pc' = "over"
  /\ UNCHANGED <<fromSpace, lastAllocReq, registers, side, size, survivors, objects>>

Next ==
  \/ \E n \in Sizes : GcAlloc(n)
  \/ GcAllocSlow
  \/ GcCollect
  \/ Exit
  \/ GcAllocRetry
  \/ Enter
  \/ TryAlloc
  \/ Sync
  \/ Reload
  \/ Fill
  \/ Leave

Spec == Init /\ [][Next]_vars

-----------------------------------------------------------------------------
(***************************************************************************)
(* Properties.                                                             *)
(***************************************************************************)
\* Where the part of the space ends that is in use.
Top ==
  IF side = "scheme" /\ pc # "collected" /\ pc # "exhausted" THEN r12
  ELSE IF pc = "slow" THEN heapPtr - size
  ELSE heapPtr

\* Whichever of the two made it, no object lies over another one, over what a
\* collection kept, or outside the space in use.
ObjectsApart ==
  /\ \A a \in DOMAIN objects :
       /\ fromSpace + survivors <= a
       /\ a + objects[a] <= fromSpace + HeapSize
  /\ \A a, b \in DOMAIN objects : a < b => a + objects[a] <= b

\* Each request is granted, is granted after one collection, or is refused
\* with good reason; the two allocators share one heap, and neither loses
\* track of what the other one, or the collector, did.
Shared ==
  INSTANCE Arena WITH
    Capacity <- HeapSize,
    used     <- Top - fromSpace,
    asked    <- IF pc = "slow" \/ pc = "collect" THEN 0 ELSE size,
    refused  <- (pc = "exhausted")

ImplementsArena == Shared!Spec
=============================================================================
