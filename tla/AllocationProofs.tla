-------------------------- MODULE AllocationProofs --------------------------
(***************************************************************************)
(* For any size of the heap and of objects: the two allocators keep their  *)
(* objects apart, and implement Arena.                                     *)
(***************************************************************************)
EXTENDS Allocation, TLAPS

Typed ==
  /\ fromSpace \in {0, HeapSize}
  /\ heapPtr \in Int
  /\ heapLimit = fromSpace + HeapSize
  /\ lastAllocReq \in Int
  /\ r12 \in Int /\ r13 \in Int /\ rcx \in Int
  /\ side \in {"cpp", "scheme"}
  /\ size \in Int
  /\ pc \in {"idle", "slow", "collect", "collected", "exhausted",
             "sync", "fill", "over"}
  /\ survivors \in Nat

\* r13 is good until the spaces change places.
LimitInRegister ==
  side = "scheme" /\ pc \notin {"collected", "exhausted"} => r13 = heapLimit

\* What is being allocated, and why there is a collection for it.
InProgress ==
  /\ pc \in {"idle", "sync", "over"} => size = 0
  /\ pc = "fill" => side = "scheme" /\ rcx = r12 + PairUnits /\ rcx <= r13
                      /\ size \in {0, PairUnits}
  /\ pc = "sync" => side = "scheme" /\ r12 + PairUnits > r13
  /\ pc = "slow" => side = "cpp" /\ size \in Sizes /\ heapPtr > heapLimit
  /\ pc \in {"collect", "collected", "exhausted"} =>
       size \in Sizes /\ lastAllocReq = size
         /\ (side = "scheme" => size = PairUnits)
  /\ pc = "collect" => Top + size > heapLimit

InBounds == fromSpace + survivors <= Top /\ Top <= heapLimit

\* The objects lie between what was kept and the top.
Placed ==
  \A a \in DOMAIN objects :
    /\ a \in Int
    /\ objects[a] \in Nat \ {0}
    /\ fromSpace + survivors <= a
    /\ a + objects[a] <= Top

Apart == \A a, b \in DOMAIN objects : a < b => a + objects[a] <= b

IInv == Typed /\ LimitInRegister /\ InProgress /\ InBounds /\ Placed /\ Apart

\* The assumption on the constants, for the steps to use.
LEMMA Sized == HeapSize \in Nat /\ PairUnits \in Sizes /\ Sizes \subseteq Nat \ {0}
BY SizesAssumption

\* A step that makes no object keeps those there are, if the top does not
\* sink below them.
LEMMA SameObjects ==
  ASSUME IInv, Typed', UNCHANGED <<fromSpace, survivors, objects>>, Top' = Top
  PROVE  InBounds' /\ Placed' /\ Apart'
BY DEF IInv, Typed, InBounds, Placed, Apart

\* An object that is made at the top, which it advances.
LEMMA ObjectAtTop ==
  ASSUME IInv, Typed', UNCHANGED <<fromSpace, survivors>>,
         NEW n \in Sizes,
         objects' = WithObject(Top, n),
         Top' = Top + n,
         Top + n <= heapLimit
  PROVE  InBounds' /\ Placed' /\ Apart'
<1> USE Sized DEF IInv, Typed
<1>1. Top \in Int
  BY DEF Top
<1>2. InBounds'
  BY <1>1 DEF InBounds
<1>3. DOMAIN objects' = DOMAIN objects \cup {Top}
  BY DEF WithObject
<1>4. objects'[Top] = n
  BY DEF WithObject
<1>5. \A a \in DOMAIN objects : a # Top /\ objects'[a] = objects[a]
  BY <1>1 DEF WithObject, Placed
<1>6. Placed'
  BY <1>1, <1>3, <1>4, <1>5 DEF Placed, InBounds
<1>7. Apart'
  <2> SUFFICES ASSUME NEW a \in DOMAIN objects', NEW b \in DOMAIN objects', a < b
               PROVE  a + objects'[a] <= b
    BY DEF Apart
  <2>1. a # Top
    BY <1>1, <1>3, <1>5 DEF Placed
  <2>2. CASE b = Top
    BY <1>3, <1>5, <2>1, <2>2 DEF Placed
  <2>3. CASE b # Top
    BY <1>3, <1>5, <2>1, <2>3 DEF Apart
  <2> QED BY <2>2, <2>3
<1> QED BY <1>2, <1>6, <1>7

\* Every step preserves the invariant.
LEMMA Inductive == IInv /\ [Next]_vars => IInv'
<1> SUFFICES ASSUME IInv, [Next]_vars PROVE IInv'
  OBVIOUS
<1> USE Sized DEF threadState, registers
<1>1. ASSUME NEW n \in Sizes, GcAlloc(n) PROVE IInv'
  <2>1. Typed' /\ LimitInRegister' /\ InProgress'
    BY <1>1 DEF GcAlloc, IInv, Typed, LimitInRegister, InProgress
  <2>2. CASE heapPtr' <= heapLimit
    <3>1. Top = heapPtr /\ Top' = heapPtr + n
      BY <1>1, <2>2 DEF GcAlloc, Top, IInv, Typed
    <3> QED BY <1>1, <2>1, <2>2, <3>1, ObjectAtTop DEF GcAlloc, IInv
  <2>3. CASE ~(heapPtr' <= heapLimit)
    <3>1. Top' = Top
      BY <1>1, <2>3 DEF GcAlloc, Top, IInv, Typed
    <3> QED BY <1>1, <2>1, <2>3, <3>1, SameObjects DEF GcAlloc, IInv
  <2> QED BY <2>2, <2>3
<1>2. ASSUME GcAllocSlow PROVE IInv'
  <2>1. Typed' /\ LimitInRegister'
    BY <1>2 DEF GcAllocSlow, IInv, Typed, LimitInRegister, InProgress
  <2>2. Top' = Top
    BY <1>2 DEF GcAllocSlow, Top, IInv, InProgress
  <2>3. InProgress'
    BY <1>2, <2>2 DEF GcAllocSlow, IInv, Typed, InProgress, Top
  <2> QED BY <1>2, <2>1, <2>2, <2>3, SameObjects DEF GcAllocSlow, IInv
<1>3. ASSUME GcCollect PROVE IInv'
  <2>1. /\ InUse = Top - fromSpace
        /\ InUse \in Int
        /\ InUse <= HeapSize
        /\ fromSpace \in Int
    BY <1>3 DEF GcCollect, InUse, Top, IInv, Typed, InBounds
  <2>2. PICK kept \in 0..InUse : survivors' = kept /\ heapPtr' = fromSpace' + kept
    BY <1>3 DEF GcCollect
  <2>3. Typed' /\ LimitInRegister' /\ InProgress'
    BY <1>3, <2>1, <2>2 DEF GcCollect, IInv, Typed, LimitInRegister, InProgress
  <2>4. Top' = heapPtr'
    BY <1>3 DEF GcCollect, Top
  <2>5. InBounds'
    <3>1. /\ fromSpace' = HeapSize - fromSpace
          /\ heapLimit' = HeapSize - fromSpace + HeapSize
      BY <1>3 DEF GcCollect
    <3>2. Top' = HeapSize - fromSpace + kept
      BY <2>2, <2>4, <3>1
    <3> QED BY <2>1, <2>2, <3>1, <3>2 DEF InBounds
  <2>6. Placed' /\ Apart'
    BY <1>3 DEF GcCollect, Placed, Apart
  <2> QED BY <2>3, <2>5, <2>6 DEF IInv
<1>4. ASSUME Exit PROVE IInv'
  <2>1. Typed' /\ LimitInRegister' /\ InProgress'
    BY <1>4 DEF Exit, IInv, Typed, LimitInRegister, InProgress
  <2>2. Top' = Top
    BY <1>4 DEF Exit, Top
  <2> QED BY <1>4, <2>1, <2>2, SameObjects DEF Exit, IInv
<1>5. ASSUME GcAllocRetry PROVE IInv'
  <2>1. Typed' /\ LimitInRegister' /\ InProgress'
    BY <1>5 DEF GcAllocRetry, IInv, Typed, LimitInRegister, InProgress
  <2>2. Top = heapPtr /\ Top' = heapPtr + size /\ size \in Sizes
    BY <1>5 DEF GcAllocRetry, Top, IInv, InProgress
  <2>3. Top + size <= heapLimit
    BY <1>5, <2>2 DEF GcAllocRetry, Exhausted, IInv, Typed, InProgress
  <2> QED BY <1>5, <2>1, <2>2, <2>3, ObjectAtTop DEF GcAllocRetry, IInv
<1>6. ASSUME Enter PROVE IInv'
  <2>1. Typed' /\ LimitInRegister' /\ InProgress'
    BY <1>6 DEF Enter, IInv, Typed, LimitInRegister, InProgress
  <2>2. Top' = Top
    BY <1>6 DEF Enter, Top
  <2> QED BY <1>6, <2>1, <2>2, SameObjects DEF Enter, IInv
<1>7. ASSUME TryAlloc PROVE IInv'
  <2>1. Typed' /\ LimitInRegister' /\ InProgress'
    BY <1>7 DEF TryAlloc, IInv, Typed, LimitInRegister, InProgress
  <2>2. Top' = Top
    BY <1>7 DEF TryAlloc, Top
  <2> QED BY <1>7, <2>1, <2>2, SameObjects DEF TryAlloc, IInv
<1>8. ASSUME Sync PROVE IInv'
  <2>1. Typed' /\ LimitInRegister'
    BY <1>8 DEF Sync, IInv, Typed, LimitInRegister, InProgress
  <2>2. Top' = Top /\ Top = r12
    BY <1>8 DEF Sync, Top, IInv, InProgress
  <2>3. InProgress'
    BY <1>8, <2>2 DEF Sync, IInv, Typed, InProgress
  <2> QED BY <1>8, <2>1, <2>2, <2>3, SameObjects DEF Sync, IInv
<1>9. ASSUME Reload PROVE IInv'
  <2>1. Typed' /\ LimitInRegister' /\ InProgress'
    BY <1>9 DEF Reload, Exhausted, IInv, Typed, LimitInRegister, InProgress
  <2>2. Top' = Top
    BY <1>9 DEF Reload, Top
  <2> QED BY <1>9, <2>1, <2>2, SameObjects DEF Reload, IInv
<1>10. ASSUME Fill PROVE IInv'
  <2>1. Typed' /\ LimitInRegister' /\ InProgress'
    BY <1>10 DEF Fill, IInv, Typed, LimitInRegister, InProgress
  <2>2. Top = r12 /\ Top' = r12 + PairUnits
    BY <1>10 DEF Fill, Top, IInv, InProgress
  <2>3. Top + PairUnits <= heapLimit
    BY <1>10, <2>2 DEF Fill, IInv, InProgress, LimitInRegister
  <2> QED BY <1>10, <2>1, <2>2, <2>3, ObjectAtTop DEF Fill, IInv
<1>11. ASSUME Leave PROVE IInv'
  <2>1. Typed' /\ LimitInRegister' /\ InProgress'
    BY <1>11 DEF Leave, IInv, Typed, LimitInRegister, InProgress
  <2>2. Top' = Top
    BY <1>11 DEF Leave, Top
  <2> QED BY <1>11, <2>1, <2>2, SameObjects DEF Leave, IInv
<1>12. ASSUME UNCHANGED vars PROVE IInv'
  BY <1>12 DEF vars, IInv, Typed, LimitInRegister, InProgress, InBounds,
               Placed, Apart, Top
<1> QED
  BY <1>1, <1>2, <1>3, <1>4, <1>5, <1>6, <1>7, <1>8, <1>9, <1>10, <1>11, <1>12
     DEF Next

\* It holds before anything is allocated.
LEMMA Initial == Init => IInv
BY Sized DEF Init, threadState, registers, IInv, Typed, LimitInRegister,
             InProgress, InBounds, Placed, Apart, Top

\* In every reachable state the two allocators agree on the top of the heap,
\* and everything that was made lies below it.
THEOREM Invariance == Spec => []IInv
BY Initial, Inductive, PTL DEF Spec

\* No object lies over another one or outside its space, whether compiled code
\* made it in registers or C++ in the ThreadState.
THEOREM NoOverlap == Spec => []ObjectsApart
<1>1. IInv => ObjectsApart
  BY Sized DEF IInv, Typed, InBounds, Placed, Apart, ObjectsApart, Top
<1> QED BY <1>1, Invariance, PTL

-----------------------------------------------------------------------------
(***************************************************************************)
(* The refinement: one lemma for the initial state and one for a step.     *)
(***************************************************************************)
\* Both begin with an empty heap.
LEMMA InitialImplements == Init => Shared!Init
BY DEF Init, Shared!Init, Top

\* Each step is one of Arena's, or none that Arena can see: the slow path of
\* C++ up to the collection, entering Scheme, and what allocPair does to its
\* registers before it advances r12.
LEMMA StepImplements == IInv /\ IInv' /\ [Next]_vars => [Shared!Next]_Shared!vars
<1> SUFFICES ASSUME IInv, IInv', [Next]_vars PROVE [Shared!Next]_Shared!vars
  OBVIOUS
<1> DEFINE asked == IF pc = "slow" \/ pc = "collect" THEN 0 ELSE size
<1> DEFINE Stutters == /\ Top' - fromSpace' = Top - fromSpace
                       /\ asked' = asked
                       /\ (pc = "exhausted")' = (pc = "exhausted")
<1>0. ASSUME Stutters PROVE [Shared!Next]_Shared!vars
  BY <1>0 DEF Shared!vars
<1> USE Sized DEF threadState, registers, IInv, Typed, InProgress, LimitInRegister
<1>1. ASSUME NEW n \in Sizes, GcAlloc(n) PROVE [Shared!Next]_Shared!vars
  <2>1. CASE heapPtr' <= heapLimit
    <3>1. Shared!Grant(n)
      BY <1>1, <2>1 DEF GcAlloc, Top, Shared!Grant, Shared!Fits
    <3> QED BY <3>1 DEF Shared!Next
  <2>2. CASE ~(heapPtr' <= heapLimit)
    <3>1. Stutters
      BY <1>1, <2>2 DEF GcAlloc, Top
    <3> QED BY <1>0, <3>1
  <2> QED BY <2>1, <2>2
<1>2. ASSUME GcAllocSlow PROVE [Shared!Next]_Shared!vars
  <2>1. Stutters
    BY <1>2 DEF GcAllocSlow, Top
  <2> QED BY <1>0, <2>1
<1>3. ASSUME GcCollect PROVE [Shared!Next]_Shared!vars
  <2>1. InUse = Top - fromSpace /\ Top \in Int
    BY <1>3 DEF GcCollect, InUse, Top
  <2>2. Top' - fromSpace' \in 0..(Top - fromSpace)
    BY <1>3, <2>1 DEF GcCollect, Top
  <2>3. ~Shared!Fits(size)
    BY <1>3, <2>1 DEF GcCollect, Shared!Fits
  <2>4. Shared!Collect(size)
    BY <1>3, <2>2, <2>3 DEF GcCollect, Shared!Collect
  <2>5. size \in Sizes
    BY <1>3 DEF GcCollect
  <2> QED BY <2>4, <2>5 DEF Shared!Next
<1>4. ASSUME Exit PROVE [Shared!Next]_Shared!vars
  <2>1. Shared!Refuse
    BY <1>4 DEF Exit, Exhausted, Top, Shared!Refuse, Shared!Fits
  <2> QED BY <2>1 DEF Shared!Next
<1>5. ASSUME GcAllocRetry PROVE [Shared!Next]_Shared!vars
  <2>1. Shared!GrantAsked
    BY <1>5 DEF GcAllocRetry, Exhausted, Top, Shared!GrantAsked, Shared!Fits
  <2> QED BY <2>1 DEF Shared!Next
<1>6. ASSUME Enter PROVE [Shared!Next]_Shared!vars
  <2>1. Stutters
    BY <1>6 DEF Enter, Top
  <2> QED BY <1>0, <2>1
<1>7. ASSUME TryAlloc PROVE [Shared!Next]_Shared!vars
  <2>1. Stutters
    BY <1>7 DEF TryAlloc, Top
  <2> QED BY <1>0, <2>1
<1>8. ASSUME Sync PROVE [Shared!Next]_Shared!vars
  <2>1. Stutters
    BY <1>8 DEF Sync, Top
  <2> QED BY <1>0, <2>1
<1>9. ASSUME Reload PROVE [Shared!Next]_Shared!vars
  <2>1. Stutters
    BY <1>9 DEF Reload, Top
  <2> QED BY <1>0, <2>1
<1>10. ASSUME Fill PROVE [Shared!Next]_Shared!vars
  <2>1. Top = r12 /\ Top' = r12 + PairUnits /\ r12 + PairUnits <= heapLimit
    BY <1>10 DEF Fill, Top
  <2>2. CASE size = 0
    <3>1. Shared!Grant(PairUnits)
      BY <1>10, <2>1, <2>2 DEF Fill, Shared!Grant, Shared!Fits
    <3> QED BY <3>1 DEF Shared!Next
  <2>3. CASE size = PairUnits
    <3>1. Shared!GrantAsked
      BY <1>10, <2>1, <2>3 DEF Fill, Shared!GrantAsked, Shared!Fits
    <3> QED BY <3>1 DEF Shared!Next
  <2> QED BY <1>10, <2>2, <2>3 DEF Fill
<1>11. ASSUME Leave PROVE [Shared!Next]_Shared!vars
  <2>1. Stutters
    BY <1>11 DEF Leave, Top
  <2> QED BY <1>0, <2>1
<1>12. ASSUME UNCHANGED vars PROVE [Shared!Next]_Shared!vars
  <2>1. Stutters
    BY <1>12 DEF vars, Top
  <2> QED BY <1>0, <2>1
<1> QED
  BY <1>1, <1>2, <1>3, <1>4, <1>5, <1>6, <1>7, <1>8, <1>9, <1>10, <1>11, <1>12
     DEF Next

\* Allocation implements Arena: whoever asks, a request is granted at once,
\* after one collection, or refused because what was kept leaves no room.
THEOREM Implementation == Spec => ImplementsArena
BY InitialImplements, StepImplements, Invariance, PTL
   DEF Spec, ImplementsArena, Shared!Spec
=============================================================================
