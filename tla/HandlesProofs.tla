--------------------------- MODULE HandlesProofs ---------------------------
(***************************************************************************)
(* For any number of Handles, in any order of construction, assignment and *)
(* destruction: gcCollect finds every live Handle and no dead one.         *)
(*                                                                         *)
(* The invariants of Handles are inductive once two facts are added: older *)
(* orders the live Handles totally, and in a scan the Handles that were    *)
(* updated are exactly those before the one it stands on.                  *)
(***************************************************************************)
EXTENDS Handles, TLAPS

OlderIsOrder ==
  /\ \A h \in live : ~Before(h, h)
  /\ \A g, h \in live : g # h => Before(g, h) \/ Before(h, g)
  /\ \A f, g, h \in live : Before(f, g) /\ Before(g, h) => Before(f, h)

ScanIsInOrder ==
  /\ phase = "mutator" => iter = handleHead /\ current = live
  /\ phase = "scan" =>
       \A g \in live : g \in current <=> iter = handleHead \/ Before(g, iter)

IInv == TypeOK /\ OlderIsOrder /\ RingIsInOrder /\ ScanIsInOrder

\* The list and its order only depend on the links.
LEMMA LinksUnchanged ==
  ASSUME OlderIsOrder, RingIsInOrder, UNCHANGED <<live, next, prev, older>>
  PROVE  OlderIsOrder' /\ RingIsInOrder'
<1>1. live' = live /\ next' = next /\ prev' = prev /\ older' = older
  OBVIOUS
<1>2. \A g, h : Before(g, h)' <=> Before(g, h)
  BY <1>1 DEF Before
<1>3. OlderIsOrder'
  BY <1>1, <1>2 DEF OlderIsOrder
<1>4. \A h, n : IsSuccessor(h, n)' <=> IsSuccessor(h, n)
  BY <1>1, <1>2 DEF IsSuccessor
<1>5. RingIsInOrder'
  <2> SUFFICES ASSUME NEW h \in Ring
               PROVE  /\ ({next[h], prev[h]} \subseteq Ring)'
                      /\ IsSuccessor(h, next[h])'
                      /\ (prev[next[h]] = h)'
                      /\ (next[prev[h]] = h)'
    BY <1>1 DEF RingIsInOrder, Ring
  <2>1. /\ {next[h], prev[h]} \subseteq Ring
        /\ IsSuccessor(h, next[h]) /\ prev[next[h]] = h /\ next[prev[h]] = h
    BY DEF RingIsInOrder
  <2> QED BY <1>1, <1>4, <2>1 DEF Ring
<1> QED BY <1>3, <1>5

LEMMA InitIInv == Init => IInv
BY HandlesAssumption
   DEF Init, IInv, TypeOK, OlderIsOrder, RingIsInOrder, ScanIsInOrder,
       IsSuccessor, Before, Ring

\* A Handle enters the list as its youngest.
LEMMA ConstructIInv ==
  ASSUME IInv, NEW h \in Cells, Construct(h)
  PROVE  IInv'
<1> USE HandlesAssumption
<1> USE DEF IInv, Construct, Ring
<1>1. TypeOK'
  BY DEF TypeOK
<1>2. OlderIsOrder'
  BY DEF TypeOK, OlderIsOrder, Before
<1>3. RingIsInOrder'
  <2> SUFFICES ASSUME NEW g \in Ring'
               PROVE  /\ ({next[g], prev[g]} \subseteq Ring)'
                      /\ IsSuccessor(g, next[g])'
                      /\ (prev[next[g]] = g)'
                      /\ (next[prev[g]] = g)'
    BY DEF RingIsInOrder
  <2>1. \A x \in Ring : next[x] \in Ring /\ prev[x] \in Ring /\ x # h
    BY DEF TypeOK, RingIsInOrder
  <2>2. ({next[g], prev[g]} \subseteq Ring)'
    BY <2>1 DEF TypeOK
  <2>3. CASE g = h
    BY <2>1, <2>2, <2>3 DEF TypeOK, RingIsInOrder, IsSuccessor, Before
  <2>4. CASE g # h /\ g = prev[handleHead]
    <3>1. next'[g] = h /\ next[g] = handleHead
      BY <2>1, <2>4 DEF TypeOK, RingIsInOrder
    <3>2. IsSuccessor(g, next[g])
      BY <2>1, <2>4 DEF RingIsInOrder
    <3>3. IsSuccessor(g, next[g])'
      BY <2>1, <2>4, <3>1, <3>2 DEF TypeOK, IsSuccessor, Before
    <3>4. (prev[next[g]] = g)'
      BY <2>1, <2>4, <3>1 DEF TypeOK
    <3>5. (next[prev[g]] = g)'
      BY <2>1, <2>4, <3>1 DEF TypeOK, RingIsInOrder
    <3> QED BY <2>2, <3>3, <3>4, <3>5
  <2>5. CASE g # h /\ g # prev[handleHead]
    <3>1. g \in Ring /\ next'[g] = next[g] /\ next[g] # handleHead
      BY <2>1, <2>5 DEF TypeOK, RingIsInOrder
    <3>2. IsSuccessor(g, next[g])
      BY <3>1 DEF RingIsInOrder
    <3>3. IsSuccessor(g, next[g])'
      BY <2>1, <2>5, <3>1, <3>2 DEF TypeOK, IsSuccessor, Before
    <3>4. (prev[next[g]] = g)'
      BY <2>1, <2>5, <3>1 DEF TypeOK, RingIsInOrder
    <3>5. (next[prev[g]] = g)'
      BY <2>1, <2>5, <3>1 DEF TypeOK, RingIsInOrder
    <3> QED BY <2>2, <3>3, <3>4, <3>5
  <2> QED BY <2>3, <2>4, <2>5
<1>4. ScanIsInOrder'
  BY DEF TypeOK, ScanIsInOrder
<1> QED BY <1>1, <1>2, <1>3, <1>4

\* A Handle leaves the list from wherever it is.
LEMMA DestroyIInv ==
  ASSUME IInv, NEW h \in Cells, Destroy(h)
  PROVE  IInv'
<1> USE HandlesAssumption
<1> USE DEF IInv, Destroy, Ring
<1>1. TypeOK'
  BY DEF TypeOK, ScanIsInOrder
<1>2. OlderIsOrder'
  BY DEF TypeOK, OlderIsOrder, Before
<1>3. RingIsInOrder'
  <2> SUFFICES ASSUME NEW g \in Ring'
               PROVE  /\ ({next[g], prev[g]} \subseteq Ring)'
                      /\ IsSuccessor(g, next[g])'
                      /\ (prev[next[g]] = g)'
                      /\ (next[prev[g]] = g)'
    BY DEF RingIsInOrder
  <2>1. IsSuccessor(g, next[g])'
    <3>1. CASE g = prev[h]
      <4>1. next'[g] = next[h] /\ next[g] = h
        BY <3>1 DEF TypeOK, RingIsInOrder
      <4>2. IsSuccessor(g, h) /\ IsSuccessor(h, next[h])
        BY <3>1, <4>1 DEF TypeOK, RingIsInOrder
      <4>3. next[h] # handleHead => g = handleHead \/ Before(g, next[h])
        BY <4>2 DEF OlderIsOrder, IsSuccessor, Before, TypeOK
      <4>4. \A f \in live \ {h} :
              g = handleHead \/ Before(g, f) =>
                next[h] # handleHead /\ (f = next[h] \/ Before(next[h], f))
        BY <4>2 DEF IsSuccessor
      <4>5. next[h] # h
        BY <4>2 DEF OlderIsOrder, IsSuccessor
      <4> QED BY <3>1, <4>1, <4>3, <4>4, <4>5 DEF TypeOK, IsSuccessor, Before
    <3>2. CASE g # prev[h]
      <4>1. next'[g] = next[g] /\ next[g] # h
        BY <3>2 DEF TypeOK, RingIsInOrder
      <4>2. IsSuccessor(g, next[g])
        BY DEF RingIsInOrder
      <4> QED BY <4>1, <4>2 DEF TypeOK, IsSuccessor, Before
    <3> QED BY <3>1, <3>2
  <2>2. (prev[next[g]] = g)'
    BY DEF TypeOK, RingIsInOrder
  <2>3. (next[prev[g]] = g)'
    BY DEF TypeOK, RingIsInOrder
  <2>4. ({next[g], prev[g]} \subseteq Ring)'
    BY DEF TypeOK, RingIsInOrder
  <2> QED BY <2>1, <2>2, <2>3, <2>4
<1>4. ScanIsInOrder'
  BY DEF TypeOK, ScanIsInOrder
<1> QED BY <1>1, <1>2, <1>3, <1>4

\* A collection starts on the oldest Handle, with none updated.
LEMMA BeginScanIInv == IInv /\ BeginScan => IInv'
<1> SUFFICES ASSUME IInv, BeginScan PROVE IInv'
  OBVIOUS
<1> USE HandlesAssumption
<1> USE DEF IInv, BeginScan, Ring
<1>1. next[handleHead] \in Ring /\ IsSuccessor(handleHead, next[handleHead])
  BY DEF RingIsInOrder
<1>2. TypeOK'
  BY <1>1 DEF TypeOK
<1>3. OlderIsOrder' /\ RingIsInOrder'
  BY LinksUnchanged
<1>4. ScanIsInOrder'
  BY <1>1 DEF ScanIsInOrder, OlderIsOrder, IsSuccessor, Before
<1> QED BY <1>2, <1>3, <1>4

\* The Handle that is updated is the next in order.
LEMMA ScanOneIInv == IInv /\ ScanOne => IInv'
<1> SUFFICES ASSUME IInv, ScanOne PROVE IInv'
  OBVIOUS
<1> USE HandlesAssumption
<1> USE DEF IInv, ScanOne, Ring
<1>1. iter \in live /\ next[iter] \in Ring /\ IsSuccessor(iter, next[iter])
  BY DEF TypeOK, RingIsInOrder, IsSuccessor, Before
<1>2. TypeOK'
  BY <1>1 DEF TypeOK
<1>3. OlderIsOrder' /\ RingIsInOrder'
  BY LinksUnchanged
<1>4. ScanIsInOrder'
  <2> SUFFICES ASSUME NEW g \in live
               PROVE  g \in current' <=> iter' = handleHead \/ Before(g, iter')
    BY DEF ScanIsInOrder, Before, TypeOK
  <2>1. g \in current' <=> g = iter \/ Before(g, iter)
    BY <1>1 DEF ScanIsInOrder
  <2>2. g = iter \/ Before(g, iter) \/ Before(iter, g)
    BY <1>1 DEF OlderIsOrder
  <2>3. CASE iter' = handleHead
    BY <1>1, <2>1, <2>2, <2>3 DEF IsSuccessor
  <2>4. CASE iter' # handleHead
    <3>1. Before(iter, iter') /\ iter' \in live
      BY <1>1, <2>4 DEF IsSuccessor
    <3>2. g = iter \/ Before(g, iter) => Before(g, iter')
      BY <1>1, <3>1 DEF OlderIsOrder
    <3>3. Before(iter, g) => g = iter' \/ Before(iter', g)
      BY <1>1, <2>4 DEF IsSuccessor
    <3>4. Before(g, iter') => ~(g = iter' \/ Before(iter', g))
      BY <3>1 DEF OlderIsOrder
    <3> QED BY <2>1, <2>2, <2>4, <3>2, <3>3, <3>4
  <2> QED BY <2>3, <2>4
<1> QED BY <1>2, <1>3, <1>4

LEMMA NextIInv == IInv /\ [Next]_vars => IInv'
<1> SUFFICES ASSUME IInv, [Next]_vars PROVE IInv'
  OBVIOUS
<1> USE HandlesAssumption
<1>1. ASSUME NEW h \in Cells, Construct(h) PROVE IInv'
  BY <1>1, ConstructIInv
<1>2. ASSUME NEW h \in Cells, Destroy(h) PROVE IInv'
  BY <1>2, DestroyIInv
<1>3. ASSUME NEW h \in Cells, NEW g \in Cells, Assign(h, g) PROVE IInv'
  <2>1. TypeOK' /\ ScanIsInOrder'
    BY <1>3 DEF IInv, Assign, Ring, TypeOK, ScanIsInOrder
  <2>2. OlderIsOrder' /\ RingIsInOrder'
    BY <1>3, LinksUnchanged DEF IInv, Assign
  <2> QED BY <2>1, <2>2 DEF IInv
<1>4. CASE BeginScan
  BY <1>4, BeginScanIInv
<1>5. CASE ScanOne
  BY <1>5, ScanOneIInv
<1>6. CASE EndScan
  <2>1. TypeOK' /\ ScanIsInOrder'
    BY <1>6 DEF IInv, EndScan, Ring, TypeOK, ScanIsInOrder
  <2>2. OlderIsOrder' /\ RingIsInOrder'
    BY <1>6, LinksUnchanged DEF IInv, EndScan
  <2> QED BY <2>1, <2>2 DEF IInv
<1>7. CASE UNCHANGED vars
  <2>1. TypeOK' /\ ScanIsInOrder'
    BY <1>7 DEF vars, IInv, Ring, TypeOK, ScanIsInOrder, Before
  <2>2. OlderIsOrder' /\ RingIsInOrder'
    BY <1>7, LinksUnchanged DEF IInv, vars
  <2> QED BY <2>1, <2>2 DEF IInv
<1> QED BY <1>1, <1>2, <1>3, <1>4, <1>5, <1>6, <1>7 DEF Next

\* The inductive invariant holds in every behaviour.
THEOREM Invariance == Spec => []IInv
BY InitIInv, NextIInv, PTL DEF Spec

\* gcCollect never follows a link into the memory of a dead Handle.
THEOREM Typing == Spec => []TypeOK
<1>1. IInv => TypeOK
  BY DEF IInv
<1> QED BY <1>1, Invariance, PTL

\* Construction, assignment and destruction in any order keep the list linked
\* both ways through exactly the live Handles.
THEOREM RingStaysInOrder == Spec => []RingIsInOrder
<1>1. IInv => RingIsInOrder
  BY DEF IInv
<1> QED BY <1>1, Invariance, PTL

\* When gcCollect returns, no Handle holds the old address of its object.
THEOREM NoHandleMissed == Spec => []HandlesAreCurrent
<1>1. IInv => HandlesAreCurrent
  BY DEF IInv, ScanIsInOrder, HandlesAreCurrent
<1> QED BY <1>1, Invariance, PTL
=============================================================================
