-------------------------- MODULE RelocationProofs --------------------------
(***************************************************************************)
(* For modules of any functions, and collections at any allocation: code   *)
(* that is finished has current addresses.                                 *)
(*                                                                         *)
(* The invariant says how the two arrays are related at any point: the     *)
(* word at k belongs to the instruction that the offset at k names, even   *)
(* where only one of the two has been recorded yet, and no instruction     *)
(* that loads an object is without an offset.                              *)
(***************************************************************************)
EXTENDS Relocations, SequenceTheorems, TLAPS

\* One array may be ahead by the entry for the instruction emitted last.
InStep ==
  /\ ("reloc" \in todo <=> "offset" \in todo) => Len(relocArray) = Len(ptrOffsets)
  /\ "reloc" \in todo /\ "offset" \notin todo =>
       /\ Len(ptrOffsets) = Len(relocArray) + 1
       /\ ptrOffsets[Len(ptrOffsets)] = Len(buffer)
  /\ "offset" \in todo /\ "reloc" \notin todo =>
       /\ Len(relocArray) = Len(ptrOffsets) + 1
       /\ relocArray[Len(relocArray)] = Word(Loaded, space)

Matched ==
  \A k \in 1..Len(ptrOffsets) :
    /\ ptrOffsets[k] \in 1..Len(buffer)
    /\ Body[ptrOffsets[k]] # NoObject
    /\ k <= Len(relocArray) => relocArray[k] = Word(Body[ptrOffsets[k]], space)

NoneForgotten ==
  \A i \in 1..Len(buffer) :
    Body[i] # NoObject =>
      \/ \E k \in 1..Len(ptrOffsets) : ptrOffsets[k] = i
      \/ i = Len(buffer) /\ "offset" \in todo

Orderly ==
  /\ todo # {} => "push" \in todo /\ Compiling /\ Len(buffer) > 0
  /\ "reloc" \in todo \/ "offset" \in todo => Loaded # NoObject
  /\ buffer = <<>> => ptrOffsets = <<>> /\ relocArray = <<>>
  /\ ~Compiling => buffer = <<>>

IInv == TypeOK /\ Orderly /\ InStep /\ Matched /\ NoneForgotten /\ CodeIsCurrent


-----------------------------------------------------------------------------
\* A function on 1..n is a sequence of length n.
LEMMA FunctionIsSeq ==
  ASSUME NEW S, NEW n \in Nat, NEW f \in [1..n -> S]
  PROVE  f \in Seq(S) /\ Len(f) = n
<1>1. f \in Seq(S)
  BY SeqDef
<1>2. DOMAIN f = 1..Len(f) /\ Len(f) \in Nat
  BY <1>1, LenProperties
<1>3. Len(f) = n
  BY <1>2, SMT
<1> QED BY <1>1, <1>3

\* The words of a traced sequence are those it had, for the same objects.
LEMMA UpdatedSeq ==
  ASSUME NEW ws \in Seq(CodeWords), NEW s \in {0, 1}
  PROVE  /\ UpdatedAll(ws, s) \in Seq(CodeWords)
         /\ Len(UpdatedAll(ws, s)) = Len(ws)
         /\ \A i \in 1..Len(ws) : UpdatedAll(ws, s)[i] = Updated(ws[i], s)
<1>1. DOMAIN ws = 1..Len(ws) /\ Len(ws) \in Nat /\ ws \in [1..Len(ws) -> CodeWords]
  BY LenProperties
<1>2. \A w \in CodeWords : Updated(w, s) \in CodeWords
  BY DEF Updated, CodeWords, Word
<1>3. UpdatedAll(ws, s) \in [1..Len(ws) -> CodeWords]
  BY <1>1, <1>2 DEF UpdatedAll
<1>4. \A i \in 1..Len(ws) : UpdatedAll(ws, s)[i] = Updated(ws[i], s)
  BY <1>1 DEF UpdatedAll
<1> QED BY <1>1, <1>3, <1>4, FunctionIsSeq

\* A current word is current in the new space when it was traced.
LEMMA UpdatedIsCurrent ==
  ASSUME NEW o, NEW s
  PROVE  /\ Updated(Word(o, space), s) = IF o = NoObject THEN Word(o, space) ELSE Word(o, s)
         /\ Updated(Zero, s) = Zero
BY DEF Updated, Word, Zero

\* The code that is finished stays current through an allocation.
LEMMA TracedCode ==
  ASSUME TypeOK, CodeIsCurrent, NEW s \in {0, 1},
         NEW new, new = [f \in DOMAIN code |-> UpdatedAll(code[f], s)]
  PROVE  /\ new \in Seq(Seq(CodeWords))
         /\ Len(new) = Len(code)
         /\ \A f \in 1..Len(new) :
              /\ DOMAIN new[f] = DOMAIN bodies[f]
              /\ \A i \in DOMAIN new[f] :
                   new[f][i] = IF bodies[f][i] = NoObject THEN Zero
                               ELSE Word(bodies[f][i], s)
<1>1. /\ DOMAIN code = 1..Len(code) /\ Len(code) \in Nat
      /\ \A f \in 1..Len(code) : code[f] \in Seq(CodeWords)
  BY LenProperties, ElementOfSeq DEF TypeOK
<1>2. \A f \in 1..Len(code) : UpdatedAll(code[f], s) \in Seq(CodeWords)
  BY <1>1, UpdatedSeq
<1>3. new \in [1..Len(code) -> Seq(CodeWords)]
  BY <1>1, <1>2
<1>4. new \in Seq(Seq(CodeWords)) /\ Len(new) = Len(code)
  BY <1>1, <1>3, FunctionIsSeq
<1>5. ASSUME NEW f \in 1..Len(code)
      PROVE  /\ DOMAIN new[f] = DOMAIN bodies[f]
             /\ \A i \in DOMAIN new[f] :
                  new[f][i] = IF bodies[f][i] = NoObject THEN Zero
                              ELSE Word(bodies[f][i], s)
  <2>1. new[f] = UpdatedAll(code[f], s)
    BY <1>1
  <2>2. DOMAIN new[f] = DOMAIN code[f]
    BY <2>1 DEF UpdatedAll
  <2>3. \A i \in DOMAIN new[f] : new[f][i] = Updated(code[f][i], s)
    BY <2>1, <2>2 DEF UpdatedAll
  <2>4. /\ DOMAIN code[f] = DOMAIN bodies[f]
        /\ \A i \in DOMAIN code[f] :
             code[f][i] = IF bodies[f][i] = NoObject THEN Zero
                          ELSE Word(bodies[f][i], space)
    BY <1>1 DEF CodeIsCurrent
  <2> QED BY ZenonT(40), <2>2, <2>3, <2>4, UpdatedIsCurrent
<1> QED BY <1>4, <1>5

LEMMA InitIInv == Init => IInv
<1> SUFFICES ASSUME Init PROVE IInv
  OBVIOUS
<1>1. /\ code \in Seq(Seq(CodeWords)) /\ buffer \in Seq({Zero})
      /\ relocArray \in Seq(CodeWords) /\ ptrOffsets \in Seq(Nat)
      /\ Len(code) = 0 /\ Len(buffer) = 0 /\ Len(relocArray) = 0 /\ Len(ptrOffsets) = 0
      /\ bodies \in Seq(Seq(Objects \cup {NoObject}))
  BY EmptySeq, ObjectsAssumption DEF Init
<1>2. Len(bodies) \in Nat /\ (Len(bodies) > 0 => Body \in Seq(Objects \cup {NoObject}))
  BY <1>1, LenProperties, ElementOfSeq DEF Body
<1>3. TypeOK
  BY <1>1, <1>2, LenProperties DEF Init, TypeOK, Compiling
<1>4. Orderly /\ InStep /\ Matched /\ NoneForgotten
  BY <1>1 DEF Init, Orderly, InStep, Matched, NoneForgotten
<1>5. CodeIsCurrent
  BY <1>1, LenProperties DEF CodeIsCurrent
<1> QED BY <1>3, <1>4, <1>5 DEF IInv

\* What an allocation leaves as it was.
LEMMA TracedStep ==
  ASSUME IInv, NEW s \in {0, 1}, Traced(s), bodies' = bodies
  PROVE  /\ code' \in Seq(Seq(CodeWords))
         /\ Len(code') = Len(code)
         /\ Body' = Body /\ (Compiling' <=> Compiling)
         /\ CodeIsCurrent'
<1>1. TypeOK /\ CodeIsCurrent
  BY DEF IInv
<1>2. space' = s /\ code' = [f \in DOMAIN code |-> UpdatedAll(code[f], s)]
  BY DEF Traced
<1>3. /\ code' \in Seq(Seq(CodeWords))
      /\ Len(code') = Len(code)
      /\ \A f \in 1..Len(code') :
           /\ DOMAIN code'[f] = DOMAIN bodies[f]
           /\ \A i \in DOMAIN code'[f] :
                code'[f][i] = IF bodies[f][i] = NoObject THEN Zero
                              ELSE Word(bodies[f][i], s)
  BY <1>1, <1>2, TracedCode
<1>4. DOMAIN code' = 1..Len(code')
  BY <1>3, LenProperties
<1>5. CodeIsCurrent'
  <2> SUFFICES ASSUME NEW f \in DOMAIN code'
               PROVE  /\ DOMAIN code'[f] = DOMAIN bodies'[f]
                      /\ \A i \in DOMAIN code'[f] :
                           code'[f][i] = IF bodies'[f][i] = NoObject THEN Zero
                                         ELSE Word(bodies'[f][i], space')
    BY Zenon DEF CodeIsCurrent, Zero, Word
  <2> QED BY <1>2, <1>3, <1>4
<1> QED BY <1>3, <1>5 DEF Body, Compiling

\* The lengths and elements that TypeOK implies.
LEMMA Lengths ==
  ASSUME TypeOK
  PROVE  /\ Len(code) \in Nat /\ Len(bodies) \in Nat
         /\ Len(buffer) \in Nat /\ Len(relocArray) \in Nat /\ Len(ptrOffsets) \in Nat
         /\ DOMAIN buffer = 1..Len(buffer)
         /\ DOMAIN ptrOffsets = 1..Len(ptrOffsets)
         /\ \A i \in 1..Len(buffer) : buffer[i] = Zero
         /\ Compiling => /\ Body \in Seq(Objects \cup {NoObject})
                         /\ Len(Body) \in Nat /\ DOMAIN Body = 1..Len(Body)
                         /\ \A i \in 1..Len(Body) : Body[i] \in Objects \cup {NoObject}
<1>1. bodies \in Seq(Seq(Objects \cup {NoObject})) /\ Len(bodies) \in Nat /\ Len(code) \in Nat
  BY ObjectsAssumption, LenProperties DEF TypeOK
<1>2. Compiling => Body \in Seq(Objects \cup {NoObject})
  BY <1>1, ElementOfSeq DEF Compiling, Body
<1>3. Compiling => /\ Len(Body) \in Nat /\ DOMAIN Body = 1..Len(Body)
                   /\ \A i \in 1..Len(Body) : Body[i] \in Objects \cup {NoObject}
  BY <1>2, LenProperties, ElementOfSeq
<1>4. \A i \in 1..Len(buffer) : buffer[i] = Zero
  BY ElementOfSeq DEF TypeOK
<1> QED BY <1>1, <1>2, <1>3, <1>4, LenProperties DEF TypeOK

-----------------------------------------------------------------------------
(***************************************************************************)
(* The steps.                                                              *)
(***************************************************************************)
LEMMA EmitIInv ==
  ASSUME IInv, Emit
  PROVE  IInv'
<1> USE DEF IInv
<1>1. /\ Compiling' <=> Compiling
      /\ Body' = Body
      /\ bodies' = bodies /\ space' = space /\ code' = code
      /\ relocArray' = relocArray /\ ptrOffsets' = ptrOffsets
  BY DEF Emit, Compiling, Body
<1>2. /\ buffer' \in Seq({Zero}) /\ Len(buffer') = Len(buffer) + 1
      /\ Len(buffer) \in Nat /\ buffer' # <<>>
  <2>1. buffer \in Seq({Zero}) /\ buffer' = Append(buffer, Zero) /\ Len(buffer) \in Nat
    BY Lengths DEF TypeOK, Emit
  <2>2. /\ buffer' \in Seq({Zero}) /\ Len(buffer') = Len(buffer) + 1
    BY <2>1, AppendProperties
  <2> QED BY <2>1, <2>2, EmptySeq
<1>3. /\ Compiling /\ todo = {} /\ Len(buffer) < Len(Body)
      /\ todo' = IF Body[Len(buffer) + 1] = NoObject THEN {"push"}
                 ELSE {"reloc", "offset", "push"}
      /\ Loaded' = Body[Len(buffer) + 1]
  BY <1>1, <1>2 DEF Emit, Loaded
<1>4. TypeOK'
  <2>1. Len(Body) \in Nat
    BY <1>3, Lengths
  <2>2. Len(buffer') <= Len(Body')
    BY <1>1, <1>2, <1>3, <2>1
  <2> QED BY <1>1, <1>2, <1>3, <2>2 DEF TypeOK, Zero, Word, CodeWords
<1>5. Orderly'
  BY <1>1, <1>2, <1>3 DEF Orderly
<1>6. Len(relocArray) = Len(ptrOffsets)
  BY <1>3 DEF InStep
<1>7. InStep'
  BY <1>1, <1>3, <1>6 DEF InStep
<1>8. Matched'
  BY <1>1, <1>2 DEF Matched
<1>9. NoneForgotten'
  <2> SUFFICES ASSUME NEW i \in 1..Len(buffer'), Body[i] # NoObject
               PROVE  \/ \E k \in 1..Len(ptrOffsets) : ptrOffsets[k] = i
                      \/ i = Len(buffer') /\ "offset" \in todo'
    BY <1>1 DEF NoneForgotten
  <2>1. CASE i = Len(buffer')
    BY <1>2, <1>3, <2>1
  <2>2. CASE i \in 1..Len(buffer)
    BY <1>3, <2>2 DEF NoneForgotten
  <2> QED BY <1>2, <2>1, <2>2
<1>10. CodeIsCurrent'
  BY <1>1 DEF CodeIsCurrent
<1> QED BY <1>4, <1>5, <1>7, <1>8, <1>9, <1>10

\* The words in relocArray are current, and an allocation keeps them so.
LEMMA TracedRelocs ==
  ASSUME IInv, Compiling, NEW s \in {0, 1}
  PROVE  /\ UpdatedAll(relocArray, s) \in Seq(CodeWords)
         /\ Len(UpdatedAll(relocArray, s)) = Len(relocArray)
         /\ \A k \in 1..Len(ptrOffsets) : k <= Len(relocArray) =>
              UpdatedAll(relocArray, s)[k] = Word(Body[ptrOffsets[k]], s)
         /\ "offset" \in todo /\ "reloc" \notin todo =>
              UpdatedAll(relocArray, s)[Len(relocArray)] = Word(Loaded, s)
<1> USE DEF IInv
<1>1. /\ UpdatedAll(relocArray, s) \in Seq(CodeWords)
      /\ Len(UpdatedAll(relocArray, s)) = Len(relocArray)
      /\ \A i \in 1..Len(relocArray) : UpdatedAll(relocArray, s)[i] = Updated(relocArray[i], s)
  BY UpdatedSeq DEF TypeOK
<1>2. Len(relocArray) \in Nat /\ Len(ptrOffsets) \in Nat
  BY Lengths
<1>3. ASSUME NEW k \in 1..Len(ptrOffsets), k <= Len(relocArray)
      PROVE  UpdatedAll(relocArray, s)[k] = Word(Body[ptrOffsets[k]], s)
  <2>1. Body[ptrOffsets[k]] # NoObject /\ relocArray[k] = Word(Body[ptrOffsets[k]], space)
    BY <1>3 DEF Matched
  <2>2. UpdatedAll(relocArray, s)[k] = Updated(relocArray[k], s)
    BY <1>1, <1>2, <1>3
  <2> QED BY <2>1, <2>2, UpdatedIsCurrent
<1>4. ASSUME "offset" \in todo, "reloc" \notin todo
      PROVE  UpdatedAll(relocArray, s)[Len(relocArray)] = Word(Loaded, s)
  <2>1. /\ Loaded # NoObject /\ Len(relocArray) = Len(ptrOffsets) + 1
        /\ relocArray[Len(relocArray)] = Word(Loaded, space)
    BY <1>4 DEF InStep, Orderly
  <2>2. UpdatedAll(relocArray, s)[Len(relocArray)] = Updated(relocArray[Len(relocArray)], s)
    BY <1>1, <1>2, <2>1
  <2> QED BY <2>1, <2>2, UpdatedIsCurrent
<1> QED BY <1>1, <1>3, <1>4

LEMMA RecordRelocIInv ==
  ASSUME IInv, RecordReloc
  PROVE  IInv'
<1> USE DEF IInv
<1>1. PICK s \in SpacesAfterAppend(relocArray) :
         /\ Traced(s)
         /\ relocArray' = Append(UpdatedAll(relocArray, s), Word(Loaded, s))
  BY DEF RecordReloc
<1>2. s \in {0, 1} /\ space' = s
  BY <1>1 DEF SpacesAfterAppend, Spaces, TypeOK, Traced
<1>3. /\ "reloc" \in todo /\ todo' = todo \ {"reloc"}
      /\ bodies' = bodies /\ buffer' = buffer /\ ptrOffsets' = ptrOffsets
  BY DEF RecordReloc
<1>4. /\ code' \in Seq(Seq(CodeWords)) /\ Len(code') = Len(code)
      /\ Body' = Body /\ (Compiling' <=> Compiling) /\ CodeIsCurrent'
  BY <1>1, <1>2, <1>3, TracedStep
<1>5. Loaded' = Loaded /\ Compiling /\ Len(buffer) \in Nat \ {0} /\ Loaded # NoObject
  BY <1>3, <1>4, Lengths DEF Loaded, Orderly
<1>6. Loaded \in Objects \cup {NoObject} /\ Word(Loaded, s) \in CodeWords
  <2>1. Len(buffer) \in 1..Len(Body)
    BY <1>5, Lengths DEF TypeOK
  <2>2. Loaded \in Objects \cup {NoObject}
    BY <1>5, <2>1, Lengths DEF Loaded
  <2> QED BY <1>2, <2>2 DEF Word, CodeWords
<1> DEFINE ws == UpdatedAll(relocArray, s)
<1>7. /\ ws \in Seq(CodeWords) /\ Len(ws) = Len(relocArray) /\ Len(relocArray) \in Nat
      /\ \A k \in 1..Len(ptrOffsets) : k <= Len(relocArray) =>
           ws[k] = Word(Body[ptrOffsets[k]], s)
  BY <1>2, <1>5, TracedRelocs, Lengths
<1> HIDE DEF ws
<1>8. /\ relocArray' \in Seq(CodeWords)
      /\ Len(relocArray') = Len(relocArray) + 1
      /\ \A k \in 1..Len(relocArray) : relocArray'[k] = ws[k]
      /\ relocArray'[Len(relocArray) + 1] = Word(Loaded, s)
  BY <1>1, <1>6, <1>7, AppendProperties DEF ws
<1>9. TypeOK'
  BY <1>2, <1>3, <1>4, <1>8 DEF TypeOK
<1>10. Orderly'
  BY <1>3, <1>4, <1>5 DEF Orderly
<1>11. Len(ptrOffsets) \in Nat
  BY Lengths
<1>12. InStep'
  BY <1>2, <1>3, <1>5, <1>7, <1>8, <1>11 DEF InStep
<1>13. Matched'
  <2> SUFFICES ASSUME NEW k \in 1..Len(ptrOffsets)
               PROVE  /\ ptrOffsets[k] \in 1..Len(buffer)
                      /\ Body[ptrOffsets[k]] # NoObject
                      /\ k <= Len(relocArray') =>
                           relocArray'[k] = Word(Body[ptrOffsets[k]], s)
    BY <1>2, <1>3, <1>4 DEF Matched
  <2>1. CASE k <= Len(relocArray)
    BY <1>7, <1>8, <1>11, <2>1 DEF Matched
  <2>2. CASE k > Len(relocArray) /\ k <= Len(relocArray')
    <3>1. /\ "offset" \notin todo /\ k = Len(ptrOffsets) /\ k = Len(relocArray) + 1
          /\ ptrOffsets[k] = Len(buffer)
      BY <1>3, <1>7, <1>8, <1>11, <2>2 DEF InStep
    <3> QED BY <1>8, <3>1 DEF Matched, Loaded
  <2> QED BY <1>7, <1>8, <1>11, <2>1, <2>2 DEF Matched
<1>14. NoneForgotten'
  BY <1>3, <1>4 DEF NoneForgotten
<1> QED BY <1>4, <1>9, <1>10, <1>12, <1>13, <1>14

LEMMA RecordOffsetIInv ==
  ASSUME IInv, RecordOffset
  PROVE  IInv'
<1> USE DEF IInv
<1>1. PICK s \in SpacesAfterAppend(ptrOffsets) :
         Traced(s) /\ relocArray' = UpdatedAll(relocArray, s)
  BY DEF RecordOffset
<1>2. s \in {0, 1} /\ space' = s
  BY <1>1 DEF SpacesAfterAppend, Spaces, TypeOK, Traced
<1>3. /\ "offset" \in todo /\ todo' = todo \ {"offset"}
      /\ bodies' = bodies /\ buffer' = buffer
      /\ ptrOffsets' = Append(ptrOffsets, Len(buffer))
  BY DEF RecordOffset
<1>4. /\ code' \in Seq(Seq(CodeWords)) /\ Len(code') = Len(code)
      /\ Body' = Body /\ (Compiling' <=> Compiling) /\ CodeIsCurrent'
  BY <1>1, <1>2, <1>3, TracedStep
<1>5. Loaded' = Loaded /\ Compiling /\ Len(buffer) \in Nat \ {0} /\ Loaded # NoObject
  BY <1>3, <1>4, Lengths DEF Loaded, Orderly
<1>6. /\ relocArray' \in Seq(CodeWords)
      /\ Len(relocArray') = Len(relocArray) /\ Len(relocArray) \in Nat
      /\ \A k \in 1..Len(ptrOffsets) : k <= Len(relocArray) =>
           relocArray'[k] = Word(Body[ptrOffsets[k]], s)
      /\ "reloc" \notin todo => relocArray'[Len(relocArray)] = Word(Loaded, s)
  BY <1>1, <1>2, <1>3, <1>5, TracedRelocs, Lengths
<1>7. /\ ptrOffsets' \in Seq(Nat) /\ Len(ptrOffsets) \in Nat
      /\ Len(ptrOffsets') = Len(ptrOffsets) + 1
      /\ \A k \in 1..Len(ptrOffsets) : ptrOffsets'[k] = ptrOffsets[k]
      /\ ptrOffsets'[Len(ptrOffsets) + 1] = Len(buffer)
  BY <1>3, <1>5, Lengths, AppendProperties DEF TypeOK
<1>8. TypeOK'
  BY <1>2, <1>3, <1>4, <1>6, <1>7 DEF TypeOK
<1>9. Orderly'
  BY <1>3, <1>4, <1>5, EmptySeq DEF Orderly, TypeOK
<1>10. InStep'
  BY <1>2, <1>3, <1>5, <1>6, <1>7 DEF InStep
<1>11. Matched'
  <2> SUFFICES ASSUME NEW k \in 1..Len(ptrOffsets')
               PROVE  /\ ptrOffsets'[k] \in 1..Len(buffer)
                      /\ Body[ptrOffsets'[k]] # NoObject
                      /\ k <= Len(relocArray') =>
                           relocArray'[k] = Word(Body[ptrOffsets'[k]], s)
    BY <1>2, <1>3, <1>4 DEF Matched
  <2>1. CASE k \in 1..Len(ptrOffsets)
    BY <1>6, <1>7, <2>1 DEF Matched
  <2>2. CASE k = Len(ptrOffsets) + 1
    <3>1. k <= Len(relocArray') => "reloc" \notin todo /\ k = Len(relocArray)
      BY <1>3, <1>6, <1>7, <2>2 DEF InStep
    <3> QED BY <1>5, <1>6, <1>7, <2>2, <3>1 DEF Loaded
  <2> QED BY <1>7, <2>1, <2>2
<1>12. NoneForgotten'
  <2> SUFFICES ASSUME NEW i \in 1..Len(buffer), Body[i] # NoObject
               PROVE  \E k \in 1..Len(ptrOffsets') : ptrOffsets'[k] = i
    BY <1>3, <1>4 DEF NoneForgotten
  <2>1. CASE i = Len(buffer)
    BY <1>7, <2>1
  <2>2. CASE \E k \in 1..Len(ptrOffsets) : ptrOffsets[k] = i
    BY <1>7, <2>2
  <2> QED BY <2>1, <2>2 DEF NoneForgotten
<1> QED BY <1>4, <1>8, <1>9, <1>10, <1>11, <1>12

LEMMA PushVirtualIInv ==
  ASSUME IInv, PushVirtual
  PROVE  IInv'
<1> USE DEF IInv
<1>1. PICK s \in Spaces : Traced(s) /\ relocArray' = UpdatedAll(relocArray, s)
  BY DEF PushVirtual
<1>2. s \in {0, 1} /\ space' = s
  BY <1>1 DEF Spaces, TypeOK, Traced
<1>3. /\ todo = {"push"} /\ todo' = {}
      /\ bodies' = bodies /\ buffer' = buffer /\ ptrOffsets' = ptrOffsets
  BY DEF PushVirtual
<1>4. /\ code' \in Seq(Seq(CodeWords)) /\ Len(code') = Len(code)
      /\ Body' = Body /\ (Compiling' <=> Compiling) /\ CodeIsCurrent'
  BY <1>1, <1>2, <1>3, TracedStep
<1>5. Compiling /\ Len(relocArray) = Len(ptrOffsets) /\ Len(buffer) > 0
  BY <1>3 DEF Orderly, InStep
<1>6. /\ relocArray' \in Seq(CodeWords)
      /\ Len(relocArray') = Len(relocArray)
      /\ \A k \in 1..Len(ptrOffsets) : k <= Len(relocArray) =>
           relocArray'[k] = Word(Body[ptrOffsets[k]], s)
  BY <1>1, <1>2, <1>5, TracedRelocs
<1>7. TypeOK'
  BY <1>2, <1>3, <1>4, <1>6 DEF TypeOK
<1>8. Orderly'
  BY <1>3, <1>4, <1>5, EmptySeq, Lengths DEF Orderly, TypeOK
<1>9. InStep'
  BY <1>3, <1>5, <1>6 DEF InStep
<1>10. Matched'
  BY <1>2, <1>3, <1>4, <1>6 DEF Matched
<1>11. NoneForgotten'
  BY <1>3, <1>4 DEF NoneForgotten
<1> QED BY <1>4, <1>7, <1>8, <1>9, <1>10, <1>11

LEMMA FinishIInv ==
  ASSUME IInv, Finish
  PROVE  IInv'
<1> USE DEF IInv
<1>1. PICK s \in Spaces :
         /\ space' = s
         /\ code' = Append([f \in DOMAIN code |-> UpdatedAll(code[f], s)],
                           Patched(UpdatedAll(relocArray, s)))
  BY DEF Finish
<1>2. /\ s \in {0, 1} /\ Compiling /\ todo = {} /\ Len(buffer) = Len(Body)
      /\ buffer' = <<>> /\ relocArray' = <<>> /\ ptrOffsets' = <<>>
      /\ bodies' = bodies /\ todo' = {}
  BY <1>1 DEF Finish, Spaces, TypeOK
<1> DEFINE old == [f \in DOMAIN code |-> UpdatedAll(code[f], s)]
           ws == UpdatedAll(relocArray, s)
           new == Patched(ws)
<1>3. /\ old \in Seq(Seq(CodeWords)) /\ Len(old) = Len(code)
      /\ \A f \in 1..Len(old) :
           /\ DOMAIN old[f] = DOMAIN bodies[f]
           /\ \A i \in DOMAIN old[f] :
                old[f][i] = IF bodies[f][i] = NoObject THEN Zero
                            ELSE Word(bodies[f][i], s)
  BY <1>2, TracedCode
<1>4. /\ Len(code) \in Nat /\ Len(bodies) \in Nat /\ Len(buffer) \in Nat
      /\ DOMAIN buffer = 1..Len(buffer)
      /\ DOMAIN ptrOffsets = 1..Len(ptrOffsets)
      /\ \A i \in 1..Len(buffer) : buffer[i] = Zero
      /\ DOMAIN Body = 1..Len(Body)
      /\ \A i \in 1..Len(Body) : Body[i] \in Objects \cup {NoObject}
  BY <1>2, Lengths
<1>5. \A k \in 1..Len(ptrOffsets) :
        Body[ptrOffsets[k]] # NoObject /\ ws[k] = Word(Body[ptrOffsets[k]], s)
  <2>1. Len(relocArray) = Len(ptrOffsets)
    BY <1>2 DEF InStep
  <2>2. \A k \in 1..Len(ptrOffsets) :
          k <= Len(relocArray) => ws[k] = Word(Body[ptrOffsets[k]], s)
    BY <1>2, TracedRelocs
  <2>3. Len(ptrOffsets) \in Nat
    BY Lengths
  <2>4. \A k \in 1..Len(ptrOffsets) : k <= Len(relocArray)
    BY <2>1, <2>3
  <2> QED BY <2>2, <2>4 DEF Matched
<1> HIDE DEF ws
<1>6. /\ DOMAIN new = 1..Len(Body)
      /\ \A i \in 1..Len(Body) :
           new[i] = IF Body[i] = NoObject THEN Zero ELSE Word(Body[i], s)
  <2>1. DOMAIN new = 1..Len(Body)
    BY <1>2, <1>4 DEF Patched
  <2>2. ASSUME NEW i \in 1..Len(Body)
        PROVE  new[i] = IF Body[i] = NoObject THEN Zero ELSE Word(Body[i], s)
    <3>1. CASE Body[i] = NoObject
      <4>1. ~\E k \in DOMAIN ptrOffsets : ptrOffsets[k] = i
        BY <1>4, <1>5, <3>1
      <4> QED BY <1>2, <1>4, <3>1, <4>1 DEF Patched
    <3>2. CASE Body[i] # NoObject
      <4>1. \E k \in DOMAIN ptrOffsets : ptrOffsets[k] = i
        BY <1>2, <1>4, <3>2 DEF NoneForgotten
      <4> DEFINE j == CHOOSE k \in DOMAIN ptrOffsets : ptrOffsets[k] = i
      <4>2. j \in 1..Len(ptrOffsets) /\ ptrOffsets[j] = i
        BY <1>4, <4>1
      <4>3. new[i] = ws[j]
        BY <1>2, <1>4, <4>1 DEF Patched
      <4> HIDE DEF j
      <4> QED BY <1>5, <3>2, <4>2, <4>3
    <3> QED BY <3>1, <3>2
  <2> QED BY <2>1, <2>2
<1> HIDE DEF new
<1>7. new \in Seq(CodeWords)
  <2>1. new \in [1..Len(Body) -> CodeWords]
    <3>1. \A i \in 1..Len(Body) : new[i] \in CodeWords
      BY <1>2, <1>4, <1>6 DEF Zero, Word, CodeWords
    <3>2. new = [i \in DOMAIN new |-> new[i]]
      BY <1>2, <1>4 DEF new, Patched
    <3> QED BY <1>6, <3>1, <3>2
  <2>2. Len(Body) \in Nat
    BY <1>2, <1>4
  <2> QED BY <2>1, <2>2, FunctionIsSeq
<1> HIDE DEF old
<1>8. /\ code' \in Seq(Seq(CodeWords)) /\ Len(code') = Len(code) + 1
      /\ \A f \in 1..Len(code) : code'[f] = old[f]
      /\ code'[Len(code) + 1] = new
  BY <1>1, <1>3, <1>7, AppendProperties DEF old, new, ws
<1>9. Len(code') <= Len(bodies')
  BY <1>2, <1>4, <1>8 DEF Compiling
<1>10. /\ Len(buffer') = 0 /\ Len(relocArray') = 0 /\ Len(ptrOffsets') = 0
       /\ buffer' \in Seq({Zero}) /\ relocArray' \in Seq(CodeWords)
       /\ ptrOffsets' \in Seq(Nat)
  BY <1>2, EmptySeq
<1>11. TypeOK'
  <2>1. Compiling' => Len(buffer') <= Len(Body')
    <3> SUFFICES ASSUME Compiling' PROVE Len(Body') \in Nat
      BY <1>10
    <3>1. bodies' \in Seq(Seq(Objects \cup {NoObject}))
      BY <1>2, ObjectsAssumption DEF TypeOK
    <3>2. Len(code') + 1 \in 1..Len(bodies')
      BY <1>2, <1>4, <1>8 DEF Compiling
    <3>3. Body' \in Seq(Objects \cup {NoObject})
      BY <3>1, <3>2, ElementOfSeq DEF Body
    <3> QED BY <3>3, LenProperties
  <2> QED BY <1>1, <1>2, <1>8, <1>9, <1>10, <2>1 DEF TypeOK
<1>12. Orderly' /\ InStep' /\ Matched' /\ NoneForgotten'
  BY <1>2, <1>10 DEF Orderly, InStep, Matched, NoneForgotten
<1>13. CodeIsCurrent'
  <2> SUFFICES ASSUME NEW f \in DOMAIN code'
               PROVE  /\ DOMAIN code'[f] = DOMAIN bodies[f]
                      /\ \A i \in DOMAIN code'[f] :
                           code'[f][i] = IF bodies[f][i] = NoObject THEN Zero
                                         ELSE Word(bodies[f][i], s)
    BY <1>1, <1>2, Zenon DEF CodeIsCurrent, Zero, Word
  <2>1. f \in 1..Len(code) \/ f = Len(code) + 1
    BY <1>4, <1>8, LenProperties
  <2>2. CASE f \in 1..Len(code)
    BY <1>3, <1>8, <2>2
  <2>3. CASE f = Len(code) + 1
    BY <1>4, <1>6, <1>8, <2>3 DEF Body
  <2> QED BY <2>1, <2>2, <2>3
<1> QED BY <1>11, <1>12, <1>13

LEMMA NextIInv ==
  ASSUME IInv, [Next]_vars
  PROVE  IInv'
<1>1. CASE Next
  BY <1>1, EmitIInv, RecordRelocIInv, RecordOffsetIInv, PushVirtualIInv, FinishIInv
     DEF Next
<1>2. CASE UNCHANGED vars
  BY <1>2 DEF vars, IInv, TypeOK, Orderly, InStep, Matched, NoneForgotten,
              CodeIsCurrent, Compiling, Body, Loaded
<1> QED BY <1>1, <1>2

\* For any module and any collections: the code of each function that is
\* finished has the current address of each object it refers to.
THEOREM CodeCurrent == Spec => []CodeIsCurrent
<1>1. IInv => CodeIsCurrent
  BY DEF IInv
<1> QED BY <1>1, InitIInv, NextIInv, PTL DEF Spec
=============================================================================
