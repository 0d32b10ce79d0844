---------------------------- MODULE MachineProofs ---------------------------
(***************************************************************************)
(* The theorems about compiled code at run time. First, what each          *)
(* instruction does to the frames, the registers and the memory of a       *)
(* machine that runs verified code: one lemma per instruction (...Runs),   *)
(* from lemmas on the parts of the invariant Runs(exe). Then the stack     *)
(* walk, which finds every frame and every Scheme word; so a collection    *)
(* keeps what the code can use; so the invariant of VerifiedCode is one,   *)
(* and the properties of Machine follow from it.                           *)
(***************************************************************************)
EXTENDS VerifiedCode, FiniteSetTheorems, SequenceTheorems, WellFoundedInduction,
        TLAPS

-----------------------------------------------------------------------------
(***************************************************************************)
(* Values and code.                                                        *)
(***************************************************************************)

\* A set of naturals has a least element: what an induction on the height of
\* the stack, or on the steps of a traversal, is made of here.
LEMMA LeastNatural ==
  ASSUME NEW T, T \subseteq Nat, T # {}
  PROVE  \E n \in T : \A m \in T : n <= m
<1>1. \E x \in T : \A y \in T : ~(<<y, x>> \in OpToRel(<, Nat))
  BY NatLessThanWellFounded, WFMin
<1>2. PICK x \in T : \A y \in T : ~(<<y, x>> \in OpToRel(<, Nat))
  BY <1>1
<1>3. \A y \in T : ~(y < x)
  BY <1>2 DEF OpToRel
<1> QED BY <1>3

\* What may be in a slot is of its type, and is not stale.
LEMMA ValuesTyped ==
  ASSUME NEW w \in Values
  PROVE  /\ SlotOK(w)
         /\ w # Stale
         /\ IsSchemeWord(w) <=> w \in SchemeWords
         /\ w.tag = "fd" => IsFrameDescr(w)
         /\ w.tag = "ret" => w \in [tag : {"ret"}, fn : Nat, ix : Nat]
<1> USE DEF HeapTags, ImmediateTags
<1>1. CASE w \in SchemeWords
  BY <1>1 DEF SchemeWords, SlotOK, IsSchemeWord, Stale
<1>2. CASE w = Junk
  BY <1>2 DEF SchemeWords, SlotOK, IsSchemeWord, Stale, Junk
<1>3. CASE w \in [tag : {"fd"}, frameSize : 0..(2 ^ 16 - 1),
                  ptrBitMap : [0..(kMapBytes - 1) -> -128..127]]
  <2>1. w.tag = "fd" /\ IsFrameDescr(w)
    BY <1>3 DEF IsFrameDescr
  <2>2. w # Stale /\ w \notin SchemeWords /\ ~IsSchemeWord(w)
    BY <2>1 DEF SchemeWords, Stale, IsSchemeWord
  <2> QED BY SMTT(30), <2>1, <2>2 DEF SlotOK
<1>4. CASE w \in [tag : {"ret"}, fn : Nat, ix : Nat]
  BY <1>4 DEF SchemeWords, SlotOK, IsSchemeWord, Stale
<1> QED BY ZenonT(40), <1>1, <1>2, <1>3, <1>4 DEF Values

\* What the code puts into slots: Scheme words, return addresses,
\* descriptors.
LEMMA WordsAreValues ==
  /\ SchemeWords \subseteq Values
  /\ Junk \in Values
  /\ \A f, i \in Nat : RetAddr(f, i) \in Values
  /\ \A fd : IsFrameDescr(fd) => Packed(fd) \in Values
<1>1. \A fd : IsFrameDescr(fd) => Packed(fd) \in Values
  BY DEF IsFrameDescr, Packed, Values
<1>2. \A f, i \in Nat : RetAddr(f, i) \in Values
  BY DEF RetAddr, Values
<1> QED BY ZenonT(40), <1>1, <1>2 DEF Values

\* What a sequence of an executable is, element by element.
LEMMA SequenceDomain ==
  ASSUME NEW s, IsSequence(s)
  PROVE  Len(s) \in Nat /\ DOMAIN s = 1..Len(s) /\ s = [i \in 1..Len(s) |-> s[i]]
BY DEF IsSequence

\* An executable passes the judgement.
LEMMA CodeFacts ==
  ASSUME NEW exe \in Executables
  PROVE  /\ Verified(exe)
         /\ exe.prog.option.stackCheck \in BOOLEAN
         /\ DOMAIN exe.functions = 1..Len(exe.functions)
         /\ Len(exe.functions) \in Nat
         /\ exe.functions = [f \in DOMAIN exe.functions |-> exe.functions[f]]
         /\ exe.globals = [i \in DOMAIN exe.globals |-> exe.globals[i]]
         /\ exe.pairs = [o \in DOMAIN exe.pairs |-> exe.pairs[o]]
         /\ DOMAIN exe.pairs \subseteq 1..HeapPairs
         /\ exe.main \in DOMAIN exe.functions
<1>1. Verified(exe)
  BY CodeAssumption
<1>2. IsSequence(exe.functions) /\ IsSequence(exe.globals) /\ IsFunction(exe.pairs)
  BY <1>1 DEF Verified
<1>3. /\ exe.prog.option.stackCheck \in BOOLEAN 
      /\ DOMAIN exe.pairs \subseteq 1..HeapPairs
      /\ exe.main \in DOMAIN exe.functions
  BY MachineAssumption
<1>4. /\ exe.functions = [f \in DOMAIN exe.functions |-> exe.functions[f]]
      /\ DOMAIN exe.functions = 1..Len(exe.functions)
      /\ Len(exe.functions) \in Nat
  BY <1>2, SequenceDomain
<1>5. exe.globals = [i \in DOMAIN exe.globals |-> exe.globals[i]]
  BY <1>2, SequenceDomain
<1> QED BY <1>1, <1>2, <1>3, <1>4, <1>5 DEF IsFunction

\* Every function of an executable passes it.
LEMMA FunctionFacts ==
  ASSUME NEW exe \in Executables, NEW f \in DOMAIN exe.functions
  PROVE  LET fun == exe.functions[f]
         IN  /\ FunctionVerified(exe, fun)
             /\ fun = [x \in DOMAIN fun |-> fun[x]]
             /\ "instrs" \in DOMAIN fun
             /\ Len(fun.instrs) \in Nat \ {0}
             /\ DOMAIN fun.instrs = 1..Len(fun.instrs)
             /\ fun.instrs = [i \in DOMAIN fun.instrs |-> fun.instrs[i]]
             /\ fun.arity \in 0..5
<1> DEFINE fun == exe.functions[f]
<1>1. FunctionVerified(exe, fun)
  BY CodeAssumption DEF Verified
<1>2. Len(ArgumentRegisters) = 5
  BY DEF ArgumentRegisters
<1>3. /\ IsFunction(fun)
      /\ "instrs" \in DOMAIN fun
      /\ IsSequence(fun.instrs)
      /\ Len(fun.instrs) > 0
      /\ fun.arity \in 0..Len(ArgumentRegisters)
  BY <1>1 DEF FunctionVerified
<1>4. /\ Len(fun.instrs) \in Nat
      /\ DOMAIN fun.instrs = 1..Len(fun.instrs)
      /\ fun.instrs = [i \in DOMAIN fun.instrs |-> fun.instrs[i]]
  BY <1>3, SequenceDomain
<1> QED BY <1>1, <1>2, <1>3, <1>4 DEF IsFunction

\* Every instruction of an executable passes it.
LEMMA InstructionFacts ==
  ASSUME NEW exe \in Executables, NEW f \in DOMAIN exe.functions,
         NEW i \in DOMAIN exe.functions[f].instrs
  PROVE  LET fun == exe.functions[f]
         IN  /\ i \in Nat \ {0}
             /\ IsFunction(fun.instrs[i])
             /\ {"op", "depth"} \subseteq DOMAIN fun.instrs[i]
             /\ FlowVerified(fun, i)
             /\ FrameVerified(fun, i)
             /\ DescriptorVerified(fun.instrs[i])
             /\ StackVerified(fun, i)
             /\ RegistersVerified(fun, i)
             /\ MemoryVerified(exe, fun, i)
             /\ exe.prog.option.stackCheck => PrologueVerified(fun, i)
<1>1. FunctionVerified(exe, exe.functions[f])
  BY FunctionFacts
<1>2. DOMAIN exe.functions[f].instrs = 1..Len(exe.functions[f].instrs)
      /\ Len(exe.functions[f].instrs) \in Nat
  BY FunctionFacts
<1>3. i \in Nat \ {0}
  BY <1>2
<1> QED BY <1>1, <1>3 DEF FunctionVerified

-----------------------------------------------------------------------------
(***************************************************************************)
(* Memory, and the instruction that runs.                                  *)
(***************************************************************************)

\* Words stay sound while the heap, the globals and the code stay.
LEMMA SameMemory ==
  ASSUME NEW exe, UNCHANGED <<code, heap, globals>>
  PROVE  /\ \A w : Sound(exe, w)' <=> Sound(exe, w)
         /\ \A w : Good(exe, w)' <=> Good(exe, w)
BY DEF Sound, Good, GlobalsKept, Intact

\* The Scheme words among the good values are the sound ones.
LEMMA GoodWords ==
  ASSUME NEW exe
  PROVE  /\ \A w : Sound(exe, w) => Good(exe, w) /\ IsSchemeWord(w)
         /\ \A w : Good(exe, w) /\ IsSchemeWord(w) => Sound(exe, w)
<1>1. \A w : Sound(exe, w) => w \in SchemeWords
  BY DEF Sound
<1>2. SchemeWords \subseteq Values
  BY WordsAreValues
<1>3. \A w \in SchemeWords : IsSchemeWord(w)
  BY <1>2, ValuesTyped
<1> QED BY <1>1, <1>2, <1>3 DEF Good

\* A step that reads and writes registers and slots only.
LEMMA ValuesStep ==
  ASSUME NEW exe, CodeOK(exe), MemoryOK(exe), UNCHANGED <<code, heap, globals>>,
         regs' \in [Registers -> Values],
         \A r \in Registers : Good(exe, regs'[r]),
         stack' \in Seq(Values),
         \A i \in DOMAIN stack' : Good(exe, stack'[i])
  PROVE  CodeOK(exe)' /\ MemoryOK(exe)'
<1>1. CodeOK(exe)'
  <2>1. \A f : Intact(exe, f)' <=> Intact(exe, f)
    BY DEF Intact
  <2>2. \A w : Sound(exe, w)' <=> Sound(exe, w)
    BY SameMemory
  <2> QED BY <2>1, <2>2 DEF CodeOK
<1>2. (\A r \in Registers : Good(exe, regs[r]))'
  BY SameMemory
<1>3. (\A i \in DOMAIN stack : Good(exe, stack[i]))'
  BY SameMemory
<1>4. (\A o \in DOMAIN heap : Sound(exe, heap[o].car) /\ Sound(exe, heap[o].cdr))'
  BY SameMemory DEF MemoryOK
<1>5. (\A i \in DOMAIN globals : Sound(exe, globals[i])
        \/ \A j \in DOMAIN globals : globals[j] = Stale)'
  <2>1. \/ \A i \in DOMAIN globals : Sound(exe, globals[i])
        \/ \A i \in DOMAIN globals : globals[i] = Stale
    BY DEF MemoryOK
  <2> QED BY <2>1, SameMemory
<1>6. (\/ \A i \in DOMAIN globals : Sound(exe, globals[i])
       \/ \A j \in DOMAIN globals : globals[j] = Stale)'
  <2>1. \/ \A i \in DOMAIN globals : Sound(exe, globals[i])
        \/ \A i \in DOMAIN globals : globals[i] = Stale
    BY DEF MemoryOK
  <2> QED BY <2>1, SameMemory
<1>7. /\ heap' = [o \in DOMAIN heap' |-> heap'[o]]
      /\ DOMAIN heap' \subseteq 1..HeapPairs
      /\ globals' = [i \in DOMAIN exe.globals |-> globals'[i]]
  BY DEF MemoryOK
<1> QED BY <1>1, <1>2, <1>3, <1>4, <1>6, <1>7 DEF MemoryOK

\* The instruction that runs is the one that was verified.
LEMMA AtInstruction ==
  ASSUME NEW exe \in Executables, Runs(exe), status = "running"
  PROVE  /\ Instr = Here(exe)
         /\ code[fn] = exe.functions[fn]
         /\ fn \in DOMAIN exe.functions
         /\ pc \in DOMAIN exe.functions[fn].instrs
         /\ pc \in Nat \ {0}
         /\ FlowVerified(exe.functions[fn], pc)
         /\ FrameVerified(exe.functions[fn], pc)
         /\ DescriptorVerified(Here(exe))
         /\ StackVerified(exe.functions[fn], pc)
         /\ RegistersVerified(exe.functions[fn], pc)
         /\ MemoryVerified(exe, exe.functions[fn], pc)
         /\ exe.prog.option.stackCheck => PrologueVerified(exe.functions[fn], pc)
         /\ Here(exe).depth \in Nat
<1>1. fn \in DOMAIN exe.functions /\ pc \in DOMAIN exe.functions[fn].instrs
  BY DEF Runs
<1>2. code[fn] = exe.functions[fn]
  BY DEF Runs, Intact
<1>3. Instr = Here(exe)
  BY <1>2 DEF Instr, Here
<1>4. FrameVerified(exe.functions[fn], pc)
  BY <1>1, InstructionFacts
<1>5. Here(exe).depth \in Nat
  BY <1>4 DEF FrameVerified, Here
<1> QED BY <1>1, <1>2, <1>3, <1>5, InstructionFacts DEF Here

\* Frames start above each other, and all of them in the stack.
LEMMA Bases ==
  ASSUME NEW exe \in Executables, Runs(exe), status = "running"
  PROVE  /\ Len(calls) \in Nat \ {0}
         /\ DOMAIN calls = 1..Len(calls)
         /\ Len(calls) \in DOMAIN calls
         /\ 1 \in DOMAIN calls
         /\ \A k \in DOMAIN calls :
              calls[k].base \in Nat \ {0} /\ calls[k].fn \in DOMAIN exe.functions
         /\ \A k \in DOMAIN calls : k < Len(calls) => calls[k].base + 3 <= calls[Len(calls)].base
         /\ \A k \in DOMAIN calls : calls[k].base <= calls[Len(calls)].base
         /\ Depth \in Nat
         /\ DOMAIN stack = 1..Depth
         /\ calls[Len(calls)].base <= Depth
<1>1. calls \in Seq([fn : DOMAIN exe.functions, base : Nat]) /\ stack \in Seq(Values)
  BY DEF Runs, MemoryOK
<1>2. Len(calls) > 0 /\ calls[1].base = 1 /\ Depth = calls[Len(calls)].base + Here(exe).depth
      /\ \A j, k \in DOMAIN calls : j < k => calls[j].base + 3 <= calls[k].base
  BY DEF Runs, FramesOK
<1>3. Here(exe).depth \in Nat
  BY AtInstruction
<1>4. /\ Len(calls) \in Nat \ {0}
      /\ DOMAIN calls = 1..Len(calls)
      /\ Len(calls) \in DOMAIN calls
      /\ 1 \in DOMAIN calls
  BY <1>1, <1>2
<1>5. \A k \in DOMAIN calls : calls[k].base \in Nat /\ calls[k].fn \in DOMAIN exe.functions
  <2>1. \A k \in DOMAIN calls : calls[k] \in [fn : DOMAIN exe.functions, base : Nat]
    BY <1>1, <1>4, ElementOfSeq
  <2> QED BY <2>1
<1>6. \A k \in DOMAIN calls : k # 1 => calls[1].base + 3 <= calls[k].base
  BY <1>2, <1>4
<1>7. \A k \in DOMAIN calls : calls[k].base # 0
  BY <1>6, <1>2, <1>5
<1>8. \A k \in DOMAIN calls : k < Len(calls) => calls[k].base + 3 <= calls[Len(calls)].base
  BY <1>2, <1>4
<1>9. \A k \in DOMAIN calls : k < Len(calls) \/ k = Len(calls)
  BY <1>4
<1>10. Depth \in Nat /\ DOMAIN stack = 1..Depth
  BY <1>1 DEF Depth
<1>11. \A k \in DOMAIN calls : calls[k].base <= calls[Len(calls)].base
  BY <1>5, <1>8, <1>9, <1>4
<1>12. calls[Len(calls)].base <= Depth
  BY <1>2, <1>3, <1>5, <1>4
<1> QED BY <1>4, <1>5, <1>7, <1>8, <1>10, <1>11, <1>12

-----------------------------------------------------------------------------
(***************************************************************************)
(* The frames, over a step in the top frame.                               *)
(***************************************************************************)

\* What a step inside the top frame may do to it: push, pop and overwrite
\* words above the closure, or give it up as a whole.
LEMMA FramesStep ==
  ASSUME NEW exe \in Executables, Runs(exe), status = "running",
         UNCHANGED <<fn, calls>>,
         pc > 2, pc' > 2, pc' \in DOMAIN exe.functions[fn].instrs,
         Here(exe).depth >= 2,
         stack' \in Seq(Values),
         Len(stack') = calls[Len(calls)].base + exe.functions[fn].instrs[pc'].depth,
         \A i \in DOMAIN stack' :
           i <= calls[Len(calls)].base + 2 => stack'[i] = stack[i],
         \A i \in DOMAIN stack' :
           i >= calls[Len(calls)].base + 2 => IsSchemeWord(stack'[i])
  PROVE  FramesOK(exe)'
<1> DEFINE n == Len(calls)
           top == calls[Len(calls)].base
           depth == exe.functions[fn].instrs[pc'].depth
<1>1. /\ n \in Nat \ {0} /\ DOMAIN calls = 1..n /\ n \in DOMAIN calls /\ 1 \in DOMAIN calls
      /\ \A k \in DOMAIN calls : calls[k].base \in Nat \ {0}
      /\ \A k \in DOMAIN calls : k < n => calls[k].base + 3 <= top
      /\ \A k \in DOMAIN calls : calls[k].base <= top
      /\ top \in Nat \ {0}
  BY Bases
<1>2. /\ depth \in Nat
      /\ depth >= 2 \/ depth = 0
  <2>1. pc' \in Nat /\ FrameVerified(exe.functions[fn], pc')
    BY InstructionFacts, AtInstruction
  <2> QED BY <2>1 DEF FrameVerified
<1>3. /\ Len(stack') \in Nat
      /\ DOMAIN stack' = 1..Len(stack')
      /\ Len(stack') = top + depth
  OBVIOUS
<1>4. pc' # 1 /\ ~(pc' <= 2) /\ pc # 1 /\ ~(pc <= 2) /\ pc \in Nat
  BY <1>1, InstructionFacts, AtInstruction
<1>5. FramesOK(exe)
  BY DEF Runs
<1>6. Here(exe)' = exe.functions[fn].instrs[pc']
  BY DEF Here
<1> HIDE DEF n, depth
<1>7. Depth = top + Here(exe).depth
  BY <1>5 DEF FramesOK
<1>8. /\ HasHead(n)
      /\ HasHead(n)' => depth >= 2
      /\ \A k \in DOMAIN calls : k < n => HasHead(k)
  <2>1. HasHead(n)
    BY <1>7, <1>1, AtInstruction DEF HasHead, n
  <2>2. HasHead(n)' => depth > 0
    BY SMTT(30), <1>2, <1>3, <1>4, <1>1 DEF HasHead, Depth, n
  <2> QED BY <2>1, <2>2, <1>2 DEF HasHead, n
<1>9. \A k \in DOMAIN calls : HasHead(k)' => Saved(k)' = Saved(k)
  <2> SUFFICES ASSUME NEW k \in DOMAIN calls, HasHead(k)' PROVE Saved(k)' = Saved(k)
    OBVIOUS
  <2>1. k < n \/ k = n
    BY <1>1
  <2>2. calls[k].base + 1 \in DOMAIN stack' /\ calls[k].base + 1 <= top + 2
    <3>1. calls[k].base + 1 \in 1..(top + depth) /\ calls[k].base + 1 <= top + 2
      <4>1. CASE k < n
        <5>1. calls[k].base \in Nat \ {0} /\ calls[k].base + 3 <= top /\ top \in Nat
          BY <4>1, <1>1
        <5> QED BY SMTT(30), <5>1, <1>2
      <4>2. CASE k = n
        <5>1. calls[k].base = top /\ top \in Nat \ {0} /\ depth >= 2
          BY <4>2, <1>1, <1>8 DEF n
        <5> QED BY SMTT(30), <5>1, <1>2
      <4> QED BY <2>1, <4>1, <4>2
    <3> QED BY <3>1, <1>3
  <2>3. stack'[calls[k].base + 1] = stack[calls[k].base + 1]
    BY <2>2
  <2> QED BY <2>3, <1>4 DEF Saved
<1>10. \A k \in DOMAIN calls : HasHead(k)' => ThisFunction(k)' = ThisFunction(k)
  <2> SUFFICES ASSUME NEW k \in DOMAIN calls, HasHead(k)' PROVE ThisFunction(k)' = ThisFunction(k)
    OBVIOUS
  <2>1. k < n \/ k = n
    BY <1>1
  <2>2. calls[k].base + 2 \in DOMAIN stack' /\ calls[k].base + 2 <= top + 2
    <3>1. calls[k].base + 2 \in 1..(top + depth) /\ calls[k].base + 2 <= top + 2
      <4>1. CASE k < n
        <5>1. calls[k].base \in Nat \ {0} /\ calls[k].base + 3 <= top /\ top \in Nat
          BY <4>1, <1>1
        <5> QED BY SMTT(30), <5>1, <1>2
      <4>2. CASE k = n
        <5>1. calls[k].base = top /\ top \in Nat \ {0} /\ depth >= 2
          BY <4>2, <1>1, <1>8 DEF n
        <5> QED BY SMTT(30), <5>1, <1>2
      <4> QED BY <2>1, <4>1, <4>2
    <3> QED BY <3>1, <1>3
  <2>3. stack'[calls[k].base + 2] = stack[calls[k].base + 2]
    BY <2>2
  <2> QED BY <2>3, <1>4 DEF ThisFunction
<1>11. \A k \in DOMAIN calls : HasHead(k)' => HasHead(k)
  <2> SUFFICES ASSUME NEW k \in DOMAIN calls PROVE HasHead(k)
    OBVIOUS
  <2>1. k < n \/ k = n
    BY <1>1
  <2> QED BY <2>1, <1>8
<1>12. stack'[1] = ToEntry
  <2>1. 1 \in DOMAIN stack' /\ 1 <= top + 2
    BY SMTT(30), <1>1, <1>2, <1>3
  <2> QED BY <2>1, <1>5 DEF FramesOK
<1>13. HasHead(1)' => Saved(1)' = Junk
  BY SMTT(30), <1>1, <1>9, <1>11, <1>5 DEF FramesOK
<1>14. ASSUME NEW k \in DOMAIN calls, k < n
       PROVE  Waits(exe, k)'
  <2>1. k + 1 \in DOMAIN calls
    BY <1>14, <1>1
  <2>2. calls[k + 1].base \in DOMAIN stack' /\ calls[k + 1].base <= top + 2
    BY SMTT(30), <2>1, <1>1, <1>2, <1>3
  <2>3. stack'[calls[k + 1].base] = stack[calls[k + 1].base]
    BY <2>2
  <2>4. Waits(exe, k)
    BY <1>14, <1>5 DEF FramesOK, n
  <2>5. (HasHead(k + 1)' => HasHead(k + 1)) /\ (HasHead(k + 1)' => Saved(k + 1)' = Saved(k + 1))
    BY <2>1, <1>9, <1>11
  <2> QED BY <2>3, <2>4, <2>5 DEF Waits
<1>15. ASSUME NEW k \in DOMAIN calls, HasHead(k)'
       PROVE  ThisFunction(k)' = Pointer("closure", calls[k].fn)
  BY <1>15, <1>10, <1>11, <1>5 DEF FramesOK
<1>16. ASSUME NEW k \in DOMAIN calls, NEW i \in (calls[k].base + 2)..TopOf(k)'
       PROVE  IsSchemeWord(stack'[i])
  <2>1. CASE k < n
    <3>1. TopOf(k)' = TopOf(k) /\ TopOf(k) = calls[k + 1].base - 1 /\ k + 1 \in DOMAIN calls
      BY <2>1, <1>1 DEF TopOf, n
    <3>2. calls[k + 1].base \in Nat /\ calls[k + 1].base <= top /\ calls[k].base \in Nat
      BY <3>1, <1>1
    <3>3. i \in (calls[k].base + 2)..(calls[k + 1].base - 1)
      BY <3>1
    <3>4. i \in Nat \ {0} /\ i <= top
      BY SMTT(30), <3>2, <3>3, <1>1
    <3>5. i \in DOMAIN stack' /\ i <= top + 2
      BY SMTT(30), <3>4, <1>1, <1>2, <1>3
    <3>6. IsSchemeWord(stack[i])
      BY <3>1, <1>5 DEF FramesOK
    <3> QED BY <3>5, <3>6
  <2>2. CASE k = n
    <3>1. TopOf(k)' = Len(stack')
      BY <2>2 DEF TopOf, Depth, n
    <3>2. i \in DOMAIN stack' /\ i >= top + 2
      BY SMTT(30), <3>1, <2>2, <1>1, <1>2, <1>3 DEF n
    <3> QED BY <3>2
  <2> QED BY <2>1, <2>2, <1>1
<1>17. /\ Len(calls') > 0
       /\ calls'[Len(calls')].fn = fn'
       /\ calls'[1].base = 1
       /\ \A j, k \in DOMAIN calls' : j < k => calls'[j].base + 3 <= calls'[k].base
  BY <1>5 DEF FramesOK
<1>18. Depth' = calls'[Len(calls')].base + Here(exe)'.depth
  BY <1>3, <1>6 DEF Depth, depth
<1> QED BY <1>12, <1>13, <1>14, <1>15, <1>16, <1>17, <1>18 DEF FramesOK, n

-----------------------------------------------------------------------------
(***************************************************************************)
(* Registers, and what an instruction is prepared for.                     *)
(***************************************************************************)
\* A register holds a word after an instruction that put it there, or that
\* kept one that was there before.
LEMMA HoldsNext ==
  ASSUME NEW f, NEW i \in Nat \ {0}, NEW r, HoldsWord(f, i + 1, r)
  PROVE  Sets(f.instrs[i], r) \/ (Keeps(f.instrs[i], r) /\ HoldsWord(f, i, r))
<1>1. PICK j \in 0..i :
        /\ IF j = 0 THEN r \in EntryRegisters(f.arity) ELSE Sets(f.instrs[j], r)
        /\ \A k \in (j + 1)..i : Keeps(f.instrs[k], r)
        /\ \A k \in (j + 1)..(i + 1) : k \notin JumpTargets(f)
  BY DEF HoldsWord
<1>2. CASE j = i
  BY <1>1, <1>2
<1>3. CASE j # i
  <2>1. j \in 0..(i - 1) /\ i \in (j + 1)..i /\ (j + 1)..(i - 1) \subseteq (j + 1)..i
        /\ (j + 1)..i \subseteq (j + 1)..(i + 1)
    BY <1>3
  <2>2. Keeps(f.instrs[i], r)
    BY <2>1, <1>1
  <2>3. HoldsWord(f, i, r)
    BY <2>1, <1>1 DEF HoldsWord
  <2> QED BY <2>2, <2>3
<1> QED BY <1>2, <1>3

\* No register is known to hold a word where a jump may arrive.
LEMMA HoldsNothingAtTarget ==
  ASSUME NEW f, NEW i \in JumpTargets(f), i \in Nat \ {0}, NEW r
  PROVE  ~HoldsWord(f, i, r)
<1>1. \A j \in 0..(i - 1) : i \in (j + 1)..i
  OBVIOUS
<1> QED BY <1>1 DEF HoldsWord

\* At the first instruction, the registers are those of the call.
LEMMA HoldsAtEntry ==
  ASSUME NEW f, NEW r
  PROVE  HoldsWord(f, 1, r) => r \in EntryRegisters(f.arity)
BY DEF HoldsWord

\* The registers that hold words, over one instruction in a frame.
LEMMA RegistersStep ==
  ASSUME NEW exe \in Executables, Runs(exe), status = "running",
         fn' = fn, pc' = pc + 1,
         \A r \in Registers : Keeps(Here(exe), r) => regs'[r] = regs[r],
         \A r \in Registers : Sets(Here(exe), r) => IsSchemeWord(regs'[r])
  PROVE  RegistersOK(exe)'
<1> SUFFICES ASSUME NEW r \in Registers, HoldsWord(exe.functions[fn], pc + 1, r)
             PROVE  IsSchemeWord(regs'[r])
  BY DEF RegistersOK
<1>1. pc \in Nat \ {0}
  BY AtInstruction
<1>2. Sets(Here(exe), r) \/ (Keeps(Here(exe), r) /\ HoldsWord(exe.functions[fn], pc, r))
  BY <1>1, HoldsNext DEF Here
<1>3. RegistersOK(exe)
  BY DEF Runs
<1> QED BY <1>2, <1>3 DEF RegistersOK

\* Most instructions need no preparation.
LEMMA Unprepared ==
  ASSUME NEW exe \in Executables,
         fn' \in DOMAIN exe.functions,
         pc' \in DOMAIN exe.functions[fn'].instrs,
         \A op \in {"mov", "reserve", "checkCall"} :
           ~Follows(exe.functions[fn'], pc', op)
  PROVE  Prepared(exe)'
<1> DEFINE f == exe.functions[fn']
<1>1. RegistersVerified(f, pc') /\ MemoryVerified(exe, f, pc')
  BY InstructionFacts
<1>2. Here(exe)' = f.instrs[pc']
  BY DEF Here
<1> HIDE DEF f
<1>3. Here(exe)'.op \notin {"call", "tailCall"}
  BY <1>1, <1>2 DEF RegistersVerified, f
<1>4. Here(exe)'.op \notin {"loadElem", "storeElem", "fill"}
  BY <1>1, <1>2 DEF MemoryVerified, f
<1> QED BY <1>3, <1>4 DEF Prepared

-----------------------------------------------------------------------------
(***************************************************************************)
(* The height of the stack.                                                *)
(***************************************************************************)
DepthsOf(functions) ==
  UNION {{functions[f].instrs[i].depth : i \in DOMAIN functions[f].instrs} :
           f \in DOMAIN functions}

\* A finite set of naturals is bounded.
LEMMA SomeBound ==
  ASSUME NEW S, IsFiniteSet(S), S \subseteq Nat
  PROVE  \E b \in Nat : \A x \in S : x <= b
<1> DEFINE Bounded(T) == \E b \in Nat : \A x \in T : x <= b
           Sizes == {m \in Nat : \E T \in SUBSET Nat :
                       IsFiniteSet(T) /\ Cardinality(T) = m /\ ~Bounded(T)}
<1> SUFFICES ASSUME ~Bounded(S) PROVE FALSE
  OBVIOUS
<1>1. Cardinality(S) \in Sizes
  BY FS_CardinalityType
<1>2. PICK m \in Sizes : \A k \in Sizes : m <= k
  <2> HIDE DEF Sizes
  <2>1. Sizes \subseteq Nat
    BY DEF Sizes
  <2> QED BY <1>1, <2>1, LeastNatural
<1>3. PICK T \in SUBSET Nat : IsFiniteSet(T) /\ Cardinality(T) = m /\ ~Bounded(T)
  BY <1>2
<1>4. PICK x \in T : TRUE
  <2>1. T # {}
    BY <1>3
  <2> QED BY <2>1
<1>5. IsFiniteSet(T \ {x}) /\ Cardinality(T \ {x}) = m - 1
  BY <1>3, FS_RemoveElement
<1>6. m \in Nat /\ m - 1 \in Nat /\ ~(m <= m - 1)
  <2>1. Cardinality(T \ {x}) \in Nat
    BY <1>5, FS_CardinalityType
  <2> QED BY <2>1, <1>5, <1>2
<1>7. Bounded(T \ {x})
  <2>1. m - 1 \notin Sizes
    BY <1>2, <1>6
  <2> QED BY <2>1, <1>5, <1>6
<1>8. PICK b \in Nat : \A y \in T \ {x} : y <= b
  BY <1>7
<1>9. Bounded(T)
  <2> DEFINE c == IF x <= b THEN b ELSE x
  <2>1. c \in Nat /\ b <= c /\ x <= c
    BY <1>4
  <2>2. \A y \in T : y <= c
    BY <2>1, <1>8
  <2> HIDE DEF c
  <2> QED BY <2>1, <2>2
<1> QED BY <1>9, <1>3

\* And it has a greatest element.
LEMMA Greatest ==
  ASSUME NEW S, IsFiniteSet(S), S \subseteq Nat, S # {}
  PROVE  \E m \in S : \A x \in S : x <= m
<1> DEFINE Bounds == {b \in Nat : \A x \in S : x <= b}
<1>1. PICK m \in Bounds : \A b \in Bounds : m <= b
  <2>1. Bounds # {} /\ Bounds \subseteq Nat
    BY SomeBound
  <2> HIDE DEF Bounds
  <2> QED BY <2>1, LeastNatural
<1>2. m \in S
  <2> SUFFICES ASSUME m \notin S PROVE FALSE
    OBVIOUS
  <2>1. \A x \in S : x < m
    BY <1>1
  <2>2. m # 0
    <3>1. PICK x \in S : TRUE
      OBVIOUS
    <3>2. x \in Nat /\ x < m
      BY <2>1
    <3> QED BY <3>2
  <2>3. m - 1 \in Bounds
    BY <2>1, <2>2
  <2> QED BY <2>3, <1>1
<1> QED BY <1>1, <1>2

\* A function on a finite set has a finite range, and not a larger one.
LEMMA FiniteRange ==
  ASSUME NEW S, IsFiniteSet(S), NEW g, g = [x \in S |-> g[x]]
  PROVE  /\ IsFiniteSet({g[x] : x \in S})
         /\ Cardinality({g[x] : x \in S}) <= Cardinality(S)
<1> DEFINE T == {g[x] : x \in S}
<1>1. g \in Surjection(S, T)
  BY DEF Surjection
<1> QED BY <1>1, FS_Surjection

\* There are finitely many depths in the code of an executable.
LEMMA DepthsAreFinite ==
  ASSUME NEW exe \in Executables
  PROVE  /\ IsFiniteSet(DepthsOf(exe.functions))
         /\ DepthsOf(exe.functions) \subseteq Nat
         /\ DepthsOf(exe.functions) # {}
<1> DEFINE Of(f) == {exe.functions[f].instrs[i].depth : i \in DOMAIN exe.functions[f].instrs}
           All == {Of(f) : f \in DOMAIN exe.functions}
<1>1. \A f \in DOMAIN exe.functions : IsFiniteSet(Of(f))
  <2> SUFFICES ASSUME NEW f \in DOMAIN exe.functions PROVE IsFiniteSet(Of(f))
    OBVIOUS
  <2>1. DOMAIN exe.functions[f].instrs = 1..Len(exe.functions[f].instrs)
        /\ Len(exe.functions[f].instrs) \in Nat
    BY FunctionFacts
  <2>2. IsFiniteSet(1..Len(exe.functions[f].instrs))
    BY <2>1, FS_Interval
  <2> DEFINE g == [i \in DOMAIN exe.functions[f].instrs |-> exe.functions[f].instrs[i].depth]
  <2>3. IsFiniteSet(DOMAIN exe.functions[f].instrs)
    BY <2>1, <2>2
  <2>4. IsFiniteSet({g[i] : i \in DOMAIN exe.functions[f].instrs})
    <3>1. g = [i \in DOMAIN exe.functions[f].instrs |-> g[i]]
      OBVIOUS
    <3> HIDE DEF g
    <3> QED BY <3>1, <2>3, FiniteRange
  <2> QED BY <2>4
<1>2. IsFiniteSet(All)
  <2>1. DOMAIN exe.functions = 1..Len(exe.functions) /\ Len(exe.functions) \in Nat
    BY CodeFacts
  <2>2. IsFiniteSet(1..Len(exe.functions))
    BY <2>1, FS_Interval
  <2>3. IsFiniteSet(DOMAIN exe.functions)
    BY <2>1, <2>2
  <2> DEFINE g == [f \in DOMAIN exe.functions |-> Of(f)]
  <2>4. IsFiniteSet({g[f] : f \in DOMAIN exe.functions})
    <3>1. g = [f \in DOMAIN exe.functions |-> g[f]]
      OBVIOUS
    <3> HIDE DEF g
    <3> QED BY <3>1, <2>3, FiniteRange
  <2> QED BY <2>4
<1>3. IsFiniteSet(UNION All)
  BY <1>1, <1>2, FS_UNION
<1>4. \A f \in DOMAIN exe.functions : Of(f) \subseteq Nat
  BY InstructionFacts DEF FrameVerified
<1>5. exe.main \in DOMAIN exe.functions /\ 1 \in DOMAIN exe.functions[exe.main].instrs
  <2>1. exe.main \in DOMAIN exe.functions
    BY CodeFacts
  <2>2. /\ Len(exe.functions[exe.main].instrs) \in Nat \ {0}
        /\ DOMAIN exe.functions[exe.main].instrs = 1..Len(exe.functions[exe.main].instrs)
    BY <2>1, FunctionFacts
  <2> QED BY <2>1, <2>2
<1>6. UNION All # {}
  <2>1. exe.functions[exe.main].instrs[1].depth \in Of(exe.main)
    BY <1>5
  <2>2. Of(exe.main) \in All
    BY <1>5
  <2> HIDE DEF Of, All
  <2> QED BY <2>1, <2>2
<1> QED BY <1>3, <1>4, <1>6 DEF DepthsOf

DeepestOf(functions) ==
  CHOOSE d \in DepthsOf(functions) : \A e \in DepthsOf(functions) : e <= d

DeepestClaim ==
  \A exe \in Executables : CodeOK(exe) =>
    /\ DeepestFrame \in Nat
    /\ \A f \in DOMAIN exe.functions : \A i \in DOMAIN exe.functions[f].instrs :
         exe.functions[f].instrs[i].depth <= DeepestFrame
    /\ DeepestFrame = DeepestOf(exe.functions)

\* The deepest frame is that of the executable as it was compiled.
LEMMA Deepest == DeepestClaim
<1> SUFFICES ASSUME NEW exe \in Executables, CodeOK(exe)
             PROVE  /\ DeepestFrame \in Nat
                    /\ \A f \in DOMAIN exe.functions :
                         \A i \in DOMAIN exe.functions[f].instrs :
                           exe.functions[f].instrs[i].depth <= DeepestFrame
                    /\ DeepestFrame = DeepestOf(exe.functions)
  BY DEF DeepestClaim
<1> DEFINE D == DepthsOf(exe.functions)
<1>1. /\ DOMAIN code = DOMAIN exe.functions
      /\ \A f \in DOMAIN code :
           /\ DOMAIN code[f].instrs = DOMAIN exe.functions[f].instrs
           /\ \A i \in DOMAIN code[f].instrs :
                code[f].instrs[i].depth = exe.functions[f].instrs[i].depth
  BY DEF CodeOK, InstructionKept
<1>2. DepthsOf(code) = D
  BY <1>1 DEF DepthsOf
<1>3. /\ DeepestFrame = DeepestOf(exe.functions)
      /\ DeepestFrame = CHOOSE d \in D : \A e \in D : e <= d
  BY <1>2 DEF DeepestFrame, DepthsOf, DeepestOf
<1>4. \E d \in D : \A e \in D : e <= d
  BY Greatest, DepthsAreFinite
<1>5. DeepestFrame \in D /\ \A e \in D : e <= DeepestFrame
  BY <1>3, <1>4
<1>6. D \subseteq Nat
  BY DepthsAreFinite
<1>7. \A f \in DOMAIN exe.functions : \A i \in DOMAIN exe.functions[f].instrs :
        exe.functions[f].instrs[i].depth \in D
  BY DEF DepthsOf
<1> QED BY <1>3, <1>5, <1>6, <1>7

\* Constants that go out of date do not change how deep frames are.
LEMMA DeepestKept ==
  ASSUME NEW exe \in Executables, CodeOK(exe), CodeOK(exe)'
  PROVE  DeepestFrame' = DeepestFrame
<1>1. DeepestClaim'
  BY Deepest, PTL
<1>2. DeepestFrame' = DeepestOf(exe.functions)
  BY <1>1 DEF DeepestClaim
<1>3. DeepestFrame = DeepestOf(exe.functions)
  BY Deepest DEF DeepestClaim
<1> QED BY <1>2, <1>3

\* Where frames start, over a step that leaves the frames as they are.
LEMMA HeightStep ==
  ASSUME NEW exe \in Executables, Runs(exe), status = "running",
         UNCHANGED <<prog, fn, calls>>, CodeOK(exe)',
         \/ pc' = pc + 1
         \/ Here(exe).op \notin {"push", "checkStack"},
         Here(exe).op = "checkStack" => Depth <= StackLimit
  PROVE  HeightOK(exe)'
<1> SUFFICES ASSUME prog.option.stackCheck
             PROVE  /\ \A k \in DOMAIN calls : k < Len(calls) => calls[k].base <= StackLimit
                    /\ Checked(exe.functions[fn], pc') => calls[Len(calls)].base <= StackLimit
                    /\ calls[Len(calls)].base <= StackLimit + DeepestFrame' + 1
  BY DEF HeightOK
<1>1. HeightOK(exe) /\ CodeOK(exe) /\ prog = exe.prog
  BY DEF Runs
<1>2. DeepestFrame' = DeepestFrame
  BY <1>1, DeepestKept
<1>3. Checked(exe.functions[fn], pc') => calls[Len(calls)].base <= StackLimit
  <2>1. Here(exe) = exe.functions[fn].instrs[pc] /\ pc \in Nat
    BY AtInstruction DEF Here
  <2>2. calls[Len(calls)].base \in Nat /\ Depth \in Nat /\ calls[Len(calls)].base <= Depth
    BY Bases
  <2>3. CASE Here(exe).op = "checkStack"
    BY <2>2, <2>3, MachineAssumption
  <2>4. CASE Here(exe).op # "checkStack" /\ pc' = pc + 1
    <3>1. \A j \in 1..(pc' - 1) : j \in 1..(pc - 1) \/ j = pc
      BY <2>1, <2>4
    <3>2. Checked(exe.functions[fn], pc') => Checked(exe.functions[fn], pc)
      BY <3>1, <2>1, <2>4 DEF Checked
    <3> QED BY <3>2, <1>1 DEF HeightOK
  <2>5. CASE Here(exe).op \notin {"push", "checkStack"}
    <3>1. Checked(exe.functions[fn], pc)
      BY <2>5, <1>1, <2>1, AtInstruction DEF PrologueVerified
    <3> QED BY <3>1, <1>1 DEF HeightOK
  <2> QED BY <2>3, <2>4, <2>5
<1> QED BY <1>1, <1>2, <1>3 DEF HeightOK

BoundClaim ==
  \A exe \in Executables :
    /\ prog = exe.prog
    /\ fn \in DOMAIN exe.functions
    /\ pc \in DOMAIN exe.functions[fn].instrs
    /\ CodeOK(exe)
    /\ calls \in Seq([fn : DOMAIN exe.functions, base : Nat])
    /\ FramesOK(exe)
    /\ HeightOK(exe)
    => StackIsBounded

\* The check of each function bounds the stack: what runs before it is at
\* most the prologue, and the frame it runs in started below the limit.
LEMMA BoundedByHeight == BoundClaim
<1> SUFFICES ASSUME NEW exe \in Executables,
                    prog = exe.prog,
                    fn \in DOMAIN exe.functions,
                    pc \in DOMAIN exe.functions[fn].instrs,
                    CodeOK(exe),
                    calls \in Seq([fn : DOMAIN exe.functions, base : Nat]),
                    FramesOK(exe), HeightOK(exe),
                    prog.option.stackCheck
             PROVE  Depth <= StackLimit + DeepestFrame + 8
  BY DEF StackIsBounded, BoundClaim
<1>1. /\ Here(exe).depth \in Nat
      /\ PrologueVerified(exe.functions[fn], pc)
  BY InstructionFacts DEF Here, FrameVerified
<1>2. Here(exe).depth <= DeepestFrame /\ DeepestFrame \in Nat
  BY Deepest DEF Here, DeepestClaim
<1>3. Depth = calls[Len(calls)].base + Here(exe).depth /\ calls[Len(calls)].base \in Nat
  <2>1. Depth = calls[Len(calls)].base + Here(exe).depth /\ Len(calls) > 0
    BY DEF FramesOK
  <2>2. Len(calls) \in 1..Len(calls)
    BY <2>1
  <2>3. calls[Len(calls)] \in [fn : DOMAIN exe.functions, base : Nat]
    BY <2>1, <2>2, ElementOfSeq
  <2> QED BY <2>1, <2>3
<1>4. StackLimit \in Nat
  BY MachineAssumption
<1>5. CASE Checked(exe.functions[fn], pc)
  <2>1. calls[Len(calls)].base <= StackLimit
    BY <1>5 DEF HeightOK
  <2> QED BY <2>1, <1>1, <1>2, <1>3, <1>4
<1>6. CASE ~Checked(exe.functions[fn], pc)
  <2>1. Here(exe).depth <= 7
    BY <1>1, <1>6 DEF PrologueVerified, Here
  <2>2. calls[Len(calls)].base <= StackLimit + DeepestFrame + 1
    BY DEF HeightOK
  <2> QED BY <2>1, <2>2, <1>1, <1>2, <1>3, <1>4
<1> QED BY <1>5, <1>6

-----------------------------------------------------------------------------
(***************************************************************************)
(* Steps within a frame.                                                   *)
(***************************************************************************)
\* A step that leaves the machine running in verified code.
LEMMA KeepsRunning ==
  ASSUME NEW exe \in Executables, Runs(exe), status' = "running",
         prog' = exe.prog,
         fn' \in DOMAIN exe.functions,
         pc' \in DOMAIN exe.functions[fn'].instrs,
         printed' \in Nat,
         calls' \in Seq([fn : DOMAIN exe.functions, base : Nat]),
         CodeOK(exe)', MemoryOK(exe)', Intact(exe, fn)',
         FramesOK(exe)', RegistersOK(exe)', Prepared(exe)', HeightOK(exe)'
  PROVE  Runs(exe)'
<1>1. BoundClaim'
  BY BoundedByHeight, PTL
<1>2. StackIsBounded'
  BY <1>1 DEF BoundClaim
<1> QED BY <1>2 DEF Runs

\* An instruction that falls through to the next, in the same frame.
LEMMA Advances ==
  ASSUME NEW exe \in Executables, Runs(exe), status = "running",
         UNCHANGED <<prog, status, fn, calls>>,
         pc > 2, pc' = pc + 1,
         FallsThrough(Here(exe)),
         Here(exe).depth >= 2,
         Here(exe).op = "checkStack" => Depth <= StackLimit,
         printed' \in Nat,
         CodeOK(exe)', MemoryOK(exe)', Intact(exe, fn)',
         Len(stack') = Depth + Effect(Here(exe)),
         \A i \in DOMAIN stack' :
           i <= calls[Len(calls)].base + 2 => stack'[i] = stack[i],
         \A i \in DOMAIN stack' :
           i >= calls[Len(calls)].base + 2 => IsSchemeWord(stack'[i]),
         \A r \in Registers : Keeps(Here(exe), r) => regs'[r] = regs[r],
         \A r \in Registers : Sets(Here(exe), r) => IsSchemeWord(regs'[r]),
         Prepared(exe)'
  PROVE  Runs(exe)'
<1>1. /\ pc + 1 \in DOMAIN exe.functions[fn].instrs
      /\ exe.functions[fn].instrs[pc + 1].depth = Here(exe).depth + Effect(Here(exe))
  BY AtInstruction DEF FlowVerified, Here
<1>2. /\ Depth = calls[Len(calls)].base + Here(exe).depth
      /\ calls \in Seq([fn : DOMAIN exe.functions, base : Nat])
      /\ prog = exe.prog
  BY DEF Runs, FramesOK
<1>3. stack' \in Seq(Values)
  BY DEF MemoryOK
<1>4. Len(stack') = calls[Len(calls)].base + exe.functions[fn].instrs[pc'].depth
  <2>1. calls[Len(calls)].base \in Nat /\ Here(exe).depth \in Nat
    BY Bases, AtInstruction
  <2>2. exe.functions[fn].instrs[pc + 1].depth \in Nat
    BY <1>1, AtInstruction, InstructionFacts DEF FrameVerified
  <2>3. Effect(Here(exe)) \in Int
    BY SMTT(30), AtInstruction DEF Effect, StackVerified, Here
  <2> QED BY <2>1, <2>2, <2>3, <1>1, <1>2
<1>5. FramesOK(exe)'
  <2>1. pc \in Nat /\ pc' > 2 /\ pc' \in DOMAIN exe.functions[fn].instrs
    BY <1>1, AtInstruction
  <2> QED BY <2>1, <1>3, <1>4, FramesStep
<1>6. RegistersOK(exe)'
  BY RegistersStep
<1>7. HeightOK(exe)'
  BY HeightStep
<1>8. /\ fn' \in DOMAIN exe.functions
      /\ pc' \in DOMAIN exe.functions[fn'].instrs
  BY <1>1, AtInstruction
<1> QED BY <1>2, <1>5, <1>6, <1>7, <1>8, KeepsRunning

\* In the body of a function the frame has its head, and words above it.
LEMMA Inside ==
  ASSUME NEW exe \in Executables, Runs(exe), status = "running",
         Here(exe).op # "push" \/ pc > 2,
         Here(exe).op # "ret"
  PROVE  /\ pc > 2
         /\ Here(exe).depth >= 2
         /\ Here(exe).depth \in Nat
         /\ Depth \in Nat
         /\ DOMAIN stack = 1..Depth
         /\ calls[Len(calls)].base \in Nat \ {0}
         /\ Depth = calls[Len(calls)].base + Here(exe).depth
         /\ HasHead(Len(calls))
         /\ \A i \in DOMAIN stack :
              i >= calls[Len(calls)].base + 2 =>
                IsSchemeWord(stack[i]) /\ Sound(exe, stack[i])
<1>1. pc \in Nat \ {0} /\ FrameVerified(exe.functions[fn], pc) /\ Here(exe).depth \in Nat
  BY AtInstruction
<1>2. Here(exe) = exe.functions[fn].instrs[pc]
  BY DEF Here
<1>3. pc > 2 /\ Here(exe).depth >= 2
  <2>1. pc # 1
    BY <1>1, <1>2 DEF FrameVerified
  <2>2. pc # 2
    BY <1>1, <1>2 DEF FrameVerified
  <2> QED BY <2>1, <2>2, <1>1, <1>2 DEF FrameVerified
<1>4. Depth = calls[Len(calls)].base + Here(exe).depth
  BY DEF Runs, FramesOK
<1>5. /\ Len(calls) \in DOMAIN calls /\ calls[Len(calls)].base \in Nat \ {0}
      /\ Depth \in Nat /\ DOMAIN stack = 1..Depth
      /\ TopOf(Len(calls)) = Depth
  BY Bases DEF TopOf
<1>6. HasHead(Len(calls))
  BY <1>1, <1>3, <1>4, <1>5 DEF HasHead
<1>7. ASSUME NEW i \in DOMAIN stack, i >= calls[Len(calls)].base + 2
      PROVE  IsSchemeWord(stack[i]) /\ Sound(exe, stack[i])
  <2>1. i \in (calls[Len(calls)].base + 2)..TopOf(Len(calls))
    BY <1>5, <1>7
  <2>2. IsSchemeWord(stack[i])
    BY <2>1, <1>5 DEF Runs, FramesOK
  <2>3. Good(exe, stack[i])
    BY DEF Runs, MemoryOK
  <2> QED BY <2>2, <2>3, GoodWords
<1> QED BY <1>1, <1>3, <1>4, <1>5, <1>6, <1>7

\* A slot that the virtual frame knows holds a Scheme word.
LEMMA SlotIsWord ==
  ASSUME NEW exe \in Executables, Runs(exe), status = "running",
         Here(exe).op \notin {"push", "ret"},
         NEW s \in 0..(Here(exe).depth - 2)
  PROVE  /\ IsSchemeWord(Slot(s))
         /\ Sound(exe, Slot(s))
         /\ Slot(s).upper \in Int
<1>1. Depth - s \in DOMAIN stack /\ Depth - s >= calls[Len(calls)].base + 2
  BY Inside
<1>2. IsSchemeWord(Slot(s)) /\ Sound(exe, Slot(s))
  BY <1>1, Inside DEF Slot
<1> QED BY <1>2 DEF Sound, SchemeWords

\* A register that is known to hold a word holds one, and a sound one.
LEMMA HeldIsWord ==
  ASSUME NEW exe \in Executables, Runs(exe), status = "running",
         NEW r \in Registers, HoldsWord(exe.functions[fn], pc, r)
  PROVE  /\ IsSchemeWord(regs[r])
         /\ Sound(exe, regs[r])
         /\ regs[r].upper \in Int
<1>1. IsSchemeWord(regs[r]) /\ Good(exe, regs[r])
  BY DEF Runs, RegistersOK, MemoryOK
<1>2. Sound(exe, regs[r])
  BY <1>1, GoodWords
<1> QED BY <1>1, <1>2 DEF Sound, SchemeWords

\* Immediate words refer to nothing.
LEMMA ImmediatesAreSound ==
  ASSUME NEW exe
  PROVE  /\ \A n \in Int : Sound(exe, Fixnum(n)) /\ IsSchemeWord(Fixnum(n))
         /\ \A p \in BOOLEAN : Sound(exe, Bool(p)) /\ IsSchemeWord(Bool(p))
BY DEF Sound, Fixnum, Bool, True, False, SchemeWords, HeapTags, ImmediateTags, IsSchemeWord

\* Neither does what a call leaves in registers.
LEMMA JunkIsGood == ASSUME NEW exe PROVE Good(exe, Junk)
<1>1. Junk \in Values
  BY WordsAreValues
<1>2. ~IsSchemeWord(Junk)
  BY DEF Junk, IsSchemeWord, HeapTags, ImmediateTags
<1> QED BY <1>1, <1>2 DEF Good

\* An instruction that only puts a word into a register.
LEMMA SetRegStep ==
  ASSUME NEW exe \in Executables, Runs(exe), status = "running",
         Here(exe).op \notin {"push", "ret", "checkStack"},
         FallsThrough(Here(exe)),
         Effect(Here(exe)) = 0,
         NEW r \in Registers, NEW w, Sound(exe, w),
         SetReg(r, w),
         \A x \in Registers : Sets(Here(exe), x) <=> x = r,
         Prepared(exe)'
  PROVE  Runs(exe)'
<1>1. /\ regs' = [regs EXCEPT ![r] = w]
      /\ pc' = pc + 1
      /\ UNCHANGED <<prog, status, fn, calls, stack, heap, globals, code, printed>>
  BY DEF SetReg, Advance, Frame
<1>2. CodeOK(exe) /\ MemoryOK(exe) /\ Intact(exe, fn) /\ printed \in Nat
  BY DEF Runs
<1>3. /\ regs \in [Registers -> Values]
      /\ \A x \in Registers : Good(exe, regs[x])
      /\ stack \in Seq(Values)
      /\ \A i \in DOMAIN stack : Good(exe, stack[i])
  BY <1>2 DEF MemoryOK
<1>4. Good(exe, w) /\ IsSchemeWord(w)
  BY GoodWords
<1>5. w \in Values
  BY <1>4 DEF Good
<1>6. CodeOK(exe)' /\ MemoryOK(exe)'
  <2>1. regs' \in [Registers -> Values] /\ \A x \in Registers : Good(exe, regs'[x])
    BY <1>1, <1>3, <1>4, <1>5
  <2> QED BY <1>1, <1>2, <1>3, <2>1, ValuesStep
<1>7. Intact(exe, fn)'
  BY <1>1, <1>2 DEF Intact
<1>8. /\ \A x \in Registers : Keeps(Here(exe), x) => regs'[x] = regs[x]
      /\ \A x \in Registers : Sets(Here(exe), x) => IsSchemeWord(regs'[x])
  BY <1>1, <1>3, <1>4 DEF Keeps
<1>9. /\ Len(stack') = Depth + Effect(Here(exe))
      /\ \A i \in DOMAIN stack' : stack'[i] = stack[i]
      /\ \A i \in DOMAIN stack' :
           i >= calls[Len(calls)].base + 2 => IsSchemeWord(stack'[i])
  BY <1>1, Inside DEF Depth
<1>10. UNCHANGED <<prog, status, fn, calls>> /\ printed' \in Nat
  BY <1>1, <1>2
<1> QED BY <1>1, <1>6, <1>7, <1>8, <1>9, <1>10, Inside, Advances

-----------------------------------------------------------------------------
(***************************************************************************)
(* Instructions that set a register.                                       *)
(***************************************************************************)

\* Falling through from an instruction that prepares nothing.
LEMMA UnpreparedNext ==
  ASSUME NEW exe \in Executables, Runs(exe), status = "running", fn' = fn,
         pc' = pc + 1, FallsThrough(Here(exe)),
         Here(exe).op \notin {"mov", "reserve", "checkCall"}
  PROVE  Prepared(exe)'
<1>1. /\ pc \in Nat \ {0} /\ fn \in DOMAIN exe.functions
      /\ pc + 1 \in DOMAIN exe.functions[fn].instrs
      /\ Here(exe) = exe.functions[fn].instrs[pc]
  BY AtInstruction DEF FlowVerified, Here
<1>2. \A op \in {"mov", "reserve", "checkCall"} :
        ~Follows(exe.functions[fn], pc + 1, op)
  BY <1>1 DEF Follows
<1> QED BY <1>1, <1>2, Unprepared

\* An instruction that only puts a word into a register, other than mov.
LEMMA ResultStep ==
  ASSUME NEW exe \in Executables, Runs(exe),
         status = "running",
         Here(exe).op \in {"load", "loadElem", "add", "sub", "lt", "attr", "isTag", "isWord"},
         NEW r \in Registers,
         r = IF Here(exe).op = "load" THEN Here(exe).reg ELSE "rax",
         NEW w, Sound(exe, w),
         SetReg(r, w)
  PROVE  Runs(exe)'
<1>1. /\ Here(exe).op \notin {"push", "ret", "checkStack"}
      /\ FallsThrough(Here(exe))
      /\ Effect(Here(exe)) = 0
      /\ Here(exe).op \notin {"mov", "reserve", "checkCall"}
  BY DEF FallsThrough, Effect
<1>2. \A x \in Registers : Sets(Here(exe), x) <=> x = r
  BY DEF Sets, Results
<1>3. fn' = fn /\ pc' = pc + 1
  BY DEF SetReg, Advance, Frame
<1>4. Prepared(exe)'
  BY <1>1, <1>3, UnpreparedNext
<1> QED BY <1>1, <1>2, <1>4, SetRegStep

\* The registers that instructions name implicitly.
LEMMA RaxIsRegister == {"rax", "rcx", "rdi", "r10"} \subseteq Registers
BY DEF Registers

\* A local variable is a sound word.
LEMMA LoadRuns ==
  ASSUME NEW exe \in Executables, Runs(exe), Load PROVE Runs(exe)'
<1>1. status = "running" /\ Here(exe).op = "load" /\ SetReg(Here(exe).reg, Slot(Here(exe).slot))
  BY AtInstruction DEF Load, At
<1>2. Here(exe).reg \in Registers
  BY SMTT(30), <1>1, AtInstruction DEF RegistersVerified, Here
<1>3. Here(exe).slot \in 0..(Here(exe).depth - 2)
  BY <1>1, AtInstruction DEF StackVerified, Here
<1>4. Sound(exe, Slot(Here(exe).slot))
  BY <1>1, <1>3, SlotIsWord
<1> QED BY <1>1, <1>2, <1>4, ResultStep

\* So is a global: the vector is one of the constants that a collection
\* keeps.
LEMMA LoadElemRuns ==
  ASSUME NEW exe \in Executables, Runs(exe), LoadElem PROVE Runs(exe)'
<1> DEFINE w == IF regs["rax"] = GlobalVector THEN globals[Here(exe).ix + 1] ELSE Stale
<1>1. status = "running" /\ Here(exe).op = "loadElem" /\ SetReg("rax", w)
  BY AtInstruction DEF LoadElem, At
<1>2. regs["rax"] = GlobalVector
  BY <1>1 DEF Runs, Prepared
<1>3. Here(exe).ix + 1 \in DOMAIN exe.globals
  BY <1>1, AtInstruction DEF MemoryVerified, Here
<1>4. DOMAIN globals = DOMAIN exe.globals
      /\ (\/ \A i \in DOMAIN globals : Sound(exe, globals[i])
          \/ \A i \in DOMAIN globals : globals[i] = Stale)
  BY DEF Runs, MemoryOK
<1>5. GlobalsKept
  <2>1. Good(exe, GlobalVector) /\ IsSchemeWord(GlobalVector)
    BY <1>2, RaxIsRegister DEF Runs, MemoryOK, GlobalVector, IsSchemeWord, HeapTags
  <2>2. Sound(exe, GlobalVector)
    BY <2>1, GoodWords
  <2> QED BY <2>2 DEF Sound, GlobalVector
<1>6. Sound(exe, w)
  BY <1>2, <1>3, <1>4, <1>5 DEF GlobalsKept
<1> HIDE DEF w
<1> QED BY <1>1, <1>6, ResultStep, RaxIsRegister

\* Tags cancel: a register where a fixnum plus any multiple of TagRange was
\* computed holds a fixnum, that many more, give or take whole turns.
LEMMA TagsCancel ==
  ASSUME NEW x \in Int
  PROVE  LET w == AsWord(TagRange * x + kFixnumTag)
             half == 2 ^ (FixnumBits - 1)
         IN  /\ w = Fixnum(w.upper)
             /\ w.upper \in -half..(half - 1)
             /\ \E turns \in Int : w.upper = x - turns * (2 * half)
<1> DEFINE half == 2 ^ (FixnumBits - 1)
           r == (16 * x + 4 + 16 * half) % (2 * (16 * half))
           q == (16 * x + 4 + 16 * half) \div (2 * (16 * half))
           z == x - q * (2 * half)
<1>1. half \in Nat \ {0}
  BY MachineAssumption
<1>2. AsWord(TagRange * x + kFixnumTag) =
        IF (r - 16 * half) % 16 = 4 THEN Fixnum((r - 16 * half) \div 16) ELSE Junk
  BY DEF AsWord, TagRange, kFixnumTag
<1> HIDE DEF half
<1>3. /\ r \in 0..(2 * (16 * half) - 1) /\ q \in Int
      /\ 16 * x + 4 + 16 * half = (2 * (16 * half)) * q + r
  BY <1>1
<1>4. (2 * (16 * half)) * q = 16 * (q * (2 * half))
  BY <1>1, <1>3
<1> HIDE DEF q, r
<1>5. q * (2 * half) \in Int
  BY <1>1, <1>3
<1>6. z \in Int /\ r = 16 * z + 4 + 16 * half
  BY <1>1, <1>3, <1>4, <1>5
<1> HIDE DEF z
<1>7. (r - 16 * half) % 16 = 4 /\ (r - 16 * half) \div 16 = z
  BY <1>1, <1>3, <1>6
<1>8. z \in -half..(half - 1)
  BY <1>1, <1>3, <1>6
<1>9. z = x - q * (2 * half)
  BY DEF z
<1>10. AsWord(TagRange * x + kFixnumTag) = Fixnum(z) /\ Fixnum(z).upper = z
  BY <1>2, <1>7 DEF Fixnum
<1> QED BY <1>3, <1>8, <1>9, <1>10 DEF half

\* So the result of an addition or subtraction is sound.
LEMMA ResultIsSound ==
  ASSUME NEW exe \in Executables, NEW x \in Int
  PROVE  Sound(exe, AsWord(TagRange * x + kFixnumTag))
<1>1. PICK n \in Int : AsWord(TagRange * x + kFixnumTag) = Fixnum(n)
  <2> DEFINE w == AsWord(TagRange * x + kFixnumTag)
             half == 2 ^ (FixnumBits - 1)
  <2>1. w = Fixnum(w.upper) /\ w.upper \in -half..(half - 1)
    BY TagsCancel
  <2> QED BY <2>1
<1> QED BY <1>1, ImmediatesAreSound

\* The operand on top of the stack is a word.
LEMMA TopIsWord ==
  ASSUME NEW exe \in Executables, Runs(exe), status = "running",
         Here(exe).op \notin {"push", "ret"}
  PROVE  IsSchemeWord(Top) /\ Sound(exe, Top) /\ Top.upper \in Int
<1>1. 0 \in 0..(Here(exe).depth - 2)
  BY Inside
<1> QED BY <1>1, SlotIsWord DEF Top

\* Fixnum addition.
LEMMA AddRuns ==
  ASSUME NEW exe \in Executables, Runs(exe), Add PROVE Runs(exe)'
<1> DEFINE w == AsWord(AsInteger(regs["rax"]) + AsInteger(Top) - kFixnumTag)
<1>1. status = "running" /\ Here(exe).op = "add" /\ SetReg("rax", w)
  BY AtInstruction DEF Add, At
<1>2. HoldsWord(exe.functions[fn], pc, "rax")
  BY <1>1, AtInstruction DEF RegistersVerified, Here
<1>3. PICK x \in Int : w = AsWord(TagRange * x + kFixnumTag)
  <2>1. regs["rax"].upper \in Int /\ Top.upper \in Int
    BY <1>1, <1>2, HeldIsWord, TopIsWord, RaxIsRegister
  <2>2. AsInteger(regs["rax"]) + AsInteger(Top) - kFixnumTag =
          TagRange * (regs["rax"].upper + Top.upper) + kFixnumTag
    BY <2>1 DEF AsInteger, TagRange, kFixnumTag
  <2> QED BY <2>1, <2>2
<1>4. Sound(exe, w)
  BY <1>3, ResultIsSound
<1> HIDE DEF w
<1> QED BY <1>1, <1>4, ResultStep, RaxIsRegister

\* Fixnum subtraction.
LEMMA SubRuns ==
  ASSUME NEW exe \in Executables, Runs(exe), Sub PROVE Runs(exe)'
<1> DEFINE w == AsWord(AsInteger(Slot(1)) - AsInteger(Top) + kFixnumTag)
<1>1. status = "running" /\ Here(exe).op = "sub" /\ SetReg("rax", w)
  BY AtInstruction DEF Sub, At
<1>2. 1 \in 0..(Here(exe).depth - 2)
  BY <1>1, AtInstruction DEF StackVerified, Here
<1>3. PICK x \in Int : w = AsWord(TagRange * x + kFixnumTag)
  <2>1. Slot(1).upper \in Int /\ Top.upper \in Int
    BY <1>1, <1>2, SlotIsWord, TopIsWord
  <2>2. AsInteger(Slot(1)) - AsInteger(Top) + kFixnumTag =
          TagRange * (Slot(1).upper - Top.upper) + kFixnumTag
    BY <2>1 DEF AsInteger, TagRange, kFixnumTag
  <2> QED BY <2>1, <2>2
<1>4. Sound(exe, w)
  BY <1>3, ResultIsSound
<1> HIDE DEF w
<1> QED BY <1>1, <1>4, ResultStep, RaxIsRegister

\* Comparisons and type predicates.
LEMMA TestsRun ==
  ASSUME NEW exe \in Executables, Runs(exe), Lt \/ IsTag \/ IsWord PROVE Runs(exe)'
<1>1. PICK p \in BOOLEAN :
        /\ status = "running"
        /\ Here(exe).op \in {"lt", "isTag", "isWord"}
        /\ SetReg("rax", Bool(p))
  <2>1. CASE Lt
    <3>1. /\ status = "running" /\ Here(exe).op = "lt"
          /\ SetReg("rax", Bool(AsInteger(regs["rax"]) > AsInteger(Top)))
      BY <2>1, AtInstruction DEF Lt, At
    <3>2. (AsInteger(regs["rax"]) > AsInteger(Top)) \in BOOLEAN
      OBVIOUS
    <3> QED BY <3>1, <3>2
  <2>2. CASE IsTag
    <3>1. /\ status = "running" /\ Here(exe).op = "isTag"
          /\ SetReg("rax", Bool(regs["rax"].tag = Instr.tag))
      BY <2>2, AtInstruction DEF IsTag, At
    <3> QED BY <3>1
  <2>3. CASE IsWord
    <3>1. /\ status = "running" /\ Here(exe).op = "isWord"
          /\ SetReg("rax", Bool(regs["rax"] = Instr.word))
      BY <2>3, AtInstruction DEF IsWord, At
    <3> QED BY <3>1
  <2> QED BY <2>1, <2>2, <2>3
<1>2. Sound(exe, Bool(p))
  BY ImmediatesAreSound
<1> QED BY <1>1, <1>2, ResultStep, RaxIsRegister

\* car and cdr: what a sound pair refers to is sound.
LEMMA AttrRuns ==
  ASSUME NEW exe \in Executables, Runs(exe), Attr PROVE Runs(exe)'
<1> DEFINE pair == heap[regs["rax"].upper]
           w == IF Here(exe).attr = "car" THEN pair.car ELSE pair.cdr
<1>1. status = "running" /\ Here(exe).op = "attr" /\ SetReg("rax", w) /\ regs["rax"].tag = "pair"
  BY AtInstruction DEF Attr, At
<1>2. Sound(exe, regs["rax"])
  <2>1. IsSchemeWord(regs["rax"])
    BY <1>1 DEF IsSchemeWord, HeapTags
  <2> QED BY <2>1, RaxIsRegister, GoodWords DEF Runs, MemoryOK
<1>3. regs["rax"].upper \in DOMAIN heap
  BY <1>1, <1>2 DEF Sound
<1>4. Sound(exe, w)
  BY <1>3 DEF Runs, MemoryOK
<1> HIDE DEF w
<1> QED BY <1>1, <1>4, ResultStep, RaxIsRegister

\* A constant of a function that the collector reached every time is sound,
\* and a mov of the global vector prepares for an access to it.
LEMMA MovRuns ==
  ASSUME NEW exe \in Executables, Runs(exe), MovImm PROVE Runs(exe)'
<1>1. status = "running" /\ Here(exe).op = "mov" /\ SetReg(Here(exe).reg, Here(exe).word)
  BY AtInstruction DEF MovImm, At
<1>2. Here(exe).reg \in Registers
  BY <1>1, AtInstruction DEF RegistersVerified, Here
<1>3. Sound(exe, Here(exe).word)
  <2>1. CodeOK(exe) /\ Intact(exe, fn) /\ fn \in DOMAIN code
    BY <1>1, AtInstruction DEF Runs, CodeOK
  <2>2. pc \in DOMAIN code[fn].instrs /\ code[fn].instrs[pc] = Here(exe)
    BY <1>1, AtInstruction DEF Instr
  <2> QED BY <1>1, <2>1, <2>2 DEF CodeOK
<1>4. /\ Here(exe).op \notin {"push", "ret", "checkStack"}
      /\ FallsThrough(Here(exe))
      /\ Effect(Here(exe)) = 0
      /\ \A x \in Registers : Sets(Here(exe), x) <=> x = Here(exe).reg
  BY <1>1 DEF FallsThrough, Effect, Sets, Results
<1>5. /\ fn' = fn /\ pc' = pc + 1
      /\ regs' = [regs EXCEPT ![Here(exe).reg] = Here(exe).word]
      /\ regs \in [Registers -> Values]
  BY <1>1 DEF SetReg, Advance, Frame, Runs, MemoryOK
<1>6. Prepared(exe)'
  <2> DEFINE f == exe.functions[fn]
  <2>1. pc + 1 \in DOMAIN f.instrs /\ pc \in Nat \ {0} /\ Here(exe) = f.instrs[pc]
    BY <1>1, <1>4, AtInstruction DEF FlowVerified, Here
  <2>2. RegistersVerified(f, pc + 1) /\ MemoryVerified(exe, f, pc + 1)
    BY <2>1, <1>1, AtInstruction, InstructionFacts
  <2>3. Here(exe)' = f.instrs[pc + 1]
    BY <1>5 DEF Here
  <2>4. f.instrs[(pc + 1) - 1] = Here(exe)
    BY <2>1
  <2> HIDE DEF f
  <2>5. Here(exe)'.op \notin {"call", "tailCall"}
    BY <2>2, <2>3, <2>4, <1>1 DEF RegistersVerified, Follows
  <2>6. Here(exe)'.op # "fill"
    BY <2>2, <2>3, <2>4, <1>1 DEF MemoryVerified, Follows
  <2>7. Here(exe)'.op = "loadElem" => regs'["rax"] = GlobalVector
    BY <2>2, <2>3, <2>4, <1>2, <1>5 DEF MemoryVerified, LoadsGlobals
  <2>8. Here(exe)'.op = "storeElem" => regs'["rcx"] = GlobalVector
    BY <2>2, <2>3, <2>4, <1>2, <1>5 DEF MemoryVerified, LoadsGlobals
  <2> QED BY <2>5, <2>6, <2>7, <2>8 DEF Prepared
<1> QED BY <1>1, <1>2, <1>3, <1>4, <1>6, SetRegStep

-----------------------------------------------------------------------------
(***************************************************************************)
(* Instructions that change slots of the frame.                            *)
(***************************************************************************)

\* An instruction in the body of a function that changes registers and slots.
LEMMA SlotsStep ==
  ASSUME NEW exe \in Executables, Runs(exe), status = "running",
         Here(exe).op # "push" \/ pc > 2,
         Here(exe).op # "ret",
         FallsThrough(Here(exe)),
         UNCHANGED <<prog, status, fn, calls, heap, globals, code>>,
         pc' = pc + 1,
         printed' \in Nat,
         Here(exe).op = "checkStack" => Depth <= StackLimit,
         regs' \in [Registers -> Values],
         \A r \in Registers : Good(exe, regs'[r]),
         \A r \in Registers : Keeps(Here(exe), r) => regs'[r] = regs[r],
         \A r \in Registers : Sets(Here(exe), r) => IsSchemeWord(regs'[r]),
         stack' \in Seq(Values),
         \A i \in DOMAIN stack' : Good(exe, stack'[i]),
         Len(stack') = Depth + Effect(Here(exe)),
         \A i \in DOMAIN stack' :
           i <= calls[Len(calls)].base + 2 => stack'[i] = stack[i],
         \A i \in DOMAIN stack' :
           i >= calls[Len(calls)].base + 2 => IsSchemeWord(stack'[i]),
         Prepared(exe)'
  PROVE  Runs(exe)'
<1>1. CodeOK(exe) /\ MemoryOK(exe) /\ Intact(exe, fn)
  BY DEF Runs
<1>2. CodeOK(exe)' /\ MemoryOK(exe)'
  BY <1>1, ValuesStep
<1>3. Intact(exe, fn)'
  BY <1>1 DEF Intact
<1>4. pc > 2 /\ Here(exe).depth >= 2
  BY Inside
<1> QED BY <1>2, <1>3, <1>4, Advances

\* The parts of the invariant about registers and slots.
LEMMA MemoryFacts ==
  ASSUME NEW exe \in Executables, Runs(exe)
  PROVE  /\ regs \in [Registers -> Values]
         /\ \A r \in Registers : Good(exe, regs[r])
         /\ stack \in Seq(Values)
         /\ Depth \in Nat
         /\ DOMAIN stack = 1..Depth
         /\ \A i \in DOMAIN stack : Good(exe, stack[i])
         /\ printed \in Nat
<1>1. /\ regs \in [Registers -> Values]
      /\ \A r \in Registers : Good(exe, regs[r])
      /\ stack \in Seq(Values)
      /\ \A i \in DOMAIN stack : Good(exe, stack[i])
      /\ printed \in Nat
  BY DEF Runs, MemoryOK
<1> QED BY <1>1 DEF Depth

\* Dropping slots.
LEMMA DropFacts ==
  ASSUME stack \in Seq(Values), NEW n \in 0..Depth
  PROVE  /\ DropSlots(n) \in Seq(Values)
         /\ Len(DropSlots(n)) = Depth - n
         /\ DOMAIN DropSlots(n) = 1..(Depth - n)
         /\ \A i \in 1..(Depth - n) : DropSlots(n)[i] = stack[i] /\ i \in DOMAIN stack
<1>1. Depth \in Nat /\ Depth = Len(stack) /\ DOMAIN stack = 1..Depth
  BY DEF Depth
<1>2. Depth - n \in 0..Len(stack)
  BY <1>1
<1>3. DropSlots(n) = SubSeq(stack, 1, Depth - n)
  BY DEF DropSlots
<1>4. \A i \in 1..(Depth - n) : i \in DOMAIN stack
  BY <1>1
<1> QED BY <1>1, <1>2, <1>3, <1>4

\* pop takes a word, for there is one above the head of the frame.
LEMMA PopRuns ==
  ASSUME NEW exe \in Executables, Runs(exe), Pop PROVE Runs(exe)'
<1>1. /\ status = "running" /\ Here(exe).op = "pop"
      /\ regs' = [regs EXCEPT ![Here(exe).reg] = Top]
      /\ stack' = DropSlots(1)
      /\ pc' = pc + 1
      /\ UNCHANGED <<prog, status, fn, calls, heap, globals, code, printed>>
  BY AtInstruction DEF Pop, At, Advance, Frame
<1>2. Here(exe).reg \in Registers /\ Here(exe).depth >= 3
  BY <1>1, AtInstruction DEF RegistersVerified, StackVerified, Here
<1>3. /\ Here(exe).op \notin {"push", "ret"} /\ FallsThrough(Here(exe))
      /\ Effect(Here(exe)) = -1
      /\ Here(exe).op \notin {"mov", "reserve", "checkCall", "checkStack"}
      /\ \A x \in Registers : Sets(Here(exe), x) <=> x = Here(exe).reg
  BY <1>1 DEF FallsThrough, Effect, Sets, Results
<1>4. IsSchemeWord(Top) /\ Good(exe, Top) /\ Top \in Values
  <2>1. IsSchemeWord(Top) /\ Sound(exe, Top)
    BY <1>1, <1>3, TopIsWord
  <2> QED BY <2>1, GoodWords DEF Good
<1>5. /\ regs' \in [Registers -> Values]
      /\ \A r \in Registers : Good(exe, regs'[r])
      /\ \A r \in Registers : Keeps(Here(exe), r) => regs'[r] = regs[r]
      /\ \A r \in Registers : Sets(Here(exe), r) => IsSchemeWord(regs'[r])
  BY <1>1, <1>2, <1>3, <1>4, MemoryFacts DEF Keeps
<1>6. 1 \in 0..Depth
  BY <1>1, <1>2, <1>3, Inside
<1>7. /\ stack' \in Seq(Values)
      /\ Len(stack') = Depth + Effect(Here(exe))
      /\ \A i \in DOMAIN stack' : stack'[i] = stack[i] /\ i \in DOMAIN stack
  BY <1>1, <1>3, <1>6, MemoryFacts, DropFacts
<1>8. /\ \A i \in DOMAIN stack' : Good(exe, stack'[i])
      /\ \A i \in DOMAIN stack' :
           i >= calls[Len(calls)].base + 2 => IsSchemeWord(stack'[i])
  BY <1>1, <1>3, <1>7, MemoryFacts, Inside
<1>9. Prepared(exe)'
  BY <1>1, <1>3, UnpreparedNext
<1> QED BY <1>1, <1>3, <1>5, <1>7, <1>8, <1>9, MemoryFacts, SlotsStep

\* Dropping the operands of a call, or the whole frame.
LEMMA DropRuns ==
  ASSUME NEW exe \in Executables, Runs(exe), Drop PROVE Runs(exe)'
<1>1. /\ status = "running" /\ Here(exe).op = "drop"
      /\ stack' = DropSlots(Here(exe).n)
      /\ pc' = pc + 1
      /\ UNCHANGED <<prog, status, fn, calls, regs, heap, globals, code, printed>>
  BY AtInstruction DEF Drop, At, Advance, Frame
<1>2. /\ Here(exe).op \notin {"push", "ret"} /\ FallsThrough(Here(exe))
      /\ Effect(Here(exe)) = -Here(exe).n
      /\ Here(exe).op \notin {"mov", "reserve", "checkCall", "checkStack"}
      /\ \A x \in Registers : ~Sets(Here(exe), x)
  BY <1>1 DEF FallsThrough, Effect, Sets, Results
<1>3. Here(exe).n \in Nat /\ Here(exe).n <= Here(exe).depth
  <2>1. Here(exe).n \in Nat
    BY <1>1, AtInstruction DEF StackVerified, Here
  <2>2. /\ pc + 1 \in DOMAIN exe.functions[fn].instrs
        /\ exe.functions[fn].instrs[pc + 1].depth = Here(exe).depth + Effect(Here(exe))
    BY <1>1, <1>2, AtInstruction DEF FlowVerified, Here
  <2>3. exe.functions[fn].instrs[pc + 1].depth \in Nat
    BY <1>1, <2>2, AtInstruction, InstructionFacts DEF FrameVerified
  <2> QED BY <1>1, <1>2, <2>1, <2>2, <2>3, AtInstruction
<1>4. Here(exe).n \in 0..Depth
  BY <1>1, <1>2, <1>3, Inside
<1>5. /\ stack' \in Seq(Values)
      /\ Len(stack') = Depth + Effect(Here(exe))
      /\ \A i \in DOMAIN stack' : stack'[i] = stack[i] /\ i \in DOMAIN stack
  BY <1>1, <1>2, <1>4, MemoryFacts, DropFacts
<1>6. /\ \A i \in DOMAIN stack' : Good(exe, stack'[i])
      /\ \A i \in DOMAIN stack' :
           i >= calls[Len(calls)].base + 2 => IsSchemeWord(stack'[i])
  BY <1>1, <1>2, <1>5, MemoryFacts, Inside
<1>7. Prepared(exe)'
  BY <1>1, <1>2, UnpreparedNext
<1> QED BY <1>1, <1>2, <1>5, <1>6, <1>7, MemoryFacts, SlotsStep

\* An assignment to a local writes above the head of the frame.
LEMMA StoreRuns ==
  ASSUME NEW exe \in Executables, Runs(exe), Store PROVE Runs(exe)'
<1> DEFINE at == Depth - Here(exe).slot
<1>1. /\ status = "running" /\ Here(exe).op = "store"
      /\ stack' = [stack EXCEPT ![at] = regs["rax"]]
      /\ pc' = pc + 1
      /\ UNCHANGED <<prog, status, fn, calls, regs, heap, globals, code, printed>>
  BY AtInstruction DEF Store, At, Advance, Frame
<1>2. /\ Here(exe).op \notin {"push", "ret"} /\ FallsThrough(Here(exe))
      /\ Effect(Here(exe)) = 0
      /\ Here(exe).op \notin {"mov", "reserve", "checkCall", "checkStack"}
      /\ \A x \in Registers : ~Sets(Here(exe), x)
  BY <1>1 DEF FallsThrough, Effect, Sets, Results
<1>3. Here(exe).slot \in 0..(Here(exe).depth - 3) /\ HoldsWord(exe.functions[fn], pc, "rax")
  BY <1>1, AtInstruction DEF StackVerified, RegistersVerified, Here
<1>4. at \in DOMAIN stack /\ at > calls[Len(calls)].base + 2
  BY SMTT(30), <1>1, <1>2, <1>3, Inside
<1>5. IsSchemeWord(regs["rax"]) /\ Good(exe, regs["rax"]) /\ regs["rax"] \in Values
  BY <1>1, <1>3, HeldIsWord, RaxIsRegister, MemoryFacts
<1> HIDE DEF at
<1>6. /\ stack' \in Seq(Values)
      /\ Len(stack') = Depth + Effect(Here(exe))
      /\ DOMAIN stack' = DOMAIN stack
      /\ \A i \in DOMAIN stack' : stack'[i] = IF i = at THEN regs["rax"] ELSE stack[i]
  BY <1>1, <1>2, <1>4, <1>5, MemoryFacts DEF Depth
<1>7. /\ \A i \in DOMAIN stack' : Good(exe, stack'[i])
      /\ \A i \in DOMAIN stack' :
           i >= calls[Len(calls)].base + 2 => IsSchemeWord(stack'[i])
      /\ \A i \in DOMAIN stack' :
           i <= calls[Len(calls)].base + 2 => stack'[i] = stack[i]
  BY <1>1, <1>2, <1>4, <1>5, <1>6, MemoryFacts, Inside
<1>8. Prepared(exe)'
  BY <1>1, <1>2, UnpreparedNext
<1> QED BY <1>1, <1>2, <1>6, <1>7, <1>8, MemoryFacts, SlotsStep

-----------------------------------------------------------------------------
(***************************************************************************)
(* Instructions that leave the frame as it is, and jumps.                  *)
(***************************************************************************)

\* An instruction that leaves the frame and what it refers to as they are.
LEMMA SameSlots ==
  ASSUME NEW exe \in Executables, Runs(exe), status = "running",
         Here(exe).op \in {"output", "reserve", "checkCall", "checkStack",
                           "jumpIfFalse", "storeElem"},
         UNCHANGED stack
  PROVE  /\ Here(exe).op \notin {"push", "ret"}
         /\ FallsThrough(Here(exe))
         /\ \A r \in Registers : ~Sets(Here(exe), r)
         /\ stack' \in Seq(Values)
         /\ \A i \in DOMAIN stack' : Good(exe, stack'[i])
         /\ Len(stack') = Depth + Effect(Here(exe))
         /\ \A i \in DOMAIN stack' :
              i <= calls[Len(calls)].base + 2 => stack'[i] = stack[i]
         /\ \A i \in DOMAIN stack' :
              i >= calls[Len(calls)].base + 2 => IsSchemeWord(stack'[i])
<1>1. Here(exe).op \notin {"push", "ret"} /\ FallsThrough(Here(exe)) /\ Effect(Here(exe)) = 0
      /\ \A r \in Registers : ~Sets(Here(exe), r)
  BY DEF FallsThrough, Effect, Sets, Results
<1>2. Len(stack') = Depth + Effect(Here(exe))
  BY <1>1, MemoryFacts DEF Depth
<1> QED BY <1>1, <1>2, MemoryFacts, Inside

\* An instruction that changes nothing but pc.
LEMMA IdleStep ==
  ASSUME NEW exe \in Executables, Runs(exe), status = "running",
         Here(exe).op \in {"reserve", "checkCall", "checkStack", "jumpIfFalse"},
         Here(exe).op = "checkStack" => Depth <= StackLimit,
         pc' = pc + 1,
         UNCHANGED <<prog, status, fn, calls, regs, stack, heap, globals, code, printed>>,
         Prepared(exe)'
  PROVE  Runs(exe)'
<1>1. /\ \A r \in Registers : Good(exe, regs'[r])
      /\ \A r \in Registers : regs'[r] = regs[r]
      /\ regs' \in [Registers -> Values]
      /\ printed' \in Nat
  BY MemoryFacts
<1> QED BY <1>1, SameSlots, SlotsStep

\* A check that passes: from here on the frame counts as checked.
LEMMA CheckStackOkRuns ==
  ASSUME NEW exe \in Executables, Runs(exe), CheckStackOk PROVE Runs(exe)'
<1>1. /\ status = "running" /\ Here(exe).op = "checkStack"
      /\ Depth <= StackLimit
      /\ pc' = pc + 1
      /\ UNCHANGED <<prog, status, fn, calls, regs, stack, heap, globals, code, printed>>
  BY AtInstruction DEF CheckStackOk, At, Advance, Frame
<1>2. Prepared(exe)'
  BY <1>1, UnpreparedNext DEF FallsThrough
<1> QED BY <1>1, <1>2, IdleStep

\* What is prepared for is the instruction that follows, and no other.
LEMMA PreparesNext ==
  ASSUME NEW exe \in Executables, Runs(exe), status = "running", fn' = fn,
         pc' = pc + 1,
         Here(exe).op \in {"reserve", "checkCall"},
         Here(exe).op = "reserve" => Cardinality(DOMAIN heap') < HeapPairs,
         Here(exe).op = "checkCall" =>
           regs'["rdi"].tag = "closure" /\ (code[Callee].arity)' = Here(exe).argc
  PROVE  Prepared(exe)'
<1> DEFINE f == exe.functions[fn]
<1>1. pc + 1 \in DOMAIN f.instrs /\ pc \in Nat \ {0} /\ Here(exe) = f.instrs[pc]
  BY AtInstruction DEF FlowVerified, Here, FallsThrough
<1>2. RegistersVerified(f, pc + 1) /\ MemoryVerified(exe, f, pc + 1)
  BY <1>1, AtInstruction, InstructionFacts
<1>3. Here(exe)' = f.instrs[pc + 1]
  BY DEF Here
<1>4. f.instrs[(pc + 1) - 1] = Here(exe) /\ (pc + 1) - 1 = pc
  BY <1>1
<1> HIDE DEF f
<1>5. Here(exe)'.op \in {"call", "tailCall"} => Here(exe).op = "checkCall"
  BY <1>2, <1>3, <1>4 DEF RegistersVerified, Follows
<1>6. Here(exe)'.op = "fill" => Here(exe).op = "reserve"
  BY <1>2, <1>3, <1>4 DEF MemoryVerified, Follows
<1>7. Here(exe)'.op \notin {"loadElem", "storeElem"}
  BY <1>2, <1>3, <1>4 DEF MemoryVerified, Follows
<1>8. exe.functions[fn'].instrs[pc' - 1] = Here(exe)
  BY <1>4 DEF f
<1> QED BY <1>5, <1>6, <1>7, <1>8 DEF Prepared

\* An allocation that finds room.
LEMMA ReserveFitsRuns ==
  ASSUME NEW exe \in Executables, Runs(exe), ReserveFits PROVE Runs(exe)'
<1>1. /\ status = "running" /\ Here(exe).op = "reserve"
      /\ Cardinality(DOMAIN heap) < HeapPairs
      /\ pc' = pc + 1
      /\ UNCHANGED <<prog, status, fn, calls, regs, stack, heap, globals, code, printed>>
  BY AtInstruction DEF ReserveFits, At, Advance, Frame
<1>2. Prepared(exe)'
  BY <1>1, PreparesNext
<1> QED BY <1>1, <1>2, IdleStep

\* A check of a callee, which prepares the call.
LEMMA CheckCallOkRuns ==
  ASSUME NEW exe \in Executables, Runs(exe), CheckCallOk PROVE Runs(exe)'
<1>1. /\ status = "running" /\ Here(exe).op = "checkCall"
      /\ regs["rdi"].tag = "closure"
      /\ code[Callee].arity = Here(exe).argc
      /\ pc' = pc + 1
      /\ UNCHANGED <<prog, status, fn, calls, regs, stack, heap, globals, code, printed>>
  BY AtInstruction DEF CheckCallOk, At, Advance, Frame
<1>2. (code[Callee].arity)' = Here(exe).argc
  BY <1>1 DEF Callee
<1>3. Prepared(exe)'
  BY <1>1, <1>2, PreparesNext
<1> QED BY <1>1, <1>3, IdleStep

\* A call of C++ code loses the registers, and no register is expected to
\* last.
LEMMA OutputRuns ==
  ASSUME NEW exe \in Executables, Runs(exe), Output PROVE Runs(exe)'
<1>1. /\ status = "running" /\ Here(exe).op = "output"
      /\ printed' = printed + 1
      /\ regs' = [r \in Registers |-> Junk]
      /\ pc' = pc + 1
      /\ UNCHANGED <<prog, status, fn, calls, stack, heap, globals, code>>
  BY AtInstruction DEF Output, At, Advance, Frame
<1>2. /\ \A r \in Registers : Good(exe, regs'[r])
      /\ regs' \in [Registers -> Values]
      /\ printed' \in Nat
  BY <1>1, JunkIsGood, WordsAreValues, MemoryFacts
<1>3. \A r \in Registers : ~Keeps(Here(exe), r)
  BY <1>1 DEF Keeps
<1>4. Prepared(exe)'
  BY <1>1, UnpreparedNext DEF FallsThrough
<1> QED BY <1>1, <1>2, <1>3, <1>4, SameSlots, SlotsStep

\* A jump arrives in the frame that its target was compiled for.
LEMMA JumpRuns ==
  ASSUME NEW exe \in Executables, Runs(exe), status = "running",
         pc \in Jumps(exe.functions[fn]),
         pc' = Here(exe).target,
         UNCHANGED <<prog, status, fn, calls, regs, stack, heap, globals, code, printed>>
  PROVE  Runs(exe)'
<1> DEFINE f == exe.functions[fn]
           t == Here(exe).target
<1>1. /\ Here(exe).op \in {"jump", "jumpIfFalse"}
      /\ Here(exe).op \notin {"push", "ret", "checkStack"}
  BY DEF Jumps, Here
<1>2. /\ t \in JumpTargets(f)
      /\ t \in DOMAIN f.instrs
      /\ f.instrs[t].depth = Here(exe).depth
  BY AtInstruction DEF JumpTargets, FlowVerified, Here
<1>3. t \in Nat \ {0} /\ FrameVerified(f, t)
  BY <1>2, AtInstruction, InstructionFacts
<1>4. pc > 2 /\ Here(exe).depth >= 2
  BY <1>1, Inside
<1> HIDE DEF t
<1>5. t > 2
  BY <1>2, <1>3, <1>4 DEF FrameVerified
<1>6. /\ stack' \in Seq(Values)
      /\ Len(stack') = calls[Len(calls)].base + f.instrs[pc'].depth
      /\ \A i \in DOMAIN stack' :
           i <= calls[Len(calls)].base + 2 => stack'[i] = stack[i]
      /\ \A i \in DOMAIN stack' :
           i >= calls[Len(calls)].base + 2 => IsSchemeWord(stack'[i])
  BY <1>1, <1>2, MemoryFacts, Inside DEF Depth, t
<1>7. FramesOK(exe)'
  BY <1>2, <1>4, <1>5, <1>6, FramesStep DEF t
<1>8. RegistersOK(exe)'
  BY <1>2, <1>3, HoldsNothingAtTarget DEF RegistersOK, t
<1>9. Prepared(exe)'
  <2>1. fn' \in DOMAIN exe.functions /\ pc' \in DOMAIN exe.functions[fn'].instrs
        /\ pc' \in JumpTargets(exe.functions[fn'])
    BY <1>2, AtInstruction DEF t
  <2> QED BY <2>1, Unprepared DEF Follows
<1>10. CodeOK(exe)' /\ MemoryOK(exe)' /\ Intact(exe, fn)'
  <2>1. CodeOK(exe) /\ MemoryOK(exe) /\ Intact(exe, fn)
    BY DEF Runs
  <2>2. /\ regs' \in [Registers -> Values]
        /\ \A r \in Registers : Good(exe, regs'[r])
        /\ stack' \in Seq(Values)
        /\ \A i \in DOMAIN stack' : Good(exe, stack'[i])
    BY MemoryFacts
  <2> QED BY <2>1, <2>2, ValuesStep DEF Intact
<1>11. HeightOK(exe)'
  BY <1>1, <1>10, HeightStep
<1>12. /\ prog' = exe.prog
       /\ fn' \in DOMAIN exe.functions
       /\ pc' \in DOMAIN exe.functions[fn'].instrs
       /\ printed' \in Nat
       /\ calls' \in Seq([fn : DOMAIN exe.functions, base : Nat])
       /\ status' = "running"
  BY <1>2 DEF Runs, t
<1> QED BY <1>7, <1>8, <1>9, <1>10, <1>11, <1>12, KeepsRunning

\* Both jumps.
LEMMA JumpsRun ==
  ASSUME NEW exe \in Executables, Runs(exe), Jump \/ JumpIfFalse PROVE Runs(exe)'
<1>1. /\ status = "running"
      /\ Here(exe).op \in {"jump", "jumpIfFalse"}
      /\ Here(exe).op = "jump" => pc' = Here(exe).target
      /\ Here(exe).op = "jumpIfFalse" => pc' \in {Here(exe).target, pc + 1}
      /\ UNCHANGED <<prog, status, fn, calls, regs, stack, heap, globals, code, printed>>
  BY AtInstruction DEF Jump, JumpIfFalse, At, Frame
<1>2. pc \in Jumps(exe.functions[fn])
  BY <1>1, AtInstruction DEF Jumps, Here
<1>3. CASE pc' = Here(exe).target
  BY <1>1, <1>2, <1>3, JumpRuns
<1>4. CASE pc' = pc + 1 /\ Here(exe).op = "jumpIfFalse"
  <2>1. Prepared(exe)'
    BY <1>1, <1>4, UnpreparedNext DEF FallsThrough
  <2> QED BY <1>1, <1>4, <2>1, IdleStep
<1> QED BY <1>1, <1>3, <1>4

\* An error handler leaves everything as it finds it.
LEMMA ExitRuns ==
  ASSUME NEW exe \in Executables, Runs(exe),
         NotAClosure \/ ArgCountMismatch \/ StackOverflow \/ UserError
  PROVE  Runs(exe)'
<1>1. /\ status' \in {"not a closure", "argument count mismatch",
                      "stack overflow", "user error"}
      /\ UNCHANGED <<prog, fn, pc, regs, stack, heap, globals, code, printed, calls>>
  BY DEF NotAClosure, ArgCountMismatch, StackOverflow, UserError, ExitWith
<1>2. CodeOK(exe)' /\ MemoryOK(exe)' /\ StackIsBounded'
  <2>1. CodeOK(exe) /\ MemoryOK(exe) /\ StackIsBounded
    BY DEF Runs
  <2>2. /\ regs' \in [Registers -> Values]
        /\ \A r \in Registers : Good(exe, regs'[r])
        /\ stack' \in Seq(Values)
        /\ \A i \in DOMAIN stack' : Good(exe, stack'[i])
    BY <1>1, MemoryFacts
  <2>3. CodeOK(exe)' /\ MemoryOK(exe)'
    BY <1>1, <2>1, <2>2, ValuesStep
  <2>4. StackIsBounded'
    BY <1>1, <2>1, <2>3, DeepestKept DEF StackIsBounded, Depth
  <2> QED BY <2>3, <2>4
<1> QED BY <1>1, <1>2 DEF Runs

-----------------------------------------------------------------------------
(***************************************************************************)
(* Pushes, and the prologue.                                               *)
(***************************************************************************)

\* Pushing a slot.
LEMMA AppendFacts ==
  ASSUME NEW S, NEW s \in Seq(S), NEW w \in S
  PROVE  /\ Append(s, w) \in Seq(S)
         /\ Len(Append(s, w)) = Len(s) + 1
         /\ Len(s) \in Nat
         /\ DOMAIN Append(s, w) = 1..(Len(s) + 1)
         /\ DOMAIN s = 1..Len(s)
         /\ \A i \in 1..Len(s) : Append(s, w)[i] = s[i]
         /\ Append(s, w)[Len(s) + 1] = w
OBVIOUS

\* The first two instructions push the head of the frame.
LEMMA PrologueRuns ==
  ASSUME NEW exe \in Executables, Runs(exe), Push, pc <= 2 PROVE Runs(exe)'
<1> DEFINE n == Len(calls)
           top == calls[Len(calls)].base
           w == regs[Here(exe).reg]
<1>1. /\ status = "running" /\ Here(exe).op = "push"
      /\ stack' = Append(stack, w)
      /\ pc' = pc + 1
      /\ UNCHANGED <<prog, status, fn, calls, regs, heap, globals, code, printed>>
  BY AtInstruction DEF Push, At, Advance, Frame
<1>2. /\ pc = 1 \/ pc = 2
      /\ pc = 1 => Here(exe).reg = "r10" /\ Here(exe).depth = 0
      /\ pc = 2 => Here(exe).reg = "rdi" /\ Here(exe).depth = 1
  BY SMTT(30), <1>1, AtInstruction DEF FrameVerified, Here
<1>3. /\ Effect(Here(exe)) = 1 /\ FallsThrough(Here(exe))
      /\ \A x \in Registers : ~Sets(Here(exe), x) /\ Keeps(Here(exe), x)
  BY <1>1 DEF FallsThrough, Effect, Sets, Keeps, Results
<1>4. /\ pc + 1 \in DOMAIN exe.functions[fn].instrs
      /\ exe.functions[fn].instrs[pc + 1].depth = Here(exe).depth + 1
  BY <1>1, <1>3, AtInstruction DEF FlowVerified, Here
<1>5. /\ n \in Nat \ {0} /\ DOMAIN calls = 1..n /\ n \in DOMAIN calls /\ 1 \in DOMAIN calls
      /\ \A k \in DOMAIN calls : calls[k].base \in Nat \ {0}
      /\ \A k \in DOMAIN calls : k < n => calls[k].base + 3 <= top
      /\ \A k \in DOMAIN calls : calls[k].base <= top
      /\ top \in Nat \ {0}
  BY <1>1, Bases
<1>6. FramesOK(exe) /\ prog = exe.prog
  BY <1>1 DEF Runs
<1>7. Depth = top + Here(exe).depth /\ Depth \in Nat /\ DOMAIN stack = 1..Depth
  BY <1>6, MemoryFacts DEF FramesOK
<1>8. w \in Values /\ Good(exe, w)
  <2>1. Here(exe).reg \in Registers
    BY <1>2, RaxIsRegister
  <2> QED BY <2>1, MemoryFacts
<1> HIDE DEF w
<1>9. /\ stack' \in Seq(Values)
      /\ Len(stack') = Depth + 1
      /\ DOMAIN stack' = 1..(Depth + 1)
      /\ \A i \in 1..Depth : stack'[i] = stack[i]
      /\ stack'[Depth + 1] = w
  BY <1>1, <1>8, MemoryFacts, AppendFacts DEF Depth
<1>10. CodeOK(exe)' /\ MemoryOK(exe)'
  <2>1. \A i \in DOMAIN stack' : i \in DOMAIN stack \/ i = Depth + 1
    BY <1>7, <1>9
  <2>2. \A i \in DOMAIN stack' : Good(exe, stack'[i])
    BY <2>1, <1>7, <1>8, <1>9, MemoryFacts
  <2>3. CodeOK(exe) /\ MemoryOK(exe)
    BY DEF Runs
  <2>4. regs' \in [Registers -> Values] /\ \A r \in Registers : Good(exe, regs'[r])
    BY <1>1, MemoryFacts
  <2> QED BY <1>1, <1>9, <2>2, <2>3, <2>4, ValuesStep
<1>11. Intact(exe, fn)'
  BY <1>1 DEF Runs, Intact
<1> HIDE DEF n
<1>12. \A k \in DOMAIN calls : HasHead(k)
  BY <1>2 DEF HasHead
<1>13. \A k \in DOMAIN calls : k < n \/ k = n
  BY <1>5
<1>14. \A k \in DOMAIN calls : Saved(k)' = Saved(k)
  <2> SUFFICES ASSUME NEW k \in DOMAIN calls PROVE Saved(k)' = Saved(k)
    OBVIOUS
  <2>1. Saved(k)' = stack'[calls[k].base + 1]
    <3>1. pc' # 1 /\ calls' = calls
      BY <1>1, <1>2
    <3> QED BY <3>1 DEF Saved
  <2>2. CASE k < n
    <3>1. calls[k].base + 1 \in 1..Depth
      BY <2>2, <1>2, <1>5, <1>7
    <3> QED BY <2>1, <2>2, <3>1, <1>9 DEF Saved, n
  <2>3. CASE k = n /\ pc = 1
    BY <2>1, <2>3, <1>2, <1>7, <1>9, <1>5 DEF Saved, n, w
  <2>4. CASE k = n /\ pc = 2
    <3>1. calls[k].base + 1 \in 1..Depth
      BY <2>4, <1>2, <1>5, <1>7 DEF n
    <3> QED BY <2>1, <2>4, <3>1, <1>9 DEF Saved
  <2> QED BY <2>2, <2>3, <2>4, <1>2, <1>13
<1>15. \A k \in DOMAIN calls : ThisFunction(k)' = ThisFunction(k)
  <2> SUFFICES ASSUME NEW k \in DOMAIN calls PROVE ThisFunction(k)' = ThisFunction(k)
    OBVIOUS
  <2>1. CASE k < n
    <3>1. calls[k].base + 2 \in 1..Depth
      BY <2>1, <1>2, <1>5, <1>7
    <3>2. k # Len(calls) /\ calls' = calls
      BY <2>1, <1>1, <1>5 DEF n
    <3> QED BY <3>1, <3>2, <1>9 DEF ThisFunction
  <2>2. CASE k = n /\ pc = 1
    <3>1. pc' <= 2 /\ pc <= 2 /\ calls' = calls /\ regs' = regs
      BY <2>2, <1>1
    <3> QED BY <2>2, <3>1 DEF ThisFunction, n
  <2>3. CASE k = n /\ pc = 2
    <3>1. ~(pc' <= 2) /\ pc <= 2 /\ calls' = calls /\ regs' = regs
      BY <2>3, <1>1
    <3>2. calls[k].base + 2 = Depth + 1
      BY <2>3, <1>2, <1>5, <1>7 DEF n
    <3>3. ThisFunction(k)' = w
      BY <3>1, <3>2, <1>9 DEF ThisFunction
    <3>4. ThisFunction(k) = w
      BY SMTT(30), <2>3, <3>1, <1>2 DEF ThisFunction, n, w
    <3> QED BY <3>3, <3>4
  <2> QED BY <2>1, <2>2, <2>3, <1>2, <1>13
<1>16. ASSUME NEW k \in DOMAIN calls, k < n
       PROVE  Waits(exe, k)'
  <2>1. k + 1 \in DOMAIN calls
    BY <1>16, <1>5
  <2>2. stack'[calls[k + 1].base] = stack[calls[k + 1].base]
    <3>1. calls[k + 1].base \in 1..Depth
      BY <2>1, <1>2, <1>5, <1>7
    <3> QED BY <3>1, <1>9
  <2>3. Waits(exe, k)
    BY <1>16, <1>6 DEF FramesOK, n
  <2>4. HasHead(k + 1) /\ Saved(k + 1)' = Saved(k + 1)
    BY <2>1, <1>12, <1>14
  <2> QED BY <1>1, <2>2, <2>3, <2>4 DEF Waits
<1>17. ASSUME NEW k \in DOMAIN calls, NEW i \in (calls[k].base + 2)..TopOf(k)'
       PROVE  IsSchemeWord(stack'[i])
  <2>1. CASE k < n
    <3>1. TopOf(k)' = TopOf(k) /\ TopOf(k) = calls[k + 1].base - 1 /\ k + 1 \in DOMAIN calls
      BY <1>1, <2>1, <1>5 DEF TopOf, n
    <3>2. calls[k + 1].base \in Nat /\ calls[k + 1].base <= top /\ calls[k].base \in Nat
      BY <3>1, <1>5
    <3>3. i \in (calls[k].base + 2)..(calls[k + 1].base - 1)
      BY <3>1
    <3>4. i \in 1..Depth
      BY SMTT(30), <3>2, <3>3, <1>5, <1>2, <1>7
    <3>5. IsSchemeWord(stack[i])
      BY <3>1, <1>6 DEF FramesOK
    <3> QED BY <3>4, <3>5, <1>9
  <2>2. CASE k = n
    <3>1. TopOf(k)' = Depth + 1
      BY <1>1, <1>9, <2>2 DEF TopOf, Depth, n
    <3>2. i = Depth + 1 /\ pc = 2
      BY <3>1, <2>2, <1>2, <1>5, <1>7 DEF n
    <3>3. w = Pointer("closure", calls[n].fn)
      BY <3>2, <1>2, <1>6, <1>12, <1>5 DEF FramesOK, ThisFunction, n, w
    <3> QED BY <3>2, <3>3, <1>9 DEF Pointer, IsSchemeWord, HeapTags
  <2> QED BY <2>1, <2>2, <1>13
<1>18. FramesOK(exe)'
  <2>1. /\ Len(calls') > 0
        /\ calls'[Len(calls')].fn = fn'
        /\ calls'[1].base = 1
        /\ \A j, k \in DOMAIN calls' : j < k => calls'[j].base + 3 <= calls'[k].base
    BY SMTT(30), <1>1, <1>6 DEF FramesOK
  <2>2. Depth' = calls'[Len(calls')].base + Here(exe)'.depth
    BY SMTT(30), <1>1, <1>2, <1>4, <1>5, <1>7, <1>9 DEF Depth, Here
  <2>3. stack'[1] = ToEntry
    BY <1>2, <1>5, <1>6, <1>7, <1>9 DEF FramesOK
  <2>4. HasHead(1)' => Saved(1)' = Junk
    BY <1>5, <1>6, <1>12, <1>14 DEF FramesOK
  <2>5. \A k \in DOMAIN calls : HasHead(k)' => ThisFunction(k)' = Pointer("closure", calls[k].fn)
    BY <1>6, <1>12, <1>15 DEF FramesOK
  <2> QED BY <1>1, <1>16, <1>17, <2>1, <2>2, <2>3, <2>4, <2>5 DEF FramesOK, n
<1>19. RegistersOK(exe)'
  BY <1>1, <1>3, RegistersStep
<1>20. Prepared(exe)'
  BY <1>1, <1>3, UnpreparedNext
<1>21. HeightOK(exe)'
  BY <1>1, <1>10, HeightStep
<1>22. /\ fn' \in DOMAIN exe.functions
       /\ pc' \in DOMAIN exe.functions[fn'].instrs
       /\ printed' \in Nat
       /\ calls' \in Seq([fn : DOMAIN exe.functions, base : Nat])
       /\ prog' = exe.prog /\ status' = "running"
  BY <1>1, <1>4 DEF Runs
<1> QED BY <1>10, <1>11, <1>18, <1>19, <1>20, <1>21, <1>22, KeepsRunning

\* A push in the prologue, or of a word in the body.
LEMMA PushRuns ==
  ASSUME NEW exe \in Executables, Runs(exe), Push PROVE Runs(exe)'
<1> DEFINE w == regs[Here(exe).reg]
<1>1. /\ status = "running" /\ Here(exe).op = "push"
      /\ stack' = Append(stack, w)
      /\ pc' = pc + 1
      /\ UNCHANGED <<prog, status, fn, calls, regs, heap, globals, code, printed>>
  BY AtInstruction DEF Push, At, Advance, Frame
<1>2. CASE pc <= 2
  BY <1>2, PrologueRuns
<1>3. CASE pc > 2
  <2>1. /\ Effect(Here(exe)) = 1 /\ FallsThrough(Here(exe))
        /\ \A x \in Registers : ~Sets(Here(exe), x)
    BY <1>1 DEF FallsThrough, Effect, Sets, Results
  <2>2. IsSchemeWord(w) /\ Good(exe, w) /\ w \in Values
    <3>1. Here(exe).reg \in Registers /\ HoldsWord(exe.functions[fn], pc, Here(exe).reg)
      BY <1>1, <1>3, AtInstruction DEF RegistersVerified, Here
    <3> QED BY <1>1, <3>1, HeldIsWord, MemoryFacts
  <2> HIDE DEF w
  <2>3. /\ stack' \in Seq(Values)
        /\ Len(stack') = Depth + Effect(Here(exe))
        /\ DOMAIN stack' = 1..(Depth + 1)
        /\ \A i \in 1..Depth : stack'[i] = stack[i]
        /\ stack'[Depth + 1] = w
    BY <1>1, <2>1, <2>2, MemoryFacts, AppendFacts DEF Depth
  <2>4. \A i \in DOMAIN stack' : i \in DOMAIN stack \/ i = Depth + 1
    BY <2>3, MemoryFacts
  <2>5. /\ \A i \in DOMAIN stack' : Good(exe, stack'[i])
        /\ \A i \in DOMAIN stack' :
             i >= calls[Len(calls)].base + 2 => IsSchemeWord(stack'[i])
        /\ \A i \in DOMAIN stack' :
             i <= calls[Len(calls)].base + 2 => stack'[i] = stack[i]
    BY <1>1, <1>3, <2>2, <2>3, <2>4, MemoryFacts, Inside
  <2>6. Prepared(exe)'
    BY <1>1, <2>1, UnpreparedNext
  <2> QED BY <1>1, <1>3, <2>1, <2>3, <2>5, <2>6, MemoryFacts, SlotsStep
<1>4. pc \in Nat
  BY <1>1, AtInstruction
<1> QED BY <1>2, <1>3, <1>4

-----------------------------------------------------------------------------
(***************************************************************************)
(* Globals and pairs.                                                      *)
(***************************************************************************)

\* Whoever holds the global vector finds its elements up to date.
LEMMA GlobalsAreSound ==
  ASSUME NEW exe \in Executables, Runs(exe),
         NEW r \in Registers, regs[r] = GlobalVector
  PROVE  /\ GlobalsKept
         /\ DOMAIN globals = DOMAIN exe.globals
         /\ globals = [i \in DOMAIN globals |-> globals[i]]
         /\ \A i \in DOMAIN globals : Sound(exe, globals[i])
<1>1. /\ globals = [i \in DOMAIN exe.globals |-> globals[i]]
      /\ \/ \A i \in DOMAIN globals : Sound(exe, globals[i])
         \/ \A i \in DOMAIN globals : globals[i] = Stale
  BY DEF Runs, MemoryOK
<1>2. GlobalsKept
  <2>1. Good(exe, GlobalVector) /\ IsSchemeWord(GlobalVector)
    BY MemoryFacts DEF GlobalVector, IsSchemeWord, HeapTags
  <2>2. Sound(exe, GlobalVector)
    BY <2>1, GoodWords
  <2> QED BY <2>2 DEF Sound, GlobalVector
<1> QED BY <1>1, <1>2 DEF GlobalsKept

\* What is sound stays so when more is there.
LEMMA SoundGrows ==
  ASSUME NEW exe, code' = code, DOMAIN heap \subseteq DOMAIN heap',
         GlobalsKept => GlobalsKept', CodeOK(exe)
  PROVE  /\ \A w : Sound(exe, w) => Sound(exe, w)'
         /\ \A w : Good(exe, w) => Good(exe, w)'
         /\ CodeOK(exe)'
<1>1. \A w : Sound(exe, w) => Sound(exe, w)'
  BY DEF Sound, Intact
<1>2. \A w : Good(exe, w) => Good(exe, w)'
  BY <1>1 DEF Good
<1>3. CodeOK(exe)'
  <2>1. \A f \in DOMAIN code : Intact(exe, f)' <=> Intact(exe, f)
    BY DEF Intact
  <2> QED BY <1>1, <2>1 DEF CodeOK
<1> QED BY <1>1, <1>2, <1>3

\* An assignment to a global.
LEMMA StoreElemRuns ==
  ASSUME NEW exe \in Executables, Runs(exe), StoreElem PROVE Runs(exe)'
<1> DEFINE ix == Here(exe).ix + 1
           w == regs["rax"]
<1>1. /\ status = "running" /\ Here(exe).op = "storeElem"
      /\ globals' = IF regs["rcx"] = GlobalVector
                    THEN [globals EXCEPT ![ix] = w] ELSE globals
      /\ pc' = pc + 1
      /\ UNCHANGED <<prog, status, fn, calls, regs, stack, heap, code, printed>>
  BY AtInstruction DEF StoreElem, At, Advance, Frame
<1>2. regs["rcx"] = GlobalVector
  BY <1>1 DEF Runs, Prepared
<1>3. /\ GlobalsKept
      /\ DOMAIN globals = DOMAIN exe.globals
      /\ globals = [i \in DOMAIN globals |-> globals[i]]
      /\ \A i \in DOMAIN globals : Sound(exe, globals[i])
  BY <1>2, RaxIsRegister, GlobalsAreSound
<1>4. Sound(exe, w)
  <2>1. HoldsWord(exe.functions[fn], pc, "rax")
    BY <1>1, AtInstruction DEF RegistersVerified, Here
  <2> QED BY <1>1, <2>1, HeldIsWord, RaxIsRegister
<1>5. w # Stale
  BY <1>4, GoodWords, ValuesTyped DEF Good
<1> HIDE DEF w, ix
<1>6. /\ globals' = [i \in DOMAIN exe.globals |-> globals'[i]]
      /\ DOMAIN globals' = DOMAIN globals
      /\ \A i \in DOMAIN globals : globals'[i] = IF i = ix THEN w ELSE globals[i]
  BY <1>1, <1>2, <1>3
<1>7. GlobalsKept'
  BY <1>3, <1>5, <1>6 DEF GlobalsKept
<1>8. /\ \A x : Sound(exe, x) => Sound(exe, x)'
      /\ \A x : Good(exe, x) => Good(exe, x)'
      /\ CodeOK(exe)'
  BY <1>1, <1>7, SoundGrows DEF Runs
<1>9. (\A i \in DOMAIN globals : Sound(exe, globals[i]))'
  <2>1. \A i \in DOMAIN globals' : Sound(exe, globals'[i])
    BY <1>3, <1>4, <1>6
  <2> QED BY <1>8, <2>1
<1>10. MemoryOK(exe)'
  <2>1. MemoryOK(exe)
    BY DEF Runs
  <2>2. (\A r \in Registers : Good(exe, regs[r]))'
    BY <1>1, <1>8, <2>1 DEF MemoryOK
  <2>3. (\A i \in DOMAIN stack : Good(exe, stack[i]))'
    BY <1>1, <1>8, <2>1 DEF MemoryOK
  <2>4. (\A o \in DOMAIN heap : Sound(exe, heap[o].car) /\ Sound(exe, heap[o].cdr))'
    BY <1>1, <1>8, <2>1 DEF MemoryOK
  <2>5. /\ regs' \in [Registers -> Values]
        /\ stack' \in Seq(Values)
        /\ heap' = [o \in DOMAIN heap' |-> heap'[o]]
        /\ DOMAIN heap' \subseteq 1..HeapPairs
    BY <1>1, <2>1 DEF MemoryOK
  <2> QED BY <1>6, <1>9, <2>2, <2>3, <2>4, <2>5 DEF MemoryOK
<1>11. Intact(exe, fn)'
  BY <1>1 DEF Runs, Intact
<1>12. Prepared(exe)'
  BY <1>1, UnpreparedNext DEF FallsThrough
<1>13. /\ Here(exe).op \notin {"push", "ret", "checkStack"}
       /\ pc > 2 /\ Here(exe).depth >= 2 /\ printed' \in Nat
  BY <1>1, Inside, MemoryFacts
<1> QED BY <1>1, <1>8, <1>10, <1>11, <1>12, <1>13, SameSlots, Advances

\* A pair is allocated where there is none.
LEMMA FreePair ==
  ASSUME NEW exe \in Executables, Runs(exe), Cardinality(DOMAIN heap) < HeapPairs
  PROVE  LET free == 1..(HeapPairs + 1) \ DOMAIN heap
             o == CHOOSE x \in free : \A y \in free : x <= y
         IN  o \in 1..HeapPairs /\ o \notin DOMAIN heap
<1> DEFINE free == 1..(HeapPairs + 1) \ DOMAIN heap
           o == CHOOSE x \in free : \A y \in free : x <= y
<1>1. HeapPairs \in Nat /\ DOMAIN heap \subseteq 1..HeapPairs
  BY MachineAssumption DEF Runs, MemoryOK
<1>2. PICK a \in 1..HeapPairs : a \notin DOMAIN heap
  <2> SUFFICES ASSUME 1..HeapPairs \subseteq DOMAIN heap PROVE FALSE
    OBVIOUS
  <2>1. DOMAIN heap = 1..HeapPairs
    BY <1>1
  <2>2. Cardinality(1..HeapPairs) = HeapPairs
    BY <1>1, FS_Interval
  <2> QED BY <1>1, <2>1, <2>2
<1>3. a \in free /\ free \subseteq Nat
  BY <1>1, <1>2
<1> HIDE DEF free
<1>4. \E x \in free : \A y \in free : x <= y
  BY <1>3, LeastNatural
<1>5. o \in free /\ o <= a
  BY <1>3, <1>4
<1> QED BY <1>1, <1>2, <1>5 DEF free

\* A new pair: the room that was reserved is still there.
LEMMA FillRuns ==
  ASSUME NEW exe \in Executables, Runs(exe), Fill PROVE Runs(exe)'
<1> DEFINE pair == [car |-> Slot(1), cdr |-> Slot(0)]
<1>1. /\ status = "running" /\ Here(exe).op = "fill"
      /\ pc' = pc + 1
      /\ UNCHANGED <<prog, status, fn, calls, regs, globals, code, printed>>
  BY AtInstruction DEF Fill, At, Advance, Frame
<1>2. PICK o \in 1..HeapPairs :
        /\ o \notin DOMAIN heap
        /\ heap' = [x \in DOMAIN heap \cup {o} |-> IF x = o THEN pair ELSE heap[x]]
        /\ stack' = Append(DropSlots(2), Pointer("pair", o))
  <2>1. Cardinality(DOMAIN heap) < HeapPairs
    BY <1>1 DEF Runs, Prepared
  <2> QED BY <2>1, FreePair DEF Fill
<1>3. Here(exe).depth >= 4
  BY <1>1, AtInstruction DEF StackVerified, Here
<1>4. Here(exe).op \notin {"push", "ret"}
  BY <1>1
<1>5. Sound(exe, pair.car) /\ Sound(exe, pair.cdr)
  <2>1. 0 \in 0..(Here(exe).depth - 2) /\ 1 \in 0..(Here(exe).depth - 2)
    BY <1>3, <1>4, <1>1, Inside
  <2> QED BY <2>1, <1>1, <1>4, SlotIsWord
<1> HIDE DEF pair
<1>6. /\ DOMAIN heap' = DOMAIN heap \cup {o}
      /\ heap' = [x \in DOMAIN heap' |-> heap'[x]]
      /\ heap'[o] = pair
      /\ \A x \in DOMAIN heap : heap'[x] = heap[x]
  BY <1>2
<1>7. /\ \A x : Sound(exe, x) => Sound(exe, x)'
      /\ \A x : Good(exe, x) => Good(exe, x)'
      /\ CodeOK(exe)'
  <2>1. GlobalsKept => GlobalsKept'
    BY <1>1 DEF GlobalsKept
  <2> QED BY <1>1, <1>6, <2>1, SoundGrows DEF Runs
<1> DEFINE p == Pointer("pair", o)
<1>8. Sound(exe, p)' /\ Good(exe, p)' /\ IsSchemeWord(p) /\ p \in Values
  <2>1. p \in SchemeWords /\ IsSchemeWord(p) /\ p.tag = "pair" /\ p.upper = o
    BY <1>2 DEF Pointer, SchemeWords, HeapTags, IsSchemeWord
  <2> HIDE DEF p
  <2>2. Sound(exe, p)'
    BY <1>6, <2>1 DEF Sound
  <2>3. p \in Values
    BY <2>1, WordsAreValues
  <2> QED BY <2>1, <2>2, <2>3 DEF Good
<1> HIDE DEF p
<1>9. /\ stack' \in Seq(Values)
      /\ Depth \in Nat
      /\ Len(stack') = Depth - 1
      /\ DOMAIN stack' = 1..(Depth - 1)
      /\ \A i \in 1..(Depth - 2) : stack'[i] = stack[i] /\ i \in DOMAIN stack
      /\ stack'[Depth - 1] = p
  <2>1. 2 \in 0..Depth
    BY <1>1, <1>3, <1>4, Inside
  <2>2. /\ DropSlots(2) \in Seq(Values)
        /\ Len(DropSlots(2)) = Depth - 2
        /\ \A i \in 1..(Depth - 2) : DropSlots(2)[i] = stack[i] /\ i \in DOMAIN stack
        /\ Depth \in Nat
    BY <2>1, MemoryFacts, DropFacts
  <2>3. stack' = Append(DropSlots(2), p)
    BY <1>2 DEF p
  <2> HIDE DEF p
  <2>4. /\ Append(DropSlots(2), p) \in Seq(Values)
        /\ Len(Append(DropSlots(2), p)) = Len(DropSlots(2)) + 1
        /\ DOMAIN Append(DropSlots(2), p) = 1..(Len(DropSlots(2)) + 1)
        /\ \A i \in 1..Len(DropSlots(2)) : Append(DropSlots(2), p)[i] = DropSlots(2)[i]
        /\ Append(DropSlots(2), p)[Len(DropSlots(2)) + 1] = p
    BY <1>8, <2>2, AppendFacts
  <2> QED BY <2>1, <2>2, <2>3, <2>4
<1>10. \A i \in DOMAIN stack' : i \in 1..(Depth - 2) \/ i = Depth - 1
  BY <1>9
<1>11. MemoryOK(exe)'
  <2>1. MemoryOK(exe)
    BY DEF Runs
  <2>2. (\A r \in Registers : Good(exe, regs[r]))'
    BY <1>1, <1>7, <2>1 DEF MemoryOK
  <2>3. (\A i \in DOMAIN stack : Good(exe, stack[i]))'
    <3>1. \A i \in 1..(Depth - 2) : Good(exe, stack'[i])
      BY <1>9, MemoryFacts
    <3> QED BY <3>1, <1>7, <1>8, <1>9, <1>10
  <2>4. (\A x \in DOMAIN heap : Sound(exe, heap[x].car) /\ Sound(exe, heap[x].cdr))'
    <3>1. \A x \in DOMAIN heap : Sound(exe, heap[x].car) /\ Sound(exe, heap[x].cdr)
      BY <2>1 DEF MemoryOK
    <3>2. \A x \in DOMAIN heap' : Sound(exe, heap'[x].car) /\ Sound(exe, heap'[x].cdr)
      BY <1>5, <1>6, <3>1
    <3> QED BY <1>7, <3>2
  <2>5. (\/ \A i \in DOMAIN globals : Sound(exe, globals[i])
         \/ \A i \in DOMAIN globals : globals[i] = Stale)'
    <3>1. \/ \A i \in DOMAIN globals : Sound(exe, globals[i])
          \/ \A i \in DOMAIN globals : globals[i] = Stale
      BY <2>1 DEF MemoryOK
    <3> QED BY <1>1, <1>7, <3>1
  <2>6. /\ regs' \in [Registers -> Values]
        /\ globals' = [i \in DOMAIN exe.globals |-> globals'[i]]
        /\ DOMAIN heap' \subseteq 1..HeapPairs
    BY <1>1, <1>2, <1>6, <2>1 DEF MemoryOK
  <2> QED BY <1>6, <1>9, <2>2, <2>3, <2>4, <2>5, <2>6 DEF MemoryOK
<1>12. Intact(exe, fn)'
  BY <1>1 DEF Runs, Intact
<1>13. /\ Effect(Here(exe)) = -1 /\ FallsThrough(Here(exe))
       /\ \A x \in Registers : ~Sets(Here(exe), x)
  BY <1>1 DEF Effect, FallsThrough, Sets, Results
<1>14. Prepared(exe)'
  BY <1>1, <1>13, UnpreparedNext
<1>15. /\ pc > 2 /\ Here(exe).depth >= 2 /\ printed' \in Nat
  BY <1>1, <1>4, Inside, MemoryFacts
<1>16. /\ Len(stack') = Depth + Effect(Here(exe))
       /\ \A i \in DOMAIN stack' :
            i <= calls[Len(calls)].base + 2 => stack'[i] = stack[i]
       /\ \A i \in DOMAIN stack' :
            i >= calls[Len(calls)].base + 2 => IsSchemeWord(stack'[i])
  <2>1. calls[Len(calls)].base + 2 <= Depth - 2 /\ calls[Len(calls)].base \in Nat
    BY <1>1, <1>3, <1>4, Inside
  <2>2. ASSUME NEW i \in DOMAIN stack', i <= calls[Len(calls)].base + 2
        PROVE  stack'[i] = stack[i]
    BY <2>1, <2>2, <1>9
  <2>3. ASSUME NEW i \in DOMAIN stack', i >= calls[Len(calls)].base + 2
        PROVE  IsSchemeWord(stack'[i])
    BY <2>3, <1>1, <1>4, <1>8, <1>9, <1>10, Inside
  <2> QED BY <1>9, <1>13, <2>2, <2>3
<1> QED BY <1>1, <1>7, <1>11, <1>12, <1>13, <1>14, <1>15, <1>16, Advances

-----------------------------------------------------------------------------
(***************************************************************************)
(* Calls.                                                                  *)
(***************************************************************************)

\* What a function is entered with.
LEMMA CalleeFacts ==
  ASSUME NEW exe \in Executables, Runs(exe), status = "running",
         Here(exe).op \in {"call", "tailCall"}
  PROVE  /\ Callee \in DOMAIN exe.functions
         /\ Callee \in Nat \ {0}
         /\ Intact(exe, Callee)
         /\ regs["rdi"] = Pointer("closure", Callee)
         /\ 1 \in DOMAIN exe.functions[Callee].instrs
         /\ exe.functions[Callee].instrs[1].depth = 0
         /\ \A r \in EntryRegisters(exe.functions[Callee].arity) :
              r # "r10" /\ IsSchemeWord(regs[r])
         /\ ~Checked(exe.functions[Callee], 1)
         /\ \A op : ~Follows(exe.functions[Callee], 1, op)
<1> DEFINE f == exe.functions[fn]
           argc == f.instrs[pc - 1].argc
<1>1. regs["rdi"].tag = "closure" /\ code[Callee].arity = argc
  BY DEF Runs, Prepared
<1>2. Sound(exe, regs["rdi"])
  <2>1. IsSchemeWord(regs["rdi"])
    BY <1>1 DEF IsSchemeWord, HeapTags
  <2> QED BY <2>1, MemoryFacts, RaxIsRegister, GoodWords
<1>3. Callee \in DOMAIN code /\ Intact(exe, Callee)
  BY <1>1, <1>2 DEF Sound, Callee
<1>4. Callee \in DOMAIN exe.functions /\ Callee \in Nat \ {0}
  <2>1. DOMAIN code = DOMAIN exe.functions
    BY DEF Runs, CodeOK
  <2>2. Callee \in DOMAIN exe.functions
    BY <2>1, <1>3
  <2>3. DOMAIN exe.functions = 1..Len(exe.functions) /\ Len(exe.functions) \in Nat
    BY CodeFacts
  <2> HIDE DEF f
  <2> QED BY <2>2, <2>3
<1>5. regs["rdi"] = Pointer("closure", Callee)
  BY <1>1, <1>2 DEF Sound, SchemeWords, Pointer, Callee
<1>6. /\ DOMAIN exe.functions[Callee].instrs = 1..Len(exe.functions[Callee].instrs)
      /\ Len(exe.functions[Callee].instrs) \in Nat \ {0}
  BY <1>4, FunctionFacts
<1>7. 1 \in DOMAIN exe.functions[Callee].instrs
  BY <1>6
<1>8. exe.functions[Callee].instrs[1].depth = 0
  BY <1>4, <1>7, InstructionFacts DEF FrameVerified
<1>9. argc \in 0..5 /\ \A r \in EntryRegisters(argc) : HoldsWord(f, pc, r)
  <2>1. RegistersVerified(f, pc) /\ f.instrs[pc].op \in {"call", "tailCall"}
    BY AtInstruction DEF Here
  <2>2. Len(ArgumentRegisters) = 5
    BY DEF ArgumentRegisters
  <2> QED BY <2>1, <2>2 DEF RegistersVerified
<1>10. EntryRegisters(argc) \subseteq Registers \ {"r10"}
  BY <1>9 DEF EntryRegisters, ArgumentRegisters, Registers
<1>11. \A r \in EntryRegisters(argc) : r # "r10" /\ IsSchemeWord(regs[r])
  <2>1. RegistersOK(exe)
    BY DEF Runs
  <2> QED BY <1>9, <1>10, <2>1 DEF RegistersOK
<1>12. exe.functions[Callee].arity = argc
  BY <1>1, <1>3 DEF Intact
<1>13. ~Checked(exe.functions[Callee], 1)
  BY DEF Checked
<1>14. \A op : ~Follows(exe.functions[Callee], 1, op)
  BY <1>6 DEF Follows
<1> QED BY <1>3, <1>4, <1>5, <1>7, <1>8, <1>11, <1>12, <1>13, <1>14

\* What holds in a function that has just been entered.
LEMMA Entered ==
  ASSUME NEW exe \in Executables, Runs(exe), status = "running",
         Here(exe).op \in {"call", "tailCall"},
         NEW fd \in Values, ~IsSchemeWord(fd),
         Enter(Callee, fd),
         stack' \in Seq(Values),
         \A i \in DOMAIN stack' : Good(exe, stack'[i])
  PROVE  /\ CodeOK(exe)' /\ MemoryOK(exe)' /\ Intact(exe, fn)'
         /\ RegistersOK(exe)' /\ Prepared(exe)'
         /\ fn' \in DOMAIN exe.functions
         /\ pc' \in DOMAIN exe.functions[fn'].instrs
         /\ printed' \in Nat
         /\ status' = "running"
         /\ prog' = exe.prog
         /\ regs'["r10"] = fd
         /\ regs'["rdi"] = Pointer("closure", Callee)
         /\ Here(exe)'.depth = 0
         /\ DeepestFrame' = DeepestFrame
<1>1. /\ fn' = Callee
      /\ pc' = 1
      /\ regs' = [regs EXCEPT !["r10"] = fd]
      /\ UNCHANGED <<prog, status, heap, globals, code, printed>>
  BY DEF Enter
<1>2. CodeOK(exe) /\ MemoryOK(exe) /\ prog = exe.prog
  BY DEF Runs
<1>3. regs \in [Registers -> Values] /\ \A r \in Registers : Good(exe, regs[r])
  BY MemoryFacts
<1>4. Good(exe, fd)
  BY DEF Good
<1>5. regs' \in [Registers -> Values] /\ \A r \in Registers : Good(exe, regs'[r])
  BY <1>1, <1>3, <1>4
<1>6. CodeOK(exe)' /\ MemoryOK(exe)'
  BY <1>1, <1>2, <1>5, ValuesStep
<1>7. Intact(exe, fn)'
  <2>1. Intact(exe, Callee)
    BY CalleeFacts
  <2> QED BY <1>1, <2>1 DEF Intact
<1>8. RegistersOK(exe)'
  <2> SUFFICES ASSUME NEW r \in Registers, HoldsWord(exe.functions[Callee], 1, r)
               PROVE  IsSchemeWord(regs'[r])
    BY <1>1 DEF RegistersOK
  <2>1. r # "r10" /\ IsSchemeWord(regs[r])
    BY HoldsAtEntry, CalleeFacts
  <2> QED BY <2>1, <1>1, <1>3
<1>9. Prepared(exe)'
  BY <1>1, CalleeFacts, Unprepared
<1>10. Here(exe)'.depth = 0
  BY <1>1, CalleeFacts DEF Here
<1>11. regs'["r10"] = fd /\ regs'["rdi"] = Pointer("closure", Callee)
  BY <1>1, <1>3, RaxIsRegister, CalleeFacts
<1>12. DeepestFrame' = DeepestFrame
  BY <1>2, <1>6, DeepestKept
<1> QED BY <1>1, <1>2, <1>6, <1>7, <1>8, <1>9, <1>10, <1>11, <1>12, CalleeFacts, MemoryFacts

\* The frame that a call leaves behind.
LEMMA Leaving ==
  ASSUME NEW exe \in Executables, Runs(exe), status = "running",
         Here(exe).op \in {"call", "tailCall"}
  PROVE  /\ pc > 2
         /\ \A k \in DOMAIN calls : HasHead(k)
         /\ \A k \in DOMAIN calls : Saved(k) = stack[calls[k].base + 1]
         /\ \A k \in DOMAIN calls : ThisFunction(k) = stack[calls[k].base + 2]
         /\ prog.option.stackCheck => calls[Len(calls)].base <= StackLimit
<1>1. pc > 2 /\ HasHead(Len(calls)) /\ pc \in Nat
  BY Inside, AtInstruction
<1>2. \A k \in DOMAIN calls : k < Len(calls) \/ k = Len(calls)
  BY Bases
<1>3. prog.option.stackCheck => calls[Len(calls)].base <= StackLimit
  <2>1. prog = exe.prog /\ HeightOK(exe)
    BY DEF Runs
  <2>2. prog.option.stackCheck => Checked(exe.functions[fn], pc)
    BY <2>1, AtInstruction DEF PrologueVerified, Here
  <2> QED BY <2>1, <2>2 DEF HeightOK
<1> QED BY <1>1, <1>2, <1>3 DEF HasHead, Saved, ThisFunction

\* A call: the caller waits with its descriptor in the frame of the callee.
LEMMA CallRuns ==
  ASSUME NEW exe \in Executables, Runs(exe), Call PROVE Runs(exe)'
<1> DEFINE top == calls[Len(calls)].base
           frame == [fn |-> Callee, base |-> Depth + 1]
<1>0. PICK n \in Nat : n = Len(calls)
  <2>1. Len(calls) \in Nat
    BY Bases, AtInstruction DEF Call, At
  <2> QED BY <2>1
<1>1. /\ status = "running" /\ Here(exe).op = "call"
      /\ stack' = Append(stack, RetAddr(fn, pc + 1))
      /\ calls' = Append(calls, frame)
      /\ Enter(Callee, Packed(Here(exe).fd))
  BY AtInstruction DEF Call, At
<1>2. pc' = 1 /\ fn' = Callee /\ prog' = prog
  BY <1>1 DEF Enter
<1>3. /\ Packed(Here(exe).fd) \in Values
      /\ ~IsSchemeWord(Packed(Here(exe).fd))
  <2>1. IsFrameDescr(Here(exe).fd)
    BY <1>1, AtInstruction DEF DescriptorVerified, Describes
  <2> QED BY <2>1, WordsAreValues DEF Packed, IsSchemeWord, HeapTags, ImmediateTags
<1>4. /\ RetAddr(fn, pc + 1) \in Values
      /\ Good(exe, RetAddr(fn, pc + 1))
  <2>1. fn \in Nat /\ pc + 1 \in Nat
    <3>1. fn \in DOMAIN exe.functions /\ pc \in Nat
      BY <1>1, AtInstruction
    <3>2. DOMAIN exe.functions = 1..Len(exe.functions) /\ Len(exe.functions) \in Nat
      BY CodeFacts
    <3> QED BY <3>1, <3>2
  <2>2. RetAddr(fn, pc + 1) \in Values
    BY <2>1, WordsAreValues
  <2>3. ~IsSchemeWord(RetAddr(fn, pc + 1))
    BY DEF RetAddr, IsSchemeWord, HeapTags, ImmediateTags
  <2> QED BY <2>2, <2>3 DEF Good
<1>5. /\ stack' \in Seq(Values)
      /\ Len(stack') = Depth + 1
      /\ DOMAIN stack' = 1..(Depth + 1)
      /\ \A i \in 1..Depth : stack'[i] = stack[i] /\ i \in DOMAIN stack
      /\ stack'[Depth + 1] = RetAddr(fn, pc + 1)
  BY <1>1, <1>4, MemoryFacts, AppendFacts DEF Depth
<1>6. \A i \in DOMAIN stack' : Good(exe, stack'[i])
  <2>1. \A i \in DOMAIN stack' : i \in 1..Depth \/ i = Depth + 1
    BY <1>5, MemoryFacts
  <2> QED BY <2>1, <1>4, <1>5, MemoryFacts
<1>7. /\ CodeOK(exe)' /\ MemoryOK(exe)' /\ Intact(exe, fn)'
      /\ RegistersOK(exe)' /\ Prepared(exe)'
      /\ fn' \in DOMAIN exe.functions
      /\ pc' \in DOMAIN exe.functions[fn'].instrs
      /\ printed' \in Nat
      /\ status' = "running"
      /\ prog' = exe.prog
      /\ regs'["r10"] = Packed(Here(exe).fd)
      /\ regs'["rdi"] = Pointer("closure", Callee)
      /\ Here(exe)'.depth = 0
      /\ DeepestFrame' = DeepestFrame
  BY <1>1, <1>3, <1>5, <1>6, Entered
<1>8. /\ n \in Nat \ {0} /\ DOMAIN calls = 1..n /\ n \in DOMAIN calls /\ 1 \in DOMAIN calls
      /\ \A k \in DOMAIN calls : calls[k].base \in Nat \ {0}
      /\ \A k \in DOMAIN calls : calls[k].base <= top
      /\ top \in Nat \ {0}
      /\ Here(exe).depth >= 2 /\ Here(exe).depth \in Nat
      /\ Depth = top + Here(exe).depth
      /\ Depth \in Nat
  BY <1>0, <1>1, Bases, Inside
<1>9. /\ FramesOK(exe) /\ HeightOK(exe)
      /\ calls \in Seq([fn : DOMAIN exe.functions, base : Nat])
  BY <1>1 DEF Runs
<1> HIDE DEF frame
<1>10. /\ calls' \in Seq([fn : DOMAIN exe.functions, base : Nat])
       /\ Len(calls') = n + 1
       /\ DOMAIN calls' = 1..(n + 1)
       /\ \A k \in 1..n : calls'[k] = calls[k]
       /\ calls'[n + 1] = frame
  <2>1. frame \in [fn : DOMAIN exe.functions, base : Nat]
    BY <1>1, <1>8, CalleeFacts DEF frame
  <2> QED BY <1>0, <1>1, <1>9, <2>1, AppendFacts
<1>11. frame.fn = Callee /\ frame.base = Depth + 1
  BY DEF frame
<1>12. \A k \in DOMAIN calls' : k \in 1..n \/ k = n + 1
  BY <1>8, <1>10
<1>13. \A k \in 1..n : /\ Saved(k)' = Saved(k)
                       /\ ThisFunction(k)' = ThisFunction(k)
                       /\ HasHead(k)'
  <2> SUFFICES ASSUME NEW k \in 1..n
               PROVE  /\ Saved(k)' = Saved(k)
                      /\ ThisFunction(k)' = ThisFunction(k)
                      /\ HasHead(k)'
    OBVIOUS
  <2>1. k < Len(calls') /\ k # Len(calls') /\ calls'[k] = calls[k]
    BY <1>8, <1>10
  <2>2. calls[k].base + 1 \in 1..Depth /\ calls[k].base + 2 \in 1..Depth
    BY SMTT(30), <1>8
  <2>3. Saved(k)' = stack'[calls[k].base + 1] /\ ThisFunction(k)' = stack'[calls[k].base + 2]
    BY <2>1 DEF Saved, ThisFunction
  <2>4. Saved(k) = stack[calls[k].base + 1] /\ ThisFunction(k) = stack[calls[k].base + 2]
    BY <1>1, <1>8, Leaving
  <2> QED BY <2>1, <2>2, <2>3, <2>4, <1>5 DEF HasHead
<1>14. ASSUME NEW k \in DOMAIN calls', k < Len(calls')
       PROVE  Waits(exe, k)'
  <2>1. CASE k < n
    <3>1. k \in 1..n /\ k + 1 \in 1..n /\ k \in DOMAIN calls
      BY <2>1, <1>8, <1>10
    <3>2. Waits(exe, k) /\ HasHead(k + 1)
      BY <1>0, <2>1, <3>1, <1>1, <1>8, <1>9, Leaving DEF FramesOK
    <3>3. stack'[calls[k + 1].base] = stack[calls[k + 1].base]
      <4>1. calls[k + 1].base \in 1..Depth
        BY <3>1, <1>8
      <4> QED BY <4>1, <1>5
    <3>4. calls'[k] = calls[k] /\ calls'[k + 1] = calls[k + 1]
      BY <3>1, <1>10
    <3>5. Saved(k + 1)' = Saved(k + 1)
      BY <3>1, <1>13
    <3> QED BY <3>2, <3>3, <3>4, <3>5 DEF Waits
  <2>2. CASE k = n
    <3>1. Saved(n + 1)' = Packed(Here(exe).fd)
      <4>1. n + 1 = Len(calls') /\ pc' = 1
        BY <1>2, <1>10
      <4> QED BY <4>1, <1>7 DEF Saved
    <3>2. calls'[n + 1].base = top + Here(exe).depth + 1
      BY <1>8, <1>10, <1>11
    <3>3. calls'[n].fn = fn /\ calls'[n].base = top
      BY <1>0, <1>8, <1>9, <1>10 DEF FramesOK
    <3>4. stack'[calls'[n + 1].base] = RetAddr(fn, pc + 1)
      BY <1>5, <1>10, <1>11
    <3>5. pc \in DOMAIN exe.functions[fn].instrs /\ Here(exe) = exe.functions[fn].instrs[pc]
      BY <1>1, AtInstruction DEF Here
    <3>6. Waits(exe, n)'
      BY <3>1, <3>2, <3>3, <3>4, <3>5, <1>1 DEF Waits
    <3> QED BY <2>2, <3>6
  <2> QED BY <2>1, <2>2, <1>8, <1>10, <1>14, <1>12
<1>15. ASSUME NEW k \in DOMAIN calls'
       PROVE  ThisFunction(k)' = Pointer("closure", calls'[k].fn)
  <2>1. CASE k \in 1..n
    <3>1. ThisFunction(k) = Pointer("closure", calls[k].fn)
      BY <2>1, <1>1, <1>8, <1>9, Leaving DEF FramesOK
    <3> QED BY <2>1, <3>1, <1>10, <1>13
  <2>2. CASE k = n + 1
    BY <2>2, <1>2, <1>7, <1>10, <1>11 DEF ThisFunction
  <2> QED BY <2>1, <2>2, <1>12
<1>16. ASSUME NEW k \in DOMAIN calls', NEW i \in (calls'[k].base + 2)..TopOf(k)'
       PROVE  IsSchemeWord(stack'[i])
  <2>1. CASE k \in 1..n
    <3>1. TopOf(k)' = TopOf(k) /\ TopOf(k) <= Depth /\ TopOf(k) \in Int
      <4>1. CASE k < n
        <5>1. k + 1 \in 1..n
          BY <4>1, <1>8, <2>1
        <5>2. TopOf(k) = calls[k + 1].base - 1 /\ TopOf(k)' = calls[k + 1].base - 1
          BY <1>0, <4>1, <5>1, <2>1, <1>8, <1>10 DEF TopOf
        <5> QED BY <5>1, <5>2, <1>8
      <4>2. CASE k = n
        <5>1. TopOf(k) = Depth
          BY <1>0, <4>2 DEF TopOf
        <5>2. TopOf(k)' = calls'[n + 1].base - 1
          BY <4>2, <1>8, <1>10 DEF TopOf
        <5> QED BY <5>1, <5>2, <1>8, <1>10, <1>11
      <4> QED BY <4>1, <4>2, <2>1, <1>8
    <3>2. calls'[k] = calls[k] /\ calls[k].base \in Nat
      BY <2>1, <1>8, <1>10
    <3>3. i \in (calls[k].base + 2)..TopOf(k) /\ i \in 1..Depth
      BY <3>1, <3>2, <1>8
    <3>4. IsSchemeWord(stack[i])
      BY <2>1, <3>3, <1>8, <1>9 DEF FramesOK
    <3> QED BY <3>3, <3>4, <1>5
  <2>2. CASE k = n + 1
    <3>1. TopOf(k)' = Depth + 1
      BY <2>2, <1>5, <1>10, <1>8 DEF TopOf, Depth
    <3>2. calls'[k].base + 2 = Depth + 3
      BY <2>2, <1>8, <1>10, <1>11
    <3> QED BY <3>1, <3>2, <1>8
  <2> QED BY <2>1, <2>2, <1>12
<1>17. \A j, k \in DOMAIN calls' : j < k => calls'[j].base + 3 <= calls'[k].base
  <2> SUFFICES ASSUME NEW j \in DOMAIN calls', NEW k \in DOMAIN calls', j < k
               PROVE  calls'[j].base + 3 <= calls'[k].base
    OBVIOUS
  <2>1. j \in 1..n /\ calls'[j] = calls[j]
    BY <1>8, <1>10, <1>12
  <2>2. CASE k \in 1..n
    <3>1. calls'[k] = calls[k] /\ j \in DOMAIN calls /\ k \in DOMAIN calls
      BY <2>1, <2>2, <1>8, <1>10
    <3>2. calls[j].base + 3 <= calls[k].base
      BY <3>1, <1>9 DEF FramesOK
    <3> QED BY <2>1, <3>1, <3>2, <1>8
  <2>3. CASE k = n + 1
    BY SMTT(30), <2>1, <2>3, <1>8, <1>10, <1>11
  <2> QED BY <2>2, <2>3, <1>12
<1>18. FramesOK(exe)'
  <2>1. Len(calls') > 0 /\ calls'[Len(calls')].fn = fn'
    BY <1>2, <1>8, <1>10, <1>11
  <2>2. Depth' = calls'[Len(calls')].base + Here(exe)'.depth
    BY <1>5, <1>7, <1>8, <1>10, <1>11 DEF Depth
  <2>3. calls'[1].base = 1
    BY <1>8, <1>9, <1>10 DEF FramesOK
  <2>4. stack'[1] = ToEntry
    BY <1>5, <1>8, <1>9 DEF FramesOK
  <2>5. HasHead(1)' => Saved(1)' = Junk
    BY <1>1, <1>8, <1>9, <1>13, Leaving DEF FramesOK
  <2> QED BY <1>14, <1>15, <1>16, <1>17, <2>1, <2>2, <2>3, <2>4, <2>5 DEF FramesOK
<1>19. HeightOK(exe)'
  <2> SUFFICES ASSUME prog.option.stackCheck
               PROVE  /\ \A k \in DOMAIN calls' : k < Len(calls') => calls'[k].base <= StackLimit
                      /\ ~Checked(exe.functions[fn'], pc')
                      /\ calls'[Len(calls')].base <= StackLimit + DeepestFrame' + 1
    BY <1>2 DEF HeightOK
  <2>1. top <= StackLimit /\ StackLimit \in Nat
    BY <1>1, Leaving, MachineAssumption
  <2>2. \A k \in DOMAIN calls' : k < Len(calls') => calls'[k].base <= StackLimit
    BY <2>1, <1>8, <1>10, <1>12
  <2>3. Here(exe).depth <= DeepestFrame /\ DeepestFrame \in Nat
    BY <1>1, Deepest, AtInstruction DEF Here, DeepestClaim, Runs
  <2>4. calls'[Len(calls')].base <= StackLimit + DeepestFrame' + 1
    <3>1. calls'[Len(calls')].base = top + Here(exe).depth + 1
      BY <1>8, <1>10, <1>11
    <3>2. DeepestFrame' = DeepestFrame
      BY <1>7
    <3> QED BY SMTT(30), <2>1, <2>3, <3>1, <3>2, <1>8
  <2> QED BY <2>2, <2>4, <1>1, <1>2, CalleeFacts
<1> QED BY <1>7, <1>10, <1>18, <1>19, KeepsRunning

\* A tail call: the callee takes over the descriptor and the return address
\* of the frame that it replaces.
LEMMA TailCallRuns ==
  ASSUME NEW exe \in Executables, Runs(exe), TailCall PROVE Runs(exe)'
<1> DEFINE top == calls[Len(calls)].base
           fd == Slot(Here(exe).slot)
<1>0. PICK n \in Nat : n = Len(calls)
  <2>1. Len(calls) \in Nat
    BY Bases, AtInstruction DEF TailCall, At
  <2> QED BY <2>1
<1>1. /\ status = "running" /\ Here(exe).op = "tailCall"
      /\ stack' = DropSlots(Here(exe).n)
      /\ calls' = [calls EXCEPT ![Len(calls)].fn = Callee]
      /\ Enter(Callee, fd)
  BY AtInstruction DEF TailCall, At
<1>2. pc' = 1 /\ fn' = Callee /\ prog' = prog
  BY <1>1 DEF Enter
<1>3. Here(exe).n = Here(exe).depth /\ Here(exe).slot = Here(exe).depth - 1
  BY <1>1, AtInstruction DEF StackVerified, Here
<1>4. /\ n \in Nat \ {0} /\ DOMAIN calls = 1..n /\ n \in DOMAIN calls /\ 1 \in DOMAIN calls
      /\ \A k \in DOMAIN calls : calls[k].base \in Nat \ {0}
      /\ \A k \in DOMAIN calls : k < n => calls[k].base + 3 <= top
      /\ \A k \in DOMAIN calls : calls[k].base <= top
      /\ top \in Nat \ {0}
      /\ top = calls[n].base
      /\ Here(exe).depth >= 2 /\ Here(exe).depth \in Nat
      /\ Depth = top + Here(exe).depth
      /\ Depth \in Nat
  BY <1>0, <1>1, Bases, Inside
<1>5. /\ FramesOK(exe) /\ HeightOK(exe)
      /\ calls \in Seq([fn : DOMAIN exe.functions, base : Nat])
  BY <1>1 DEF Runs
<1>6. /\ stack' \in Seq(Values)
      /\ Len(stack') = top
      /\ DOMAIN stack' = 1..top
      /\ \A i \in 1..top : stack'[i] = stack[i] /\ i \in DOMAIN stack
  <2>1. Here(exe).n \in 0..Depth /\ Depth - Here(exe).n = top
    BY <1>3, <1>4
  <2> QED BY <1>1, <2>1, MemoryFacts, DropFacts
<1>7. \A i \in DOMAIN stack' : Good(exe, stack'[i])
  BY <1>6, MemoryFacts
<1>8. fd = stack[top + 1] /\ fd = Saved(n)
  <2>1. Depth - Here(exe).slot = top + 1
    BY <1>3, <1>4
  <2>2. fd = stack[top + 1]
    BY <2>1 DEF Slot
  <2> QED BY <2>2, <1>0, <1>1, <1>4, Leaving
<1>9. fd \in Values /\ ~IsSchemeWord(fd)
  <2>1. top + 1 \in DOMAIN stack
    BY <1>4, MemoryFacts
  <2>2. fd \in Values
    BY <2>1, <1>8, MemoryFacts DEF Good
  <2>3. CASE n = 1
    <3>1. fd = Junk
      BY <2>3, <1>1, <1>4, <1>5, <1>8, Leaving DEF FramesOK
    <3> QED BY <2>2, <3>1 DEF Junk, IsSchemeWord, HeapTags, ImmediateTags
  <2>4. CASE n # 1
    <3>1. n - 1 \in DOMAIN calls /\ n - 1 < Len(calls) /\ (n - 1) + 1 = n
      BY <2>4, <1>0, <1>4
    <3>2. Waits(exe, n - 1) /\ HasHead(n)
      BY SMTT(30), <3>1, <1>1, <1>4, <1>5, Leaving DEF FramesOK
    <3>3. PICK d : Saved(n) = Packed(d)
      BY <3>1, <3>2 DEF Waits
    <3> QED BY <2>2, <3>3, <1>8 DEF Packed, IsSchemeWord, HeapTags, ImmediateTags
  <2> QED BY <2>3, <2>4
<1> HIDE DEF fd
<1>10. /\ CodeOK(exe)' /\ MemoryOK(exe)' /\ Intact(exe, fn)'
       /\ RegistersOK(exe)' /\ Prepared(exe)'
       /\ fn' \in DOMAIN exe.functions
       /\ pc' \in DOMAIN exe.functions[fn'].instrs
       /\ printed' \in Nat
       /\ status' = "running"
       /\ prog' = exe.prog
       /\ regs'["r10"] = fd
       /\ regs'["rdi"] = Pointer("closure", Callee)
       /\ Here(exe)'.depth = 0
       /\ DeepestFrame' = DeepestFrame
  BY <1>1, <1>6, <1>7, <1>9, Entered
<1>11. /\ calls' \in Seq([fn : DOMAIN exe.functions, base : Nat])
       /\ Len(calls') = n
       /\ DOMAIN calls' = 1..n
       /\ \A k \in 1..n : calls'[k].base = calls[k].base
       /\ \A k \in 1..n : k # n => calls'[k] = calls[k]
       /\ calls'[n].fn = Callee
  <2> DEFINE C == [fn : DOMAIN exe.functions, base : Nat]
  <2>1. Callee \in DOMAIN exe.functions
    BY <1>1, CalleeFacts
  <2>2. \A k \in 1..n : calls[k] \in C
    BY <1>0, <1>4, <1>5, ElementOfSeq
  <2>3. [calls[n] EXCEPT !.fn = Callee] \in C
    BY <2>1, <2>2, <1>4
  <2>4. calls' = [calls EXCEPT ![n] = [calls[n] EXCEPT !.fn = Callee]]
    BY <1>0, <1>1
  <2> DEFINE frame == [calls[n] EXCEPT !.fn = Callee]
  <2>5. frame.fn = Callee /\ frame.base = calls[n].base
    BY <2>2, <1>4
  <2> HIDE DEF C, frame
  <2>6. calls' = [calls EXCEPT ![n] = frame] /\ frame \in C /\ calls \in Seq(C)
    BY <2>3, <2>4, <1>5 DEF frame, C
  <2>7. calls' \in Seq(C) /\ Len(calls') = n /\ DOMAIN calls' = 1..n
        /\ \A k \in 1..n : calls'[k] = IF k = n THEN frame ELSE calls[k]
    BY <2>6, <1>0, <1>4
  <2> QED BY <2>5, <2>7, <1>4 DEF C
<1>12. \A k \in 1..n : k < n \/ k = n
  BY <1>4
<1>13. \A k \in 1..n : /\ HasHead(k)' /\ HasHead(k)
                       /\ Saved(k)' = Saved(k)
  <2> SUFFICES ASSUME NEW k \in 1..n
               PROVE  /\ HasHead(k)' /\ HasHead(k)
                      /\ Saved(k)' = Saved(k)
    OBVIOUS
  <2>1. HasHead(k)' /\ HasHead(k) /\ Saved(k) = stack[calls[k].base + 1]
    BY <1>1, <1>2, <1>4, Leaving DEF HasHead
  <2>2. CASE k < n
    <3>1. Saved(k)' = stack'[calls[k].base + 1]
      BY <2>2, <1>11, <1>4 DEF Saved
    <3>2. calls[k].base + 1 \in 1..top
      BY SMTT(30), <2>2, <1>4
    <3> QED BY <2>1, <3>1, <3>2, <1>6
  <2>3. CASE k = n
    <3>1. Saved(k)' = regs'["r10"]
      BY <2>3, <1>2, <1>11 DEF Saved
    <3> QED BY <2>1, <2>3, <3>1, <1>8, <1>10
  <2> QED BY <2>1, <2>2, <2>3, <1>12
<1>14. ASSUME NEW k \in DOMAIN calls', k < Len(calls')
       PROVE  Waits(exe, k)'
  <2>1. k \in 1..n /\ k + 1 \in 1..n /\ k \in DOMAIN calls /\ k < Len(calls)
    BY <1>14, <1>0, <1>4, <1>11
  <2>2. Waits(exe, k)
    BY <2>1, <1>5 DEF FramesOK
  <2>3. /\ calls'[k] = calls[k]
        /\ calls'[k + 1].base = calls[k + 1].base
    BY <1>14, <2>1, <1>4, <1>11
  <2>4. stack'[calls[k + 1].base] = stack[calls[k + 1].base]
    <3>1. calls[k + 1].base \in 1..top
      BY <2>1, <1>4
    <3> QED BY <3>1, <1>6
  <2>5. HasHead(k + 1) /\ Saved(k + 1)' = Saved(k + 1)
    BY <2>1, <1>13
  <2> QED BY <2>2, <2>3, <2>4, <2>5 DEF Waits
<1>15. ASSUME NEW k \in DOMAIN calls'
       PROVE  ThisFunction(k)' = Pointer("closure", calls'[k].fn)
  <2>1. CASE k < n
    <3>1. k \in DOMAIN calls /\ calls'[k] = calls[k] /\ k # Len(calls')
      BY <2>1, <1>4, <1>11
    <3>2. ThisFunction(k)' = stack'[calls[k].base + 2]
      BY <3>1 DEF ThisFunction
    <3>3. calls[k].base + 2 \in 1..top
      BY <2>1, <3>1, <1>4
    <3>4. /\ ThisFunction(k) = Pointer("closure", calls[k].fn)
          /\ ThisFunction(k) = stack[calls[k].base + 2]
      BY <3>1, <1>1, <1>5, Leaving DEF FramesOK
    <3> QED BY <3>1, <3>2, <3>3, <3>4, <1>6
  <2>2. CASE k = n
    <3>1. k = Len(calls') /\ pc' <= 2
      BY <2>2, <1>2, <1>11
    <3> QED BY <2>2, <3>1, <1>10, <1>11 DEF ThisFunction
  <2> QED BY <2>1, <2>2, <1>11, <1>12
<1>16. ASSUME NEW k \in DOMAIN calls', NEW i \in (calls'[k].base + 2)..TopOf(k)'
       PROVE  IsSchemeWord(stack'[i])
  <2>1. CASE k < n
    <3>1. k \in DOMAIN calls /\ k + 1 \in 1..n /\ calls'[k] = calls[k]
      <4>1. k \in 1..n /\ k # n
        BY <2>1, <1>4, <1>11
      <4>2. k + 1 \in 1..n
        BY <4>1, <1>4
      <4> QED BY <4>1, <4>2, <1>4, <1>11
    <3>2. /\ TopOf(k)' = calls[k + 1].base - 1
          /\ TopOf(k) = calls[k + 1].base - 1
      BY <2>1, <3>1, <1>0, <1>11 DEF TopOf
    <3>3. calls[k + 1].base \in Nat /\ calls[k + 1].base <= top /\ calls[k].base \in Nat
      BY <3>1, <1>4
    <3>4. i \in (calls[k].base + 2)..TopOf(k) /\ i \in 1..top
      BY <3>1, <3>2, <3>3, <1>4
    <3>5. IsSchemeWord(stack[i])
      BY <3>1, <3>4, <1>5 DEF FramesOK
    <3> QED BY <3>4, <3>5, <1>6
  <2>2. CASE k = n
    <3>1. TopOf(k)' = top
      BY <2>2, <1>6, <1>11, <1>4 DEF TopOf, Depth
    <3>2. calls'[k].base + 2 = top + 2
      BY <2>2, <1>4, <1>11
    <3> QED BY <3>1, <3>2, <1>4
  <2> QED BY <2>1, <2>2, <1>11, <1>12
<1>17. FramesOK(exe)'
  <2>1. Len(calls') > 0 /\ calls'[Len(calls')].fn = fn'
    BY <1>2, <1>4, <1>11
  <2>2. Depth' = calls'[Len(calls')].base + Here(exe)'.depth
    BY <1>4, <1>6, <1>10, <1>11 DEF Depth
  <2>3. calls'[1].base = 1
    BY <1>4, <1>5, <1>11 DEF FramesOK
  <2>4. stack'[1] = ToEntry
    BY <1>4, <1>5, <1>6 DEF FramesOK
  <2>5. HasHead(1)' => Saved(1)' = Junk
    BY <1>4, <1>5, <1>13 DEF FramesOK
  <2>6. \A j, k \in DOMAIN calls' : j < k => calls'[j].base + 3 <= calls'[k].base
    BY <1>4, <1>5, <1>11 DEF FramesOK
  <2> QED BY <1>14, <1>15, <1>16, <2>1, <2>2, <2>3, <2>4, <2>5, <2>6 DEF FramesOK
<1>18. HeightOK(exe)'
  <2> SUFFICES ASSUME prog.option.stackCheck
               PROVE  /\ \A k \in DOMAIN calls' : k < Len(calls') => calls'[k].base <= StackLimit
                      /\ ~Checked(exe.functions[fn'], pc')
                      /\ calls'[Len(calls')].base <= StackLimit + DeepestFrame' + 1
    BY <1>2 DEF HeightOK
  <2>1. top <= StackLimit /\ StackLimit \in Nat
    BY <1>1, Leaving, MachineAssumption
  <2>2. \A k \in DOMAIN calls' : k < Len(calls') => calls'[k].base <= StackLimit
    BY <1>0, <1>4, <1>5, <1>11 DEF HeightOK
  <2>3. calls'[Len(calls')].base <= StackLimit + DeepestFrame' + 1
    <3>1. calls'[Len(calls')].base = top
      BY <1>4, <1>11
    <3>2. DeepestFrame' = DeepestFrame /\ DeepestFrame \in Nat
      BY <1>10, Deepest DEF DeepestClaim, Runs
    <3> QED BY <2>1, <3>1, <3>2, <1>4
  <2> QED BY <2>2, <2>3, <1>1, <1>2, CalleeFacts
<1> QED BY <1>10, <1>11, <1>17, <1>18, KeepsRunning

-----------------------------------------------------------------------------
(***************************************************************************)
(* Returns.                                                                *)
(***************************************************************************)

\* A sequence without its last element.
LEMMA FrontFacts ==
  ASSUME NEW S, NEW s \in Seq(S), NEW n \in Nat, Len(s) = n + 1
  PROVE  /\ SubSeq(s, 1, n) \in Seq(S)
         /\ Len(SubSeq(s, 1, n)) = n
         /\ DOMAIN SubSeq(s, 1, n) = 1..n
         /\ \A k \in 1..n : SubSeq(s, 1, n)[k] = s[k]
OBVIOUS

\* A function that is about to return has nothing left in its frame.
LEMMA Returning ==
  ASSUME NEW exe \in Executables, Runs(exe), Return
  PROVE  /\ status = "running" /\ Here(exe).op = "ret"
         /\ pc > 2
         /\ Top = stack[Depth]
         /\ Depth = calls[Len(calls)].base
         /\ Depth \in Nat \ {0}
         /\ IsSchemeWord(regs["rax"])
         /\ stack' \in Seq(Values)
         /\ Len(stack') = Depth - 1
         /\ DOMAIN stack' = 1..(Depth - 1)
         /\ \A i \in 1..(Depth - 1) : stack'[i] = stack[i] /\ i \in DOMAIN stack
         /\ UNCHANGED <<prog, regs, heap, globals, code, printed>>
         /\ calls' = SubSeq(calls, 1, Len(calls) - 1)
         /\ CodeOK(exe)' /\ MemoryOK(exe)'
         /\ DeepestFrame' = DeepestFrame
<1>1. /\ status = "running" /\ Here(exe).op = "ret"
      /\ stack' = DropSlots(1)
      /\ UNCHANGED <<prog, regs, heap, globals, code, printed>>
      /\ calls' = SubSeq(calls, 1, Len(calls) - 1)
  BY AtInstruction DEF Return, At
<1>2. /\ pc > 2 /\ Here(exe).depth = 0
  <2>1. /\ FrameVerified(exe.functions[fn], pc)
        /\ exe.functions[fn].instrs[pc].op = "ret"
        /\ pc \in Nat \ {0}
    BY <1>1, AtInstruction DEF Here
  <2>2. pc # 1 /\ pc # 2
    BY <2>1 DEF FrameVerified
  <2>3. Here(exe).depth = 0
    BY <1>1, AtInstruction DEF StackVerified, Here
  <2> QED BY <2>1, <2>2, <2>3
<1>3. Depth = calls[Len(calls)].base /\ Depth \in Nat \ {0}
  <2>1. Depth = calls[Len(calls)].base + Here(exe).depth
    BY <1>1 DEF Runs, FramesOK
  <2>2. calls[Len(calls)].base \in Nat \ {0}
    BY <1>1, Bases
  <2> QED BY <2>1, <2>2, <1>2
<1>4. /\ stack' \in Seq(Values)
      /\ Len(stack') = Depth - 1
      /\ DOMAIN stack' = 1..(Depth - 1)
      /\ \A i \in 1..(Depth - 1) : stack'[i] = stack[i] /\ i \in DOMAIN stack
  <2>1. 1 \in 0..Depth
    BY <1>3
  <2> QED BY <2>1, <1>1, MemoryFacts, DropFacts
<1>5. IsSchemeWord(regs["rax"])
  <2>1. HoldsWord(exe.functions[fn], pc, "rax")
    BY <1>1, AtInstruction DEF RegistersVerified, Here
  <2> QED BY <2>1, <1>1, HeldIsWord, RaxIsRegister
<1>6. CodeOK(exe)' /\ MemoryOK(exe)'
  <2>1. \A i \in DOMAIN stack' : Good(exe, stack'[i])
    BY <1>4, MemoryFacts
  <2>2. regs' \in [Registers -> Values] /\ \A r \in Registers : Good(exe, regs'[r])
    BY <1>1, MemoryFacts
  <2>3. CodeOK(exe) /\ MemoryOK(exe)
    BY DEF Runs
  <2> QED BY <1>1, <1>4, <2>1, <2>2, <2>3, ValuesStep
<1>7. DeepestFrame' = DeepestFrame
  BY <1>6, DeepestKept DEF Runs
<1>8. Top = stack[Depth]
  BY <1>3 DEF Top, Slot
<1> QED BY <1>1, <1>2, <1>3, <1>4, <1>5, <1>6, <1>7, <1>8

\* The return of the first function ends the run.
LEMMA ReturnsToEntry ==
  ASSUME NEW exe \in Executables, Runs(exe), Return, Len(calls) = 1
  PROVE  Runs(exe)'
<1>1. Top = ToEntry
  <2>1. calls[1].base = 1 /\ stack[1] = ToEntry
    BY Returning DEF Runs, FramesOK
  <2> QED BY <2>1, Returning
<1>2. status' = "done" /\ fn' = fn /\ pc' = pc
  BY <1>1 DEF Return
<1>3. calls' = <<>>
  BY Returning
<1>4. calls' \in Seq([fn : DOMAIN exe.functions, base : Nat])
  BY <1>3
<1>5. StackIsBounded'
  <2> SUFFICES ASSUME prog'.option.stackCheck
               PROVE  Len(stack') <= StackLimit + DeepestFrame' + 8
    BY DEF StackIsBounded, Depth
  <2>1. Depth <= StackLimit + DeepestFrame + 8
    BY Returning DEF Runs, StackIsBounded
  <2>2. DeepestFrame \in Nat /\ StackLimit \in Nat
    BY Deepest, MachineAssumption DEF DeepestClaim, Runs
  <2> QED BY <2>1, <2>2, Returning
<1>6. /\ prog' = exe.prog /\ fn \in DOMAIN exe.functions
      /\ pc \in DOMAIN exe.functions[fn].instrs
      /\ printed' \in Nat
  BY Returning DEF Runs
<1> QED BY <1>2, <1>4, <1>5, <1>6, Returning DEF Runs

\* Any other finds its caller as it left it, its frame intact.
LEMMA ReturnsToCaller ==
  ASSUME NEW exe \in Executables, Runs(exe), Return, Len(calls) # 1
  PROVE  Runs(exe)'
<1>1. PICK n \in Nat \ {0} : Len(calls) = n + 1
  <2>1. Len(calls) \in Nat \ {0}
    BY Returning, Bases
  <2>2. Len(calls) - 1 \in Nat \ {0} /\ Len(calls) = (Len(calls) - 1) + 1
    BY <2>1
  <2> QED BY <2>2
<1>2. /\ DOMAIN calls = 1..(n + 1)
      /\ \A k \in 1..(n + 1) : calls[k].base \in Nat \ {0}
      /\ \A k \in 1..(n + 1) : calls[k].fn \in DOMAIN exe.functions
      /\ \A k \in 1..n : calls[k].base + 3 <= calls[n + 1].base
      /\ Depth = calls[n + 1].base
      /\ Depth \in Nat
  <2>1. status = "running" /\ Depth = calls[n + 1].base /\ Depth \in Nat
    BY <1>1, Returning
  <2>2. DOMAIN calls = 1..(n + 1)
    BY <1>1, <2>1, Bases
  <2>3. \A k \in 1..n : k \in DOMAIN calls /\ k < Len(calls)
    BY <1>1, <2>2
  <2>4. /\ \A k \in DOMAIN calls : calls[k].base \in Nat \ {0}
        /\ \A k \in DOMAIN calls : calls[k].fn \in DOMAIN exe.functions
        /\ \A k \in DOMAIN calls : k < Len(calls) => calls[k].base + 3 <= calls[n + 1].base
    BY <1>1, <2>1, Bases
  <2> QED BY <2>1, <2>2, <2>3, <2>4
<1>3. /\ FramesOK(exe) /\ HeightOK(exe) /\ prog = exe.prog
      /\ calls \in Seq([fn : DOMAIN exe.functions, base : Nat])
  BY Returning DEF Runs
<1>4. n \in DOMAIN calls /\ n < Len(calls) /\ n \in 1..n
  BY <1>1, <1>2
<1>5. Waits(exe, n)
  BY <1>3, <1>4 DEF FramesOK
<1> DEFINE g == calls[n].fn
<1>6. g \in DOMAIN exe.functions /\ g \in Nat \ {0}
  <2>1. g \in DOMAIN exe.functions
    BY <1>2, <1>4
  <2>2. DOMAIN exe.functions = 1..Len(exe.functions) /\ Len(exe.functions) \in Nat
    BY SMTT(30), CodeFacts
  <2> HIDE DEF g
  <2> QED BY <2>1, <2>2
<1> HIDE DEF g
<1>7. PICK i \in DOMAIN exe.functions[g].instrs :
        /\ exe.functions[g].instrs[i].op = "call"
        /\ calls[n + 1].base = calls[n].base + exe.functions[g].instrs[i].depth + 1
        /\ stack[calls[n + 1].base] = RetAddr(g, i + 1)
  BY <1>5 DEF Waits, g
<1> DEFINE instr == exe.functions[g].instrs[i]
           next == exe.functions[g].instrs[i + 1]
<1>8. /\ i \in Nat /\ i > 2 /\ instr.depth \in Nat /\ instr.depth >= 2
      /\ i + 1 \in DOMAIN exe.functions[g].instrs
      /\ next.depth = instr.depth
  <2>1. FrameVerified(exe.functions[g], i) /\ FlowVerified(exe.functions[g], i) /\ i \in Nat \ {0}
    BY <1>6, InstructionFacts
  <2>2. i # 1 /\ i # 2 /\ instr.depth \in Nat
    BY <2>1, <1>7 DEF FrameVerified
  <2>3. instr.depth >= 2 /\ i > 2
    BY <2>1, <2>2, <1>7 DEF FrameVerified
  <2>4. i + 1 \in DOMAIN exe.functions[g].instrs /\ next.depth = instr.depth + Effect(instr)
    BY <2>1, <1>7 DEF FlowVerified, FallsThrough
  <2>5. Effect(instr) = 0
    BY <1>7 DEF Effect
  <2> QED BY <2>1, <2>2, <2>3, <2>4, <2>5
<1>9. fn' = g /\ pc' = i + 1 /\ status' = "running"
  <2>1. Top = RetAddr(g, i + 1) /\ Top # ToEntry
    BY SMTT(30), <1>2, <1>6, <1>7, Returning DEF RetAddr, ToEntry
  <2>2. fn' = Top.fn /\ pc' = Top.ix /\ status' = status
    BY <2>1 DEF Return
  <2> QED BY SMTT(30), <2>1, <2>2, Returning DEF RetAddr
<1>10. Here(exe)' = next
  BY <1>9 DEF Here
<1>11. /\ calls' \in Seq([fn : DOMAIN exe.functions, base : Nat])
       /\ Len(calls') = n
       /\ DOMAIN calls' = 1..n
       /\ \A k \in 1..n : calls'[k] = calls[k]
  <2>1. calls' = SubSeq(calls, 1, n)
    BY <1>1, Returning
  <2> DEFINE C == [fn : DOMAIN exe.functions, base : Nat]
  <2>2. calls \in Seq(C) /\ Len(calls) = n + 1
    BY <1>1, <1>3
  <2> HIDE DEF C
  <2>3. /\ SubSeq(calls, 1, n) \in Seq(C)
        /\ Len(SubSeq(calls, 1, n)) = n
        /\ DOMAIN SubSeq(calls, 1, n) = 1..n
        /\ \A k \in 1..n : SubSeq(calls, 1, n)[k] = calls[k]
    BY <2>2, FrontFacts
  <2> QED BY <2>1, <2>3 DEF C
<1>12. /\ Len(stack') = calls[n].base + instr.depth
       /\ \A j \in 1..(calls[n].base + instr.depth) : stack'[j] = stack[j] /\ j \in DOMAIN stack
  <2>1. Depth - 1 = calls[n].base + instr.depth
    BY <1>2, <1>7, <1>8, <1>4
  <2> QED BY <2>1, Returning
<1> HIDE DEF instr, next
<1>13. \A k \in 1..n : calls[k].base <= calls[n].base /\ calls[k].base \in Nat \ {0}
  <2> SUFFICES ASSUME NEW k \in 1..n PROVE calls[k].base <= calls[n].base
    BY <1>2
  <2>1. k < n => calls[k].base + 3 <= calls[n].base
    BY <1>2, <1>3 DEF FramesOK
  <2>2. k < n \/ k = n
    OBVIOUS
  <2>3. calls[k].base \in Nat /\ calls[n].base \in Nat
    BY <1>2
  <2> QED BY <2>1, <2>2, <2>3
<1>14. pc' # 1 /\ ~(pc' <= 2) /\ pc # 1 /\ ~(pc <= 2)
  <2>1. pc > 2 /\ pc \in Nat
    BY Returning, AtInstruction
  <2> QED BY <2>1, <1>8, <1>9
<1>15. ASSUME NEW k \in 1..n
       PROVE  /\ HasHead(k)
              /\ Saved(k)' = Saved(k)
              /\ ThisFunction(k)' = ThisFunction(k)
  <2>1. k < Len(calls) /\ k # Len(calls)
    BY <1>1
  <2>2. /\ calls[k].base + 1 \in 1..(calls[n].base + instr.depth)
        /\ calls[k].base + 2 \in 1..(calls[n].base + instr.depth)
    BY <1>8, <1>13 DEF instr
  <2>3. /\ Saved(k)' = stack'[calls[k].base + 1]
        /\ ThisFunction(k)' = stack'[calls[k].base + 2]
    BY <1>11, <1>14 DEF Saved, ThisFunction
  <2>4. /\ Saved(k) = stack[calls[k].base + 1]
        /\ ThisFunction(k) = stack[calls[k].base + 2]
    BY SMTT(30), <2>1 DEF Saved, ThisFunction
  <2> QED BY <2>1, <2>2, <2>3, <2>4, <1>12 DEF HasHead
<1>16. ASSUME NEW k \in DOMAIN calls', k < Len(calls')
       PROVE  Waits(exe, k)'
  <2>1. k \in 1..n /\ k + 1 \in 1..n /\ k \in DOMAIN calls /\ k < Len(calls)
    BY <1>16, <1>1, <1>2, <1>11
  <2>2. Waits(exe, k)
    BY <2>1, <1>3 DEF FramesOK
  <2>3. calls'[k] = calls[k] /\ calls'[k + 1] = calls[k + 1]
    BY <2>1, <1>11
  <2>4. stack'[calls[k + 1].base] = stack[calls[k + 1].base]
    <3>1. calls[k + 1].base \in 1..(calls[n].base + instr.depth)
      BY <2>1, <1>8, <1>13 DEF instr
    <3> QED BY <3>1, <1>12
  <2>5. HasHead(k + 1) /\ Saved(k + 1)' = Saved(k + 1)
    BY <2>1, <1>15
  <2> QED BY <2>2, <2>3, <2>4, <2>5 DEF Waits
<1>17. ASSUME NEW k \in DOMAIN calls'
       PROVE  ThisFunction(k)' = Pointer("closure", calls'[k].fn)
  <2>1. k \in 1..n /\ k \in DOMAIN calls
    BY <1>2, <1>11
  <2>2. ThisFunction(k) = Pointer("closure", calls[k].fn)
    BY <2>1, <1>3, <1>15 DEF FramesOK
  <2> QED BY <2>1, <2>2, <1>11, <1>15
<1>18. ASSUME NEW k \in DOMAIN calls', NEW j \in (calls'[k].base + 2)..TopOf(k)'
       PROVE  IsSchemeWord(stack'[j])
  <2>1. /\ k \in 1..n /\ k \in DOMAIN calls /\ k + 1 \in 1..(n + 1)
        /\ calls'[k] = calls[k] /\ k < Len(calls)
    BY SMTT(30), <1>1, <1>2, <1>11
  <2>2. TopOf(k) = calls[k + 1].base - 1
    BY <2>1 DEF TopOf
  <2>3. TopOf(k)' = TopOf(k) /\ TopOf(k) <= calls[n].base + instr.depth /\ TopOf(k) \in Int
    <3>1. CASE k < n
      <4>1. TopOf(k)' = calls'[k + 1].base - 1 /\ k + 1 \in 1..n
        BY <3>1, <2>1, <1>11 DEF TopOf
      <4>2. calls'[k + 1].base = calls[k + 1].base /\ calls[k + 1].base <= calls[n].base
            /\ calls[k + 1].base \in Nat /\ calls[n].base \in Nat
        BY <4>1, <1>4, <1>11, <1>13
      <4>3. instr.depth \in Nat
        BY <1>8 DEF instr
      <4> HIDE DEF instr
      <4> QED BY <4>1, <4>2, <4>3, <2>2
    <3>2. CASE k = n
      <4>1. TopOf(k)' = Len(stack')
        BY <3>2, <1>11 DEF TopOf, Depth
      <4>2. calls[n + 1].base = calls[n].base + instr.depth + 1
        BY SMTT(30), <1>7 DEF instr
      <4> QED BY <4>1, <4>2, <3>2, <2>2, <1>4, <1>8, <1>12, <1>13 DEF instr
    <3> QED BY <3>1, <3>2, <2>1
  <2>4. j \in (calls[k].base + 2)..TopOf(k) /\ j \in 1..(calls[n].base + instr.depth)
    <3>1. calls[k].base \in Nat \ {0} /\ calls[n].base \in Nat /\ instr.depth \in Nat
      BY <2>1, <1>4, <1>8, <1>13 DEF instr
    <3>2. j \in (calls[k].base + 2)..TopOf(k)
      BY <2>1, <2>3
    <3> QED BY <3>1, <3>2, <2>3
  <2>5. IsSchemeWord(stack[j])
    BY <2>1, <2>4, <1>3 DEF FramesOK
  <2> QED BY <2>4, <2>5, <1>12
<1>19. FramesOK(exe)'
  <2>1. Len(calls') > 0 /\ calls'[Len(calls')].fn = fn'
    BY <1>4, <1>9, <1>11 DEF g
  <2>2. Depth' = calls'[Len(calls')].base + Here(exe)'.depth
    BY <1>4, <1>8, <1>10, <1>11, <1>12 DEF Depth
  <2>3. 1 \in 1..n /\ 1 \in DOMAIN calls
    BY <1>2
  <2>4. calls'[1].base = 1
    BY <2>3, <1>3, <1>11 DEF FramesOK
  <2>5. stack'[1] = ToEntry
    <3>1. 1 \in 1..(calls[n].base + instr.depth)
      BY <1>4, <1>8, <1>13 DEF instr
    <3> QED BY <3>1, <1>3, <1>12 DEF FramesOK
  <2>6. Saved(1)' = Junk
    BY <2>3, <1>3, <1>15 DEF FramesOK
  <2>7. \A j, k \in DOMAIN calls' : j < k => calls'[j].base + 3 <= calls'[k].base
    <3> SUFFICES ASSUME NEW j \in DOMAIN calls', NEW k \in DOMAIN calls', j < k
                 PROVE  calls'[j].base + 3 <= calls'[k].base
      OBVIOUS
    <3>1. j \in DOMAIN calls /\ k \in DOMAIN calls /\ calls'[j] = calls[j] /\ calls'[k] = calls[k]
      BY <1>2, <1>11
    <3> QED BY <3>1, <1>3 DEF FramesOK
  <2> QED BY <1>16, <1>17, <1>18, <2>1, <2>2, <2>4, <2>5, <2>6, <2>7 DEF FramesOK
<1>20. Intact(exe, fn)'
  <2>1. Good(exe, Pointer("closure", g))
    <3>1. ThisFunction(n) = Pointer("closure", g)
      BY <1>3, <1>4, <1>15 DEF FramesOK, g
    <3>2. ThisFunction(n) = stack[calls[n].base + 2]
      BY <1>4 DEF ThisFunction
    <3>3. calls[n].base + 2 \in 1..(calls[n].base + instr.depth)
      BY <1>4, <1>8, <1>13 DEF instr
    <3>4. Good(exe, stack[calls[n].base + 2])
      BY <3>3, <1>12, MemoryFacts
    <3> QED BY <3>1, <3>2, <3>4
  <2>2. Intact(exe, g)
    <3>1. IsSchemeWord(Pointer("closure", g))
      BY DEF Pointer, IsSchemeWord, HeapTags
    <3>2. Sound(exe, Pointer("closure", g))
      BY <2>1, <3>1, GoodWords
    <3> QED BY <3>2 DEF Sound, Pointer
  <2> QED BY <2>2, <1>9, Returning DEF Intact
<1>21. RegistersOK(exe)'
  <2> SUFFICES ASSUME NEW r \in Registers, HoldsWord(exe.functions[g], i + 1, r)
               PROVE  IsSchemeWord(regs'[r])
    BY <1>9 DEF RegistersOK
  <2>1. Sets(instr, r) \/ Keeps(instr, r)
    BY <1>8, HoldsNext DEF instr
  <2>2. r = "rax"
    BY <2>1, <1>7 DEF Sets, Keeps, Results, instr
  <2> QED BY <2>2, Returning
<1>22. Prepared(exe)'
  <2>1. \A op \in {"mov", "reserve", "checkCall"} : ~Follows(exe.functions[g], i + 1, op)
    <3>1. (i + 1) - 1 = i
      BY <1>8
    <3> QED BY <3>1, <1>7 DEF Follows
  <2> QED BY <2>1, <1>6, <1>8, <1>9, Unprepared
<1>23. HeightOK(exe)'
  <2> SUFFICES ASSUME prog.option.stackCheck
               PROVE  /\ \A k \in DOMAIN calls' : k < Len(calls') => calls'[k].base <= StackLimit
                      /\ calls'[Len(calls')].base <= StackLimit
                      /\ calls'[Len(calls')].base <= StackLimit + DeepestFrame' + 1
    BY Returning DEF HeightOK
  <2>1. \A k \in 1..n : calls[k].base <= StackLimit
    BY SMTT(30), <1>1, <1>2, <1>3 DEF HeightOK
  <2>2. DeepestFrame' \in Nat /\ StackLimit \in Nat
    BY Returning, Deepest, MachineAssumption DEF DeepestClaim, Runs
  <2>3. calls[n].base \in Nat /\ calls[n].base <= StackLimit
    BY <2>1, <1>4, <1>13
  <2> QED BY <2>1, <2>2, <2>3, <1>4, <1>11
<1>24. /\ prog' = exe.prog
       /\ fn' \in DOMAIN exe.functions
       /\ pc' \in DOMAIN exe.functions[fn'].instrs
       /\ printed' \in Nat
  BY <1>3, <1>6, <1>8, <1>9, Returning, MemoryFacts
<1> QED BY SMTT(30), <1>9, <1>11, <1>19, <1>20, <1>21, <1>22, <1>23, <1>24, Returning, KeepsRunning

\* Both returns.
LEMMA ReturnRuns ==
  ASSUME NEW exe \in Executables, Runs(exe), Return PROVE Runs(exe)'
BY ReturnsToEntry, ReturnsToCaller


-----------------------------------------------------------------------------
(***************************************************************************)
(* The recursion of the walk. Library theorems on recursive functions      *)
(* take operators as parameters; the least height at which no solution     *)
(* exists up to it, if there were one, says the same.                      *)
(***************************************************************************)

WalkBody(u, t) ==
  IF t = 0 THEN <<>>
  ELSE IF LosesWayAt(t) THEN <<Lost>>
  ELSE <<Visited(t, CallerFrameDescr(t))>>
         \o u[FrameBelow(t, CallerFrameDescr(t))]

IsWalk(u) == u = [t \in Int |-> WalkBody(u, t)]

IsWalkUpTo(m, u) ==
  /\ u = [t \in Int |-> u[t]]
  /\ \A t \in Int : t <= m => u[t] = WalkBody(u, t)

\* Every step of a walk goes down.
LEMMA WalkGoesDown ==
  ASSUME stack \in Seq(Values), NEW t \in Int, t # 0, ~LosesWayAt(t)
  PROVE  /\ t > 0 /\ t + 2 <= Depth
         /\ FrameBelow(t, CallerFrameDescr(t)) \in Int
         /\ FrameBelow(t, CallerFrameDescr(t)) < t
<1>1. Depth \in Nat /\ DOMAIN stack = 1..Depth
  BY DEF Depth
<1>2. t > 0 /\ t + 2 <= Depth /\ CallerFrameDescr(t).tag = "fd"
  BY <1>1 DEF LosesWayAt
<1>3. t + 2 \in 1..Depth
  BY <1>1, <1>2
<1>4. CallerFrameDescr(t) \in Values
  BY <1>1, <1>3 DEF CallerFrameDescr
<1>5. IsFrameDescr(CallerFrameDescr(t))
  BY <1>2, <1>4, ValuesTyped
<1>6. CallerFrameDescr(t).frameSize \in Nat
  BY <1>5 DEF IsFrameDescr
<1> QED BY <1>2, <1>6 DEF FrameBelow

\* What a walk finds at t depends on what it finds below.
LEMMA WalkBodyBelow ==
  ASSUME stack \in Seq(Values), NEW t \in Int, NEW u, NEW v,
         \A s \in Int : s < t => u[s] = v[s]
  PROVE  WalkBody(u, t) = WalkBody(v, t)
<1>1. CASE t = 0 \/ LosesWayAt(t)
  BY <1>1 DEF WalkBody
<1>2. CASE t # 0 /\ ~LosesWayAt(t)
  <2>1. u[FrameBelow(t, CallerFrameDescr(t))] = v[FrameBelow(t, CallerFrameDescr(t))]
    BY <1>2, WalkGoesDown
  <2> QED BY <2>1 DEF WalkBody
<1> QED BY <1>1, <1>2

\* So there is a function that satisfies the recursion up to every height.
LEMMA WalksExistUpTo ==
  ASSUME stack \in Seq(Values)
  PROVE  \A m \in Nat : \E u : IsWalkUpTo(m, u)
<1> DEFINE T == {m \in Nat : ~\E u : IsWalkUpTo(m, u)}
<1> SUFFICES ASSUME T # {} PROVE FALSE
  OBVIOUS
<1>1. PICK m \in T : \A k \in T : m <= k
  <2>1. T \subseteq Nat
    OBVIOUS
  <2> HIDE DEF T
  <2> QED BY <2>1, LeastNatural
<1>2. m \in Nat /\ ~\E u : IsWalkUpTo(m, u)
  BY <1>1
<1>3. CASE m = 0
  <2> DEFINE u == [t \in Int |-> IF t = 0 THEN <<>> ELSE <<Lost>>]
  <2>1. u = [t \in Int |-> u[t]]
    OBVIOUS
  <2>2. \A t \in Int : u[t] = IF t = 0 THEN <<>> ELSE <<Lost>>
    OBVIOUS
  <2> HIDE DEF u
  <2>3. \A t \in Int : t < 0 => LosesWayAt(t)
    BY DEF LosesWayAt
  <2>4. \A t \in Int : t <= 0 => u[t] = WalkBody(u, t)
    BY <2>2, <2>3 DEF WalkBody
  <2> QED BY <2>1, <2>4, <1>2, <1>3 DEF IsWalkUpTo
<1>4. CASE m # 0
  <2>1. m - 1 \in Nat /\ m - 1 \notin T
    <3>1. m - 1 \in Nat /\ ~(m <= m - 1)
      BY <1>2, <1>4
    <3> QED BY <3>1, <1>1
  <2>2. PICK u : IsWalkUpTo(m - 1, u)
    BY <2>1
  <2> DEFINE w == [t \in Int |-> IF t = m THEN WalkBody(u, m) ELSE u[t]]
  <2>3. w = [t \in Int |-> w[t]]
    OBVIOUS
  <2>4. /\ \A t \in Int : t # m => w[t] = u[t]
        /\ w[m] = WalkBody(u, m)
    BY <1>2
  <2> HIDE DEF w
  <2>5. ASSUME NEW t \in Int, t <= m
        PROVE  w[t] = WalkBody(w, t)
    <3>1. WalkBody(u, t) = WalkBody(w, t)
      <4>1. \A s \in Int : s < t => u[s] = w[s]
        BY <2>4, <2>5, <1>2
      <4> QED BY <4>1, WalkBodyBelow
    <3>2. w[t] = WalkBody(u, t)
      <4>1. CASE t = m
        BY <4>1, <2>4
      <4>2. CASE t # m
        <5>1. t <= m - 1
          BY <4>2, <2>5, <1>2
        <5> QED BY <5>1, <4>2, <2>2, <2>4 DEF IsWalkUpTo
      <4> QED BY <4>1, <4>2
    <3> QED BY <3>1, <3>2
  <2>6. IsWalkUpTo(m, w)
    BY <2>3, <2>5 DEF IsWalkUpTo
  <2> QED BY <2>6, <1>2
<1> QED BY <1>3, <1>4

\* And one that satisfies it everywhere: above the stack no walk goes on.
LEMMA WalkExists ==
  ASSUME stack \in Seq(Values)
  PROVE  \E u : IsWalk(u)
<1>1. Depth \in Nat
  BY DEF Depth
<1>2. PICK u : IsWalkUpTo(Depth, u)
  BY <1>1, WalksExistUpTo
<1> DEFINE v == [t \in Int |-> WalkBody(u, t)]
<1>3. \A t \in Int : v[t] = WalkBody(u, t)
  OBVIOUS
<1>4. v = [t \in Int |-> v[t]]
  OBVIOUS
<1> HIDE DEF v
<1>5. \A t \in Int : WalkBody(u, t) = WalkBody(v, t)
  <2> TAKE t \in Int
  <2>1. CASE t <= Depth
    <3>1. ASSUME NEW s \in Int, s < t PROVE u[s] = v[s]
      <4>1. s <= Depth
        BY <3>1, <2>1, <1>1
      <4> QED BY <4>1, <1>2, <1>3 DEF IsWalkUpTo
    <3> QED BY <3>1, WalkBodyBelow
  <2>2. CASE ~(t <= Depth)
    <3>1. t # 0 /\ LosesWayAt(t)
      BY <2>2, <1>1 DEF LosesWayAt
    <3> QED BY <3>1 DEF WalkBody
  <2> QED BY <2>1, <2>2
<1>6. v = [t \in Int |-> WalkBody(v, t)]
  BY <1>3, <1>4, <1>5
<1> QED BY <1>6 DEF IsWalk

\* The definition of FramesFrom, unfolded.
LEMMA WalkUnfolds ==
  ASSUME stack \in Seq(Values), NEW top, NEW fd
  PROVE  \E u : /\ \A t \in Int : u[t] = WalkBody(u, t)
                /\ FramesFrom(top, fd) = <<Visited(top, fd)>> \o u[FrameBelow(top, fd)]
<1>1. \E u : u = [t \in Int |->
                   IF t = 0 THEN <<>>
                   ELSE IF LosesWayAt(t) THEN <<Lost>>
                   ELSE <<Visited(t, CallerFrameDescr(t))>>
                          \o u[FrameBelow(t, CallerFrameDescr(t))]]
  BY WalkExists DEF IsWalk, WalkBody
<1>2. \E u : /\ u = [t \in Int |->
                      IF t = 0 THEN <<>>
                      ELSE IF LosesWayAt(t) THEN <<Lost>>
                      ELSE <<Visited(t, CallerFrameDescr(t))>>
                             \o u[FrameBelow(t, CallerFrameDescr(t))]]
             /\ FramesFrom(top, fd) = <<Visited(top, fd)>> \o u[FrameBelow(top, fd)]
  BY <1>1, Zenon DEF FramesFrom
<1>3. PICK u : /\ IsWalk(u)
               /\ FramesFrom(top, fd) = <<Visited(top, fd)>> \o u[FrameBelow(top, fd)]
  BY <1>2 DEF IsWalk, WalkBody
<1>4. \A t \in Int : u[t] = WalkBody(u, t)
  BY <1>3 DEF IsWalk
<1> QED BY <1>3, <1>4

-----------------------------------------------------------------------------
(***************************************************************************)
(* The walk and the frames.                                                *)
(***************************************************************************)

\* What the walk is to find of frame k.
FrameRecord(k) ==
  [slots   |-> (calls[k].base + 2)..TopOf(k),
   closure |-> stack[calls[k].base + 2]]

\* What a descriptor says of a frame that it describes.
LEMMA VisitsFrame ==
  ASSUME NEW base \in Nat, NEW depth \in Nat, NEW fd, Describes(fd, depth)
  PROVE  /\ FrameSlots(base + depth, fd) = (base + 2)..(base + depth)
         /\ ThisClosure(base + depth, fd) = stack[base + 2]
         /\ FrameBelow(base + depth, fd) = base - 1
         /\ FrameSlots(base + depth, Packed(fd)) = (base + 2)..(base + depth)
         /\ ThisClosure(base + depth, Packed(fd)) = stack[base + 2]
         /\ FrameBelow(base + depth, Packed(fd)) = base - 1
         /\ Packed(fd).tag = "fd"
<1>1. fd.frameSize = depth /\ PtrSlots(fd) = 0..(depth - 2) /\ depth >= 2
  BY DEF Describes
<1>2. /\ Packed(fd).tag = "fd"
      /\ Packed(fd).frameSize = fd.frameSize
      /\ Packed(fd).ptrBitMap = fd.ptrBitMap
  BY DEF Packed
<1>3. PtrSlots(Packed(fd)) = PtrSlots(fd)
  BY <1>2 DEF PtrSlots, isPtr
<1>4. ASSUME NEW P, P = 0..(depth - 2)
      PROVE  {(base + depth) - i : i \in P} = (base + 2)..(base + depth)
  <2>1. \A j \in (base + 2)..(base + depth) :
          base + depth - j \in 0..(depth - 2) /\ base + depth - (base + depth - j) = j
    OBVIOUS
  <2>2. \A i \in 0..(depth - 2) : base + depth - i \in (base + 2)..(base + depth)
    BY <1>1
  <2> QED BY <1>4, <2>1, <2>2
<1>5. base + depth - (depth - 2) = base + 2 /\ base + depth - (depth + 1) = base - 1
  OBVIOUS
<1>6. FrameSlots(base + depth, fd) = (base + 2)..(base + depth)
  BY <1>1, <1>4 DEF FrameSlots
<1>7. FrameSlots(base + depth, Packed(fd)) = (base + 2)..(base + depth)
  BY <1>1, <1>3, <1>4 DEF FrameSlots
<1>8. /\ ThisClosure(base + depth, fd) = stack[base + 2]
      /\ ThisClosure(base + depth, Packed(fd)) = stack[base + 2]
  BY <1>1, <1>2, <1>5 DEF ThisClosure
<1>9. /\ FrameBelow(base + depth, fd) = base - 1
      /\ FrameBelow(base + depth, Packed(fd)) = base - 1
  BY <1>1, <1>2, <1>5 DEF FrameBelow
<1> QED BY <1>2, <1>6, <1>7, <1>8, <1>9

\* At a safepoint every frame has its head.
LEMMA Safepoint ==
  ASSUME NEW exe \in Executables, Runs(exe), status = "running",
         "fd" \in DOMAIN Here(exe) \/ Here(exe).op \in {"call", "reserve"}
  PROVE  /\ Describes(Here(exe).fd, Here(exe).depth)
         /\ Here(exe).depth \in Nat
         /\ Depth = calls[Len(calls)].base + Here(exe).depth
         /\ \A k \in DOMAIN calls :
              /\ HasHead(k)
              /\ Saved(k) = stack[calls[k].base + 1]
              /\ ThisFunction(k) = stack[calls[k].base + 2]
              /\ calls[k].base + 2 <= Depth
<1>1. Describes(Here(exe).fd, Here(exe).depth)
  BY AtInstruction DEF DescriptorVerified
<1>2. Here(exe).depth >= 2 /\ Here(exe).depth \in Nat
  BY <1>1, AtInstruction DEF Describes
<1>3. pc > 2
  <2>1. pc # 1 /\ pc # 2
    BY <1>2, AtInstruction DEF FrameVerified, Here
  <2> QED BY <2>1, AtInstruction
<1>4. Depth = calls[Len(calls)].base + Here(exe).depth
  BY DEF Runs, FramesOK
<1>5. ASSUME NEW k \in DOMAIN calls
      PROVE  /\ HasHead(k)
             /\ Saved(k) = stack[calls[k].base + 1]
             /\ ThisFunction(k) = stack[calls[k].base + 2]
             /\ calls[k].base + 2 <= Depth
  <2>1. /\ calls[k].base \in Nat
        /\ calls[Len(calls)].base \in Nat
        /\ calls[k].base <= calls[Len(calls)].base
    BY Bases
  <2>2. calls[k].base + 2 <= Depth
    BY <2>1, <1>2, <1>4
  <2>3. HasHead(k)
    <3>1. Depth \in Nat
      BY Bases
    <3>2. calls[k].base < Depth
      BY <3>1, <2>1, <2>2
    <3> QED BY <3>2 DEF HasHead
  <2>4. pc # 1 /\ ~(pc <= 2)
    BY <1>3, AtInstruction
  <2> QED BY <2>2, <2>3, <2>4 DEF Saved, ThisFunction
<1> QED BY <1>1, <1>2, <1>4, <1>5

\* Above a frame that waits, the walk finds its descriptor.
LEMMA FindsCaller ==
  ASSUME NEW exe \in Executables, Runs(exe), status = "running",
         "fd" \in DOMAIN Here(exe) \/ Here(exe).op \in {"call", "reserve"},
         NEW k \in DOMAIN calls, k # 1
  PROVE  /\ k - 1 \in DOMAIN calls
         /\ calls[k].base - 1 \in Nat \ {0}
         /\ ~LosesWayAt(calls[k].base - 1)
         /\ Visited(calls[k].base - 1, CallerFrameDescr(calls[k].base - 1))
              = FrameRecord(k - 1)
         /\ FrameBelow(calls[k].base - 1, CallerFrameDescr(calls[k].base - 1))
              = calls[k - 1].base - 1
<1>1. /\ DOMAIN calls = 1..Len(calls) /\ Len(calls) \in Nat
      /\ \A j \in DOMAIN calls : calls[j].base \in Nat \ {0} /\ calls[j].fn \in DOMAIN exe.functions
      /\ Depth \in Nat
  BY Bases
<1>2. k - 1 \in DOMAIN calls /\ k - 1 < Len(calls) /\ (k - 1) + 1 = k
  BY <1>1
<1>3. Waits(exe, k - 1) /\ HasHead(k)
  BY <1>2, Safepoint DEF Runs, FramesOK
<1> DEFINE g == calls[k - 1].fn
<1>4. PICK i \in DOMAIN exe.functions[g].instrs :
        /\ exe.functions[g].instrs[i].op = "call"
        /\ calls[k].base = calls[k - 1].base + exe.functions[g].instrs[i].depth + 1
        /\ Saved(k) = Packed(exe.functions[g].instrs[i].fd)
  BY <1>2, <1>3 DEF Waits
<1>5. g \in DOMAIN exe.functions
  BY SMTT(30), <1>1, <1>2
<1> DEFINE instr == exe.functions[g].instrs[i]
<1>6. Describes(instr.fd, instr.depth) /\ instr.depth \in Nat
  <2>1. DescriptorVerified(instr) /\ FrameVerified(exe.functions[g], i)
    BY SMTT(30), <1>5, InstructionFacts
  <2>2. Describes(instr.fd, instr.depth)
    BY ZenonT(40), <2>1, <1>4 DEF DescriptorVerified
  <2>3. instr.depth \in Nat
    BY ZenonT(40), <2>1 DEF FrameVerified
  <2> QED BY <2>2, <2>3
<1> DEFINE base == calls[k - 1].base
           d == instr.depth
           fd == instr.fd
<1>7. base \in Nat \ {0} /\ d \in Nat /\ d >= 2 /\ Describes(fd, d) /\ calls[k].base = base + d + 1
  BY ZenonT(40), <1>1, <1>2, <1>4, <1>6 DEF Describes
<1>8. CallerFrameDescr(calls[k].base - 1) = Packed(fd)
  <2>1. Saved(k) = stack[calls[k].base + 1]
    BY Safepoint
  <2>2. calls[k].base - 1 + 2 = calls[k].base + 1
    BY <1>1
  <2> QED BY <2>1, <2>2, <1>4 DEF CallerFrameDescr
<1> HIDE DEF g, instr, base, d, fd
<1>9. calls[k].base - 1 = base + d
  BY <1>7
<1>10. /\ FrameSlots(base + d, Packed(fd)) = (base + 2)..(base + d)
       /\ ThisClosure(base + d, Packed(fd)) = stack[base + 2]
       /\ FrameBelow(base + d, Packed(fd)) = base - 1
       /\ Packed(fd).tag = "fd"
  BY <1>7, VisitsFrame
<1>11. TopOf(k - 1) = base + d
  BY <1>2, <1>9 DEF TopOf
<1>12. FrameRecord(k - 1) = [slots |-> (base + 2)..(base + d), closure |-> stack[base + 2]]
  BY <1>11 DEF FrameRecord, base
<1>13. ~LosesWayAt(calls[k].base - 1)
  <2>1. calls[k].base + 2 <= Depth
    BY Safepoint
  <2>2. ~(calls[k].base - 1 < 0) /\ ~(calls[k].base - 1 + 2 > Depth)
    BY <2>1, <1>1
  <2> QED BY <2>2, <1>8, <1>10 DEF LosesWayAt
<1> QED BY <1>2, <1>7, <1>8, <1>9, <1>10, <1>12, <1>13 DEF Visited, base

\* One more element in front.
LEMMA ConsFacts ==
  ASSUME NEW S, NEW a \in S, NEW n \in Nat, NEW s, s \in [1..n -> S]
  PROVE  <<a>> \o s = [j \in 1..(n + 1) |-> IF j = 1 THEN a ELSE s[j - 1]]
<1>1. s \in Seq(S) /\ Len(s) = n
  OBVIOUS
<1>2. /\ <<a>> \o s \in Seq(S)
      /\ Len(<<a>> \o s) = n + 1
      /\ \A j \in 1..(n + 1) : (<<a>> \o s)[j] = IF j = 1 THEN a ELSE s[j - 1]
  BY <1>1
<1>3. <<a>> \o s = [j \in 1..(n + 1) |-> (<<a>> \o s)[j]]
  BY <1>2
<1> QED BY <1>2, <1>3

\* The walk finds every frame, the innermost first.
LEMMA WalkFindsFrames ==
  ASSUME NEW exe \in Executables, Runs(exe), status = "running",
         "fd" \in DOMAIN Here(exe) \/ Here(exe).op \in {"call", "reserve"}
  PROVE  FramesFrom(Depth, Here(exe).fd)
           = [j \in 1..Len(calls) |-> FrameRecord(Len(calls) + 1 - j)]
<1> DEFINE n == Len(calls)
           S == {FrameRecord(k) : k \in 1..n}
<1>1. /\ n \in Nat \ {0} /\ DOMAIN calls = 1..n
      /\ \A k \in 1..n : calls[k].base \in Nat \ {0}
      /\ stack \in Seq(Values)
  BY Bases, MemoryFacts
<1>2. PICK u :
        /\ \A t \in Int : u[t] = WalkBody(u, t)
        /\ FramesFrom(Depth, Here(exe).fd)
             = <<Visited(Depth, Here(exe).fd)>> \o u[FrameBelow(Depth, Here(exe).fd)]
  BY <1>1, WalkUnfolds
<1> DEFINE Found(k) == [j \in 1..(k - 1) |-> FrameRecord(k - j)]
           T == {k \in 1..n : u[calls[k].base - 1] # Found(k)}
<1> HIDE DEF n
<1>3. T = {}
  <2> SUFFICES ASSUME T # {} PROVE FALSE
    OBVIOUS
  <2>1. PICK k \in T : \A l \in T : k <= l
    <3>1. T \subseteq Nat
      OBVIOUS
    <3> HIDE DEF T
    <3> QED BY <3>1, LeastNatural
  <2>2. k \in 1..n /\ u[calls[k].base - 1] # Found(k)
    BY <2>1
  <2>3. CASE k = 1
    <3>1. calls[1].base - 1 = 0
      BY DEF Runs, FramesOK
    <3>2. u[0] = <<>>
      <4>1. u[0] = WalkBody(u, 0)
        BY <1>2
      <4> QED BY <4>1 DEF WalkBody
    <3>3. Found(1) = <<>>
      OBVIOUS
    <3> QED BY <2>2, <2>3, <3>1, <3>2, <3>3
  <2>4. CASE k # 1
    <3>1. k \in DOMAIN calls
      BY <2>2, <1>1
    <3> DEFINE t == calls[k].base - 1
    <3>2. /\ k - 1 \in DOMAIN calls
          /\ t \in Nat \ {0}
          /\ ~LosesWayAt(t)
          /\ Visited(t, CallerFrameDescr(t)) = FrameRecord(k - 1)
          /\ FrameBelow(t, CallerFrameDescr(t)) = calls[k - 1].base - 1
      BY <2>4, <3>1, FindsCaller
    <3> HIDE DEF t
    <3>3. k - 1 \in 1..n /\ k - 1 \notin T
      <4>1. k - 1 \in 1..n /\ ~(k <= k - 1)
        BY <2>2, <3>2, <1>1
      <4> QED BY <4>1, <2>1
    <3>4. u[calls[k - 1].base - 1] = Found(k - 1)
      BY <3>3
    <3>5. u[t] = <<FrameRecord(k - 1)>> \o Found(k - 1)
      <4>1. u[t] = WalkBody(u, t) /\ t # 0
        BY <3>2, <1>2
      <4>2. u[t] = <<Visited(t, CallerFrameDescr(t))>> \o u[FrameBelow(t, CallerFrameDescr(t))]
        BY <4>1, <3>2 DEF WalkBody
      <4> HIDE DEF Found
      <4> QED BY <4>2, <3>2, <3>4
    <3>6. Found(k - 1) \in [1..(k - 2) -> S] /\ k - 2 \in Nat
      <4>1. k - 2 \in Nat /\ (k - 1) - 1 = k - 2
        BY <2>2, <2>4, <1>1
      <4>2. \A j \in 1..(k - 2) : (k - 1) - j \in 1..n
        BY <2>2, <1>1
      <4> QED BY <4>1, <4>2
    <3>7. FrameRecord(k - 1) \in S
      BY <3>3
    <3> HIDE DEF S, Found
    <3>8. <<FrameRecord(k - 1)>> \o Found(k - 1)
            = [j \in 1..((k - 2) + 1) |-> IF j = 1 THEN FrameRecord(k - 1) ELSE Found(k - 1)[j - 1]]
      BY ONLY <3>6, <3>7, ConsFacts
    <3>9. \A j \in 1..(k - 1) :
            FrameRecord(k - j) = IF j = 1 THEN FrameRecord(k - 1) ELSE Found(k - 1)[j - 1]
      <4> TAKE j \in 1..(k - 1)
      <4>1. CASE j = 1
        BY <4>1
      <4>2. CASE j # 1
        <5>1. j - 1 \in 1..((k - 1) - 1) /\ (k - 1) - (j - 1) = k - j
          BY <4>2, <2>2
        <5>2. Found(k - 1)[j - 1] = FrameRecord((k - 1) - (j - 1))
          BY <5>1 DEF Found
        <5> QED BY <4>2, <5>1, <5>2
      <4> QED BY <4>1, <4>2
    <3>10. (k - 2) + 1 = k - 1
      BY <2>2
    <3>11. u[t] = Found(k)
      BY ZenonT(40), <3>5, <3>8, <3>9, <3>10 DEF Found
    <3> QED BY <3>11, <2>2 DEF t
  <2> QED BY <2>3, <2>4
<1>4. /\ Visited(Depth, Here(exe).fd) = FrameRecord(n)
      /\ FrameBelow(Depth, Here(exe).fd) = calls[n].base - 1
  <2>1. /\ Describes(Here(exe).fd, Here(exe).depth)
        /\ Here(exe).depth \in Nat
        /\ Depth = calls[n].base + Here(exe).depth
    BY Safepoint DEF n
  <2>2. calls[n].base \in Nat
    BY <1>1
  <2>3. TopOf(n) = Depth
    BY DEF TopOf, n
  <2> QED BY <2>1, <2>2, <2>3, VisitsFrame DEF Visited, FrameRecord
<1>5. u[calls[n].base - 1] = Found(n)
  <2>1. n \in 1..n
    BY <1>1
  <2> HIDE DEF Found
  <2> QED BY <2>1, <1>3
<1>6. FramesFrom(Depth, Here(exe).fd) = <<FrameRecord(n)>> \o Found(n)
  BY <1>2, <1>4, <1>5
<1>7. Found(n) \in [1..(n - 1) -> S] /\ n - 1 \in Nat /\ FrameRecord(n) \in S
  BY <1>1
<1> HIDE DEF S, Found
<1>8. <<FrameRecord(n)>> \o Found(n)
        = [j \in 1..((n - 1) + 1) |-> IF j = 1 THEN FrameRecord(n) ELSE Found(n)[j - 1]]
  BY <1>7, ConsFacts
<1>9. (n - 1) + 1 = n
  BY <1>1
<1>10. \A j \in 1..n :
         FrameRecord(n + 1 - j) = IF j = 1 THEN FrameRecord(n) ELSE Found(n)[j - 1]
  <2> TAKE j \in 1..n
  <2>1. CASE j = 1
    <3>1. n + 1 - j = n
      BY <2>1, <1>1
    <3> QED BY <2>1, <3>1
  <2>2. CASE j # 1
    <3>1. j - 1 \in 1..(n - 1) /\ n - (j - 1) = n + 1 - j
      BY <2>2, <1>1
    <3>2. Found(n)[j - 1] = FrameRecord(n - (j - 1))
      BY <3>1 DEF Found
    <3> QED BY <2>2, <3>1, <3>2
  <2> QED BY <2>1, <2>2
<1>11. FramesFrom(Depth, Here(exe).fd) = [j \in 1..n |-> FrameRecord(n + 1 - j)]
  BY <1>6, <1>8, <1>9, <1>10
<1> QED BY <1>11 DEF n

-----------------------------------------------------------------------------
(***************************************************************************)
(* The walk and the slots.                                                 *)
(***************************************************************************)

\* Every slot is in a frame, above the return address that the frame starts
\* at.
LEMMA SlotsAreInFrames ==
  ASSUME NEW exe \in Executables, Runs(exe), status = "running",
         NEW i \in DOMAIN stack
  PROVE  \E k \in DOMAIN calls : i \in calls[k].base..TopOf(k)
<1> DEFINE n == Len(calls)
           K == {k \in 1..n : calls[k].base <= i}
<1>1. /\ n \in Nat \ {0} /\ DOMAIN calls = 1..n
      /\ \A k \in 1..n : calls[k].base \in Nat \ {0}
      /\ Depth \in Nat /\ DOMAIN stack = 1..Depth
      /\ calls[1].base = 1
  BY Bases DEF Runs, FramesOK
<1>2. K # {} /\ K \subseteq Nat
  <2>1. 1 \in K
    BY <1>1
  <2> QED BY <2>1
<1>3. IsFiniteSet(K)
  <2>1. IsFiniteSet(1..n)
    BY <1>1, FS_Interval
  <2> QED BY <2>1, FS_Subset
<1>4. PICK k \in K : \A j \in K : j <= k
  <2> HIDE DEF K
  <2> QED BY <1>2, <1>3, Greatest
<1>5. k \in 1..n /\ calls[k].base <= i /\ i <= Depth /\ i \in Nat
  BY <1>1, <1>4
<1>6. i <= TopOf(k) /\ TopOf(k) \in Int
  <2>1. CASE k < n
    <3>1. k + 1 \in 1..n /\ ~(k + 1 <= k)
      BY <2>1, <1>1, <1>5
    <3>2. k + 1 \notin K
      BY <3>1, <1>4
    <3>3. calls[k + 1].base > i /\ calls[k + 1].base \in Nat
      BY <3>1, <3>2, <1>1, <1>5
    <3> QED BY <2>1, <3>3, <1>5 DEF TopOf
  <2>2. CASE k = n
    BY <2>2, <1>1, <1>5 DEF TopOf
  <2> QED BY <2>1, <2>2, <1>1, <1>5
<1>7. i \in calls[k].base..TopOf(k) /\ k \in DOMAIN calls
  <2>1. calls[k].base \in Int
    BY <1>1, <1>5
  <2> HIDE DEF n
  <2> QED BY <2>1, <1>1, <1>5, <1>6
<1> QED BY <1>7

\* The two slots that a frame starts with hold no Scheme words.
LEMMA HeadHoldsNoWords ==
  ASSUME NEW exe \in Executables, Runs(exe), status = "running",
         NEW k \in DOMAIN calls, HasHead(k), Saved(k) = stack[calls[k].base + 1]
  PROVE  /\ ~IsSchemeWord(stack[calls[k].base])
         /\ ~IsSchemeWord(stack[calls[k].base + 1])
<1> USE DEF IsSchemeWord, HeapTags, ImmediateTags
<1>1. CASE k = 1
  <2>1. stack[calls[k].base] = ToEntry /\ stack[calls[k].base + 1] = Junk
    BY <1>1 DEF Runs, FramesOK
  <2> QED BY <2>1 DEF ToEntry, RetAddr, Junk
<1>2. CASE k # 1
  <2>1. k - 1 \in DOMAIN calls /\ k - 1 < Len(calls) /\ (k - 1) + 1 = k
    BY <1>2, Bases
  <2>2. Waits(exe, k - 1)
    BY <2>1 DEF Runs, FramesOK
  <2>3. \E g, ix : stack[calls[k].base] = RetAddr(g, ix)
    BY <2>1, <2>2 DEF Waits
  <2>4. \E fd : stack[calls[k].base + 1] = Packed(fd)
    BY <2>1, <2>2 DEF Waits
  <2> QED BY <2>3, <2>4 DEF RetAddr, Packed
<1> QED BY <1>1, <1>2

\* A collection visits the Scheme words of the stack and nothing else.
LEMMA WalkedExactly ==
  ASSUME NEW exe \in Executables, Runs(exe), status = "running",
         "fd" \in DOMAIN Here(exe) \/ Here(exe).op \in {"call", "reserve"}
  PROVE  Walked(Depth, Here(exe).fd) = {i \in DOMAIN stack : IsSchemeWord(stack[i])}
<1> DEFINE n == Len(calls)
           frames == FramesFrom(Depth, Here(exe).fd)
<1>1. /\ n \in Nat \ {0} /\ DOMAIN calls = 1..n
      /\ \A k \in 1..n : calls[k].base \in Nat \ {0} /\ calls[k].base <= calls[n].base
      /\ Depth \in Nat /\ DOMAIN stack = 1..Depth
      /\ calls[n].base <= Depth
  BY Bases
<1> HIDE DEF n
<1>2. frames = [j \in 1..n |-> FrameRecord(n + 1 - j)]
  BY WalkFindsFrames DEF n
<1>3. Walked(Depth, Here(exe).fd) = UNION {frames[j].slots : j \in DOMAIN frames}
  BY DEF Walked
<1> HIDE DEF frames
<1>4. \A i : i \in Walked(Depth, Here(exe).fd) <=>
               \E k \in 1..n : i \in (calls[k].base + 2)..TopOf(k)
  <2> TAKE i
  <2>1. \A j \in 1..n : frames[j].slots = (calls[n + 1 - j].base + 2)..TopOf(n + 1 - j)
    BY <1>2 DEF FrameRecord
  <2>2. ASSUME i \in Walked(Depth, Here(exe).fd)
        PROVE  \E k \in 1..n : i \in (calls[k].base + 2)..TopOf(k)
    <3>1. PICK j \in 1..n : i \in frames[j].slots
      BY <2>2, <1>2, <1>3
    <3>2. n + 1 - j \in 1..n
      BY <1>1
    <3> QED BY <3>1, <3>2, <2>1
  <2>3. ASSUME NEW k \in 1..n, i \in (calls[k].base + 2)..TopOf(k)
        PROVE  i \in Walked(Depth, Here(exe).fd)
    <3>1. n + 1 - k \in 1..n /\ n + 1 - (n + 1 - k) = k
      BY <1>1
    <3>2. i \in frames[n + 1 - k].slots
      BY <2>1, <2>3, <3>1
    <3>3. n + 1 - k \in DOMAIN frames
      BY <3>1, <1>2
    <3> QED BY <3>2, <3>3, <1>3
  <2> QED BY <2>2, <2>3
<1>5. ASSUME NEW k \in 1..n, NEW i \in (calls[k].base + 2)..TopOf(k)
      PROVE  i \in DOMAIN stack /\ IsSchemeWord(stack[i])
  <2>1. IsSchemeWord(stack[i])
    BY <1>1 DEF Runs, FramesOK
  <2>2. TopOf(k) <= Depth /\ TopOf(k) \in Int
    <3>1. CASE k < n
      <4>1. k + 1 \in 1..n /\ TopOf(k) = calls[k + 1].base - 1
        BY <3>1, <1>1 DEF TopOf, n
      <4>2. calls[k + 1].base \in Nat /\ calls[k + 1].base <= calls[n].base
        BY <4>1, <1>1
      <4>3. calls[n].base \in Nat
        BY <1>1
      <4> QED BY <4>1, <4>2, <4>3, <1>1
    <3>2. CASE k = n
      BY <3>2, <1>1 DEF TopOf, n
    <3> QED BY <3>1, <3>2, <1>1
  <2>3. calls[k].base \in Nat
    BY <1>1
  <2>4. i \in 1..Depth
    BY <2>2, <2>3, <1>1
  <2> QED BY <2>1, <2>4, <1>1
<1>6. ASSUME NEW i \in DOMAIN stack, IsSchemeWord(stack[i])
      PROVE  \E k \in 1..n : i \in (calls[k].base + 2)..TopOf(k)
  <2>1. PICK k \in DOMAIN calls : i \in calls[k].base..TopOf(k)
    BY SlotsAreInFrames
  <2>2. i # calls[k].base /\ i # calls[k].base + 1
    BY <1>6, Safepoint, HeadHoldsNoWords
  <2>3. calls[k].base \in Nat /\ k \in 1..n
    BY <1>1
  <2>4. TopOf(k) \in Int
    <3>1. CASE k < n
      <4>1. k + 1 \in 1..n
        BY <2>3, <3>1, <1>1
      <4>2. TopOf(k) = calls[k + 1].base - 1 /\ calls[k + 1].base \in Nat
        BY <3>1, <4>1, <1>1 DEF TopOf, n
      <4> QED BY <4>2
    <3>2. CASE k = n
      BY <3>2, <1>1 DEF TopOf, n
    <3> QED BY <3>1, <3>2, <2>3, <1>1
  <2>5. i \in (calls[k].base + 2)..TopOf(k)
    BY <2>1, <2>2, <2>3, <2>4
  <2> QED BY <2>3, <2>5
<1> QED BY <1>4, <1>5, <1>6

\* A stack trace names the pending calls.
LEMMA TracedExactly ==
  ASSUME NEW exe \in Executables, Runs(exe), status = "running",
         "fd" \in DOMAIN Here(exe) \/ Here(exe).op \in {"call", "reserve"}
  PROVE  Traced(Depth, Here(exe).fd) =
           [i \in DOMAIN calls |-> Pointer("closure", calls[Len(calls) + 1 - i].fn)]
<1> DEFINE n == Len(calls)
           frames == FramesFrom(Depth, Here(exe).fd)
<1>1. n \in Nat \ {0} /\ DOMAIN calls = 1..n
  BY Bases
<1> HIDE DEF n
<1>2. frames = [j \in 1..n |-> FrameRecord(n + 1 - j)]
  BY WalkFindsFrames DEF n
<1>3. Traced(Depth, Here(exe).fd) = [j \in DOMAIN frames |-> frames[j].closure]
  BY DEF Traced
<1> HIDE DEF frames
<1>4. \A j \in 1..n : frames[j].closure = Pointer("closure", calls[n + 1 - j].fn)
  <2> TAKE j \in 1..n
  <2>1. n + 1 - j \in DOMAIN calls
    BY <1>1
  <2>2. frames[j].closure = stack[calls[n + 1 - j].base + 2]
    BY <1>2 DEF FrameRecord
  <2>3. ThisFunction(n + 1 - j) = stack[calls[n + 1 - j].base + 2] /\ HasHead(n + 1 - j)
    BY <2>1, Safepoint
  <2>4. ThisFunction(n + 1 - j) = Pointer("closure", calls[n + 1 - j].fn)
    BY <2>1, <2>3 DEF Runs, FramesOK
  <2> QED BY <2>2, <2>3, <2>4
<1>5. DOMAIN frames = 1..n
  BY <1>2
<1>6. Traced(Depth, Here(exe).fd) = [j \in 1..n |-> Pointer("closure", calls[n + 1 - j].fn)]
  BY <1>3, <1>4, <1>5
<1> QED BY <1>1, <1>6 DEF n

-----------------------------------------------------------------------------
(***************************************************************************)
(* Reachability.                                                           *)
(***************************************************************************)

ReachSteps == Cardinality(DOMAIN heap) + Len(code) + 1

ReachBody(words, u, n) ==
  IF n = 0 THEN words
  ELSE u[n - 1] \cup UNION {References(w) : w \in u[n - 1]}

\* The recursion in Reached has a solution for every number of steps.
LEMMA ReachExists ==
  ASSUME NEW words
  PROVE  \A m \in Nat : \E u : u = [n \in 0..m |-> ReachBody(words, u, n)]
<1> DEFINE T == {m \in Nat : ~\E u : u = [n \in 0..m |-> ReachBody(words, u, n)]}
<1> SUFFICES ASSUME T # {} PROVE FALSE
  OBVIOUS
<1>1. PICK m \in T : \A k \in T : m <= k
  <2>1. T \subseteq Nat
    OBVIOUS
  <2> HIDE DEF T
  <2> QED BY <2>1, LeastNatural
<1>2. m \in Nat /\ ~\E u : u = [n \in 0..m |-> ReachBody(words, u, n)]
  BY <1>1
<1>3. CASE m = 0
  <2> DEFINE u == [n \in 0..m |-> words]
  <2>1. \A n \in 0..m : n = 0
    BY <1>3
  <2>2. u = [n \in 0..m |-> ReachBody(words, u, n)]
    BY <2>1 DEF ReachBody
  <2> HIDE DEF u
  <2> QED BY <2>2, <1>2
<1>4. CASE m # 0
  <2>1. m - 1 \in Nat /\ m - 1 \notin T
    <3>1. m - 1 \in Nat /\ ~(m <= m - 1)
      BY <1>2, <1>4
    <3> QED BY <3>1, <1>1
  <2>2. PICK u : u = [n \in 0..(m - 1) |-> ReachBody(words, u, n)]
    BY <2>1
  <2> DEFINE w == [n \in 0..m |-> IF n = m THEN ReachBody(words, u, m) ELSE u[n]]
  <2>3. w = [n \in 0..m |-> w[n]]
    OBVIOUS
  <2>4. /\ \A n \in 0..(m - 1) : w[n] = u[n]
        /\ w[m] = ReachBody(words, u, m)
    BY <1>2, <2>1
  <2> HIDE DEF w
  <2>5. \A n \in 0..(m - 1) : u[n] = ReachBody(words, u, n)
    BY <2>2
  <2>6. ASSUME NEW n \in 0..m
        PROVE  w[n] = ReachBody(words, w, n)
    <3>1. ReachBody(words, u, n) = ReachBody(words, w, n)
      <4>1. n # 0 => w[n - 1] = u[n - 1]
        BY <2>4, <1>2
      <4> QED BY <4>1 DEF ReachBody
    <3>2. w[n] = ReachBody(words, u, n)
      <4>1. CASE n = m
        BY <4>1, <2>4
      <4>2. CASE n # m
        <5>1. n \in 0..(m - 1)
          BY <4>2, <1>2
        <5> QED BY <5>1, <2>4, <2>5
      <4> QED BY <4>1, <4>2
    <3> QED BY <3>1, <3>2
  <2>7. w = [n \in 0..m |-> ReachBody(words, w, n)]
    BY <2>3, <2>6
  <2> QED BY <2>7, <1>2
<1> QED BY <1>3, <1>4

\* The definition of Reached, unfolded.
LEMMA ReachUnfolds ==
  ASSUME NEW words, ReachSteps \in Nat
  PROVE  \E u : /\ u[0] = words
                /\ \A n \in 0..ReachSteps : n # 0 =>
                     u[n] = u[n - 1] \cup UNION {References(w) : w \in u[n - 1]}
                /\ Reached(words) = u[ReachSteps]
<1> DEFINE steps == Cardinality(DOMAIN heap) + Len(code) + 1
<1>1. steps \in Nat /\ steps = ReachSteps
  BY DEF ReachSteps
<1>2. \E u : u = [n \in 0..steps |->
                   IF n = 0 THEN words
                   ELSE u[n - 1] \cup UNION {References(w) : w \in u[n - 1]}]
  <2> HIDE DEF steps
  <2>1. PICK u : u = [n \in 0..steps |-> ReachBody(words, u, n)]
    BY <1>1, ReachExists
  <2>2. u = [n \in 0..steps |->
              IF n = 0 THEN words
              ELSE u[n - 1] \cup UNION {References(w) : w \in u[n - 1]}]
    BY <2>1, Zenon DEF ReachBody
  <2> QED BY <2>2
<1>3. \E u : /\ u = [n \in 0..steps |->
                      IF n = 0 THEN words
                      ELSE u[n - 1] \cup UNION {References(w) : w \in u[n - 1]}]
             /\ Reached(words) = u[steps]
  BY <1>2, Zenon DEF Reached
<1> HIDE DEF steps
<1>4. PICK u : /\ u = [n \in 0..steps |-> ReachBody(words, u, n)]
               /\ Reached(words) = u[steps]
  BY <1>3 DEF ReachBody
<1>5. \A n \in 0..steps : u[n] = ReachBody(words, u, n)
  BY <1>4
<1>6. u[0] = words
  <2>1. 0 \in 0..steps
    BY <1>1
  <2> QED BY <2>1, <1>5 DEF ReachBody
<1>7. \A n \in 0..steps : n # 0 =>
        u[n] = u[n - 1] \cup UNION {References(w) : w \in u[n - 1]}
  BY <1>5 DEF ReachBody
<1> QED BY <1>1, <1>4, <1>6, <1>7

\* The words that lead to others.
Sources ==
  {Pointer("pair", o) : o \in DOMAIN heap}
    \cup {Pointer("closure", f) : f \in DOMAIN code} \cup {GlobalVector}

\* There are no more sources than steps.
LEMMA SourcesAreFew ==
  ASSUME NEW exe \in Executables, CodeOK(exe), MemoryOK(exe)
  PROVE  /\ IsFiniteSet(Sources)
         /\ Cardinality(Sources) <= ReachSteps
         /\ ReachSteps \in Nat
<1> DEFINE P == {Pointer("pair", o) : o \in DOMAIN heap}
           F == {Pointer("closure", f) : f \in DOMAIN code}
<1>1. IsFiniteSet(DOMAIN heap) /\ Cardinality(DOMAIN heap) \in Nat
  <2>1. IsFiniteSet(1..HeapPairs)
    BY MachineAssumption, FS_Interval
  <2>2. IsFiniteSet(DOMAIN heap)
    BY <2>1, FS_Subset DEF MemoryOK
  <2> QED BY <2>2, FS_CardinalityType
<1>2. IsFiniteSet(P) /\ Cardinality(P) <= Cardinality(DOMAIN heap)
  <2> DEFINE g == [o \in DOMAIN heap |-> Pointer("pair", o)]
  <2>1. g = [o \in DOMAIN heap |-> g[o]] /\ P = {g[o] : o \in DOMAIN heap}
    OBVIOUS
  <2> HIDE DEF g, P
  <2> QED BY <2>1, <1>1, FiniteRange
<1>3. DOMAIN code = 1..Len(exe.functions) /\ Len(exe.functions) \in Nat
  BY CodeFacts DEF CodeOK
<1>4. Len(code) = Len(exe.functions)
  <2>1. code = [f \in 1..Len(exe.functions) |-> code[f]]
    BY CodeFacts DEF CodeOK
  <2> DEFINE l == Len(exe.functions)
  <2>2. l \in Nat /\ code = [f \in 1..l |-> code[f]]
    BY <1>3, <2>1
  <2> HIDE DEF l
  <2>3. code \in Seq({code[f] : f \in 1..l})
    BY <2>2
  <2> QED BY <2>2, <2>3 DEF l
<1>5. IsFiniteSet(DOMAIN code) /\ Cardinality(DOMAIN code) = Len(code)
  <2> DEFINE l == Len(exe.functions)
  <2>1. l \in Nat /\ DOMAIN code = 1..l /\ Len(code) = l
    BY <1>3, <1>4
  <2> HIDE DEF l
  <2>2. IsFiniteSet(1..l) /\ Cardinality(1..l) = IF 1 > l THEN 0 ELSE l - 1 + 1
    BY <2>1, FS_Interval
  <2> QED BY <2>1, <2>2
<1>6. IsFiniteSet(F) /\ Cardinality(F) <= Cardinality(DOMAIN code)
  <2> DEFINE g == [f \in DOMAIN code |-> Pointer("closure", f)]
  <2>1. g = [f \in DOMAIN code |-> g[f]] /\ F = {g[f] : f \in DOMAIN code}
    OBVIOUS
  <2> HIDE DEF g, F
  <2> QED BY <2>1, <1>5, FiniteRange
<1> HIDE DEF P, F
<1>7. /\ IsFiniteSet(P \cup F)
      /\ Cardinality(P \cup F) <= Cardinality(DOMAIN heap) + Len(code)
      /\ Cardinality(P \cup F) \in Nat
  <2>1. /\ IsFiniteSet(P \cup F)
        /\ Cardinality(P \cup F) = Cardinality(P) + Cardinality(F) - Cardinality(P \cap F)
    BY <1>2, <1>6, FS_Union
  <2>2. Cardinality(P) \in Nat /\ Cardinality(F) \in Nat /\ Cardinality(P \cup F) \in Nat
    BY <1>2, <1>6, <2>1, FS_CardinalityType
  <2>3. Cardinality(P \cap F) \in Nat
    <3>1. IsFiniteSet(P \cap F)
      BY <1>2, FS_Subset
    <3> QED BY <3>1, FS_CardinalityType
  <2> QED BY <2>1, <2>2, <2>3, <1>1, <1>2, <1>3, <1>4, <1>5, <1>6
<1>8. /\ IsFiniteSet((P \cup F) \cup {GlobalVector})
      /\ Cardinality((P \cup F) \cup {GlobalVector}) <= Cardinality(P \cup F) + 1
  BY <1>7, FS_AddElement
<1>9. Sources = (P \cup F) \cup {GlobalVector}
  BY DEF Sources, P, F
<1>10. ReachSteps \in Nat /\ ReachSteps = Cardinality(DOMAIN heap) + Len(code) + 1
  BY <1>1, <1>3, <1>4 DEF ReachSteps
<1>11. Cardinality(Sources) \in Nat
  BY <1>8, <1>9, FS_CardinalityType
<1> QED BY <1>1, <1>3, <1>4, <1>7, <1>8, <1>9, <1>10, <1>11

\* A sound word leads to sound words, and only a source leads anywhere.
LEMMA SoundReferences ==
  ASSUME NEW exe \in Executables, CodeOK(exe), MemoryOK(exe),
         NEW w, Sound(exe, w)
  PROVE  /\ \A x \in References(w) : Sound(exe, x)
         /\ w \notin Sources => References(w) = {}
<1> USE DEF HeapTags, ImmediateTags
<1>1. w \in SchemeWords /\ w = [tag |-> w.tag, upper |-> w.upper]
  BY DEF Sound, SchemeWords
<1>2. CASE w.tag = "pair"
  <2>1. w.upper \in DOMAIN heap
    BY <1>2 DEF Sound
  <2>2. w \in Sources
    BY <1>1, <1>2, <2>1 DEF Sources, Pointer
  <2>3. References(w) = {heap[w.upper].car, heap[w.upper].cdr}
    <3>1. w.tag # "closure" /\ w # GlobalVector
      BY <1>2 DEF GlobalVector
    <3> QED BY <1>2, <3>1 DEF References
  <2> QED BY <2>1, <2>2, <2>3 DEF MemoryOK
<1>3. CASE w.tag = "closure"
  <2>1. w.upper \in DOMAIN code /\ Intact(exe, w.upper)
    BY <1>3 DEF Sound
  <2>2. w \in Sources
    BY <1>1, <1>3, <2>1 DEF Sources, Pointer
  <2>3. References(w) = Constants(w.upper)
    <3>1. w.tag # "pair" /\ w # GlobalVector
      BY <1>3 DEF GlobalVector
    <3> QED BY <1>3, <3>1 DEF References
  <2>4. \A x \in Constants(w.upper) : Sound(exe, x)
    BY <2>1 DEF Constants, CodeOK
  <2> QED BY <2>2, <2>3, <2>4
<1>4. CASE w.tag = "vector"
  <2>1. w = GlobalVector /\ GlobalsKept
    BY <1>4 DEF Sound
  <2>2. w \in Sources
    BY <2>1 DEF Sources
  <2>3. References(w) = {globals[i] : i \in DOMAIN globals}
    BY <1>4, <2>1 DEF References
  <2>4. \A i \in DOMAIN globals : Sound(exe, globals[i])
    BY <2>1 DEF GlobalsKept, MemoryOK
  <2> QED BY <2>2, <2>3, <2>4
<1>5. CASE w.tag \notin {"pair", "closure", "vector"}
  <2>1. w # GlobalVector
    BY <1>5 DEF GlobalVector
  <2>2. References(w) = {}
    BY <1>5, <2>1 DEF References
  <2> QED BY <2>2
<1> QED BY <1>2, <1>3, <1>4, <1>5

\* What a collection reaches is closed under references: every step but the
\* last reaches another source, and there are no more sources than steps.
LEMMA ReachedIsClosed ==
  ASSUME NEW exe \in Executables, CodeOK(exe), MemoryOK(exe),
         NEW words, \A w \in words : Sound(exe, w)
  PROVE  /\ words \subseteq Reached(words)
         /\ \A w \in Reached(words) :
              Sound(exe, w) /\ References(w) \subseteq Reached(words)
<1>1. PICK steps \in Nat : steps = ReachSteps
  BY SourcesAreFew
<1>2. PICK u :
        /\ u[0] = words
        /\ \A n \in 0..steps : n # 0 =>
             u[n] = u[n - 1] \cup UNION {References(w) : w \in u[n - 1]}
        /\ Reached(words) = u[steps]
  BY <1>1, ReachUnfolds
<1> DEFINE Closed(n) == \A w \in u[n] : References(w) \subseteq u[n]
           A(n) == u[n] \cap Sources
           Fine(n) == /\ words \subseteq u[n]
                      /\ \A w \in u[n] : Sound(exe, w)
                      /\ Closed(n) \/ n + 1 <= Cardinality(A(n))
           T == {n \in 0..steps : ~Fine(n)}
<1>3. IsFiniteSet(Sources) /\ Cardinality(Sources) <= steps /\ Cardinality(Sources) \in Nat
  BY <1>1, SourcesAreFew, FS_CardinalityType
<1>4. \A n : /\ IsFiniteSet(A(n))
             /\ Cardinality(A(n)) \in Nat
             /\ Cardinality(A(n)) <= Cardinality(Sources)
  <2> TAKE n
  <2>1. A(n) \in SUBSET Sources
    OBVIOUS
  <2> HIDE DEF A
  <2> QED BY <2>1, <1>3, FS_Subset, FS_CardinalityType
<1>5. Fine(0)
  <2>1. CASE A(0) = {}
    <3>1. \A w \in u[0] : References(w) = {}
      BY <2>1, <1>2, SoundReferences
    <3> QED BY <3>1, <1>2
  <2>2. CASE A(0) # {}
    <3>1. Cardinality(A(0)) # 0
      BY <2>2, <1>4, FS_EmptySet
    <3>2. 0 + 1 <= Cardinality(A(0))
      <4> HIDE DEF A
      <4> QED BY <3>1, <1>4
    <3> QED BY <3>2, <1>2
  <2> QED BY <2>1, <2>2
<1>6. ASSUME NEW n \in 0..steps, n # 0, Fine(n - 1)
      PROVE  Fine(n)
  <2>1. u[n] = u[n - 1] \cup UNION {References(w) : w \in u[n - 1]}
    BY <1>2, <1>6
  <2>2. words \subseteq u[n] /\ u[n - 1] \subseteq u[n]
    BY <2>1, <1>6
  <2>3. \A w \in u[n] : Sound(exe, w)
    BY <2>1, <1>6, SoundReferences
  <2>4. CASE Closed(n - 1)
    <3>1. u[n] = u[n - 1]
      BY <2>1, <2>4
    <3> QED BY <3>1, <2>2, <2>3, <2>4
  <2>5. CASE n <= Cardinality(A(n - 1)) /\ A(n) = A(n - 1)
    <3>1. Closed(n)
      <4> SUFFICES ASSUME NEW w \in u[n] PROVE References(w) \subseteq u[n]
        OBVIOUS
      <4>1. CASE w \in Sources
        <5>1. w \in u[n - 1]
          BY <4>1, <2>5
        <5> QED BY <5>1, <2>1
      <4>2. CASE w \notin Sources
        BY <4>2, <2>3, SoundReferences
      <4> QED BY <4>1, <4>2
    <3> QED BY <3>1, <2>2, <2>3
  <2>6. CASE n <= Cardinality(A(n - 1)) /\ A(n) # A(n - 1)
    <3>1. A(n - 1) \in SUBSET A(n)
      BY <2>2
    <3> HIDE DEF A, Closed
    <3>2. Cardinality(A(n - 1)) <= Cardinality(A(n)) /\ Cardinality(A(n)) # Cardinality(A(n - 1))
      BY <3>1, <2>6, <1>4, FS_Subset
    <3>3. n + 1 <= Cardinality(A(n))
      BY <3>2, <2>6, <1>4
    <3> QED BY <3>3, <2>2, <2>3
  <2>7. Closed(n - 1) \/ n <= Cardinality(A(n - 1))
    <3>1. (n - 1) + 1 = n
      BY <1>6
    <3> HIDE DEF A, Closed
    <3> QED BY <3>1, <1>6
  <2> QED BY <2>4, <2>5, <2>6, <2>7
<1> HIDE DEF Fine
<1>7. T = {}
  <2> SUFFICES ASSUME T # {} PROVE FALSE
    OBVIOUS
  <2>1. PICK n \in T : \A m \in T : n <= m
    <3>1. T \subseteq Nat
      OBVIOUS
    <3> HIDE DEF T
    <3> QED BY <3>1, LeastNatural
  <2>2. n # 0
    BY <2>1, <1>5
  <2>3. n - 1 \in 0..steps /\ n - 1 \notin T
    <3>1. n - 1 \in 0..steps /\ ~(n <= n - 1)
      BY <2>1, <2>2
    <3> QED BY <3>1, <2>1
  <2>4. Fine(n)
    BY <2>1, <2>2, <2>3, <1>6
  <2> QED BY <2>1, <2>4
<1>8. Fine(steps)
  <2>1. steps \in 0..steps
    OBVIOUS
  <2> QED BY <2>1, <1>7
<1>9. Closed(steps)
  <2>1. ~(steps + 1 <= Cardinality(A(steps)))
    <3> HIDE DEF A
    <3> QED BY <1>3, <1>4
  <2> HIDE DEF A, Closed
  <2> QED BY <2>1, <1>8 DEF Fine
<1> QED BY <1>2, <1>8, <1>9 DEF Fine

-----------------------------------------------------------------------------
(***************************************************************************)
(* A collection.                                                           *)
(***************************************************************************)

LiveWords == Reached({stack[i] : i \in {j \in DOMAIN stack : IsSchemeWord(stack[j])}})

\* The words of the stack and what they lead to are live, and sound.
LEMMA LiveFacts ==
  ASSUME NEW exe \in Executables, Runs(exe)
  PROVE  /\ \A i \in DOMAIN stack : IsSchemeWord(stack[i]) => stack[i] \in LiveWords
         /\ \A w \in LiveWords :
              Sound(exe, w) /\ References(w) \subseteq LiveWords
<1> DEFINE words == {stack[i] : i \in {j \in DOMAIN stack : IsSchemeWord(stack[j])}}
<1>1. \A w \in words : Sound(exe, w)
  BY MemoryFacts, GoodWords
<1>2. \A i \in DOMAIN stack : IsSchemeWord(stack[i]) => stack[i] \in words
  OBVIOUS
<1>3. LiveWords = Reached(words)
  BY DEF LiveWords
<1>4. CodeOK(exe) /\ MemoryOK(exe)
  BY DEF Runs
<1> HIDE DEF words
<1> QED BY <1>1, <1>2, <1>3, <1>4, ReachedIsClosed

\* A collection at a safepoint starts from all Scheme words of the stack, so
\* no slot is stale after it.
LEMMA CollectsExactly ==
  ASSUME NEW exe \in Executables, Runs(exe), status = "running",
         Here(exe).op = "reserve", Collect(Here(exe).fd)
  PROVE  /\ heap' = [o \in {x \in DOMAIN heap : Pointer("pair", x) \in LiveWords}
                       |-> heap[o]]
         /\ stack' = stack
         /\ globals' = [i \in DOMAIN globals |->
                          IF GlobalVector \in LiveWords THEN globals[i] ELSE Stale]
         /\ code' = [f \in DOMAIN code |->
                       IF Pointer("closure", f) \in LiveWords THEN code[f]
                       ELSE Forgotten(f)]
         /\ regs' = [r \in Registers |-> Junk]
<1> DEFINE slots == Walked(Depth, Here(exe).fd)
<1>1. slots = {i \in DOMAIN stack : IsSchemeWord(stack[i])}
  BY WalkedExactly
<1>2. Reached({stack[i] : i \in slots}) = LiveWords
  BY <1>1 DEF LiveWords
<1>3. /\ heap' = [o \in {x \in DOMAIN heap : Pointer("pair", x) \in LiveWords}
                    |-> heap[o]]
      /\ stack' = [i \in DOMAIN stack |->
                     IF IsHeapAllocated(stack[i]) /\ i \notin slots
                     THEN Stale ELSE stack[i]]
      /\ globals' = [i \in DOMAIN globals |->
                       IF GlobalVector \in LiveWords THEN globals[i] ELSE Stale]
      /\ code' = [f \in DOMAIN code |->
                    IF Pointer("closure", f) \in LiveWords THEN code[f]
                    ELSE Forgotten(f)]
      /\ regs' = [r \in Registers |-> Junk]
  BY <1>2 DEF Collect
<1>4. \A i \in DOMAIN stack : ~(IsHeapAllocated(stack[i]) /\ i \notin slots)
  BY <1>1 DEF IsHeapAllocated, IsSchemeWord
<1> HIDE DEF slots
<1>5. stack' = stack
  <2>1. stack' = [i \in DOMAIN stack |-> stack[i]]
    BY <1>3, <1>4
  <2>2. stack = [i \in DOMAIN stack |-> stack[i]]
    BY MemoryFacts
  <2> QED BY <2>1, <2>2
<1> QED BY <1>3, <1>5

\* A function that is forgotten has lost the constants in the heap, no more.
LEMMA ForgottenFacts ==
  ASSUME NEW exe \in Executables, CodeOK(exe), NEW f \in DOMAIN code
  PROVE  /\ "instrs" \in DOMAIN Forgotten(f)
         /\ Forgotten(f).instrs =
              [i \in DOMAIN exe.functions[f].instrs |-> Forgotten(f).instrs[i]]
         /\ \A i \in DOMAIN exe.functions[f].instrs :
              /\ InstructionKept(Forgotten(f).instrs[i], exe.functions[f].instrs[i])
              /\ Forgotten(f).instrs[i].op = "mov" =>
                   \/ Forgotten(f).instrs[i].word = Stale
                   \/ /\ Forgotten(f).instrs[i].word \in SchemeWords
                      /\ ~IsHeapAllocated(Forgotten(f).instrs[i].word)
<1> DEFINE Lose(instr) ==
             IF instr.op = "mov" /\ IsHeapAllocated(instr.word)
             THEN [instr EXCEPT !.word = Stale] ELSE instr
           now == code[f].instrs
           was == exe.functions[f].instrs
<1>1. /\ f \in DOMAIN exe.functions
      /\ "instrs" \in DOMAIN code[f]
      /\ now = [i \in DOMAIN was |-> now[i]]
      /\ \A i \in DOMAIN was : InstructionKept(now[i], was[i])
  BY DEF CodeOK
<1>2. /\ "instrs" \in DOMAIN Forgotten(f)
      /\ Forgotten(f).instrs = [i \in DOMAIN now |-> Lose(now[i])]
  BY <1>1 DEF Forgotten
<1>3. ASSUME NEW i \in DOMAIN was
      PROVE  /\ InstructionKept(Lose(now[i]), was[i])
             /\ Lose(now[i]).op = "mov" =>
                  \/ Lose(now[i]).word = Stale
                  \/ /\ Lose(now[i]).word \in SchemeWords
                     /\ ~IsHeapAllocated(Lose(now[i]).word)
  <2>1. /\ now[i] = [x \in DOMAIN was[i] |-> now[i][x]]
        /\ now[i].op = was[i].op
        /\ now[i].depth = was[i].depth
        /\ now[i].op = "mov" => now[i].word \in SchemeWords \cup {Stale}
    BY <1>1 DEF InstructionKept
  <2>2. {"op", "depth"} \subseteq DOMAIN was[i]
    BY <1>1, InstructionFacts
  <2>3. was[i].op = "mov" => "word" \in DOMAIN was[i]
    BY SMTT(30), <1>1, InstructionFacts DEF MemoryVerified
  <2>4. CASE now[i].op = "mov" /\ IsHeapAllocated(now[i].word)
    <3> DEFINE lost == [now[i] EXCEPT !.word = Stale]
    <3>1. /\ lost.op = now[i].op
          /\ lost.depth = now[i].depth
          /\ lost.word = Stale
          /\ lost = [x \in DOMAIN was[i] |-> lost[x]]
      BY <2>1, <2>2, <2>3, <2>4
    <3>2. Lose(now[i]) = lost
      BY <2>4
    <3> HIDE DEF lost, Lose
    <3> QED BY <3>1, <3>2, <2>1 DEF InstructionKept
  <2>5. CASE ~(now[i].op = "mov" /\ IsHeapAllocated(now[i].word))
    <3>1. Lose(now[i]) = now[i]
      BY <2>5
    <3> HIDE DEF Lose
    <3> QED BY <3>1, <2>1, <2>5 DEF InstructionKept
  <2> QED BY <2>4, <2>5
<1> HIDE DEF Lose
<1>4. DOMAIN now = DOMAIN was
  BY <1>1
<1>5. \A i \in DOMAIN was : Forgotten(f).instrs[i] = Lose(now[i])
  BY <1>2, <1>4
<1> QED BY <1>2, <1>3, <1>4, <1>5

\* A collection keeps what the invariant says of memory and of code.
LEMMA CollectKeeps ==
  ASSUME NEW exe \in Executables, Runs(exe), status = "running",
         Here(exe).op = "reserve", Collect(Here(exe).fd), fn' = fn
  PROVE  CodeOK(exe)' /\ MemoryOK(exe)' /\ Intact(exe, fn)' /\ UNCHANGED stack
<1>1. /\ heap' = [o \in {x \in DOMAIN heap : Pointer("pair", x) \in LiveWords}
                    |-> heap[o]]
      /\ stack' = stack
      /\ globals' = [i \in DOMAIN globals |->
                       IF GlobalVector \in LiveWords THEN globals[i] ELSE Stale]
      /\ code' = [f \in DOMAIN code |->
                    IF Pointer("closure", f) \in LiveWords THEN code[f]
                    ELSE Forgotten(f)]
      /\ regs' = [r \in Registers |-> Junk]
  BY CollectsExactly
<1>2. /\ \A i \in DOMAIN stack : IsSchemeWord(stack[i]) => stack[i] \in LiveWords
      /\ \A w \in LiveWords : Sound(exe, w) /\ References(w) \subseteq LiveWords
  BY LiveFacts
<1>3. CodeOK(exe) /\ MemoryOK(exe)
  BY DEF Runs
<1>4. PICK live : live = LiveWords
  OBVIOUS
<1> USE DEF HeapTags, ImmediateTags
\* What is live is as sound as it was.
<1>5. \A w \in live : Sound(exe, w)'
  <2> SUFFICES ASSUME NEW w \in live PROVE Sound(exe, w)'
    OBVIOUS
  <2>1. Sound(exe, w) /\ w \in SchemeWords
    BY <1>2, <1>4 DEF Sound
  <2>2. w.tag = "pair" => w.upper \in DOMAIN heap'
    <3>1. w.tag = "pair" => w = Pointer("pair", w.upper) /\ w.upper \in DOMAIN heap
      BY <2>1 DEF Sound, SchemeWords, Pointer
    <3> QED BY <3>1, <1>1, <1>4
  <2>3. w.tag = "closure" => w.upper \in DOMAIN code' /\ Intact(exe, w.upper)'
    <3>1. w.tag = "closure" =>
            /\ w = Pointer("closure", w.upper)
            /\ w.upper \in DOMAIN code
            /\ code[w.upper] = exe.functions[w.upper]
      BY <2>1 DEF Sound, SchemeWords, Pointer, Intact
    <3> QED BY <3>1, <1>1, <1>4 DEF Intact
  <2>4. w.tag = "vector" => w = GlobalVector /\ GlobalsKept'
    <3>1. w.tag = "vector" => w = GlobalVector /\ \A i \in DOMAIN globals : globals[i] # Stale
      BY <2>1 DEF Sound, GlobalsKept
    <3> QED BY <3>1, <1>1, <1>4 DEF GlobalsKept
  <2> QED BY <2>1, <2>2, <2>3, <2>4 DEF Sound
<1>6. \A w : Good(exe, w) /\ (IsSchemeWord(w) => w \in live) => Good(exe, w)'
  BY <1>5 DEF Good
<1>7. (\A i \in DOMAIN stack : Good(exe, stack[i]))'
  <2>1. \A i \in DOMAIN stack : Good(exe, stack[i]) /\ (IsSchemeWord(stack[i]) => stack[i] \in live)
    BY <1>2, <1>4, MemoryFacts
  <2> QED BY <2>1, <1>1, <1>6
<1>8. (\A r \in Registers : Good(exe, regs[r]))'
  <2>1. \A r \in Registers : regs'[r] = Junk
    BY <1>1
  <2>2. Good(exe, Junk) /\ ~IsSchemeWord(Junk)
    BY JunkIsGood DEF Junk, IsSchemeWord
  <2>3. Good(exe, Junk)'
    <3>1. Junk \in Values
      BY WordsAreValues
    <3> QED BY <2>2, <3>1 DEF Good
  <2> QED BY <2>1, <2>3
<1>9. (\A o \in DOMAIN heap : Sound(exe, heap[o].car) /\ Sound(exe, heap[o].cdr))'
  <2>1. ASSUME NEW o \in DOMAIN heap'
        PROVE  heap'[o].car \in live /\ heap'[o].cdr \in live
    <3>1. heap'[o] = heap[o] /\ Pointer("pair", o) \in live
      BY <2>1, <1>1, <1>4
    <3>2. References(Pointer("pair", o)) = {heap[o].car, heap[o].cdr}
      <4>1. /\ Pointer("pair", o) # GlobalVector
            /\ Pointer("pair", o).tag = "pair"
            /\ Pointer("pair", o).upper = o
        BY DEF Pointer, GlobalVector
      <4> QED BY <4>1 DEF References
    <3> QED BY <3>1, <3>2, <1>2, <1>4
  <2> QED BY <2>1, <1>5
<1>10. (\/ \A i \in DOMAIN globals : Sound(exe, globals[i])
        \/ \A i \in DOMAIN globals : globals[i] = Stale)'
  <2>1. CASE GlobalVector \in live
    <3>1. \A i \in DOMAIN globals' : globals'[i] \in live
      <4>1. References(GlobalVector) = {globals[i] : i \in DOMAIN globals}
        BY DEF References, GlobalVector
      <4> QED BY <4>1, <2>1, <1>1, <1>2, <1>4
    <3> QED BY <3>1, <1>5
  <2>2. CASE GlobalVector \notin live
    BY <2>2, <1>1, <1>4
  <2> QED BY <2>1, <2>2
<1>11. MemoryOK(exe)'
  <2>1. regs' \in [Registers -> Values] /\ stack' \in Seq(Values)
    BY <1>1, MemoryFacts, WordsAreValues
  <2>2. heap' = [o \in DOMAIN heap' |-> heap'[o]] /\ DOMAIN heap' \subseteq 1..HeapPairs
    BY <1>1, <1>3 DEF MemoryOK
  <2>3. globals' = [i \in DOMAIN exe.globals |-> globals'[i]]
    BY <1>1, <1>3 DEF MemoryOK
  <2> QED BY <1>7, <1>8, <1>9, <1>10, <2>1, <2>2, <2>3 DEF MemoryOK
<1>12. /\ code' = [f \in DOMAIN exe.functions |-> code'[f]]
       /\ DOMAIN code' = DOMAIN exe.functions
       /\ DOMAIN code = DOMAIN exe.functions
  BY <1>1, <1>3 DEF CodeOK
<1>13. ASSUME NEW f \in DOMAIN code'
       PROVE  /\ "instrs" \in DOMAIN code'[f]
              /\ code'[f].instrs =
                   [i \in DOMAIN exe.functions[f].instrs |-> code'[f].instrs[i]]
              /\ \A i \in DOMAIN code'[f].instrs :
                   InstructionKept(code'[f].instrs[i], exe.functions[f].instrs[i])
  <2>1. CASE Pointer("closure", f) \in live
    <3>1. code'[f] = code[f] /\ f \in DOMAIN code
      BY <2>1, <1>1, <1>4
    <3> QED BY <3>1, <1>3 DEF CodeOK
  <2>2. CASE Pointer("closure", f) \notin live
    <3>1. code'[f] = Forgotten(f) /\ f \in DOMAIN code
      BY <2>2, <1>1, <1>4
    <3>2. /\ "instrs" \in DOMAIN Forgotten(f)
          /\ Forgotten(f).instrs =
               [i \in DOMAIN exe.functions[f].instrs |-> Forgotten(f).instrs[i]]
          /\ \A i \in DOMAIN exe.functions[f].instrs :
               InstructionKept(Forgotten(f).instrs[i], exe.functions[f].instrs[i])
      BY <3>1, <1>3, ForgottenFacts
    <3> QED BY <3>1, <3>2
  <2> QED BY <2>1, <2>2
<1>14. ASSUME NEW f \in DOMAIN code', Intact(exe, f)',
              NEW i \in DOMAIN code'[f].instrs, code'[f].instrs[i].op = "mov"
       PROVE  \E w : w = code'[f].instrs[i].word /\ Sound(exe, w)'
  <2>1. CASE Pointer("closure", f) \in live
    <3>1. code'[f] = code[f] /\ f \in DOMAIN code
      BY <2>1, <1>1, <1>4
    <3>2. References(Pointer("closure", f)) = Constants(f)
      <4>1. /\ Pointer("closure", f) # GlobalVector
            /\ Pointer("closure", f).tag = "closure"
            /\ Pointer("closure", f).upper = f
        BY DEF Pointer, GlobalVector
      <4> QED BY <4>1 DEF References
    <3>3. code[f].instrs[i].word \in Constants(f)
      BY <1>14, <3>1 DEF Constants
    <3>4. code[f].instrs[i].word \in live
      BY <2>1, <3>2, <3>3, <1>2, <1>4
    <3> QED BY <3>1, <3>4, <1>5
  <2>2. CASE Pointer("closure", f) \notin live
    <3>1. code'[f] = Forgotten(f) /\ f \in DOMAIN code
      BY <2>2, <1>1, <1>4
    <3>2. code'[f] = exe.functions[f] /\ f \in DOMAIN exe.functions
      BY <1>14, <1>12 DEF Intact
    <3>3. i \in DOMAIN exe.functions[f].instrs /\ exe.functions[f].instrs[i].op = "mov"
      BY <1>14, <3>2
    <3>4. exe.functions[f].instrs[i].word \in SchemeWords
      BY <3>2, <3>3, InstructionFacts DEF MemoryVerified, WordVerified
    <3>5. exe.functions[f].instrs[i].word # Stale
      BY <3>4, WordsAreValues, ValuesTyped
    <3>6. ~IsHeapAllocated(exe.functions[f].instrs[i].word)
      BY ZenonT(40), <3>1, <3>2, <3>3, <3>5, <1>3, ForgottenFacts
    <3>7. PICK w : w = exe.functions[f].instrs[i].word
      OBVIOUS
    <3>8. w \in SchemeWords /\ w.tag \notin {"pair", "closure", "vector"}
      BY <3>4, <3>6, <3>7 DEF IsHeapAllocated
    <3>9. Sound(exe, w)'
      BY <3>8 DEF Sound
    <3> QED BY <3>2, <3>7, <3>9
  <2> QED BY <2>1, <2>2
<1>15. CodeOK(exe)'
  <2>1. \A f \in DOMAIN code' : Intact(exe, f)' =>
          (\A i \in DOMAIN code[f].instrs :
             code[f].instrs[i].op = "mov" => Sound(exe, code[f].instrs[i].word))'
    BY <1>14
  <2> QED BY <1>12, <1>13, <2>1 DEF CodeOK
<1>16. Intact(exe, fn)'
  <2>1. Pointer("closure", fn) \in live
    <3>1. /\ ThisFunction(Len(calls)) = stack[calls[Len(calls)].base + 2]
          /\ HasHead(Len(calls))
          /\ calls[Len(calls)].base + 2 <= Depth
      BY Safepoint, Bases
    <3>2. stack[calls[Len(calls)].base + 2] = Pointer("closure", fn)
      BY <3>1, Bases DEF Runs, FramesOK
    <3>3. calls[Len(calls)].base + 2 \in DOMAIN stack
      BY <3>1, Bases
    <3>4. IsSchemeWord(Pointer("closure", fn))
      BY DEF Pointer, IsSchemeWord
    <3> QED BY <3>2, <3>3, <3>4, <1>2, <1>4
  <2>2. fn \in DOMAIN code /\ code[fn] = exe.functions[fn]
    BY <1>12, AtInstruction
  <2> QED BY <2>1, <2>2, <1>1, <1>4 DEF Intact
<1> QED BY <1>1, <1>11, <1>15, <1>16

-----------------------------------------------------------------------------
(***************************************************************************)
(* The invariant of the specification.                                     *)
(***************************************************************************)

\* An allocation that collects, and finds room or ends the run.
LEMMA ReserveCollectsRuns ==
  ASSUME NEW exe \in Executables, Runs(exe), ReserveCollects PROVE Runs(exe)'
<1>1. /\ status = "running" /\ Here(exe).op = "reserve"
      /\ Collect(Here(exe).fd)
      /\ status' = IF Cardinality(DOMAIN heap') < HeapPairs THEN status
                   ELSE "heap exhausted"
      /\ pc' = pc + 1
      /\ UNCHANGED <<prog, fn, calls, printed>>
  BY AtInstruction DEF ReserveCollects, At, Advance
<1>2. CodeOK(exe)' /\ MemoryOK(exe)' /\ Intact(exe, fn)' /\ UNCHANGED stack
  BY <1>1, CollectKeeps
<1>3. printed' \in Nat
  BY <1>1 DEF Runs
<1>4. CASE Cardinality(DOMAIN heap') < HeapPairs
  <2>1. UNCHANGED <<prog, status, fn, calls>>
    BY <1>1, <1>4
  <2>2. \A r \in Registers : ~Keeps(Here(exe), r)
    BY <1>1 DEF Keeps
  <2>3. Prepared(exe)'
    BY <1>1, <1>4, PreparesNext
  <2>4. pc > 2 /\ Here(exe).depth >= 2
    BY <1>1, Inside
  <2>5. /\ FallsThrough(Here(exe))
        /\ \A r \in Registers : ~Sets(Here(exe), r)
        /\ Len(stack') = Depth + Effect(Here(exe))
        /\ \A i \in DOMAIN stack' :
             i <= calls[Len(calls)].base + 2 => stack'[i] = stack[i]
        /\ \A i \in DOMAIN stack' :
             i >= calls[Len(calls)].base + 2 => IsSchemeWord(stack'[i])
    BY <1>1, <1>2, SameSlots
  <2> QED BY <1>1, <1>2, <1>3, <2>1, <2>2, <2>3, <2>4, <2>5, Advances
<1>5. CASE ~(Cardinality(DOMAIN heap') < HeapPairs)
  <2>1. status' = "heap exhausted" /\ prog' = exe.prog
    BY <1>1, <1>5 DEF Runs
  <2>2. fn' \in DOMAIN exe.functions /\ pc' \in DOMAIN exe.functions[fn'].instrs
    BY <1>1, AtInstruction DEF FlowVerified, FallsThrough, Here
  <2>3. StackIsBounded'
    <3>1. CodeOK(exe) /\ StackIsBounded
      BY DEF Runs
    <3>2. DeepestFrame' = DeepestFrame
      BY <3>1, <1>2, DeepestKept
    <3> QED BY <3>1, <3>2, <1>1, <1>2 DEF StackIsBounded, Depth
  <2>4. calls' \in Seq([fn : DOMAIN exe.functions, base : Nat])
    BY <1>1 DEF Runs
  <2> QED BY <1>2, <1>3, <2>1, <2>2, <2>3, <2>4 DEF Runs
<1> QED BY <1>4, <1>5

\* The words of an executable are sound at the start.
LEMMA WordsAreSound ==
  ASSUME NEW exe \in Executables, code = exe.functions, heap = exe.pairs,
         globals = exe.globals, NEW w, WordVerified(exe, w)
  PROVE  Sound(exe, w)
<1>1. \A i \in DOMAIN exe.globals : WordVerified(exe, exe.globals[i])
  BY CodeAssumption DEF Verified
<1>2. GlobalsKept
  <2>1. \A v \in SchemeWords : v # Stale
    BY WordsAreValues, ValuesTyped
  <2> QED BY <1>1, <2>1 DEF GlobalsKept, WordVerified
<1> QED BY <1>2 DEF Sound, WordVerified, Intact

\* The first function is entered from C++ as if it had been called.
LEMMA StartsRunning ==
  ASSUME NEW exe \in Executables,
         prog = exe.prog,
         status = "running",
         exe.functions[exe.main].arity = 0,
         code = exe.functions,
         fn = exe.main,
         pc = 1,
         regs = [[r \in Registers |-> Junk]
                   EXCEPT !["rdi"] = Pointer("closure", exe.main)],
         stack = <<ToEntry>>,
         heap = exe.pairs,
         globals = exe.globals,
         printed = 0,
         calls = <<[fn |-> exe.main, base |-> 1]>>
  PROVE  Runs(exe)
<1> DEFINE f == exe.functions[exe.main]
<1>1. /\ Verified(exe)
      /\ DOMAIN exe.functions = 1..Len(exe.functions)
      /\ exe.functions = [g \in DOMAIN exe.functions |-> exe.functions[g]]
      /\ exe.globals = [i \in DOMAIN exe.globals |-> exe.globals[i]]
      /\ exe.pairs = [o \in DOMAIN exe.pairs |-> exe.pairs[o]]
      /\ DOMAIN exe.pairs \subseteq 1..HeapPairs
      /\ exe.main \in DOMAIN exe.functions
      /\ Len(exe.functions) \in Nat
  BY CodeFacts
<1>2. 1 \in DOMAIN f.instrs
  <2>1. Len(f.instrs) \in Nat \ {0} /\ DOMAIN f.instrs = 1..Len(f.instrs)
    BY <1>1, FunctionFacts
  <2> HIDE DEF f
  <2> QED BY <2>1
<1>3. FrameVerified(f, 1) /\ f.instrs[1].depth = 0 /\ f.instrs[1].op = "push"
  BY <1>1, <1>2, InstructionFacts DEF FrameVerified
<1>4. /\ Len(calls) = 1 /\ DOMAIN calls = {1}
      /\ calls[1].fn = exe.main /\ calls[1].base = 1
      /\ Depth = 1 /\ DOMAIN stack = {1} /\ stack[1] = ToEntry
  BY DEF Depth
<1>5. calls \in Seq([fn : DOMAIN exe.functions, base : Nat])
  BY <1>1
<1>6. \A w : WordVerified(exe, w) => Sound(exe, w)
  BY WordsAreSound
<1>7. regs["rdi"] = Pointer("closure", fn)
      /\ \A r \in Registers : r # "rdi" => regs[r] = Junk
  BY RaxIsRegister
<1>8. /\ Sound(exe, Pointer("closure", fn))
      /\ IsSchemeWord(Pointer("closure", fn))
      /\ Pointer("closure", fn) \in Values
  <2>1. WordVerified(exe, Pointer("closure", fn))
    BY <1>1 DEF WordVerified, Pointer, SchemeWords, HeapTags, ImmediateTags
  <2> QED BY <2>1, <1>6, WordsAreValues, GoodWords DEF WordVerified
<1>9. ToEntry \in Values /\ ~IsSchemeWord(ToEntry)
  <2>1. ToEntry \in Values
    BY WordsAreValues DEF ToEntry
  <2> QED BY <2>1 DEF ToEntry, RetAddr, IsSchemeWord, HeapTags, ImmediateTags
<1>10. CodeOK(exe)
  <2>1. ASSUME NEW g \in DOMAIN code
        PROVE  /\ "instrs" \in DOMAIN code[g]
               /\ code[g].instrs = [i \in DOMAIN exe.functions[g].instrs |-> code[g].instrs[i]]
    BY FunctionFacts
  <2>2. ASSUME NEW g \in DOMAIN code, NEW i \in DOMAIN code[g].instrs
        PROVE  /\ InstructionKept(code[g].instrs[i], exe.functions[g].instrs[i])
               /\ code[g].instrs[i].op = "mov" => Sound(exe, code[g].instrs[i].word)
    <3>1. /\ IsFunction(exe.functions[g].instrs[i])
          /\ MemoryVerified(exe, exe.functions[g], i)
      BY InstructionFacts
    <3>2. code[g].instrs[i].op = "mov" => WordVerified(exe, code[g].instrs[i].word)
      BY <3>1 DEF MemoryVerified
    <3> QED BY <3>1, <3>2, <1>6 DEF InstructionKept, IsFunction, WordVerified
  <2> QED BY <1>1, <2>1, <2>2 DEF CodeOK
<1>11. MemoryOK(exe)
  <2>1. regs \in [Registers -> Values]
    <3>1. \A r \in Registers : regs[r] \in Values
      BY <1>7, <1>8, WordsAreValues
    <3> QED BY <3>1
  <2>2. \A r \in Registers : Good(exe, regs[r])
    BY <1>7, <1>8, JunkIsGood, GoodWords
  <2>3. stack \in Seq(Values) /\ \A i \in DOMAIN stack : Good(exe, stack[i])
    BY <1>4, <1>9 DEF Good
  <2>4. \A o \in DOMAIN heap : Sound(exe, heap[o].car) /\ Sound(exe, heap[o].cdr)
    BY <1>1, <1>6 DEF Verified
  <2>5. \A i \in DOMAIN globals : Sound(exe, globals[i])
    BY <1>1, <1>6 DEF Verified
  <2> QED BY <1>1, <2>1, <2>2, <2>3, <2>4, <2>5 DEF MemoryOK
<1>12. FramesOK(exe)
  <2>1. Saved(1) = Junk
    BY <1>4, <1>7 DEF Saved, Registers
  <2>2. ThisFunction(1) = Pointer("closure", fn)
    BY <1>4, <1>7 DEF ThisFunction
  <2>3. Here(exe).depth = 0
    BY <1>3 DEF Here
  <2>4. TopOf(1) = 1
    BY <1>4 DEF TopOf
  <2> QED BY <1>4, <2>1, <2>2, <2>3, <2>4 DEF FramesOK
<1>13. RegistersOK(exe)
  <2> SUFFICES ASSUME NEW r \in Registers, HoldsWord(f, 1, r)
               PROVE  IsSchemeWord(regs[r])
    BY DEF RegistersOK
  <2>1. r \in EntryRegisters(0)
    BY HoldsAtEntry
  <2>2. r = "rdi"
    BY <2>1 DEF EntryRegisters
  <2> QED BY <2>2, <1>7, <1>8
<1>14. Prepared(exe)
  BY <1>3 DEF Prepared, Here
<1>15. Checked(f, 1) = FALSE
  BY DEF Checked
<1>16. HeightOK(exe)
  <2>1. DeepestFrame \in Nat
    BY <1>10, Deepest DEF DeepestClaim
  <2>2. StackLimit \in Nat
    BY MachineAssumption
  <2>3. calls[Len(calls)].base <= StackLimit + DeepestFrame + 1
    BY <2>1, <2>2, <1>4
  <2> QED BY <2>3, <1>4, <1>15 DEF HeightOK
<1>17. StackIsBounded
  BY <1>1, <1>2, <1>5, <1>10, <1>12, <1>16, BoundedByHeight DEF BoundClaim
<1> QED BY <1>1, <1>2, <1>5, <1>10, <1>11, <1>12, <1>13, <1>14, <1>16, <1>17
        DEF Runs, Intact

\* The invariant holds initially.
LEMMA StartsVerified == Init => IInv
BY StartsRunning DEF Init, IInv

\* A step that changes nothing.
LEMMA Stutters ==
  ASSUME NEW exe \in Executables, Runs(exe), UNCHANGED vars PROVE Runs(exe)'
<1>1. UNCHANGED <<prog, status, fn, pc, regs, stack, heap, globals, code, printed, calls>>
  BY DEF vars
<1>2. /\ prog' = exe.prog
      /\ status' \in {"running", "done", "heap exhausted", "not a closure",
                      "argument count mismatch", "stack overflow", "user error"}
      /\ fn' \in DOMAIN exe.functions
      /\ pc' \in DOMAIN exe.functions[fn'].instrs
      /\ printed' \in Nat
      /\ calls' \in Seq([fn : DOMAIN exe.functions, base : Nat])
  BY <1>1 DEF Runs
<1>3. CodeOK(exe)' /\ MemoryOK(exe)'
  <2>1. /\ regs' \in [Registers -> Values]
        /\ \A r \in Registers : Good(exe, regs'[r])
        /\ stack' \in Seq(Values)
        /\ \A i \in DOMAIN stack' : Good(exe, stack'[i])
    BY <1>1, MemoryFacts
  <2> QED BY <1>1, <2>1, ValuesStep DEF Runs
<1>4. StackIsBounded'
  BY <1>1, <1>3, DeepestKept DEF Runs, StackIsBounded, Depth
<1>5. CASE status # "running"
  BY <1>1, <1>2, <1>3, <1>4, <1>5 DEF Runs
<1>6. CASE status = "running"
  <2>1. /\ Intact(exe, fn) /\ FramesOK(exe) /\ RegistersOK(exe)
        /\ Prepared(exe) /\ HeightOK(exe)
    BY <1>6 DEF Runs
  <2>2. Intact(exe, fn)'
    BY <1>1, <2>1 DEF Intact
  <2>3. FramesOK(exe)'
    BY ZenonT(40), <1>1, <2>1 DEF FramesOK, Saved, ThisFunction, HasHead, TopOf, Waits, Here, Depth
  <2>4. RegistersOK(exe)'
    BY <1>1, <2>1 DEF RegistersOK
  <2>5. Prepared(exe)'
    BY <1>1, <2>1 DEF Prepared, Here, Callee
  <2>6. HeightOK(exe)'
    <3>1. DeepestFrame' = DeepestFrame
      BY <1>3, DeepestKept DEF Runs
    <3> QED BY <1>1, <2>1, <3>1 DEF HeightOK
  <2> QED BY <1>2, <1>3, <1>4, <2>2, <2>3, <2>4, <2>5, <2>6 DEF Runs
<1> QED BY <1>5, <1>6

\* And every instruction keeps it.
LEMMA StaysVerified == IInv /\ [Next]_vars => IInv'
<1> SUFFICES ASSUME NEW exe \in Executables, Runs(exe), [Next]_vars
             PROVE  Runs(exe)'
  BY DEF IInv
<1>1. CASE Push
  BY <1>1, PushRuns
<1>2. CASE Pop \/ Drop \/ Store
  BY <1>2, PopRuns, DropRuns, StoreRuns
<1>3. CASE MovImm
  BY <1>3, MovRuns
<1>4. CASE Load \/ LoadElem
  BY <1>4, LoadRuns, LoadElemRuns
<1>5. CASE StoreElem
  BY <1>5, StoreElemRuns
<1>6. CASE Jump \/ JumpIfFalse
  BY <1>6, JumpsRun
<1>7. CASE Add \/ Sub
  BY <1>7, AddRuns, SubRuns
<1>8. CASE Lt \/ IsTag \/ IsWord
  BY <1>8, TestsRun
<1>9. CASE Attr
  BY <1>9, AttrRuns
<1>10. CASE Output
  BY <1>10, OutputRuns
<1>11. CASE ReserveFits \/ ReserveCollects
  BY <1>11, ReserveFitsRuns, ReserveCollectsRuns
<1>12. CASE Fill
  BY <1>12, FillRuns
<1>13. CASE CheckCallOk
  BY <1>13, CheckCallOkRuns
<1>14. CASE NotAClosure \/ ArgCountMismatch \/ StackOverflow \/ UserError
  BY <1>14, ExitRuns
<1>15. CASE Call
  BY <1>15, CallRuns
<1>16. CASE TailCall
  BY <1>16, TailCallRuns
<1>17. CASE Return
  BY <1>17, ReturnRuns
<1>18. CASE CheckStackOk
  BY <1>18, CheckStackOkRuns
<1>19. CASE UNCHANGED vars
  BY <1>19, Stutters
<1> QED BY <1>1, <1>2, <1>3, <1>4, <1>5, <1>6, <1>7, <1>8, <1>9, <1>10, <1>11,
           <1>12, <1>13, <1>14, <1>15, <1>16, <1>17, <1>18, <1>19
        DEF Next, Exited

-----------------------------------------------------------------------------
(***************************************************************************)
(* The theorems.                                                           *)
(***************************************************************************)

\* A machine that runs verified code keeps every frame, every register and
\* every reference as the compiler expects them, whatever the executables,
\* the limit of the stack, the size of the heap and the width of fixnums
\* (codegen2.cpp).
THEOREM VerifiedCodeRuns == Spec => []IInv
BY StartsVerified, StaysVerified, PTL DEF Spec

\* What the invariant is for.
LEMMA InvariantImplies ==
  IInv => /\ TypeOK
          /\ FrameAsCompiled
          /\ WalkIsExact
          /\ TraceNamesPendingCalls
          /\ NoStaleWord
          /\ StackIsBounded
<1> SUFFICES ASSUME NEW exe \in Executables, Runs(exe)
             PROVE  /\ TypeOK
                    /\ FrameAsCompiled
                    /\ WalkIsExact
                    /\ TraceNamesPendingCalls
                    /\ NoStaleWord
                    /\ StackIsBounded
  BY DEF IInv
<1>1. /\ regs \in [Registers -> Values]
      /\ stack \in Seq(Values)
      /\ DOMAIN stack = 1..Depth
      /\ \A i \in DOMAIN stack : stack[i] \in Values
  BY MemoryFacts DEF Good
<1>2. \A r \in Registers : regs[r] \in Values
  BY <1>1
<1>3. \A o \in DOMAIN heap : heap[o].car \in Values /\ heap[o].cdr \in Values
  BY WordsAreValues DEF Runs, MemoryOK, Sound
<1>4. \A w \in Values : SlotOK(w) /\ w # Stale
  BY ValuesTyped
<1>5. TypeOK
  <2>1. /\ status \in {"running", "done", "heap exhausted", "not a closure",
                       "argument count mismatch", "stack overflow", "user error"}
        /\ printed \in Nat
        /\ DOMAIN heap \subseteq 1..HeapPairs
    BY DEF Runs, MemoryOK
  <2>2. /\ DOMAIN code = DOMAIN exe.functions
        /\ \A f \in DOMAIN code : DOMAIN code[f].instrs = DOMAIN exe.functions[f].instrs
    BY DEF Runs, CodeOK
  <2>3. fn \in DOMAIN code /\ pc \in DOMAIN code[fn].instrs
    BY <2>2 DEF Runs
  <2>4. \A i \in DOMAIN globals : SlotOK(globals[i])
    <3>1. SlotOK(Stale)
      BY DEF SlotOK
    <3>2. \A w : Sound(exe, w) => w \in Values
      BY WordsAreValues DEF Sound
    <3> QED BY <3>1, <3>2, <1>4 DEF Runs, MemoryOK
  <2>5. \A i \in DOMAIN calls : calls[i].fn \in DOMAIN code /\ calls[i].base \in Nat
    <3>1. calls \in Seq([fn : DOMAIN exe.functions, base : Nat])
      BY DEF Runs
    <3>2. \A i \in DOMAIN calls : calls[i] \in [fn : DOMAIN exe.functions, base : Nat]
      <4> DEFINE frames == [fn : DOMAIN exe.functions, base : Nat]
      <4>1. calls \in Seq(frames)
        BY <3>1
      <4> HIDE DEF frames
      <4>2. \A i \in DOMAIN calls : calls[i] \in frames
        BY <4>1
      <4> QED BY <4>2 DEF frames
    <3> QED BY <3>2, <2>2
  <2>6. DOMAIN regs = Registers
    BY <1>1
  <2> QED BY <1>1, <1>2, <1>3, <1>4, <2>1, <2>3, <2>4, <2>5, <2>6 DEF TypeOK
<1>6. FrameAsCompiled
  <2> SUFFICES ASSUME status = "running"
               PROVE  Depth - calls[Len(calls)].base = Instr.depth
    BY DEF FrameAsCompiled
  <2>1. Depth = calls[Len(calls)].base + Here(exe).depth
    BY DEF Runs, FramesOK
  <2>2. calls[Len(calls)].base \in Nat /\ Here(exe).depth \in Nat /\ Instr = Here(exe)
    BY AtInstruction, Bases
  <2> QED BY <2>1, <2>2
<1>7. WalkIsExact
  <2> SUFFICES ASSUME status = "running", "fd" \in DOMAIN Instr
               PROVE  Walked(Depth, Instr.fd) = {i \in DOMAIN stack : IsSchemeWord(stack[i])}
    BY DEF WalkIsExact, AtSafepoint
  <2>1. Instr = Here(exe)
    BY AtInstruction
  <2> QED BY <2>1, WalkedExactly
<1>8. TraceNamesPendingCalls
  <2> SUFFICES ASSUME status = "running", "fd" \in DOMAIN Instr
               PROVE  Traced(Depth, Instr.fd) =
                        [i \in DOMAIN calls |-> Pointer("closure", calls[Len(calls) + 1 - i].fn)]
    BY DEF TraceNamesPendingCalls, AtSafepoint
  <2>1. Instr = Here(exe)
    BY AtInstruction
  <2> QED BY <2>1, TracedExactly
<1>9. NoStaleWord
  BY <1>1, <1>2, <1>3, <1>4 DEF NoStaleWord
<1>10. StackIsBounded
  BY DEF Runs
<1> QED BY <1>5, <1>6, <1>7, <1>8, <1>9, <1>10

\* The variables have their types.
THEOREM MachineTyped == Spec => []TypeOK
BY VerifiedCodeRuns, InvariantImplies, PTL

\* On every path to an instruction the frame has the size that the virtual
\* frame had when codegen2.cpp emitted the instruction.
THEOREM FramesAreAsCompiled == Spec => []FrameAsCompiled
BY VerifiedCodeRuns, InvariantImplies, PTL

\* The stack walk of gc.cpp ends exactly at the entry frame and visits every
\* Scheme word on the stack, and no return address or descriptor.
THEOREM WalksAreExact == Spec => []WalkIsExact
BY VerifiedCodeRuns, InvariantImplies, PTL

\* The stack trace of runtime.cpp names the functions whose calls are
\* pending, innermost first, and none that was left by a tail call.
THEOREM TracesNamePendingCalls == Spec => []TraceNamesPendingCalls
BY VerifiedCodeRuns, InvariantImplies, PTL

\* No word that compiled code can still use is one that a collection failed
\* to update: not in a register, a slot or a pair, though it struck at any
\* allocation.
THEOREM NoWordIsStale == Spec => []NoStaleWord
BY VerifiedCodeRuns, InvariantImplies, PTL

\* With the stack check, the stack outgrows the limit by no more than the
\* deepest frame and the prologue of a callee.
THEOREM StackStaysBounded == Spec => []StackIsBounded
BY VerifiedCodeRuns, InvariantImplies, PTL
=============================================================================
