---------------------------- MODULE Relocations ----------------------------
(***************************************************************************)
(* The addresses in generated code while the code is being generated       *)
(* (CGFunction in codegen2.cpp).  The assembler's buffer is out of the     *)
(* collector's sight, and almost every step of the compiler allocates: it  *)
(* pushes a pair on its virtual frame, or a growable array is full.  So an *)
(* instruction that loads a heap word is emitted with a zero, the word     *)
(* goes into relocArray and the place into ptrOffsets, and both are put    *)
(* together when the function is finished.  From then on the collector     *)
(* finds the words in the code, through the function's closure.            *)
(*                                                                         *)
(* The heap has two spaces, and a collection moves every object to the     *)
(* other one.  A word is the object it stands for and the space in which   *)
(* it was right; nobody can tell from a word which object it stood for     *)
(* once it is out of date.                                                 *)
(***************************************************************************)
EXTENDS Integers, Sequences

CONSTANTS
  Objects,        \* what instructions may load
  GlobalVector,   \* one of them: it is loaded to get at a global
  NoObject,       \* what an instruction loads that loads no heap word
  FunctionBodies  \* the bodies a module's functions may have: instructions

ASSUME ObjectsAssumption ==
  /\ GlobalVector \in Objects
  /\ NoObject \notin Objects
  /\ FunctionBodies \subseteq Seq(Seq(Objects \cup {NoObject}))

VARIABLES
  bodies,      \* of the functions of the module, in the order of compilation
  space,       \* the space in use
  code,        \* of the functions that are finished: the word of each instruction
  buffer,      \* the assembler's: a word for each instruction
  relocArray,
  ptrOffsets,
  todo         \* the calls left to make for the instruction emitted last

vars == <<bodies, space, code, buffer, relocArray, ptrOffsets, todo>>

Word(o, s) == [object |-> o, space |-> s]

\* What a mov 0 loads, and an instruction that loads nothing from the heap.
Zero == Word(NoObject, 0)

CodeWords == [object : Objects \cup {NoObject}, space : {0, 1}]

\* A traced word after an allocation that leaves the heap in space s.
Updated(w, s) ==
  IF w.object # NoObject /\ w.space = space THEN Word(w.object, s) ELSE w

UpdatedAll(ws, s) == [i \in DOMAIN ws |-> Updated(ws[i], s)]

\* The next allocation may collect.
Spaces == {space, 1 - space}

\* The capacities of a growable array are 0, 1, 3, 7 and so on.
IsFull(len) == \E k \in 0..len : len = 2 ^ k - 1

\* arrayAppend allocates when the array is full.
SpacesAfterAppend(arr) == IF IsFull(Len(arr)) THEN Spaces ELSE {space}

Compiling == Len(code) < Len(bodies)

Body == bodies[Len(code) + 1]

\* What the instruction emitted last loads.
Loaded == Body[Len(buffer)]

\* An allocation that leaves the heap in space s has updated the code that is
\* finished.
Traced(s) == space' = s /\ code' = [f \in DOMAIN code |-> UpdatedAll(code[f], s)]

-----------------------------------------------------------------------------
Init ==
  /\ bodies \in FunctionBodies
  /\ space = 0
  /\ code = <<>>
  /\ buffer = <<>>
  /\ relocArray = <<>>
  /\ ptrOffsets = <<>>
  /\ todo = {}

\* An instruction; one that loads a heap word has a zero in its place.
Emit ==
  /\ Compiling
  /\ todo = {}
  /\ Len(buffer) < Len(Body)
  /\ buffer' = Append(buffer, Zero)
  /\ todo' = IF Body[Len(buffer) + 1] = NoObject THEN {"push"}
             ELSE {"reloc", "offset", "push"}
  /\ UNCHANGED <<bodies, space, code, relocArray, ptrOffsets>>

\* Mutant: the word is read before the array grows, and kept in no Handle.
RecordReloc_ReadFirst ==
  /\ "reloc" \in todo
  /\ Loaded = GlobalVector => "offset" \notin todo
  /\ \E s \in SpacesAfterAppend(relocArray) :
       /\ Traced(s)
       /\ relocArray' = Append(UpdatedAll(relocArray, s), Word(Loaded, space))
  /\ todo' = todo \ {"reloc"}
  /\ UNCHANGED <<bodies, buffer, ptrOffsets>>

\* recordReloc(e): e is a Handle.  For a global it comes after, for a quoted
\* datum before recordLastPtrOffset.
RecordReloc ==
  /\ "reloc" \in todo
  /\ Loaded = GlobalVector => "offset" \notin todo
  /\ \E s \in SpacesAfterAppend(relocArray) :
       /\ Traced(s)
       /\ relocArray' = Append(UpdatedAll(relocArray, s), Word(Loaded, s))
  /\ todo' = todo \ {"reloc"}
  /\ UNCHANGED <<bodies, buffer, ptrOffsets>>

\* recordLastPtrOffset.
RecordOffset ==
  /\ "offset" \in todo
  /\ Loaded # GlobalVector => "reloc" \notin todo
  /\ \E s \in SpacesAfterAppend(ptrOffsets) :
       /\ Traced(s)
       /\ relocArray' = UpdatedAll(relocArray, s)
  /\ ptrOffsets' = Append(ptrOffsets, Len(buffer))
  /\ todo' = todo \ {"offset"}
  /\ UNCHANGED <<bodies, buffer>>

\* pushVirtual makes a pair.
PushVirtual ==
  /\ todo = {"push"}
  /\ \E s \in Spaces :
       /\ Traced(s)
       /\ relocArray' = UpdatedAll(relocArray, s)
  /\ todo' = {}
  /\ UNCHANGED <<bodies, buffer, ptrOffsets>>

\* The loop that patches the code, with the words ws.
Patched(ws) ==
  [i \in DOMAIN buffer |->
     IF \E k \in DOMAIN ptrOffsets : ptrOffsets[k] = i
     THEN ws[CHOOSE k \in DOMAIN ptrOffsets : ptrOffsets[k] = i]
     ELSE buffer[i]]

\* arrayToVector(ptrOffsets) allocates; then, without another allocation, the
\* function's header is filled in, the closure gets it, and it is patched.
Finish ==
  /\ Compiling
  /\ todo = {}
  /\ Len(buffer) = Len(Body)
  /\ \E s \in Spaces :
       /\ space' = s
       /\ code' = Append([f \in DOMAIN code |-> UpdatedAll(code[f], s)],
                         Patched(UpdatedAll(relocArray, s)))
  /\ buffer' = <<>> /\ relocArray' = <<>> /\ ptrOffsets' = <<>>
  /\ UNCHANGED <<bodies, todo>>

Next == Emit \/ RecordReloc \/ RecordOffset \/ PushVirtual \/ Finish

Spec == Init /\ [][Next]_vars

\* The compiler runs on.
FairSpec == Spec /\ WF_vars(Next)

-----------------------------------------------------------------------------
(***************************************************************************)
(* Properties.                                                             *)
(***************************************************************************)
\* The types of the variables.
TypeOK ==
  /\ bodies \in FunctionBodies
  /\ space \in {0, 1}
  /\ code \in Seq(Seq(CodeWords))
  /\ Len(code) <= Len(bodies)
  /\ buffer \in Seq({Zero})
  /\ Compiling => Len(buffer) <= Len(Body)
  /\ relocArray \in Seq(CodeWords)
  /\ ptrOffsets \in Seq(Nat)
  /\ todo \subseteq {"reloc", "offset", "push"}

\* Every function that is finished has, in each instruction that loads an
\* object, the address that the object has now: whatever was collected while
\* it was being compiled, while it was finished, and since then.
CodeIsCurrent ==
  \A f \in DOMAIN code :
    /\ DOMAIN code[f] = DOMAIN bodies[f]
    /\ \A i \in DOMAIN code[f] :
         code[f][i] = IF bodies[f][i] = NoObject THEN Zero
                      ELSE Word(bodies[f][i], space)

\* The comment on compileFunction: while a function is being compiled, there
\* is no collection.
NoGCWhileCompiling == [][buffer # <<>> => space' = space]_vars
=============================================================================
