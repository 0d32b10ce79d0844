------------------------------ MODULE Machine ------------------------------
(***************************************************************************)
(* Compiled Scheme code at run time: the entry from C++ (asmentry.s), the  *)
(* instructions that codegen2.cpp emits, the frames they build, and the    *)
(* collections, error handlers and stack walks (gc.cpp, runtime.cpp) that  *)
(* read those frames through frame descriptors.                            *)
(*                                                                         *)
(* The stack is a sequence of slots, the bottom first; slot i of the code  *)
(* is i slots below the top.  A slot holds a Scheme word, a return         *)
(* address, a packed frame descriptor, or garbage.  Pairs have identities: *)
(* how the collector moves them is the subject of Heap.  What it does not  *)
(* find and therefore does not update is Stale here from then on.          *)
(***************************************************************************)
EXTENDS Words, FrameDescrs, Sequences, FiniteSets

CONSTANTS
  Executables, \* what genModule makes of programs: see MachineAssumption
  StackLimit,  \* slots in 1 MB
  HeapPairs,   \* pairs that fit in the heap
  FixnumBits   \* 60: the bits of a word above the tag

\* An executable has the functions of a module, each with its instructions and
\* its arity, the elements of the global vector, which of the functions is
\* main, the pairs of the quoted lists, and in prog what it was made from,
\* of which only the option matters here.
ASSUME MachineAssumption ==
  /\ StackLimit \in Nat
  /\ HeapPairs \in Nat
  /\ FixnumBits \in Nat \ {0}
  /\ 2 ^ (FixnumBits - 1) \in Nat \ {0} \* which follows; provers lack it
  /\ \A exe \in Executables :
       /\ exe.prog.option \in [tailCallOpt : BOOLEAN, stackCheck : BOOLEAN]
       /\ exe.main \in DOMAIN exe.functions
       /\ DOMAIN exe.pairs \subseteq 1..HeapPairs

VARIABLES
  prog,     \* the program and its option: fixed
  status,   \* "running", "done", or what the process exited with
  fn, pc,   \* the function that runs and the index of its next instruction
  regs,
  stack,
  heap,     \* id -> [car, cdr]
  globals,  \* the elements of the global vector
  code,     \* for each function its instructions and its arity
  printed,  \* how many words were traced and displayed
  calls     \* history: the functions with a frame, and the height it starts at

vars == <<prog, status, fn, pc, regs, stack, heap, globals, code, printed, calls>>

Registers == {"rax", "rcx", "rdi", "rsi", "rdx", "r8", "r9", "r10"}

\* Slots and registers that hold no Scheme word.
Junk       == [tag |-> "junk", upper |-> 0]
Stale      == [tag |-> "stale", upper |-> 0]
Packed(fd) ==
  [tag |-> "fd", frameSize |-> fd.frameSize, ptrBitMap |-> fd.ptrBitMap]
RetAddr(f, ix) == [tag |-> "ret", fn |-> f, ix |-> ix]

\* The return address in Scheme_asmEntry.
ToEntry == RetAddr(0, 0)

IsSchemeWord(w) == w.tag \in HeapTags \cup ImmediateTags

Instr == code[fn].instrs[pc]

Depth == Len(stack)

Slot(i) == stack[Depth - i]

Top == Slot(0)

DropSlots(n) == SubSeq(stack, 1, Depth - n)

-----------------------------------------------------------------------------
(***************************************************************************)
(* The stack walk of gcScavengeSchemeStack and printSchemeStackTrace, from *)
(* the frame that ends at height top: the saved descriptor of the caller   *)
(* is two slots above its top, where the callee pushed it.                 *)
(***************************************************************************)
FrameSlots(top, fd) == {top - i : i \in PtrSlots(fd)}

\* Where the frame below ends: above the return address.
FrameBelow(top, fd) == top - (fd.frameSize + 1)

CallerFrameDescr(top) == stack[top + 2]

\* Mutant: the slot of the saved descriptor is taken for the closure.
ThisClosure_OneSlotDown(top, fd) == stack[top - (fd.frameSize - 1)]

\* The closure of a frame was pushed second, after the saved descriptor.
ThisClosure(top, fd) == stack[top - (fd.frameSize - 2)]

\* What the two walks read of a frame.
Visited(top, fd) ==
  [slots |-> FrameSlots(top, fd), closure |-> ThisClosure(top, fd)]

\* A walk that does not come to height 0, which is no slot, loses its way.
Lost == [slots |-> {0}, closure |-> Junk]

LosesWayAt(top) ==
  \/ top < 0
  \/ top + 2 > Depth
  \/ CallerFrameDescr(top).tag # "fd"

\* The frames that the walk visits, the innermost first.
FramesFrom(top, fd) ==
  LET below[t \in Int] ==
        IF t = 0 THEN <<>>
        ELSE IF LosesWayAt(t) THEN <<Lost>>
        ELSE <<Visited(t, CallerFrameDescr(t))>>
               \o below[FrameBelow(t, CallerFrameDescr(t))]
  IN  <<Visited(top, fd)>> \o below[FrameBelow(top, fd)]

\* The slots that a collection visits.
Walked(top, fd) ==
  UNION {FramesFrom(top, fd)[i].slots : i \in DOMAIN FramesFrom(top, fd)}

\* The closures that a stack trace names.
Traced(top, fd) ==
  [i \in DOMAIN FramesFrom(top, fd) |-> FramesFrom(top, fd)[i].closure]

-----------------------------------------------------------------------------
(***************************************************************************)
(* A collection, as the running code sees it.  A closure leads to the      *)
(* constants in its function's code, and the global vector is only         *)
(* reachable as such a constant: the Handles of the compiler are gone.     *)
(***************************************************************************)
\* Mutant: the constants in code are not traversed.
Constants_Ignored(f) == {}

Constants(f) ==
  {code[f].instrs[i].word :
     i \in {j \in DOMAIN code[f].instrs : code[f].instrs[j].op = "mov"}}

References(w) ==
  CASE w.tag = "pair"    -> {heap[w.upper].car, heap[w.upper].cdr}
    [] w.tag = "closure" -> Constants(w.upper)
    [] w = GlobalVector  -> {globals[i] : i \in DOMAIN globals}
    [] OTHER             -> {}

Reached(words) ==
  LET steps == Cardinality(DOMAIN heap) + Len(code) + 1
      after[n \in 0..steps] ==
        IF n = 0 THEN words
        ELSE after[n - 1] \cup UNION {References(w) : w \in after[n - 1]}
  IN  after[steps]

\* Code that is not reached keeps the old addresses of what it refers to.
Forgotten(f) ==
  [code[f] EXCEPT !.instrs =
     [i \in DOMAIN @ |->
        IF @[i].op = "mov" /\ IsHeapAllocated(@[i].word)
        THEN [@[i] EXCEPT !.word = Stale] ELSE @[i]]]

Collect(fd) ==
  LET slots == Walked(Depth, fd)
      live == Reached({stack[i] : i \in slots})
  IN  /\ heap' = [o \in {x \in DOMAIN heap : Pointer("pair", x) \in live}
                    |-> heap[o]]
      /\ stack' = [i \in DOMAIN stack |->
                     IF IsHeapAllocated(stack[i]) /\ i \notin slots
                     THEN Stale ELSE stack[i]]
      /\ globals' = [i \in DOMAIN globals |->
                       IF GlobalVector \in live THEN globals[i] ELSE Stale]
      /\ code' = [f \in DOMAIN code |->
                    IF Pointer("closure", f) \in live THEN code[f]
                    ELSE Forgotten(f)]
      /\ regs' = [r \in Registers |-> Junk]

-----------------------------------------------------------------------------
(***************************************************************************)
(* Starting.  callScheme_0 and Scheme_asmEntry: the height 0 of the stack  *)
(* is firstStackPtr, above what the entry code saved.                      *)
(***************************************************************************)
Init ==
  \E exe \in Executables :
    /\ prog = exe.prog
    /\ status = "running"
    /\ exe.functions[exe.main].arity = 0
    /\ code = exe.functions
    /\ fn = exe.main
    /\ pc = 1
    /\ regs = [[r \in Registers |-> Junk]
                 EXCEPT !["rdi"] = Pointer("closure", exe.main)]
    /\ stack = <<ToEntry>>
    /\ heap = exe.pairs
    /\ globals = exe.globals
    /\ printed = 0
    /\ calls = <<[fn |-> exe.main, base |-> 1]>>

At(op) == status = "running" /\ Instr.op = op

Advance == pc' = pc + 1

Frame == <<prog, status, fn, calls>>

-----------------------------------------------------------------------------
(***************************************************************************)
(* Moving words.                                                           *)
(***************************************************************************)
Push ==
  /\ At("push")
  /\ LET w == regs[Instr.reg]
     IN  stack' = Append(stack, w)
  /\ Advance
  /\ UNCHANGED <<Frame, regs, heap, globals, code, printed>>

Pop ==
  /\ At("pop")
  /\ regs' = [regs EXCEPT ![Instr.reg] = Top]
  /\ stack' = DropSlots(1)
  /\ Advance
  /\ UNCHANGED <<Frame, heap, globals, code, printed>>

Drop ==
  /\ At("drop")
  /\ stack' = DropSlots(Instr.n)
  /\ Advance
  /\ UNCHANGED <<Frame, regs, heap, globals, code, printed>>

SetReg(r, w) ==
  /\ regs' = [regs EXCEPT ![r] = w]
  /\ Advance
  /\ UNCHANGED <<Frame, stack, heap, globals, code, printed>>

MovImm == At("mov") /\ SetReg(Instr.reg, Instr.word)

Load == At("load") /\ SetReg(Instr.reg, Slot(Instr.slot))

Store ==
  /\ At("store")
  /\ stack' = [stack EXCEPT ![Depth - Instr.slot] = regs["rax"]]
  /\ Advance
  /\ UNCHANGED <<Frame, regs, heap, globals, code, printed>>

LoadElem ==
  /\ At("loadElem")
  /\ SetReg("rax", IF regs["rax"] = GlobalVector THEN globals[Instr.ix + 1]
                   ELSE Stale)

StoreElem ==
  /\ At("storeElem")
  /\ globals' = IF regs["rcx"] = GlobalVector
                THEN [globals EXCEPT ![Instr.ix + 1] = regs["rax"]] ELSE globals
  /\ Advance
  /\ UNCHANGED <<Frame, regs, stack, heap, code, printed>>

Jump ==
  /\ At("jump")
  /\ pc' = Instr.target
  /\ UNCHANGED <<Frame, regs, stack, heap, globals, code, printed>>

JumpIfFalse ==
  /\ At("jumpIfFalse")
  /\ pc' = IF regs["rax"] = False THEN Instr.target ELSE pc + 1
  /\ UNCHANGED <<Frame, regs, stack, heap, globals, code, printed>>

-----------------------------------------------------------------------------
(***************************************************************************)
(* Primitives.  add, sub and cmp take whole words, with their tags.  What  *)
(* they make of words that are no fixnums is anything: the machine is      *)
(* stuck, as it is where a primitive finds no pair.                        *)
(***************************************************************************)
kFixnumTag == 4
TagRange == 16     \* 2 ^ kTagShift

\* The signed integer that a fixnum is to the processor.
AsInteger(w) == TagRange * w.upper + kFixnumTag

\* The word that a register holds when n was computed in it: n modulo two to
\* the number of its bits.  With another tag it is no word that is known here.
AsWord(n) ==
  LET half == TagRange * 2 ^ (FixnumBits - 1)
      bits == ((n + half) % (2 * half)) - half
  IN  IF bits % TagRange = kFixnumTag THEN Fixnum(bits \div TagRange) ELSE Junk

AreFixnums(v, w) == v.tag = "fixnum" /\ w.tag = "fixnum"

\* Mutant: both tags are left in the sum.
Add_TwoTags ==
  /\ At("add")
  /\ AreFixnums(regs["rax"], Top)
  /\ SetReg("rax", AsWord(AsInteger(regs["rax"]) + AsInteger(Top)))

Add ==
  /\ At("add")
  /\ AreFixnums(regs["rax"], Top)
  /\ SetReg("rax", AsWord(AsInteger(regs["rax"]) + AsInteger(Top) - kFixnumTag))

Sub ==
  /\ At("sub")
  /\ AreFixnums(Slot(1), Top)
  /\ SetReg("rax", AsWord(AsInteger(Slot(1)) - AsInteger(Top) + kFixnumTag))

Lt ==
  /\ At("lt")
  /\ AreFixnums(regs["rax"], Top)
  /\ SetReg("rax", Bool(AsInteger(regs["rax"]) > AsInteger(Top)))

\* What car# and cdr# read of another word is anything: the machine is stuck.
Attr ==
  /\ At("attr")
  /\ regs["rax"].tag = "pair"
  /\ LET pair == heap[regs["rax"].upper]
     IN  SetReg("rax", IF Instr.attr = "car" THEN pair.car ELSE pair.cdr)

IsTag == At("isTag") /\ SetReg("rax", Bool(regs["rax"].tag = Instr.tag))

IsWord == At("isWord") /\ SetReg("rax", Bool(regs["rax"] = Instr.word))

\* A call of C++ code preserves none of these registers.
Output ==
  /\ At("output")
  /\ printed' = printed + 1
  /\ regs' = [r \in Registers |-> Junk]
  /\ Advance
  /\ UNCHANGED <<Frame, stack, heap, globals, code>>

-----------------------------------------------------------------------------
(***************************************************************************)
(* allocPair.                                                              *)
(***************************************************************************)
ReserveFits ==
  /\ At("reserve")
  /\ Cardinality(DOMAIN heap) < HeapPairs
  /\ Advance
  /\ UNCHANGED <<Frame, regs, stack, heap, globals, code, printed>>

\* Mutant: the heap is not found full after the collection.
ReserveCollects_NeverExhausted ==
  /\ At("reserve")
  /\ Collect(Instr.fd)
  /\ Advance
  /\ UNCHANGED <<prog, fn, calls, printed, status>>

\* Pairs share the heap with objects that are not modelled here, so it may
\* fill up at any allocation.  gcCollect exits if it freed nothing.
ReserveCollects ==
  /\ At("reserve")
  /\ Collect(Instr.fd)
  /\ status' = IF Cardinality(DOMAIN heap') < HeapPairs THEN status
               ELSE "heap exhausted"
  /\ Advance
  /\ UNCHANGED <<prog, fn, calls, printed>>

Fill ==
  /\ At("fill")
  /\ LET free == 1..(HeapPairs + 1) \ DOMAIN heap
         o == CHOOSE x \in free : \A y \in free : x <= y
     IN  /\ heap' = [x \in DOMAIN heap \cup {o} |->
                       IF x = o THEN [car |-> Slot(1), cdr |-> Slot(0)]
                       ELSE heap[x]]
         /\ stack' = Append(DropSlots(2), Pointer("pair", o))
  /\ Advance
  /\ UNCHANGED <<Frame, regs, globals, code, printed>>

-----------------------------------------------------------------------------
(***************************************************************************)
(* Calls.                                                                  *)
(***************************************************************************)
Callee == regs["rdi"].upper

\* An error handler prints a stack trace and exits.
ExitWith(reason) ==
  /\ status' = reason
  /\ UNCHANGED <<prog, fn, pc, regs, stack, heap, globals, code, printed, calls>>

CheckCallOk ==
  /\ At("checkCall")
  /\ regs["rdi"].tag = "closure"
  /\ code[Callee].arity = Instr.argc
  /\ Advance
  /\ UNCHANGED <<Frame, regs, stack, heap, globals, code, printed>>

NotAClosure ==
  /\ At("checkCall")
  /\ regs["rdi"].tag # "closure"
  /\ ExitWith("not a closure")

ArgCountMismatch ==
  /\ At("checkCall")
  /\ regs["rdi"].tag = "closure"
  /\ code[Callee].arity # Instr.argc
  /\ ExitWith("argument count mismatch")

Enter(f, fd) ==
  /\ fn' = f
  /\ pc' = 1
  /\ regs' = [regs EXCEPT !["r10"] = fd]
  /\ UNCHANGED <<prog, status, heap, globals, code, printed>>

Call ==
  /\ At("call")
  /\ stack' = Append(stack, RetAddr(fn, pc + 1))
  /\ calls' = Append(calls, [fn |-> Callee, base |-> Depth + 1])
  /\ Enter(Callee, Packed(Instr.fd))

\* The callee gets the descriptor that this function got, and returns to
\* where this function would have returned.
TailCall ==
  /\ At("tailCall")
  /\ stack' = DropSlots(Instr.n)
  /\ calls' = [calls EXCEPT ![Len(calls)].fn = Callee]
  /\ Enter(Callee, Slot(Instr.slot))

\* A ret to anything but a return address is undefined: the machine is stuck.
Return ==
  /\ At("ret")
  /\ Top.tag = "ret"
  /\ stack' = DropSlots(1)
  /\ IF Top = ToEntry
     THEN status' = "done" /\ UNCHANGED <<fn, pc>>
     ELSE fn' = Top.fn /\ pc' = Top.ix /\ UNCHANGED status
  /\ calls' = SubSeq(calls, 1, Len(calls) - 1)
  /\ UNCHANGED <<prog, regs, heap, globals, code, printed>>

\* Mutant: the result of the comparison is not looked at.
CheckStackOk_Always ==
  /\ At("checkStack")
  /\ Advance
  /\ UNCHANGED <<Frame, regs, stack, heap, globals, code, printed>>

CheckStackOk ==
  /\ At("checkStack")
  /\ Depth <= StackLimit
  /\ Advance
  /\ UNCHANGED <<Frame, regs, stack, heap, globals, code, printed>>

StackOverflow ==
  /\ At("checkStack")
  /\ Depth > StackLimit
  /\ ExitWith("stack overflow")

UserError == At("error") /\ ExitWith("user error")

Exited == status # "running" /\ UNCHANGED vars

Next ==
  \/ Push \/ Pop \/ Drop \/ MovImm \/ Load \/ Store \/ LoadElem \/ StoreElem
  \/ Jump \/ JumpIfFalse
  \/ Add \/ Sub \/ Lt \/ Attr \/ IsTag \/ IsWord \/ Output
  \/ ReserveFits \/ ReserveCollects \/ Fill
  \/ CheckCallOk \/ NotAClosure \/ ArgCountMismatch
  \/ Call \/ TailCall \/ Return
  \/ CheckStackOk \/ StackOverflow \/ UserError
  \/ Exited

Spec == Init /\ [][Next]_vars

\* The processor runs the code.
FairSpec == Spec /\ WF_vars(Next)

-----------------------------------------------------------------------------
(***************************************************************************)
(* Properties.                                                             *)
(***************************************************************************)
SlotOK(w) ==
  \/ IsSchemeWord(w) /\ w.upper \in Int
  \/ w \in {Junk, Stale}
  \/ w.tag = "fd" /\ IsFrameDescr(w)
  \/ w.tag = "ret" /\ w.fn \in Nat /\ w.ix \in Nat

\* The types of the variables.
TypeOK ==
  /\ status \in {"running", "done", "heap exhausted", "not a closure",
                 "argument count mismatch", "stack overflow", "user error"}
  /\ fn \in DOMAIN code
  /\ pc \in DOMAIN code[fn].instrs
  /\ DOMAIN regs = Registers
  /\ \A r \in Registers : SlotOK(regs[r])
  /\ \A i \in DOMAIN stack : SlotOK(stack[i])
  /\ DOMAIN heap \subseteq 1..HeapPairs
  /\ \A o \in DOMAIN heap : SlotOK(heap[o].car) /\ SlotOK(heap[o].cdr)
  /\ \A i \in DOMAIN globals : SlotOK(globals[i])
  /\ printed \in Nat
  /\ \A i \in DOMAIN calls :
       calls[i].fn \in DOMAIN code /\ calls[i].base \in Nat

\* Whatever path led to an instruction, the frame has the size that the
\* compiler gave its virtual frame when it emitted the instruction.
FrameAsCompiled ==
  status = "running" => Depth - calls[Len(calls)].base = Instr.depth

\* Where the running code hands a descriptor of its frame to the runtime, to
\* be collected, to be traced, or to be found below the frame of a callee.
AtSafepoint == status = "running" /\ "fd" \in DOMAIN Instr

\* The stack walk ends exactly at the entry frame, and in between it visits
\* every slot that holds a Scheme word and no return address or descriptor.
WalkIsExact ==
  AtSafepoint =>
    Walked(Depth, Instr.fd) = {i \in DOMAIN stack : IsSchemeWord(stack[i])}

\* A stack trace names the functions whose calls are pending, innermost
\* first; a function that was left by a tail call is not among them.
TraceNamesPendingCalls ==
  AtSafepoint =>
    Traced(Depth, Instr.fd) =
      [i \in DOMAIN calls |-> Pointer("closure", calls[Len(calls) + 1 - i].fn)]

\* A collection may strike at any allocation, yet no word that the program
\* can still use is one that the collector failed to update, not even in the
\* code of a function that no global names any more.
NoStaleWord ==
  /\ \A r \in Registers : regs[r] # Stale
  /\ \A i \in DOMAIN stack : stack[i] # Stale
  /\ \A o \in DOMAIN heap : Stale \notin {heap[o].car, heap[o].cdr}

\* The deepest frame of the program as the compiler laid it out.
DeepestFrame ==
  LET depths == UNION {{code[f].instrs[i].depth : i \in DOMAIN code[f].instrs} :
                         f \in DOMAIN code}
  IN  CHOOSE d \in depths : \A e \in depths : e <= d

\* The check is made once per call, after the arguments are pushed.  The stack
\* outgrows the limit by no more than a frame and the prologue of a callee.
StackIsBounded ==
  prog.option.stackCheck => Depth <= StackLimit + DeepestFrame + 8
=============================================================================
