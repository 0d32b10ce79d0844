---------------------------- MODULE VerifiedCode ----------------------------
(***************************************************************************)
(* What the stack walk, the collector and the calling sequence rely on in  *)
(* code: a judgement on each function by itself, in the manner of a        *)
(* bytecode verifier, and the inductive invariant of a Machine that runs   *)
(* nothing else.  codegen2.cpp makes no such check; that the code it emits *)
(* passes is what the virtual frame is for, and TLC evaluates it.          *)
(***************************************************************************)
EXTENDS Machine

ArgumentRegisters == <<"rsi", "rdx", "rcx", "r8", "r9">>

\* Where a function of that arity finds its closure and its arguments.
EntryRegisters(arity) == {"rdi"} \cup {ArgumentRegisters[k] : k \in 1..arity}

SchemeWords == [tag : HeapTags \cup ImmediateTags, upper : Int]

-----------------------------------------------------------------------------
(***************************************************************************)
(* Registers.  f is a function, a record of instrs and arity.              *)
(***************************************************************************)
Results ==
  {"pop", "mov", "load", "loadElem", "add", "sub", "lt", "attr", "isTag",
   "isWord", "call"}

Sets(instr, r) ==
  /\ instr.op \in Results
  /\ r = IF instr.op \in {"pop", "mov", "load"} THEN instr.reg ELSE "rax"

\* Calls and collections preserve no register.
Keeps(instr, r) == instr.op \notin {"call", "output", "reserve"} /\ ~Sets(instr, r)

Jumps(f) == {i \in DOMAIN f.instrs : f.instrs[i].op \in {"jump", "jumpIfFalse"}}

JumpTargets(f) == {f.instrs[i].target : i \in Jumps(f)}

\* Instruction i finds a Scheme word in r: an instruction before it put one
\* there, or the caller did, and nothing lost it in between.  A register is
\* not followed past a jump.
HoldsWord(f, i, r) ==
  \E j \in 0..(i - 1) :
    /\ IF j = 0 THEN r \in EntryRegisters(f.arity) ELSE Sets(f.instrs[j], r)
    /\ \A k \in (j + 1)..(i - 1) : Keeps(f.instrs[k], r)
    /\ \A k \in (j + 1)..i : k \notin JumpTargets(f)

\* Instruction i is only reached from the one before it.
Follows(f, i, op) ==
  /\ i \notin JumpTargets(f)
  /\ i - 1 \in DOMAIN f.instrs
  /\ f.instrs[i - 1].op = op

-----------------------------------------------------------------------------
(***************************************************************************)
(* The virtual frame.                                                      *)
(***************************************************************************)
Effect(instr) ==
  CASE instr.op = "push" -> 1
    [] instr.op \in {"pop", "fill"} -> -1
    [] instr.op = "drop" -> -instr.n
    [] OTHER -> 0

FallsThrough(instr) == instr.op \notin {"jump", "tailCall", "ret", "error"}

\* Wherever control goes, it finds the frame it was compiled for.
FlowVerified(f, i) ==
  /\ FallsThrough(f.instrs[i]) =>
       /\ i + 1 \in DOMAIN f.instrs
       /\ f.instrs[i + 1].depth = f.instrs[i].depth + Effect(f.instrs[i])
  /\ i \in Jumps(f) =>
       /\ f.instrs[i].target \in DOMAIN f.instrs
       /\ f.instrs[f.instrs[i].target].depth = f.instrs[i].depth

\* The saved descriptor and the closure are pushed first and stay until the
\* frame is given up as a whole.
FrameVerified(f, i) ==
  /\ f.instrs[i].depth \in Nat
  /\ i = 1 => /\ f.instrs[i].depth = 0
              /\ f.instrs[i].op = "push"
              /\ f.instrs[i].reg = "r10"
  /\ i = 2 => /\ f.instrs[i].depth = 1
              /\ f.instrs[i].op = "push"
              /\ f.instrs[i].reg = "rdi"
  /\ i > 2 => \/ f.instrs[i].depth >= 2
              \/ f.instrs[i].depth = 0 /\ f.instrs[i].op = "ret"

\* A descriptor of a frame that has its head gives the size of the frame, and
\* its map has every slot but that of the saved descriptor.
Describes(fd, depth) ==
  /\ depth >= 2
  /\ IsFrameDescr(fd)
  /\ fd.frameSize = depth
  /\ PtrSlots(fd) = 0..(depth - 2)

DescriptorVerified(instr) ==
  ("fd" \in DOMAIN instr \/ instr.op \in {"call", "reserve"}) =>
    Describes(instr.fd, instr.depth)

-----------------------------------------------------------------------------
(***************************************************************************)
(* The operands of an instruction.                                         *)
(***************************************************************************)
\* A word of an executable refers to what the executable has.
WordVerified(exe, w) ==
  /\ w \in SchemeWords
  /\ w.tag = "pair" => w.upper \in DOMAIN exe.pairs
  /\ w.tag = "closure" => w.upper \in DOMAIN exe.functions
  /\ w.tag = "vector" => w = GlobalVector

StackVerified(f, i) ==
  LET instr == f.instrs[i]
  IN  /\ instr.op = "pop" => instr.depth >= 3
      /\ instr.op = "drop" => instr.n \in Nat
      /\ instr.op = "load" => instr.slot \in 0..(instr.depth - 2)
      /\ instr.op = "store" => instr.slot \in 0..(instr.depth - 3)
      /\ instr.op \in {"add", "lt"} => instr.depth >= 3
      /\ instr.op \in {"sub", "fill"} => instr.depth >= 4
      /\ instr.op = "tailCall" =>
           instr.n = instr.depth /\ instr.slot = instr.depth - 1
      /\ instr.op = "ret" => instr.depth = 0

RegistersVerified(f, i) ==
  LET instr == f.instrs[i]
  IN  /\ instr.op \in {"push", "pop", "mov", "load"} => instr.reg \in Registers
      /\ instr.op = "push" /\ i > 2 => HoldsWord(f, i, instr.reg)
      /\ instr.op \in {"store", "storeElem", "add", "lt", "ret"} =>
           HoldsWord(f, i, "rax")
      /\ instr.op \in {"call", "tailCall"} =>
           /\ Follows(f, i, "checkCall")
           /\ f.instrs[i - 1].argc \in 0..Len(ArgumentRegisters)
           /\ \A r \in EntryRegisters(f.instrs[i - 1].argc) : HoldsWord(f, i, r)

\* How the mov before an access to the global vector says what it accesses.
LoadsGlobals(instr, r) == instr.reg = r /\ instr.word = GlobalVector

MemoryVerified(exe, f, i) ==
  LET instr == f.instrs[i]
  IN  /\ instr.op = "mov" =>
           "word" \in DOMAIN instr /\ WordVerified(exe, instr.word)
      /\ instr.op \in {"loadElem", "storeElem"} =>
           /\ Follows(f, i, "mov")
           /\ instr.ix + 1 \in DOMAIN exe.globals
      /\ instr.op = "loadElem" => LoadsGlobals(f.instrs[i - 1], "rax")
      /\ instr.op = "storeElem" => LoadsGlobals(f.instrs[i - 1], "rcx")
      /\ instr.op = "fill" => Follows(f, i, "reserve")
      /\ instr.op = "attr" => instr.attr \in {"car", "cdr"}

\* With the option, no more than the prologue runs before the stack check.
Checked(f, i) == \E j \in 1..(i - 1) : f.instrs[j].op = "checkStack"

PrologueVerified(f, i) ==
  \/ Checked(f, i)
  \/ f.instrs[i].depth <= 7 /\ f.instrs[i].op \in {"push", "checkStack"}

-----------------------------------------------------------------------------
(***************************************************************************)
(* Functions and executables.                                              *)
(***************************************************************************)
IsSequence(s) == s \in Seq({s[i] : i \in DOMAIN s})

IsFunction(g) == g = [x \in DOMAIN g |-> g[x]]

FunctionVerified(exe, f) ==
  /\ IsFunction(f)
  /\ "instrs" \in DOMAIN f
  /\ IsSequence(f.instrs)
  /\ Len(f.instrs) > 0
  /\ f.arity \in 0..Len(ArgumentRegisters)
  /\ \A i \in DOMAIN f.instrs :
       /\ IsFunction(f.instrs[i])
       /\ {"op", "depth"} \subseteq DOMAIN f.instrs[i]
       /\ FlowVerified(f, i)
       /\ FrameVerified(f, i)
       /\ DescriptorVerified(f.instrs[i])
       /\ StackVerified(f, i)
       /\ RegistersVerified(f, i)
       /\ MemoryVerified(exe, f, i)
       /\ exe.prog.option.stackCheck => PrologueVerified(f, i)

Verified(exe) ==
  /\ IsSequence(exe.functions)
  /\ IsSequence(exe.globals)
  /\ IsFunction(exe.pairs)
  /\ \A f \in DOMAIN exe.functions : FunctionVerified(exe, exe.functions[f])
  /\ \A i \in DOMAIN exe.globals : WordVerified(exe, exe.globals[i])
  /\ \A o \in DOMAIN exe.pairs :
       WordVerified(exe, exe.pairs[o].car) /\ WordVerified(exe, exe.pairs[o].cdr)

ASSUME CodeAssumption == \A exe \in Executables : Verified(exe)

-----------------------------------------------------------------------------
(***************************************************************************)
(* The inductive invariant.  exe is the executable that runs.              *)
(***************************************************************************)
\* What a register or a slot holds; it is never Stale.
Values ==
  SchemeWords \cup {Junk}
    \cup [tag : {"fd"}, frameSize : 0..(2 ^ 16 - 1),
          ptrBitMap : [0..(kMapBytes - 1) -> -128..127]]
    \cup [tag : {"ret"}, fn : Nat, ix : Nat]

\* The collector has reached the function every time.
Intact(exe, f) == code[f] = exe.functions[f]

GlobalsKept == \A i \in DOMAIN globals : globals[i] # Stale

\* What a word refers to is there, and was not forgotten.
Sound(exe, w) ==
  /\ w \in SchemeWords
  /\ w.tag = "pair" => w.upper \in DOMAIN heap
  /\ w.tag = "closure" => w.upper \in DOMAIN code /\ Intact(exe, w.upper)
  /\ w.tag = "vector" => w = GlobalVector /\ GlobalsKept

Good(exe, w) == w \in Values /\ (IsSchemeWord(w) => Sound(exe, w))

\* Only a mov changes, once its constant is out of date.
InstructionKept(now, was) ==
  /\ now = [x \in DOMAIN was |-> now[x]]
  /\ now.op = was.op
  /\ now.depth = was.depth
  /\ now.op = "mov" => now.word \in SchemeWords \cup {Stale}

CodeOK(exe) ==
  /\ code = [f \in DOMAIN exe.functions |-> code[f]]
  /\ \A f \in DOMAIN code :
       /\ "instrs" \in DOMAIN code[f]
       /\ code[f].instrs =
            [i \in DOMAIN exe.functions[f].instrs |-> code[f].instrs[i]]
       /\ \A i \in DOMAIN code[f].instrs :
            InstructionKept(code[f].instrs[i], exe.functions[f].instrs[i])
       /\ Intact(exe, f) =>
            \A i \in DOMAIN code[f].instrs :
              code[f].instrs[i].op = "mov" => Sound(exe, code[f].instrs[i].word)

MemoryOK(exe) ==
  /\ regs \in [Registers -> Values]
  /\ \A r \in Registers : Good(exe, regs[r])
  /\ stack \in Seq(Values)
  /\ \A i \in DOMAIN stack : Good(exe, stack[i])
  /\ heap = [o \in DOMAIN heap |-> heap[o]]
  /\ DOMAIN heap \subseteq 1..HeapPairs
  /\ \A o \in DOMAIN heap : Sound(exe, heap[o].car) /\ Sound(exe, heap[o].cdr)
  /\ globals = [i \in DOMAIN exe.globals |-> globals[i]]
  /\ \/ \A i \in DOMAIN globals : Sound(exe, globals[i])
     \/ \A i \in DOMAIN globals : globals[i] = Stale

\* The saved descriptor and the closure of frame k.  The top frame has them
\* in registers until it has pushed them.
Saved(k) ==
  IF k = Len(calls) /\ pc = 1 THEN regs["r10"] ELSE stack[calls[k].base + 1]

ThisFunction(k) ==
  IF k = Len(calls) /\ pc <= 2 THEN regs["rdi"] ELSE stack[calls[k].base + 2]

\* All frames but that of a function that is about to return.
HasHead(k) == k < Len(calls) \/ pc <= 2 \/ calls[k].base < Depth

TopOf(k) == IF k < Len(calls) THEN calls[k + 1].base - 1 ELSE Depth

\* Frame k waits at a call instruction for frame k + 1 to return to it.
Waits(exe, k) ==
  LET instrs == exe.functions[calls[k].fn].instrs
  IN  \E i \in DOMAIN instrs :
        /\ instrs[i].op = "call"
        /\ calls[k + 1].base = calls[k].base + instrs[i].depth + 1
        /\ stack[calls[k + 1].base] = RetAddr(calls[k].fn, i + 1)
        /\ HasHead(k + 1) => Saved(k + 1) = Packed(instrs[i].fd)

Here(exe) == exe.functions[fn].instrs[pc]

FramesOK(exe) ==
  /\ Len(calls) > 0
  /\ calls[Len(calls)].fn = fn
  /\ Depth = calls[Len(calls)].base + Here(exe).depth
  /\ calls[1].base = 1
  /\ stack[1] = ToEntry
  /\ HasHead(1) => Saved(1) = Junk
  /\ \A j, k \in DOMAIN calls : j < k => calls[j].base + 3 <= calls[k].base
  /\ \A k \in DOMAIN calls : k < Len(calls) => Waits(exe, k)
  /\ \A k \in DOMAIN calls :
       HasHead(k) => ThisFunction(k) = Pointer("closure", calls[k].fn)
  /\ \A k \in DOMAIN calls :
       \A i \in (calls[k].base + 2)..TopOf(k) : IsSchemeWord(stack[i])

RegistersOK(exe) ==
  \A r \in Registers :
    HoldsWord(exe.functions[fn], pc, r) => IsSchemeWord(regs[r])

\* What the instruction before this one has seen to.
Prepared(exe) ==
  /\ Here(exe).op \in {"call", "tailCall"} =>
       /\ regs["rdi"].tag = "closure"
       /\ code[Callee].arity = exe.functions[fn].instrs[pc - 1].argc
  /\ Here(exe).op = "loadElem" => regs["rax"] = GlobalVector
  /\ Here(exe).op = "storeElem" => regs["rcx"] = GlobalVector
  /\ Here(exe).op = "fill" => Cardinality(DOMAIN heap) < HeapPairs

\* A frame starts no higher than the deepest frame that passed the check.
HeightOK(exe) ==
  prog.option.stackCheck =>
    /\ \A k \in DOMAIN calls : k < Len(calls) => calls[k].base <= StackLimit
    /\ Checked(exe.functions[fn], pc) => calls[Len(calls)].base <= StackLimit
    /\ calls[Len(calls)].base <= StackLimit + DeepestFrame + 1

Runs(exe) ==
  /\ prog = exe.prog
  /\ status \in {"running", "done", "heap exhausted", "not a closure",
                 "argument count mismatch", "stack overflow", "user error"}
  /\ fn \in DOMAIN exe.functions
  /\ pc \in DOMAIN exe.functions[fn].instrs
  /\ printed \in Nat
  /\ calls \in Seq([fn : DOMAIN exe.functions, base : Nat])
  /\ CodeOK(exe)
  /\ MemoryOK(exe)
  /\ StackIsBounded
  /\ status = "running" =>
       /\ Intact(exe, fn)
       /\ FramesOK(exe)
       /\ RegistersOK(exe)
       /\ Prepared(exe)
       /\ HeightOK(exe)

\* A machine that runs verified code keeps every frame as it was compiled.
IInv == \E exe \in Executables : Runs(exe)
=============================================================================
