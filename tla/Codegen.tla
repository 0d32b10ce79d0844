------------------------------ MODULE Codegen ------------------------------
(***************************************************************************)
(* The one-pass compiler of codegen2.cpp, from the parsed module to the    *)
(* instructions that Machine executes.  The compiler tracks a virtual      *)
(* frame: for every slot above the return address whether it holds a       *)
(* Scheme word, and for every local its distance from the top of the       *)
(* stack.  Everything the collector later knows about a frame is read off  *)
(* this virtual frame, so it must agree with what the instructions do.     *)
(*                                                                         *)
(* An expression is the word the parser made of it.  Here it is a record:  *)
(* [kind |-> "word", word], a fixnum, a singleton or a quoted datum;       *)
(* [kind |-> "symbol", name]; [kind |-> "list", items].                    *)
(*                                                                         *)
(* A CGFunction is a record fn: the virtual frame, the locals, the code so *)
(* far, the two arrays that patch it, and ok, FALSE once the compiler has  *)
(* exited (an undefined name) or failed an assertion.                      *)
(***************************************************************************)
EXTENDS Words, FrameDescrs, SequencesExt

\* The bits of the pointer map of a FrameDescr.
kMaxFrameSize == 8 * kMapBytes

kArgRegs == <<"rsi", "rdx", "rcx", "r8", "r9">>

kArgRegsWithClosure == <<"rdi">> \o kArgRegs

frameSize(fn) == Len(fn.stackItemList)

Fail(fn) == [fn EXCEPT !.ok = FALSE]

-----------------------------------------------------------------------------
(***************************************************************************)
(* The virtual frame.  stackItemList has the top of the stack first.       *)
(***************************************************************************)
\* Mutant: the locals stay where they were.
shiftLocal_Nothing(fn, n) == fn

shiftLocal(fn, n) ==
  [fn EXCEPT !.locals = [x \in DOMAIN fn.locals |-> fn.locals[x] + n]]

pushVirtual(fn, isWord) ==
  [shiftLocal(fn, 1) EXCEPT !.stackItemList = <<isWord>> \o @]

popVirtual(fn, n) ==
  [shiftLocal(fn, -n) EXCEPT
     !.stackItemList = SubSeq(@, n + 1, Len(@))]

\* depth is the frame the compiler assumes where the instruction stands.
Emit(fn, instr) ==
  [fn EXCEPT !.code = Append(@, [depth |-> frameSize(fn)] @@ instr)]

\* One pass over the virtual frame, from the top.
makeFrameDescr(fn) ==
  LET mark(fd, i) == IF fn.stackItemList[i] THEN setIsPtr(fd, i - 1) ELSE fd
  IN  FoldLeftDomain(mark, [NoPtrs EXCEPT !.frameSize = frameSize(fn)],
                     fn.stackItemList)

\* The assertion in makeFrameDescr; every use of a descriptor makes it.
EmitWithFrameDescr(fn, instr) ==
  IF frameSize(fn) <= kMaxFrameSize
  THEN Emit(fn, instr @@ [fd |-> makeFrameDescr(fn)])
  ELSE Fail(fn)

pushReg(fn, r, isWord) == pushVirtual(Emit(fn, [op |-> "push", reg |-> r]), isWord)

popReg(fn, r) == popVirtual(Emit(fn, [op |-> "pop", reg |-> r]), 1)

popSome(fn, n) == popVirtual(Emit(fn, [op |-> "drop", n |-> n]), n)

popFrame(fn) == popSome(fn, frameSize(fn))

\* A mov of a heap word is emitted with a placeholder, and patched at the end.
MovPatched(fn, r, w) ==
  LET placed == Emit(fn, [op |-> "mov", reg |-> r, word |-> Null])
  IN  [placed EXCEPT !.ptrOffsets = Append(@, Len(placed.code)),
                     !.relocArray = Append(@, w)]

MovImmediate(fn, r, w) == Emit(fn, [op |-> "mov", reg |-> r, word |-> w])

pushObject(fn, w) ==
  LET loaded == IF IsHeapAllocated(w) THEN MovPatched(fn, "rax", w)
                ELSE MovImmediate(fn, "rax", w)
  IN  pushReg(loaded, "rax", TRUE)

-----------------------------------------------------------------------------
(***************************************************************************)
(* Names.                                                                  *)
(***************************************************************************)
lookupLocal(fn, name) ==
  IF name \in DOMAIN fn.locals THEN fn.locals[name] ELSE -1

addNewLocal(fn, name) ==
  [fn EXCEPT !.locals = [x \in DOMAIN @ \cup {name} |->
                           IF x = name THEN 0 ELSE @[x]]]

\* Module::lookupName: the index of a global, from 0, or -1.
lookupGlobal(fn, name) ==
  IF name \in ToSet(fn.globals)
  THEN (CHOOSE i \in DOMAIN fn.globals : fn.globals[i] = name) - 1
  ELSE -1

\* Loading or storing a variable.  A local index of -1 reads as "not found".
LoadVariable(fn, name) ==
  LET local == lookupLocal(fn, name)
      global == lookupGlobal(fn, name)
  IN  CASE local # -1 ->
             pushReg(Emit(fn, [op |-> "load", reg |-> "rax", slot |-> local]),
                     "rax", TRUE)
        [] local = -1 /\ global # -1 ->
             pushReg(Emit(MovPatched(fn, "rax", GlobalVector),
                          [op |-> "loadElem", reg |-> "rax", ix |-> global]),
                     "rax", TRUE)
        [] OTHER -> Fail(fn)

StoreVariable(fn, name) ==
  LET local == lookupLocal(fn, name)
      global == lookupGlobal(fn, name)
  IN  CASE local # -1 -> Emit(fn, [op |-> "store", slot |-> local])
        [] local = -1 /\ global # -1 ->
             Emit(MovPatched(fn, "rcx", GlobalVector),
                  [op |-> "storeElem", ix |-> global])
        [] OTHER -> Fail(fn)

-----------------------------------------------------------------------------
(***************************************************************************)
(* Expressions.                                                            *)
(***************************************************************************)
IsForm(items, name, len) ==
  /\ Len(items) = len
  /\ items[1].kind = "symbol"
  /\ items[1].name = name

PrimAttr == [car |-> "car#", cdr |-> "cdr#"]

PrimTag ==
  [pair |-> "pair?#", symbol |-> "symbol?#", fixnum |-> "integer?#",
   closure |-> "procedure?#", vector |-> "vector?#"]

PrimSingleton == <<"true?#", "false?#", "null?#">>

Singleton(i) == <<True, False, Nil>>[i]

RECURSIVE compileExpr(_, _, _)

\* compileBody, from the item at index start.  An empty body pushes nothing.
compileBody(fn, items, start, isTail) ==
  LET statement(f, x) == popSome(compileExpr(f, x, FALSE), 1)
      before == FoldLeft(statement, fn, SubSeq(items, start, Len(items) - 1))
  IN  IF start > Len(items) THEN fn
      ELSE compileExpr(before, items[Len(items)], isTail)

compileEach(fn, items) ==
  FoldLeft(LAMBDA f, x : compileExpr(f, x, FALSE), fn, items)

\* The word read by r = rdi is checked to be a closure of the right arity
\* with the descriptor of the frame from which everything was popped.
compileCall(fn, items, isTail) ==
  LET argc == Len(items) - 1
      pushed == compileEach(fn, items)
      popped == FoldLeft(popReg, pushed,
                         Reverse(SubSeq(kArgRegsWithClosure, 1, argc + 1)))
      checked == EmitWithFrameDescr(popped, [op |-> "checkCall", argc |-> argc])
  IN  IF argc > Len(kArgRegs) THEN Fail(fn)
      ELSE IF ~isTail
      THEN pushReg(EmitWithFrameDescr(checked, [op |-> "call"]), "rax", TRUE)
      ELSE pushVirtual(
             Emit(checked, [op |-> "tailCall", slot |-> frameSize(checked) - 1,
                            n |-> frameSize(checked)]),
             TRUE)

tryDefine(fn, items) ==
  LET val == compileExpr(fn, items[3], FALSE)
  IN  IF items[2].kind # "symbol" THEN Fail(fn)
      ELSE pushObject(addNewLocal(val, items[2].name), Void)

trySete(fn, items) ==
  LET val == popReg(compileExpr(fn, items[3], FALSE), "rax")
  IN  IF items[2].kind # "symbol" THEN Fail(fn)
      ELSE pushObject(StoreVariable(val, items[2].name), Void)

\* The jumps of an if: the target of the jump at index at is bound to here.
Bind(fn, at) == [fn EXCEPT !.code[at].target = Len(fn.code) + 1]

EmitJump(fn, op) == Emit(fn, [op |-> op, target |-> 0])

\* Mutant: the branches are not balanced out.
tryIf_NotBalanced(fn, items, isTail) ==
  LET pred == popReg(compileExpr(fn, items[2], FALSE), "rax")
      test == EmitJump(pred, "jumpIfFalse")
      then == EmitJump(compileExpr(test, items[3], isTail), "jump")
      else == compileExpr(Bind(then, Len(test.code)), items[4], isTail)
  IN  IF then.ok THEN Bind(else, Len(then.code)) ELSE then

\* Mutant: the branches of an if are no tail positions.
tryIf_NotTail(fn, items, isTail) ==
  LET pred == popReg(compileExpr(fn, items[2], FALSE), "rax")
      test == EmitJump(pred, "jumpIfFalse")
      then == EmitJump(compileExpr(test, items[3], FALSE), "jump")
      balanced == popVirtual(then, 1)
      else == compileExpr(Bind(balanced, Len(test.code)), items[4], FALSE)
  IN  IF then.ok THEN Bind(else, Len(then.code)) ELSE then

tryIf(fn, items, isTail) ==
  LET pred == popReg(compileExpr(fn, items[2], FALSE), "rax")
      test == EmitJump(pred, "jumpIfFalse")
      then == EmitJump(compileExpr(test, items[3], isTail), "jump")
      balanced == popVirtual(then, 1)
      else == compileExpr(Bind(balanced, Len(test.code)), items[4], isTail)
  IN  IF then.ok THEN Bind(else, Len(then.code)) ELSE then

tryQuote(fn, items) == pushObject(fn, items[2].word)

\* Mutant: the result is not written to the slot.
tryPrimArith_NotStored(fn, items) ==
  LET operands == compileEach(fn, Tail(items))
  IN  CASE IsForm(items, "+#", 3) ->
             Emit(popReg(operands, "rax"), [op |-> "add"])
        [] IsForm(items, "-#", 3) ->
             popSome(Emit(operands, [op |-> "sub"]), 1)
        [] IsForm(items, "<#", 3) ->
             Emit(popReg(operands, "rax"), [op |-> "lt"])

\* Binary arithmetic leaves its result in the slot of the first operand.
tryPrimArith(fn, items) ==
  LET operands == compileEach(fn, Tail(items))
      top(f) == Emit(f, [op |-> "store", slot |-> 0])
  IN  CASE IsForm(items, "+#", 3) ->
             top(Emit(popReg(operands, "rax"), [op |-> "add"]))
        [] IsForm(items, "-#", 3) ->
             top(popSome(Emit(operands, [op |-> "sub"]), 1))
        [] IsForm(items, "<#", 3) ->
             top(Emit(popReg(operands, "rax"), [op |-> "lt"]))

\* allocPair: reserve collects when there is no room; fill pops cdr and car.
allocPair(fn) ==
  LET reserved == EmitWithFrameDescr(fn, [op |-> "reserve"])
  IN  pushVirtual(popVirtual(Emit(reserved, [op |-> "fill"]), 2), TRUE)

\* A primitive of one operand, which it takes from rax and replaces there.
PrimUnary(fn, items, instr) ==
  pushReg(Emit(popReg(compileExpr(fn, items[2], FALSE), "rax"), instr),
          "rax", TRUE)

PrimOutput(fn, kind) == Emit(fn, [op |-> "output", kind |-> kind])

primError(fn, items) ==
  LET operand == popReg(compileExpr(fn, items[2], FALSE), "rdi")
  IN  pushVirtual(EmitWithFrameDescr(operand, [op |-> "error"]), TRUE)

primTrace(fn, items, isTail) ==
  LET operand == popReg(compileExpr(fn, items[2], FALSE), "rdi")
  IN  compileExpr(PrimOutput(operand, "trace"), items[3], isTail)

primDisplay(fn, items) ==
  LET operand == popReg(compileExpr(fn, items[2], FALSE), "rdi")
  IN  pushObject(PrimOutput(operand, "display"), Void)

IsArith(items) == \E name \in {"+#", "-#", "<#"} : IsForm(items, name, 3)

tryPrimOp(fn, items, isTail) ==
  CASE IsArith(items) -> tryPrimArith(fn, items)
    [] IsForm(items, "cons#", 3) -> allocPair(compileEach(fn, Tail(items)))
    [] \E a \in DOMAIN PrimAttr : IsForm(items, PrimAttr[a], 2) ->
         PrimUnary(fn, items,
           [op |-> "attr",
            attr |-> CHOOSE a \in DOMAIN PrimAttr : IsForm(items, PrimAttr[a], 2)])
    [] \E t \in DOMAIN PrimTag : IsForm(items, PrimTag[t], 2) ->
         PrimUnary(fn, items,
           [op |-> "isTag",
            tag |-> CHOOSE t \in DOMAIN PrimTag : IsForm(items, PrimTag[t], 2)])
    [] \E i \in 1..3 : IsForm(items, PrimSingleton[i], 2) ->
         PrimUnary(fn, items,
           [op |-> "isWord",
            word |-> Singleton(
              CHOOSE i \in 1..3 : IsForm(items, PrimSingleton[i], 2))])
    [] IsForm(items, "trace#", 3) -> primTrace(fn, items, isTail)
    [] IsForm(items, "display#", 2) -> primDisplay(fn, items)
    [] IsForm(items, "newline#", 1) -> pushObject(PrimOutput(fn, "newline"), Void)
    [] IsForm(items, "error#", 2) -> primError(fn, items)
    [] OTHER -> compileCall(fn, items, isTail)

\* The chain of try functions; what no form matches is a call.
compileList(fn, items, isTail) ==
  CASE IsForm(items, "if", 4) -> tryIf(fn, items, isTail)
    [] IsForm(items, "define", 3) -> tryDefine(fn, items)
    [] IsForm(items, "set!", 3) -> trySete(fn, items)
    [] IsForm(items, "begin", Len(items)) -> compileBody(fn, items, 2, isTail)
    [] IsForm(items, "quote", 2) -> tryQuote(fn, items)
    [] OTHER -> tryPrimOp(fn, items, isTail)

compileExpr(fn, expr, isTail) ==
  CASE ~fn.ok -> fn
    [] fn.ok /\ expr.kind = "symbol" -> LoadVariable(fn, expr.name)
    [] fn.ok /\ expr.kind = "list" -> compileList(fn, expr.items, isTail)
    [] fn.ok /\ expr.kind = "word" ->
         IF expr.word.tag = "fixnum" \/ expr.word \in {True, False}
         THEN pushObject(fn, expr.word) ELSE Fail(fn)

-----------------------------------------------------------------------------
(***************************************************************************)
(* Functions and modules.                                                  *)
(***************************************************************************)
NewCGFunction(globals) ==
  [stackItemList |-> <<>>, locals |-> [x \in {} |-> 0], code |-> <<>>,
   ptrOffsets |-> <<>>, relocArray |-> <<>>, globals |-> globals, ok |-> TRUE]

\* The relocation loop at the end of compileFunction.
Patched(fn) ==
  LET patch(code, k) == [code EXCEPT ![fn.ptrOffsets[k]].word = fn.relocArray[k]]
  IN  FoldLeftDomain(patch, fn.code, fn.ptrOffsets)

\* A definition is [name, params, body]; option is [tailCallOpt, stackCheck].
compileFunction(defn, globals, option) ==
  LET param(f, i) ==
        addNewLocal(pushReg(f, kArgRegs[i], TRUE), defn.params[i])
      bare == pushReg(pushReg(NewCGFunction(globals), "r10", FALSE), "rdi", TRUE)
      framed == FoldLeftDomain(param, bare, defn.params)
      prologue == IF option.stackCheck
                  THEN EmitWithFrameDescr(framed, [op |-> "checkStack"])
                  ELSE framed
      body == compileBody(prologue, defn.body, 1, option.tailCallOpt)
      done == Emit(popFrame(popReg(body, "rax")), [op |-> "ret"])
      isWellFormed == Len(defn.params) <= Len(kArgRegs) /\ IsInjective(defn.params)
  IN  [instrs |-> Patched(done),
       arity  |-> Len(defn.params),
       ok     |-> isWellFormed /\ done.ok]

\* Module::addName: a name defined twice keeps its index.
addName(names, defn) ==
  IF defn.name \in ToSet(names) THEN names ELSE Append(names, defn.name)

\* genModule: names first, then the functions, each of which sees them all.
\* The value of a global is the closure of its last definition.
genModule(defns, option) ==
  LET names == FoldLeft(addName, <<>>, defns)
      last(name) == CHOOSE i \in DOMAIN defns :
                      /\ defns[i].name = name
                      /\ \A j \in (i + 1)..Len(defns) : defns[j].name # name
      compile(functions, defn) ==
        Append(functions, compileFunction(defn, names, option))
      functions == FoldLeft(compile, <<>>, defns)
  IN  [functions |-> functions,
       globals   |-> [i \in DOMAIN names |-> Pointer("closure", last(names[i]))],
       main      |-> IF "main" \in ToSet(names) THEN last("main") ELSE 0,
       ok        |-> /\ "main" \in ToSet(names)
                     /\ \A i \in DOMAIN functions : functions[i].ok]
=============================================================================
