-------------------------- MODULE SchemeSemantics --------------------------
(***************************************************************************)
(* What a program means: an evaluator that knows nothing of stacks, frame  *)
(* descriptors, registers or collections.  It is the reference that the    *)
(* compiled code is compared with, for programs that only use define as a  *)
(* statement of a function body, and car# and cdr# on pairs.               *)
(*                                                                         *)
(* The state of an evaluation is a record: the locals of the function that *)
(* runs, the globals, the pairs, the output, the value of the expression   *)
(* evaluated last, stop ("no", or why the evaluation ended), the calls     *)
(* that are pending and the most that ever were, and the fuel: the calls   *)
(* left before the evaluation is cut short.                                *)
(***************************************************************************)
EXTENDS Words, Integers, SequencesExt

CONSTANTS
  Width,  \* bits of a fixnum
  Fuel    \* bound on the calls of one evaluation

WrapFixnum(n) ==
  LET half == 2 ^ (Width - 1)
  IN  ((n + half) % (2 * half)) - half

Returns(s, w) == [s EXCEPT !.val = w]

Stops(s, reason, w) == [s EXCEPT !.stop = reason, !.val = w]

Prints(s, kind, w) == [s EXCEPT !.out = Append(@, [kind |-> kind, datum |-> w])]

\* The structure of a datum, which no collection and no allocation changes.
RECURSIVE Datum(_, _)
Datum(w, pairs) ==
  IF w.tag = "pair"
  THEN [tag |-> "pair", car |-> Datum(pairs[w.upper].car, pairs),
        cdr |-> Datum(pairs[w.upper].cdr, pairs)]
  ELSE w

NewPair(s, car, cdr) ==
  LET o == Cardinality(DOMAIN s.pairs) + 1
  IN  [s EXCEPT !.val = Pointer("pair", o),
                !.pairs = [x \in DOMAIN @ \cup {o} |->
                             IF x = o THEN [car |-> car, cdr |-> cdr] ELSE @[x]]]

GlobalIndex(names, name) == CHOOSE i \in DOMAIN names : names[i] = name

Lookup(m, s, name) ==
  IF name \in DOMAIN s.locals THEN s.locals[name]
  ELSE s.globals[GlobalIndex(m.names, name)]

Assign(m, s, name, w) ==
  IF name \in DOMAIN s.locals
  THEN [s EXCEPT !.locals[name] = w, !.val = Void]
  ELSE [s EXCEPT !.globals[GlobalIndex(m.names, name)] = w, !.val = Void]

Define(s, name, w) ==
  [s EXCEPT !.val = Void,
            !.locals = [x \in DOMAIN @ \cup {name} |-> IF x = name THEN w ELSE @[x]]]

Unary(name, s) ==
  LET w == s.val
  IN  CASE name = "car#"        -> Returns(s, s.pairs[w.upper].car)
        [] name = "cdr#"        -> Returns(s, s.pairs[w.upper].cdr)
        [] name = "pair?#"      -> Returns(s, Bool(w.tag = "pair"))
        [] name = "symbol?#"    -> Returns(s, Bool(w.tag = "symbol"))
        [] name = "integer?#"   -> Returns(s, Bool(w.tag = "fixnum"))
        [] name = "procedure?#" -> Returns(s, Bool(w.tag = "closure"))
        [] name = "vector?#"    -> Returns(s, Bool(w.tag = "vector"))
        [] name = "true?#"      -> Returns(s, Bool(w = True))
        [] name = "false?#"     -> Returns(s, Bool(w = False))
        [] name = "null?#"      -> Returns(s, Bool(w = Nil))
        [] name = "display#"    -> Returns(Prints(s, "display", Datum(w, s.pairs)), Void)
        [] name = "error#"      -> Stops(s, "user error", w)

UnaryNames ==
  {"car#", "cdr#", "pair?#", "symbol?#", "integer?#", "procedure?#", "vector?#",
   "true?#", "false?#", "null?#", "display#", "error#"}

Binary(name, s, x, y) ==
  CASE name = "+#"    -> Returns(s, Fixnum(WrapFixnum(x.upper + y.upper)))
    [] name = "-#"    -> Returns(s, Fixnum(WrapFixnum(x.upper - y.upper)))
    [] name = "<#"    -> Returns(s, Bool(x.upper < y.upper))
    [] name = "cons#" -> NewPair(s, x, y)

BinaryNames == {"+#", "-#", "<#", "cons#"}

HeadName(items) == IF items[1].kind = "symbol" THEN items[1].name ELSE ""

RECURSIVE Eval(_, _, _, _)

EvalBody(m, items, s, isTail) ==
  LET statement(t, x) == Eval(m, x, t, FALSE)
  IN  Eval(m, items[Len(items)], FoldLeft(statement, s, Front(items)), isTail)

\* The values of items, the left one first, in the order of vals.
EvalEach(m, items, s) ==
  LET operand(t, x) ==
        LET u == Eval(m, x, t.state, FALSE)
        IN  [state |-> u, vals |-> Append(t.vals, u.val)]
  IN  FoldLeft(operand, [state |-> s, vals |-> <<>>], items)

\* A call in tail position takes the place of the call that makes it.
Apply(m, closure, args, s, isTail) ==
  LET defn == m.defns[closure.upper]
      pending == IF isTail THEN s.pending ELSE s.pending + 1
      entered ==
        [s EXCEPT !.fuel = @ - 1,
                  !.pending = pending,
                  !.most = IF pending > @ THEN pending ELSE @,
                  !.locals = [x \in ToSet(defn.params) |->
                                args[CHOOSE i \in DOMAIN args : defn.params[i] = x]]]
      left == EvalBody(m, defn.body, entered, TRUE)
  IN  IF closure.tag # "closure" THEN Stops(s, "not a closure", closure)
      ELSE IF Len(defn.params) # Len(args)
      THEN Stops(s, "argument count mismatch", closure)
      ELSE IF s.fuel = 0 THEN Stops(s, "no fuel", Void)
      ELSE [left EXCEPT !.locals = s.locals, !.pending = s.pending]

EvalCall(m, items, s, isTail) ==
  LET all == EvalEach(m, items, s)
  IN  IF all.state.stop # "no" THEN all.state
      ELSE Apply(m, all.vals[1], Tail(all.vals), all.state, isTail)

EvalIf(m, items, s, isTail) ==
  LET test == Eval(m, items[2], s, FALSE)
  IN  IF test.stop # "no" THEN test
      ELSE Eval(m, items[IF test.val # False THEN 3 ELSE 4], test, isTail)

EvalOperands(m, items, s) ==
  LET all == EvalEach(m, Tail(items), s)
  IN  IF all.state.stop # "no" THEN all.state
      ELSE IF Len(items) = 2 THEN Unary(HeadName(items), all.state)
      ELSE Binary(HeadName(items), all.state, all.vals[1], all.vals[2])

EvalTrace(m, items, s, isTail) ==
  LET traced == Eval(m, items[2], s, FALSE)
  IN  IF traced.stop # "no" THEN traced
      ELSE Eval(m, items[3],
                Prints(traced, "trace", Datum(traced.val, traced.pairs)), isTail)

EvalAssign(m, items, s) ==
  LET val == Eval(m, items[3], s, FALSE)
  IN  IF val.stop # "no" THEN val
      ELSE IF HeadName(items) = "define"
      THEN Define(val, items[2].name, val.val)
      ELSE Assign(m, val, items[2].name, val.val)

EvalList(m, items, s, isTail) ==
  LET name == HeadName(items)
  IN  CASE name = "if"                -> EvalIf(m, items, s, isTail)
        [] name \in {"define", "set!"} -> EvalAssign(m, items, s)
        [] name = "begin"             -> EvalBody(m, Tail(items), s, isTail)
        [] name = "quote"             -> Returns(s, items[2].word)
        [] name = "trace#"            -> EvalTrace(m, items, s, isTail)
        [] name = "newline#"          -> Returns(Prints(s, "newline", Void), Void)
        [] name \in UnaryNames \cup BinaryNames -> EvalOperands(m, items, s)
        [] OTHER                      -> EvalCall(m, items, s, isTail)

Eval(m, expr, s, isTail) ==
  IF s.stop # "no" THEN s
  ELSE CASE expr.kind = "word"   -> Returns(s, expr.word)
         [] expr.kind = "symbol" -> Returns(s, Lookup(m, s, expr.name))
         [] expr.kind = "list"   -> EvalList(m, expr.items, s, isTail)

\* A module is [defns, names, globals, main]; the program is a call of main.
Run(m, pairs) ==
  LET start == [locals |-> [x \in {} |-> Nil], globals |-> m.globals,
                pairs |-> pairs, out |-> <<>>, val |-> Void, stop |-> "no",
                pending |-> 0, most |-> 0, fuel |-> Fuel]
      end == Apply(m, m.globals[GlobalIndex(m.names, "main")], <<>>, start, FALSE)
  IN  [out  |-> end.out,
       stop |-> IF end.stop = "no" THEN "done" ELSE end.stop,
       val  |-> Datum(end.val, end.pairs),
       most |-> end.most]
=============================================================================
