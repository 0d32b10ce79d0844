----------------------------- MODULE MCPrograms -----------------------------
(***************************************************************************)
(* Programs for TLC.  Most are those of scheme-src/, with smaller numbers. *)
(***************************************************************************)
EXTENDS CompiledPrograms

\* Expressions.
V(name) == [kind |-> "symbol", name |-> name]
L(items) == [kind |-> "list", items |-> items]
W(word) == [kind |-> "word", word |-> word]
N(n) == W(Fixnum(n))
Op1(op, x) == L(<<V(op), x>>)
Op2(op, x, y) == L(<<V(op), x, y>>)
If(c, x, y) == L(<<V("if"), c, x, y>>)
Call0(f) == L(<<V(f)>>)
Call1(f, x) == L(<<V(f), x>>)
Call2(f, x, y) == L(<<V(f), x, y>>)
Begin(xs) == L(<<V("begin")>> \o xs)
Quote(w) == Op1("quote", W(w))
Def(name, params, body) == [name |-> name, params |-> params, body |-> body]

ASymbol == Pointer("symbol", 1)
List12 == Pointer("pair", 1)

\* The quoted list (1 2).
Quoted ==
  <<[car |-> Fixnum(1), cdr |-> Pointer("pair", 2)],
    [car |-> Fixnum(2), cdr |-> Nil]>>

Lists == \* recursion over a list that was built by a tail-recursive loop
  <<Def("main", <<>>,
      <<Op1("display#",
          Call1("sum", Call2("build", N(3), Quote(Nil))))>>),
    Def("build", <<"n", "acc">>,
      <<If(Op2("<#", V("n"), N(1)), V("acc"),
           Call2("build", Op2("-#", V("n"), N(1)), Op2("cons#", V("n"), V("acc"))))>>),
    Def("sum", <<"xs">>,
      <<If(Op1("null?#", V("xs")), N(0),
           Op2("+#", Op1("car#", V("xs")), Call1("sum", Op1("cdr#", V("xs")))))>>)>>

Locals == \* define.ss, sete.ss: locals, assignment, sequencing, tracing
  <<Def("main", <<>>,
      <<Op2("define", V("a"), N(1)),
        Op2("define", V("b"), Op2("cons#", V("a"), Quote(ASymbol))),
        Op2("set!", V("a"), Call2("swap", V("a"), V("b"))),
        Op2("define", V("b"), Begin(<<Op1("display#", V("a")), V("b")>>)),
        Op2("trace#", V("b"), Op2("cons#", V("a"), V("b")))>>),
    Def("swap", <<"x", "y">>,
      <<Op2("define", V("t"), Op2("cons#", V("y"), V("x"))),
        L(<<V("newline#")>>),
        Op2("set!", V("x"), V("t")),
        Op2("cons#", Op1("car#", V("t")), Op1("cdr#", V("x")))>>)>>

AppendLists == \* lib/bug.ss: a quoted list is shared by what is built from it
  <<Def("append", <<"xs", "ys">>,
      <<If(Op1("null?#", V("xs")), V("ys"),
           Op2("trace#", Quote(ASymbol),
             Op2("cons#", Op1("car#", V("xs")),
                 Call2("append", Op1("cdr#", V("xs")), V("ys")))))>>),
    Def("main", <<>>, <<Call2("append", Quote(List12), Quote(List12))>>)>>

Forget == \* sete.ss: the running function is dropped from the globals
  <<Def("main", <<>>,
      <<Op2("set!", V("main"), N(5)),
        Op2("cons#", N(1), N(2)),
        Op1("display#", Quote(ASymbol)),
        Op2("cons#", V("main"), V("main")),
        Call0("main")>>)>>

Mutual == \* tail calls between functions with frames of different sizes
  <<Def("main", <<>>, <<Call1("even", N(3))>>),
    Def("even", <<"n">>,
      <<If(Op2("<#", V("n"), N(1)), V("even"),
           L(<<V("odd"), Op2("-#", V("n"), N(1)), Op2("cons#", V("n"), V("n")), V("n")>>))>>),
    Def("odd", <<"n", "p", "q">>,
      <<Op2("define", V("m"), V("p")),
        If(Op2("<#", V("n"), N(1)), V("m"), Call1("even", Op2("-#", V("n"), N(1))))>>)>>

Loop == \* test-gc.ss: a loop that allocates, under frames that wait for it
  <<Def("main", <<>>, <<Call1("consume", N(1))>>),
    Def("consume", <<"n">>,
      <<If(Op2("<#", V("n"), N(0)), Call0("loop"),
           Begin(<<Call1("consume", Op2("-#", V("n"), N(1))), N(0)>>))>>),
    Def("loop", <<>>, <<Op2("cons#", N(1), N(2)), Call0("loop")>>)>>

Overflow == \* recursion that never returns, and fills the stack with words
  <<Def("main", <<>>, <<Call2("deep", N(0), Quote(ASymbol))>>),
    Def("deep", <<"n", "x">>,
      <<Op2("+#", N(1), Call2("deep", Op2("+#", V("n"), N(1)), Op2("cons#", V("n"), V("x"))))>>)>>

Hoard == \* a list that outgrows the heap
  <<Def("main", <<>>, <<Call1("hoard", Quote(Nil))>>),
    Def("hoard", <<"xs">>, <<Call1("hoard", Op2("cons#", N(1), V("xs")))>>)>>

Mismatch == \* an argument count that is wrong deep in an operand
  <<Def("main", <<>>,
      <<Op2("+#", N(1), Call1("f", Call2("f", Quote(ASymbol), N(2))))>>),
    Def("f", <<"x">>, <<V("x")>>)>>

Erring == \* prim-error-inner.ss: error# in a tail position of a loop
  <<Def("main", <<>>, <<Op2("cons#", Call1("inner", N(0)), Quote(Nil))>>),
    Def("inner", <<"n">>,
      <<If(Op2("<#", V("n"), N(1)), Call1("inner", Op2("+#", V("n"), N(1))),
           Op1("error#", Op2("cons#", V("n"), V("n"))))>>)>>

Wraps == \* fixnum arithmetic at the edge, and the type predicates
  <<Def("main", <<>>,
      <<Op1("display#", Op2("+#", N(7), N(1))),
        Op1("display#", Op2("-#", Op2("-#", N(0), N(7)), N(2))),
        Op1("display#", Op2("<#", Op2("+#", N(7), N(1)), N(0))),
        Op1("display#", Op1("pair?#", Quote(List12))),
        Op1("display#", Op1("integer?#", N(0))),
        Op1("display#", Op1("symbol?#", Quote(ASymbol))),
        Op1("display#", Op1("procedure?#", V("main"))),
        Op1("display#", Op1("vector?#", W(True))),
        Op1("display#", Op1("true?#", W(True))),
        Op1("display#", Op1("false?#", N(0)))>>)>>

Redefined == \* a name defined twice keeps the later function
  <<Def("f", <<>>, <<N(1)>>),
    Def("main", <<>>, <<Op2("cons#", Call0("f"), Call0("g"))>>),
    Def("f", <<>>, <<N(2)>>),
    Def("g", <<>>, <<Call0("f")>>)>>

\* n definitions of one local: each leaves a slot behind.
Defines(n) == [i \in 1..n |-> Op2("define", V("a"), N(i % 8))]

Widest == \* at the allocation, a bit of the pointer map for every slot
  <<Def("main", <<>>, Append(Defines(kMaxFrameSize - 4), Op2("cons#", V("a"), V("a"))))>>

TooWide == \* and here one more: an assertion stops the compiler
  <<Def("main", <<>>, Append(Defines(kMaxFrameSize - 3), Op2("cons#", V("a"), V("a"))))>>

Undescribed == \* more slots than that, but no descriptor where they are in use
  <<Def("main", <<>>, <<Op2("cons#", Call0("f"), Quote(ASymbol))>>),
    Def("f", <<>>, Append(Defines(kMaxFrameSize), Op2("+#", V("a"), N(1))))>>

\* A program and the pairs of its quoted lists.
Program(defns) == [defns |-> defns, pairs |-> [o \in {} |-> Quoted[1]]]
ProgramWithList(defns) == [defns |-> defns, pairs |-> Quoted]

MCSource ==
  [lists |-> Program(Lists), locals |-> Program(Locals),
   append |-> ProgramWithList(AppendLists), forget |-> Program(Forget),
   mutual |-> Program(Mutual), loop |-> Program(Loop),
   overflow |-> Program(Overflow), hoard |-> Program(Hoard),
   mismatch |-> Program(Mismatch), erring |-> Program(Erring),
   wraps |-> ProgramWithList(Wraps), redefined |-> Program(Redefined),
   widest |-> Program(Widest), tooWide |-> Program(TooWide),
   undescribed |-> Program(Undescribed)]

\* The compiler refuses only the frame that no descriptor can describe.
ASSUME MCPrograms_Refused ==
  DOMAIN Source \ {exe.prog.name : exe \in Executables} = DOMAIN Source \cap {"tooWide"}

\* Without either, the stack of a loop grows until the system stops it.
MCOptions ==
  {o \in [tailCallOpt : BOOLEAN, stackCheck : BOOLEAN] :
     o.tailCallOpt \/ o.stackCheck}

DefineInBranch == \* a define in the branch that is not taken
  <<Def("main", <<>>, <<Op1("display#", Call1("pick", W(False)))>>),
    Def("pick", <<"c">>,
      <<If(V("c"), Begin(<<Op2("define", V("a"), N(1)), V("a")>>), N(2))>>)>>

UnbalancedSource == [defineInBranch |-> Program(DefineInBranch)]
=============================================================================
