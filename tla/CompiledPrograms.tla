-------------------------- MODULE CompiledPrograms --------------------------
(***************************************************************************)
(* The compiler and the machine together: the code that genModule makes of *)
(* a program, run with collections at any allocation, and compared with    *)
(* what the program means.                                                 *)
(***************************************************************************)
EXTENDS Machine, Codegen, SchemeSemantics

CONSTANTS
  Source,  \* program -> its definitions and the pairs of its quoted lists
  Options  \* settings of SANYA_TCO and SANYA_STACKCHECK

\* The program, its option and its meaning, and what it is compiled to.
Executable(p, option) ==
  LET defns == Source[p].defns
      module == genModule(defns, option)
      names == FoldLeft(addName, <<>>, defns)
  IN  [prog |-> [name |-> p, option |-> option,
                 meaning |-> Run([defns |-> defns, names |-> names,
                                  globals |-> module.globals], Source[p].pairs)],
       pairs |-> Source[p].pairs] @@ module

CompiledExecutables ==
  LET all == {Executable(p, option) : p \in DOMAIN Source, option \in Options}
  IN  {exe \in all : exe.ok}

ASSUME CompiledAssumption ==
  Executables = CompiledExecutables /\ Width = FixnumBits

Expected == prog.meaning

\* A resource limit, of which the meaning of a program knows nothing.
OutOfResources == {"heap exhausted", "stack overflow"}

\* The program does what its source says: each word it prints, the value of
\* main, and the error it stops with and the word that error is about, no
\* matter where collections fall, with and without tail calls.
AgreesWithMeaning ==
  /\ At("output") =>
       /\ printed < Len(Expected.out)
       /\ Instr.kind = Expected.out[printed + 1].kind
       /\ Instr.kind # "newline" =>
            Datum(regs["rdi"], heap) = Expected.out[printed + 1].datum
  /\ status \notin {"running"} \cup OutOfResources =>
       /\ status = Expected.stop
       /\ printed = Len(Expected.out)
       /\ Datum(regs[IF status = "done" THEN "rax" ELSE "rdi"], heap) = Expected.val

\* With tail calls, no more calls are pending than the source calls for: a
\* loop written as a tail call runs in the frame of its first call.
TailCallsAreProper ==
  prog.option.tailCallOpt => Len(calls) <= Expected.most

\* A program whose evaluation ends comes to an end; one that recurses for
\* ever, and not by tail calls, is stopped by the stack check.
Ends ==
  \/ Expected.stop # "no fuel"
  \/ prog.option.stackCheck /\ (Expected.most = Fuel \/ ~prog.option.tailCallOpt)
  ~> status # "running"
=============================================================================
