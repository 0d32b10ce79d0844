# sanya-native in TLA+

sanya-native is a small Scheme system: a parser, a one-pass compiler to x86-64
through AsmJit, a runtime, and a semispace copying collector that finds its
roots in C++ handles, in the frames of compiled code and in the compiled code
itself. Its correctness rests on agreements between parts that never call each
other: the compiler's idea of a frame and what the pushes and pops really do,
the frame descriptors and the stack walk, the words embedded in code and the
vector that lists them, the handles and the list that links them. These
agreements are what this project models, checks with TLC and proves with TLAPS.

## The system

| part | state | operations | files |
|---|---|---|---|
| Tagged words | none | tag, untag, immediates | `object.hpp` |
| Memory manager | two spaces, allocation, limit and copy pointers, the header of each object (mark, size, forwarding address), the intern table root | `gcAlloc`, `gcAllocSlow`, `gcCollect`, `gcScavenge`, `Object::gcScavenge` | `gc.cpp`, `gc.hpp`, `object.cpp` |
| Handles | a circular doubly linked list through all live `Handle` objects | construct, destroy, assign, traversal by `gcCollect` | `gc.hpp`, `gc.cpp` |
| Compiler | per function: the virtual frame `stackItemList`, `frameSize`, `locals`, the code buffer, `ptrOffsets`, `relocArray`; per module: the name table and the global vector | `genModule`, `compileFunction`, `compileExpr` and the `try` functions, `allocPair`, `makeFrameDescr`, `syncThreadState` | `codegen2.cpp`, `codegen2.hpp` |
| Compiled code and the Scheme stack | registers, stack, global vector, the constants in the code | entry, call, tail call, return, stack check, inline allocation, primitives | what `codegen2.cpp` emits, `asmentry.s`, `main.cpp` |
| Runtime | none of its own; `lastFrameDescr`, `lastStackPtr`, `firstStackPtr` in `ThreadState` | stack walk of the collector, stack trace, error exits | `runtime.cpp`, `gc.cpp` |
| Parser | position in the text, partial lists in Handles | recursive descent | `parser.cpp` |
| Tables | growable arrays, association lists, the intern table | append, lookup, insert, `internSymbol` | `util.cpp`, `object.hpp` |

How they interact. `main` parses the program (allocating with Handles), makes
one closure per definition, puts them in the global vector, compiles each
function (allocating while it does), and enters the code of `main`. From then on
the only allocation is the inline one of `cons#`; when it finds no room it stores
the heap pointers, the stack pointer and the descriptor of its frame in
`ThreadState` and calls the collector, which scavenges the Handles, then walks
the stack from that frame down, then the intern table. A closure leads to its
function, whose embedded constants are rewritten in place. Everything runs on one
thread; what interleaves is the program with collections, which may strike at
any allocation.

What is hard: objects move, so any word that the collector does not know of is
stale after a collection; a frame is described by its compiler, long before it
exists; a tail call replaces a frame but keeps its caller's descriptor; the
global vector is only reachable through constants in code once compilation is
over; nothing tests that a copy fits in to-space. `PROJECT.json` lists these
hazards at their lines, with the properties that watch them.

## The modules

| module | models |
|---|---|
| `Words` | the tagged words of `object.hpp` |
| `ObjectGraph` | the promise of the memory manager: objects with an identity, fields that keep what was stored, and reclamation of what no root leads to; no addresses |
| `Heap` | the semispace collector with addresses, headers, forwarding, the constants in code, and the clients between collections; implements `ObjectGraph`; proved in `HeapProofs` |
| `Arena` | the promise of an allocator: a request is granted at once, after one collection, or refused; no addresses |
| `Allocation` | the two allocators of the heap, `gcAlloc` on the `ThreadState` and `allocPair` on registers, read by read and write by write; implements `Arena`; proved in `AllocationProofs` |
| `Handles` | the list of C++ roots; `HandlesProofs` proves it for any number of Handles |
| `FrameDescrs` | `FrameDescr`: the size of a frame and the map of its pointers, bit by bit in signed chars |
| `Codegen` | the compiler, as operators from an expression to instructions |
| `Machine` | compiled code at run time: one action per instruction, with the stack, collections, error exits and the two stack walks; proved in `MachineProofs` |
| `VerifiedCode` | a judgement on compiled functions, one by one, as a bytecode verifier would make it, and the inductive invariant of a `Machine` that runs such code |
| `Relocations` | the words of unfinished code in `relocArray`, the places in `ptrOffsets`, and the end of `compileFunction` that puts them together, with collections in between; proved in `RelocationProofs` |
| `SchemeSemantics` | a reference evaluator that knows nothing of stacks and collections |
| `CompiledPrograms` | the composition: what `Codegen` makes of a program, run by `Machine`, compared with `SchemeSemantics` |
| `Names` | the promise of interning and of a module's name table: indices that stay, values that are the latest |
| `NameTable` | symbols, association lists, growable arrays and `Module`, from one allocation to the next; implements `Names`; proved in `NameTableProofs` |
| `Parser` | the recursive descent, one step per call or return; proved in `ParserProofs` |
| `ParserChecked` | a grammar, and the characters of a datum, to compare the parser with |
| `ParserMemory` | the same steps with what they do to memory: pairs, the Handles of each call, the word that `parse` returns; proved in `ParserMemoryProofs` |
| `ParserDisplay` | `displayDetail`, walking the lists in memory, of what was read |
| `MCHeap`, `MCHandles`, `MCAllocation`, `MCPrograms`, `MCVerifiedCode`, `MCRelocations`, `MCNameTable`, `MCParser` | instances for TLC |

### Heap

An address counts 16-byte units, the alignment of every object; sizes are those
of the code, header included. The recursion of `gcScavenge` is explicit: `work`
holds the locations still to be scavenged in the order in which the recursion
reaches them, and each step of the collector is one call of `gcScavenge`:
`ScavengeSkip` (not a heap word, or already in to-space), `ScavengeForward`
(marked) and `ScavengeCopy`. `AllocFast` is `gcAlloc`; `AllocSlow`, `Flip`,
`AllocRetry` and `Exit` are the pieces of `gcAllocSlow` and `gcCollect` around
the scavenging. The clients (compiler, runtime and program) hold words in roots;
they allocate, copy a word, load and store a field, and link a compiled function
to its closure (`"function"` requests: the allocation of the vector of offsets
at the end of `compileFunction`, after which the constants are patched). Each
object carries an identity `oid` that no code reads: with it the refinement
mapping turns addresses into identities. After `Flip` the old space is dropped,
so a read of it would be an error of evaluation, not a silent success.

### Allocation

`Heap` has one heap pointer and one test. The program has two: `gcAlloc`
advances the pointer of the `ThreadState` before it tests, `gcAllocSlow` takes the
advance back, and compiled code works on copies in `r12` and `r13` that are made
on entry, stored before a collection and loaded after it, with the new pointer
waiting in `rcx`. `Allocation` has these as steps of their own; what a collection
keeps is any amount that was in use, since `Heap` shows what it keeps.
`objects` is what was made since then. That both work as one allocator is the
refinement of `Arena`, whose `used` is the pointer that counts: `r12` while Scheme
runs, that of the `ThreadState` in C++ and between a collection and the reload, and
the latter less the request between `gcAlloc` and `gcAllocSlow`.

### Codegen and Machine

A `CGFunction` is a record, and every compiler method an operator from such a
record to the next: the virtual frame, the locals and their distance from the
top, the code so far, and the two arrays that patch it. Every instruction
carries `depth`, the frame size the compiler assumed at that point, and, where
the code makes a `FrameDescr`, the descriptor. An instruction stands for the
group of machine instructions that one C++ statement sequence emits. In
`Machine` a slot holds a Scheme word, a return address, a packed descriptor or
garbage. A collection walks the stack exactly as `gcScavengeSchemeStack` does;
a word that the collector fails to update is not kept by luck but becomes
`Stale`, in slots, globals and in the code of functions that are not reached;
registers become junk. Since other objects share the heap, a collection may
happen at any allocation, and the heap is exhausted when `HeapPairs` pairs
survive. `SANYA_TCO` and `SANYA_STACKCHECK` are the two options.

A descriptor is the packed one: `makeFrameDescr` sets bits in signed chars and the
walk reads them back with an arithmetic shift. `kMapBytes` is 6 in the code, which
describes 48 slots; the assertion that a frame has no more is `kMaxFrameSize`.

`Add`, `Sub` and `Lt` compute with whole words, tag and all, modulo 2 to the number of
their bits (`AsInteger`, `AsWord`), and `Add` and `Sub` correct the tag as `tryPrimOp`
does. A result with another tag would be garbage. They take fixnums: what the code
makes of other words is not modelled, and the machine is stuck there, as at `car#` of
anything but a pair.

### Relocations

An instruction loads an object or nothing from the heap. `Emit` puts it in the
assembler's buffer with a zero; `todo` has the calls that are still to be made for
it, in the order of the code: `recordLastPtrOffset` before `recordReloc` for a
global, after it for a quoted datum, `pushVirtual` last. Each of them may allocate,
`arrayAppend` when the capacity (0, 1, 3, 7 and so on) is used up. A word is
an object and the space in which it was right, so that a word that no collection
updates is seen to be stale even when the object is back in the same space later:
the collector updates only what points to the space it leaves. `Finish` is the
end of `compileFunction`, whose only allocation is at its beginning.

### NameTable

A step runs from one allocation to the next, as a collection can only happen
there. `local` has the Handles of the running functions, by their names in the
code; a collection reclaims every object that no Handle leads to, and the next
object may take its identity. Objects keep their identity when they move: that a
word in a Handle is updated is the business of `Heap` and `Handles`. A caller
interns two spellings, as `test-gc.cpp` does, and calls `addName` with the two
symbols; `getRoot` may come at any time and ends the additions, as in
`genModule`. `assocInsert` looks for the key a second time: that it does not
find it is a guard, and `CallsReturn` would fail if it did.

### Parser

The stack of `Parser` holds the waiting calls of `parseProg`, `parseList` and
`parseQuote`; a loop over the characters of one token is one step. Data are
values, symbols and numbers the characters they were read from. A failed `assert`
is the state `"aborted"`, since the build does not define `NDEBUG`. `val` of
`parseFixnum` has a value of its own, `Unread`, when it was never assigned.
Closing brackets where a datum should begin are read as symbols, as the code
does; the grammar says nothing of such texts, `NothingLost` does.
`parseProg` never reports failure through its argument: every refusal is an
assertion, so `"rejected"` is not reached.

`ParserMemory` conjoins to each step of `Parser` what it does to memory, so every
behaviour of `Parser` is one of `ParserMemory` and the data of the one say what the
pairs of the other should hold. Each call has its `head` and `tail`; what `parse`
returns is a bare word until the caller has put it in a Handle (`held`), and no
allocation comes between. A collection moves all live pairs to the other parity
of addresses, so that a stale address never names a pair by luck. Fixnums have
`WordBits` bits, and `newFixnum` shifts the tag in at the cost of the upper bits.
`ParserDisplay` follows the words of the finished program; its operators are recursive,
so it is a module of its own, for TLC only.

## The runs

| run | bounds | shows |
|---|---|---|
| `heap_pairs` | 5 units a space, so two pairs and a remainder; 2 handles and the intern table; 2 identities | layout, no dangling word, exhaustion only when really full, refinement of `ObjectGraph`, termination of collections, with sharing and cycles |
| `heap_code` | 6 units a space, so a closure, its offsets and its name; 1 function, 3 identities | the same for words inside code, scanned through a vector that moves |
| `handles` | 4 cells | the list stays linked through exactly the live Handles in order; no Handle is missed; scans end |
| `allocation` | 7 units a space, pairs of 2 units and objects of 2, 3 and 8 | objects of both allocators lie apart and within the space in use; refinement of `Arena` |
| `programs` | 15 programs, 3 option settings, stack of 24 slots, 5 pairs, 4-bit fixnums, 12 calls of fuel, frames of at most 16 slots in a descriptor | below |
| `verified_code` | 11 of these programs, 3 option settings, 4 pairs, the rest as above | the code passes the judgement that the proofs assume; the inductive invariant of the proofs |
| `relocations` | 2 functions, of up to 4 and up to 2 instructions, each of which loads the global vector, a datum or nothing | the code of finished functions has the addresses that objects have now |
| `name_table` | 3 spellings, 2 of them as values, 3 calls of `addName` | nothing that is used is reclaimed, symbols are interned once, refinement of `Names`, calls return |
| `parser` | all texts of at most 4 characters over 12 classes; of at most 5 over brackets, a quote, an atom, a digit and a blank; of at most 6 over brackets and a quote; 7 longer ones with all kinds of data; words of 12 bits | texts the grammar knows are read as it reads them; an accepted text is read exactly once; reading ends; the list of each call holds what was read for it, wherever collections fall; what was read is displayed as a text that reads as the same data |
| `gc_while_compiling` | as `relocations` | a violation, see Findings |
| `end_of_text` | 2 texts | a violation, see Findings |
| `define_in_branch` | 1 program | a violation, see Findings |

Two pairs are the least that can be shared and cyclic; the spaces are so small
that every run collects again and again, with requests that just fit and
requests that just do not. Four Handles allow removal at both ends and in the
middle with another one alive beside it. The programs cover every form of the language and every
instruction, recursion over lists, mutual tail calls between frames of different
sizes, assignment of globals (also of the running function), shadowing, quoted
constants, redefinition, overflow of stack, heap and fixnums, and all four
error exits. 24 slots are three or four frames of these programs. Two bytes of
pointer map make 16 slots the limit; three programs have a frame of just 16 slots at
an allocation, of 17 there, which the compiler refuses, and of more where no
descriptor is made. Both bytes of the map and both sign bits are then in use.
Seven units hold three pairs and a remainder, or fit pairs and a larger object
exactly, and 8 units never fit. Four instructions let each array grow three times
(from 0, 1 and 3), before and after the other one; a second function is
compiled while the first one is finished code. Twelve bits leave a sign and
seven bits to a literal, so three digits are enough to pass them.
Three names let the array grow from 0 to 1 to 3 elements, with room left after
the second growth, and leave a definition for each way of defining a name again.
Four characters over all classes bring every pair and triple of tokens together
at every end of the text; six with brackets and quotes nest three deep.

`programs` checks that each instruction finds the frame it was compiled for
(`FrameAsCompiled`), that the stack walk visits exactly the slots with Scheme
words and ends at the entry frame (`WalkIsExact`), that a stack trace names the
pending calls (`TraceNamesPendingCalls`), that no reachable word is ever stale
(`NoStaleWord`), that the stack check bounds the stack
(`StackIsBounded`), that output, value and error are those of the
reference evaluator wherever collections fall (`AgreesWithMeaning`), that tail
calls take no stack (`TailCallsAreProper`), and that what should end ends
(`Ends`).

Fairness. There is one thread. `WF(Collector)`, `WF(ScanOne \/ EndScan)` and
`WF(Next)` of `Machine` say no more than that it goes on running; nothing is
assumed of the clients of the heap. The same holds of `WF(Next)` of `NameTable`
and `Parser`; of `Relocations` it is only used to refute. Deadlock is checked
except in the heap runs, where a client may have used up the identities, in
`allocation`, where the program returns or the heap is exhausted, in `name_table`,
where a caller may have called `getRoot`, and for the parser and in `relocations`,
which stop.

## What is proved

`HandlesProofs`, from the assumption that the head is none of the cells: for any
number of Handles and any order of construction, assignment and destruction, the
list links exactly the live Handles in order of construction
(`RingStaysInOrder`), `gcCollect` never stands on a dead one (`Typing`) and
misses none (`NoHandleMissed`). The invariants become inductive with two more
facts: construction orders the live Handles totally (`OlderIsOrder`), and within
a scan the Handles updated so far are exactly those before the current one
(`ScanIsInOrder`). The order is needed because without it a second cycle of
links, unreachable from the head, would satisfy all local conditions.

`HeapProofs`, from the assumptions of
`Heap` on its constants (a heap of at least one unit, distinct roots with the
intern table among them, well-formed requests): for any heap size, roots,
functions and requests, no object overlaps another or leaves its space
(`NoOverlap`), and no root, field or word in code ever names a place where no
object with that tag is (`NothingDangles`), during collections too. None of these
invariants is inductive; `IInv` adds

- `WordsOK`: the only words that are not plain are those of a vector of constant
  offsets, which only the second word of a function's code points to. Without it
  `ScavengeConsts` could read offsets that are none.
- `Marks`: a marked object is in from-space and its copy, in to-space, is of the
  same kind. Words stay in order when a heap only grows by objects of the same
  kind, so a lemma each about a field and a word of code that is overwritten
  covers stores, forwarding and copying.
- `Room`: `heapCopyPtr` has advanced by exactly the number of units of from-space
  that marked objects occupy. An object that is not marked occupies other units
  of it, so there is room for its copy: that is why `gcScavenge` need not test.
- `WorkOK`: a root, a field in to-space or a word in the code of a closure in
  to-space points into to-space or is covered by the pending work; the work names
  only locations that exist. When the work is empty, `Flip` gives nothing up that
  is still named.
- `RequestOK`: the words that an interrupted allocation needs are still in the
  roots when it is retried.

The module states `IInv`, proves what writes preserve and has a lemma for each
action of the clients, then of the collector.

The same module, from the same assumptions: `Heap` implements `ObjectGraph`
(`GraphImplementation`). In the graph an object is stood for by its original until
that is marked and by its copy from then on, and a word by the identity of the object
it points to. On top of `IInv` the mapping needs `Identities`: no two unmarked objects
share an identity, and a copy has its original's (`IdentitiesKept`). Then

- what forwarding and copying write has the name of what it replaces, and the copy's
  node is that of the original, so no scavenging step is seen (`ForwardUnseen`,
  `CopyUnseen`);
- `Flip` is `Reclaim`: what is kept are the identities in to-space, and `WorkOK`
  with no work left says that no root and nothing kept leads out of them
  (`FlipReclaims`);
- an allocation is `New`, at once or after a collection (`ObjectIsNew`); the end of a
  compilation is a `New` that changes the closure's node too, and no other node,
  since no other object has the function (`FunctionIsNew`);
- `Put`, `Load`, `Store` and the exit are the actions of the same names.

It also proves that a heap is only reported exhausted when it is full
(`FullWhenExhausted`). Call a set of objects enclosing if the roots lead into it and
its objects lead nowhere else, a marked original leading to its copy. While a
collection runs every enclosing set holds every copy (`NoGarbage`): a set that
encloses the heap after a step, with the originals of the copies in it, enclosed it
before, and what leads to a new copy is a root or a copy itself. For the words of
code that needs `TracedWork`: what is still to be visited belongs to a closure that
was copied. After the flip every object left is therefore in every closed set. There
are no holes below the allocation pointer (`Tiled`), so its units are those of the
objects, and with the failed test they exceed the space.

`RelocationProofs`, from the assumptions of `Relocations` on its constants, for any
functions of any length: finished code is current (`CodeCurrent`). `CodeIsCurrent`
is inductive only together with what holds of a function under compilation:
`relocArray` and `ptrOffsets` differ in length by at most the entry that is due
(`InStep`), their entries at one index are the place of an instruction and the
current address of what it loads (`Matched`), every instruction that loads an
object has such a place or is about to get one (`NoneForgotten`), and nothing is
left over from one function to the next (`Orderly`).

`MachineProofs`, for any executables, stack limit, heap
size and width of fixnums: compiled code runs in the frames it was compiled for
(`FramesAreAsCompiled`), the stack walk is exact (`WalksAreExact`), a stack trace
names the pending calls (`TracesNamePendingCalls`), no word is stale
(`NoWordIsStale`), the stack is bounded (`StackStaysBounded`) and the variables
have their types (`MachineTyped`).

They rest on `CodeAssumption`: every function of an executable passes the judgement
`Verified` of `VerifiedCode`. It looks at one instruction at a time and its
neighbours, knows nothing of runs, and says what the virtual frame of
`codegen2.cpp` is kept for: depths add up along the code and agree where jumps
arrive, the saved descriptor and the closure are pushed first and stay, a
descriptor maps every slot but one, an instruction finds a Scheme word where it
takes one, what a call or an access to a global needs comes right before it, and
words refer to what the executable has. TLC evaluates it on everything that
`Codegen` makes of the programs of `verified_code`; that `Codegen` makes nothing
else of any program would be an induction on expressions, which is out of reach.
The code of `define_in_branch` does not pass.

None of the six properties is inductive. `IInv` adds what a step relies on:

- `FramesOK`: frames lie above each other, each with the return address, the saved
  descriptor and the closure at its bottom; a frame that is not the top one waits at
  a call instruction, with the return address behind it and that instruction's
  descriptor in the frame above; every slot above a closure holds a Scheme word. A
  tail call keeps it because the frame that it drops and the one that takes its place
  start at the same height. While the first two instructions run, and before the
  last, the top frame has no head: `HasHead` and `Saved` say where it is then.
- `RegistersOK`: where `HoldsWord` follows a word to a register in the code, there
  is one in the run; so no push or store leaves garbage where the walk expects a word.
- `Sound`: a word refers to a pair that is there, to a function that every collection
  has reached (`Intact`), or to the global vector with its elements up to date. The
  global vector lives through the code of functions only, so all that is sound is
  what the running function and the frames lead to, and that is what must be shown to
  be kept.
- `HeightOK`: every frame but the top one starts below the limit, and the top one too
  once it is past the check; `Prepared`: what the instruction before has seen to.

There is a lemma for each instruction but a collection. Those of `Add` and `Sub` need
that tags cancel for any width of words (`TagsCancel`): the result is a fixnum, that of
the operands give or take whole turns. For a collection, the module
shows that the walk finds exactly the frames (`WalkFindsFrames`), by
`FramesOK` and from the bottom up; that slots lie in frames (`SlotsAreInFrames`), so
that the walk starts from every Scheme word; that what is reached from there is closed
under references (`ReachedIsClosed`), since every step of `Reached` that adds
something adds a pair, a function or the global vector and there are no more of them
than steps; and that memory without the rest is as sound as before (`CollectKeeps`).
The recursive functions `FramesFrom` and `Reached` are unfolded by a theorem that
there is a function that satisfies the recursion; its proof takes the least argument
up to which there were none, with the well-founded order on the naturals.

`AllocationProofs`, from the assumption that sizes are positive and a pair's is among
them: no two objects overlap or leave their space (`NoOverlap`), and `Allocation`
implements `Arena` (`Implementation`): the initial state maps to Arena's and each
step to a step or a stutter. The invariant says which register or field is good
when (`LimitInRegister`), and why an interrupted request is one that did not fit
(`InProgress`), which `Arena` asks for before it lets anything go away.

`NameTableProofs`, from the assumptions that values are spellings and that the bound
on calls is a number, for any spellings and any number of calls of `addName`: nothing
that is used was reclaimed (`NothingReclaimed`), symbols are interned once
(`SymbolsInternedOnce`), the variables have their types (`NameTableTyped`), and
`NameTable` implements `Names` (`NameTableImplementsNames`). The invariant `IInv`
says that there are sequences `T` and `A` of objects which are the pairs of the intern
table and of the module's list (`IsAssoc`: no pair twice, an entry in each, `Nil` after
the last; a list that ran into itself would never be searched to its end). With them
a property of lists is one of indices:

- `InternOK`: no two keys of `T` are spelled the same. `internSymbol` may add one since
  the search before found none, and the new symbol was in a Handle all the time.
- `NamesOK`: the keys of `A` are among those of `T`, so they differ in their spelling if
  they differ at all; entry i of n holds the index n - i; the elements of the array are
  symbols of `T` too, one for each name, and one more between `arrayAppend` and the end
  of `addName`.
- `CallOK` and `TrimOK`: what each running function has in its Handles, and that the
  name that is being added is not among the keys of `A`.
- `ArrayOK`: the vector of the array is not the root's, so writing an element leaves
  the lists alone.

`LedTo` and `Entries` are recursive functions. That they equal their bodies is proved
by giving a function that does: for `LedTo` the least closed set (`LedToUnfolds`), for
`Entries` one up to each length (`EntriesUnfold`). So what a collection keeps is closed
under pointers (`KeptIsClosed`), which is all that is needed of it: an allocation keeps
every pair of `T` and `A` with its entry and symbol (`TablesCarried`). For the
refinement, each step either leaves the spellings of names and values as they were
(`SameView`), rewrites one value (`Redefined`) or adds a name (`Extended`), and these
are what `Define` does (`StepsAreOfNames`).

`ParserProofs`, from the assumption that texts are sequences of characters (`",@"` is
two), for texts of any length: the variables have their types, and calls and data are
nested no deeper than the text allows (`TypeCorrect`, which states `TypeOK` and `Types`
below), an accepted text is read once from end to end (`NothingIsLost`), and a text that
the grammar can read, and that ends in a blank, is read as the grammar reads it
(`GrammarIsRead`). The sets of data are built up by levels of nesting, and the
invariants are:

- `Types`: what waiting calls have collected, and what is returned, is nested at most
  `Depth` deep, the characters read less the calls that wait for them. Each call
  reads a character before it calls `parse`.
- `AllWritten`: what the waiting calls were read from and the datum that is on its way
  back are written with exactly the characters before `ix` that are no blanks. The
  exception (`Counts`) is a number that the end of the text cuts off: its value was
  never assigned, and the program then ends in an assertion. Only a quote makes a list
  that begins with the symbol of a mark, so its display is never ambiguous (`NoMarks`).
- `Follows`: a reading of the text is being carried out (`Plan`). Each waiting call has
  a sequence of data that it is still to be given and a position where they end; the
  first of them is what the call above it is making: for `parseList` the list of its
  elements and of what it is still to be given, which ends before a bracket that closes
  it, and after which the rest follows (`Awaits`). What the innermost call is to be
  given is a reading of the text from `ix` on, or begins with the datum that is being
  returned (`Given`). A step keeps the plan because a character begins only one kind of
  datum: a span that begins with a token is read as that token only, and as no shorter
  one, since what follows it would belong to it (`NumberRead`, `AtomRead`), and no
  reading begins with a closing bracket (`ClosesBeginNothing`). The last character is a
  blank, so no token and no list ends there, and `parse` is never called at the end.

No grammar is known to be unambiguous beforehand: that two readings of a text are equal
follows, since the parser gives only one result. The recursive functions of
`ParserChecked` are unfolded, as in the other modules, by giving a function that
satisfies the recursion.

`ParserMemoryProofs`, from the same assumption, for texts of
any length and words of any width: wherever collections fall, memory holds the data
that were read (`DataInMemory`), and every behaviour of `ParserMemory` is one of
`Parser` (`MemoryIsParser`), so that what `ParserProofs` says holds of it too.
`MemoryHoldsData` alone is not inductive: it does not say that a write to the last pair
of one list leaves the others as they were. The invariant `InMemory` divides the pairs
that the Handles lead to:

- `q` are the pairs of data that some call has returned. They lead to each other only,
  and no step writes them: a datum in `q` stays what it is.
- Each waiting call has a sequence of pairs of its own (`Built`), all different, none in
  `q` and none another call's (`AllBuilt`). Their elements stand for what `Parser` says
  the call has read, each leads to the next, and `head` and `tail` are the ends. So the
  assignment to `tail`'s cdr changes the list it should and no other (`LinkedBuilt`).
  When the call returns, its pairs join `q` (`ReturnsBuilt`).
- The word that `parse` returned stands for the datum in `q`. It is a bare word, and
  the steps say that no allocation comes before it is in a Handle.

A collection keeps all this (`CollectedIsBuilt`): what the Handles lead to is closed
under references (`LiveIsClosed`), since every round of `Live` but the last finds
another pair and there are as many rounds as pairs; live pairs get different places
(`PlacesApart`); and what is live stands for the same datum after it was moved
(`WordsMoved`). That is an induction on the levels of nesting and, within a list, from
its first pair on. What stands for a list is said by its pairs at once (`WordsOfList`),
not by the recursion of `ListWords`.

Only model-checked: liveness (`CollectionEnds`, `ScanEnds`, `CallsReturn`, `Ends`), which
is out of the prover's reach; that `Machine` computes what `SchemeSemantics` says and
takes tail calls in constant space (`AgreesWithMeaning`, `TailCallsAreProper`), that the
operators of `Codegen` emit code that passes the judgement, and that what was read is
displayed as a text that reads as the same data (`DisplayReadsBack`): what these three
compare is computed by recursive operators on expressions and data.

## Findings

`end_of_text`: `parseProg` (`parser.cpp:20`) calls `parse` until it reports that
no datum is left, but `parse` asserts at `parser.cpp:42` that there is text left.
A program that ends with its last datum, with no newline after it, is read
completely and then aborts. All files in `scheme-src` end with a newline.

`define_in_branch`: `codegen2.cpp:571` balances the branches of an `if` by
popping one virtual slot, but a branch with a `define` in it leaves two. The
other branch is then compiled for a frame that is one slot too deep.

`gc_while_compiling`: the comment at `codegen2.hpp:110` says that there cannot be a
collection while a function is compiled. There can: every slot that is pushed on
the virtual frame is a pair. The program is right all the same, because of
`relocArray`; `relocations` shows it, and `RelocationProofs` for any functions.

## Not modelled

- Log lines, environment variables, and the display of what the parser does not
  make (closures, vectors, unknown words): no state depends on them.
- What unsafe primitives do to words of the wrong type (`car#` of a fixnum reads
  whatever is there, `+#` of a pair makes another address), and the alignment of the stack at calls into C++: below the
  words and slots of the models.
- A `define` as an operand: what it should mean is said nowhere, and the calling
  sequence then takes the wrong slots.
- C++ allocation after the program has returned, when `heapPtr` of the
  `ThreadState` is out of date: `main` does none.
- `assocLength` and negative indices of `arrayAt`, which nothing uses; `newVector`
  filled with a heap word, which no caller does.
- `dict.hpp`, which nothing includes and which would not compile; the
  `kSanyaGCDebug` build, which gets a new to-space for each collection; AsmJit,
  which is taken to be an append-only buffer with labels; Valgrind.

## Plan

Every part named above that has a state is modelled, and every safety invariant that
does not compare the results of recursive operators is proved. What could be added: a
judgement on source expressions under which `Codegen` provably emits verified code,
once recursive operators and induction over expressions are within the provers' reach.
