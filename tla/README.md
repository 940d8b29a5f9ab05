# Verification of the Lama bytecode interpreter and its runtime

This directory holds TLA+ models of the program in `src/`: an interpreter of
Lama bytecode (`Interpreter.cpp`, `ByteFile.cpp`) on top of the Lama runtime
(`runtime/runtime.c`) with its mark-and-compact collector (`runtime/gc.c`). TLC
checks them on small instances; TLAPS proves what is said under *Proofs*.

## The system

The program is sequential. What makes it hard is memory: one array of words, the
virtual stack, is shared by the interpreter, by C functions that are switched on
to it (`Barray_.s`, `Bsexp_.s`, `Bclosure_.s`) and by the collector, which finds
its roots there; objects move, and so does the whole heap; and the collector
keeps its queue and its tables inside the objects it is collecting.

| Component | State | Operations | Interacts with |
|---|---|---|---|
| Mark phase (`gc.c:225-256, 485-560`) | flags and forward addresses in the headers, two queue iterators | `mark`, the three root loops | stack, global area, extra roots |
| Compaction (`gc.c:258-477`) | heap chunk, forward addresses, every word that holds a pointer | `compute_locations`, `mremap`, `update_references`, `physically_relocate` | kernel, mark phase |
| Allocation and extra roots (`gc.c:51-66, 175-223, 598-620`, `runtime.c`) | `heap`, `extra_roots` | `alloc`, `gc_alloc`, `push_extra_root`, `Bstring`, `Lstring`, `Barray`, `Bsexp`, `Bclosure` | interpreter, collector |
| Library functions that allocate (`runtime.c:86-93, 436-539, 685-694, 1005-1031`) | their parameters on the C stack | `Lclone`, `Lsubstring`, `++`, `LmakeArray`, `:` | allocation, extra roots |
| Instructions (`Interpreter.cpp:365-703`) | operands, variables, instruction pointer | one per opcode | stack, allocation, pattern tests of `runtime.c` |
| Virtual stack and frames (`Interpreter.cpp:132-293`) | `data`, `frame`, `frameStack`, `nextReturnAddress`, `nextIsClosure` | push, pop, `beginFunction`, `endFunction`, `accessLocal`, `accessArg` | instructions, collector (`__gc_stack_top`) |
| Loader (`ByteFile.cpp`) | string table, code, instruction pointer | `init`, `getAddressFor`, `getStringAt`, `readByte`, `readWord` | instructions |
| Numbers (`Value.h`, `runtime_common.h`) | none | boxing, binary operators, functional synonyms | instructions |
| Strings (`runtime.c:251-436`) | `stringBuf` | `createStringBuf`, `extendStringBuf`, `vprintStringBuf`, `printValue`, `stringcat` | `Lstring`, allocation |
| Tags (`runtime.c:209-249`) | the static buffer of `de_hash` | `LtagHash`, `de_hash` | SEXP, TAG |
| Comparison, hashing (`runtime.c:540-667`) | none | `Lcompare`, `LflatCompare`, `LcompareTags`, `Lhash` | collector, which moves what they compare |

What makes each correct:

* mark phase: it marks what is reachable and nothing else, terminates on cyclic
  graphs, and its queue, which has no memory of its own, never runs past the heap;
* compaction: afterwards every root and field denotes the object it denoted
  before, although objects and possibly the heap have moved; each word is fixed
  once; there is room for the request;
* allocation: every call finds a heap that a collection can start from, whatever
  the instruction has left on the stack, and the values the program computes with
  do not depend on collections;
* library functions: what they build is built of the objects that were their
  arguments, although a collection between has moved these;
* instructions: together with frames and collector they compute what bytecode means,
  and fail where that has no meaning;
* frames: activations do not disturb each other, END restores its caller exactly,
  and nothing is written outside the two arrays;
* loader: whatever the header says, instructions are read from the code;
* numbers: what is computed on words and boxed is arithmetic modulo 2^31, without a
  trap; the synonyms agree with the operators;
* strings: no text is lost when the buffer grows, whatever is printed when;
* tags: constructors have one tag if and only if they agree in what counts;
* comparison: a linear order whose zero is equality of structures, which agrees with
  the hash and does not depend on where objects are.

The hazards behind these properties are listed one by one, with their lines, in
`PROJECT.json`.

## Modules

| Module | Models |
|---|---|
| `GcMemory` | the memory of the collector: headers, sizes, iterators over the heap, validity of pointers; reachability; what a well-formed heap is |
| `GcMark` | `mark_phase`, one action per turn of a loop; its properties and inductive invariant |
| `GcMarkProofs` | proofs about `GcMark` |
| `GcCompact` | `compact_phase`, one action per turn of a loop, and the choices of `mremap` |
| `GcCollect` | a whole collection (`gc_alloc`), composed of the two, with the dumps that `FULL_INVARIANT_CHECKS` compares; its inductive invariant |
| `GcCollectProofs` | proofs about `GcCollect` |
| `ObjectStore` | graphs of objects without addresses, for the abstract modules |
| `ObjectGraph` | abstract: values, globals and a graph of objects, without addresses and collections |
| `GcMutator` | instructions and allocating runtime functions, composed with both phases of the collector |
| `GcRefinement` | `GcMutator` implements `ObjectGraph`; the inductive invariants of the mutator and of the refinement |
| `ObjectLibrary` | abstract: `ObjectGraph` with the functions of the library as single steps |
| `GcLibrary` | the library functions that allocate, on the memory of `GcMutator`; implements `ObjectLibrary` |
| `GcMutatorProofs` | proofs about `GcMutator` and `GcLibrary` |
| `GraphRefinementProofs` | proofs that `GcMutator` implements `ObjectGraph`, and `GcLibrary` `ObjectLibrary` |
| `ActivationStack` | abstract: a stack of activations that are separate records |
| `FrameStack` | `struct Stack`: frames in one array of words |
| `FrameRefinement` | `FrameStack` implements `ActivationStack` |
| `FrameProofs` | proofs about `FrameStack`, and of the refinement |
| `LamaSemantics` | abstract: what bytecode means, on activations that are records and objects without addresses |
| `LamaMachine` | the interpreter: every opcode, on the frames and the memory of `GcMutator`, with the collector |
| `LamaRefinement` | `LamaMachine` implements `LamaSemantics` |
| `LamaNumbers` | words, boxing and the operators on them, for any width |
| `Arithmetic` | one instruction that computes with numbers, and the functional synonyms |
| `ArithmeticProofs` | proofs about `Arithmetic` |
| `ByteFile` | the loader, and reading instructions and strings from the file |
| `ByteFileProofs` | proofs about `ByteFile` |
| `TagHash` | two calls of `LtagHash` with the loops of `de_hash`; their inductive invariant |
| `TagHashProofs` | proofs about `TagHash` |
| `Rendering` | `Lstring` and `Lstringcat` with `stringBuf` |
| `Comparison` | `Lcompare`, `LflatCompare`, `LcompareTags`, `Lhash` and collections |
| `MCGcMark`, `MCGcCollect`, `MCGcRefinement`, `MCGcLibrary`, `MCFrameStack`, `MCLamaMachine`, `MCFunctions` | instances for TLC |

### The collector

Addresses count words of the production build on 32 bits (`DATA_HEADER_SZ` is two
words; `LAMA_ENV` is defined). `mem` maps the address of each header to the
object there. The two low bits of `forward_address` are separate fields `mark`
and `enq` because `SET_FORWARD_ADDRESS` keeps them. `fields` are the words that
the field iterators visit; since the iterators skip unboxed fields and `mark`
ignores them, an action that visits them does nothing. A number is any negative
value. The other words of the memory that may hold a root are in `word`: the
virtual stack, the global area, and locals of runtime functions that were
registered as extra roots.

`phase` and `it` say which loop is running and where; each action is one turn.
Only the loop over the fields of one object in `update_references` is taken in one
turn, as no field of it reads what another turn has written. Reading the header
of a word that is no object ends in phase `crash`, for `get_type_header_ptr`
kills the process there.

`mremap` leaves the heap where it is or, when it grows, moves it to any free place
of the constant `Bases`, below or above. It may fail, which ends the process. A free
place is one that nothing else occupies: a word that is kept (`KeptWords`: a root, a
field of a live object) and is neither a number nor a pointer into the heap is the
address of something that the process has mapped, as a C string is, and the kernel
does not put the heap on it. Without this a collection would take such a word for a
pointer into the heap that it has just moved.

In `GcCollect` the variable `snapshot` is the dump of marked objects and of roots
by identity (`id`, which `DEBUG_VERSION` stores in every header) taken after
`mark_phase`.

### The mutator

`GcMutator` has the instructions that move values: CONST, DUP, DROP, loads and
stores of globals, LDA of globals, BEGIN's locals, ELEM and STA of objects, of strings
and of variables, and the five that allocate. An allocating instruction is three steps: what the interpreter and the
runtime function do before `alloc`, the allocation with or without a collection,
and what they do after it. The state in between is what the collector sees: the
operands reversed in place, the tag word, the captured values below the top, the
registered words. `Bclosure` registers words at a fixed distance from its frame
pointer, which on the virtual stack are not the captured values; `ArgssOffset`
is that distance (9 words in the code, smaller here because the stack is).

`Belem` and `Bsta` compare no index with a length (`runtime.c:676-680, 940-951`), and
`Bsta` writes through whatever it is given where it expects the address of a variable
(`runtime.c:954`). One store past the end of an object changes the header of the next one.
Numbers have no values here, so that any index may be in range (`Elem`, `ElemChar`,
`StoreElem`, `StoreChar`) or out of it (`OutOfRange`), whenever the code reads or writes
at all. After `OutOfRange` the program is in phase `astray`, where nothing is
said of it any more: what the model claims is claimed of programs as long as their
indices are in range. `CallOutOfRange` is the same for `LmakeArray`, whose length may be
negative, and `Lsubstring`, whose one test is of the sum of position and length
(`runtime.c:444, 690-693`). `LamaMachine`, where numbers have values, tells the two apart,
and an access out of range ends it in phase `crash`.

`GcRefinement` maps the memory to `ObjectGraph` by forgetting addresses and
garbage. The abstract state changes when the instruction has finished; the
history variable `view` keeps it meanwhile. A second history variable, `snapshot`, is
the dump that `GcCollect` takes of each collection, so that a collection of the
program is a behaviour of `GcCollect` and what is proved there holds here.

`ProgramAssumption` says how the process is laid out: the data segment, with the global
area and the strings of the byte file, lies below every place of the heap, which `mmap`
chooses; the heap is empty, the words hold numbers and there are no operands when the
program starts; the virtual stack has room for `MaxDepth` operands; and the words above its
bottom that `Bclosure` registers when there are fewer operands (`ArgssOffset`) are
words of the process that hold no values of the program.

### The library

The functions of `GcLibrary` are called with arguments that the caller has popped, so
that the words they register are all that a collection sees. `LocalP` and `LocalQ`
are their parameters. Each function is a step up to `alloc` and a step after it, in
which it reads its parameters again and copies; reading a word that is no object any
more leads to `crash`. `CloneRoots` are two words for a string, as `Lclone` calls
`Bstring` with a parameter of its own; since `Bstring` measures it by `strlen`, a zero that
was stored in a string ends the clone, which has any length up to that of the string
(`CloneLens`). The contents of strings are the identities of
the strings that they were copied from (`copied`). `:` is in `ConsSpec` only, since
it does not implement its abstract form (see *Disagreements*).

### The frames

`FrameStack` has word 0 as the start of the virtual stack. An action is one
instruction, as far as the stack is concerned: how many operands it pops, where
it writes, what it leaves behind below the top. A write below word 0 leads to
status `overrun`; the code has no such test. `CWords` is the room that a call of
C code takes on the virtual stack, whose words then hold `Junk`.

Functions are entered by CALL or CALLC followed by BEGIN, as compiled code does;
the number of arguments of a call and of the function are independent. `MaxOps`
is the largest number of operands of an activation, temporaries and the result
of a call included.

`FrameRefinement` reads activations off the frames. Whether a function was called
as a closure is not in its frame; what the caller's frame has kept as its top
tells.

### The machine

`LamaMachine` has the instruction pointer, the frames of `FrameStack` as records, and
`GcMutator` for everything that allocates; one action is one opcode of
`Interpreter::step`, or the part of one before an allocation. A program is a sequence
of decoded instructions; offsets are positions in it. Failures
(`runtimeError`, `failure()` of the runtime, a jump out of the code, an operand that
is missing or no number) are the final state `error`. The words that LDA pushes are
addresses of words, of the stack or of a field of a closure, and STA writes through
them.

`LamaSemantics` has none of this: activations are records with arguments, locals,
operands and a closure, values are numbers, references and designations of variables.
`LamaRefinement` reads activations off the frames, as `FrameRefinement` does, and
translates each word. As in `GcRefinement`, an allocating instruction takes effect
when it has finished.

The address of a local is used, in all programs of the runs, while its activation
exists, as compiled code does. `RootsAreContents` shows what becomes of the address
of a captured variable.

### Calculations

`LamaNumbers` has words of any width: `Half` is 2^30 in the code. `Arithmetic`
takes any two words as operands, and keeps in `host` what the C++ expression is worth
before it is stored. In `ByteFile`, `Modulus` is 2^32; an offset is an integer, so
that a pointer outside the file is one outside `0 .. sizeBytes - 1`, and `SizeT` is
what the code stores in a `size_t`. Addresses that the section pointers could wrap
around are not modelled: a file is less than half of the address space.

In `TagHash` a character is a digit, and `_` is 0. In `Rendering` a piece of text
is a number of characters; the recursion of `printValue` is the sequence `todo`
of what is still to be printed, and each attempt of `vprintStringBuf` is a step.
`Comparison` is Lcompare and Lhash on stores with addresses, and a step is a
collection. A string has the length of its header, which Lhash hashes, and a label for its
characters up to the first zero, which are all that `strcmp` and the loop of Lhash see.
Bsta can store a zero in a string; two such strings may be equal and hash differently
(`runtime.c:553, 633`). `EqualsHashAlike` is therefore stated for stores in which strings
with the same label have the same length (`NoStringIsCut`), which are some of those that
the run has.

## Runs

| Run | Instance | Shows |
|---|---|---|
| `mark` | all graphs over three adjacent objects of two choices of kinds, one root word of each kind, any pointer in each | marking is exact and ends, the queue stays in the heap, `MarkInv` holds |
| `collect` | the same for a heap in which the moved copy overlaps the original, two sizes of request, two places for `mremap`, one of which a foreign address in a root excludes | the graph, the roots and all other words survive; the heap is well-formed and has room |
| `program` | three operands, a local and a global, two allocations of strings, arrays, sexps and closures, a heap that may move | refinement of `ObjectGraph`, with assignments to elements, to characters and through addresses, and cycles between collections; no crash before an index is out of range |
| `library` | three allocations in a row by instructions and library functions, operands up to two, no variables | `ImplementsLibrary`; no crash; every request finds a well-formed heap, and returns |
| `frames` | two activations above the first, with an argument and a local, closures and C code | types, no overrun, tiling; refinement of `ActivationStack` |
| `machine` | six compiled programs, ill-formed ones, string patterns with every kind of value on either side, characters inside and outside a string, and all bodies of three instructions of an alphabet of 26 | refinement of `LamaSemantics`, `ClosureIsCalled`, `ProgramsEnd` |
| `loader` | files of five sizes, every header, every offset, for words of two bytes modulo 32 | sections tile the file; instructions and strings are in theirs |
| `functions` | every two words of 5 bits; every two names of three characters over three digits and a foreign one; all structures of three objects, to be printed into a buffer of two characters; 9,000 stores to be compared, at two places | the properties of `Arithmetic`, `TagHash`, `Rendering` and `Comparison` |
| `captured_address`, `string_pattern`, `negative_sizes`, `cons_arguments` | one program, one program each for two values, one file, the library with `:` | see *Disagreements* |

Why the bounds are enough. Three objects give the queue of `mark` all its shapes
(an object enqueued while it is scanned, twice by two fields, through a cycle,
from two roots) and the compaction an object that stays, one that moves on top
of itself, and one that moves past garbage. The heap starts at
`MINIMUM_HEAP_CAPACITY` (4 words), so that the second allocation already
collects; `library` and the compiled programs go on from there. Two activations above
the initial one show a caller that is suspended while its callee calls and returns;
arguments in greater number, and closures with them, occur in the compiled programs.
The limits of the machine are small enough for the programs to reach: five saved
frames, three extra roots, numbers of four bits. Arithmetic depends on the width only
at the ends of the range, which words of five bits have; the theorems hold for all
widths. Two bytes per word and a modulus of 32 make every sum of the loader wrap
around. Names of three characters with a limit of two are cut off; three objects are
a list in a list. `Comparison` takes numbers whose differences fit in a number.

Fairness. There is one thread, and nothing in it waits: weak fairness of the next
step of the collector, of the runtime (`GcMutator`, `GcLibrary`), of the interpreter
(`LamaMachine`) and of rendering says that the process keeps running. In `GcMutator`
the program may stop between instructions. The liveness properties are
`MarkingEnds`, `CollectEnds`, `CallsReturn`, `ProgramsEnd` and `RenderingEnds`; the
programs of `machine` end in the abstract semantics, and the structures that are
rendered have no cycles.

Deadlock is checked for `machine`, whose final states repeat themselves. The other
models have states in which a function returns to a caller outside the model.

## Disagreements

What the models show the code to do against what its comments, assertions and
messages say; the first four are runs that TLC finds violated.

* `captured_address`: LDA of a captured variable pushes an address inside a closure
  (`Interpreter.cpp:519, 729`). A collection takes it for the content of an object,
  while the comment of `mark` says that the queue holds contents of objects only
  (`gc.c:512`); the words before it are read as a header.
* `string_pattern`: PATT_StrCmp passes the literal as the first parameter of
  `Bstring_patt` and the matched value as the second, of which the function
  asserts that it is a string (`runtime.c:894`). A value that is no string is then
  an error and not a mismatch.
* `negative_sizes`: the tests of `init` for negative sizes are of unsigned values
  (`ByteFile.cpp:25, 33, 39`).
* `cons_arguments`: `Ls__Infix_58` registers its parameters, but `Bsexp` reads copies
  (`runtime.c:86-93`), which a collection in it does not update.
* The size of the symbol table is computed modulo 2^32 (`ByteFile.cpp:45`), so that a
  file that cannot hold it passes the test at line 47. `InstructionsInCode` holds all
  the same, and is proved; `SectionsTileFile` is stated for tables that do not wrap.
* `Bclosure` registers words above its arguments (`runtime.c:783-788`), as it
  computes with an `int *`. No harm is done: the stack is scanned as well.
* FAIL gives `Bmatch_failure` line and column unboxed, which unboxes them again
  (`Interpreter.cpp:616`, `runtime.c:1000`): the message names half of the line.
* `LtagHash` ends the program for names that begin with `_`, whose digit is 0
  (`NamesHaveTags` is stated for the others).
* `LflatCompare` tests `~UNBOXED(q)`, which always holds, and subtracts a boxed number
  from an address (`runtime.c:604`).

## Proofs

`GcMarkProofs` proves, for every set of well-formed images, every stack, global
area and number of extra roots:

* `MarkInvariant`: `MarkSpec => []MarkInv`, and from it
* `MarkTypeCorrect`, `MarkSafe`, `QueueCorrect` and `MarkExact`.

The assumptions are `WordsAssumption` (the layout of the three areas) and
`ImagesAssumption` (the heap is well-formed when the collection starts; that the
program and earlier collections establish it is `RequestsReady`, below).
`MarkedIsClosed` adds what the compaction needs: the marked objects refer to marked
objects only.

`QueueInvariant` is not inductive: that the tail of the queue is inside the heap
depends on how many objects have been enqueued. `MarkInv` therefore has a
counting argument in `QueueOK`: the objects below the tail are no more than the
objects ever enqueued (`Touched`, marked or flagged). When the next object is
enqueued it is not in `Touched`, hence `Touched` is a proper subset of the heap,
hence the tail is at an object. `FieldsScanned` and `RootsScanned` say what has
been scanned points to `Touched` objects, with which the marked objects are
closed when the last loop ends; `LiveInv` says that every closed set contains
`Touched`. Together they give `Marked = Reachable`, with reachability defined as
the least closed set, without recursion.

`FrameProofs` proves, for every size of the two stacks and any numbers of
arguments, locals and operands:

* `FrameInvariant`: `Spec => []FrameInv`, and from it
* `FrameTypeCorrect`, `StackNeverOverrun` and `FramesTile`.

The assumptions are `FrameStackAssumption` (the sizes are natural numbers, `main`
has its two words) and `SizeAssumption`: the virtual stack has a budget of
`MaxLocals + MaxOps` words for each frame that fits in the frame stack, and room
for one call of the runtime. `StackNeverOverrun` is thus conditional: it says how
large `STACK_SIZE` has to be for given functions, since no instruction compares
`__gc_stack_top` with the start of the stack.

No run lists `FrameInv`; `frames` checks the three that follow from it. `FramesNest` is
not inductive: `END` restores a frame that was saved long before,
and nothing in the running one says what it was. `FrameInv` therefore keeps for
every saved frame what was true when it was saved (`CallerOK`): it is linked to
its own caller, it has room for the result, and it is within its budget (`Low`).
`BeginStep` establishes this for the frame that is pushed and `EndStep` uses it
for the frame that is popped.

It also proves `FramesImplementActivations`: `FrameStack` implements
`ActivationStack`, under the same assumptions. The initial state maps to the initial
state, and each action to the abstract action of the same name, or to a stutter. What
an abstract activation is, is read off the array (`View`), and for one that is
suspended, off the frame that was saved; the proof is that an instruction changes these
words as the abstract step does, and no word of a suspended activation (`SameView`,
`CallersKept`). `FrameInv` is not enough for it. `RefinementInv` adds that the tops
descend from caller to callee (`TopsDescend`), so that a write near the top is below
every caller; that the first activation, which nothing called, takes no arguments
(`FirstTakesNothing`); and that a word above the top is no junk of C code
(`LiveWords`).

`GcCollectProofs` proves, for every set of well-formed images, every request, and every
choice of `mremap`:

* `CollectInvariant`: `CollectSpec => []CollectInv`, and from it
* `CollectTypeCorrect`, `CollectSafe`, `GraphPreserved`, `LeavesWellFormed` and
  `MakesRoom`.

The assumptions are those of `GcMarkProofs` and `CompactAssumption` (places and the
smallest capacity are natural numbers). The properties are about the end of a
collection and say nothing of its turns; `CollectInv` does:

* `StandingInv` holds throughout: types, objects inside the chunk, each root once.
* `ComputeInv`: the objects that `compute_locations` has passed are given places in
  their order and without gaps (`Packs`), none higher than where it is. `live` is
  therefore their size, and the objects fit.
* `LayoutInv(f)` says the same of the memory after `mremap`, when the objects below the
  address `f` have moved (`Settled`), the live ones above have not (`Pending`), and
  each has a `FinalPlace`. That a pending object is never below its final place, which
  is never below `f`, is why `physically_relocate` overwrites no object that is yet to
  move.
* `ObjectsKept` and `RootsKept` compare every word with the dump: before it is fixed it
  denotes what the dump says by the old addresses (`DenotedBefore`), afterwards by the
  final places (`DenotedAfter`). `ToFix` says which root words a loop still has to fix,
  so that fixing one twice, or not at all, violates it. An address of the old chunk may
  be one of the new chunk as well, hence the two predicates.
* `MoveInv`: the objects that `physically_relocate` has not come to are contiguous
  (`Rest`), so that it reads the size of the next one where there is a header.

`RankKept` is the lemma on which `CollectPreservesGraph` rests for the order of
objects: the number of objects below one is the same after a map that keeps the order.
No run lists `CollectInv`; those that follow from it are the properties of `collect`.

`GcMutatorProofs` proves, for any number of operands, variables, fields and
allocations, and all programs over the instructions of `GcMutator`:

* `ProgramInvariant`: `RefinementSpec => []ProgramInv`, and from it `MutatorSafe` and
  `RequestsReady`;
* `LibraryInvariant`: `LibrarySpec => []LibraryInv`, and from it `LibrarySafe` and
  `LibraryRequestsReady`, for programs that also call functions of the library.

The assumptions are the earlier ones on the layout, `MutatorAssumption`,
`LibraryAssumption` and `ProgramAssumption`. `RequestsReady` discharges for the program what
`GcMarkProofs` and `GcCollectProofs` assume of the images. `MutatorInv` has

* between collections: the heap can be walked, and every field and root is `Sound`, a
  number, an address of the data segment, or the address of an object. `Sound` is
  stronger than what `WellFormed` asks, which only looks at words that point into the
  heap: a stale address outside the chunk of today is inside it when the heap grows.
* at a request: the registered words are sound, and registered once (`RootsInv`).
* in a collection: `CollectInv`. When `StartCollection` has been taken, `CollectReady`
  gives `CollectInv`, and `CollectStep` keeps it.
* `DumpSound`: after `mark_phase` the soundness of all values is a property of the dump,
  which does not change while the words and fields do; when the collection has ended,
  memory and dump agree, and the values are sound again (`CollectedIsConsistent`).
* `CallInv`: the operands that the runtime function reads after its allocation are
  still there, and there is a word for the result.

For the library `SourcesKept` says that what a function copies from is registered, and
an object before, in and after a collection. It is false for `:`, whose `Bsexp` reads
words that are not registered; `LibrarySpec` therefore does not include it, and
`cons_arguments` is the run that shows it. No run lists `ProgramInv` and `LibraryInv`;
`MutatorNoCrash` and `RequestsWellFormed`, which follow from them, are properties of
`program` and `library`.

`MutatorSafe` and `LibrarySafe` are about programs as long as their indices, and the sizes
they ask for, are in range: from phase `astray` there is no step, and so no crash. For
programs whose indices are all in range they say that neither an instruction nor a
collection ever reads a header where there is none. Which programs these are is left to
the compiler and the programmer, as it is in the code.

`ByteFileProofs` proves, for every width of `size_t`, every set of files and every
header, that instructions are read inside the code and the file
(`LoaderInvariant`, `InstructionsAreInCode`). The assumption `FileAssumption` says that
a file is smaller than half the address space. The tests of `init` compare sums that
may have wrapped around; what `CodeIsSuffix` keeps is that the last of them is at the
same time where the code begins, and not beyond the file. `InstructionsInCode` is not
inductive without it, nor without the bounds of the instruction pointer. For headers
without negative sizes (`WellSized`) `SectionsInvariant` goes further: none of the sums
that `init` compares wraps around, so that each section has the size that the header
says (`Divided`). `SectionsAreTheFile` and `StringsAreInTable` follow.

`ArithmeticProofs` proves `OperatorsComputeModulo`, `OperatorsAreDefined` and
`SynonymsCompute` for every width of a word (`HalfAssumption`). `BoxedResult` is the
heart: reducing to a word, shifting, reducing again and shifting back is reduction
modulo the range of numbers. `ExactFits` bounds every operator but multiplication; for
division and remainder it rests on `QuotientFits` and `RemainderFits`.

`TagHashProofs` proves `WellNamedHaveTags` and `TagsAreNames` for every number of
characters, and of those that count (`TagAssumption`). The number that a name stands for
is a recursive definition; `TagInv` says instead that there is a sequence of numbers, one
for each beginning of the name (`Values`), which the loop of `LtagHash` extends by one
and the loop of `de_hash` goes back by one. That a loop of `de_hash` has seen no 0 before
it ended means that no digit is lost (`Positive`); that is false for names that begin with
`_`, and the check in `LtagHash` finds it. `SamePrefixSameValue` and
`SameValueSamePrefix` then compare two names digit by digit. They are inductions, which
the prover has no rule for; `LeastElement` takes their place, that a set of numbers which
is not empty has a least element. It is proved from the order of finite sets by inclusion,
which the library knows to be well-founded. No run lists `TagInv`, whose sequences range
over all numbers.

`GraphRefinementProofs` proves, under the assumptions of `GcMutatorProofs` and for all
programs over the instructions of `GcMutator`:

* `GraphInvariant`: `RefinementSpec => []GraphInv`, and from it
* `ObjectGraphImplemented`: `RefinementSpec => ImplementsObjectGraph`;
* `LibraryGraphInvariant`: `LibrarySpec => []LibraryGraphInv`, and from it
* `LibraryImplemented`: `LibrarySpec => ImplementsLibrary`, for programs that also call
  `clone`, `substring`, `++` and `makeArray`.

Thus for any number of operands, fields and allocations, and wherever the heap moves, a
program cannot tell that there are addresses, garbage and collections. `ProgramInv` says
that the memory is sound, but nothing of what the program had in it when an instruction
began; `GraphInv` adds

* `Identified`: each object has an identity of its own (`cur_id`), so that `View`, which
  selects objects by identity, has one for each;
* `ViewKept`: while a call is running, `view` is what the memory shows through the
  disorder that the instruction has left: the operands that Barray and Bsexp have
  reversed (`OperandsBefore`), the copies that CLOSURE has pushed and that the abstract
  instruction does not know, the operands that `Lstring` and the functions of the library
  find in their parameters only (`Popped`);
* `CallKnown`: what each function requests, from which the abstract action is chosen.

Both are stated of `Latest`, the dump of the memory before `mark_phase` has ended and
`snapshot` afterwards. A step of the mark phase changes no dump; where it ends the dump
loses the unmarked objects, which nothing reachable refers to (`MarkedKept`); the
compaction leaves `snapshot` alone, and when it is over `CollectPreservesGraph` says that
memory and `snapshot` agree (`CollectedOperands`), from which `ReturnRefines` shows that
the new object in the memory is the new object in the graph. `Retained` is a least fixed
point without recursion; `RetainedAgree` and its companions say when two stores, such as
the memory with its garbage and the abstract store without, retain the same. No
run lists `GraphInv`; the run `program` checks the refinement that it is for.

For the library, `LibraryKnown` adds what a function has read of its arguments before the
allocation, such as the sum of the lengths of the strings that `++` joins; those strings
are in `view` and stay there. `SourcesKept` is what makes the copying right: it says that
the parameters still denote, after the collection, the objects that `view` has in the place
of the arguments (`SourceTaken`). Lclone passes a string on to `Bstring`, in a parameter
of its own; that both denote the same object is part of `ViewKept`. Each
function then is a lemma (`CloneMade`, `SubstringMade`, `ConcatenationMade`, `ArrayMade`).
No run lists `LibraryGraphInv`; the run `library` checks `ImplementsLibrary`.

Only model-checked are:

* liveness, since the prover has no rules for fairness and `ENABLED`;
* `Rendering` and `Comparison`, whose definitions are recursive;
* the machine. `ClosureIsCalled` and the refinement of `LamaSemantics` need that the
  values in its heap and on its stack are `Sound`, which holds of programs whose LDA
  designates variables of the stack or the global area only, and is false of the others
  (`captured_address`): it is a property of the compiler's output and not of the
  interpreter, and the constant `Programs` would have to state it.

## Not modelled

* Regular expressions, `Lsprintf`, `LgetEnv`, `LreadLine`, files, `Lrandom` and the
  clock: I/O and calls of libc; the strings they make are made as `Bstring` makes them.
* `set_args` (`runtime.c:1243-1260`), which the interpreter does not call: in
  `((int *)p->contents)[i] = (int)Bstring(argv[i])` the compiler decides whether the
  address is computed before or after the collection.
* What a program does after it has used an index, or the address for a store, out of
  range, a negative length of `makeArray`, or a negative position or length of
  `substring`, or has called `clone`, `substring` or `++` with a number or the address of
  a variable (`astray`, `crash`): Belem yields the word that happens to be there, and Bsta
  may write over a header.
* Hashes of strings that differ only behind a zero.
* Indices of the global area: `accessGlobal` has no bound and the size in the header
  is read and dropped. The programs of the runs keep to two variables.
* The text of messages, and the files that dumps are written to.
* The build with `DEBUG_VERSION` (headers of three words); `virt_stack.c` and the unit
  tests, which are scaffolding; Lama programs for regression and performance.
* Addresses of locals that outlive their activation; structures with cycles in
  `Lstring`, `Lcompare` and `Lhash`, on which `Lstring` and `Lcompare` recurse without end.

Compiled code is assumed to enter functions by calls only in `FrameStack`; the
machine executes whatever it is given.

## Plan

1. done: collector, mutator, library, frames, machine, loader, numbers, tags, rendering,
   comparison.
2. done: proofs about the mark phase, whole collections, the mutator and the library,
   the frames and their refinement, the loader, numbers and tags, and of the refinements of
   the object graph and of its library.
3. `ClosureIsCalled`, for programs that take no addresses of captured variables; it needs
   of the frames of `LamaMachine` what `FrameInv` says of those of `FrameStack`.
4. The extra roots as a stack whose `pop` compares its argument (`gc.c:607-614`).
