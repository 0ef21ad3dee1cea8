# wvmcc: models, model checking and proofs

wvmcc compiles C17 to WebAssembly: a preprocessor, a parser, a code generator and
a linker in one sequential program, and a C library (`runtime/`) that is compiled
with it and linked from an archive. This directory holds TLA+ modules translated
from that source, TLC configurations that check them on small instances, and
theorems that TLAPS proves for every value of the constants.

Paths below are relative to the repository. `PROJECT.json` maps every definition
that models code to the lines it stands for.

## 1. The system

One invocation runs to completion in one thread. Nothing is concurrent, and nothing
outlives it but the files it writes, so the hard parts are not interleavings: they
are index spaces renumbered while others hold references into them, state computed
early and used after it has gone stale, worklists and scans whose order must not
matter, one fact worked out by several pieces of code that must agree, arithmetic
at boundaries, and phases that fail after others have left something behind.

| Component (source) | State | Operations | Hard behaviour | Correct when | Modelled in |
| --- | --- | --- | --- | --- | --- |
| Driver (`src/exec`) | options, inputs, diagnostics, files written | read the command line, run the phases of each input, find libraries, link, write | a phase that fails for one of several inputs; diagnostics gathered in a list that grows while it is printed | status 0 means that what was asked for is on disk, made of what was named; every diagnostic is shown once | `Driver` |
| Tokenizer (`src/pp/Tokenizer.cpp`) | scanner state, pending space, positions, characters produced | trigraphs, splices, comments, then tokens | two state machines over one text, each following literals on its own; positions of the raw text on tokens of another | the tokens are those that were written, at the place they were written | `Tokenizer` |
| Preprocessor (`src/pp/Preprocessor.cpp`) | conditional stack, include stack, macro table, paint, output buffer | directives, macro replacement, inclusion, `_Pragma`, joining of literals | nesting across skipped text and files; rescanning; look-ahead past directives; literals with two spellings | the output and the errors are those of the standard's phase 4 | `MacroExpansion`, `Preprocessor` |
| `#if` expressions (`src/pp/ConstExprParser.cpp`) | position in the line | recursive descent on words with a sign flag | each operator decides the signedness again | the value C defines | `ConstantExpressions` |
| Parser and semantic analysis (`src/parser`) | token position, scopes | recursive descent, declarators, integer constant expressions | types of constants; sizes needed before any layout exists | constants have the value C defines; sizes agree with the layout | `Lexer`, `Declarators`, `ConstExprEval` in part |
| Types and layouts (`src/codegen/LayoutEngine.cpp`, `TypeMap.cpp`) | the layout of a struct | lay out, offset of a field, load and store of members and bit-fields | bit-fields share storage units; four walks over the same declarators | members apart, as the target's rules place them; a store touches its member only | `StructTypes` |
| Expressions (`src/codegen/FunctionCodegen.cpp` `emitExpr`) | frame offsets, tagged pointers | one visitor per construct | conversions; addresses of locals | planned, but for member access | `StructTypes` in part |
| Statements (`FunctionCodegen.cpp`, `generate`, `emitStmt` and what it calls) | block depth, stack of loops and switches, stack of goto dispatch loops, label ids, frame size, code buffer | one emitter per statement kind; label analysis before; prologue and epilogues around | `goto` as structured control flow; branch numbers relative to a depth; a frame whose size is not known yet when a `return` is emitted | the WebAssembly evaluates what the C function evaluates, in that order; it is valid; the stack pointer is restored | `StatementLowering`, `ControlFlow` |
| Static storage (`GlobalDataAllocator.*`, `ModuleCodegen.cpp`) | bump pointer, address table, literal table | register an object, intern a literal, emit the marker or the heap base | tentative definitions, empty types, padding | objects aligned and apart, below heap base or marker | `StaticStorage`, `GlobalDataAllocator` |
| External declarations (`ModuleCodegen.cpp`) | index tables of the unit | declare imports, functions, globals, exports, table slots | calls before definitions; several uses of a name | numbers of a unit mean its declarations | `LinkableObject` |
| Merge order and archive scan (`src/link/Linker.cpp`) | output so far, opened archives, worklist, scan position, pulled table | merge a unit, open an archive, scan a member, pull it | members that need each other across archives; a scan restarted from inside | ends; a fixpoint; one definition per name; only what is needed | `LinkClosure`, `ArchivePull` |
| Module merge (`ModuleMerge.cpp`) | output module, export table, `DedupState` | append functions, globals, exports, table; deduplicate imports; move data | every merge can add imports below all earlier definitions; four kinds of data reference relocated by four pieces of code | every index and address still means what its source meant | `LinkPhases`, `DataLayout` |
| Symbol resolution (`SymbolResolver.cpp`) | imports and the four index spaces | bind imports to definitions, prune the unused | four passes each renumber what the next one reads | as above; no used import lost, no unused one reported | `LinkPhases` |
| Start-up code (`Crt0Synth.cpp`) | output module | runtime globals, host imports, start wrapper, heap base | functions looked up before a shift and used after it | the wrapper calls main and exit; heap overlaps nothing | `LinkPhases`, `DataLayout` |
| Dead code (`DeadCodeEliminator.cpp`) | marked set, worklist, remap table | seed roots, propagate, compact, rewrite | order of a hash set; an index missed by the rewrite | marked set is the least closed one; no reference changes meaning | `DeadCodeElim` |
| Diagnostics (`LinkDiagnostics.cpp`) | error list | report what is still undefined | depends on all phases before it | exactly the undefined references of the program | `Linker` |
| Object and archive reader, map file (`ArchiveReader.cpp`, `RelocSection.cpp`, `MapFile.cpp`) | none | decode; write the map | what a file does not carry (pointers in data) | outcome only | in `ArchivePull`, `DataLayout`, `Driver` |
| Runtime: stdio and exit (`runtime/src/stdio_core.c`, `stdlib_core.c`) | buffers and flags of streams, registry, atexit table, exit hook | the calls of `<stdio.h>`, `atexit`, `exit`, `abort`, `quick_exit` | buffers hold what the file does not; a handler that writes and opens after the streams were in use; full tables | a program cannot tell that there are buffers; a normal exit loses nothing | `Stdio`, `AbstractStdio` |
| Runtime: allocator (`runtime/src/malloc.c`) | heap offset | malloc, realloc | wrap-around, no bound | planned | - |
| Rest of libc, AST printing, visitors | none | pure functions, traversal | - | - | not modelled |

How they interact. The driver takes each source file through tokenizer, preprocessor,
parser, semantic analysis and code generation to a linkable module in memory, or reads
one from a `.o` file, and hands the modules and the archive paths, in command-line order,
to `link()`. The preprocessor pulls tokens, the parser pulls preprocessed tokens, so
the three run interleaved by demand, but each is fed by the one before and never
looks back. `link()` runs: merge of all units, archive scan, resolution, start-up code,
dead code elimination, pruning, diagnostics, map file. Its phases share one mutable
output module; the only things carried besides are the worklist of the scan and the
`DedupState` of the merge. The compiler's two promises to the linker are the reference
names of its imports and exports and, for data, the marker segment that tells where the
unit's storage ends. The heap base is the linker's (or the freestanding compiler's)
promise to `malloc`. `exit` promises stdio to run its hook after the handlers.

## 2. The modules

    Driver                            one run of the command
    Tokenizer                         phases 1 to 3, character by character, and a file
                                      as written, piece by piece
    CPreprocessing                    phase 4 on the structure of a source
      extends Preprocessor            directives, groups, include stack
              ConstantExpressions     the expression of an #if
              MacroExpansion          replacement, # and ##, rescanning
    StructTypes                       the layout of members and how they are accessed
      extends ConstExprEval           constants before any layout
              Lexer, Declarators      constants' types; declarators
      instantiates CTypes             what C and the target promise of all of them
    CStatements                       C statements and what they mean
    WasmControl                       WebAssembly control flow and what it means
      ^ extended by
    StatementLowering                 the code generator: from the first to the second
      ^ extended by ControlFlow       both run side by side
    StaticStorage                     addresses within a unit
      ^ extended by GlobalDataAllocator (a unit) and DataLayout (units linked)
    LinkClosure                       what the merge phase promises
      ^ implemented by
    ArchivePull                       merge order and archive scan, by name
      ^ instantiated as Pull in
    Linker                            all phases over modules with index spaces
      extends LinkableObject          a translation unit as code generation emits it
              LinkPhases              one unit appended to the output; binding and
                                      pruning imports; start-up code
              WasmModule              modules, references, renumbering (both use it)
    DeadCodeElim                      the mark and sweep, one loop iteration per step
    AbstractStdio                     streams without buffers
      ^ implemented by
    Stdio                             the buffered streams of the runtime
    *_proofs                          theorems of the module they extend (two for Linker)
    MC*                               instances for TLC

**Driver.** `ParseCommandLine` one word per step, then the modes in the order `main`
tries them. A phase of a unit is a step that may succeed, report or fail, whatever the file holds;
`log` is what the linker says. A file on `disk` is described by what it was made of (inputs, archives, options), so
that `Delivered` can compare it with `Asked`, which reads the command line at once, from
the help text and the README instead of word by word. `raised` and `shown` record the diagnostics
that were found and those that were printed.

**Tokenizer.** `FillBuffer` translates `SourceBuffer`, one decision of its scanner per step;
`ReadNextToken` translates the tokenizer over the characters it produced. The reference, `Written`,
knows a document as a sequence of pieces (a token, a blank, a comment, a line end, a splice), whose bytes are
concatenated for the tokenizer: it has no scanner state to get wrong.

**MacroExpansion, ConstantExpressions, Preprocessor, CPreprocessing.** `calls` is the
stack of `Preprocessor` objects an `#include` creates; a step is one turn of the loop of
`ensureBuffer`: a directive, a skipped line, a token with its replacement. `expandMacros` is
an operator because it runs to its end on a list of tokens. The reference renders a
structured source (groups, conditionals, definitions, inclusions) into tokens and computes
its meaning by recursion over the structure; macro replacement there is the hide-set algorithm, which is
not the paint that the code uses. A literal has two spellings, its lexeme (`v`) and, once `normalizeLiteralToken` or `#`
has made one, its decoded value (`dec`); the lexer takes the second (`HandedOn`, `Lexer.cpp:293`).

**Lexer, Declarators, ConstExprEval, StructTypes, CTypes.** The source walks
over declarators in five places (declared types, the semantic pass, constant expressions, the layout, the
type map), each with rules of its own; each walk is an operator named for the function it
translates. `StructTypes` declares one struct per behaviour, one member declarator per step, and then
asks every walk. `CTypes` is the reference: types as the standard's declarator rule gives them, values as
mathematical integers with a type, the place of a bit as a set of bit numbers.

**Stdio, AbstractStdio.** One action per call, with the flush, refill and seek it makes;
`files` and `fds` are the host; `call` is the last call with what it was given, so that an answer is compared with the
question. `Stdio` maps to streams without buffers: `Contents` counts in the
pending bytes, `Position` the unread and unwritten ones, and `View` drops the flags.
`AbstractStdio` puts a byte into the file at once, and `fseek` leads to where the stream stands plus the offset, to the end
plus the offset or to the offset; a place before the file is refused, one beyond its end is not.

**ArchivePull.** The C++ loops unrolled into one action per iteration or exit: a unit
is the set of names it exports, the imports it has and whether it decodes and can be
merged. `need`, `pulled`, `progress`, `arch`, `memb` are the locals of
`lazyPullArchives`; `PullMember` is the whole pull, including recomputing `need` from
the output and restarting the archive (`i = -1; ++i`). Every early return is an
action (`NoInputs`, `InputFails`, `PullFails`).

**LinkClosure.** The same phase with no worklist, no scan position and no flag: units
are loaded, then members with a wanted name are linked in any order until none is
left. `ArchivePull` maps its output exports, the names still unresolved, the members
not pulled and its program counter to the four variables.

**WasmModule, LinkableObject, LinkPhases, Linker.** A
module is its function and global imports, definitions, exports, table and start
function; all references are numbers, as in the binary. Each reference also carries
the *name* its source used, which no operator reads: properties compare the name with
what the number denotes (`Denotes`). `LinkableObject!Compile` is what
`ModuleCodegen.cpp` emits for a list of declarations; `MergeOne`, `ResolveImports`,
`Synthesize` and `PruneImports` translate the functions of the same or a similar name; each phase
is one step since nothing observes the middle of one, except the merge phase, whose
steps are those of `ArchivePull`. What a job may hold is stated by `JobsAssumption` and `NamesAssumption` (section 5). Dead code elimination is one step here because
`DeadCodeElim` shows, and proves, which set it computes.

**DeadCodeElim.** `Seed`, `Pop`, the sweep and the rewrite of `eliminate`, one step
per loop iteration. The order in which the hash set of escaping functions is seeded
is a nondeterministic choice.

**StaticStorage, GlobalDataAllocator, DataLayout.** `Register` is one declaration of a
unit: a repeated name or literal keeps its storage. `GlobalDataAllocator` runs it over a
list of declarations and ends with the heap base (freestanding) or the marker (linkable).
`DataLayout` takes units laid out that way: `MergeOne` computes the extent of a unit's
block from its segments, code sites and address-globals, moves it behind the earlier
ones and relocates the references; `Crt0` sets the heap base. `ValidUnit`, which
`DataLayout` assumes of its units, is what `GlobalDataAllocator_proofs` shows of one.
Addresses are integers; the 64-bit sums of the code wrap only when a difference is
negative, which the integers represent.

**CStatements, WasmControl, StatementLowering, ControlFlow.** `StatementLowering`
translates the emitters one by one: each returns what the C++ appends to the code
buffer, and its context `x` holds the members the C++ reads (`depth` is
`currentBlockDepth_`, `flow` is `controlFlowStack_`, `dispatch` is
`gotoDispatchStack_`, `frame` is `frameSize_`). Since every emitter leaves the depth
and the stacks as it found them, only the frame is carried from a statement to the next
(`After`). `Code` produces numeric branches, as in the binary; nothing in it says where a
branch should lead. `CStatements` is the other side: a machine for C statements as
the standard defines them, which knows nothing of blocks; `WasmControl` runs the emitted
instructions. `ControlFlow` lets the two run to the next expression each of them
evaluates. Expressions are events: their values come from the environment, the same for both.

## 3. What the runs check

| Run | Instance | Distinct states | Result |
| --- | --- | --- | --- |
| `driver` | every command line of at most two words from the whole vocabulary, every line of three words over its core, a dozen longer ones; three worlds that differ in the sysroot and in where the archives are; at most three diagnostics | 407,048 | passes |
| `tokenizer` | documents of up to three pieces between two identifiers: 14 kinds of token (with splices, universal names, trigraphs and comment openers in them), comments that hold quotes and line ends, the three line ends, two splices | 107,521 | passes |
| `preprocess` | pairs and triples of macros with a line that uses them; arrangements of directives over three files; about 100 shapes of `#if` expressions with words of 8 bits | 241,828 | passes |
| `types` | some 9,200 structs and unions of three members, some 7,500 constant expressions of two operators as array bounds; 2, 3, 4 and 6 bits for char, short, int and long | 71,144 | passes |
| `types_typedef` | a struct embedded through a typedef name | - | violation |
| `control_flow` | some 5,600 function bodies: five statements in two nested constructs with one label, one or two jumps to it and a `break` or `continue`; five statements, flat or nested, with two labels and jumps to both; a switch in a loop with its cases and default in four orders, two sets of values and four kinds of nested statement; a frame with a `return` anywhere; a label in a switch | 675,760 | passes |
| `static_storage` | 7 orders of two file-scope objects, a static local and a literal, with repeats, for all combinations of sizes and alignments that pad, both modes | 2,300 | passes |
| `data_layout` | units with initialized data, with `.bss` only, empty, pointing, read from disk; singles, all pairs, a family of triples | 31,000 | passes |
| `archive_pull` | 7 user units, every archive of two members, or two archives of one and two, from a pool of members each defining one or two of three names and needing one, none or a host symbol; undecodable and unlinkable members; empty command lines; with and without the standard library | 281,000 | passes |
| `link` | 1,409 link jobs: main, a second unit and a library of one to three members, arranged in four orders, with overlapping imports, same-named static functions, taken addresses, shared objects, a host module, duplicate definitions, no `main`, no standard library | 31,000 | passes |
| `dead_code` | every choice of at most two references per body for two of three functions, three bodies for the third, with an import; escaping functions, exports and start vary; the module without functions | 144,000 | passes |
| `stdio` | every sequence of calls on two files and the terminal with a buffer of two bytes, seeks by -1, 0 and 1 from the three places, two calls of `fopen`, a registry of two streams and one handler | 220,398 | passes |

What they show, and why the bounds are enough:

* `driver`: `Delivered` (with status 0 the disk holds what the line asked for, made of the inputs,
  archives and options it named, unless two outputs share a name), `ExitTruthful` (status 0 exactly when no error was raised),
  `EveryDiagnosticOnce`, `InputsKept`. Options act through flags and lists that are read after all words, so two
  words show how any two interact, and three a value in between; three diagnostics put one on each of two units and one on the link.
* `tokenizer`: `TokensAsWritten`, `PositionsExact`, `ReadsToTheEnd`. The scanner looks at most three bytes ahead
  and remembers one state, an escape and a pending space; three pieces put every piece before and behind every other, in the middle of a line and at the
  start of one.
* `preprocess`: `OutputAsWritten`, `ErrorsAsWritten`. Three macros give a macro in an argument of another, a macro that another's
  replacement completes with the text behind it, and pasting and stringizing of both; three files give a guard, an inclusion within a
  skipped group and one from a search path. `MaxNesting` is never reached by these sources. Literals are joined by `next()`, across
  macros, line ends and files; lines whose literals are joined earlier are left out (`JoinsWhilePushed`, below).
* `types`: `BoundsAsWritten` (a constant expression has the value C defines), `LayoutAsPromised`, `FieldsApart` (a store to a member
  touches no other; what a bit-field shares its unit with is written back), `ConstantSizesAgree` (`sizeof`, `_Alignof` and `offsetof`, evaluated before
  there is a layout, agree with it). Three members put a bit-field behind and before one of another width or an ordinary
  member; six bits hold every size that occurs.
* `stdio`: `ImplementsStdio` (the buffered streams implement `AbstractStdio`: reads, positions, appends and replies are those of streams without
  buffers, for a program that seeks from where it is, or where the host refuses, only when nothing is read ahead: `careful`, below), `HeldIsFlushedAtExit` (a byte still buffered when the program exits reaches its file). A buffer of two bytes is empty, half full
  and full within three calls, and is passed by a write of two.
* `archive_pull`: `OneDefinition`, `PullJustified`, `Fixpoint`, `Termination` and
  `ImplementsClosure`. Two archives with three members are enough for every relation
  of a needed name to the scan position: ahead in this archive, behind in it, in a
  later archive, in an earlier one.
* `dead_code`: `MarkComplete` and `MarkSound` (the marked set is the least one closed
  under reference), `SameMeaning` (no surviving reference changes its target),
  `ExportsFollow`, `Termination`. Three functions give chains, cycles, self-calls and
  a function removed below, between and above those kept.
* `link`: `RefsFaithful` after every merge and every phase, `NamesAgree` (the names
  `ArchivePull` works with are those of the real output, so its results carry over),
  `ExactlyLive` (the program holds what the *sources* can reach, computed from names
  only), `FunctionsDiagnosed`. Up to five units overlap in their imports in different
  orders, so every merge shifts earlier numbers by different amounts.
* `static_storage`: `StoragePlaced`, `AboveStatics`.
* `data_layout`: `OneAddress`, `Disjoint`, `HeapAbove`, `Aligned`. `Disjoint` speaks of
  the objects that are not below the first object the linker can see in their unit
  (`Covered`), and `Aligned` of units whose first object is seen (`Anchored`): the
  two limits are real, and the first is a disagreement below.
* `control_flow`: `InStep` (the WebAssembly never evaluates another expression than the
  C function, nor returns before it), `Arrives` (it gets there), `Valid` (every branch
  names an open construct, the operand stack fits), `StackRestored`, and `Accepted` (the
  only bodies refused are those with a jump into a switch). Bounds: an i32 has `Bits = 3`
  bits and `SwitchValues = -1..2`; a `br_table` is made up to a
  range of `MaxTable = 2` instead of 1024, so the two sets of cases, `1, 2` and `2, -1`, take the two
  strategies, and for the first a value below the least case becomes, less that case, an index that is
  large because it is unsigned; the switch is an i64 one (`WideSwitch`). Two labels are enough for every
  relation of two jumps (apart, nested, crossing, backwards) and two nested constructs
  for every way from a jump to a label (out, in, across), because the lowering decides
  block by block and passes a pending target from one to the next.

### Disagreements between the code and what it says of itself

`types_typedef` has a run: `LayoutEngine.cpp:133` lays a member whose type is a typedef name out as eight bytes, so the
members behind a larger one lie inside it (`docs/spec.md:208` promises natural alignment with padding).

The others are reproduced by changing one line of a configuration; each is the only
property to check then.

| Configuration | Change | Violated | What happens |
| --- | --- | --- | --- |
| `MCArchivePull` | `Commands <- SmallCommands` | `ExitPresent` | `Linker.cpp:127` recomputes the worklist from the output, which does not contain the seeded `exit`; pull any other member first and `exit` is not linked |
| `MCLinker` | `Jobs <- ExternJobs` | `UndefinedReported` | with an undefined extern object left among the imports, crt0's two globals shift the space without a rewrite; the use denotes another global and the import is pruned as unused |
| `MCLinker` | `Jobs <- StaticJobs` | `StaticsLink` | static file-scope objects are exported, so two units with one of the same name do not link |
| `MCDataLayout` | `Inputs <- HiddenInputs` | `StaticsDisjoint` | a unit's first object that only a data pointer names lies outside the extent and is moved over the unit before |
| `MCControlFlow` | `Bodies <- ContinueInDo` | `InStep` | `continue` in the body of a `do` statement branches to the top of the loop, past the controlling expression |
| `MCControlFlow` | `Bodies <- EarlyReturn` | `StackRestored` | the epilogue of a `return` restores what was reserved when it was emitted, the prologue took the whole frame |
| `MCPreprocessor` | `Sources <- MutualSources` | `ReplacementsEnd` | two macros that name each other are expanded for ever: a name is painted only while its own replacement is scanned, not below another's |
| `MCPreprocessor` | `Sources <- JoinedSources` | `OutputAsWritten` | literals of one replacement are joined as it is pushed; that makes a new lexeme and keeps the decoded value of one of them (`Preprocessor.cpp:2162-2169`, also `2219-2227` and `2282-2287`), which the lexer takes (`Lexer.cpp:293`): of `#define f(x) #x x` with `f("s")` the second piece is lost |
| `MCPreprocessor` | `Sources <- EscapedSources` | `OutputAsWritten` | `next()` joins lexemes, and the lexeme of a stringized literal still has its escapes (`Preprocessor.cpp:1208`, `102-110`): `f("s") "t"` has backslashes in it |
| `MCTokenizer` | `Documents <- CrlfDocuments` | `TokensAsWritten` | a `//` comment ended by CR LF takes the next line with it |
| `MCStdio` | `MaxOpens = 3` | `HeldIsFlushedAtExit` | a slot of the registry is not used again, so the stream opened after as many as there are slots is not flushed at exit |
| `MCStdio` | `Programs <- CarelessPrograms` | `ImplementsStdio` | `fseek` drops what was read ahead and lets the host count from where it has read to (`stdio_core.c:250-253`), although `ftell` subtracts what is unread: `SEEK_CUR` after a read lands too far on, and a seek that the host refuses moves the stream |

More were seen while modelling. Where a model has to keep such a case out of its inputs, its module says so and the list below holds the reason.

Linker and static storage:

* The comment at `src/link/Linker.cpp:123-124` says the scan restarts from the first
  archive; the code at line 128 restarts the current one (the fixpoint is the same, the
  provider chosen may differ).
* `src/link/DeadCodeEliminator.hpp:11` says every export is reachable; with a start
  function the exports are not roots (`.cpp:78-89`).
* The insertion that `UndefinedReported` shows can also make an extern object that nothing
  uses look used, so that it is reported.
* Function tables are concatenated, so one function has two pointer values when its
  address is taken in two units.
* The run-time initialization of a static local stores to an address that is not among
  those the linker relocates.
* `int a[]; int b; int a[3];` gives `a` the four bytes of its first declaration.

Statements:

* A case label inside a nested statement of a switch body is passed over
  (`FunctionCodegen.cpp`, `emitStmt`), and a declaration between the cases is dropped
  (line 3757), both without a diagnostic.
* The value of an i64 switch is wrapped to 32 bits before it is compared (lines 3859-3861).
* The third clause of a `for` is dropped even when it is a call that returns nothing
  (line 3602), which makes the module invalid.
* A jump within a switch body to a label that is itself an item of that body is reported
  as "goto lowering failed": the switch body is no dispatch loop, and its label does
  not count as one that must be entered.

Driver:

* The output stream is not asked whether the bytes were written (`main.cpp:42`): a full disk leaves a truncated
  file and status 0.
* An option that takes a value is ignored when it is the last word; unknown options and a bare `-l` are ignored silently.
* With `-c`, two sources with the same base name overwrite each other's object. `-o`, `--map=` and the default `a.wasm` may
  overwrite an input. The map file is left on disk when symbols are unresolved or the program does not validate.
* The help says that `--ast` writes to standard output (line 87); the code writes `<base>_ast.xml` (line 609).
* An archive given as an input is compiled as a C source. A library that is not found is passed over for libc whether or not there is
  a sysroot, though the comment speaks of none. What the linker notes is printed only with `-v`.

Tokenizer:

* CR LF in a block comment yields a line end. An unmatched apostrophe leaves the scanner inside a
  character constant past the end of the line.
* Inside strings neither splices are removed nor trigraphs replaced; a trigraph for the backslash does not splice. A splice between the two
  characters of a comment delimiter hides it, and one at the end of a `//` comment does not continue it.
* A comment directly behind a trigraph loses its space.

Preprocessor:

* A string literal in the replacement of an object-like macro is joined by looking ahead in the file
  before the directives there are handled; what it finds gets into the lexeme only.
* The lexer drops the prefix of a string literal (`Lexer.cpp:293`).
* `__LINE__` in a nested macro is the line of its `#define`. `#__VA_ARGS__` loses the white space behind commas; a line end in a stringized
  argument stays one.
* `f()` is never expanded for a macro without parameters. Empty arguments at the end, placemarkers and a `##` that comes out
  of an argument are treated in other ways than the standard's.
* An indented `#` starts no directive. `#undef` in a header has no effect outside; `__FILE__` in a header is the outer file; a cycle of
  guarded headers is rejected; an unterminated `#if` is not reported; what stands behind `#ifdef` or `#endif` is handed on;
  the condition of an `#if` in a skipped group is evaluated.
* A function-like name at the end of a line is not expanded with an argument list on the next.
* `#if`: `0 && 1/0` is an error, since no operand is left unevaluated; the count of a shift is taken modulo 64; the least value divided by -1 stops
  the compiler; escapes, multi-character and prefixed constants are rejected; a decimal constant that does not fit is unsigned.

Types and constants:

* Enumerations as members, and typedef names of any type, are eight bytes in the layout and four elsewhere. `_Alignas` of a
  member counts in `sizeof` in constant expressions but not in the layout.
* Constant expressions apply the layers of a declarator in the wrong order (`int *p[3]` has 8 bytes, `int (*p)[2]` 16), although the
  comment at `ConstExprEval.cpp:63-66` says that they mirror the layout; semantic analysis reverses arrays of parenthesized declarators, too.
  A flexible array of pointers and an empty struct as a member have other sizes than in the layout.
* Unsigned arithmetic of 32 bits is not reduced; `unsigned char` and `unsigned short` operands stay unsigned; `?:` keeps the signedness of the branch
  chosen; a cast to an enumeration does not narrow. `1 + 1u` is taken to be an `int`, `1L + 1UL` a `long`. A decimal `ll` constant too large for its type is accepted.
* `getOrderedFieldNames` passes over anonymous members, and bit-fields in them are not handed on. A compound assignment to a bit-field stores
  the whole unit (`FunctionCodegen.cpp:840-876`), although the comment at lines 923-926 says only the field's bits. The value of an assignment to a signed
  bit-field is not sign-extended. A width that is not a literal is laid out as zero (`LayoutEngine.cpp:213-216`).

Runtime:

* A short write by the host drops the rest of the buffer. `fseek`, which then counts without the pending bytes, and `freopen` ignore a failed flush; `setvbuf` with the program's
  buffer drops pending bytes. A line-buffered `fputc` stores the byte and returns EOF when the flush fails.
* `ftell` between a write in append mode and its flush counts from where the stream was. `ungetc` needs an earlier read. `fgetc` behind the
  end of the file reads again. `rename` takes a read error for the end of the file and removes the source.
* `malloc(SIZE_MAX)` rounds up to no bytes; the heap offset grows without a check; `realloc` copies the new size out of the old block.

## 4. Fairness

The compiler is one sequential process without blocking operations in these
components: it always takes its next step until the phase returns. `FairSpec` of
`ArchivePull` and `DeadCodeElim` and `Spec` of `Tokenizer` and `Driver` therefore have
`WF_vars` of their whole next-state relation, and no more. `ControlFlow` has weak fairness of the silent steps of either machine
(`CSteps`, `WasmSteps`): each is a single thread that runs on. There is none on
`Evaluate`: an expression may never end, and a loop may go round for ever. `Stdio` has no fairness: the program
that calls it may do nothing more.

Where a phase ends in a stuttering step (`Finished`, `Done`, `Ended`), deadlock is checked, so that no early return is
missing. It is not checked where the modelled process ends by itself: a function that returned (`control_flow`; that neither machine waits for the other in vain is
`Arrives`), a text that was read (`tokenizer`; `ReadsToTheEnd`), a struct that is laid out (`types`), a program that exited (`stdio`).
Liveness is checked by TLC only.

## 5. What is proved

Proofs are in the `*_proofs` modules and hold for all values of the constants that
satisfy the `ASSUME`s of the module, which TLC evaluates in the runs. The type invariants are
proved and therefore not among the properties of the runs.

* **ArchivePull_proofs.** Assumptions: the names of the model belong to `Name` and the
  command lines are well formed (`NamesAssumption`, `CommandsAssumption`); archives,
  members and names are unbounded. `TypeCorrect`; `OneDefinitionHolds`;
  `PullJustifiedHolds`; `FixpointHolds`; `Refinement` (`Spec => Closure!Spec`). None of
  the properties is inductive. `LinkInv` adds that the output's names are exactly the
  union of those of the merged units, and where each came from; `ScanInv` says what a
  quiet scan has established: as long as `progress` is false, every member before the
  scan position exports nothing in `need`, and `need` is the unresolved set, except
  for the seed before the first pull. `Fixpoint` and the last step of the refinement
  (no wanted member left) follow from it at the end of a pass.
* **DeadCodeElim_proofs.** Any module. `TypeCorrect`, `MarkCompleteHolds`,
  `MarkSoundHolds`, `SameMeaningHolds`, `ExportsFollowHolds`. `MarkInv`: the marked
  functions are those finished or on the worklist, what a finished one refers to is
  marked, and every marked one is in every closed set that holds the roots.
  `SweepInv`: the functions kept so far and the remap table are inverse to each other.
* **GlobalDataAllocator_proofs.** Any list of declarations, any sizes, alignments 1, 2, 4,
  8. `TypeCorrect`, `StoragePlacedHolds`, `AboveStaticsHolds`. `StoragePlaced` is
  inductive once the first object's address is part of it; `AlignUp`'s bounds and
  divisibility are lemmas.
* **DataLayout_proofs.** Any sequence of units that satisfy `ValidUnit`. `TypeCorrect`,
  `OneAddressHolds`, `DisjointHolds`, `HeapAboveHolds`, `AlignedHolds`. The invariant: every
  tracked reference holds its object's address plus its unit's shift (`Relocated`), moved
  blocks end below `dataTop` (`BelowTop`), blocks of different units are apart
  (`BlocksApart`), shifts of anchored units are multiples of eight (`DeltasAligned`).
  Disjointness of objects follows from blocks across units and from `ValidUnit` within one.

* **Driver_proofs.** Any command line, any world, any number of diagnostics: all four properties of the run.
  `LinesAssumption` is about how words are written down: text after an option is told
  apart only where the option may be followed by it, and no word is the name the model gives to standard output. A word is split
  at its last dot, so none has the ending `_ast.xml` that the model gives to the file an AST is written to; the driver takes one input
  with `--ast` (`main.cpp:573-577`), and that file is never it.
  `StatusTruthful` (`ExitTruthful`) and `PrintedOnce` (`EveryDiagnosticOnce`) follow from `Reports`, which says
  of every program counter what has been raised but not shown (nothing, or the linker's log while it is
  being printed), that no error was shown while the driver still runs, and that
  semantic analysis appends to a list that holds none.
  `FilesDelivered` (`Delivered`) and `InputsSurvive` (`InputsKept`) need three more invariants, which with `Reports`
  make `RunInv`. `ReadInv`: what has been read is what the reference makes of the words before the
  current one, and a word is being read only if it stands at a head, not where the option before it takes a value.
  `WorkInv`, by program counter: what the phases have made of the unit at hand, that the units
  before it are on disk and that those from it on still hold what was given, that the link's inputs are the units and
  the archives found so far. `KeptInv`: nothing has been written, or every input not named as an output is as given.
  The reference reads the line at once, by sets of positions; the lemmas about `Upwards`, `Values` and `LastValue` say
  how each grows when one more word is read, by counting. `FinalDelivers` then turns the last state into the set of
  files asked for, one case per mode; that a later input may overwrite the output of an earlier one is
  why `Delivered` needs distinct names (`Apart`).
* **Stdio_proofs.** Assumption: the standard output is not one of the program's files, which
  hold bytes (`FilesAssumption`); any number of files and streams, any size of the buffers. `StreamsSound`: type
  correctness and `StreamsInv`, the invariant of the other two. It relates the flags, the two buffers and the offset of each
  stream: pending bytes belong to a writer that is set up and has registered the hook;
  nothing is both pending and unread; what is unread and was not pushed back is what the file holds just before the
  offset; no two streams share a file. `HeldIsReached` (`HeldIsFlushedAtExit`) and
  `StreamsImplement` (`ImplementsStdio`, one lemma per call) have the hypothesis `MaxOpens <= StreamsMax`: a stream opened
  after the registry is full is not flushed at exit. `StreamsImplement` has another, that the programs are `careful`: nothing is
  unread when they seek from where they are or where the host refuses. Both are disagreements of section 3. `RegistryInv` adds
  that slot `i` holds stream `i` until it is closed. Each call is shown to put, keep or take exactly what the stream without
  buffers would: `Meant` is the file as it will be, `End` the place in it where the stream stands.

* **Linker_proofs, LinkerLive_proofs.** Any set of jobs, any number of units, archives, members and declarations. `NamesCorrect` (`NamesAgree`),
  `RefsCorrect` (`RefsFaithful`) in the first, `LiveCorrect` (`ExactlyLive`) and `DiagnosedCorrect` (`FunctionsDiagnosed`) in the
  second, which extends it: all the properties of the run. `JobsAssumption` says what a job is: the units are well formed (a body uses functions
  that its unit declares; the compiler rejects the others); a unit is not named as a module that is imported
  from, since the properties know a definition by its unit and an import by its module; no
  function is imported under the name of one of the two runtime globals; `env` is not a host module and `sys_proc` is
  (`kHostModules`, `SymbolResolver.cpp:18`); and no unit imports a name that another one exports without meaning to.
  The last excludes programs that the code links against a `static` object of another unit, or a `static` `main`,
  which is the disagreement of section 3: `RefsFaithful` does not hold of them. `NamesAssumption` says that
  names tell things apart: the model's name of a unit stands for the file or member it is read from (the code never compares units
  by name), so different places have different names and none is that of the wrapper's or the host's module; and a unit defines a function once,
  as the compiler makes sure (`Parser.cpp:1200`, `Semantic.cpp:2020`). The last two theorems need it: "each once" and
  "the calls of a function" would otherwise speak of two functions by one name.

  *References.* The argument follows the phases. `ScanTyped` ties the scan to the job's inputs. `MergeInv` holds while units are merged:
  every reference is in range and denotes its own symbol (`Named`), the exports and both index spaces are exactly
  those of the units merged so far, exports have distinct names, and `exports` and `imports` are the output's, which is
  `NamesAgree` (`MergedFrom`). `LinkInv` hands over: after resolution every reference denotes what C's linkage rules say and the imports left
  are those no unit defines (`ImportsResolved`); after crt0, dead code elimination and pruning it still does, and the
  start function is the wrapper (`Linked`). A program may use extern objects that nobody defines; its functions are
  linked all the same, and only what is said of globals, from crt0 on, has the hypothesis that there are none. Neither property is inductive: a merge keeps `Named` only because
  slots hold functions, imports are listed once, and old and new numbers agree in the joined
  spaces; resolution is right only because exporters are unique. Each phase is a renumbering, and one lemma (`MovedDenotes`)
  says when a renumbered reference keeps what it denotes. What the operators on sequences return (`Kept`, `Without`, `NewNumber`, `Firsts`, `PositionOf`)
  are lemmas by counting; `MarkWorks` shows that the limit computed by `Mark` holds the roots and is closed under calls,
  so that nothing that stays refers to what goes.

  *Liveness of functions.* `ExactlyLive` compares two sets that are computed from different things: `Live` from the names in the sources,
  `Mark` from the numbers in a module that was merged, resolved and renumbered. `OutlineInv` says what the merge and
  resolution keep: the module's functions are those of the units, each once, each with the calls of its source, and its table holds
  the functions whose address is taken. `LiveInv` says that when dead code elimination starts the module also has the wrapper,
  which calls the entry, and the exports (`Whichever`), and that afterwards it holds the live functions (`LiveOnly`). Between the two
  stands that `Mark` is the least set that holds the roots and is closed (`MarkWorks`, `MarkLeast`), that
  `Live` is one (`LiveIs`, `GrowStage`: a stage that is not closed adds a function, so that as many stages as there are
  functions are enough; `LiveLeast`), and, by `LinkInv`, that a number calls what its source calls.

  *Diagnostics.* `ReportInv` says what has been reported in each phase, and that after pruning the function imports left are
  exactly the live functions nobody defines: a marked body keeps its imports, an unmarked one is gone. That nobody imports a global
  by then needs every extern object to be defined, which is the hypothesis of the property; an undefined object is
  the disagreement of section 3.

Only model-checked: `Termination`, `Arrives` and `ReadsToTheEnd` (liveness under fairness is beyond the
prover); `ControlFlow`, the tokenizer, the preprocessor and the types, whose properties speak of
recursive operators over trees and texts, which the prover does not take.

## 6. What is not modelled, and why

* Wording of messages, logging, columns in diagnostics and the text of the map file; in the linker the types of
  functions (a reference is to a function or a global, never to a type), memories other
  than 0, the size of the shadow stack and the `argv` block, the byte format of object
  files and archives (only its outcomes), the bytes of initializers (only whether there
  are any), element segments other than the function table.
* `phaseIndirectTableMerge` and `applyRelocations`, which `phaseRelocApply` calls, change nothing (`Linker.cpp:169-177`, `RelocApply.cpp`); `printTokenStats` is never called.
* In the statements: expressions (their values and effects are events), scalar locals,
  variable-length arrays (not supported), `_Static_assert`, and
  bodies the parser rejects. Function bodies with the constructs listed as disagreements
  above are not among those of the passing run; the same holds for the sources, documents and structs of the other runs.
* In the types: floating members, `_Atomic`, the field names of initializers, the cache of function types.
* In stdio: failing and short host writes (except where a call of the program fails as a whole), in particular while `fseek` flushes,
  and a seek on a stream whose error was not cleared; `ftell` between a write in append mode and its flush; formatted input and output,
  which only calls what is modelled, `fgetpos` and `fsetpos`, which are `ftell` and `fseek`, and the program's misuse of streams, which C
  leaves undefined.
* AST printing, visitors, most of libc: pure functions or thin wrappers. The parser beyond declarators and constants is a
  recursive descent that builds a tree.
* The allocator, scopes and the code generator's expressions are planned, not left out.

## 7. Plan

In the order of importance.

1. *Done:* the modules above.
2. *Done:* theorems about every property of `Driver` and `Stdio`.
3. *Done:* the linker's lemmas and theorems about all its properties.
4. **Allocator.** `malloc` over the heap base (`HeapBase`, wrap at `SIZE_MAX`).
   Composes with `HeapAbove`. Theorem: blocks handed out are apart and above the statics.
5. **Semantic analysis.** Scopes for typedef names and identifiers;
   tentative definitions over a whole unit, composed with `GlobalDataAllocator`.
6. **Code generation, the rest.** Frame allocation of locals and parameters; the tagged pointers;
   conversions; short-circuit and conditional operators, run side by side as the statements are.

Conventions for all of it: parameters are `CONSTANTS` with named assumptions, one action
per operation, invariants are conjunctions of named parts, recursion only as recursive
functions or folds in modules with theorems, proofs in a module of their own. New
questions are added to the runs of the module that answers them, so that the number of
runs stays small.
