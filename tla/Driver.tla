------------------------------- MODULE Driver -------------------------------
(***************************************************************************)
(* exec/main.cpp and exec/Sysroot.cpp: one run of the command wvmcc.  The  *)
(* arguments are read one by one, a mode is chosen, each input goes        *)
(* through its phases, and in the link path the archives are found, the    *)
(* linker runs and the program is written.  What a phase finds in a file   *)
(* is open: every phase may fail or report.  The model keeps what reaches  *)
(* the disk, made from what and with which options, what is reported and   *)
(* the exit status.                                                        *)
(*                                                                         *)
(* A word of the command line is a record: the option it starts with ("")  *)
(* for none), and the rest of its text as a name and its extension.        *)
(***************************************************************************)
EXTENDS Integers, SequencesExt

CONSTANTS
  Lines,            \* the command lines, sequences of words
  Worlds,           \* [env, install, archives]: WVMCC_SYSROOT, the sysroot beside
                    \* the executable, and the archives as <<directory, name>>
  MaxDiagnostics    \* bound: diagnostics the phases of one run report

VARIABLES
  argv, world,
  pc,         \* what comes next
  arg, args,  \* index of the next argument, and CommandLineArgs
  unit,       \* index of the input at hand
  list,       \* the parser's diagnostics of this unit
  built,      \* what the phases have made of this unit
  inputs,     \* linkInputs
  lib,        \* index of the library to find
  log,        \* the linker's diagnostics
  disk,       \* contents of the files, standard output among them
  raised,     \* every diagnostic found, in order
  shown,      \* every diagnostic printed, in order
  status      \* the exit status, once there is one

vars == <<argv, world, pc, arg, args, unit, list, built, inputs, lib, log, disk, raised, shown, status>>
command == <<argv, world>>
reading == <<arg, args>>
linking == <<inputs, lib, log>>
report == <<raised, shown>>

Word(base, ext) == [opt |-> "", base |-> base, ext |-> ext]
Empty == Word("", "")
Text(w) == [w EXCEPT !.opt = ""]      \* what follows the option in the same word
Attached(w) == Text(w) # Empty
Running == -1
Stdout == Word("standard output", "")
Given(f) == [kind |-> "given", of |-> f]
Written(f, content) == [g \in DOMAIN disk \union {f} |-> IF g = f THEN content ELSE disk[g]]

Options == {"--ast", "-E", "-c", "-ffreestanding", "-nostdlib", "-v"}
WithValue == {"-o", "-I", "-isystem", "-L", "--import-module", "--sysroot"}
WithText == {"-I", "-L", "-l"}
Equated == [o \in {"--map=", "--import-module=", "--sysroot="} |->
              CASE o = "--map=" -> "--map" [] o = "--sysroot=" -> "--sysroot" [] OTHER -> "--import-module"]
Awaits(w) == w.opt \in WithValue /\ ~Attached(w)

\* Of a word that starts with an option, the rest of the text is told apart only where the option may be followed by it.
\* A word is split at its last dot, so none has the ending that the model gives to the file the AST of a source goes
\* to; with --ast there is one input, and that file is never it.  No word names standard output.
Words == {w \in [opt : STRING, base : STRING, ext : STRING] :
            /\ Attached(w) => w.opt \in {""} \union WithText \union DOMAIN Equated
            /\ w # Stdout /\ w.ext # "_ast.xml"}
ASSUME LinesAssumption == Lines \subseteq Seq(Words)

NoArgs == [out |-> Empty, inputs |-> <<>>, include |-> <<>>, system |-> <<>>, dirs |-> <<>>, libs |-> <<>>,
           sysroot |-> Empty, map |-> Empty, imports |-> <<>>, flags |-> {}]

Init ==
  /\ argv \in Lines /\ world \in Worlds
  /\ pc = "arguments" /\ arg = 1 /\ args = NoArgs
  /\ unit = 1 /\ list = <<>> /\ built = Given(Empty)
  /\ inputs = <<>> /\ lib = 1 /\ log = <<>>
  /\ disk = [f \in {argv[i] : i \in {j \in DOMAIN argv : argv[j].opt = ""}} |-> Given(f)]
  /\ raised = <<>> /\ shown = <<>> /\ status = Running

Diagnostic(phase, severity) == [unit |-> unit, phase |-> phase, severity |-> severity]
HasError(ds) == \E i \in DOMAIN ds : ds[i].severity = "error"
\* what a phase may report: nothing, a warning or an error
Batches(phase) ==
  {<<>>} \union (IF Len(raised) < MaxDiagnostics THEN {<<Diagnostic(phase, s)>> : s \in {"warning", "error"}} ELSE {})
PrintDiagnostics(ds) == shown' = shown \o ds
Raise(ds) == raised' = raised \o ds
Report(ds) == Raise(ds) /\ PrintDiagnostics(ds)
Exit(code) == pc' = "done" /\ status' = code
Continue(next) == pc' = next /\ UNCHANGED status
Fail(phase, code) == Report(<<Diagnostic(phase, "error")>>) /\ Exit(code)

-----------------------------------------------------------------------------
(* parseCommandLine *)

Take(o, v) ==
  CASE o = "-o" -> [args EXCEPT !.out = v]
    [] o = "-I" -> [args EXCEPT !.include = Append(@, v)]
    [] o = "-isystem" -> [args EXCEPT !.system = Append(@, v)]
    [] o = "-L" -> [args EXCEPT !.dirs = Append(@, v)]
    [] o = "-l" -> [args EXCEPT !.libs = Append(@, v)]
    [] o = "--sysroot" -> [args EXCEPT !.sysroot = v]
    [] o = "--map" -> [args EXCEPT !.map = v]
    [] o = "--import-module" -> [args EXCEPT !.imports = IF v = Empty THEN @ ELSE Append(@, v)]

Argument == argv[arg]
Stride(w) == IF Awaits(w) THEN 2 ELSE 1

ReadArgument ==
  /\ pc = "arguments" /\ arg <= Len(argv)
  /\ Argument.opt \notin {"--help", "-h", "--version"}
  /\ ~(Awaits(Argument) /\ arg = Len(argv))
  /\ arg' = arg + Stride(Argument)
  /\ args' = CASE Argument.opt \in Options -> [args EXCEPT !.flags = @ \union {Argument.opt}]
               [] Awaits(Argument) -> Take(Argument.opt, argv[arg + 1])
               [] Argument.opt \in WithText /\ Attached(Argument) -> Take(Argument.opt, Text(Argument))
               [] Argument.opt \in DOMAIN Equated -> Take(Equated[Argument.opt], Text(Argument))
               [] Argument.opt = "" /\ Argument # Empty -> [args EXCEPT !.inputs = Append(@, Argument)]
               [] OTHER -> args
  /\ UNCHANGED <<command, pc, unit, list, built, linking, disk, report, status>>

\* -o at the end of the line is dropped without a word
LastArgumentAwaits ==
  /\ pc = "arguments" /\ arg = Len(argv) /\ Awaits(Argument)
  /\ arg' = arg + 1
  /\ IF Argument.opt = "-o" THEN Continue(pc) /\ UNCHANGED report ELSE Fail("usage", 2)
  /\ UNCHANGED <<command, args, unit, list, built, linking, disk>>

ShowHelp ==
  /\ pc = "arguments" /\ arg <= Len(argv) /\ Argument.opt \in {"--help", "-h", "--version"}
  /\ Exit(0)
  /\ UNCHANGED <<command, reading, unit, list, built, linking, disk, report>>

-----------------------------------------------------------------------------
(* resolveSysroot, classifyInput and the choice of a mode *)

Sysroot ==
  IF args.sysroot # Empty THEN args.sysroot
  ELSE IF world.env # Empty THEN world.env ELSE world.install

IsObject(f) == f.ext \in {".o", ".wasm", ".obj"}

Mode ==
  IF "-E" \in args.flags THEN "-E"
  ELSE IF "--ast" \in args.flags THEN "--ast"
  ELSE IF "-ffreestanding" \in args.flags THEN "-ffreestanding"
  ELSE IF "-c" \in args.flags THEN "-c" ELSE "link"

\* Fault: an object given with -c is compiled like a source.
RefusedObjects ==
  \/ Len(args.inputs) = 0
  \/ Mode # "link" /\ Len(args.inputs) # 1 /\ (Mode \in {"-E", "--ast"} \/ args.out # Empty)
Refused ==
  \/ args.inputs = <<>>
  \/ Mode \in {"-E", "--ast"} /\ Len(args.inputs) # 1
  \/ Mode \in {"-c", "-ffreestanding"} /\ (\E i \in DOMAIN args.inputs : IsObject(args.inputs[i]))
  \/ Mode \in {"-c", "-ffreestanding"} /\ Len(args.inputs) # 1 /\ args.out # Empty

SelectMode ==
  /\ pc = "arguments" /\ arg > Len(argv)
  /\ IF Refused THEN Fail("usage", 2) ELSE Continue("open") /\ UNCHANGED report
  /\ UNCHANGED <<command, reading, unit, list, built, linking, disk>>

-----------------------------------------------------------------------------
(* the phases of one source *)

Input == args.inputs[unit]
Loads == Mode = "link" /\ IsObject(Input)

OpenSource ==
  /\ pc = "open" /\ unit <= Len(args.inputs) /\ ~Loads
  /\ \/ Fail("open", 1) /\ UNCHANGED <<list, built>>
     \/ Continue("front") /\ list' = <<>> /\ built' = disk[Input] /\ UNCHANGED report
  /\ UNCHANGED <<command, reading, unit, linking, disk>>

Preprocessed(source) ==
  [kind |-> "text", from |-> source, include |-> args.include, system |-> args.system, sysroot |-> Sysroot]

Preprocess ==
  /\ pc = "front" /\ Mode = "-E"
  /\ disk' = Written(Stdout, Preprocessed(built))
  /\ \E ds \in Batches("preprocess") : Report(ds) /\ Exit(IF HasError(ds) THEN 1 ELSE 0)
  /\ UNCHANGED <<command, reading, unit, list, built, linking>>

\* Fault: only the parser's errors stop the compilation.
FrontFailsInParser(pp, ps) == HasError(ps)
FrontFails(pp, ps) == HasError(pp) \/ HasError(ps)

\* the parser draws its tokens from the preprocessor: both report before either is printed
Parse ==
  /\ pc = "front" /\ Mode # "-E"
  /\ \E pp \in Batches("preprocess"), ps \in Batches("parse") :
       /\ Len(raised) + Len(pp) + Len(ps) <= MaxDiagnostics
       /\ Report(pp \o ps)
       /\ list' = ps
       /\ IF FrontFails(pp, ps) THEN Exit(1) ELSE Continue(IF Mode = "--ast" THEN "write" ELSE "semantic")
  /\ built' = Preprocessed(built)
  /\ UNCHANGED <<command, reading, unit, linking, disk>>

\* Fault: the whole list is printed again.
AddedAll(before, after) == after
Added(before, after) == SubSeq(after, Len(before) + 1, Len(after))

\* Semantic::run appends to the parser's list, and fails when the list holds an error
RunSemantic ==
  /\ pc = "semantic"
  /\ \E ds \in Batches("semantic") :
       /\ list' = list \o ds /\ Raise(ds)
       /\ PrintDiagnostics(Added(list, list \o ds))
       /\ IF HasError(list \o ds) \/ HasError(Added(list, list \o ds)) THEN Exit(1) ELSE Continue("generate")
  /\ UNCHANGED <<command, reading, unit, built, linking, disk>>

CompileMode == IF Mode = "-ffreestanding" THEN "freestanding" ELSE "linkable"

Generate ==
  /\ pc = "generate"
  /\ built' = [kind |-> "module", from |-> built, mode |-> CompileMode, sections |-> FALSE]
  /\ \E ds \in Batches("codegen") :
       Report(ds) /\ (IF HasError(ds) THEN Exit(1) ELSE Continue("validate"))
  /\ UNCHANGED <<command, reading, unit, list, linking, disk>>

Validate ==
  /\ pc = "validate"
  /\ \/ Fail("validate", 1) /\ UNCHANGED <<unit, inputs>>
     \/ /\ UNCHANGED report
        /\ IF Mode = "link" THEN /\ inputs' = Append(inputs, built)
                                 /\ unit' = unit + 1
                                 /\ Continue("open")
           ELSE UNCHANGED <<unit, inputs>> /\ Continue("write")
  /\ UNCHANGED <<command, reading, list, built, lib, log, disk>>

OutFile ==
  IF Mode = "--ast" THEN [Input EXCEPT !.ext = "_ast.xml"]
  ELSE IF args.out # Empty THEN args.out
  ELSE [Input EXCEPT !.ext = IF Mode = "-ffreestanding" THEN ".wasm" ELSE ".o"]
\* a linkable module is written with its linking and reloc.CODE sections
Encoded(m) == IF Mode = "--ast" THEN [kind |-> "ast", from |-> m] ELSE [m EXCEPT !.sections = m.mode = "linkable"]

WriteObject ==
  /\ pc = "write" /\ Mode # "link"
  /\ \/ Fail("write", 1) /\ UNCHANGED <<unit, disk>>
     \/ /\ disk' = Written(OutFile, Encoded(built))
        /\ unit' = unit + 1
        /\ Continue("open") /\ UNCHANGED report
  /\ UNCHANGED <<command, reading, list, built, linking>>

AllWritten ==
  /\ pc = "open" /\ unit > Len(args.inputs) /\ Mode # "link"
  /\ Exit(0)
  /\ UNCHANGED <<command, reading, unit, list, built, linking, disk, report>>

-----------------------------------------------------------------------------
(* the link path *)

LoadObject ==
  /\ pc = "open" /\ unit <= Len(args.inputs) /\ Loads
  /\ \/ Fail("object", 1) /\ UNCHANGED <<unit, inputs>>
     \/ /\ inputs' = Append(inputs, disk[Input])
        /\ unit' = unit + 1
        /\ Continue(pc) /\ UNCHANGED report
  /\ UNCHANGED <<command, reading, list, built, lib, log, disk>>

AllCompiled ==
  /\ pc = "open" /\ unit > Len(args.inputs) /\ Mode = "link"
  /\ Continue("libraries")
  /\ UNCHANGED <<command, reading, unit, list, built, linking, disk, report>>

C == Word("c", "")
Libraries == args.libs \o (IF "-nostdlib" \in args.flags THEN <<>> ELSE <<C>>)
LibOf(root) == [root EXCEPT !.ext = "/lib"]
\* Fault: the sysroot is searched before the directories of -L.
SearchPathSysroot(root) == (IF root = Empty THEN <<>> ELSE <<LibOf(root)>>) \o args.dirs
SearchPath(root) == args.dirs \o (IF root = Empty THEN <<>> ELSE <<LibOf(root)>>)
Holding(path, name) == {i \in DOMAIN path : <<path[i], name>> \in world.archives}
ResolveLib(name) == LET path == SearchPath(Sysroot) IN path[Min(Holding(path, name))]

\* the default libc may be missing, a library asked for may not
FindLibrary ==
  /\ pc = "libraries" /\ lib <= Len(Libraries)
  /\ LET name == Libraries[lib]
         found == Holding(SearchPath(Sysroot), name) # {}
         implied == name = C /\ "-nostdlib" \notin args.flags /\ C \notin ToSet(args.libs)
     IN \/ /\ found
           /\ inputs' = Append(inputs, [kind |-> "archive", dir |-> ResolveLib(name), name |-> name])
           /\ lib' = lib + 1 /\ Continue(pc) /\ UNCHANGED report
        \/ /\ ~found /\ implied
           /\ lib' = lib + 1 /\ Continue(pc) /\ UNCHANGED <<inputs, report>>
        \/ /\ ~found /\ ~implied
           /\ Fail("library", 1) /\ UNCHANGED <<inputs, lib>>
  /\ UNCHANGED <<command, reading, unit, list, built, log, disk>>

Linked(from) ==
  [kind |-> "program", inputs |-> from, imports |-> args.imports, stdlib |-> "-nostdlib" \notin args.flags]
Map(from) == [kind |-> "map", of |-> Linked(from)]
Unless(ok, phase) == IF ok THEN <<>> ELSE <<Diagnostic(phase, "error")>>

\* an error of the merge ends link() early; after it the map is written, whatever the rest reports
Link ==
  /\ pc = "libraries" /\ lib > Len(Libraries)
  /\ \E merged, resolved, opens \in BOOLEAN :
       /\ ~merged => resolved /\ opens
       /\ args.map = Empty => opens
       /\ log' = Unless(merged, "merge") \o Unless(resolved, "symbols") \o Unless(opens, "map")
       /\ disk' = IF merged /\ opens /\ args.map # Empty THEN Written(args.map, Map(inputs)) ELSE disk
  /\ Raise(log') /\ Continue("log")
  /\ UNCHANGED <<command, reading, unit, list, built, inputs, lib, shown>>

ShowLog ==
  /\ pc = "log"
  /\ PrintDiagnostics(IF "-v" \in args.flags \/ HasError(log) THEN log ELSE <<>>)
  /\ IF HasError(log) THEN Exit(1) ELSE Continue("check")
  /\ UNCHANGED <<command, reading, unit, list, built, linking, disk, raised>>

ValidateProgram ==
  /\ pc = "check"
  /\ \/ Fail("validate", 1)
     \/ Continue("write") /\ UNCHANGED report
  /\ UNCHANGED <<command, reading, unit, list, built, linking, disk>>

Target == IF args.out = Empty THEN Word("a", ".wasm") ELSE args.out

WriteProgram ==
  /\ pc = "write" /\ Mode = "link"
  /\ \/ Fail("write", 1) /\ UNCHANGED disk
     \/ disk' = Written(Target, Linked(inputs)) /\ Exit(0) /\ UNCHANGED report
  /\ UNCHANGED <<command, reading, unit, list, built, linking>>

\* the process has ended
Ended == status # Running /\ UNCHANGED vars

Next ==
  \/ ReadArgument \/ LastArgumentAwaits \/ ShowHelp \/ SelectMode
  \/ OpenSource \/ Preprocess \/ Parse \/ RunSemantic \/ Generate \/ Validate \/ WriteObject \/ AllWritten
  \/ LoadObject \/ AllCompiled \/ FindLibrary \/ Link \/ ShowLog \/ ValidateProgram \/ WriteProgram
  \/ Ended

Spec == Init /\ [][Next]_vars /\ WF_vars(Next)

-----------------------------------------------------------------------------
(***************************************************************************)
(* What a command line asks for, as showHelp and README.md put it, read    *)
(* from the words at once rather than one after the other.                 *)
(***************************************************************************)
\* The word at i is the value of the option before it: directly before it stand an odd number of words that await one.
IsValue(l, i) ==
  \E k \in 1 .. i - 1 :
    /\ (i - k) % 2 = 1
    /\ \A j \in k .. i - 1 : Awaits(l[j])
    /\ k > 1 => ~Awaits(l[k - 1])
Heads(l) == {i \in DOMAIN l : ~IsValue(l, i)}

\* where options are used, and the words they are given
Value(l, i) == IF Awaits(l[i]) THEN l[i + 1] ELSE Text(l[i])
Uses(l, opts) == {i \in Heads(l) : l[i].opt \in opts /\ (Awaits(l[i]) => i < Len(l))}
Named(l, opts) == {i \in Uses(l, opts) : Value(l, i) # Empty}

\* The elements of a set of numbers from the least to the greatest.
Nth(K, n) == CHOOSE k \in K : Cardinality({j \in K : j <= k}) = n
Upwards(K) == [n \in 1 .. Cardinality(K) |-> Nth(K, n)]
Values(l, K) == LET at == Upwards(K) IN [n \in DOMAIN at |-> Value(l, at[n])]
LastValue(l, K) == IF K = {} THEN Empty ELSE Value(l, Max(K))

ValuesOf(l, opt) == Values(l, Uses(l, {opt}))
Has(l, o) == \E i \in Heads(l) : l[i].opt = o
Operands(l) == Values(l, Named(l, {""}))

RootFor(l, w) ==
  LET roots == <<LastValue(l, Uses(l, {"--sysroot", "--sysroot="})), w.env, w.install>>
      set == {i \in DOMAIN roots : roots[i] # Empty}
  IN IF set = {} THEN Empty ELSE roots[Min(set)]

TextOf(l, w, f) ==
  [kind |-> "text", from |-> Given(f), include |-> ValuesOf(l, "-I"), system |-> ValuesOf(l, "-isystem"),
   sysroot |-> RootFor(l, w)]
ModuleOf(l, w, f, mode, sections) ==
  [kind |-> "module", from |-> TextOf(l, w, f), mode |-> mode, sections |-> sections]

NamesFor(l) == Values(l, Named(l, {"-l"})) \o (IF Has(l, "-nostdlib") THEN <<>> ELSE <<C>>)
DirsFor(l, w) == ValuesOf(l, "-L") \o (IF RootFor(l, w) = Empty THEN <<>> ELSE <<LibOf(RootFor(l, w))>>)
ArchivesFor(l, w) ==
  LET names == NamesFor(l)
      dirs == DirsFor(l, w)
      With(n) == {i \in DOMAIN dirs : <<dirs[i], n>> \in w.archives}
      found == Upwards({k \in DOMAIN names : With(names[k]) # {}})
  IN [n \in DOMAIN found |->
        [kind |-> "archive", dir |-> dirs[Min(With(names[found[n]]))], name |-> names[found[n]]]]

ProgramFor(l, w) ==
  [kind |-> "program", imports |-> Values(l, Named(l, {"--import-module", "--import-module="})),
   stdlib |-> ~Has(l, "-nostdlib"),
   inputs |-> [k \in DOMAIN Operands(l) |->
                 IF IsObject(Operands(l)[k]) THEN Given(Operands(l)[k])
                 ELSE ModuleOf(l, w, Operands(l)[k], "linkable", FALSE)] \o ArchivesFor(l, w)]

OutputOf(l) == LastValue(l, Uses(l, {"-o"}))
MapOf(l) == LastValue(l, Uses(l, {"--map="}))
Linking(l) == \A o \in {"-E", "--ast", "-ffreestanding", "-c"} : ~Has(l, o)
Informs(l) == Has(l, "-h") \/ Has(l, "--help") \/ Has(l, "--version")

\* the files the command line asks for, with their contents
Asked(l, w) ==
  LET each == ToSet(Operands(l))
      objects(mode, ext) ==
        {[file |-> IF OutputOf(l) = Empty THEN [f EXCEPT !.ext = ext] ELSE OutputOf(l),
          content |-> ModuleOf(l, w, f, mode, mode = "linkable")] : f \in each}
  IN IF Informs(l) THEN {}
     ELSE IF Has(l, "-E") THEN {[file |-> Stdout, content |-> TextOf(l, w, f)] : f \in each}
     ELSE IF Has(l, "--ast")
     THEN {[file |-> [f EXCEPT !.ext = "_ast.xml"],
            content |-> [kind |-> "ast", from |-> TextOf(l, w, f)]] : f \in each}
     ELSE IF Has(l, "-ffreestanding") THEN objects("freestanding", ".wasm")
     ELSE IF Has(l, "-c") THEN objects("linkable", ".o")
     ELSE {[file |-> IF OutputOf(l) = Empty THEN Word("a", ".wasm") ELSE OutputOf(l), content |-> ProgramFor(l, w)]}
          \union (IF MapOf(l) = Empty THEN {} ELSE {[file |-> MapOf(l), content |-> [kind |-> "map", of |-> ProgramFor(l, w)]]})

\* A run that ends with status 0 has left every file the command line asks for on disk, made from the inputs,
\* the options, the sysroot and the libraries it names, in their order: provided no two have the same name.
Delivered ==
  status = 0 =>
    LET asked == Asked(argv, world)
    IN (\A r, s \in asked : r.file = s.file => r = s)
         => \A r \in asked : r.file \in DOMAIN disk /\ disk[r.file] = r.content

\* The exit status is 0 exactly when no error was found, in any phase of any unit (main.cpp, the policy of hasError).
ExitTruthful == status # Running => (status = 0 <=> ~HasError(raised))

\* Whatever the phases find is printed once each, in the order found: semantic analysis appends to the parser's list
\* after that list was printed, and the linker's errors are printed through its log.
EveryDiagnosticOnce == status # Running => shown = raised

\* No run writes over a file it was given to read, unless -o, --map or the default name a.wasm says so.
InputsKept ==
  \A f \in ToSet(Operands(argv)) :
    \/ disk[f] = Given(f)
    \/ f \in {OutputOf(argv), MapOf(argv)}
    \/ f = Word("a", ".wasm") /\ Linking(argv)
=============================================================================
