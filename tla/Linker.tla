------------------------------- MODULE Linker -------------------------------
(***************************************************************************)
(* The whole link (link() in src/link/Linker.cpp) over reduced modules:    *)
(* ArchivePull decides which objects are merged and when; here each merge  *)
(* also builds the output module, and the later phases resolve its         *)
(* imports, add crt0, remove dead code, prune imports and report what is   *)
(* still undefined.                                                        *)
(***************************************************************************)
EXTENDS LinkableObject, LinkPhases

CONSTANTS
  Jobs,     \* the link jobs considered: [inputs, noStdlib, importModules]
  Name, Module, Builtin   \* as in ArchivePull

VARIABLES
  job,      \* the job: its inputs hold translation units instead of names
  cmd, next, archives, exports, imports, pulled, need, arch, memb, progress,
  pc,       \* the variables of ArchivePull
  out,      \* ctx.output
  phase,    \* the phase link() runs next
  errors    \* ctx.diagnostics: undefined references, "no main"

scanVars == <<cmd, next, archives, exports, imports, pulled, need, arch, memb,
              progress, pc>>
vars == <<job, scanVars, out, phase, errors>>

(* What the scan sees of an object. *)
AbstractUnit(obj) ==
  [exp |-> {obj.exps[k].name : k \in DOMAIN obj.exps}, imp |-> Imports(obj),
   status |-> IF DuplicateExport(EmptyModule, obj) THEN "unlinkable" ELSE "good"]
AbstractInput(in) ==
  IF in.kind = "tu"
    THEN [kind |-> "tu", unit |-> AbstractUnit(Compile(in.tu))]
    ELSE [kind |-> "ar", open |-> TRUE,
          members |-> [k \in DOMAIN in.members |-> AbstractUnit(Compile(in.members[k]))]]
Command(j) == [inputs |-> [k \in DOMAIN j.inputs |-> AbstractInput(j.inputs[k])],
               noStdlib |-> j.noStdlib]
Commands == {Command(j) : j \in Jobs}

Pull == INSTANCE ArchivePull WITH RuntimeState <- {StackPointer, HeapBase}

OpenedInputs == Kept(job.inputs, {k \in DOMAIN job.inputs : job.inputs[k].kind = "ar"})
MemberTU(p) == OpenedInputs[p[1]].members[p[2]]

(* isHostModule: the built-in host modules and those of --import-module.   *)
Host == Builtin \cup job.importModules
Runtime == {imp \in Imports(out) : imp.mod \in Host} \cup StateImports

-----------------------------------------------------------------------------
(* The sources of a job, and what they are taken to be: names of units are *)
(* no import modules (a definition is known by its unit, an import by its  *)
(* module), no function is imported under the name of a runtime global,    *)
(* and no unit imports a name that another one exports without meaning to: *)
(* the code exports static objects, and main even when it is static.       *)
Public(u, kind) ==
  LET decls == Decls(u, IF kind = "glob" THEN "obj" ELSE "func") IN
  {decls[k].name : k \in {j \in DOMAIN decls : ~decls[j].static}}
SourceUnits(inputs) ==
  UNION {IF inputs[k].kind = "tu" THEN {inputs[k].tu} ELSE Range(inputs[k].members) :
           k \in DOMAIN inputs}
Linkable(S) ==
  \A u, v \in S :
    /\ WellFormed(u)
    /\ \A p \in Range(Decls(v, "proto")) :
         /\ u.name # p.mod /\ p.import \notin {StackPointer, HeapBase}
         /\ p.import \in Names(External(u)) => p.import \in Public(u, "func")
    /\ \A x \in Range(Externs(v)) \cap Range(Objects(u)) : x \in Public(u, "glob")
    /\ u.name # Env

(* Externs are imported from "env", which the host does not provide; the   *)
(* sys_proc functions are the host's (kHostModules).                       *)
Input == [kind : {"tu"}, tu : TranslationUnit]
           \cup [kind : {"ar"}, members : Seq(TranslationUnit)]
ASSUME JobsAssumption ==
  /\ Env \notin Builtin /\ "sys_proc" \in Builtin
  /\ \A j \in Jobs : /\ j.inputs \in Seq(Input) /\ Linkable(SourceUnits(j.inputs))
                     /\ Env \notin j.importModules

(* The name of a unit stands for its place: two units of a job, two members *)
(* of an archive among them, have different names, and none has a name     *)
(* that stands for something else (the module of the start wrapper, which  *)
(* no prototype imports from either). A unit defines a function once: the  *)
(* compiler rejects a second definition (Parser.cpp:1200-1213 for static   *)
(* functions, Semantic.cpp:2020-2030 for the others).                      *)
Places(inputs) ==
  UNION {IF inputs[k].kind = "tu" THEN {<<k, 1>>}
                                  ELSE {<<k, i>> : i \in DOMAIN inputs[k].members} :
           k \in DOMAIN inputs}
UnitAt(inputs, p) ==
  IF inputs[p[1]].kind = "tu" THEN inputs[p[1]].tu ELSE inputs[p[1]].members[p[2]]
DefinesOnce(u) ==
  LET funcs == Decls(u, "func") IN
  \A j, k \in DOMAIN funcs : funcs[j].name = funcs[k].name => j = k
ASSUME NamesAssumption ==
  \A j \in Jobs :
    /\ \A p, q \in Places(j.inputs) : UnitAt(j.inputs, p).name = UnitAt(j.inputs, q).name => p = q
    /\ \A u \in SourceUnits(j.inputs) :
         /\ u.name \notin {"sys_proc", "crt0"} /\ DefinesOnce(u)
         /\ \A p \in Range(Decls(u, "proto")) : p.mod # "crt0"

-----------------------------------------------------------------------------
Init ==
  /\ job \in Jobs
  /\ cmd = Command(job)
  /\ Pull!Start
  /\ out = EmptyModule /\ phase = "resolve" /\ errors = {}

(* phaseMerge and lazyPullArchives. *)
MergeTU ==
  /\ Pull!MergeTU
  /\ out' = MergeOne(out, Compile(job.inputs[next].tu))
  /\ UNCHANGED <<job, phase, errors>>

PullMember ==
  /\ Pull!PullMember
  /\ out' = MergeOne(out, Compile(MemberTU(<<arch, memb>>)))
  /\ UNCHANGED <<job, phase, errors>>

Scan ==
  /\ \/ Pull!NoInputs \/ Pull!OpenArchive \/ Pull!InputFails \/ Pull!StartPull
     \/ Pull!BeginPass \/ Pull!EndPull \/ Pull!EnterArchive \/ Pull!EndPass
     \/ Pull!LeaveArchive \/ Pull!SkipMember \/ Pull!PullFails
  /\ UNCHANGED <<job, out, phase, errors>>

(* The phases after the merge run only if it reported no error. *)
Phase(from, to) == /\ pc = "done" /\ phase = from /\ phase' = to
                   /\ UNCHANGED <<job, scanVars>>

Resolve ==
  /\ Phase("resolve", "crt0")
  /\ out' = ResolveImports(out, Host)
  /\ UNCHANGED errors

Crt0 ==
  /\ Phase("crt0", "dce")
  /\ out' = Synthesize(out, job.noStdlib)
  /\ errors' = IF NoMainError(out, job.noStdlib) THEN {Symbol("", Main)} ELSE {}

(* dce::eliminate, in one step: DeadCodeElim shows, and proves, that the   *)
(* worklist computes the least set that contains the roots and is closed   *)
(* under reference, which is computed here as a limit.                     *)
Calls(m, i) ==
  IF i < Len(m.fimp) THEN {}
  ELSE {r.idx : r \in {q \in m.funcs[i - Len(m.fimp) + 1].refs : q.kind = "func"}}
RootsWithoutTable(m) ==   \* fault: a function whose address escapes is no root
  (IF m.start # {} THEN m.start
     ELSE {m.exps[k].ref.idx : k \in {j \in DOMAIN m.exps : m.exps[j].ref.kind = "func"}})
    \cup 0 .. Len(m.fimp) - 1
Roots(m) ==
  (IF m.start # {} THEN m.start
     ELSE {m.exps[k].ref.idx : k \in {j \in DOMAIN m.exps : m.exps[j].ref.kind = "func"}})
    \cup {m.table[k].idx : k \in DOMAIN m.table} \cup 0 .. Len(m.fimp) - 1
WithCalls(m, S) == S \cup UNION {Calls(m, i) : i \in S}
Mark(m) ==
  LET Reach[n \in 0 .. Len(m.funcs)] == IF n = 0 THEN Roots(m) ELSE WithCalls(m, Reach[n - 1])
  IN Reach[Len(m.funcs)]

Eliminate(m) ==
  LET dead == (Len(m.fimp) .. Len(m.fimp) + Len(m.funcs) - 1) \ Mark(m)
      live == [m EXCEPT
                 !.funcs = Without(@, {i - Len(m.fimp) : i \in dead}),
                 !.exps  = Kept(@, {k \in DOMAIN @ : @[k].ref.kind = "func" => @[k].ref.idx \notin dead})]
  IN Reindex(live, [i \in Nat |-> NewNumber(dead, i)], Same, Same)

DeadCodeElim ==
  /\ Phase("dce", "prune")
  /\ out' = Eliminate(out)
  /\ UNCHANGED errors

Prune ==
  /\ Phase("prune", "diagnose")
  /\ out' = PruneImports(out, Runtime)
  /\ UNCHANGED errors

(* emitUnresolvedDiagnostics: every import left is the runtime's or an     *)
(* error.                                                                  *)
Diagnose ==
  /\ Phase("diagnose", "end")
  /\ errors' = errors \cup (Imports(out) \ Runtime)
  /\ UNCHANGED out

Finished == (pc = "error" \/ phase = "end") /\ UNCHANGED vars

Next == \/ MergeTU \/ PullMember \/ Scan \/ Resolve \/ Crt0 \/ DeadCodeElim
        \/ Prune \/ Diagnose \/ Finished
Spec == Init /\ [][Next]_vars

-----------------------------------------------------------------------------
(* What the sources mean, by the linkage rules of C, without any number.   *)
Units == {job.inputs[k].tu : k \in {j \in 1 .. next - 1 : job.inputs[j].kind = "tu"}}
           \cup {MemberTU(p) : p \in pulled}
Functions == UNION {{Symbol(u.name, f) : f \in Defined(u)} : u \in Units}

(* The definition an external name denotes: the unit's that defines it     *)
(* with external linkage, unless the host provides the name.               *)
Means(kind, sym) ==
  LET owners == {u \in Units : sym.name \in Public(u, kind)} IN
  IF sym \in Functions \cup Range(SysProc) \cup StateImports
     \/ sym.mod \in Host \/ sym.mod \in {u.name : u \in Units} \/ owners = {}
    THEN sym
    ELSE Symbol((CHOOSE u \in owners : TRUE).name, sym.name)
Undefined(kind, sym) ==
  /\ Means(kind, sym) = sym
  /\ sym.mod \notin Host \cup {u.name : u \in Units}
  /\ sym \notin StateImports

(* The references of the units, by name. *)
FuncUses(u, name, use) ==
  UNION {{x.name : x \in {y \in Range(f.uses) : y.use = use}} :
           f \in {g \in Range(Decls(u, "func")) : g.name = name}}
CalledBy(sym) ==
  UNION {{Means("func", FuncSymbol(u, n)) : n \in FuncUses(u, sym.name, "call")} :
           u \in {v \in Units : v.name = sym.mod /\ sym.name \in Defined(v)}}
AddressTaken ==
  UNION {{Means("func", FuncSymbol(u, Slots(u)[k])) : k \in DOMAIN Slots(u)} : u \in Units}
PublicFunctions == UNION {{Symbol(u.name, n) : n \in Public(u, "func") \cup ({Main} \cap Defined(u))} :
                            u \in Units}
HasStart == ~job.noStdlib /\ \E u \in Units : Main \in Defined(u)
Entry ==
  IF ~HasStart THEN PublicFunctions
  ELSE LET Called(n) == {s \in PublicFunctions : s.name = n} IN
       Called(Main) \cup IF Called(Exit) # {} THEN Called(Exit) ELSE Called(StdioExit)

(* The functions the program can reach: from its entry and from the        *)
(* functions whose address some unit takes.                                *)
Live ==
  LET Reach[n \in 0 .. Cardinality(Functions)] ==
        IF n = 0 THEN Entry \cup AddressTaken
                 ELSE Reach[n - 1] \cup UNION {CalledBy(s) : s \in Reach[n - 1]}
  IN Reach[Cardinality(Functions)]

ObjectUses(sym) ==
  UNION {{Symbol(Env, n) : n \in FuncUses(u, sym.name, "obj") \cap Range(Externs(u))} :
           u \in {v \in Units : v.name = sym.mod /\ sym.name \in Defined(v)}}
ObjectDefined(name) == \E u \in Units : name \in Public(u, "glob")
UndefinedObjects == {n \in UNION {Range(Externs(u)) : u \in Units} : ~ObjectDefined(n)}

Faithful(r) ==
  Denotes(out, r) = IF phase = "resolve" THEN r.sym ELSE Means(r.kind, r.sym)

-----------------------------------------------------------------------------
(* No renumbering loses a reference: after each merge and each phase every *)
(* call, table slot, global access and export denotes the very definition  *)
(* the source meant (for a global, from crt0 on, provided every extern     *)
(* object is defined: see UndefinedReported).                              *)
RefsFaithful ==
  /\ \A r \in AllRefs(out) :
       r.kind # "glob" \/ phase \in {"resolve", "crt0"} \/ UndefinedObjects = {} => Faithful(r)
  /\ \A i \in out.start : FuncAt(out, i) = StartWrapper

(* The names the scan works with are those of the real output module.      *)
NamesAgree ==
  phase = "resolve" => /\ exports = {out.exps[k].name : k \in DOMAIN out.exps}
                       /\ imports = Imports(out)

(* The linked program holds the functions the sources can reach, no other, *)
(* once each, and the start wrapper.                                       *)
ExactlyLive ==
  phase = "end" =>
    /\ {out.funcs[k].id : k \in DOMAIN out.funcs}
         = (Live \cap Functions) \cup {StartWrapper : k \in {1} \cap IF HasStart THEN {1} ELSE {}}
    /\ \A j, k \in DOMAIN out.funcs : out.funcs[j].id = out.funcs[k].id => j = k

(* A function reference is diagnosed if and only if the linked program     *)
(* makes it and no unit defines the name; a missing main is diagnosed.     *)
FunctionsDiagnosed ==
  phase = "end" /\ UndefinedObjects = {} =>
    errors = {s \in Live : Undefined("func", s)}
               \cup IF ~job.noStdlib /\ ~HasStart THEN {Symbol("", Main)} ELSE {}

-----------------------------------------------------------------------------
(* What LinkDiagnostics.hpp:7-12 says: every reference of the linked       *)
(* program to an object nobody defines gets its own error.                 *)
UndefinedReported ==
  phase = "end" =>
    \A s \in Live : \A x \in ObjectUses(s) : Undefined("glob", x) => x \in errors

(* What 6.2.2_static_internal_linkage.c says: file-scope names declared    *)
(* static in two units are distinct, so the units link.                    *)
StaticsLink ==
  pc = "error" =>
    \E u, v \in {job.inputs[k].tu : k \in {j \in DOMAIN job.inputs : job.inputs[j].kind = "tu"}} :
      u # v /\ (Public(u, "func") \cup Public(u, "glob"))
                 \cap (Public(v, "func") \cup Public(v, "glob")) # {}
=============================================================================
