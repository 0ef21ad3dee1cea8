----------------------------- MODULE LinkPhases -----------------------------
(***************************************************************************)
(* The functions the phases of the linker apply to the output module: the  *)
(* merge of a unit, the resolution and pruning of imports, the start-up    *)
(* code.                                                                   *)
(***************************************************************************)
EXTENDS WasmModule

-----------------------------------------------------------------------------
(***************************************************************************)
(* merge::mergeOne: append a linkable object to the output module, joining *)
(* the index spaces (src/link/ModuleMerge.cpp).  Types, memories and data  *)
(* are left out here; the placement of data is the subject of DataLayout.  *)
(***************************************************************************)
(* Imports are kept once per (module, name); the order of first appearance *)
(* is the numbering (DedupState's maps and counts).                        *)
DedupByName(out, in) ==   \* fault: the module is not part of the key
  out \o Kept(in, {k \in DOMAIN in : \A x \in Range(out) \cup {in[j] : j \in 1 .. k - 1} :
                                       x.name # in[k].name})
Dedup(out, in) == out \o Firsts(in, Range(out))

ShiftNothing(out, fdelta, gdelta) == out   \* fault: earlier units keep their numbers

(* shiftExistingDefRefs: the definitions already merged move up behind the *)
(* newly added imports.                                                    *)
Shift(out, fdelta, gdelta) ==
  Reindex(out, [i \in Nat |-> IF i >= Len(out.fimp) THEN i + fdelta ELSE i],
               [i \in Nat |-> IF i >= Len(out.gimp) THEN i + gdelta ELSE i],
               Same)

(* The Remap tables: an imported function or global goes to the output's   *)
(* import of that key, a defined one behind those merged so far, a table   *)
(* slot behind the slots placed so far.                                    *)
Relocate(out, in, fimp, gimp) ==
  Reindex(in,
    [i \in Nat |-> IF i < Len(in.fimp)
                     THEN PositionOf(fimp, in.fimp[i + 1])
                     ELSE Len(fimp) + Len(out.funcs) + i - Len(in.fimp)],
    [i \in Nat |-> IF i < Len(in.gimp)
                     THEN PositionOf(gimp, in.gimp[i + 1])
                     ELSE Len(gimp) + Len(out.globs) + i - Len(in.gimp)],
    [i \in Nat |-> Len(out.table) + i])

MergeOne(out, in) ==
  LET fimp  == Dedup(out.fimp, in.fimp)
      gimp  == Dedup(out.gimp, in.gimp)
      old   == Shift(out, Len(fimp) - Len(out.fimp), Len(gimp) - Len(out.gimp))
      moved == Relocate(out, in, fimp, gimp) IN
  [fimp  |-> fimp, gimp |-> gimp,
   funcs |-> old.funcs \o moved.funcs, globs |-> out.globs \o in.globs,
   exps  |-> old.exps \o moved.exps,   table |-> old.table \o moved.table,
   start |-> old.start]

(* The exports are appended one at a time, each compared with all before.  *)
DuplicateExport(out, in) ==
  LET all == out.exps \o in.exps IN
  \E j, k \in DOMAIN all : j < k /\ all[j].name = all[k].name

-----------------------------------------------------------------------------
(***************************************************************************)
(* Import resolution and pruning over the merged module                    *)
(* (src/link/SymbolResolver.cpp).  All four passes remove imports from the *)
(* low end of an index space and renumber what is left.                    *)
(***************************************************************************)
(* Exports of a kind with a name: a name is exported at most once.         *)
Exporters(m, kind, name) ==
  {k \in DOMAIN m.exps : m.exps[k].name = name /\ m.exps[k].ref.kind = kind}
TargetOf(m, kind, name) == m.exps[CHOOSE k \in Exporters(m, kind, name) : TRUE].ref.idx

(* The imports (by number) that resolve: not the host's, and some unit     *)
(* exports a definition of the same name and kind.                         *)
Resolved(m, kind, imps, host) ==
  {i \in 0 .. Len(imps) - 1 : /\ imps[i + 1].mod \notin host
                              /\ Exporters(m, kind, imps[i + 1].name) # {}}

(* A reference to a resolved import goes to the definition's new number.   *)
ResolveNumber(m, kind, imps, drop, i) ==
  NewNumber(drop, IF i \in drop THEN TargetOf(m, kind, imps[i + 1].name) ELSE i)

ResolveGlobalImports(m, host) ==
  LET drop == Resolved(m, "glob", m.gimp, host) IN
  [Reindex(m, Same, [i \in Nat |-> ResolveNumber(m, "glob", m.gimp, drop, i)], Same)
     EXCEPT !.gimp = Without(@, drop)]

ResolveFunctionImports(m, host) ==
  LET drop == Resolved(m, "func", m.fimp, host) IN
  [Reindex(m, [i \in Nat |-> ResolveNumber(m, "func", m.fimp, drop, i)], Same, Same)
     EXCEPT !.fimp = Without(@, drop)]

ResolveImports(m, host) == ResolveFunctionImports(ResolveGlobalImports(m, host), host)

(* Imports nothing refers to are dropped, unless the host or crt0 provides *)
(* them.                                                                   *)
Unused(m, kind, imps, runtime) ==
  {i \in 0 .. Len(imps) - 1 : imps[i + 1] \notin runtime /\ i \notin Used(m, kind)}

PruneGlobalImports(m, runtime) ==
  LET drop == Unused(m, "glob", m.gimp, runtime) IN
  [Reindex(m, Same, [i \in Nat |-> NewNumber(drop, i)], Same) EXCEPT !.gimp = Without(@, drop)]

PruneNoFunctionImports(m, runtime) == m   \* fault: only globals are pruned
PruneFunctionImports(m, runtime) ==
  LET drop == Unused(m, "func", m.fimp, runtime) IN
  [Reindex(m, [i \in Nat |-> NewNumber(drop, i)], Same, Same) EXCEPT !.fimp = Without(@, drop)]

PruneImports(m, runtime) ==
  PruneFunctionImports(PruneGlobalImports(m, runtime), runtime)

-----------------------------------------------------------------------------
(***************************************************************************)
(* crt0::synthesize (src/link/Crt0Synth.cpp, src/codegen/StartWrapper.cpp):*)
(* replace the runtime-state imports by definitions and, unless -nostdlib, *)
(* add the sys_proc imports and the start wrapper.  Memories and the value *)
(* of the heap base are left out here (DataLayout).                        *)
(***************************************************************************)
SysProc == <<Symbol("sys_proc", "argc"), Symbol("sys_proc", "argv_len"),
             Symbol("sys_proc", "argv"), Symbol("sys_proc", "exit")>>
StartWrapper == Symbol("crt0", "start")

(* Step 1-2: the runtime globals become the first two definitions.  Their  *)
(* imports go, and no number is rewritten: the code counts on nothing but  *)
(* them being left among the global imports.                               *)
MaterialiseState(m) ==
  [m EXCEPT !.gimp  = Kept(@, {k \in DOMAIN @ : @[k] \notin StateImports}),
            !.globs = <<Symbol(Env, StackPointer), Symbol(Env, HeapBase)>> \o @]

(* findMain and findExportedFunc: a function export by name. *)
FuncExport(m, name) ==
  {m.exps[k].ref : k \in {j \in DOMAIN m.exps : /\ m.exps[j].name = name
                                               /\ m.exps[j].ref.kind = "func"}}
HasMain(m) == \E r \in FuncExport(m, Main) : r.idx >= Len(m.fimp)

(* Step 3: four sys_proc imports in front; every function number moves.    *)
Up(i) == i + Len(SysProc)
PrependSysProc(m) ==
  [Reindex(m, [i \in Nat |-> Up(i)], Same, Same) EXCEPT !.fimp = SysProc \o @]

(* Step 4: the wrapper calls main, then exit if it is linked, else flushes *)
(* stdio if that is linked and calls sys_proc.exit.  With argc and argv it *)
(* first asks the host for them and moves the stack pointer, global 0.     *)
WrapperRefs(main, argv, exit, flush) ==
  LET Host(k) == Ref("func", k - 1, SysProc[k]) IN
  {main} \cup exit
    \cup (IF exit = {} THEN {Host(4)} \cup flush ELSE {})
    \cup IF argv THEN {Host(1), Host(2), Host(3),
                       Ref("glob", 0, Symbol(Env, StackPointer))} ELSE {}

AddStart(m, main, argv, exit, flush) ==
  [m EXCEPT
     !.funcs = Append(@, [id |-> StartWrapper, argv |-> FALSE,
                          refs |-> WrapperRefs(main, argv, exit, flush)]),
     !.start = {Len(m.fimp) + Len(m.funcs)},
     !.exps  = Append(@, [name |-> Main, ref |-> main])]

(* The numbers found before the shift are shifted by hand. *)
AddCrt0(m) ==
  LET main == CHOOSE r \in FuncExport(m, Main) : TRUE
      Shifted(r) == [r EXCEPT !.idx = Up(@)]
      public == [m EXCEPT !.exps = Kept(@, {k \in DOMAIN @ :
                                              ~(@[k].name = Main /\ @[k].ref.kind = "func")})] IN
  AddStart(PrependSysProc(public), Shifted(main),
           m.funcs[main.idx - Len(m.fimp) + 1].argv,
           {Shifted(r) : r \in FuncExport(m, Exit)},
           {Shifted(r) : r \in FuncExport(m, StdioExit)})

(* Without a main there is nothing to start: the error is reported and the *)
(* module keeps only its runtime state.                                    *)
Synthesize(m, noStdlib) ==
  LET state == MaterialiseState(m) IN
  IF noStdlib \/ ~HasMain(state) THEN state ELSE AddCrt0(state)
NoMainError(m, noStdlib) == ~noStdlib /\ ~HasMain(MaterialiseState(m))
=============================================================================
