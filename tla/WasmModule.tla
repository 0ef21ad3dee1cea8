----------------------------- MODULE WasmModule -----------------------------
(***************************************************************************)
(* A WebAssembly module reduced to its index spaces, the way the linker    *)
(* sees it: functions and globals are numbered from 0, the imported ones   *)
(* before the defined ones; bodies, element segments, exports and the      *)
(* start section refer to them by number; a function pointer is a slot of  *)
(* the funcref table.                                                      *)
(*                                                                         *)
(* Each reference also carries `sym`, what the C program meant by it: the  *)
(* code has no such field, the properties compare it with what the number  *)
(* denotes.                                                                *)
(***************************************************************************)
EXTENDS Integers, FiniteSets, SequencesExt

(* A symbol: the key of an import (module, name), or a definition (the     *)
(* unit it comes from, its name).                                          *)
Symbol(mod, name) == [mod |-> mod, name |-> name]

Env          == "env"
StackPointer == "__stack_pointer"
HeapBase     == "__heap_base"
Main         == "main"
Exit         == "exit"
StdioExit    == "__stdio_exit"
StateImports == {Symbol(Env, StackPointer), Symbol(Env, HeapBase)}

(* kind is "func", "glob" or, in a body, "slot". *)
Ref(kind, idx, sym) == [kind |-> kind, idx |-> idx, sym |-> sym]

EmptyModule ==
  [fimp |-> << >>, gimp |-> << >>,   \* imported functions, globals: symbols
   funcs |-> << >>,                  \* defined: [id : symbol, refs : set of Ref]
   globs |-> << >>,                  \* defined: symbols
   exps |-> << >>,                   \* [name, ref]
   table |-> << >>,                  \* slot -> ref.func
   start |-> {}]                     \* at most one function index

(* What a number denotes in an index space: an import, else a definition;  *)
(* Nowhere when it is out of range.                                        *)
Nowhere == Symbol("nowhere", "nowhere")
At(s, k) == IF k \in DOMAIN s THEN s[k] ELSE Nowhere
Numbered(imps, defs, i) ==
  IF i < Len(imps) THEN At(imps, i + 1) ELSE At(defs, i - Len(imps) + 1)
Ids(m) == [k \in DOMAIN m.funcs |-> m.funcs[k].id]
FuncAt(m, i) == Numbered(m.fimp, Ids(m), i)
GlobAt(m, i) == Numbered(m.gimp, m.globs, i)
Denotes(m, r) ==
  CASE r.kind = "func" -> FuncAt(m, r.idx)
    [] r.kind = "glob" -> GlobAt(m, r.idx)
    [] r.kind = "slot" -> IF r.idx + 1 \in DOMAIN m.table
                            THEN FuncAt(m, m.table[r.idx + 1].idx) ELSE Nowhere

(* Rewrite every number of the module: F maps the old numbers of functions *)
(* to the new ones, G those of globals, S those of table slots.            *)
Move(r, F, G, S) ==
  [r EXCEPT !.idx = CASE r.kind = "func" -> F[@]
                      [] r.kind = "glob" -> G[@]
                      [] r.kind = "slot" -> S[@]]
MoveBody(f, F, G, S) == [f EXCEPT !.refs = {Move(r, F, G, S) : r \in @}]
MoveExport(e, F, G, S) == [e EXCEPT !.ref = Move(@, F, G, S)]
Reindex(m, F, G, S) ==
  [m EXCEPT
     !.funcs = [k \in DOMAIN m.funcs |-> MoveBody(m.funcs[k], F, G, S)],
     !.exps  = [k \in DOMAIN m.exps |-> MoveExport(m.exps[k], F, G, S)],
     !.table = [k \in DOMAIN m.table |-> Move(m.table[k], F, G, S)],
     !.start = {F[i] : i \in m.start}]
Same == [i \in Nat |-> i]

BodyRefs(m) == UNION {m.funcs[k].refs : k \in DOMAIN m.funcs}
AllRefs(m)  == BodyRefs(m) \cup Range(m.table) \cup {m.exps[k].ref : k \in DOMAIN m.exps}
Imports(m)  == Range(m.fimp) \cup Range(m.gimp)

(* The numbers of a kind that anything in the module uses. *)
Used(m, kind) == {r.idx : r \in {q \in AllRefs(m) : q.kind = kind}}
                   \cup IF kind = "func" THEN m.start ELSE {}

(* The elements of a finite set in the order R; those of a sequence at     *)
(* some of its positions; the first occurrence of each not in `except`.    *)
Listed(K, R) ==
  [n \in 1 .. Cardinality(K) |-> CHOOSE k \in K : Cardinality({j \in K : <<j, k>> \in R}) = n]
Upwards == {p \in Nat \X Nat : p[1] <= p[2]}
Kept(s, K) == LET at == Listed(K, Upwards) IN [n \in DOMAIN at |-> s[at[n]]]
Firsts(s, except) ==
  Kept(s, {k \in DOMAIN s : s[k] \notin except /\ \A j \in 1 .. k - 1 : s[j] # s[k]})

(* The number of the first occurrence, of the last one. *)
PositionOf(s, x) == SelectInSeq(s, LAMBDA y : y = x) - 1
LastPositionOf(s, x) == SelectLastInSeq(s, LAMBDA y : y = x) - 1

(* Removing the elements at some numbers of an index space: the sequence   *)
(* that is left, and the new number of one that stays.                     *)
Without(s, drop) == Kept(s, {k \in DOMAIN s : k - 1 \notin drop})
NewNumber(drop, i) == i - Cardinality({d \in drop : d < i})
=============================================================================
