--------------------------- MODULE LinkableObject ---------------------------
(***************************************************************************)
(* What compiling one translation unit for the linker leaves of its        *)
(* external declarations: the imports, definitions, exports and table      *)
(* slots of a linkable object (ModuleCodegen in CompileMode::Linkable).    *)
(***************************************************************************)
EXTENDS WasmModule

(* A translation unit: its name, and its external declarations in source   *)
(* order: function definitions, prototypes with their import key, object   *)
(* definitions and extern object declarations.  `uses` are those of the    *)
(* body: "call" a function, take its "addr", or name an object ("obj").    *)
Use == [use : {"call", "addr", "obj"}, name : STRING]
FunctionDef == [decl : {"func"}, name : STRING, static : BOOLEAN, argv : BOOLEAN, uses : Seq(Use)]
Prototype   == [decl : {"proto"}, name : STRING, mod : STRING, import : STRING]
ObjectDef   == [decl : {"obj"}, name : STRING, static : BOOLEAN]
ExternDecl  == [decl : {"extern"}, name : STRING]
Declaration == FunctionDef \cup Prototype \cup ObjectDef \cup ExternDecl
TranslationUnit == [name : STRING, decls : Seq(Declaration)]

Decls(tu, d) == Kept(tu.decls, {k \in DOMAIN tu.decls : tu.decls[k].decl = d})
NamesOf(decls) == [k \in DOMAIN decls |-> decls[k].name]
Names(decls)   == Range(NamesOf(decls))

Defined(tu) == Names(Decls(tu, "func"))

(* A body uses only functions that are declared in the unit: the others    *)
(* are errors of the compiler.                                             *)
Declared(tu) == Defined(tu) \cup Names(Decls(tu, "proto"))
WellFormed(tu) ==
  \A f \in Range(Decls(tu, "func")) : \A u \in Range(f.uses) :
    u.use # "obj" => u.name \in Declared(tu)

(* Pass 1 of firstPass: the prototypes of functions not defined here, each *)
(* one an import (a repeated prototype imports again).                     *)
Protos(tu) ==
  LET protos == Decls(tu, "proto") IN
  Kept(protos, {k \in DOMAIN protos : protos[k].name \notin Defined(tu)})

(* registerGlobalVars: definitions before externs, one entry per name; the *)
(* runtime globals are registered first.                                   *)
Objects(tu) == Firsts(NamesOf(Decls(tu, "obj")), {StackPointer, HeapBase})
Externs(tu) == Firsts(NamesOf(Decls(tu, "extern")),
                      {StackPointer, HeapBase} \cup Range(Objects(tu)))

(* Table slots are interned in the order in which the bodies take the      *)
(* functions' addresses.                                                   *)
Reading ==   \* the order of <<function, use>>
  {p \in (Nat \X Nat) \X (Nat \X Nat) :
     p[1][1] < p[2][1] \/ (p[1][1] = p[2][1] /\ p[1][2] <= p[2][2])}
AddressUses(tu) ==
  LET funcs == Decls(tu, "func") IN
  UNION {{<<k, j>> : j \in {i \in DOMAIN funcs[k].uses : funcs[k].uses[i].use = "addr"}} :
           k \in DOMAIN funcs}
Taken(tu) ==
  LET at == Listed(AddressUses(tu), Reading)
  IN [n \in DOMAIN at |-> Decls(tu, "func")[at[n][1]].uses[at[n][2]].name]
Slots(tu) == Firsts(Taken(tu), {})

(* lookupFunction: the definition, else the last prototype. *)
FuncIndex(tu, name) ==
  IF name \in Defined(tu)
    THEN Len(Protos(tu)) + PositionOf(NamesOf(Decls(tu, "func")), name)
    ELSE LastPositionOf(NamesOf(Protos(tu)), name)

FuncSymbol(tu, name) ==
  IF name \in Defined(tu) THEN Symbol(tu.name, name)
    ELSE LET p == Protos(tu)[FuncIndex(tu, name) + 1] IN Symbol(p.mod, p.import)

FuncRef(tu, name) == Ref("func", FuncIndex(tu, name), FuncSymbol(tu, name))

RuntimeGlobals == <<Symbol(Env, StackPointer), Symbol(Env, HeapBase)>>
Gimp(tu) == RuntimeGlobals \o [k \in DOMAIN Externs(tu) |-> Symbol(Env, Externs(tu)[k])]

(* A use in a body.  An object defined here is an i64.const address, not a *)
(* reference to a global (see DataLayout).                                 *)
UseRefs(tu, u) ==
  CASE u.use = "call" -> {FuncRef(tu, u.name)}
    [] u.use = "addr" -> {Ref("slot", PositionOf(Slots(tu), u.name), FuncSymbol(tu, u.name))}
    [] u.use = "obj"  -> {Ref("glob", k - 1, Gimp(tu)[k]) :
                            k \in {j \in DOMAIN Gimp(tu) : Gimp(tu)[j].name = u.name}}
Body(tu, f) ==
  [id |-> Symbol(tu.name, f.name), argv |-> f.argv,
   refs |-> UNION {UseRefs(tu, f.uses[j]) : j \in DOMAIN f.uses}]

(* Every function that is not static is exported, and so is main; every    *)
(* file-scope object is, static or not.                                    *)
External(tu) ==
  LET funcs == Decls(tu, "func") IN
  Kept(funcs, {k \in DOMAIN funcs : ~funcs[k].static \/ funcs[k].name = Main})
ObjRef(tu, k) == Ref("glob", Len(Gimp(tu)) + k - 1, Symbol(tu.name, Objects(tu)[k]))
Exports(tu) ==
  [k \in DOMAIN External(tu) |->
     [name |-> External(tu)[k].name, ref |-> FuncRef(tu, External(tu)[k].name)]]
  \o [k \in DOMAIN Objects(tu) |-> [name |-> Objects(tu)[k], ref |-> ObjRef(tu, k)]]

Compile(tu) ==
  LET funcs == Decls(tu, "func")
      protos == Protos(tu) IN
  [fimp  |-> [k \in DOMAIN protos |-> Symbol(protos[k].mod, protos[k].import)],
   gimp  |-> Gimp(tu),
   funcs |-> [k \in DOMAIN funcs |-> Body(tu, funcs[k])],
   globs |-> [k \in DOMAIN Objects(tu) |-> Symbol(tu.name, Objects(tu)[k])],
   exps  |-> Exports(tu),
   table |-> [k \in DOMAIN Slots(tu) |-> FuncRef(tu, Slots(tu)[k])],
   start |-> {}]
=============================================================================
