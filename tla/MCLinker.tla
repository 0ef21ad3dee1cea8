------------------------------ MODULE MCLinker ------------------------------
(***************************************************************************)
(* Link jobs for TLC.  Unit a holds main, unit b defines f and the object  *)
(* x, the library members define g, exit and the object y; each has static *)
(* functions called h and its own mixture of calls, taken addresses and    *)
(* objects, so that the imports of the units overlap in different orders.  *)
(***************************************************************************)
EXTENDS Linker

Call(n) == [use |-> "call", name |-> n]
Addr(n) == [use |-> "addr", name |-> n]
Obj(n)  == [use |-> "obj",  name |-> n]
SP == Obj(StackPointer)
HB == Obj(HeapBase)

F(n, uses)      == [decl |-> "func", name |-> n, static |-> FALSE, argv |-> FALSE, uses |-> uses]
StaticF(n, uses) == [F(n, uses) EXCEPT !.static = TRUE]
Argv(f)         == [f EXCEPT !.argv = TRUE]
From(mod, n, import) == [decl |-> "proto", name |-> n, mod |-> mod, import |-> import]
Proto(n)        == From(Env, n, n)
O(n)            == [decl |-> "obj", name |-> n, static |-> FALSE]
StaticO(n)      == [O(n) EXCEPT !.static = TRUE]
Extern(n)       == [decl |-> "extern", name |-> n]
Unit(n, decls)  == [name |-> n, decls |-> decls]
Tu(u)  == [kind |-> "tu", tu |-> u]
Ar(us) == [kind |-> "ar", members |-> us]

(* main in its unit: before and after the declarations it uses. *)
UnitsA ==
  {Unit("a", <<Extern("x"), Proto("g"), F("main", u), Proto("f"), StaticF("h", <<Call("g")>>)>>) :
     u \in {<<Call("f")>>, <<Addr("f"), Obj("x")>>, <<Call("g"), SP>>,
            <<Addr("h"), Addr("g"), Call("f")>>, <<Call("h"), Obj("x"), SP>>}}
    \cup {Unit("a", <<Proto("f"), Proto("f"), O("z"), Argv(F("main", <<Call("f"), HB>>)),
                      Extern("z")>>),
          Unit("a", <<From("host", "f", "f"), F("main", <<Call("f"), Addr("f")>>)>>),
          Unit("a", <<Proto("f"), F("start", <<Call("f"), SP>>)>>)}

UnitsB ==
  {Unit("b", <<Proto("g"), F("f", u), StaticF("h", v), O("x"), StaticO("s")>>) :
     u \in {<< >>, <<Call("h"), SP>>, <<Addr("g"), Addr("h")>>, <<Call("g"), HB>>},
     v \in {<<Call("g")>>, <<Call("h"), Call("f")>>}}
    \cup {Unit("b", <<Extern("y"), Extern("x"), F("f", <<Obj("y"), HB>>),
                      F("unused", <<Obj("y"), Call("f")>>), O("x")>>),
          Unit("b", <<Proto("undefd"), F("f", << >>), F("unused", <<Call("undefd")>>), O("x")>>),
          Unit("b", <<Proto("undefd"), F("f", <<Call("undefd")>>), O("x")>>)}

LibG == {Unit("g", <<Extern("x"), Extern("y"), StaticF("h", <<Obj("x")>>), F("g", u)>>) :
           u \in {<<Call("h"), Obj("y")>>, <<Addr("h")>>, <<SP>>}}
LibExit == Unit("e", <<From("sys_proc", "_exit", "exit"), Proto("__stdio_exit"),
                       F("exit", <<Call("__stdio_exit"), Call("_exit")>>)>>)
LibIO == Unit("io", <<O("y"), Proto("f"), F("__stdio_exit", <<Call("f"), SP>>)>>)

MCInputs ==
  {<<Tu(a), Tu(b), Ar(<<LibExit, g, LibIO>>)>> : a \in UnitsA, b \in UnitsB, g \in LibG}
    \cup {<<Tu(b), Ar(<<LibIO>>), Tu(a), Ar(<<g>>)>> : a \in UnitsA, b \in UnitsB, g \in LibG}
    \cup {<<Ar(<<g, LibExit>>), Tu(a), Tu(b), Ar(<<LibIO>>)>> : a \in UnitsA, b \in UnitsB, g \in LibG}
    \cup {<<Tu(a), Ar(<<b, g>>)>> : a \in UnitsA, b \in UnitsB, g \in LibG}

(* Links that fail: no input, a name defined by two units, by a unit and a *)
(* member, by two members.                                                 *)
FailingInputs ==
  {<< >>} \cup {<<Tu(a), Tu(b), Tu(Unit("c", <<F("f", <<Call("f")>>)>>))>> : a \in UnitsA, b \in UnitsB}
    \cup {<<Tu(a), Ar(<<b, Unit("g", <<F("g", << >>), O("x")>>)>>)>> : a \in UnitsA, b \in UnitsB}

MCJobs ==
  [inputs : MCInputs \cup FailingInputs, noStdlib : {FALSE}, importModules : {{"host"}}]
    \cup [inputs : {<<Tu(a), Tu(b), Ar(<<LibIO>>)>> : a \in UnitsA, b \in UnitsB},
          noStdlib : {TRUE}, importModules : {{}, {"host"}}]

MCName == {"main", "start", "f", "g", "h", "x", "y", "z", "s", "unused", "undefd",
           "exit", "__stdio_exit", StackPointer, HeapBase}
MCModule == {Env, "sys_proc", "sys_fs", "host"}
MCBuiltin == {"sys_proc", "sys_fs"}

(* One disagreement each. *)
ExternJobs ==
  [inputs : {<<Tu(Unit("a", <<Extern("x"), F("main", u)>>))>> :
               u \in {<< >>, <<SP>>, <<Obj("x")>>}},
   noStdlib : {FALSE}, importModules : {{}}]
StaticJobs ==
  [inputs : {<<Tu(Unit("a", <<c, Proto("f"), F("main", <<Call("f")>>)>>)),
               Tu(Unit("b", <<c, F("f", << >>)>>))>> : c \in {StaticF("c", << >>), StaticO("c")}},
   noStdlib : {FALSE}, importModules : {{}}]
=============================================================================
