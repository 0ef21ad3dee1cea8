---------------------------- MODULE MCDataLayout ----------------------------
(***************************************************************************)
(* Up to three units for TLC, laid out by StaticStorage's Register: units  *)
(* with initialized data, with .bss only, with one object or none, with    *)
(* pointers to objects nothing else refers to, in every order.             *)
(***************************************************************************)
EXTENDS DataLayout, SequencesExt

MCObject == {"a", "b", "s", "p", "lit"}
D(kind, name, size, align, data) ==
  [kind |-> kind, name |-> name, size |-> size, align |-> align, data |-> data]
Laid(decls) ==
  FoldLeft(LAMBDA st, d : Register(st.top, st.objs, d),
           [top |-> FirstAddress, objs |-> NoObjects], decls)
Compiled(decls, code, pointers, stores, disk) ==
  [objs |-> Laid(decls).objs, top |-> Laid(decls).top, code |-> code,
   pointers |-> pointers, stores |-> stores, disk |-> disk]

(* A file-scope object and a static local, a pointer to them, a literal.   *)
A(size, data)  == D("def", "a", size, 4, data)
B == D("def", "b", 8, 8, FALSE)
S(size) == D("static", "s", size, IF size % 8 = 0 THEN 8 ELSE 1, FALSE)
P == D("static", "p", 8, 8, TRUE)
Lit == D("string", "lit", 3, 1, TRUE)

Plain ==
  {Compiled(<<A(n, i), S(m), Lit>>, code, {}, {}, FALSE) :
     n \in {4, 12}, i \in BOOLEAN, m \in {1, 16}, code \in {{}, {"s"}, {"a", "s", "lit"}}}
Bss ==
  {Compiled(<<S(m)>>, code, {}, {}, disk) : m \in {1, 24}, code \in {{}, {"s"}}, disk \in BOOLEAN}
    \cup {Compiled(<< >>, {}, {}, {}, FALSE),
          Compiled(<<A(4, FALSE), B>>, {"b"}, {}, {}, TRUE)}
Pointing ==
  {Compiled(<<S(m), P, Lit>>, {"p"}, {<<"p", x>>}, {}, FALSE) : m \in {8, 5, 16}, x \in {"s", "p"}}
    \cup {Compiled(<<B, S(16), P>>, {"p", "s"}, {<<"p", "s">>, <<"p", "b">>}, {}, disk) : disk \in BOOLEAN}
Stored == {Compiled(<<B, S(8), Lit>>, {"s", "lit"}, {}, {"s"}, FALSE)}

MCUnits == Plain \cup Bss \cup Pointing \cup Stored
MCInputs == {<<u>> : u \in MCUnits} \cup (MCUnits \X MCUnits)
              \cup {<<u, v, w>> : u \in Bss \cup Stored, v \in Bss \cup Pointing, w \in Plain}

(* static char s[16]; static char *p = s; in a function of the second unit *)
HiddenInputs ==
  {<<u, v>> : u \in Plain, v \in {w \in Pointing : w.code = {"p"} /\ "lit" \in DOMAIN w.objs}}
=============================================================================
