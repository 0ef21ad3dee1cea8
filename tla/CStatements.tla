---------------------------- MODULE CStatements ----------------------------
(***************************************************************************)
(* C statements as the parser hands them to the code generator             *)
(* (src/src/parser/AST.hpp, struct Stmt and its subtypes), and the meaning *)
(* the C standard gives them (src/docs/standard/language.md, 6.8): the     *)
(* reference that the lowering of StatementLowering is compared with.      *)
(*                                                                         *)
(* Expressions are abstracted to events: evaluating one is visible from    *)
(* outside under the id of its statement and the part of the statement it  *)
(* belongs to, and the environment decides its value.  A declaration with  *)
(* an initializer is such an event too.  "frame" is the number of bytes of *)
(* the shadow-stack frame the code generator reserves when it emits the    *)
(* statement (an address-taken or aggregate local, a compound literal, the *)
(* buffer of a struct-returning call).                                     *)
(***************************************************************************)
EXTENDS Integers, Sequences, SequencesExt

Expr(id)              == [k |-> "expr", id |-> id, frame |-> 0]
Decl(id, bytes)       == [k |-> "decl", id |-> id, frame |-> bytes]
Return(id)            == [k |-> "return", id |-> id, frame |-> 0]
Empty                 == [k |-> "empty"]
Compound(items)       == [k |-> "compound", items |-> items]
If(id, then, else)    == [k |-> "if", id |-> id, then |-> then, else |-> else]
While(id, body)       == [k |-> "while", id |-> id, body |-> body]
DoWhile(id, body)     == [k |-> "do", id |-> id, body |-> body]
For(id, parts, body)  == [k |-> "for", id |-> id, parts |-> parts, body |-> body]
Switch(id, body)      == [k |-> "switch", id |-> id, body |-> body]
Case(v, stmt)         == [k |-> "case", v |-> v, stmt |-> stmt]
Default(stmt)         == [k |-> "default", stmt |-> stmt]
Label(name, stmt)     == [k |-> "label", name |-> name, stmt |-> stmt]
Goto(name)            == [k |-> "goto", name |-> name]
Break                 == [k |-> "break"]
Continue              == [k |-> "continue"]

Loops == {"while", "do", "for"}

\* The statements directly inside a statement.
Inner(s) ==
    CASE s.k = "compound"                         -> s.items
      [] s.k = "if"                               -> <<s.then, s.else>>
      [] s.k \in Loops \cup {"switch"}            -> <<s.body>>
      [] s.k \in {"case", "default", "label"}     -> <<s.stmt>>
      [] OTHER                                    -> <<>>

\* The names of the labels, or of the targets of gotos, anywhere in a statement.
RECURSIVE NamesIn(_, _)
NamesIn(kind, s) ==
    (IF s.k = kind THEN {s.name} ELSE {})
    \cup LET inner == Inner(s) IN UNION {NamesIn(kind, inner[i]) : i \in DOMAIN inner}

LabelsIn(s) == NamesIn("label", s)
GotosIn(s)  == NamesIn("goto", s)

-----------------------------------------------------------------------------
(***************************************************************************)
(* The C abstract machine.  A configuration is the statement in focus and  *)
(* the continuation: a stack of what is left of the enclosing blocks       *)
(* ("seq") and of the loops and switches that a break or a continue        *)
(* leaves.  A focus "await" waits for an expression's value, "retest" is   *)
(* a for loop past its first clause, "done" is a function that returned.   *)
(***************************************************************************)
Config(focus, kont) == [focus |-> focus, kont |-> kont]

SeqFrame(items) == [k |-> "seq", items |-> items]
LoopFrame(s)    == [k |-> "loop", s |-> s]
SwitchFrame     == [k |-> "switch"]

Await(s, part)  == [k |-> "await", s |-> s, part |-> part]
Retest(s)       == [k |-> "retest", s |-> s]
Done            == [k |-> "done"]

\* The statements directly inside a statement, with what follows each there.
Places(s, kont) ==
    CASE s.k = "compound" ->
           {Config(s.items[i], <<SeqFrame(SubSeq(s.items, i + 1, Len(s.items)))>> \o kont)
            : i \in DOMAIN s.items}
      [] s.k \in Loops    -> {Config(s.body, <<LoopFrame(s)>> \o kont)}
      [] s.k = "switch"   -> {Config(s.body, <<SwitchFrame>> \o kont)}
      [] OTHER            -> {Config(t, kont) : t \in ToSet(Inner(s))}

\* Where control enters a statement through a label: at most one place.  The
\* cases of an inner switch are its own.
RECURSIVE Enter(_, _)
Enter(target, c) ==
    IF c.focus.k = target.k /\ \A f \in DOMAIN target : c.focus[f] = target[f]
    THEN {Config(c.focus.stmt, c.kont)}
    ELSE IF c.focus.k = "switch" /\ target.k # "label" THEN {}
    ELSE UNION {Enter(target, p) : p \in Places(c.focus, c.kont)}

\* The only member of a set of at most one configuration, else c.
OneOf(C, c) == IF C = {} THEN c ELSE CHOOSE d \in C : TRUE

\* 6.8.4.2: the case of the value, else the default, else past the switch.
Select(s, v, kont) ==
    LET in == Config(s.body, <<SwitchFrame>> \o kont)
    IN  OneOf(Enter([k |-> "case", v |-> v], in),
              OneOf(Enter([k |-> "default"], in), Config(Empty, kont)))

\* What follows the body of a loop, where continue goes to as well.
LoopEnd(s) ==
    CASE s.k = "while" -> s
      [] s.k = "do"    -> Await(s, "cond")
      [] s.k = "for"   -> IF "step" \in s.parts THEN Await(s, "step") ELSE Retest(s)

\* A statement has ended: resume the innermost continuation.
Pop(kont) ==
    IF kont = <<>> THEN Config(Done, <<>>)
    ELSE LET f == Head(kont)
         IN CASE f.k = "seq"    -> Config(Compound(f.items), Tail(kont))
              [] f.k = "loop"   -> Config(LoopEnd(f.s), Tail(kont))
              [] f.k = "switch" -> Config(Empty, Tail(kont))

\* 6.8.6.2, 6.8.6.3: leave every frame up to the first one of the kinds given.
Unwind(kont, kinds) ==
    LET at == CHOOSE i \in DOMAIN kont :
                  kont[i].k \in kinds /\ \A j \in 1..(i - 1) : kont[j].k \notin kinds
    IN  SubSeq(kont, at, Len(kont))

\* One silent step of the function with this body.
Step(body, c) ==
    LET s == c.focus
        k == c.kont
        into(b) == Config(b, <<LoopFrame(s)>> \o k)
    IN CASE s.k \in {"expr", "decl", "return", "switch"} -> Config(Await(s, "value"), k)
         [] s.k \in {"if", "while"}                      -> Config(Await(s, "cond"), k)
         [] s.k = "empty" -> Pop(k)
         [] s.k = "compound" ->
              IF s.items = <<>> THEN Pop(k)
              ELSE Config(Head(s.items), <<SeqFrame(Tail(s.items))>> \o k)
         [] s.k = "do"  -> into(s.body)
         [] s.k = "for" -> IF "init" \in s.parts THEN Config(Await(s, "init"), k)
                           ELSE Config(Retest(s), k)
         [] s.k = "retest" ->
              IF "cond" \in s.s.parts THEN Config(Await(s.s, "cond"), k)
              ELSE Config(s.s.body, <<LoopFrame(s.s)>> \o k)
         [] s.k \in {"case", "default", "label"} -> Config(s.stmt, k)
         [] s.k = "break"    -> Config(Empty, Tail(Unwind(k, {"loop", "switch"})))
         [] s.k = "continue" -> Pop(Unwind(k, {"loop"}))
         [] s.k = "goto" ->
              OneOf(Enter([k |-> "label", name |-> s.name], Config(Compound(body), <<>>)), c)

\* The awaited expression got the value v.
Answer(c, v) ==
    LET s == c.focus.s
        k == c.kont
        part == c.focus.part
        body == Config(s.body, <<LoopFrame(s)>> \o k)
    IN CASE part = "init" \/ part = "step" -> Config(Retest(s), k)
         [] part = "cond" /\ s.k = "if"    -> Config(IF v # 0 THEN s.then ELSE s.else, k)
         [] part = "cond" /\ s.k # "if" /\ v = 0 -> Config(Empty, k)
         [] part = "cond" /\ s.k = "do"          -> Config(s, k)
         [] part = "cond" /\ s.k \in {"while", "for"} -> body
         [] s.k = "switch" -> Select(s, v, k)
         [] s.k = "return" -> Config(Done, <<>>)
         [] OTHER          -> Config(Empty, k)

Waiting(c)  == c.focus.k = "await"
Ended(c)    == c.focus.k = "done"
EventOf(c)  == <<c.focus.s.id, c.focus.part>>
=============================================================================
