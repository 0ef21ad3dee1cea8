--------------------------- MODULE MCControlFlow ---------------------------
(***************************************************************************)
(* Function bodies for ControlFlow.  A body is a shape with numbered slots *)
(* and an atom in each slot: an expression, a jump, or a labelled          *)
(* expression.                                                             *)
(***************************************************************************)
EXTENDS ControlFlow

\* The statement an atom puts into slot i.
Atom(a, i) ==
    CASE a = "expr"     -> Expr(i)
      [] a = "L:"       -> Label("L", Expr(i))
      [] a = "M:"       -> Label("M", Expr(i))
      [] a = "L:M:"     -> Label("L", Label("M", Expr(i)))
      [] a = "goto L"   -> Goto("L")
      [] a = "goto M"   -> Goto("M")
      [] a = "break"    -> Break
      [] a = "continue" -> Continue
      [] a = "return"   -> Return(i)

\* How often an atom is in a choice of atoms.
Times(choice, as) == Cardinality({i \in DOMAIN choice : choice[i] \in as})

InLoop(wrap) == wrap \in {"while", "for", "do", "bare"}

\* A compound statement of the items, inside the statement a wrap stands for.
Wrap1(wrap, id, items) ==
    CASE wrap = "block" -> Compound(items)
      [] wrap = "then"  -> If(id, Compound(items), Empty)
      [] wrap = "else"  -> If(id, Expr(id + 1), Compound(items))
      [] wrap = "while" -> While(id, Compound(items))
      [] wrap = "for"   -> For(id, {"init", "cond", "step"}, Compound(items))
      [] wrap = "bare"  -> For(id, {"step"}, Compound(items))
      [] wrap = "do"    -> DoWhile(id, Compound(items))

\* Two nested statements with slots around and inside them.
Nest(ws, as) ==
    <<Atom(as[1], 1),
      Wrap1(ws[1], 10, <<Atom(as[2], 2), Wrap1(ws[2], 20, <<Atom(as[3], 3)>>), Atom(as[4], 4)>>),
      Atom(as[5], 5)>>

\* A break or continue in slot i is inside a loop, and a continue not inside
\* a do statement's body.
JumpsBound(ws, as) ==
    \A i \in DOMAIN as :
        LET around == CASE i \in {1, 5} -> <<>> [] i \in {2, 4} -> <<ws[1]>>
                        [] i = 3 -> <<ws[2], ws[1]>>
            loops == SelectSeq(around, InLoop)
        IN  /\ as[i] = "break" => loops # <<>>
            /\ as[i] = "continue" => loops # <<>> /\ Head(loops) # "do"

\* One label, one or two jumps to it, and at most one break or continue.
OneLabel ==
    {as \in [1..5 -> {"expr", "L:", "goto L", "break", "continue"}] :
        /\ Times(as, {"L:"}) = 1
        /\ Times(as, {"goto L"}) \in 1..2
        /\ Times(as, {"break", "continue"}) <= 1}

NestedJumps ==
    UNION {{Nest(ws, as) : as \in {a \in OneLabel : JumpsBound(ws, a)}}
           : ws \in {"then", "while", "for"}
                    \X {"block", "then", "else", "while", "do"}}

\* Two labels and jumps to both, at one level or nested, in any order.
TwoLabels ==
    {as \in [1..5 -> {"expr", "L:", "M:", "L:M:", "goto L", "goto M"}] :
        /\ Times(as, {"L:", "L:M:"}) = 1 /\ Times(as, {"M:", "L:M:"}) = 1
        /\ Times(as, {"goto L"}) >= 1 /\ Times(as, {"goto M"}) >= 1}

OverlappingJumps ==
    {[i \in 1..5 |-> Atom(as[i], i)] : as \in TwoLabels}
    \cup {Nest(ws, as) : ws \in {<<"block", "while">>, <<"bare", "then">>},
                         as \in TwoLabels}

\* A switch in a loop, with the values of its two cases and three statements.
SwitchItems(order, v, stmts) ==
    CASE order = "default last"  -> <<Case(v[1], stmts[1]), Case(v[2], stmts[2]), Default(stmts[3])>>
      [] order = "default first" -> <<Default(stmts[1]), Case(v[1], stmts[2]), Case(v[2], stmts[3])>>
      [] order = "no default"    -> <<Case(v[1], stmts[1]), stmts[2], Case(v[2], stmts[3])>>
      [] order = "chained"       -> <<Case(v[1], Default(Case(v[2], stmts[1]))), stmts[2], stmts[3]>>

Switches ==
    LET stmt(wrap, a, i) ==
            CASE wrap = "plain"  -> Atom(a, i)
              [] wrap = "switch" -> Switch(30, Compound(<<Case(0, Atom(a, i)), Expr(31)>>))
              [] OTHER           -> Wrap1(wrap, 30, <<Atom(a, i)>>)
        choices == {as \in [1..3 -> {"expr", "break", "continue", "return", "goto L"}] :
                       Times(as, {"expr"}) >= 1}
    IN  {<<For(10, {"cond", "step"}, Compound(<<
             Switch(20, Compound(SwitchItems(order, v,
                 <<Atom(as[1], 1), stmt(wrap, as[2], 2), Atom(as[3], 3)>>))),
             Label("L", Expr(4))>>))>>
         : order \in {"default last", "default first", "no default", "chained"},
           v \in {<<1, 2>>, <<2, -1>>}, wrap \in {"plain", "then", "while", "switch"},
           as \in choices}

\* A frame reserved first, and a return somewhere.
Returns ==
    {<<Decl(100, 8)>> \o Nest(ws, as) :
        ws \in {<<"then", "while">>, <<"for", "else">>, <<"do", "block">>},
        as \in {a \in [1..5 -> {"expr", "return", "L:", "goto L"}] :
                   Times(a, {"return"}) = 1 /\ Times(a, {"L:"}) = 1 /\ Times(a, {"goto L"}) = 1}}

\* A label in a case, with a jump to it from its own block or from outside.
SwitchLabels ==
    {<<Atom(out, 1), Switch(10, Compound(<<
         Case(0, Compound(<<Label("L", Expr(2)), If(3, Atom(in, 4), Empty)>>)), Expr(5)>>))>>
     : out \in {"expr", "goto L"}, in \in {"goto L", "break"}}

MCBodies == SwitchLabels \cup NestedJumps \cup OverlappingJumps \cup Switches \cup Returns
MCSwitchValues == -1..2
MCWide == {20}

\* A continue in the body of a do statement.
ContinueInDo ==
    {<<DoWhile(10, Compound(<<Expr(1), If(2, Continue, Empty), Expr(3)>>)), Expr(4)>>}

\* A return before the declaration of an object that lives in the frame.
EarlyReturn ==
    {<<If(1, Return(2), Empty), Decl(3, 8), Return(4)>>}
=============================================================================
