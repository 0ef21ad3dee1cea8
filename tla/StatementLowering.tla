------------------------- MODULE StatementLowering -------------------------
(***************************************************************************)
(* src/src/codegen/FunctionCodegen.cpp: how the statements of a function   *)
(* body become structured WebAssembly control flow.                        *)
(*                                                                         *)
(* Each emitX appends to one buffer; here Code returns what it appends.    *)
(* The members it reads are the context x: the number of open constructs   *)
(* (currentBlockDepth_), the enclosing loops and switches, innermost first *)
(* (controlFlowStack_), the enclosing dispatch loops                       *)
(* (gotoDispatchStack_), the bytes of frame reserved so far (frameSize_)   *)
(* and the label analysis of the function.  Every emitX leaves the depth   *)
(* and the stacks as it found them, so only the frame is carried from one  *)
(* statement to the next.  Locals are named after what they are for.       *)
(***************************************************************************)
EXTENDS CStatements, WasmControl, FiniteSets, FiniteSetsExt

CONSTANTS MaxTable,    \* the longest value range a br_table is made for
          WideSwitch   \* the switches (ids) whose controlling expression is an i64

Target    == <<"goto">>                \* gotoTargetLocal_
CondLocal(s)  == <<"cond", s.id>>    \* the i32 allocated by emitIfStmt
ValueLocal(s) == <<"value", s.id>>   \* the i32 allocated by emitSwitchStmt

\* emit's bookkeeping: a construct opened inside the context.
Deeper(x) == [x EXCEPT !.depth = @ + 1]
DeeperBy(x, n) == [x EXCEPT !.depth = @ + n]

\* The br index, at the current depth, of the construct opened at a depth.
To(x, depthAtOpen) == x.depth - depthAtOpen

PushLoop(x, break, cont) ==
    [x EXCEPT !.flow = <<[loop |-> TRUE, break |-> break, continue |-> cont]>> \o @]
PushSwitch(x) ==
    [x EXCEPT !.flow = <<[loop |-> FALSE, break |-> x.depth, continue |-> -1]>> \o @]

(* Fault: the depth before the break block was opened. *)
BreakDepthOutside(x) == To(x, Head(x.flow).break - 1)

BreakDepth(x)     == To(x, Head(x.flow).break)
EnclosingLoops(x) == SelectSeq(x.flow, LAMBDA e : e.loop)
ContinueDepth(x)  == To(x, Head(EnclosingLoops(x)).continue)

-----------------------------------------------------------------------------
(***************************************************************************)
(* The label analysis (analyzeGotoLabels).  A block is named by its path   *)
(* in the body.  A goto reaches a label by chaining when the label is a    *)
(* direct item of a block around the goto; otherwise it must enter a       *)
(* nested scope, and the label is an entry target.                         *)
(***************************************************************************)
NoBlock == <<0>>    \* the parent of a label that is not a block item

RECURSIVE Scan(_, _, _, _)
Scan(s, path, blocks, asItem) ==
    (CASE s.k = "goto"  -> {[goto |-> s.name, blocks |-> ToSet(blocks)]}
       [] s.k = "label" -> {[label |-> s.name,
                             parent |-> IF asItem THEN Last(blocks) ELSE NoBlock]}
       [] OTHER -> {})
    \cup UNION {Scan(Inner(s)[i], Append(path, i),
                     IF s.k = "compound" THEN Append(blocks, path) ELSE blocks,
                     s.k = "compound")
                : i \in DOMAIN Inner(s)}

EntryTargets(body) ==
    LET found  == Scan(Compound(body), <<>>, <<>>, FALSE)
        gotos  == {f \in found : "goto" \in DOMAIN f}
        labels == found \ gotos
    IN  {l.label : l \in {m \in labels :
            \E g \in gotos : g.goto = m.label /\ m.parent \notin g.blocks}}

\* Labels in source order: the position of a label is its id, 1-based.
RECURSIVE LabelOrder(_)
LabelOrder(s) ==
    LET inner == Inner(s)
    IN  (IF s.k = "label" THEN <<s.name>> ELSE <<>>)
        \o FlattenSeq([i \in DOMAIN inner |-> LabelOrder(inner[i])])

IdOf(x, name) == CHOOSE i \in DOMAIN x.ids : x.ids[i] = name
IdsOf(x, names) == {IdOf(x, name) : name \in names}

\* entryTargetNamesIn: the entry targets anywhere in a statement.
EntriesIn(x, s) == IF x.entry = {} THEN {} ELSE LabelsIn(s) \cap x.entry

PendingIn(x, names) == LocalIn(Target, IdsOf(x, names))

-----------------------------------------------------------------------------
(***************************************************************************)
(* The segments of a switch body: one for each case or default label, with *)
(* the statements up to the next one.  Declarations and statements before  *)
(* the first label are dropped.                                            *)
(***************************************************************************)
RECURSIVE AddToSegments(_, _)
AddToSegments(segments, s) ==
    CASE s.k \in {"case", "default"} ->
           AddToSegments(Append(segments, [of |-> s, body |-> <<>>]), s.stmt)
      [] s.k = "decl" \/ (s.k \notin {"case", "default"} /\ segments = <<>>) -> segments
      [] OTHER -> [segments EXCEPT ![Len(segments)].body = Append(@, s)]

Segments(s) ==
    IF s.body.k = "compound"
    THEN FoldLeft(AddToSegments, <<>>, s.body.items)
    ELSE AddToSegments(<<>>, s.body)

\* The frame bytes reserved while a statement is emitted.
RECURSIVE FrameOf(_)
FrameOf(s) ==
    IF s.k = "switch"
    THEN LET segs == Segments(s)
         IN  FoldLeft(LAMBDA n, seg : n + FrameOf(Compound(seg.body)), 0, segs)
    ELSE FoldLeft(LAMBDA n, t : n + FrameOf(t),
                  IF "frame" \in DOMAIN s THEN s.frame ELSE 0, Inner(s))

\* The context of what follows the statements of a sequence.
After(x, stmts) == [x EXCEPT !.frame = @ + FrameOf(Compound(stmts))]

-----------------------------------------------------------------------------
RECURSIVE Code(_, _), Lift(_, _, _, _)

\* Statements one after another.
Sequence(stmts, x) ==
    FlattenSeq([i \in DOMAIN stmts |-> Code(stmts[i], After(x, SubSeq(stmts, 1, i - 1)))])

\* The position of the direct label of this name among the items, if any.
LabelAt(items, name) ==
    {i \in DOMAIN items : items[i].k = "label" /\ items[i].name = name}
DirectLabels(items) == {s.name : s \in {t \in ToSet(items) : t.k = "label"}}

\* The forward jumps among the items of a block: <<goto, label>> positions.
ForwardJumps(items) ==
    {j \in (DOMAIN items) \X (DOMAIN items) :
        items[j[1]].k = "goto" /\ j[2] > j[1] /\ j[2] \in LabelAt(items, items[j[1]].name)}

(* Fault: a block is not a dispatch loop for the labels below its items. *)
NeedsDispatchHere(items, x) ==
    \/ \E i \in DOMAIN items : items[i].k = "goto"
                               /\ \E l \in LabelAt(items, items[i].name) : l <= i
    \/ \E i \in DOMAIN items : items[i].k # "goto"
                               /\ GotosIn(items[i]) \cap DirectLabels(items) # {}
    \/ \E a, b \in ForwardJumps(items) : a[1] < b[1] /\ b[1] < a[2] /\ a[2] < b[2]

(***************************************************************************)
(* topLevelNeedsGotoDispatch: forward jumps between items that nest can be *)
(* lifted into blocks; a backward or nested jump to a label here, an entry *)
(* target below, or ranges that overlap need the dispatch loop.            *)
(***************************************************************************)
NeedsDispatch(items, x) ==
    \/ \E i \in DOMAIN items : EntriesIn(x, items[i]) # {}
    \/ \E i \in DOMAIN items : items[i].k = "goto"
                               /\ \E l \in LabelAt(items, items[i].name) : l <= i
    \/ \E i \in DOMAIN items : items[i].k # "goto"
                               /\ GotosIn(items[i]) \cap DirectLabels(items) # {}
    \/ \E a, b \in ForwardJumps(items) : a[1] < b[1] /\ b[1] < a[2] /\ a[2] < b[2]

\* emitItemsWithGotoLift, past the dispatch test: "open" holds the positions
\* at which the wrapping blocks opened by forward jumps close.
Lift(items, i, open, x) ==
    IF i > Len(items) THEN [n \in DOMAIN open |-> I("end")]
    ELSE IF open # <<>> /\ Head(open) = i
    THEN <<I("end")>> \o Lift(items, i, Tail(open), DeeperBy(x, -1))
    ELSE IF \E j \in ForwardJumps(items) : j[1] = i
    THEN LET jump == CHOOSE j \in ForwardJumps(items) : j[1] = i
         IN  <<I("block"), Br(0)>> \o Lift(items, i + 1, <<jump[2]>> \o open, Deeper(x))
    ELSE Code(items[i], x) \o Lift(items, i + 1, open, After(x, <<items[i]>>))

(* Fault: segment 0 counted as the outermost block. *)
SegmentBrReversed(x, loopDepth, N, n) == To(x, loopDepth + n)

\* The br index of segment n of N: the first one is the innermost block.
SegmentBr(x, loopDepth, N, n) == To(x, loopDepth + N - n)

(***************************************************************************)
(* emitGotoDispatch: the items are cut into segments at every label and at *)
(* every item an entry target lies in; a loop around them branches to the  *)
(* segment that owns the pending target, or to the first one when there is *)
(* none.                                                                   *)
(***************************************************************************)
Dispatch(items, x) ==
    LET starts == {i \in 2..Len(items) :
                      items[i].k = "label" \/ EntriesIn(x, items[i]) # {}}
        SegOf(i) == Cardinality({j \in starts : j <= i})
        N == Cardinality(starts) + 1
        Segment(n) == {i \in DOMAIN items : SegOf(i) = n}
        Owner(name) == LabelAt(items, name)
                       \cup {i \in DOMAIN items : name \in EntriesIn(x, items[i])}
        entries == UNION {EntriesIn(x, items[i]) : i \in DOMAIN items}
        exitDepth == x.depth + 1
        loopDepth == x.depth + 2
        inner == [DeeperBy(x, 2 + N) EXCEPT
                    !.dispatch = <<[loop |-> loopDepth,
                                    owns |-> DirectLabels(items) \cup entries]>> \o @]
        SegBr(n) == SegmentBr(inner, loopDepth, N, n)
        exit == To(inner, exitDepth)
        table == <<SegBr(0)>>
                 \o [id \in DOMAIN x.ids |->
                        IF Owner(x.ids[id]) = {} THEN exit
                        ELSE SegBr(SegOf(Min(Owner(x.ids[id]))))]
                 \o <<exit>>
        Body(n) ==
            LET first == Min(Segment(n))
                here  == SubSeq(items, first, Max(Segment(n)))
            IN  <<I("end")>> \o Sequence(here, After([inner EXCEPT !.depth = loopDepth + N - 1 - n],
                                                     SubSeq(items, 1, first - 1)))
    IN  <<I("block"), I("loop")>> \o [n \in 1..N |-> I("block")]
        \o <<LocalGet(Target), BrTable(table)>>
        \o FlattenSeq([n \in 1..N |-> Body(n - 1)])
        \o <<I("end"), I("end")>>

Items(items, x) ==
    IF NeedsDispatch(items, x) THEN Dispatch(items, x) ELSE Lift(items, 1, <<>>, x)

-----------------------------------------------------------------------------
\* generateEpilogue, where the frame reserved so far is not empty.
Epilogue(x) == IF x.frame > 0 THEN <<FrameLeave(x.frame)>> ELSE <<>>

(* Fault: a return leaves the frame on the shadow stack. *)
ReturnCodeBare(s, x) == <<Eval(s.id, "value"), I("return")>>

ReturnCode(s, x) ==
    <<Eval(s.id, "value")>> \o Epilogue(After(x, <<s>>)) \o <<I("return")>>

ExprCode(s) == <<Eval(s.id, "value"), I("drop")>>

\* A pending target inside a branch forces the branch, and the condition is
\* not evaluated.
Force(s, names, value, x) ==
    IF names = {} THEN <<>>
    ELSE <<PendingIn(x, names), I("if"), Const(value), LocalSet(CondLocal(s)),
           Br(1), I("end")>>

IfCode(s, x) ==
    LET then == EntriesIn(x, s.then)
        else == EntriesIn(x, s.else)
        cond == IF then = {} /\ else = {} THEN <<Eval(s.id, "cond")>>
                ELSE <<I("block")>> \o Force(s, then, 1, x) \o Force(s, else, 0, x)
                     \o <<Eval(s.id, "cond"), LocalSet(CondLocal(s)), I("end"),
                          LocalGet(CondLocal(s))>>
    IN  cond \o <<I("if")>> \o Code(s.then, Deeper(x))
        \o (IF s.else = Empty THEN <<>>
            ELSE <<I("else")>> \o Code(s.else, Deeper(After(x, <<s.then>>))))
        \o <<I("end")>>

(* Fault: the code runs on the way to a pending target, too. *)
UnlessNever(entered, code) == code

\* Code that is skipped while a goto target is pending inside the statement.
Unless(entered, code) ==
    IF entered THEN <<I("block"), LocalGet(Target), BrIf(0)>> \o code \o <<I("end")>>
    ELSE code

WhileCode(s, x) ==
    LET entered == EntriesIn(x, s.body) # {}
        in == PushLoop(DeeperBy(x, 2), x.depth + 1, x.depth + 2)
        test == IF entered THEN Deeper(in) ELSE in
    IN  <<I("block"), I("loop")>>
        \o Unless(entered, <<Eval(s.id, "cond"), I("eqz"), BrIf(BreakDepth(test))>>)
        \o Code(s.body, in)
        \o <<Br(ContinueDepth(in)), I("end"), I("end")>>

ForCode(s, x) ==
    LET entered == EntriesIn(x, s.body) # {}
        break == x.depth + 1
        loop  == x.depth + 2
        head  == DeeperBy(x, 2)
        test  == IF entered THEN Deeper(head) ELSE head
        in    == PushLoop(DeeperBy(x, 3), break, x.depth + 3)
    IN  (IF "init" \in s.parts
         THEN Unless(entered, <<Eval(s.id, "init"), I("drop")>>) ELSE <<>>)
        \o <<I("block"), I("loop")>>
        \o (IF "cond" \in s.parts
            THEN Unless(entered, <<Eval(s.id, "cond"), I("eqz"), BrIf(To(test, break))>>)
            ELSE <<>>)
        \o <<I("block")>> \o Code(s.body, in) \o <<I("end")>>
        \o (IF "step" \in s.parts THEN <<Eval(s.id, "step"), I("drop")>> ELSE <<>>)
        \o <<Br(To(head, loop)), I("end"), I("end")>>

DoWhileCode(s, x) ==
    LET in == PushLoop(DeeperBy(x, 2), x.depth + 1, x.depth + 2)
    IN  <<I("block"), I("loop")>> \o Code(s.body, in)
        \o <<Eval(s.id, "cond"), BrIf(ContinueDepth(in)), I("end"), I("end")>>

BreakCode(x) ==
    IF x.flow = <<>> THEN <<Unreachable("'break' not inside loop or switch")>>
    ELSE <<Br(BreakDepth(x))>>

ContinueCode(x) ==
    IF EnclosingLoops(x) = <<>> THEN <<Unreachable("'continue' not inside a loop")>>
    ELSE <<Br(ContinueDepth(x))>>

\* A label consumes the pending target when it is the one.
LabelCode(s, x) ==
    (IF x.dispatch # <<>> \/ s.name \in x.entry
     THEN <<PendingIn(x, {s.name}), I("if"), Const(0), LocalSet(Target), I("end")>>
     ELSE <<>>) \o Code(s.stmt, x)

GotoCode(s, x) ==
    LET owners == SelectSeq(x.dispatch, LAMBDA d : s.name \in d.owns)
    IN  IF owners = <<>> THEN <<Unreachable("goto lowering failed")>>
        ELSE <<Const(IdOf(x, s.name)), LocalSet(Target), Br(To(x, Head(owners).loop))>>

-----------------------------------------------------------------------------
(***************************************************************************)
(* emitSwitchStmt: a block per segment, the first one innermost, and in    *)
(* their middle a br_table or a chain of comparisons that picks one.       *)
(***************************************************************************)
SwitchCode(s, x) ==
    LET segs    == Segments(s)
        N       == Len(segs)
        breakD  == x.depth + 1
        out     == PushSwitch(Deeper(x))
        in      == DeeperBy(out, N)
        SegBr(i) == To(in, breakD + N - (i - 1))
        cases   == SelectSeq([i \in 1..N |-> i], LAMBDA i : segs[i].of.k = "case")
        Value(i) == segs[i].of.v
        values  == {Value(cases[n]) : n \in DOMAIN cases}
        range   == Max(values) - Min(values)
        dense   == values # {} /\ range <= 4 * Len(cases) /\ range <= MaxTable
        defaults == {i \in 1..N : segs[i].of.k = "default"}
        other   == IF defaults = {} THEN To(in, breakD) ELSE SegBr(Min(defaults))
        Of(v)   == {i \in 1..N : segs[i].of.k = "case" /\ Value(i) = v}
        value   == <<Eval(s.id, "value")>>
                   \o (IF s.id \in WideSwitch THEN <<I("wrap")>> ELSE <<>>)
        table   == (IF Min(values) # 0 THEN <<SubConst(Min(values))>> ELSE <<>>)
                   \o <<BrTable([n \in 1..(range + 1) |->
                                   LET v == Min(values) + n - 1
                                   IN  IF Of(v) = {} THEN other ELSE SegBr(Max(Of(v)))]
                                \o <<other>>)>>
        chain   == <<LocalSet(ValueLocal(s))>>
                   \o FlattenSeq([n \in DOMAIN cases |->
                        <<LocalIn(ValueLocal(s), {Wrap(Value(cases[n]))}),
                          BrIf(SegBr(cases[n]))>>])
                   \o <<Br(other)>>
        Body(i) == <<I("end")>>
                   \o Sequence(segs[i].body,
                        After(DeeperBy(out, N - i),
                              FlattenSeq([j \in 1..(i - 1) |-> segs[j].body])))
    IN  IF EntriesIn(x, s.body) # {}
        THEN <<Unreachable("goto into a switch body is not supported")>>
        ELSE IF N = 0
        THEN <<I("block"), Eval(s.id, "value"), I("drop"), I("end")>>
        ELSE [n \in 1..(N + 1) |-> I("block")]
             \o value \o (IF dense THEN table ELSE chain)
             \o FlattenSeq([i \in 1..N |-> Body(i)]) \o <<I("end")>>

\* emitStmt.  A case or default label outside the segments is passed over.
Code(s, x) ==
    CASE s.k = "return"   -> ReturnCode(s, x)
      [] s.k \in {"expr", "decl"} -> ExprCode(s)
      [] s.k = "compound" -> Items(s.items, x)
      [] s.k = "if"       -> IfCode(s, x)
      [] s.k = "while"    -> WhileCode(s, x)
      [] s.k = "for"      -> ForCode(s, x)
      [] s.k = "do"       -> DoWhileCode(s, x)
      [] s.k = "switch"   -> SwitchCode(s, x)
      [] s.k = "break"    -> BreakCode(x)
      [] s.k = "continue" -> ContinueCode(x)
      [] s.k = "goto"     -> GotoCode(s, x)
      [] s.k = "label"    -> LabelCode(s, x)
      [] s.k \in {"case", "default"} -> Code(s.stmt, x)
      [] s.k = "empty"    -> <<>>

-----------------------------------------------------------------------------
\* generate: the prologue in front and the epilogue at the end know the whole
\* frame, the epilogues of the returns what was reserved before them.
Generate(body) ==
    LET x == [depth |-> 0, flow |-> <<>>, dispatch |-> <<>>, frame |-> 0,
              ids |-> LabelOrder(Compound(body)), entry |-> EntryTargets(body)]
        frame == FrameOf(Compound(body))
    IN  (IF frame > 0 THEN <<FrameEnter(frame)>> ELSE <<>>)
        \o Items(body, x)
        \o Epilogue([x EXCEPT !.frame = frame])

\* The diagnostics the lowering reports with the code.
Diagnostics(code) ==
    {ins.diagnostic : ins \in {c \in ToSet(code) : c.op = "unreachable"}}
=============================================================================
