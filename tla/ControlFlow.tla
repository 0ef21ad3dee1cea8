---------------------------- MODULE ControlFlow ----------------------------
(***************************************************************************)
(* A C function and the WebAssembly the code generator makes of it, run    *)
(* side by side: both take silent steps on their own until they need the   *)
(* value of an expression, and then both get the same one.  The properties *)
(* say that they always need the same one, that is, that the lowering of   *)
(* the statements (StatementLowering, from                                 *)
(* src/src/codegen/FunctionCodegen.cpp) keeps their meaning (CStatements). *)
(***************************************************************************)
EXTENDS StatementLowering

CONSTANTS Bodies,        \* the function bodies: sequences of block items
          SwitchValues   \* the values a switch's controlling expression takes

VARIABLES body,   \* the function's block items
          code,   \* what generate made of them
          c,      \* the C function: a configuration of CStatements
          w       \* the WebAssembly function: a machine of WasmControl

vars == <<body, code, c, w>>

Init ==
    /\ body \in Bodies
    /\ \E ins \in {Generate(body)} : code = Assemble(ins)
    /\ c = Config(Compound(body), <<>>)
    /\ w = Start

\* A silent step of the C function.
CSteps ==
    /\ ~Waiting(c) /\ ~Ended(c)
    /\ c' = Step(body, c)
    /\ UNCHANGED <<body, code, w>>

\* A silent step of the WebAssembly function.
WasmSteps ==
    /\ Waiting(c) \/ Ended(c)
    /\ Running(code, w)
    /\ w' = Exec(code, w)
    /\ UNCHANGED <<body, code, c>>

\* The values an awaited expression may have.
Outcomes(s, part) ==
    IF part = "cond" THEN {0, 1}
    ELSE IF s.k = "switch" THEN SwitchValues ELSE {0}

\* Both functions evaluate the expression they wait for.
Evaluate ==
    /\ Waiting(c) /\ Evaluating(code, w)
    /\ \E v \in Outcomes(c.focus.s, c.focus.part) :
        /\ c' = Answer(c, v)
        /\ w' = Push(w, v)
    /\ UNCHANGED <<body, code>>

Next == CSteps \/ WasmSteps \/ Evaluate

Spec == Init /\ [][Next]_vars /\ WF_vars(CSteps) /\ WF_vars(WasmSteps)

-----------------------------------------------------------------------------
Rejected == Diagnostics(code.ins) # {}

\* The WebAssembly is at an instruction or past the end, and the pending goto
\* target is none or the id of a label of the function.
TypeOK ==
    /\ w.pc \in 1..(Len(code.ins) + 1)
    /\ w.state \in {"run", "done", "invalid", "unreachable"}
    /\ Local(w, Target) # 0 =>
           Local(w, Target) \in 1..Cardinality(LabelsIn(Compound(body)))

\* The WebAssembly never reaches an expression the C function does not
\* evaluate there, and never returns while it still has one to evaluate.
InStep ==
    ~Rejected =>
        /\ Evaluating(code, w) /\ (Waiting(c) \/ Ended(c)) =>
               Waiting(c) /\ EventOf(c) = code.ins[w.pc].ev
        /\ Returned(code, w) => Ended(c)

\* Every branch names an open construct and no statement leaves a value on
\* the operand stack or takes one that is not there: the code is valid.
Valid == ~Rejected => w.state \notin {"invalid", "unreachable"}

\* The lowering only gives up on a goto that enters a switch.
RECURSIVE SwitchesIn(_)
SwitchesIn(s) ==
    (IF s.k = "switch" THEN {s} ELSE {}) \cup UNION {SwitchesIn(t) : t \in ToSet(Inner(s))}
Accepted ==
    Rejected => \E s \in SwitchesIn(Compound(body)) :
                    LabelsIn(s.body) \cap EntryTargets(body) # {}

\* When the function returns, the shadow-stack pointer is the caller's.
StackRestored == ~Rejected /\ Returned(code, w) => w.sp = 0

\* What the C function evaluates or where it ends, the WebAssembly reaches.
Arrives ==
    /\ (Waiting(c) /\ ~Rejected) ~> (Evaluating(code, w) /\ Waiting(c))
    /\ (Ended(c) /\ ~Rejected) ~> Returned(code, w)
=============================================================================
