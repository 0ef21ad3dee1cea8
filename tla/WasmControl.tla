---------------------------- MODULE WasmControl ----------------------------
(***************************************************************************)
(* The WebAssembly the statement lowering emits, as far as control flow is *)
(* concerned: an instruction sequence with nested block, loop and if, and  *)
(* the rules of the WebAssembly specification for running it.  The code is *)
(* not part of the repository (the WasmVM submodule); it is modelled from  *)
(* the instructions src/src/codegen/FunctionCodegen.cpp emits.             *)
(*                                                                         *)
(* "eval" stands for the instructions of one expression, and pushes the    *)
(* value the environment chooses.  "in" pushes whether a local is one of a *)
(* set of constants (local.get, i32.const, i32.eq, i32.or ...).  "enter"   *)
(* and "leave" are the prologue and epilogue of the shadow-stack frame.    *)
(***************************************************************************)
EXTENDS Integers, Sequences, SequencesExt

CONSTANT Bits          \* the width of an i32 here

ASSUME BitsAssumption == Bits \in Nat \ {0}

I(op)         == [op |-> op]
Br(n)         == [op |-> "br", n |-> n]
BrIf(n)       == [op |-> "br_if", n |-> n]
BrTable(ns)   == [op |-> "br_table", ns |-> ns]
Const(n)      == [op |-> "const", n |-> n]
SubConst(n)   == [op |-> "sub", n |-> n]
LocalGet(x)   == [op |-> "local.get", x |-> x]
LocalSet(x)   == [op |-> "local.set", x |-> x]
LocalIn(x, S) == [op |-> "in", x |-> x, set |-> S]
Eval(id, part) == [op |-> "eval", ev |-> <<id, part>>]
FrameEnter(n) == [op |-> "enter", n |-> n]
FrameLeave(n) == [op |-> "leave", n |-> n]
Unreachable(why) == [op |-> "unreachable", diagnostic |-> why]

\* A value kept to 32 bits, signed and unsigned.
Wrap(v)     == ((v + 2^(Bits - 1)) % 2^Bits) - 2^(Bits - 1)
Unsigned(v) == v % 2^Bits

-----------------------------------------------------------------------------
Opens == {"block", "loop", "if"}

\* The first of the given instructions at or after i that belongs to the
\* innermost of the open constructs around i.
RECURSIVE Match(_, _, _, _)
Match(code, i, open, ops) ==
    IF open = 1 /\ code[i].op \in ops THEN i
    ELSE Match(code, i + 1,
               IF code[i].op \in Opens THEN open + 1
               ELSE IF code[i].op = "end" THEN open - 1 ELSE open,
               ops)

\* Code with the structure a validator finds in it: the end of every
\* construct, and the else of every if, or its end when it has none.
Assemble(ins) ==
    LET opens == {p \in DOMAIN ins : ins[p].op \in Opens}
    IN  [ins |-> ins,
         ends  |-> [p \in opens |-> Match(ins, p + 1, 1, {"end"})],
         elses |-> [p \in opens |-> Match(ins, p + 1, 1, {"else", "end"})]]

-----------------------------------------------------------------------------
(***************************************************************************)
(* A running function: the next instruction, the operand stack, the locals *)
(* that were set (others are 0), the open labels, innermost first, and the *)
(* shadow-stack pointer relative to the caller's.                          *)
(***************************************************************************)
Start == [pc |-> 1, stack |-> <<>>, locals |-> <<>>, labels |-> <<>>,
          sp |-> 0, fp |-> 0, state |-> "run"]

Local(w, x)  == IF x \in DOMAIN w.locals THEN w.locals[x] ELSE 0
Push(w, v)   == [w EXCEPT !.pc = @ + 1, !.stack = <<v>> \o @]
Pop1(w)      == [w EXCEPT !.pc = @ + 1, !.stack = Tail(@)]
Replace(w, v) == [w EXCEPT !.pc = @ + 1, !.stack = <<v>> \o Tail(@)]
Trap(w, why) == [w EXCEPT !.state = why]

\* The operands an instruction takes.
Needs(op) ==
    IF op \in {"drop", "eqz", "sub", "wrap", "local.set", "if", "br_if", "br_table"}
    THEN 1 ELSE 0

\* A branch to the n-th open label: a loop goes on at its top, a block ends.
Branch(w, n) ==
    IF n + 1 \notin DOMAIN w.labels THEN Trap(w, "invalid")
    ELSE LET l == w.labels[n + 1]
             outer == SubSeq(w.labels, n + 1 + (IF l.loop THEN 0 ELSE 1), Len(w.labels))
         IN  [w EXCEPT !.pc = l.to, !.labels = outer]

\* Enter a construct: its label is where a branch to it goes on.
Open(w, pc, loop, to) ==
    [w EXCEPT !.pc = pc, !.labels = <<[loop |-> loop, to |-> to]>> \o @]

\* Statement-level code leaves nothing on the operand stack, so the stack is
\* empty wherever a construct of type [] -> [] opens, closes or is left.
Control(op) == op \in {"block", "loop", "end", "else", "br"}

Exec(code, w) ==
    LET ins == code.ins[w.pc]
        top == Head(w.stack)
        rest == Pop1(w)
    IN CASE Len(w.stack) < Needs(ins.op) -> Trap(w, "invalid")
         [] (Control(ins.op) /\ w.stack # <<>>)
              \/ (ins.op \in {"if", "br_if", "br_table"} /\ Len(w.stack) > 1) -> Trap(w, "invalid")
         [] ins.op = "block" -> Open(w, w.pc + 1, FALSE, code.ends[w.pc] + 1)
         [] ins.op = "loop"  -> Open(w, w.pc + 1, TRUE, w.pc + 1)
         [] ins.op = "if" ->
              LET end == code.ends[w.pc]
                  else == code.elses[w.pc]
              IN  IF top # 0 THEN Open(rest, w.pc + 1, FALSE, end + 1)
                  ELSE IF else = end THEN [rest EXCEPT !.pc = end + 1]
                  ELSE Open(rest, else + 1, FALSE, end + 1)
         [] ins.op = "else" -> Branch(w, 0)
         [] ins.op = "end"  ->
              IF w.labels = <<>> THEN Trap(w, "invalid")
              ELSE [w EXCEPT !.pc = @ + 1, !.labels = Tail(@)]
         [] ins.op = "br"       -> Branch(w, ins.n)
         [] ins.op = "br_if"    -> IF top # 0 THEN Branch(rest, ins.n) ELSE rest
         [] ins.op = "br_table" ->
              LET i == Unsigned(top) + 1
              IN  Branch(rest, IF i < Len(ins.ns) THEN ins.ns[i] ELSE ins.ns[Len(ins.ns)])
         [] ins.op = "const"     -> Push(w, ins.n)
         [] ins.op = "local.get" -> Push(w, Local(w, ins.x))
         [] ins.op = "in"        -> Push(w, IF Local(w, ins.x) \in ins.set THEN 1 ELSE 0)
         [] ins.op = "local.set" ->
              [rest EXCEPT !.locals = [x \in DOMAIN @ \cup {ins.x} |->
                                          IF x = ins.x THEN top ELSE @[x]]]
         [] ins.op = "drop"  -> rest
         [] ins.op = "eqz"   -> Replace(w, IF top = 0 THEN 1 ELSE 0)
         [] ins.op = "wrap"  -> Replace(w, Wrap(top))
         [] ins.op = "sub"   -> Replace(w, Wrap(top - ins.n))
         [] ins.op = "enter" -> [w EXCEPT !.pc = @ + 1, !.sp = @ - ins.n, !.fp = w.sp - ins.n]
         [] ins.op = "leave" -> [w EXCEPT !.pc = @ + 1, !.sp = w.fp + ins.n]
         [] ins.op = "return" -> [w EXCEPT !.state = "done", !.stack = <<>>]
         [] ins.op = "unreachable" -> Trap(w, "unreachable")

\* The function waits for the value of an expression, or has returned (by
\* falling off its end, too).
InCode(code, w)     == w.state = "run" /\ w.pc \in DOMAIN code.ins
Evaluating(code, w) == InCode(code, w) /\ code.ins[w.pc].op = "eval"
Running(code, w)    == InCode(code, w) /\ code.ins[w.pc].op # "eval"
Returned(code, w)   == w.state = "done" \/ (w.state = "run" /\ w.pc = Len(code.ins) + 1)
=============================================================================
