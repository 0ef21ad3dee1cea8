---------------------------- MODULE DeadCodeElim ----------------------------
(***************************************************************************)
(* The linker's mark-and-sweep over the merged module, step by step:       *)
(* dce::eliminate in src/link/DeadCodeEliminator.cpp.                      *)
(*                                                                         *)
(* A module is reduced to its function index space: `imports` imported     *)
(* functions at indices 0 .. imports-1, then the defined ones, each with   *)
(* the indices its body calls or takes (Call, Return_call, Ref_func); the  *)
(* Ref_func entries of bodies, element segments and global initialisers;   *)
(* the function exports and the start function.                            *)
(***************************************************************************)
EXTENDS Integers, Sequences

CONSTANTS
  Programs,  \* the merged modules considered
  NoStart,   \* the value of `start` in a module without a start section
  Dead       \* (index_t)-1 in the remap table

(* Index spaces start at 0, sequences at 1. *)
NumFuncs(p) == p.imports + Len(p.bodies)
Index(p)    == 0 .. NumFuncs(p) - 1
Defined(p)  == p.imports .. NumFuncs(p) - 1
Body(p, i)  == p.bodies[i - p.imports + 1]

ValidProgram(p) ==
  /\ p.imports \in Nat
  /\ p.bodies \in Seq(Seq(Nat))
  /\ \A k \in DOMAIN p.bodies : \A i \in DOMAIN p.bodies[k] :
       p.bodies[k][i] \in Index(p)
  /\ p.refFunced \subseteq Index(p)
  /\ p.exports \subseteq Index(p)
  /\ p.start \in Defined(p) \cup {NoStart}

(* The merged modules are well formed: every index is in range.            *)
ASSUME ProgramsAssumption == \A p \in Programs : ValidProgram(p)
ASSUME SentinelsAssumption == NoStart \notin Nat /\ Dead \notin Nat

VARIABLES
  prog,    \* the module given to the pass
  seeds,   \* roots the seeding loops have not reached
  mark,    \* reachable functions found so far
  work,    \* FIFO queue of marked functions whose body is to be walked
  cur,     \* the function being walked
  pos,     \* position in its body, then in the list of functions (sweep)
  kept,    \* old indices of the defined functions kept, in order
  remap,   \* old index |-> new index, or Dead
  pc       \* "seed", "pop", "walk", "sweep" or "done"

vars == <<prog, seeds, mark, work, cur, pos, kept, remap, pc>>

-----------------------------------------------------------------------------
(* The roots: the start function, or without one every exported function;  *)
(* every function whose reference escapes; every import.                   *)
Roots(p) ==
  (IF p.start # NoStart THEN {p.start} ELSE p.exports)
    \cup p.refFunced \cup 0 .. p.imports - 1

Init ==
  /\ prog \in Programs
  /\ seeds = IF prog.bodies = << >> THEN {} ELSE Roots(prog)
  /\ mark = {} /\ work = << >>
  /\ cur = 0 /\ pos = 1
  /\ kept = << >> /\ remap = << >>
  /\ pc = IF prog.bodies = << >> THEN "done" ELSE "seed"

(* Faults: marked functions are not queued; the next function is marked    *)
(* too.                                                                    *)
SeedUnqueued(idx) == mark' = mark \cup {idx} /\ work' = work
SeedNeighbour(idx) ==
  IF idx \in Index(prog) \ mark
    THEN /\ mark' = mark \cup ({idx, idx + 1} \cap Index(prog))
         /\ work' = Append(work, idx)
    ELSE UNCHANGED <<mark, work>>

(* seed(idx): insert into mark, push if it was not there. *)
Seed(idx) ==
  IF idx \in Index(prog) \ mark
    THEN mark' = mark \cup {idx} /\ work' = Append(work, idx)
    ELSE UNCHANGED <<mark, work>>

(* The seeding loops; refFunced is an unordered_set, so its order, and here *)
(* the order of all the roots, is arbitrary.                               *)
SeedRoot ==
  /\ pc = "seed"
  /\ \E idx \in seeds : Seed(idx) /\ seeds' = seeds \ {idx}
  /\ UNCHANGED <<prog, cur, pos, kept, remap, pc>>

SeedsDone ==
  /\ pc = "seed" /\ seeds = {}
  /\ pc' = "pop"
  /\ UNCHANGED <<prog, seeds, mark, work, cur, pos, kept, remap>>

(* Fault: an import is never taken off the queue. *)
PopStuck ==
  /\ pc = "pop" /\ work # << >>
  /\ IF Head(work) < prog.imports
       THEN UNCHANGED <<work, cur, pos, pc>>
       ELSE cur' = Head(work) /\ pos' = 1 /\ pc' = "walk" /\ work' = Tail(work)
  /\ UNCHANGED <<prog, seeds, mark, kept, remap>>

(* while (!work.empty()): imports have no body to walk. *)
Pop ==
  /\ pc = "pop" /\ work # << >>
  /\ work' = Tail(work)
  /\ IF Head(work) < prog.imports
       THEN UNCHANGED <<cur, pos, pc>>
       ELSE cur' = Head(work) /\ pos' = 1 /\ pc' = "walk"
  /\ UNCHANGED <<prog, seeds, mark, kept, remap>>

(* One Call, Return_call or Ref_func of the body. *)
VisitInstr ==
  /\ pc = "walk" /\ pos \in DOMAIN Body(prog, cur)
  /\ Seed(Body(prog, cur)[pos])
  /\ pos' = pos + 1
  /\ UNCHANGED <<prog, seeds, cur, kept, remap, pc>>

BodyDone ==
  /\ pc = "walk" /\ pos \notin DOMAIN Body(prog, cur)
  /\ pc' = "pop"
  /\ UNCHANGED <<prog, seeds, mark, work, cur, pos, kept, remap>>

Propagated ==
  /\ pc = "pop" /\ work = << >>
  /\ remap' = [i \in 0 .. prog.imports - 1 |-> i]
  /\ pos' = 1 /\ pc' = "sweep"
  /\ UNCHANGED <<prog, seeds, mark, work, cur, kept>>

(* One iteration of the sweep: keep and renumber, or drop. *)
Sweep ==
  /\ pc = "sweep" /\ pos \in DOMAIN prog.bodies
  /\ LET old == prog.imports + pos - 1 IN
       IF old \in mark
         THEN /\ kept' = Append(kept, old)
              /\ remap' = [i \in 0 .. old |->
                             IF i = old THEN prog.imports + Len(kept) ELSE remap[i]]
         ELSE /\ kept' = kept
              /\ remap' = [i \in 0 .. old |-> IF i = old THEN Dead ELSE remap[i]]
  /\ pos' = pos + 1
  /\ UNCHANGED <<prog, seeds, mark, work, cur, pc>>

Swept ==
  /\ pc = "sweep" /\ pos \notin DOMAIN prog.bodies
  /\ pc' = "done"
  /\ UNCHANGED <<prog, seeds, mark, work, cur, pos, kept, remap>>

Finished == pc = "done" /\ UNCHANGED vars

Next == \/ SeedRoot \/ SeedsDone \/ Pop \/ VisitInstr \/ BodyDone
        \/ Propagated \/ Sweep \/ Swept \/ Finished

Spec == Init /\ [][Next]_vars
FairSpec == Spec /\ WF_vars(Next)

-----------------------------------------------------------------------------
(* The module the pass leaves: unchanged when nothing was removed, else    *)
(* every surviving reference goes through remapIdx.                        *)
Changed == prog.bodies # << >> /\ Len(kept) < Len(prog.bodies)
(* Faults: only indices past the imports that moved down are rewritten by   *)
(* one; the exports of dropped functions stay.                             *)
RemapIdxByOne(i) == IF Changed /\ i > prog.imports THEN i - 1 ELSE i
RemapIdx(i) == IF Changed /\ i \in DOMAIN remap /\ remap[i] # Dead
                 THEN remap[i] ELSE i
NewFuncs == IF Changed THEN kept
                       ELSE [k \in DOMAIN prog.bodies |-> prog.imports + k - 1]
NewExportsAll == {RemapIdx(i) : i \in prog.exports}
NewExports == {RemapIdx(i) : i \in IF Changed
                                     THEN {e \in prog.exports : remap[e] # Dead}
                                     ELSE prog.exports}

(* The old function at an index of the new module. *)
Denotes(i) ==
  IF i < prog.imports THEN i
  ELSE IF i - prog.imports + 1 \in DOMAIN NewFuncs
         THEN NewFuncs[i - prog.imports + 1] ELSE Dead

Succ(i) == IF i < prog.imports
             THEN {} ELSE {Body(prog, i)[k] : k \in DOMAIN Body(prog, i)}
Closed(S) == \A i \in S : Succ(i) \subseteq S

(* Every variable holds a value of its C++ type. *)
TypeOK ==
  /\ prog \in Programs
  /\ seeds \subseteq Index(prog) /\ mark \subseteq Index(prog)
  /\ work \in Seq(Index(prog))
  /\ cur \in Index(prog) \cup {0} /\ pos \in Nat \ {0}
  /\ pc = "walk" => cur \in Defined(prog)
  /\ kept \in Seq(Defined(prog))
  /\ pc \in {"seed", "pop", "walk", "sweep", "done"}

(* Nothing live is removed: when the marking is over the marked functions  *)
(* contain the roots and everything their bodies can reach, so no kept     *)
(* body refers to a function the sweep dropped.                            *)
MarkComplete ==
  pc \in {"sweep", "done"} /\ prog.bodies # << >> =>
    Roots(prog) \subseteq mark /\ Closed(mark)

(* Nothing dead is kept: at any time the marked functions are in every set *)
(* that contains the roots and is closed under reference (whatever the     *)
(* order in which the unordered set of Ref_func targets is seeded).        *)
MarkSound ==
  \A S \in SUBSET Index(prog) : Roots(prog) \subseteq S /\ Closed(S) => mark \subseteq S

(* Compaction preserves meaning: in the module the pass leaves, each       *)
(* reference of a surviving body, element segment or initialiser, each     *)
(* export and the start function denotes the function it denoted before.   *)
SameMeaning ==
  pc = "done" =>
    /\ \A k \in DOMAIN NewFuncs : \A i \in Succ(NewFuncs[k]) :
         Denotes(RemapIdx(i)) = i
    /\ \A i \in prog.refFunced : Denotes(RemapIdx(i)) = i
    /\ prog.start # NoStart => Denotes(RemapIdx(prog.start)) = prog.start

(* An export survives exactly when its function does, under its new index. *)
ExportsFollow ==
  pc = "done" =>
    {Denotes(e) : e \in NewExports}
      = {e \in prog.exports : prog.bodies = << >> \/ e \in mark}

(* The marking ends however the functions call each other. *)
Termination == <>(pc = "done")
=============================================================================
