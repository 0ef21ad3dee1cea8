------------------------ MODULE DeadCodeElim_proofs ------------------------
(***************************************************************************)
(* Proofs about DeadCodeElim, for every well-formed merged module: the     *)
(* marking computes the least closed set that contains the roots, and the  *)
(* compacted module means what the original one meant.                     *)
(***************************************************************************)
EXTENDS DeadCodeElim, TLAPS

-----------------------------------------------------------------------------
LEMMA ProgramFacts ==
  ASSUME NEW p \in Programs
  PROVE  /\ p.imports \in Nat /\ p.bodies \in Seq(Seq(Nat))
         /\ Len(p.bodies) \in Nat
         /\ Defined(p) \subseteq Index(p)
         /\ Roots(p) \subseteq Index(p)
         /\ \A i \in Defined(p) : Body(p, i) \in Seq(Nat)
         /\ \A i \in Defined(p) : \A k \in DOMAIN Body(p, i) : Body(p, i)[k] \in Index(p)
         /\ p.bodies = << >> => Defined(p) = {}
<1>1. ValidProgram(p)
  BY ProgramsAssumption
<1>2. p.imports \in Nat /\ p.bodies \in Seq(Seq(Nat)) /\ Len(p.bodies) \in Nat
  BY <1>1 DEF ValidProgram
<1>3. \A i \in Defined(p) : i - p.imports + 1 \in DOMAIN p.bodies
  BY <1>2 DEF Defined, NumFuncs
<1>4. /\ \A i \in Defined(p) : Body(p, i) \in Seq(Nat)
      /\ \A i \in Defined(p) : \A k \in DOMAIN Body(p, i) : Body(p, i)[k] \in Index(p)
  BY <1>1, <1>2, <1>3 DEF ValidProgram, Body
<1>5. Defined(p) \subseteq Index(p) /\ 0 .. p.imports - 1 \subseteq Index(p)
  BY <1>2 DEF Defined, Index, NumFuncs
<1>6. Roots(p) \subseteq Index(p)
  BY <1>1, <1>5 DEF Roots, ValidProgram
<1>7. p.bodies = << >> => Defined(p) = {}
  BY <1>2 DEF Defined, NumFuncs
<1> QED
  BY <1>2, <1>4, <1>5, <1>6, <1>7

(* What seed(idx) does to the mark and the queue. *)
LEMMA SeedFacts ==
  ASSUME TypeOK, NEW idx \in Index(prog), Seed(idx)
  PROVE  /\ mark' = mark \cup {idx}
         /\ work' \in Seq(Index(prog))
         /\ \A k \in DOMAIN work : k \in DOMAIN work' /\ work'[k] = work[k]
         /\ \A k \in DOMAIN work' : k \in DOMAIN work \/ work'[k] = idx
         /\ idx \in mark \/ \E k \in DOMAIN work' : work'[k] = idx
<1>1. CASE idx \in mark
  BY <1>1 DEF Seed, TypeOK
<1>2. CASE idx \notin mark
  <2>1. mark' = mark \cup {idx} /\ work' = Append(work, idx)
    BY <1>2 DEF Seed
  <2>2. work \in Seq(Index(prog))
    BY DEF TypeOK
  <2>3. Len(work') = Len(work) + 1 /\ work'[Len(work) + 1] = idx
        /\ \A k \in 1 .. Len(work) : work'[k] = work[k]
    BY <2>1, <2>2
  <2> QED
    BY <2>1, <2>2, <2>3
<1> QED
  BY <1>1, <1>2

-----------------------------------------------------------------------------
(* Type correctness. *)
LEMMA TypeInit == Init => TypeOK
  BY ProgramFacts, SentinelsAssumption DEF Init, TypeOK

LEMMA TypeStep ==
  ASSUME TypeOK, [Next]_vars
  PROVE  TypeOK'
<1> USE DEF TypeOK
<1>1. CASE SeedRoot
  <2>1. PICK idx \in seeds : Seed(idx) /\ seeds' = seeds \ {idx}
    BY <1>1 DEF SeedRoot
  <2>2. mark' \subseteq Index(prog) /\ work' \in Seq(Index(prog))
    BY <2>1, SeedFacts
  <2> QED
    BY <1>1, <2>1, <2>2 DEF SeedRoot
<1>2. CASE SeedsDone
  BY <1>2 DEF SeedsDone
<1>3. CASE Pop
  <2>1. Head(work) \in Index(prog) /\ Tail(work) \in Seq(Index(prog))
    BY <1>3 DEF Pop
  <2>2. ~(Head(work) < prog.imports) => Head(work) \in Defined(prog)
    BY <2>1, ProgramFacts DEF Index, Defined, NumFuncs
  <2> QED
    BY <1>3, <2>1, <2>2 DEF Pop
<1>4. CASE VisitInstr
  <2>1. Body(prog, cur)[pos] \in Index(prog)
    BY <1>4, ProgramFacts DEF VisitInstr
  <2>2. mark' \subseteq Index(prog) /\ work' \in Seq(Index(prog))
    BY <1>4, <2>1, SeedFacts DEF VisitInstr
  <2> QED
    BY <1>4, <2>2 DEF VisitInstr
<1>5. CASE BodyDone
  BY <1>5 DEF BodyDone
<1>6. CASE Propagated
  BY <1>6 DEF Propagated
<1>7. CASE Sweep
  <2>1. prog.imports + pos - 1 \in Defined(prog)
    <3>1. prog.imports \in Nat /\ Len(prog.bodies) \in Nat /\ pos \in 1 .. Len(prog.bodies)
      BY <1>7, ProgramFacts DEF Sweep
    <3> QED
      BY <3>1 DEF Defined, NumFuncs
  <2>2. kept' \in Seq(Defined(prog))
    BY <1>7, <2>1 DEF Sweep
  <2> QED
    BY <1>7, <2>2 DEF Sweep
<1>8. CASE Swept
  BY <1>8 DEF Swept
<1>9. CASE UNCHANGED vars
  BY <1>9 DEF vars
<1> QED
  BY <1>1, <1>2, <1>3, <1>4, <1>5, <1>6, <1>7, <1>8, <1>9 DEF Next, Finished

(* Every variable keeps its type. *)
THEOREM TypeCorrect == Spec => []TypeOK
<1>1. TypeOK /\ [Next]_vars => TypeOK'
  BY TypeStep
<1> QED
  BY TypeInit, <1>1, PTL DEF Spec

-----------------------------------------------------------------------------
(* The marking.                                                            *)

(* A marked function is queued, being walked, or has all it references     *)
(* marked.                                                                 *)
Queued(i) == \E k \in DOMAIN work : work[k] = i
Walked(i) == /\ pc = "walk" /\ i = cur
             /\ \A k \in DOMAIN Body(prog, i) : k < pos => Body(prog, i)[k] \in mark
Frontier == \A i \in mark : Queued(i) \/ Walked(i) \/ Succ(i) \subseteq mark

MarkInv ==
  /\ prog.bodies # << >> => Roots(prog) \subseteq mark \cup seeds
  /\ prog.bodies = << >> => pc = "done"
  /\ seeds \subseteq Roots(prog)
  /\ pc # "seed" => seeds = {}
  /\ pc \in {"sweep", "done"} => work = << >>
  /\ \A k \in DOMAIN work : work[k] \in mark
  /\ pc = "walk" => cur \in mark
  /\ Frontier
  /\ MarkSound

LEMMA MarkInit == Init => MarkInv
  BY DEF Init, MarkInv, Frontier, MarkSound

(* A step that queues idx, a root or a function the walked body refers to. *)
LEMMA SeedKeepsSound ==
  ASSUME TypeOK, MarkInv, NEW idx \in Index(prog), Seed(idx), prog' = prog,
         idx \in Roots(prog) \/ (cur \in mark /\ idx \in Succ(cur))
  PROVE  MarkSound'
<1>1. mark' = mark \cup {idx}
  BY SeedFacts
<1>2. \A S \in SUBSET Index(prog) :
        Roots(prog) \subseteq S /\ Closed(S) => mark \subseteq S /\ idx \in S
  BY DEF MarkInv, MarkSound, Closed
<1>3. \A S : Closed(S)' <=> Closed(S)
  BY DEF Closed, Succ
<1> QED
  BY <1>1, <1>2, <1>3 DEF MarkSound

LEMMA SeedKeepsMarked ==
  ASSUME TypeOK, MarkInv, NEW idx \in Index(prog), Seed(idx)
  PROVE  \A k \in DOMAIN work' : work'[k] \in mark'
BY SeedFacts DEF MarkInv

(* A step that leaves the marking alone. *)
LEMMA MarkSame ==
  ASSUME MarkInv, UNCHANGED <<prog, seeds, mark, work>>,
         pc \in {"sweep", "done"} \/ (pc = "pop" /\ work = << >>),
         pc' \in {"sweep", "done"},
         prog.bodies = << >> => pc' = "done"
  PROVE  MarkInv'
<1>1. \A i : ~Queued(i) /\ ~Walked(i)
  BY DEF MarkInv, Queued, Walked
<1>2. \A i : Succ(i)' = Succ(i)
  BY DEF Succ
<1>3. \A i \in mark : Succ(i) \subseteq mark
  BY <1>1 DEF MarkInv, Frontier
<1>4. Frontier'
  BY <1>2, <1>3 DEF Frontier
<1>5. MarkSound'
  BY <1>2 DEF MarkInv, MarkSound, Closed
<1> QED
  BY <1>4, <1>5 DEF MarkInv

LEMMA MarkStep ==
  ASSUME TypeOK, MarkInv, [Next]_vars
  PROVE  MarkInv'
<1>0. /\ \A i : prog' = prog => Succ(i)' = Succ(i)
      /\ prog \in Programs /\ work \in Seq(Index(prog))
  BY DEF Succ, TypeOK
<1>1. CASE SeedRoot
  <2>1. PICK idx \in seeds : Seed(idx) /\ seeds' = seeds \ {idx}
    BY <1>1 DEF SeedRoot
  <2>2. idx \in Index(prog) /\ idx \in Roots(prog) /\ pc = "seed" /\ pc' = "seed"
        /\ prog' = prog
    BY <1>1, <2>1 DEF SeedRoot, TypeOK, MarkInv
  <2>3. mark' = mark \cup {idx}
    BY <2>1, <2>2, SeedFacts
  <2>4. Frontier'
    <3>1. \A i \in mark : Queued(i) \/ Succ(i) \subseteq mark
      BY <2>2 DEF MarkInv, Frontier, Walked
    <3>2. \A i \in mark : Queued(i) => Queued(i)'
      BY <2>1, <2>2, SeedFacts DEF Queued
    <3>3. idx \in mark \/ Queued(idx)'
      BY <2>1, <2>2, SeedFacts DEF Queued
    <3> QED
      BY <1>0, <2>2, <2>3, <3>1, <3>2, <3>3 DEF Frontier
  <2>5. MarkSound'
    BY <2>1, <2>2, SeedKeepsSound
  <2>6. \A k \in DOMAIN work' : work'[k] \in mark'
    BY <2>1, <2>2, SeedKeepsMarked
  <2> QED
    BY <2>1, <2>2, <2>3, <2>4, <2>5, <2>6 DEF MarkInv
<1>2. CASE SeedsDone
  <2>1. \A i : Queued(i)' <=> Queued(i)
    BY <1>2 DEF SeedsDone, Queued
  <2>2. \A i : ~Walked(i)
    BY <1>2 DEF SeedsDone, Walked
  <2>3. MarkSound'
    BY <1>0, <1>2 DEF SeedsDone, MarkInv, MarkSound, Closed
  <2>4. Frontier'
    BY <1>0, <1>2, <2>1, <2>2 DEF SeedsDone, MarkInv, Frontier
  <2> QED
    BY <1>2, <2>3, <2>4 DEF SeedsDone, MarkInv
<1>3. CASE Pop
  <2>1. /\ work # << >> /\ work' = Tail(work) /\ pc = "pop"
        /\ UNCHANGED <<prog, seeds, mark>>
    BY <1>3 DEF Pop
  <2>2. PICK h : h = Head(work)
    OBVIOUS
  <2>3. /\ h \in mark /\ h \in Index(prog)
        /\ \A k \in DOMAIN work' : work'[k] \in mark
    BY <1>0, <2>1, <2>2 DEF MarkInv
  <2>4. \A i : Queued(i) => Queued(i)' \/ i = h
    <3>1. ASSUME NEW i, NEW k \in DOMAIN work, work[k] = i, i # h
          PROVE  Queued(i)'
      <4>1. k # 1 /\ k - 1 \in DOMAIN Tail(work) /\ Tail(work)[k - 1] = i
        BY <1>0, <2>1, <2>2, <3>1
      <4> QED
        BY <2>1, <4>1 DEF Queued
    <3> QED
      BY <3>1 DEF Queued
  <2>5. Walked(h)' \/ Succ(h) = {}
    <3>1. CASE h < prog.imports
      BY <3>1 DEF Succ
    <3>2. CASE ~(h < prog.imports)
      <4>1. pc' = "walk" /\ cur' = h /\ pos' = 1
        BY <1>3, <2>2, <3>2 DEF Pop
      <4>2. h \in Defined(prog)
        BY <2>3, <3>2, <1>0, ProgramFacts DEF Index, Defined, NumFuncs
      <4>3. \A k \in DOMAIN Body(prog, h) : ~(k < 1)
        BY <1>0, <4>2, ProgramFacts
      <4> QED
        BY <2>1, <4>1, <4>3 DEF Walked
    <3> QED
      BY <3>1, <3>2
  <2>6. Frontier'
    BY <1>0, <2>1, <2>4, <2>5 DEF MarkInv, Frontier, Walked
  <2>7. MarkSound'
    BY <1>0, <2>1 DEF MarkInv, MarkSound, Closed
  <2>8. /\ pc' \in {"pop", "walk"}
        /\ pc' = "walk" => cur' = h
    BY <1>3, <2>2 DEF Pop
  <2> QED
    BY <2>1, <2>3, <2>6, <2>7, <2>8 DEF MarkInv
<1>4. CASE VisitInstr
  <2>1. PICK idx : idx = Body(prog, cur)[pos]
    OBVIOUS
  <2>2. /\ Seed(idx) /\ pc = "walk" /\ pc' = "walk" /\ pos' = pos + 1
        /\ UNCHANGED <<prog, seeds, cur>>
        /\ pos \in DOMAIN Body(prog, cur) /\ cur \in Defined(prog)
    BY <1>4, <2>1 DEF VisitInstr, TypeOK
  <2>3. idx \in Index(prog) /\ cur \in mark /\ idx \in Succ(cur)
    <3>1. ~(cur < prog.imports)
      <4>1. cur \in prog.imports .. NumFuncs(prog) - 1 /\ prog.imports \in Nat
            /\ NumFuncs(prog) \in Nat
        BY <1>0, <2>2, ProgramFacts DEF Defined, NumFuncs
      <4> QED
        BY <4>1
    <3> QED
      BY <1>0, <2>1, <2>2, <3>1, ProgramFacts DEF Succ, MarkInv
  <2>4. mark' = mark \cup {idx}
    BY <2>2, <2>3, SeedFacts
  <2>5. Frontier'
    <3>1. \A i \in mark : Queued(i) => Queued(i)'
      BY <2>2, <2>3, SeedFacts DEF Queued
    <3>2. idx \in mark \/ Queued(idx)'
      BY <2>2, <2>3, SeedFacts DEF Queued
    <3>3. ASSUME NEW i \in mark, Walked(i)
          PROVE  Walked(i)'
      <4>1. \A k \in DOMAIN Body(prog, cur) : k < pos + 1 => k < pos \/ k = pos
        BY <1>0, <2>2, ProgramFacts DEF TypeOK
      <4>2. \A k \in DOMAIN Body(prog, i) : k < pos + 1 => Body(prog, i)[k] \in mark'
        BY <2>1, <2>4, <3>3, <4>1 DEF Walked
      <4> QED
        BY <2>2, <3>3, <4>2 DEF Walked
    <3> QED
      BY <1>0, <2>2, <2>4, <3>1, <3>2, <3>3 DEF Frontier, MarkInv
  <2>6. MarkSound'
    BY <2>2, <2>3, SeedKeepsSound
  <2>7. \A k \in DOMAIN work' : work'[k] \in mark'
    BY <2>2, <2>3, SeedKeepsMarked
  <2> QED
    BY <2>2, <2>3, <2>4, <2>5, <2>6, <2>7 DEF MarkInv
<1>5. CASE BodyDone
  <2>1. /\ pc = "walk" /\ pc' = "pop" /\ pos \notin DOMAIN Body(prog, cur)
        /\ UNCHANGED <<prog, seeds, mark, work>> /\ cur \in Defined(prog)
    BY <1>5 DEF BodyDone, TypeOK
  <2>2. ASSUME NEW i \in mark, Walked(i) PROVE Succ(i) \subseteq mark
    <3>1. \A k \in DOMAIN Body(prog, cur) : k < pos \/ Body(prog, cur)[k] \in mark
      <4>1. Body(prog, cur) \in Seq(Nat) /\ pos \in Nat \ {0}
        BY <1>0, <2>1, ProgramFacts DEF TypeOK
      <4>2. MarkInv /\ i = cur
        BY <2>2 DEF Walked
      <4> QED
        BY <2>1, <2>2, <4>1 DEF Walked
    <3>2. \A k \in DOMAIN Body(prog, cur) : Body(prog, cur)[k] \in mark
      BY <2>2, <3>1 DEF Walked
    <3> QED
      BY <2>2, <3>2 DEF Walked, Succ
  <2>3. Frontier'
    BY <1>0, <2>1, <2>2 DEF MarkInv, Frontier, Queued
  <2>4. MarkSound'
    BY <1>0, <2>1 DEF MarkInv, MarkSound, Closed
  <2> QED
    BY <2>1, <2>3, <2>4 DEF MarkInv
<1>6. CASE Propagated
  BY <1>6, MarkSame DEF Propagated, MarkInv
<1>7. CASE Sweep
  BY <1>7, MarkSame DEF Sweep, MarkInv
<1>8. CASE Swept
  BY <1>8, MarkSame DEF Swept
<1>9. CASE UNCHANGED vars
  <2>1. Frontier'
    BY <1>9 DEF vars, MarkInv, Frontier, Queued, Walked, Succ
  <2>2. MarkSound'
    BY <1>9 DEF vars, MarkInv, MarkSound, Closed, Succ
  <2> QED
    BY <1>9, <2>1, <2>2 DEF vars, MarkInv
<1> QED
  BY <1>1, <1>2, <1>3, <1>4, <1>5, <1>6, <1>7, <1>8, <1>9 DEF Next, Finished

LEMMA MarkInvComplete ==
  ASSUME MarkInv PROVE MarkComplete
<1>1. ASSUME pc \in {"sweep", "done"} PROVE \A i \in mark : Succ(i) \subseteq mark
  BY <1>1 DEF MarkInv, Frontier, Queued, Walked
<1> QED
  BY <1>1 DEF MarkInv, MarkComplete, Closed

-----------------------------------------------------------------------------
(* The sweep: `kept` and `remap` are inverse to each other on the marked   *)
(* functions already passed.                                               *)
Passed == CASE pc = "sweep" -> prog.imports + pos - 1
            [] pc = "done" /\ prog.bodies # << >> -> NumFuncs(prog)
            [] OTHER -> 0

Renumbered(m, M, K, R, i) ==
  /\ i \in M => /\ R[i] \in Nat /\ R[i] - m + 1 \in 1 .. Len(K)
                /\ K[R[i] - m + 1] = i
  /\ i \notin M => R[i] = Dead

(* n functions of the index space have been passed. *)
SweptTo(n) ==
  /\ DOMAIN remap = 0 .. n - 1
  /\ \A i \in 0 .. prog.imports - 1 : remap[i] = i
  /\ \A i \in prog.imports .. n - 1 : Renumbered(prog.imports, mark, kept, remap, i)
  /\ \A k \in DOMAIN kept : kept[k] \in mark
  /\ Len(kept) <= n - prog.imports
  /\ Len(kept) = n - prog.imports => \A i \in prog.imports .. n - 1 : i \in mark

SweepInv ==
  /\ pc \in {"seed", "pop", "walk"} => kept = << >>
  /\ pc = "sweep" => pos \in 1 .. Len(prog.bodies) + 1
  /\ pc \in {"sweep", "done"} /\ prog.bodies # << >> => SweptTo(Passed)
  /\ prog.bodies = << >> => pc = "done"

LEMMA SweepInit == Init => SweepInv
  BY DEF Init, SweepInv

(* Keeping one more function, or dropping it, leaves the earlier entries   *)
(* of the remap table right and makes the new one right.                   *)
LEMMA KeepEntry ==
  ASSUME NEW m \in Nat, NEW old \in Nat, m <= old, NEW D, old \in D,
         NEW K \in Seq(D), NEW M, old \in M, NEW R,
         \A i \in m .. old - 1 : Renumbered(m, M, K, R, i),
         NEW R2, R2 = [i \in 0 .. old |-> IF i = old THEN m + Len(K) ELSE R[i]]
  PROVE  \A i \in m .. old : Renumbered(m, M, Append(K, old), R2, i)
<1>1. /\ Len(K) \in Nat /\ Len(Append(K, old)) = Len(K) + 1
      /\ Append(K, old)[Len(K) + 1] = old
      /\ \A k \in 1 .. Len(K) : Append(K, old)[k] = K[k]
  OBVIOUS
<1>2. Renumbered(m, M, Append(K, old), R2, old)
  <2>1. R2[old] = m + Len(K)
    OBVIOUS
  <2>2. R2[old] - m + 1 = Len(K) + 1 /\ R2[old] \in Nat
    BY <1>1, <2>1
  <2>3. Len(K) + 1 \in 1 .. Len(Append(K, old))
    BY <1>1
  <2> QED
    BY <1>1, <2>2, <2>3 DEF Renumbered
<1>3. ASSUME NEW i \in m .. old - 1
      PROVE  Renumbered(m, M, Append(K, old), R2, i)
  <2>1. R2[i] = R[i]
    BY <1>3
  <2>2. Renumbered(m, M, K, R, i)
    BY <1>3
  <2> QED
    BY <1>1, <2>1, <2>2 DEF Renumbered
<1>4. \A i \in m .. old : i \in m .. old - 1 \/ i = old
  OBVIOUS
<1> QED
  BY <1>2, <1>3, <1>4

LEMMA DropEntry ==
  ASSUME NEW m \in Nat, NEW old \in Nat, m <= old, NEW K, NEW M, old \notin M, NEW R,
         \A i \in m .. old - 1 : Renumbered(m, M, K, R, i),
         NEW R2, R2 = [i \in 0 .. old |-> IF i = old THEN Dead ELSE R[i]]
  PROVE  \A i \in m .. old : Renumbered(m, M, K, R2, i)
<1>1. R2[old] = Dead
  OBVIOUS
<1>2. ASSUME NEW i \in m .. old - 1
      PROVE  Renumbered(m, M, K, R2, i)
  <2>1. R2[i] = R[i] /\ Renumbered(m, M, K, R, i)
    BY <1>2
  <2> QED
    BY <2>1 DEF Renumbered
<1>3. \A i \in m .. old : i \in m .. old - 1 \/ i = old
  OBVIOUS
<1> QED
  BY <1>1, <1>2, <1>3 DEF Renumbered

LEMMA SweepOne ==
  ASSUME TypeOK, SweepInv, Sweep
  PROVE  SweepInv'
<1>1. /\ prog.imports \in Nat /\ Len(prog.bodies) \in Nat /\ kept \in Seq(Defined(prog))
      /\ pos \in 1 .. Len(prog.bodies) /\ pos' = pos + 1 /\ pc = "sweep" /\ pc' = "sweep"
      /\ prog' = prog /\ mark' = mark /\ prog.bodies # << >>
  BY ProgramFacts DEF Sweep, TypeOK
<1>2. PICK old \in Nat : old = prog.imports + pos - 1
  BY <1>1
<1>3. Passed = old /\ Passed' = old + 1 /\ prog.imports <= old /\ Len(kept) \in Nat
  BY <1>1, <1>2 DEF Passed
<1>4. old \in Defined(prog)
  BY <1>1, <1>2 DEF Defined, NumFuncs
<1>5. SweptTo(old)
  BY <1>1, <1>3 DEF SweepInv
<1>6. pos' \in 1 .. Len(prog'.bodies) + 1
  BY <1>1
<1>7. ASSUME NEW x, remap' = [i \in 0 .. old |-> IF i = old THEN x ELSE remap[i]]
      PROVE  /\ DOMAIN remap' = 0 .. old + 1 - 1
             /\ \A i \in 0 .. prog'.imports - 1 : remap'[i] = i
  <2>1. \A i \in 0 .. prog.imports - 1 : i \in 0 .. old /\ i # old
    BY <1>1, <1>3
  <2> QED
    BY <1>1, <1>5, <1>7, <2>1 DEF SweptTo
<1>8. SweptTo(old + 1)'
  <2>1. CASE old \in mark
    <3>1. /\ kept' = Append(kept, old)
          /\ remap' = [i \in 0 .. old |->
                         IF i = old THEN prog.imports + Len(kept) ELSE remap[i]]
      BY <1>2, <2>1 DEF Sweep
    <3>2. \A i \in prog.imports .. old :
            Renumbered(prog.imports, mark, Append(kept, old), remap', i)
      BY <1>1, <1>3, <1>4, <1>5, <2>1, <3>1, KeepEntry DEF SweptTo
    <3>3. \A k \in DOMAIN kept' : kept'[k] \in mark
      <4>1. \A k \in DOMAIN kept' : (k \in DOMAIN kept /\ kept'[k] = kept[k]) \/ kept'[k] = old
        BY <1>1, <1>4, <3>1
      <4> QED
        BY <1>5, <2>1, <4>1 DEF SweptTo
    <3>4. /\ Len(kept') <= old + 1 - prog.imports
          /\ Len(kept') = old + 1 - prog.imports =>
               \A i \in prog.imports .. old : i \in mark
      <4>1. Len(kept') = Len(kept) + 1
        BY <1>1, <1>4, <3>1
      <4>2. Len(kept) <= old - prog.imports
        BY <1>5 DEF SweptTo
      <4>3. Len(kept) = old - prog.imports => \A i \in prog.imports .. old - 1 : i \in mark
        BY <1>5 DEF SweptTo
      <4>4. \A i \in prog.imports .. old : i \in prog.imports .. old - 1 \/ i = old
        BY <1>1
      <4> QED
        BY <1>1, <1>3, <2>1, <4>1, <4>2, <4>3, <4>4
    <3>5. /\ DOMAIN remap' = 0 .. old + 1 - 1
          /\ \A i \in 0 .. prog.imports - 1 : remap'[i] = i
      BY <1>1, <1>7, <3>1
    <3>6. old + 1 - 1 = old /\ prog'.imports = prog.imports
      BY <1>1
    <3>7. \A i \in prog'.imports .. old + 1 - 1 :
            Renumbered(prog'.imports, mark', kept', remap', i)
      BY <1>1, <3>1, <3>2, <3>6
    <3>8. /\ Len(kept') <= old + 1 - prog'.imports
          /\ Len(kept') = old + 1 - prog'.imports =>
               \A i \in prog'.imports .. old + 1 - 1 : i \in mark'
      BY <1>1, <1>2, <3>1, <3>4, <3>6
    <3>9. \A k \in DOMAIN kept' : kept'[k] \in mark'
      BY <1>1, <3>1, <3>3
    <3> QED
      BY <3>5, <3>6, <3>7, <3>8, <3>9 DEF SweptTo
  <2>2. CASE old \notin mark
    <3>1. /\ kept' = kept
          /\ remap' = [i \in 0 .. old |-> IF i = old THEN Dead ELSE remap[i]]
      BY <1>2, <2>2 DEF Sweep
    <3>2. \A i \in prog.imports .. old : Renumbered(prog.imports, mark, kept, remap', i)
      BY <1>1, <1>3, <1>5, <2>2, <3>1, DropEntry DEF SweptTo
    <3>3. Len(kept) <= old + 1 - prog.imports /\ Len(kept) # old + 1 - prog.imports
      <4>1. Len(kept) <= old - prog.imports
        BY <1>5 DEF SweptTo
      <4> QED
        BY <1>1, <1>3, <4>1
    <3>4. \A k \in DOMAIN kept : kept[k] \in mark
      BY <1>5 DEF SweptTo
    <3>5. /\ DOMAIN remap' = 0 .. old + 1 - 1
          /\ \A i \in 0 .. prog.imports - 1 : remap'[i] = i
      BY <1>1, <1>7, <3>1
    <3>6. old + 1 - 1 = old /\ prog'.imports = prog.imports
      BY <1>1
    <3>7. \A i \in prog'.imports .. old + 1 - 1 :
            Renumbered(prog'.imports, mark', kept', remap', i)
      BY <1>1, <3>1, <3>2, <3>6
    <3>8. /\ Len(kept') <= old + 1 - prog'.imports
          /\ Len(kept') = old + 1 - prog'.imports =>
               \A i \in prog'.imports .. old + 1 - 1 : i \in mark'
      BY <1>1, <1>2, <3>1, <3>3, <3>6
    <3>9. \A k \in DOMAIN kept' : kept'[k] \in mark'
      BY <1>1, <3>1, <3>4
    <3> QED
      BY <3>5, <3>6, <3>7, <3>8, <3>9 DEF SweptTo
  <2> QED
    BY <2>1, <2>2
<1> QED
  BY <1>1, <1>3, <1>6, <1>8 DEF SweepInv

LEMMA SweepStep ==
  ASSUME TypeOK, SweepInv, [Next]_vars
  PROVE  SweepInv'
<1>0. prog.imports \in Nat /\ Len(prog.bodies) \in Nat /\ prog.bodies \in Seq(Seq(Nat))
  BY ProgramFacts DEF TypeOK
<1>1. CASE SeedRoot \/ SeedsDone \/ Pop \/ VisitInstr \/ BodyDone
  <2>1. /\ pc \in {"seed", "pop", "walk"} /\ pc' \in {"seed", "pop", "walk"}
        /\ kept' = kept /\ prog' = prog
    BY <1>1 DEF SeedRoot, SeedsDone, Pop, VisitInstr, BodyDone
  <2> QED
    BY <2>1 DEF SweepInv
<1>2. CASE Propagated
  <2>1. /\ pc = "pop" /\ pc' = "sweep" /\ pos' = 1 /\ kept' = kept /\ prog' = prog
        /\ mark' = mark /\ remap' = [i \in 0 .. prog.imports - 1 |-> i]
    BY <1>2 DEF Propagated
  <2>2. kept = << >>
    BY <2>1 DEF SweepInv
  <2>3. Passed' = prog.imports
    BY <1>0, <2>1 DEF Passed
  <2>4. prog.imports .. prog.imports - 1 = {}
    BY <1>0
  <2>5. SweptTo(prog.imports)'
    BY <1>0, <2>1, <2>2, <2>4 DEF SweptTo
  <2>6. Passed' = prog'.imports
    BY <2>1, <2>3
  <2>7. 1 \in 1 .. Len(prog.bodies) + 1
    BY <1>0
  <2> QED
    BY <2>1, <2>3, <2>5, <2>6, <2>7 DEF SweepInv
<1>3. CASE Sweep
  BY <1>3, SweepOne
<1>4. CASE Swept
  <2>1. /\ pc = "sweep" /\ pc' = "done" /\ pos \notin DOMAIN prog.bodies
        /\ UNCHANGED <<prog, mark, kept, remap>>
    BY <1>4 DEF Swept
  <2>2. pos = Len(prog.bodies) + 1
    <3>1. pos \in 1 .. Len(prog.bodies) + 1 /\ pos \notin 1 .. Len(prog.bodies)
      BY <1>0, <2>1 DEF SweepInv
    <3> QED
      BY <1>0, <3>1
  <2>3. CASE prog.bodies # << >>
    <3>1. Passed' = Passed
      BY <1>0, <2>1, <2>2, <2>3 DEF Passed, NumFuncs
    <3>2. SweptTo(Passed)'
      BY <2>1, <2>3, <3>1 DEF SweepInv, SweptTo
    <3> QED
      BY <2>1, <2>3, <3>2 DEF SweepInv
  <2> QED
    BY <2>1, <2>3 DEF SweepInv
<1>5. CASE UNCHANGED vars
  BY <1>5 DEF vars, SweepInv, SweptTo, Passed
<1> QED
  BY <1>1, <1>2, <1>3, <1>4, <1>5 DEF Next, Finished

-----------------------------------------------------------------------------
(* The inductive invariant.                                                *)
IInv == TypeOK /\ MarkInv /\ SweepInv

LEMMA Inductive == Spec => []IInv
<1>1. Init => IInv
  BY TypeInit, MarkInit, SweepInit DEF IInv
<1>2. IInv /\ [Next]_vars => IInv'
  BY TypeStep, MarkStep, SweepStep DEF IInv
<1> QED
  BY <1>1, <1>2, PTL DEF Spec

(* Nothing live is removed. *)
THEOREM MarkCompleteHolds == Spec => []MarkComplete
<1>1. IInv => MarkComplete
  BY MarkInvComplete DEF IInv
<1> QED
  BY Inductive, <1>1, PTL

(* Nothing dead is kept. *)
THEOREM MarkSoundHolds == Spec => []MarkSound
<1>1. IInv => MarkSound
  BY DEF IInv, MarkInv
<1> QED
  BY Inductive, <1>1, PTL

-----------------------------------------------------------------------------
(* What the invariant says of the finished pass.                           *)
LEMMA DoneFacts ==
  ASSUME IInv, pc = "done"
  PROVE  /\ prog.imports \in Nat /\ Len(prog.bodies) \in Nat
         /\ kept \in Seq(Defined(prog))
         /\ prog.bodies # << >> => SweptTo(NumFuncs(prog))
         /\ prog.bodies # << >> => Roots(prog) \subseteq mark /\ Closed(mark)
<1>1. prog.imports \in Nat /\ Len(prog.bodies) \in Nat /\ kept \in Seq(Defined(prog))
  BY ProgramFacts DEF IInv, TypeOK
<1>2. prog.bodies # << >> => SweptTo(NumFuncs(prog))
  BY DEF IInv, SweepInv, Passed
<1>3. prog.bodies # << >> => Roots(prog) \subseteq mark /\ Closed(mark)
  BY MarkInvComplete DEF IInv, MarkComplete
<1> QED
  BY <1>1, <1>2, <1>3

(* An import is always marked; when nothing was removed, so is everything. *)
LEMMA MarkedFacts ==
  ASSUME IInv, pc = "done", prog.bodies # << >>
  PROVE  /\ \A i \in 0 .. prog.imports - 1 : i \in mark
         /\ ~Changed => \A i \in Index(prog) : i \in mark
<1> USE DoneFacts
<1>1. \A i \in 0 .. prog.imports - 1 : i \in mark
  BY DEF Roots
<1>2. ASSUME ~Changed PROVE \A i \in Index(prog) : i \in mark
  <2>1. Len(kept) \in Nat /\ ~(Len(kept) < Len(prog.bodies))
    BY <1>2 DEF Changed
  <2>2. Len(kept) <= NumFuncs(prog) - prog.imports
    BY DEF SweptTo
  <2>3. NumFuncs(prog) - prog.imports = Len(prog.bodies)
    BY DEF NumFuncs
  <2>4. Len(kept) = NumFuncs(prog) - prog.imports
    BY <2>1, <2>2, <2>3
  <2>5. \A i \in prog.imports .. NumFuncs(prog) - 1 : i \in mark
    BY <2>4 DEF SweptTo
  <2> QED
    BY <1>1, <2>5 DEF Index
<1> QED
  BY <1>1, <1>2

(* A surviving function is found again under its new index. *)
LEMMA DenotesRemap ==
  ASSUME IInv, pc = "done", NEW i \in Index(prog), i \in mark \/ ~Changed
  PROVE  Denotes(RemapIdx(i)) = i
<1>1. /\ prog.imports \in Nat /\ Len(prog.bodies) \in Nat /\ kept \in Seq(Defined(prog))
      /\ i \in Nat /\ i < prog.imports + Len(prog.bodies)
  BY DoneFacts DEF Index, NumFuncs
<1>2. CASE ~Changed
  <2>1. RemapIdx(i) = i
    BY <1>2 DEF RemapIdx
  <2>2. NewFuncs = [k \in DOMAIN prog.bodies |-> prog.imports + k - 1]
    BY <1>2 DEF NewFuncs
  <2>3. CASE i < prog.imports
    BY <2>1, <2>3 DEF Denotes
  <2>4. CASE ~(i < prog.imports)
    <3>1. PICK k \in 1 .. Len(prog.bodies) : k = i - prog.imports + 1
      BY <1>1, <2>4
    <3>2. DOMAIN prog.bodies = 1 .. Len(prog.bodies)
      BY ProgramFacts DEF IInv, TypeOK
    <3>3. k \in DOMAIN NewFuncs /\ NewFuncs[k] = prog.imports + k - 1
      BY <2>2, <3>2
    <3>4. prog.imports + k - 1 = i
      BY <1>1, <3>1
    <3> QED
      BY <2>1, <2>4, <3>1, <3>3, <3>4 DEF Denotes
  <2> QED
    BY <2>3, <2>4
<1>3. CASE Changed
  <2>1. prog.bodies # << >> /\ i \in mark /\ NewFuncs = kept
    BY <1>3 DEF Changed, NewFuncs
  <2>2. SweptTo(NumFuncs(prog))
    BY <2>1, DoneFacts
  <2>3. i \in DOMAIN remap
    BY <1>1, <2>2 DEF SweptTo, Index
  <2>4. CASE i < prog.imports
    <3>1. remap[i] = i
      BY <1>1, <2>2, <2>4 DEF SweptTo
    <3>2. RemapIdx(i) = i
      BY <3>1 DEF RemapIdx
    <3> QED
      BY <2>4, <3>2 DEF Denotes
  <2>5. CASE ~(i < prog.imports)
    <3>1. i \in prog.imports .. NumFuncs(prog) - 1
      BY <1>1, <2>5 DEF NumFuncs
    <3>2. /\ remap[i] \in Nat /\ remap[i] - prog.imports + 1 \in 1 .. Len(kept)
          /\ kept[remap[i] - prog.imports + 1] = i
      BY <2>1, <2>2, <3>1 DEF SweptTo, Renumbered
    <3>3. RemapIdx(i) = remap[i]
      BY <1>3, <2>3, <3>2, SentinelsAssumption DEF RemapIdx
    <3>4. PICK r \in Nat : r = remap[i]
      BY <3>2
    <3>5. ~(r < prog.imports) /\ r - prog.imports + 1 \in DOMAIN kept
      BY <1>1, <3>2, <3>4
    <3> QED
      BY <2>1, <3>2, <3>3, <3>4, <3>5 DEF Denotes
  <2> QED
    BY <2>4, <2>5
<1> QED
  BY <1>2, <1>3

(* The functions of the new module refer to surviving functions only. *)
LEMMA NewFuncsSucc ==
  ASSUME IInv, pc = "done", NEW k \in DOMAIN NewFuncs, NEW i \in Succ(NewFuncs[k])
  PROVE  i \in Index(prog) /\ (i \in mark \/ ~Changed)
<1>1. /\ prog.imports \in Nat /\ Len(prog.bodies) \in Nat /\ kept \in Seq(Defined(prog))
      /\ prog \in Programs /\ mark \subseteq Index(prog)
  BY DoneFacts DEF IInv, TypeOK
<1>2. CASE ~Changed
  <2>1. k \in 1 .. Len(prog.bodies) /\ NewFuncs[k] = prog.imports + k - 1
    BY <1>1, <1>2, ProgramFacts DEF NewFuncs
  <2>2. PICK f \in Defined(prog) : f = NewFuncs[k]
    BY <1>1, <2>1 DEF Defined, NumFuncs
  <2>3. i \in {Body(prog, f)[j] : j \in DOMAIN Body(prog, f)}
    BY <1>1, <2>2 DEF Succ
  <2>4. i \in Index(prog)
    BY <1>1, <2>3, ProgramFacts
  <2> QED
    BY <1>2, <2>4
<1>3. CASE Changed
  <2>1. prog.bodies # << >> /\ NewFuncs = kept
    BY <1>3 DEF Changed, NewFuncs
  <2>2. kept[k] \in mark /\ Closed(mark)
    BY <2>1, DoneFacts DEF SweptTo
  <2>3. i \in mark
    BY <2>1, <2>2 DEF Closed
  <2> QED
    BY <1>1, <2>3
<1> QED
  BY <1>2, <1>3

LEMMA SameMeaningInv ==
  ASSUME IInv, pc = "done" PROVE SameMeaning
<1>1. prog \in Programs /\ Roots(prog) \subseteq Index(prog)
  BY ProgramFacts DEF IInv, TypeOK
<1>2. ASSUME NEW k \in DOMAIN NewFuncs, NEW i \in Succ(NewFuncs[k])
      PROVE  Denotes(RemapIdx(i)) = i
  BY <1>2, NewFuncsSucc, DenotesRemap
<1>3. ASSUME NEW i \in Roots(prog) PROVE Denotes(RemapIdx(i)) = i
  <2>1. i \in mark \/ ~Changed
    BY DoneFacts DEF Changed
  <2> QED
    BY <1>1, <2>1, DenotesRemap
<1>4. \A i \in prog.refFunced : Denotes(RemapIdx(i)) = i
  BY <1>3 DEF Roots
<1>5. prog.start # NoStart => Denotes(RemapIdx(prog.start)) = prog.start
  BY <1>3 DEF Roots
<1> QED
  BY <1>2, <1>4, <1>5 DEF SameMeaning

(* The compacted module means what the original one meant. *)
THEOREM SameMeaningHolds == Spec => []SameMeaning
<1>1. IInv => SameMeaning
  BY SameMeaningInv DEF SameMeaning
<1> QED
  BY Inductive, <1>1, PTL

LEMMA ExportsFollowInv ==
  ASSUME IInv, pc = "done" PROVE ExportsFollow
<1> DEFINE X == IF Changed THEN {e \in prog.exports : remap[e] # Dead} ELSE prog.exports
<1>1. prog.exports \subseteq Index(prog) /\ prog \in Programs
  BY ProgramsAssumption DEF IInv, TypeOK, ValidProgram
<1>2. X = {e \in prog.exports : prog.bodies = << >> \/ e \in mark}
  <2>1. CASE Changed
    <3>1. prog.bodies # << >> /\ SweptTo(NumFuncs(prog)) /\ prog.imports \in Nat
          /\ Len(prog.bodies) \in Nat
      BY <2>1, DoneFacts DEF Changed
    <3>2. ASSUME NEW e \in Index(prog) PROVE remap[e] # Dead <=> e \in mark
      <4>1. CASE e \in 0 .. prog.imports - 1
        <5>1. remap[e] = e /\ e \in Nat
          BY <3>1, <4>1 DEF SweptTo
        <5> QED
          BY <3>1, <4>1, <5>1, MarkedFacts, SentinelsAssumption
      <4>2. CASE e \in prog.imports .. NumFuncs(prog) - 1
        BY <3>1, <4>2, SentinelsAssumption DEF SweptTo, Renumbered
      <4>3. e \in 0 .. prog.imports - 1 \/ e \in prog.imports .. NumFuncs(prog) - 1
        BY <3>1 DEF Index, NumFuncs
      <4> QED
        BY <4>1, <4>2, <4>3
    <3> QED
      BY <1>1, <2>1, <3>1, <3>2
  <2>2. CASE ~Changed
    BY <1>1, <2>2, MarkedFacts
  <2> QED
    BY <2>1, <2>2
<1>3. \A e \in X : e \in Index(prog) /\ (e \in mark \/ ~Changed)
  BY <1>1, <1>2 DEF Changed
<1>4. \A e \in X : Denotes(RemapIdx(e)) = e
  BY <1>3, DenotesRemap
<1>5. NewExports = {RemapIdx(e) : e \in X}
  BY DEF NewExports
<1>6. {Denotes(e) : e \in NewExports} = X
  BY <1>4, <1>5
<1> QED
  BY <1>2, <1>6 DEF ExportsFollow

(* An export survives exactly when its function does. *)
THEOREM ExportsFollowHolds == Spec => []ExportsFollow
<1>1. IInv => ExportsFollow
  BY ExportsFollowInv DEF ExportsFollow
<1> QED
  BY Inductive, <1>1, PTL

=============================================================================
