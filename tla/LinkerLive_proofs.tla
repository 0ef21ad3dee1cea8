------------------------- MODULE LinkerLive_proofs --------------------------
(***************************************************************************)
(* Proofs about what a link keeps and what it reports (Linker), for every  *)
(* set of jobs: the linked program holds exactly the live functions        *)
(* (ExactlyLive), and the functions that are reported are exactly the live *)
(* ones that nobody defines (FunctionsDiagnosed).                          *)
(*                                                                         *)
(* Live is computed from the names in the sources, Mark from the numbers   *)
(* in a module that was merged, resolved and renumbered.  First the two as *)
(* least sets closed under calls; then what the module keeps of the        *)
(* sources while it is merged and resolved (OutlineInv) and what it holds  *)
(* before and after dead code is removed (LiveInv); last the imports that  *)
(* are left for Diagnose (ReportInv).                                      *)
(***************************************************************************)
EXTENDS Linker_proofs

\* The functions a body calls, those a function of U calls, by the names and by what they mean.
BodySyms(u, f) == {FuncSymbol(u, x.name) : x \in {y \in Range(f.uses) : y.use = "call"}}
CallSyms(U, s) ==
  UNION {{FuncSymbol(u, n) : n \in FuncUses(u, s.name, "call")} :
           u \in {v \in U : v.name = s.mod /\ s.name \in Defined(v)}}
Meanings(U, H, T) == {Meaning(U, H, "func", t) : t \in T}
Callees(U, H, s)  == Meanings(U, H, CallSyms(U, s))
\* The functions whose address some unit takes; those offered to the other units; the entry.
TakenSyms(U) == UNION {{FuncSymbol(u, x) : x \in Range(Slots(u))} : u \in U}
PublicIn(U)  == UNION {{Symbol(u.name, x) : x \in Offered(u, "func")} : u \in U}
PublicAs(U, x) == {s \in PublicIn(U) : s.name = x}
EntryIn(U, W) ==
  IF ~W THEN PublicIn(U)
  ELSE PublicAs(U, Main) \cup IF PublicAs(U, Exit) # {} THEN PublicAs(U, Exit) ELSE PublicAs(U, StdioExit)
Origin(U, H, W) == EntryIn(U, W) \cup Meanings(U, H, TakenSyms(U))
\* What is reached from A in n steps.
Grow(U, H, S) == S \cup UNION {Callees(U, H, s) : s \in S}
Reaches(U, H, A, f, n) == f = [k \in 0 .. n |-> IF k = 0 THEN A ELSE Grow(U, H, f[k - 1])]
Reached(U, H, A, N) == (CHOOSE f : Reaches(U, H, A, f, N))[N]
LiveIn(U, H, W) == Reached(U, H, Origin(U, H, W), Cardinality(FunctionsOf(U)))

\* The functions of the program, as those of a set of units.
LEMMA FunctionsAre == Functions = FunctionsOf(Units)
BY DEF Functions, FunctionsOf

\* What a function calls, as an operator of the units and the host's modules.
LEMMA CalledByIs == \A s : CalledBy(s) = Callees(Units, Host, s)
<1>1. SUFFICES ASSUME NEW s PROVE CalledBy(s) = Callees(Units, Host, s)  OBVIOUS
<1>2. PICK V : V = {v \in Units : v.name = s.mod /\ s.name \in Defined(v)}  OBVIOUS
<1>3. CalledBy(s) = UNION {{Meaning(Units, Host, "func", FuncSymbol(u, n)) : n \in FuncUses(u, s.name, "call")} :
                             u \in V}
  BY <1>2, MeansIs DEF CalledBy
<1>4. CallSyms(Units, s) = UNION {{FuncSymbol(u, n) : n \in FuncUses(u, s.name, "call")} : u \in V}
  BY <1>2 DEF CallSyms
<1>5. ASSUME NEW x \in CalledBy(s) PROVE x \in Callees(Units, Host, s)
  <2>1. PICK u \in V : x \in {Meaning(Units, Host, "func", FuncSymbol(u, n)) : n \in FuncUses(u, s.name, "call")}
    BY <1>3, <1>5
  <2>2. PICK n \in FuncUses(u, s.name, "call") : x = Meaning(Units, Host, "func", FuncSymbol(u, n))  BY <2>1
  <2>3. FuncSymbol(u, n) \in CallSyms(Units, s)  BY <1>4
  <2>4. QED  BY <2>2, <2>3 DEF Callees, Meanings
<1>6. ASSUME NEW x \in Callees(Units, Host, s) PROVE x \in CalledBy(s)
  <2>1. PICK t \in CallSyms(Units, s) : x = Meaning(Units, Host, "func", t)  BY DEF Callees, Meanings
  <2>2. PICK u \in V : t \in {FuncSymbol(u, n) : n \in FuncUses(u, s.name, "call")}  BY <1>4
  <2>3. PICK n \in FuncUses(u, s.name, "call") : t = FuncSymbol(u, n)  BY <2>2
  <2>4. QED  BY <2>1, <2>3, <1>3
<1>7. QED  BY <1>5, <1>6

\* The functions whose address is taken are what the table's names mean.
LEMMA AddressTakenIs ==
  ASSUME \A u \in Units : u \in TranslationUnit
  PROVE  AddressTaken = Meanings(Units, Host, TakenSyms(Units))
<1>1. AddressTaken = UNION {{Meaning(Units, Host, "func", FuncSymbol(u, Slots(u)[k])) : k \in DOMAIN Slots(u)} :
                              u \in Units}
  BY MeansIs DEF AddressTaken
<1>2. ASSUME NEW u \in Units PROVE \A x : x \in Range(Slots(u)) <=> \E k \in DOMAIN Slots(u) : x = Slots(u)[k]
  BY DEF Range
<1>3. ASSUME NEW x \in AddressTaken PROVE x \in Meanings(Units, Host, TakenSyms(Units))
  <2>1. PICK u \in Units : x \in {Meaning(Units, Host, "func", FuncSymbol(u, Slots(u)[k])) : k \in DOMAIN Slots(u)}
    BY <1>1, <1>3
  <2>2. PICK k \in DOMAIN Slots(u) : x = Meaning(Units, Host, "func", FuncSymbol(u, Slots(u)[k]))  BY <2>1
  <2>3. PICK n : n = Slots(u)[k]  OBVIOUS
  <2>4. n \in Range(Slots(u))  BY <2>3, <1>2
  <2>5. FuncSymbol(u, n) \in TakenSyms(Units)  BY <2>4 DEF TakenSyms
  <2>6. QED  BY <2>2, <2>3, <2>5 DEF Meanings
<1>4. ASSUME NEW x \in Meanings(Units, Host, TakenSyms(Units)) PROVE x \in AddressTaken
  <2>1. PICK t \in TakenSyms(Units) : x = Meaning(Units, Host, "func", t)  BY DEF Meanings
  <2>2. PICK u \in Units : t \in {FuncSymbol(u, n) : n \in Range(Slots(u))}  BY DEF TakenSyms
  <2>3. PICK n \in Range(Slots(u)) : t = FuncSymbol(u, n)  BY <2>2
  <2>4. PICK k \in DOMAIN Slots(u) : n = Slots(u)[k]  BY <1>2
  <2>5. QED  BY <2>1, <2>3, <2>4, <1>1
<1>5. QED  BY <1>3, <1>4

\* A unit offers the functions it exports, and its main.
LEMMA OfferedIs ==
  ASSUME NEW u \in TranslationUnit
  PROVE  Offered(u, "func") = Public(u, "func") \cup ({Main} \cap Defined(u))
<1>1. PICK d : d = Decls(u, "func")  OBVIOUS
<1>2. \A x : x \in Range(d) <=> \E k \in DOMAIN d : x = d[k]  BY DEF Range
<1>3. DOMAIN d = 1 .. Len(d) /\ \A x : x \in Defined(u) <=> \E k \in 1 .. Len(d) : d[k].name = x
  <2>1. d \in Seq(FunctionDef)  BY <1>1, DeclsAre
  <2>2. QED  BY <2>1, <1>1, Entries, DeclNames
<1>4. Public(u, "func") = {d[k].name : k \in {j \in DOMAIN d : ~d[j].static}}  BY <1>1 DEF Public
<1>5. Offered(u, "func") = {f.name : f \in {g \in Range(d) : ~g.static \/ g.name = Main}}  BY <1>1 DEF Offered
<1>6. ASSUME NEW x \in Offered(u, "func") PROVE x \in Public(u, "func") \cup ({Main} \cap Defined(u))
  <2>1. PICK g \in Range(d) : x = g.name /\ (~g.static \/ g.name = Main)  BY <1>5, <1>6
  <2>2. PICK k \in DOMAIN d : g = d[k]  BY <1>2
  <2>3. CASE ~g.static  BY <2>1, <2>2, <2>3, <1>4
  <2>4. CASE g.name = Main
    <3>1. Main \in Defined(u)  BY <2>2, <2>4, <1>3
    <3>2. QED  BY <3>1, <2>1, <2>4
  <2>5. QED  BY <2>1, <2>3, <2>4
<1>7. ASSUME NEW x \in Public(u, "func") PROVE x \in Offered(u, "func")
  <2>1. PICK k \in DOMAIN d : x = d[k].name /\ ~d[k].static  BY <1>4, <1>7
  <2>2. d[k] \in Range(d)  BY <1>2
  <2>3. QED  BY <2>1, <2>2, <1>5
<1>8. ASSUME Main \in Defined(u) PROVE Main \in Offered(u, "func")
  <2>1. PICK k \in DOMAIN d : d[k].name = Main  BY <1>3, <1>8
  <2>2. d[k] \in Range(d)  BY <1>2
  <2>3. QED  BY <2>1, <2>2, <1>5
<1>9. QED  BY <1>6, <1>7, <1>8

\* The functions the program is entered at, as an operator of the units.
LEMMA EntryIs ==
  ASSUME \A u \in Units : u \in TranslationUnit
  PROVE  Entry = EntryIn(Units, HasStart)
<1>1. PublicFunctions = PublicIn(Units)
  <2>1. \A u \in Units : Offered(u, "func") = Public(u, "func") \cup ({Main} \cap Defined(u))  BY OfferedIs
  <2>2. QED  BY <2>1 DEF PublicFunctions, PublicIn
<1>2. QED  BY <1>1 DEF Entry, EntryIn, PublicAs

\* There are stages of what is reached from A.
LEMMA ReachesExist ==
  ASSUME NEW U, NEW H, NEW A, NEW N \in Nat
  PROVE  \E f : Reaches(U, H, A, f, N)
<1>1. PICK T : T = {n \in Nat : \E f : Reaches(U, H, A, f, n)}  OBVIOUS
<1>2. 0 \in T
  <2>1. PICK f : f = [k \in 0 .. 0 |-> A]  OBVIOUS
  <2>2. Reaches(U, H, A, f, 0)  BY <2>1 DEF Reaches
  <2>3. QED  BY <1>1, <2>2
<1>3. ASSUME NEW n \in T PROVE n + 1 \in T
  <2>1. PICK f : Reaches(U, H, A, f, n)  BY <1>1
  <2>2. n \in Nat  BY <1>1
  <2>3. PICK g : g = [k \in 0 .. n + 1 |-> IF k = 0 THEN A ELSE Grow(U, H, f[k - 1])]  OBVIOUS
  <2>4. ASSUME NEW k \in 0 .. n PROVE g[k] = f[k]
    <3>1. k \in 0 .. n + 1  BY <2>2
    <3>2. g[k] = IF k = 0 THEN A ELSE Grow(U, H, f[k - 1])  BY <2>3, <3>1
    <3>3. f[k] = IF k = 0 THEN A ELSE Grow(U, H, f[k - 1])  BY <2>1 DEF Reaches
    <3>4. QED  BY <3>2, <3>3
  <2>5. \A k \in 0 .. n + 1 : k # 0 => k - 1 \in 0 .. n  BY <2>2
  <2>6. \A k \in 0 .. n + 1 : (IF k = 0 THEN A ELSE Grow(U, H, f[k - 1]))
                                = (IF k = 0 THEN A ELSE Grow(U, H, g[k - 1]))
    BY <2>4, <2>5
  <2>7. g = [k \in 0 .. n + 1 |-> IF k = 0 THEN A ELSE Grow(U, H, g[k - 1])]
    BY <2>3, <2>6
  <2>8. Reaches(U, H, A, g, n + 1)  BY <2>7 DEF Reaches
  <2>9. QED  BY <1>1, <2>2, <2>8
<1>4. T = Nat
  <2>1. T \subseteq Nat  BY <1>1
  <2>2. QED  BY <1>2, <1>3, <2>1, InductionSet
<1>5. QED  BY <1>1, <1>4

\* Reached is the last stage of a growth that starts with A.
LEMMA ReachedStages ==
  ASSUME NEW U, NEW H, NEW A, NEW N \in Nat
  PROVE  \E f : /\ f[0] = A /\ f[N] = Reached(U, H, A, N)
                /\ \A k \in 1 .. N : f[k] = Grow(U, H, f[k - 1])
<1>1. PICK f : f = CHOOSE g : Reaches(U, H, A, g, N)  OBVIOUS
<1>2. Reaches(U, H, A, f, N)  BY <1>1, ReachesExist
<1>3. f[N] = Reached(U, H, A, N)  BY <1>1 DEF Reached
<1>4. \A k \in 0 .. N : f[k] = IF k = 0 THEN A ELSE Grow(U, H, f[k - 1])
  BY <1>2 DEF Reaches
<1>5. f[0] = A  BY <1>4
<1>6. \A k \in 1 .. N : f[k] = Grow(U, H, f[k - 1])  BY <1>4
<1>7. QED  BY <1>3, <1>5, <1>6

\* Only the functions of the units call anything.
LEMMA CallersDefined ==
  ASSUME NEW U, NEW H, NEW s \in Symbols, Callees(U, H, s) # {}
  PROVE  s \in FunctionsOf(U)
<1>1. PICK t : t \in CallSyms(U, s)  BY DEF Callees, Meanings
<1>2. PICK u \in U : u.name = s.mod /\ s.name \in Defined(u)  BY <1>1 DEF CallSyms
<1>3. s = Symbol(s.mod, s.name)  BY DEF Symbols, Symbol
<1>4. QED  BY <1>2, <1>3 DEF FunctionsOf

\* The stages of what is reached from A are given by A.
LEMMA ReachesOnce ==
  ASSUME NEW U, NEW H, NEW A, NEW N \in Nat, NEW f, NEW g, Reaches(U, H, A, f, N), Reaches(U, H, A, g, N)
  PROVE  f[N] = g[N]
<1>1. PICK T : T = {n \in Nat : n \in 0 .. N => f[n] = g[n]}  OBVIOUS
<1>2. \A k \in 0 .. N : f[k] = IF k = 0 THEN A ELSE Grow(U, H, f[k - 1])  BY DEF Reaches
<1>3. \A k \in 0 .. N : g[k] = IF k = 0 THEN A ELSE Grow(U, H, g[k - 1])  BY DEF Reaches
<1>4. 0 \in T  BY <1>1, <1>2, <1>3
<1>5. ASSUME NEW n \in T PROVE n + 1 \in T
  <2>1. n \in Nat  BY <1>1
  <2>2. ASSUME n + 1 \in 0 .. N PROVE f[n + 1] = g[n + 1]
    <3>1. n \in 0 .. N /\ n + 1 # 0 /\ (n + 1) - 1 = n  BY <2>1, <2>2
    <3>2. f[n] = g[n]  BY <3>1, <1>1
    <3>3. f[n + 1] = Grow(U, H, f[n])  BY <3>1, <2>2, <1>2
    <3>4. g[n + 1] = Grow(U, H, g[n])  BY <3>1, <2>2, <1>3
    <3>5. QED  BY <3>2, <3>3, <3>4
  <2>3. QED  BY <2>1, <2>2, <1>1
<1>6. T = Nat
  <2>1. T \subseteq Nat  BY <1>1
  <2>2. QED  BY <1>4, <1>5, <2>1, InductionSet
<1>7. N \in 0 .. N  OBVIOUS
<1>8. QED  BY <1>1, <1>6, <1>7

\* The live functions of the program are those reached from its origin in as many steps as it has functions.
LEMMA LiveIs ==
  ASSUME \A u \in Units : u \in TranslationUnit, IsFiniteSet(FunctionsOf(Units))
  PROVE  Live = LiveIn(Units, Host, HasStart)
<1>1. PICK A : A = Entry \cup AddressTaken  OBVIOUS
<1>2. PICK N : N = Cardinality(Functions)  OBVIOUS
<1>3. PICK f : f = CHOOSE g : g = [n \in 0 .. N |-> IF n = 0 THEN A ELSE g[n - 1] \cup UNION {CalledBy(s) : s \in g[n - 1]}]
  OBVIOUS
<1>4. Live = f[N]  BY <1>1, <1>2, <1>3 DEF Live
<1>5. \A S : S \cup UNION {CalledBy(s) : s \in S} = Grow(Units, Host, S)  BY CalledByIs DEF Grow
<1>7. A = Origin(Units, Host, HasStart)  BY <1>1, AddressTakenIs, EntryIs DEF Origin
<1>8. N = Cardinality(FunctionsOf(Units)) /\ N \in Nat
  <2>1. N = Cardinality(FunctionsOf(Units))  BY <1>2, FunctionsAre
  <2>2. QED  BY <2>1, FS_CardinalityType
<1>9. \E g : Reaches(Units, Host, A, g, N)  BY <1>8, ReachesExist
<1>a. PICK d : Reaches(Units, Host, A, d, N)  BY <1>9
<1>b. d = [n \in 0 .. N |-> IF n = 0 THEN A ELSE Grow(Units, Host, d[n - 1])]  BY <1>a, Zenon DEF Reaches
<1>c. [n \in 0 .. N |-> IF n = 0 THEN A ELSE d[n - 1] \cup UNION {CalledBy(s) : s \in d[n - 1]}]
        = [n \in 0 .. N |-> IF n = 0 THEN A ELSE Grow(Units, Host, d[n - 1])]
  BY <1>5
<1>d. d = [n \in 0 .. N |-> IF n = 0 THEN A ELSE d[n - 1] \cup UNION {CalledBy(s) : s \in d[n - 1]}]
  BY <1>b, <1>c, Zenon
<1>11. f = [n \in 0 .. N |-> IF n = 0 THEN A ELSE f[n - 1] \cup UNION {CalledBy(s) : s \in f[n - 1]}]
  BY <1>3, <1>d, Zenon
<1>e. [n \in 0 .. N |-> IF n = 0 THEN A ELSE f[n - 1] \cup UNION {CalledBy(s) : s \in f[n - 1]}]
        = [n \in 0 .. N |-> IF n = 0 THEN A ELSE Grow(Units, Host, f[n - 1])]
  BY <1>5
<1>f. f = [n \in 0 .. N |-> IF n = 0 THEN A ELSE Grow(Units, Host, f[n - 1])]  BY <1>11, <1>e, Zenon
<1>12. Reaches(Units, Host, A, f, N)  BY <1>f, Zenon DEF Reaches
<1>13. PICK h : h = CHOOSE g : Reaches(Units, Host, A, g, N)  OBVIOUS
<1>14. Reaches(Units, Host, A, h, N)  BY <1>13, <1>9
<1>15. h[N] = Reached(Units, Host, A, N)  BY <1>13 DEF Reached
<1>16. f[N] = h[N]  BY <1>8, <1>12, <1>14, ReachesOnce
<1>17. QED  BY <1>4, <1>7, <1>8, <1>15, <1>16 DEF LiveIn

\* The names the sources use are symbols, and so is what they mean.
LEMMA UsesAre ==
  ASSUME NEW u \in TranslationUnit, NEW f, f \in Range(Decls(u, "func")), NEW y, y \in Range(f.uses)
  PROVE  y \in Use
<1>1. PICK d : d = Decls(u, "func")  OBVIOUS
<1>2. d \in Seq(FunctionDef)  BY <1>1, DeclsAre
<1>3. f \in FunctionDef  BY <1>1, <1>2, RangeOf
<1>4. f.uses \in Seq(Use)  BY <1>3 DEF FunctionDef
<1>5. QED  BY <1>4, RangeOf

\* What a body calls are symbols.
LEMMA BodySymsAre ==
  ASSUME NEW U, NEW H, Program(U, H), NEW u \in U, NEW f, f \in Range(Decls(u, "func"))
  PROVE  BodySyms(u, f) \subseteq Symbols
<1>1. u \in TranslationUnit /\ WellFormed(u)  BY DEF Program, Linkable
<1>2. ASSUME NEW y \in Range(f.uses), y.use = "call" PROVE FuncSymbol(u, y.name) \in Symbols
  <2>1. y.name \in Declared(u)  BY <1>1, <1>2 DEF WellFormed
  <2>2. QED  BY <1>1, <2>1, FuncWorks
<1>3. QED  BY <1>2 DEF BodySyms

\* What a function calls are symbols.
LEMMA CallSymsAre ==
  ASSUME NEW U, NEW H, Program(U, H), NEW s
  PROVE  CallSyms(U, s) \subseteq Symbols
<1>1. SUFFICES ASSUME NEW t \in CallSyms(U, s) PROVE t \in Symbols  OBVIOUS
<1>2. PICK u \in U : \E n \in FuncUses(u, s.name, "call") : t = FuncSymbol(u, n)  BY DEF CallSyms
<1>3. PICK n \in FuncUses(u, s.name, "call") : t = FuncSymbol(u, n)  BY <1>2
<1>4. PICK f \in Range(Decls(u, "func")) : \E x \in Range(f.uses) : x.use = "call" /\ n = x.name
  BY DEF FuncUses
<1>5. t \in BodySyms(u, f)  BY <1>3, <1>4 DEF BodySyms
<1>6. QED  BY <1>5, BodySymsAre

\* What a symbol means is a symbol.
LEMMA MeaningTyped ==
  ASSUME NEW U, NEW H, Program(U, H), NEW kind, NEW t \in Symbols
  PROVE  Meaning(U, H, kind, t) \in Symbols
<1>1. CASE Meaning(U, H, kind, t) = t  BY <1>1
<1>2. CASE Meaning(U, H, kind, t) # t
  <2>1. PICK O : O = Owners(U, kind, t.name)  OBVIOUS
  <2>2. O # {} /\ Meaning(U, H, kind, t) = Symbol(Some(O).name, t.name)  BY <1>2, <2>1 DEF Meaning
  <2>3. Some(O) \in O  BY <2>2 DEF Some
  <2>4. Some(O) \in TranslationUnit  BY <2>1, <2>3 DEF Owners, Program
  <2>5. Some(O).name \in Text  BY <2>4, DeclsAre
  <2>6. t.name \in Text  BY DEF Symbols
  <2>7. QED  BY <2>2, <2>5, <2>6, SymbolIs
<1>3. QED  BY <1>1, <1>2

\* What symbols mean are symbols.
LEMMA MeaningsTyped ==
  ASSUME NEW U, NEW H, Program(U, H), NEW T, T \subseteq Symbols
  PROVE  Meanings(U, H, T) \subseteq Symbols
BY MeaningTyped DEF Meanings

\* What a function reaches in one call are symbols.
LEMMA CalleesTyped ==
  ASSUME NEW U, NEW H, Program(U, H), NEW s
  PROVE  Callees(U, H, s) \subseteq Symbols
BY CallSymsAre, MeaningsTyped DEF Callees

\* The functions of the units are symbols.
LEMMA FunctionsTyped ==
  ASSUME NEW U, NEW H, Program(U, H)
  PROVE  FunctionsOf(U) \subseteq Symbols
<1>1. SUFFICES ASSUME NEW u \in U, NEW f \in Defined(u) PROVE Symbol(u.name, f) \in Symbols
  BY DEF FunctionsOf
<1>2. u \in TranslationUnit  BY DEF Program
<1>3. u.name \in Text /\ f \in Text  BY <1>2, DeclsAre, DeclNames
<1>4. QED  BY <1>3, SymbolIs

\* What the units offer are functions of theirs.
LEMMA PublicTyped ==
  ASSUME NEW U, NEW H, Program(U, H)
  PROVE  PublicIn(U) \subseteq FunctionsOf(U)
<1>1. SUFFICES ASSUME NEW u \in U, NEW x \in Offered(u, "func") PROVE Symbol(u.name, x) \in FunctionsOf(U)
  BY DEF PublicIn
<1>2. u \in TranslationUnit  BY DEF Program
<1>3. x \in Defined(u)  BY <1>2, ExternalWorks
<1>4. QED  BY <1>3 DEF FunctionsOf

\* The program is entered at functions of its units.
LEMMA EntryTyped ==
  ASSUME NEW U, NEW H, Program(U, H), NEW W
  PROVE  EntryIn(U, W) \subseteq FunctionsOf(U)
<1>1. PublicIn(U) \subseteq FunctionsOf(U)  BY PublicTyped
<1>2. EntryIn(U, W) \subseteq PublicIn(U)  BY DEF EntryIn, PublicAs
<1>3. QED  BY <1>1, <1>2

\* The functions whose address is taken are symbols.
LEMMA TakenTyped ==
  ASSUME NEW U, NEW H, Program(U, H)
  PROVE  TakenSyms(U) \subseteq Symbols
<1>1. SUFFICES ASSUME NEW u \in U, NEW x \in Range(Slots(u)) PROVE FuncSymbol(u, x) \in Symbols
  BY DEF TakenSyms
<1>2. u \in TranslationUnit /\ WellFormed(u)  BY DEF Program, Linkable
<1>3. x \in Declared(u)  BY <1>2, TakenWorks
<1>4. QED  BY <1>2, <1>3, FuncWorks

\* The origin of what is live are symbols.
LEMMA OriginTyped ==
  ASSUME NEW U, NEW H, Program(U, H), NEW W
  PROVE  Origin(U, H, W) \subseteq Symbols
<1>1. EntryIn(U, W) \subseteq Symbols  BY EntryTyped, FunctionsTyped
<1>2. Meanings(U, H, TakenSyms(U)) \subseteq Symbols  BY TakenTyped, MeaningsTyped
<1>3. QED  BY <1>1, <1>2 DEF Origin

-----------------------------------------------------------------------------
\* A stage of the reach is closed under calls, or holds more functions than there were stages.
Whence(U, H, S) == \A s \in S : Callees(U, H, s) \subseteq S
Reaching(U, H, S, k) ==
  /\ S \subseteq Symbols
  /\ Whence(U, H, S) \/ Cardinality(S \cap FunctionsOf(U)) >= k + 1

\* A stage that is not closed under calls misses a callee of a function the units define: nothing else has callees.
LEMMA OpenStage ==
  ASSUME NEW U, NEW H, Program(U, H), NEW S, S \subseteq Symbols, ~Whence(U, H, S)
  PROVE  \E s \in S \cap FunctionsOf(U) : ~(Callees(U, H, s) \subseteq S)
<1>1. PICK s \in S : ~(Callees(U, H, s) \subseteq S)  BY DEF Whence
<1>2. s \in Symbols /\ Callees(U, H, s) # {}  BY <1>1
<1>3. s \in FunctionsOf(U)  BY <1>2, CallersDefined
<1>4. QED  BY <1>1, <1>3

\* What the next stage holds.
LEMMA GrowIs ==
  ASSUME NEW U, NEW H, NEW S
  PROVE  \A x : x \in Grow(U, H, S) <=> x \in S \/ \E s \in S : x \in Callees(U, H, s)
BY DEF Grow

\* A larger set of finitely many has more elements.
LEMMA CountUp ==
  ASSUME NEW F, IsFiniteSet(F), NEW A, NEW B, A \subseteq B, B \subseteq F, A # B
  PROVE  Cardinality(A) \in Nat /\ Cardinality(B) \in Nat /\ Cardinality(A) < Cardinality(B)
<1>1. IsFiniteSet(B)  BY FS_Subset
<1>2. IsFiniteSet(A) /\ Cardinality(A) <= Cardinality(B) /\ (Cardinality(A) = Cardinality(B) => A = B)
  BY <1>1, FS_Subset
<1>3. Cardinality(A) \in Nat /\ Cardinality(B) \in Nat  BY <1>1, <1>2, FS_CardinalityType
<1>4. QED  BY <1>2, <1>3

\* Each stage is closed or counts one function more than the stage before.
LEMMA GrowStage ==
  ASSUME NEW U, NEW H, Program(U, H), IsFiniteSet(FunctionsOf(U)), NEW S, NEW k \in Nat, Reaching(U, H, S, k)
  PROVE  Reaching(U, H, Grow(U, H, S), k + 1)
<1>1. PICK T : T = Grow(U, H, S)  OBVIOUS
<1>2. \A x : x \in T <=> x \in S \/ \E s \in S : x \in Callees(U, H, s)  BY <1>1, GrowIs
<1>3. S \subseteq Symbols  BY DEF Reaching
<1>4. S \subseteq T /\ T \subseteq Symbols
  <2>1. \A s : Callees(U, H, s) \subseteq Symbols  BY CalleesTyped
  <2>2. QED  BY <1>2, <1>3, <2>1
<1>5. CASE Whence(U, H, S)
  <2>1. T = S  BY <1>2, <1>5 DEF Whence
  <2>2. QED  BY <1>1, <1>3, <1>5, <2>1 DEF Reaching
<1>6. CASE Whence(U, H, T)  BY <1>1, <1>4, <1>6 DEF Reaching
<1>7. CASE ~Whence(U, H, S) /\ ~Whence(U, H, T)
  <2>1. Cardinality(S \cap FunctionsOf(U)) >= k + 1  BY <1>7 DEF Reaching
  <2>2. PICK s \in T \cap FunctionsOf(U) : ~(Callees(U, H, s) \subseteq T)  BY <1>4, <1>7, OpenStage
  <2>3. s \notin S  BY <1>2, <2>2
  <2>4. PICK A, B : A = S \cap FunctionsOf(U) /\ B = T \cap FunctionsOf(U)  OBVIOUS
  <2>5. A \subseteq B /\ B \subseteq FunctionsOf(U) /\ A # B  BY <2>2, <2>3, <2>4, <1>4
  <2>6. Cardinality(A) \in Nat /\ Cardinality(B) \in Nat /\ Cardinality(A) < Cardinality(B)
    BY <2>5, CountUp
  <2>7. PICK c \in Nat, d \in Nat : c = Cardinality(A) /\ d = Cardinality(B)  BY <2>6
  <2>8. c >= k + 1 /\ c < d  BY <2>1, <2>4, <2>6, <2>7
  <2>9. d >= (k + 1) + 1  BY <2>8
  <2>10. QED  BY <1>1, <1>4, <2>4, <2>7, <2>9 DEF Reaching
<1>8. QED  BY <1>5, <1>6, <1>7

\* What is live is closed under calls, and holds where the program starts.
LEMMA LiveClosed ==
  ASSUME NEW U, NEW H, Program(U, H), IsFiniteSet(FunctionsOf(U)), NEW W
  PROVE  /\ Whence(U, H, LiveIn(U, H, W)) /\ Origin(U, H, W) \subseteq LiveIn(U, H, W)
         /\ LiveIn(U, H, W) \subseteq Symbols
<1>1. PICK N \in Nat : N = Cardinality(FunctionsOf(U))  BY FS_CardinalityType
<1>2. PICK A : A = Origin(U, H, W)  OBVIOUS
<1>3. PICK f : /\ f[0] = A /\ f[N] = Reached(U, H, A, N)
               /\ \A k \in 1 .. N : f[k] = Grow(U, H, f[k - 1])
  BY ReachedStages
<1>4. f[N] = LiveIn(U, H, W)  BY <1>1, <1>2, <1>3 DEF LiveIn
<1>5. A \subseteq Symbols  BY <1>2, OriginTyped
<1>6. Reaching(U, H, A, 0)
  <2>1. SUFFICES ASSUME ~Whence(U, H, A) PROVE Cardinality(A \cap FunctionsOf(U)) >= 0 + 1
    BY <1>5 DEF Reaching
  <2>2. PICK s \in A \cap FunctionsOf(U) : ~(Callees(U, H, s) \subseteq A)  BY <1>5, <2>1, OpenStage
  <2>3. PICK B : B = A \cap FunctionsOf(U)  OBVIOUS
  <2>4. {} \subseteq B /\ B \subseteq FunctionsOf(U) /\ {} # B  BY <2>2, <2>3
  <2>5. Cardinality({}) \in Nat /\ Cardinality(B) \in Nat /\ Cardinality({}) < Cardinality(B)
    BY <2>4, CountUp
  <2>6. PICK c \in Nat, d \in Nat : c = Cardinality({}) /\ d = Cardinality(B)  BY <2>5
  <2>7. c < d  BY <2>5, <2>6
  <2>8. d >= 0 + 1  BY <2>7
  <2>9. QED  BY <2>3, <2>6, <2>8
<1>7. PICK T : T = {k \in Nat : k <= N => A \subseteq f[k] /\ Reaching(U, H, f[k], k)}  OBVIOUS
<1>8. 0 \in T  BY <1>3, <1>6, <1>7
<1>9. ASSUME NEW k \in T PROVE k + 1 \in T
  <2>1. k \in Nat  BY <1>7
  <2>2. SUFFICES ASSUME k + 1 <= N PROVE A \subseteq f[k + 1] /\ Reaching(U, H, f[k + 1], k + 1)  BY <1>7, <2>1
  <2>3. A \subseteq f[k] /\ Reaching(U, H, f[k], k)  BY <1>7, <2>1, <2>2
  <2>4. Reaching(U, H, Grow(U, H, f[k]), k + 1)  BY <2>1, <2>3, GrowStage
  <2>5. k + 1 \in 1 .. N /\ (k + 1) - 1 = k  BY <2>1, <2>2
  <2>6. f[k + 1] = Grow(U, H, f[k])  BY <1>3, <2>5
  <2>7. f[k] \subseteq f[k + 1]  BY <2>6, GrowIs
  <2>8. QED  BY <2>3, <2>4, <2>6, <2>7
<1>10. T = Nat
  <2>1. T \subseteq Nat  BY <1>7
  <2>2. QED  BY <1>8, <1>9, <2>1, InductionSet
<1>11. PICK L : L = f[N]  OBVIOUS
<1>12. A \subseteq L /\ Reaching(U, H, L, N)  BY <1>7, <1>10, <1>11
<1>13. L \subseteq Symbols  BY <1>12 DEF Reaching
<1>14. Whence(U, H, L)
  <2>1. SUFFICES ASSUME ~Whence(U, H, L) PROVE FALSE  OBVIOUS
  <2>2. PICK B : B = L \cap FunctionsOf(U)  OBVIOUS
  <2>3. Cardinality(B) >= N + 1  BY <1>12, <2>1, <2>2 DEF Reaching
  <2>4. B \subseteq FunctionsOf(U)  BY <2>2
  <2>5. IsFiniteSet(B) /\ Cardinality(B) <= N  BY <1>1, <2>4, FS_Subset
  <2>6. Cardinality(B) \in Nat  BY <2>5, FS_CardinalityType
  <2>7. QED  BY <2>3, <2>5, <2>6
<1>15. QED  BY <1>2, <1>4, <1>11, <1>12, <1>13, <1>14

\* Nothing is live that need not be.
LEMMA LiveLeast ==
  ASSUME NEW U, NEW H, IsFiniteSet(FunctionsOf(U)), NEW W,
         NEW S, Origin(U, H, W) \subseteq S, Whence(U, H, S)
  PROVE  LiveIn(U, H, W) \subseteq S
<1>1. PICK N \in Nat : N = Cardinality(FunctionsOf(U))  BY FS_CardinalityType
<1>2. PICK A : A = Origin(U, H, W)  OBVIOUS
<1>3. PICK f : /\ f[0] = A /\ f[N] = Reached(U, H, A, N)
               /\ \A k \in 1 .. N : f[k] = Grow(U, H, f[k - 1])
  BY ReachedStages
<1>4. f[N] = LiveIn(U, H, W)  BY <1>1, <1>2, <1>3 DEF LiveIn
<1>5. PICK T : T = {k \in Nat : k <= N => f[k] \subseteq S}  OBVIOUS
<1>6. 0 \in T  BY <1>2, <1>3, <1>5
<1>7. ASSUME NEW k \in T PROVE k + 1 \in T
  <2>1. k \in Nat  BY <1>5
  <2>2. SUFFICES ASSUME k + 1 <= N PROVE f[k + 1] \subseteq S  BY <1>5, <2>1
  <2>3. f[k] \subseteq S  BY <1>5, <2>1, <2>2
  <2>4. k + 1 \in 1 .. N /\ (k + 1) - 1 = k  BY <2>1, <2>2
  <2>5. f[k + 1] = Grow(U, H, f[k])  BY <1>3, <2>4
  <2>6. \A x : x \in f[k + 1] <=> x \in f[k] \/ \E s \in f[k] : x \in Callees(U, H, s)  BY <2>5, GrowIs
  <2>7. QED  BY <2>3, <2>6 DEF Whence
<1>8. T = Nat
  <2>1. T \subseteq Nat  BY <1>5
  <2>2. QED  BY <1>6, <1>7, <2>1, InductionSet
<1>9. QED  BY <1>4, <1>5, <1>8

\* Nothing is marked that need not be.
LEMMA MarkLeast ==
  ASSUME NEW m, Whole(m), NEW S, Roots(m) \subseteq S, Closed(m, S)
  PROVE  Mark(m) \subseteq S
<1>1. m \in Modules  BY DEF Whole
<1>2. PICK N \in Nat : N = Len(m.funcs)  BY <1>1, ModuleFields
<1>3. PICK f : /\ f[0] = Roots(m) /\ f[N] = Mark(m)
               /\ \A k \in 1 .. N : f[k] = WithCalls(m, f[k - 1])
  BY <1>2, MarkStages
<1>4. PICK T : T = {k \in Nat : k <= N => f[k] \subseteq S}  OBVIOUS
<1>5. 0 \in T  BY <1>3, <1>4
<1>6. ASSUME NEW k \in T PROVE k + 1 \in T
  <2>1. k \in Nat  BY <1>4
  <2>2. SUFFICES ASSUME k + 1 <= N PROVE f[k + 1] \subseteq S  BY <1>4, <2>1
  <2>3. f[k] \subseteq S  BY <1>4, <2>1, <2>2
  <2>4. k + 1 \in 1 .. N /\ (k + 1) - 1 = k  BY <2>1, <2>2
  <2>5. f[k + 1] = WithCalls(m, f[k])  BY <1>3, <2>4
  <2>6. \A x : x \in f[k + 1] <=> x \in f[k] \/ \E i \in f[k] : x \in Calls(m, i)  BY <2>5 DEF WithCalls
  <2>7. QED  BY <2>3, <2>6 DEF Closed
<1>7. T = Nat
  <2>1. T \subseteq Nat  BY <1>4
  <2>2. QED  BY <1>5, <1>6, <2>1, InductionSet
<1>8. QED  BY <1>3, <1>4, <1>7

\* Units told apart by their names, as NamesAssumption has them.
Apart(U) ==
  /\ \A u, v \in U : u.name = v.name => u = v
  /\ \A u \in U : /\ u.name \notin {"sys_proc", "crt0"} /\ DefinesOnce(u)
                  /\ \A p \in Range(Decls(u, "proto")) : p.mod # "crt0"

\* The functions a body calls, the table holds and the module exports, as the sources name them.
CallsOf(b) == {r.sym : r \in {q \in b.refs : q.kind = "func"}}
TabSyms(m) == {m.table[k].sym : k \in 1 .. Len(m.table)}
PubSyms(m) == {m.exps[k].ref.sym : k \in {j \in 1 .. Len(m.exps) : m.exps[j].ref.kind = "func"}}
\* A body compiled from a function of U, the start wrapper's.
BodyFrom(U, b) ==
  \E u \in U : \E f \in Range(Decls(u, "func")) : b.id = Symbol(u.name, f.name) /\ CallsOf(b) = BodySyms(u, f)
WrapperFrom(U, W, b) == EntryIn(U, W) \subseteq CallsOf(b) /\ CallsOf(b) \subseteq EntryIn(U, W) \cup Range(SysProc)
DrawnBody(U, W, b) == IF b.id = StartWrapper THEN WrapperFrom(U, W, b) ELSE BodyFrom(U, b)
Start(W) == IF W THEN {StartWrapper} ELSE {}
\* The module holds the functions S of U, with the calls of the sources, and the start wrapper.
Drawn(m, U, W, S) ==
  /\ OnceEach(Ids(m)) /\ Range(Ids(m)) = S \cup Start(W)
  /\ \A k \in 1 .. Len(m.funcs) : DrawnBody(U, W, m.funcs[k])
  /\ W <=> m.start # {}
  /\ TabSyms(m) = TakenSyms(U) /\ PubSyms(m) \subseteq FunctionsOf(U)
  /\ Range(m.fimp) \subseteq FuncWants(U) \cup Range(SysProc)
Opened(m, U, W) == ~W => PubSyms(m) = PublicIn(U)

\* The calls of a function of the sources are those of its one body.
LEMMA CallsOnce ==
  ASSUME NEW U, Apart(U), NEW u \in U, u \in TranslationUnit, NEW f, f \in Range(Decls(u, "func"))
  PROVE  CallSyms(U, Symbol(u.name, f.name)) = BodySyms(u, f)
<1>1. PICK s : s = Symbol(u.name, f.name)  OBVIOUS
<1>2. s.mod = u.name /\ s.name = f.name  BY <1>1 DEF Symbol
<1>3. PICK d : d = Decls(u, "func")  OBVIOUS
<1>4. d \in Seq(FunctionDef)  BY <1>3, DeclsAre
<1>5. PICK k \in 1 .. Len(d) : d[k] = f  BY <1>3, <1>4, RangeOf
<1>6. \A v \in Range(d) : v.name = f.name => v = f
  <2>1. SUFFICES ASSUME NEW v \in Range(d), v.name = f.name PROVE v = f  OBVIOUS
  <2>2. PICK j \in 1 .. Len(d) : d[j] = v  BY <1>4, RangeOf
  <2>3. DefinesOnce(u)  BY DEF Apart
  <2>4. j \in DOMAIN d /\ k \in DOMAIN d /\ d[j].name = d[k].name  BY <1>4, <1>5, <2>1, <2>2, Entries
  <2>5. j = k  BY <2>3, <2>4, <1>3 DEF DefinesOnce
  <2>6. QED  BY <2>2, <2>5, <1>5
<1>7. f.name \in Defined(u)  BY <1>3, <1>5, DeclNames
<1>8. FuncUses(u, f.name, "call") = {x.name : x \in {y \in Range(f.uses) : y.use = "call"}}
  <2>1. {g \in Range(d) : g.name = f.name} = {f}  BY <1>3, <1>6
  <2>2. QED  BY <2>1, <1>3 DEF FuncUses
<1>9. {v \in U : v.name = s.mod /\ s.name \in Defined(v)} = {u}  BY <1>2, <1>7 DEF Apart
<1>10. CallSyms(U, s) = {FuncSymbol(u, n) : n \in FuncUses(u, f.name, "call")}  BY <1>2, <1>9 DEF CallSyms
<1>11. QED  BY <1>1, <1>8, <1>10 DEF BodySyms

\* No import is a definition.
LEMMA ImportsApart ==
  ASSUME NEW U, NEW H, Program(U, H), Apart(U), NEW s, s \in FuncWants(U) \cup Range(SysProc)
  PROVE  s \notin FunctionsOf(U) /\ s # StartWrapper
<1>1. \A t \in FunctionsOf(U) : \E u \in U : t.mod = u.name  BY DEF FunctionsOf, Symbol
<1>2. StartWrapper.mod = "crt0"  BY DEF StartWrapper, Symbol
<1>3. CASE s \in Range(SysProc)
  <2>1. s.mod = "sys_proc"  BY <1>3, SysProcIs
  <2>2. QED  BY <2>1, <1>1, <1>2 DEF Apart
<1>4. CASE s \in FuncWants(U)
  <2>1. \A u \in U : s.mod # u.name  BY <1>4, FuncWanted
  <2>2. PICK u \in U : s \in Range(FimpOf(u))  BY <1>4 DEF FuncWants
  <2>3. u \in TranslationUnit  BY DEF Program
  <2>4. PICK p : p = Protos(u)  OBVIOUS
  <2>5. FimpOf(u) \in Seq(Symbols) /\ Len(FimpOf(u)) = Len(p)
        /\ \A k \in 1 .. Len(p) : FimpOf(u)[k] = Symbol(p[k].mod, p[k].import)
    BY <2>3, <2>4, FunctionSpaces
  <2>6. PICK k \in 1 .. Len(p) : FimpOf(u)[k] = s  BY <2>2, <2>5, RangeOf
  <2>7. s.mod = p[k].mod
    <3>1. PICK x, y : x = p[k].mod /\ y = p[k].import  OBVIOUS
    <3>2. s = Symbol(x, y)  BY <2>5, <2>6, <3>1
    <3>3. s.mod = x  BY <3>2 DEF Symbol
    <3>4. QED  BY <3>1, <3>3
  <2>8. p[k] \in Range(Decls(u, "proto"))  BY <2>3, <2>4, ProtosAre
  <2>9. s.mod # "crt0"  BY <2>7, <2>8 DEF Apart
  <2>10. QED  BY <2>1, <2>9, <1>1, <1>2
<1>5. QED  BY <1>3, <1>4

\* The start wrapper is no function of the sources.
LEMMA WrapperApart ==
  ASSUME NEW U, Apart(U)
  PROVE  StartWrapper \notin FunctionsOf(U)
<1>1. \A t \in FunctionsOf(U) : \E u \in U : t.mod = u.name  BY DEF FunctionsOf, Symbol
<1>2. StartWrapper.mod = "crt0"  BY DEF StartWrapper, Symbol
<1>3. QED  BY <1>1, <1>2 DEF Apart

\* What a function number denotes: an import, or the definition there.
LEMMA FuncPlace ==
  ASSUME NEW m \in Modules, NEW i \in Numbers(m)
  PROVE  /\ i < Len(m.fimp) => FuncAt(m, i) \in Range(m.fimp)
         /\ i >= Len(m.fimp) => /\ i - Len(m.fimp) + 1 \in 1 .. Len(m.funcs)
                                /\ FuncAt(m, i) = m.funcs[i - Len(m.fimp) + 1].id
                                /\ FuncAt(m, i) \in Range(Ids(m))
<1>1. PICK a, b, s : a = m.fimp /\ b = Ids(m) /\ s = m.funcs  OBVIOUS
<1>2. /\ a \in Seq(Symbols) /\ b \in Seq(Symbols) /\ Len(b) = Len(s)
      /\ \A k \in 1 .. Len(s) : b[k] = s[k].id
  BY <1>1, ModuleFields, IdsOf
<1>3. s \in Seq(Bodies)  BY <1>1, ModuleFields
<1>4. PICK l \in Nat, n \in Nat : l = Len(a) /\ n = Len(s)  BY <1>2, <1>3, Entries
<1>5. i \in Nat /\ i < l + n
  <2>1. NFuncs(m) = l + n  BY <1>1, <1>4 DEF NFuncs
  <2>2. Numbers(m) = 0 .. (l + n) - 1  BY <2>1 DEF Numbers
  <2>3. QED  BY <2>2
<1>6. FuncAt(m, i) = Numbered(a, b, i) /\ i < Len(a) + Len(b)  BY <1>1, <1>2, <1>4, <1>5 DEF FuncAt
<1>7. ASSUME i < l PROVE FuncAt(m, i) \in Range(a)
  <2>1. i + 1 \in 1 .. Len(a) /\ Numbered(a, b, i) = a[i + 1]  BY <1>2, <1>4, <1>5, <1>6, <1>7, NumberedAt
  <2>2. QED  BY <2>1, <1>2, <1>6, RangeOf
<1>8. ASSUME i >= l PROVE /\ i - l + 1 \in 1 .. Len(s) /\ FuncAt(m, i) = s[i - l + 1].id
                          /\ FuncAt(m, i) \in Range(b)
  <2>1. i - Len(a) + 1 \in 1 .. Len(b) /\ Numbered(a, b, i) = b[i - Len(a) + 1]
    BY <1>2, <1>4, <1>5, <1>6, <1>8, NumberedAt
  <2>2. PICK k \in 1 .. Len(b) : k = i - l + 1  BY <2>1, <1>4
  <2>3. FuncAt(m, i) = b[k] /\ b[k] = s[k].id /\ k \in 1 .. Len(s)  BY <2>1, <2>2, <1>2, <1>4, <1>6
  <2>4. b[k] \in Range(b)  BY <2>2, <1>2, RangeOf
  <2>5. QED  BY <2>2, <2>3, <2>4
<1>9. QED  BY <1>1, <1>4, <1>7, <1>8

\* A call goes to what its name means.
LEMMA CallMeans ==
  ASSUME NEW m, NEW U, NEW H, Linked(m, U, H), NEW r \in AllRefs(m), r.kind = "func"
  PROVE  /\ FuncAt(m, r.idx) = Meaning(U, H, "func", r.sym) /\ r.idx \in Numbers(m)
<1>1. Whole(m) /\ Surely(m, U, H)  BY DEF Linked
<1>2. Sure(U, r)  BY DEF Sure
<1>3. Denotes(m, r) = Meaning(U, H, r.kind, r.sym)  BY <1>1, <1>2 DEF Surely
<1>4. Denotes(m, r) = FuncAt(m, r.idx)  BY DEF Denotes
<1>5. r.idx \in Numbers(m)  BY <1>1, FuncRefIn
<1>6. QED  BY <1>3, <1>4, <1>5

\* The calls of a function, by number and by name.
LEMMA CallsNamed ==
  ASSUME NEW m, NEW U, NEW H, Linked(m, U, H), NEW i \in Numbers(m), i >= Len(m.fimp),
         NEW b, b = m.funcs[i - Len(m.fimp) + 1]
  PROVE  /\ \A x \in Calls(m, i) : \E t \in CallsOf(b) : FuncAt(m, x) = Meaning(U, H, "func", t)
         /\ \A t \in CallsOf(b) : \E x \in Calls(m, i) : FuncAt(m, x) = Meaning(U, H, "func", t)
<1>1. Whole(m) /\ m \in Modules  BY DEF Linked, Whole
<1>2. i - Len(m.fimp) + 1 \in 1 .. Len(m.funcs)
      /\ \A x : x \in Calls(m, i) <=> \E r \in b.refs : r.kind = "func" /\ r.idx = x
  BY <1>1, CallsAre
<1>3. \A r \in b.refs : r \in AllRefs(m)  BY <1>1, <1>2, AllRefsAre
<1>4. \A r \in b.refs : r.kind = "func" => FuncAt(m, r.idx) = Meaning(U, H, "func", r.sym)  BY <1>3, CallMeans
<1>5. \A t : t \in CallsOf(b) <=> \E r \in b.refs : r.kind = "func" /\ t = r.sym  BY DEF CallsOf
<1>6. ASSUME NEW x \in Calls(m, i) PROVE \E t \in CallsOf(b) : FuncAt(m, x) = Meaning(U, H, "func", t)
  <2>1. PICK r \in b.refs : r.kind = "func" /\ r.idx = x  BY <1>2
  <2>2. r.sym \in CallsOf(b)  BY <2>1, <1>5
  <2>3. QED  BY <2>1, <2>2, <1>4
<1>7. ASSUME NEW t \in CallsOf(b) PROVE \E x \in Calls(m, i) : FuncAt(m, x) = Meaning(U, H, "func", t)
  <2>1. PICK r \in b.refs : r.kind = "func" /\ t = r.sym  BY <1>5
  <2>2. r.idx \in Calls(m, i)  BY <2>1, <1>2
  <2>3. QED  BY <2>1, <2>2, <1>4
<1>8. QED  BY <1>6, <1>7

\* Where marking starts: the table, the imports, and the start function or, in a module without one, the exports.
LEMMA StartsAre ==
  ASSUME NEW m, Whole(m)
  PROVE  /\ m.start = {} => \A k \in 1 .. Len(m.exps) : m.exps[k].ref.kind = "func" => m.exps[k].ref.idx \in Roots(m)
         /\ \A i \in Roots(m) : \/ i \in m.start
                                \/ i < Len(m.fimp)
                                \/ \E k \in 1 .. Len(m.table) : i = m.table[k].idx
                                \/ /\ m.start = {}
                                   /\ \E k \in 1 .. Len(m.exps) : m.exps[k].ref.kind = "func" /\ i = m.exps[k].ref.idx
<1>1. m \in Modules  BY DEF Whole
<1>2. DOMAIN m.table = 1 .. Len(m.table) /\ DOMAIN m.exps = 1 .. Len(m.exps) /\ Len(m.fimp) \in Nat
  BY <1>1, ModuleFields
<1>3. PICK E : E = {m.exps[k].ref.idx : k \in {j \in DOMAIN m.exps : m.exps[j].ref.kind = "func"}}
  OBVIOUS
<1>4. PICK T : T = {m.table[k].idx : k \in DOMAIN m.table}  OBVIOUS
<1>5. Roots(m) = (IF m.start # {} THEN m.start ELSE E) \cup T \cup 0 .. Len(m.fimp) - 1
  BY <1>3, <1>4 DEF Roots
<1>6. \A i \in 0 .. Len(m.fimp) - 1 : i < Len(m.fimp)  BY <1>2
<1>7. \A x : x \in E <=> \E k \in 1 .. Len(m.exps) : m.exps[k].ref.kind = "func" /\ x = m.exps[k].ref.idx
  BY <1>2, <1>3
<1>8. \A x : x \in T <=> \E k \in 1 .. Len(m.table) : x = m.table[k].idx  BY <1>2, <1>4
<1>9. QED  BY <1>5, <1>6, <1>7, <1>8

\* The module before dead code is removed.
Whichever(m, U, H, W) ==
  /\ Linked(m, U, H) /\ Drawn(m, U, W, FunctionsOf(U)) /\ Opened(m, U, W)
  /\ Program(U, H) /\ Apart(U) /\ IsFiniteSet(FunctionsOf(U))

\* The table holds exactly what the names whose address is taken mean.
LEMMA TableMeans ==
  ASSUME NEW m, NEW U, NEW H, Linked(m, U, H), TabSyms(m) = TakenSyms(U)
  PROVE  /\ \A k \in 1 .. Len(m.table) : FuncAt(m, m.table[k].idx) \in Meanings(U, H, TakenSyms(U))
         /\ \A s \in Meanings(U, H, TakenSyms(U)) : \E k \in 1 .. Len(m.table) : FuncAt(m, m.table[k].idx) = s
<1>1. Whole(m) /\ m \in Modules  BY DEF Linked, Whole
<1>2. \A k \in 1 .. Len(m.table) : m.table[k] \in AllRefs(m)  BY <1>1, AllRefsAre
<1>3. DOMAIN m.table = 1 .. Len(m.table)  BY <1>1, ModuleFields
<1>4. \A k \in 1 .. Len(m.table) : m.table[k].kind = "func"  BY <1>1, <1>3 DEF Whole, InTable
<1>5. \A k \in 1 .. Len(m.table) : FuncAt(m, m.table[k].idx) = Meaning(U, H, "func", m.table[k].sym)
  BY <1>2, <1>4, CallMeans
<1>6. \A t : t \in TakenSyms(U) <=> \E k \in 1 .. Len(m.table) : t = m.table[k].sym  BY DEF TabSyms
<1>7. \A s : s \in Meanings(U, H, TakenSyms(U)) <=> \E t \in TakenSyms(U) : s = Meaning(U, H, "func", t)
  BY DEF Meanings
<1>8. ASSUME NEW k \in 1 .. Len(m.table) PROVE FuncAt(m, m.table[k].idx) \in Meanings(U, H, TakenSyms(U))
  <2>1. m.table[k].sym \in TakenSyms(U)  BY <1>6
  <2>2. QED  BY <2>1, <1>5, <1>7
<1>9. ASSUME NEW s \in Meanings(U, H, TakenSyms(U))
      PROVE  \E k \in 1 .. Len(m.table) : FuncAt(m, m.table[k].idx) = s
  <2>1. PICK t \in TakenSyms(U) : s = Meaning(U, H, "func", t)  BY <1>7
  <2>2. PICK k \in 1 .. Len(m.table) : t = m.table[k].sym  BY <1>6
  <2>3. QED  BY <2>1, <2>2, <1>5
<1>10. QED  BY <1>8, <1>9

\* An export of a function reaches the function it is named for.
LEMMA ExportMeans ==
  ASSUME NEW m, NEW U, NEW H, Linked(m, U, H), PubSyms(m) \subseteq FunctionsOf(U),
         NEW k \in 1 .. Len(m.exps), m.exps[k].ref.kind = "func"
  PROVE  FuncAt(m, m.exps[k].ref.idx) = m.exps[k].ref.sym /\ m.exps[k].ref.sym \in PubSyms(m)
<1>1. Whole(m) /\ m \in Modules  BY DEF Linked, Whole
<1>2. PICK r : r = m.exps[k].ref  OBVIOUS
<1>3. r \in AllRefs(m)  BY <1>1, <1>2, AllRefsAre
<1>4. FuncAt(m, r.idx) = Meaning(U, H, "func", r.sym)  BY <1>2, <1>3, CallMeans
<1>5. r.sym \in PubSyms(m)  BY <1>2 DEF PubSyms
<1>6. Meaning(U, H, "func", r.sym) = r.sym  BY <1>5, MeaningDefined
<1>7. QED  BY <1>2, <1>4, <1>5, <1>6

\* What is marked is live.
LEMMA MarkedLive ==
  ASSUME NEW m, NEW U, NEW H, NEW W, Whichever(m, U, H, W), NEW i \in Mark(m)
  PROVE  i < Len(m.fimp) \/ FuncAt(m, i) \in LiveIn(U, H, W) \cup Start(W)
<1>1. /\ Linked(m, U, H) /\ Drawn(m, U, W, FunctionsOf(U)) /\ Opened(m, U, W)
      /\ Program(U, H) /\ Apart(U) /\ IsFiniteSet(FunctionsOf(U))
  BY DEF Whichever
<1>2. Whole(m) /\ m \in Modules  BY <1>1 DEF Linked, Whole
<1>3. PICK L : L = LiveIn(U, H, W)  OBVIOUS
<1>4. Whence(U, H, L) /\ Origin(U, H, W) \subseteq L  BY <1>1, <1>3, LiveClosed
<1>5. PICK T : T = {x \in Numbers(m) : x < Len(m.fimp) \/ FuncAt(m, x) \in L \cup Start(W)}  OBVIOUS
<1>6. Roots(m) \subseteq T
  <2>1. SUFFICES ASSUME NEW x \in Roots(m), ~(x < Len(m.fimp)) PROVE FuncAt(m, x) \in L \cup Start(W)
    BY <1>2, <1>5, RootsAre
  <2>2. CASE x \in m.start
    <3>1. FuncAt(m, x) = StartWrapper  BY <1>1, <2>2 DEF Linked
    <3>2. W  BY <1>1, <2>2 DEF Drawn
    <3>3. QED  BY <3>1, <3>2 DEF Start
  <2>3. CASE \E k \in 1 .. Len(m.table) : x = m.table[k].idx
    <3>1. TabSyms(m) = TakenSyms(U)  BY <1>1 DEF Drawn
    <3>2. FuncAt(m, x) \in Meanings(U, H, TakenSyms(U))  BY <1>1, <2>3, <3>1, TableMeans
    <3>3. QED  BY <3>2, <1>4 DEF Origin
  <2>4. CASE /\ m.start = {}
             /\ \E k \in 1 .. Len(m.exps) : m.exps[k].ref.kind = "func" /\ x = m.exps[k].ref.idx
    <3>1. PICK k \in 1 .. Len(m.exps) : m.exps[k].ref.kind = "func" /\ x = m.exps[k].ref.idx  BY <2>4
    <3>2. ~W  BY <1>1, <2>4 DEF Drawn
    <3>3. PubSyms(m) \subseteq FunctionsOf(U)  BY <1>1 DEF Drawn
    <3>4. FuncAt(m, x) \in PubSyms(m)
      <4>1. FuncAt(m, m.exps[k].ref.idx) = m.exps[k].ref.sym /\ m.exps[k].ref.sym \in PubSyms(m)
        BY <1>1, <3>1, <3>3, ExportMeans
      <4>2. QED  BY <3>1, <4>1
    <3>5. FuncAt(m, x) \in EntryIn(U, W)  BY <3>2, <3>4, <1>1 DEF EntryIn, Opened
    <3>6. QED  BY <3>5, <1>4 DEF Origin
  <2>5. QED  BY <2>1, <2>2, <2>3, <2>4, <1>2, StartsAre
<1>7. ASSUME NEW x \in T PROVE Calls(m, x) \subseteq T
  <2>1. x \in Numbers(m)  BY <1>5
  <2>2. CASE x < Len(m.fimp)
    <3>1. Calls(m, x) = {}  BY <1>2, <2>1, <2>2, CallsAre
    <3>2. QED  BY <3>1
  <2>3. CASE ~(x < Len(m.fimp))
    <3>1. x \in Nat /\ Len(m.fimp) \in Nat
      <4>1. NFuncs(m) \in Nat  BY <1>2, NFuncsIs
      <4>2. QED  BY <2>1, <4>1, <1>2, ModuleFields DEF Numbers
    <3>2. x >= Len(m.fimp)  BY <2>3, <3>1
    <3>3. PICK b : b = m.funcs[x - Len(m.fimp) + 1]  OBVIOUS
    <3>4. x - Len(m.fimp) + 1 \in 1 .. Len(m.funcs) /\ FuncAt(m, x) = b.id
          /\ FuncAt(m, x) \in Range(Ids(m))
      BY <1>2, <2>1, <3>2, <3>3, FuncPlace
    <3>5. b.id \in L \cup Start(W)  BY <1>5, <2>3, <3>4
    <3>6. DrawnBody(U, W, b)  BY <1>1, <3>3, <3>4 DEF Drawn
    <3>7. \A y \in Calls(m, x) : y \in Numbers(m) /\ \E t \in CallsOf(b) : FuncAt(m, y) = Meaning(U, H, "func", t)
      <4>1. \A y \in Calls(m, x) : \E t \in CallsOf(b) : FuncAt(m, y) = Meaning(U, H, "func", t)
        BY <1>1, <2>1, <3>2, <3>3, CallsNamed
      <4>2. Calls(m, x) \subseteq Numbers(m)  BY <1>2, <2>1, CallsIn
      <4>3. QED  BY <4>1, <4>2
    <3>8. CASE b.id = StartWrapper
      <4>1. CallsOf(b) \subseteq EntryIn(U, W) \cup Range(SysProc)  BY <3>6, <3>8 DEF DrawnBody, WrapperFrom
      <4>2. SUFFICES ASSUME NEW y \in Calls(m, x) PROVE y \in T  OBVIOUS
      <4>3. PICK t \in CallsOf(b) : FuncAt(m, y) = Meaning(U, H, "func", t)  BY <3>7
      <4>4. CASE t \in EntryIn(U, W)
        <5>1. t \in FunctionsOf(U)  BY <1>1, <4>4, EntryTyped
        <5>2. FuncAt(m, y) = t  BY <4>3, <5>1, MeaningDefined
        <5>3. t \in L  BY <4>4, <1>4 DEF Origin
        <5>4. QED  BY <5>2, <5>3, <3>7, <1>5
      <4>5. CASE t \in Range(SysProc)
        <5>1. FuncAt(m, y) = t  BY <4>3, <4>5, MeaningProvided
        <5>2. t \notin FunctionsOf(U) \cup Start(W)  BY <1>1, <4>5, ImportsApart DEF Start
        <5>3. t \notin Range(Ids(m))  BY <1>1, <5>2 DEF Drawn
        <5>4. ~(y >= Len(m.fimp))  BY <1>2, <3>7, <5>1, <5>3, FuncPlace
        <5>5. y \in Nat
          <6>1. y \in Numbers(m)  BY <3>7
          <6>2. NFuncs(m) \in Nat  BY <1>2, NFuncsIs
          <6>3. QED  BY <6>1, <6>2 DEF Numbers
        <5>6. y < Len(m.fimp)  BY <3>1, <5>4, <5>5
        <5>7. QED  BY <5>6, <3>7, <1>5
      <4>6. QED  BY <4>1, <4>4, <4>5
    <3>9. CASE b.id # StartWrapper
      <4>1. b.id \in L  BY <3>5, <3>9 DEF Start
      <4>2. PICK u \in U : \E f \in Range(Decls(u, "func")) : b.id = Symbol(u.name, f.name) /\ CallsOf(b) = BodySyms(u, f)
        BY <3>6, <3>9 DEF DrawnBody, BodyFrom
      <4>3. PICK f \in Range(Decls(u, "func")) : b.id = Symbol(u.name, f.name) /\ CallsOf(b) = BodySyms(u, f)  BY <4>2
      <4>4. u \in TranslationUnit  BY <1>1 DEF Program
      <4>5. CallsOf(b) = CallSyms(U, b.id)  BY <1>1, <4>3, <4>4, CallsOnce
      <4>6. Callees(U, H, b.id) \subseteq L  BY <1>4, <4>1 DEF Whence
      <4>7. SUFFICES ASSUME NEW y \in Calls(m, x) PROVE y \in T  OBVIOUS
      <4>8. PICK t \in CallsOf(b) : FuncAt(m, y) = Meaning(U, H, "func", t)  BY <3>7
      <4>9. FuncAt(m, y) \in Callees(U, H, b.id)  BY <4>5, <4>8 DEF Callees, Meanings
      <4>10. QED  BY <4>6, <4>9, <3>7, <1>5
    <3>10. QED  BY <3>8, <3>9
  <2>4. QED  BY <2>2, <2>3
<1>8. Closed(m, T)  BY <1>7 DEF Closed
<1>9. Mark(m) \subseteq T  BY <1>2, <1>6, <1>8, MarkLeast
<1>10. QED  BY <1>3, <1>5, <1>9

\* Every call of the sources is one of the module.
Answers(m, U, H, i, b) ==
  \A t \in CallsOf(b) : \E x \in Calls(m, i) : FuncAt(m, x) = Meaning(U, H, "func", t)

\* The calls of a function of the module reach what the calls of its source mean.
LEMMA CallsAnswer ==
  ASSUME NEW m, NEW U, NEW H, Linked(m, U, H), NEW i \in Numbers(m), i >= Len(m.fimp),
         NEW b, b = m.funcs[i - Len(m.fimp) + 1]
  PROVE  Answers(m, U, H, i, b)
BY CallsNamed DEF Answers

\* What is live is marked.
LEMMA LiveMarked ==
  ASSUME NEW m, NEW U, NEW H, NEW W, Whichever(m, U, H, W)
  PROVE  LiveIn(U, H, W) \subseteq {FuncAt(m, i) : i \in Mark(m)}
<1>1. /\ Linked(m, U, H) /\ Drawn(m, U, W, FunctionsOf(U)) /\ Opened(m, U, W)
      /\ Program(U, H) /\ Apart(U) /\ IsFiniteSet(FunctionsOf(U))
  BY DEF Whichever
<1>2. Whole(m) /\ m \in Modules  BY <1>1 DEF Linked, Whole
<1>3. PICK M : M = {FuncAt(m, i) : i \in Mark(m)}  OBVIOUS
<1>4. Roots(m) \subseteq Mark(m) /\ Mark(m) \subseteq Numbers(m) /\ Closed(m, Mark(m))  BY <1>2, MarkWorks
\* A definition that is marked has its calls marked.
<1>5. ASSUME NEW i \in Mark(m), FuncAt(m, i) \in FunctionsOf(U) \/ FuncAt(m, i) = StartWrapper
      PROVE  \E b : /\ b.id = FuncAt(m, i) /\ DrawnBody(U, W, b)
                    /\ \A t \in CallsOf(b) : Meaning(U, H, "func", t) \in M
  <2>1. i \in Numbers(m)  BY <1>4
  <2>2. FuncAt(m, i) \notin Range(m.fimp)  BY <1>1, <1>5, ImportsApart DEF Drawn
  <2>3. i \in Nat /\ Len(m.fimp) \in Nat
    <3>1. NFuncs(m) \in Nat  BY <1>2, NFuncsIs
    <3>2. QED  BY <2>1, <3>1, <1>2, ModuleFields DEF Numbers
  <2>4. ~(i < Len(m.fimp))  BY <1>2, <2>1, <2>2, FuncPlace
  <2>5. i >= Len(m.fimp)  BY <2>3, <2>4
  <2>6. PICK b : b = m.funcs[i - Len(m.fimp) + 1]  OBVIOUS
  <2>7. i - Len(m.fimp) + 1 \in 1 .. Len(m.funcs) /\ FuncAt(m, i) = b.id
    BY <1>2, <2>1, <2>5, <2>6, FuncPlace
  <2>8. DrawnBody(U, W, b)  BY <1>1, <2>6, <2>7 DEF Drawn
  <2>9. \A t \in CallsOf(b) : \E x \in Calls(m, i) : FuncAt(m, x) = Meaning(U, H, "func", t)
    <3>1. Linked(m, U, H)  BY <1>1
    <3>2. Answers(m, U, H, i, b)  BY <3>1, <2>1, <2>5, <2>6, CallsAnswer
    <3>3. QED  BY <3>2 DEF Answers
  <2>10. Calls(m, i) \subseteq Mark(m)  BY <1>4 DEF Closed
  <2>11. \A t \in CallsOf(b) : Meaning(U, H, "func", t) \in M  BY <2>9, <2>10, <1>3
  <2>12. QED  BY <2>7, <2>8, <2>11
<1>6. EntryIn(U, W) \subseteq M
  <2>1. CASE W
    <3>1. PICK i : i \in m.start  BY <1>1, <2>1 DEF Drawn
    <3>2. FuncAt(m, i) = StartWrapper /\ i \in Mark(m)  BY <1>1, <1>2, <1>4, <3>1, RootsAre DEF Linked
    <3>3. PICK b : /\ b.id = FuncAt(m, i) /\ DrawnBody(U, W, b)
                   /\ \A t \in CallsOf(b) : Meaning(U, H, "func", t) \in M
      BY <3>2, <1>5
    <3>4. EntryIn(U, W) \subseteq CallsOf(b)  BY <3>2, <3>3 DEF DrawnBody, WrapperFrom
    <3>5. \A t \in EntryIn(U, W) : Meaning(U, H, "func", t) = t
      <4>1. EntryIn(U, W) \subseteq FunctionsOf(U)  BY <1>1, EntryTyped
      <4>2. QED  BY <4>1, MeaningDefined
    <3>6. QED  BY <3>3, <3>4, <3>5
  <2>2. CASE ~W
    <3>1. m.start = {}  BY <1>1, <2>2 DEF Drawn
    <3>2. PubSyms(m) = EntryIn(U, W)  BY <1>1, <2>2 DEF Opened, EntryIn
    <3>3. SUFFICES ASSUME NEW t \in PubSyms(m) PROVE t \in M  BY <3>2
    <3>4. PICK k \in 1 .. Len(m.exps) : m.exps[k].ref.kind = "func" /\ t = m.exps[k].ref.sym  BY DEF PubSyms
    <3>5. PubSyms(m) \subseteq FunctionsOf(U)  BY <1>1 DEF Drawn
    <3>6. FuncAt(m, m.exps[k].ref.idx) = m.exps[k].ref.sym  BY <1>1, <3>4, <3>5, ExportMeans
    <3>7. m.exps[k].ref.idx \in Mark(m)  BY <1>2, <1>4, <3>1, <3>4, StartsAre
    <3>8. QED  BY <3>4, <3>6, <3>7, <1>3
  <2>3. QED  BY <2>1, <2>2
<1>7. Meanings(U, H, TakenSyms(U)) \subseteq M
  <2>1. SUFFICES ASSUME NEW s \in Meanings(U, H, TakenSyms(U)) PROVE s \in M  OBVIOUS
  <2>2. TabSyms(m) = TakenSyms(U)  BY <1>1 DEF Drawn
  <2>3. PICK k \in 1 .. Len(m.table) : FuncAt(m, m.table[k].idx) = s  BY <1>1, <2>2, TableMeans
  <2>4. m.table[k].idx \in Mark(m)  BY <1>2, <1>4, RootsAre
  <2>5. QED  BY <2>3, <2>4, <1>3
<1>8. Origin(U, H, W) \subseteq M  BY <1>6, <1>7 DEF Origin
<1>9. M \subseteq Symbols
  <2>1. SUFFICES ASSUME NEW i \in Mark(m) PROVE FuncAt(m, i) \in Symbols  BY <1>3
  <2>2. i \in Numbers(m)  BY <1>4
  <2>3. m.fimp \in Seq(Symbols) /\ Ids(m) \in Seq(Symbols)  BY <1>2, ModuleFields, IdsOf
  <2>4. Range(m.fimp) \subseteq Symbols /\ Range(Ids(m)) \subseteq Symbols  BY <2>3, RangeOf
  <2>5. NFuncs(m) \in Nat /\ Len(m.fimp) \in Nat  BY <1>2, NFuncsIs, ModuleFields
  <2>6. i \in Int  BY <2>2, <2>5 DEF Numbers
  <2>7. i < Len(m.fimp) \/ i >= Len(m.fimp)  BY <2>5, <2>6
  <2>8. QED  BY <1>2, <2>2, <2>4, <2>7, FuncPlace
<1>10. ASSUME NEW s \in M, NEW t \in Callees(U, H, s) PROVE t \in M
  <2>1. s \in FunctionsOf(U)  BY <1>9, <1>10, CallersDefined
  <2>2. PICK i \in Mark(m) : s = FuncAt(m, i)  BY <1>3
  <2>3. PICK b : /\ b.id = FuncAt(m, i) /\ DrawnBody(U, W, b)
                 /\ \A c \in CallsOf(b) : Meaning(U, H, "func", c) \in M
    BY <2>1, <2>2, <1>5
  <2>4. b.id # StartWrapper  BY <1>1, <2>1, <2>2, <2>3, WrapperApart
  <2>5. PICK u \in U : \E f \in Range(Decls(u, "func")) : b.id = Symbol(u.name, f.name) /\ CallsOf(b) = BodySyms(u, f)
    BY <2>3, <2>4 DEF DrawnBody, BodyFrom
  <2>6. PICK f \in Range(Decls(u, "func")) : b.id = Symbol(u.name, f.name) /\ CallsOf(b) = BodySyms(u, f)  BY <2>5
  <2>7. u \in TranslationUnit  BY <1>1 DEF Program
  <2>8. CallsOf(b) = CallSyms(U, s)  BY <1>1, <2>2, <2>3, <2>6, <2>7, CallsOnce
  <2>9. PICK c \in CallSyms(U, s) : t = Meaning(U, H, "func", c)  BY <1>10 DEF Callees, Meanings
  <2>10. QED  BY <2>3, <2>8, <2>9
<1>11. Whence(U, H, M)  BY <1>10 DEF Whence
<1>12. QED  BY <1>1, <1>3, <1>8, <1>11, LiveLeast

\* The entries of t are those of s without the places in drop.
LeftOf(t, s, drop) ==
  /\ \A n \in 1 .. Len(t) : \E k \in 1 .. Len(s) : k - 1 \notin drop /\ t[n] = s[k]
                                                   /\ Nth(Staying(drop, Len(s)), k) = n
  /\ \A k \in 1 .. Len(s) : k - 1 \notin drop => \E n \in 1 .. Len(t) : t[n] = s[k]

\* What is left without the dropped places.
LEMMA WithoutEntries ==
  ASSUME NEW S, NEW s \in Seq(S), NEW drop, drop \subseteq 0 .. Len(s) - 1, NEW t, t = Without(s, drop)
  PROVE  LeftOf(t, s, drop)
<1>1. DOMAIN s = 1 .. Len(s)  BY Entries
<1>2. PICK K : K = Staying(drop, Len(s))  OBVIOUS
<1>3. t = Kept(s, K) /\ K \subseteq DOMAIN s  BY <1>1, <1>2 DEF Without, Staying
<1>4. /\ \A k \in K : Nth(K, k) \in 1 .. Len(t) /\ t[Nth(K, k)] = s[k]
      /\ \A n \in 1 .. Len(t) : \E k \in K : t[n] = s[k] /\ Nth(K, k) = n
  BY <1>3, KeptWorks
<1>5. \A k : k \in K <=> k \in 1 .. Len(s) /\ k - 1 \notin drop  BY <1>2 DEF Staying
<1>6. QED  BY <1>2, <1>4, <1>5 DEF LeftOf

\* Renumbering changes no name.
SameSyms(n, m) ==
  /\ n \in Modules /\ m \in Modules /\ Ids(n) = Ids(m) /\ Len(n.funcs) = Len(m.funcs)
  /\ \A k \in 1 .. Len(m.funcs) : n.funcs[k].id = m.funcs[k].id /\ CallsOf(n.funcs[k]) = CallsOf(m.funcs[k])
  /\ TabSyms(n) = TabSyms(m) /\ PubSyms(n) = PubSyms(m)

\* A body with the same name and the same calls is drawn from the same source.
LEMMA DrawnSame ==
  ASSUME NEW U, NEW W, NEW a, NEW b, a.id = b.id, CallsOf(a) = CallsOf(b), DrawnBody(U, W, b)
  PROVE  DrawnBody(U, W, a)
BY DEF DrawnBody, BodyFrom, WrapperFrom

\* A body with the same name and the same calls is compiled from the same function.
LEMMA FromSame ==
  ASSUME NEW U, NEW a, NEW b, a.id = b.id, CallsOf(a) = CallsOf(b), BodyFrom(U, b)
  PROVE  BodyFrom(U, a)
BY DEF BodyFrom

MovedTo(t, s, F, G, S) ==
  \A k \in 1 .. Len(s) :
    /\ t[k].id = s[k].id /\ t[k].argv = s[k].argv
    /\ \A q : q \in t[k].refs <=> \E r \in s[k].refs : q = Move(r, F, G, S)

\* Moving functions moves their references and nothing else.
LEMMA MovedFuncsTo ==
  ASSUME NEW F \in [Nat -> Nat], NEW G \in [Nat -> Nat], NEW S \in [Nat -> Nat],
         NEW s \in Seq(Bodies), NEW t, t = MovedFuncs(s, F, G, S)
  PROVE  MovedTo(t, s, F, G, S)
<1>1. /\ MovedFuncs(s, F, G, S) \in Seq(Bodies) /\ Len(MovedFuncs(s, F, G, S)) = Len(s)
      /\ \A k \in 1 .. Len(s) :
           /\ MovedFuncs(s, F, G, S)[k].id = s[k].id
           /\ MovedFuncs(s, F, G, S)[k].argv = s[k].argv
           /\ \A q : q \in MovedFuncs(s, F, G, S)[k].refs <=> \E r \in s[k].refs : q = Move(r, F, G, S)
  BY MovedFuncsWork
<1>2. \A k \in 1 .. Len(s) :
        /\ t[k].id = s[k].id /\ t[k].argv = s[k].argv
        /\ \A q : q \in t[k].refs <=> \E r \in s[k].refs : q = Move(r, F, G, S)
  BY <1>1
<1>3. QED  BY <1>2 DEF MovedTo

\* A moved reference keeps its name.
LEMMA MoveNames ==
  ASSUME NEW F, NEW G, NEW S
  PROVE  \A r \in Refs : Move(r, F, G, S).kind = r.kind /\ Move(r, F, G, S).sym = r.sym
BY MoveKeeps

\* Moving references keeps the names of the calls.
Naming(R) == {r.sym : r \in {q \in R : q.kind = "func"}}
MovedRefs(Q, R, F, G, S) == \A q : q \in Q <=> \E r \in R : q = Move(r, F, G, S)

\* Moved references have the names they had.
LEMMA NamesMoved ==
  ASSUME NEW F, NEW G, NEW S, NEW R, R \subseteq Refs, NEW Q, MovedRefs(Q, R, F, G, S)
  PROVE  Naming(Q) = Naming(R)
<1>1. \A r \in R : Move(r, F, G, S).kind = r.kind /\ Move(r, F, G, S).sym = r.sym
  BY MoveNames
<1>2. ASSUME NEW x \in Naming(Q) PROVE x \in Naming(R)
  <2>1. PICK q \in Q : q.kind = "func" /\ x = q.sym  BY DEF Naming
  <2>2. PICK r \in R : q = Move(r, F, G, S)  BY <2>1 DEF MovedRefs
  <2>3. r.kind = "func" /\ x = r.sym  BY <2>1, <2>2, <1>1
  <2>4. QED  BY <2>3 DEF Naming
<1>3. ASSUME NEW x \in Naming(R) PROVE x \in Naming(Q)
  <2>1. PICK r \in R : r.kind = "func" /\ x = r.sym  BY DEF Naming
  <2>2. PICK q : q = Move(r, F, G, S)  OBVIOUS
  <2>3. q \in Q  BY <2>2 DEF MovedRefs
  <2>4. q.kind = "func" /\ x = q.sym  BY <2>1, <2>2, <1>1
  <2>5. QED  BY <2>3, <2>4 DEF Naming
<1>4. QED  BY <1>2, <1>3

SameCalls(t, s) == \A k \in 1 .. Len(s) : t[k].id = s[k].id /\ CallsOf(t[k]) = CallsOf(s[k])

\* Moved functions have the calls they had.
LEMMA MovedCalls ==
  ASSUME NEW F \in [Nat -> Nat], NEW G \in [Nat -> Nat], NEW S \in [Nat -> Nat],
         NEW s \in Seq(Bodies), NEW t, t = MovedFuncs(s, F, G, S)
  PROVE  SameCalls(t, s)
<1>1. MovedTo(t, s, F, G, S)  BY MovedFuncsTo
<1>2. SUFFICES ASSUME NEW k \in 1 .. Len(s) PROVE t[k].id = s[k].id /\ CallsOf(t[k]) = CallsOf(s[k])
  BY DEF SameCalls
<1>3. t[k].id = s[k].id /\ \A q : q \in t[k].refs <=> \E r \in s[k].refs : q = Move(r, F, G, S)
  BY <1>1 DEF MovedTo
<1>4. s[k] \in Bodies  BY Entries
<1>5. PICK R, Q : R = s[k].refs /\ Q = t[k].refs  OBVIOUS
<1>6. R \subseteq Refs  BY <1>4, <1>5 DEF Bodies
<1>7. MovedRefs(Q, R, F, G, S)  BY <1>3, <1>5 DEF MovedRefs
<1>8. Naming(Q) = Naming(R)  BY <1>6, <1>7, NamesMoved
<1>9. QED  BY <1>3, <1>5, <1>8 DEF Naming, CallsOf

\* A renumbering changes no name.
LEMMA RenumberSyms ==
  ASSUME NEW m, NEW F, NEW G, NEW S, NEW fi, NEW gi, NEW n, Renumbers(n, m, F, G, S, fi, gi)
  PROVE  SameSyms(n, m)
<1>1. /\ m \in Modules /\ F \in [Nat -> Nat] /\ G \in [Nat -> Nat] /\ S \in [Nat -> Nat]
      /\ n = Renumber(m, F, G, S, fi, gi)
  BY DEF Renumbers
<1>2. n \in Modules /\ Ids(n) = Ids(m) /\ Len(n.funcs) = Len(m.funcs)
  BY RenumberWorks
<1>3. Len(n.exps) = Len(m.exps)
       /\ \A k \in 1 .. Len(m.exps) : n.exps[k].ref = Move(m.exps[k].ref, F, G, S)
  BY RenumberWorks
<1>4. Len(n.table) = Len(m.table)
       /\ \A k \in 1 .. Len(m.table) : n.table[k] = Move(m.table[k], F, G, S)
  BY RenumberWorks
<1>5. \A k \in 1 .. Len(m.funcs) : n.funcs[k].id = m.funcs[k].id /\ CallsOf(n.funcs[k]) = CallsOf(m.funcs[k])
  <2>1. PICK s, t : s = m.funcs /\ t = MovedFuncs(m.funcs, F, G, S)  OBVIOUS
  <2>2. n.funcs = t  BY <1>1, <2>1 DEF Renumber
  <2>3. s \in Seq(Bodies)  BY <1>1, <2>1, ModuleFields
  <2>4. t = MovedFuncs(s, F, G, S)  BY <2>1
  <2>5. SameCalls(t, s)  BY <1>1, <2>3, <2>4, MovedCalls
  <2>6. QED  BY <2>1, <2>2, <2>5 DEF SameCalls
<1>6. \A k \in 1 .. Len(m.exps) : n.exps[k].ref.kind = m.exps[k].ref.kind /\ n.exps[k].ref.sym = m.exps[k].ref.sym
  <2>1. SUFFICES ASSUME NEW k \in 1 .. Len(m.exps)
                 PROVE  n.exps[k].ref.kind = m.exps[k].ref.kind /\ n.exps[k].ref.sym = m.exps[k].ref.sym
    OBVIOUS
  <2>2. m.exps[k] \in Exps  BY <1>1, ModuleFields
  <2>3. m.exps[k].ref \in Refs  BY <2>2 DEF Exps
  <2>4. QED  BY <1>3, <2>3, MoveKeeps
<1>7. \A k \in 1 .. Len(m.table) : n.table[k].sym = m.table[k].sym
  <2>1. \A k \in 1 .. Len(m.table) : m.table[k] \in Refs  BY <1>1, ModuleFields
  <2>2. QED  BY <1>4, <2>1, MoveKeeps
<1>8. TabSyms(n) = TabSyms(m)  BY <1>4, <1>7 DEF TabSyms
<1>9. PubSyms(n) = PubSyms(m)  BY <1>3, <1>6 DEF PubSyms
<1>10. QED  BY <1>1, <1>2, <1>5, <1>8, <1>9 DEF SameSyms

\* A module with the same names, no further import and a start where there was one is drawn from the same sources.
LEMMA DrawnKept ==
  ASSUME NEW n, NEW m, SameSyms(n, m), NEW U, NEW W, NEW S, Drawn(m, U, W, S),
         n.start # {} <=> m.start # {}, Range(n.fimp) \subseteq Range(m.fimp)
  PROVE  Drawn(n, U, W, S)
<1>1. \A k \in 1 .. Len(n.funcs) : DrawnBody(U, W, n.funcs[k])
  <2>1. SUFFICES ASSUME NEW k \in 1 .. Len(n.funcs) PROVE DrawnBody(U, W, n.funcs[k])  OBVIOUS
  <2>2. PICK a, b : a = n.funcs[k] /\ b = m.funcs[k]  OBVIOUS
  <2>3. a.id = b.id /\ CallsOf(a) = CallsOf(b) /\ k \in 1 .. Len(m.funcs)  BY <2>2 DEF SameSyms
  <2>4. DrawnBody(U, W, b)  BY <2>2, <2>3 DEF Drawn
  <2>5. QED  BY <2>2, <2>3, <2>4, DrawnSame
<1>2. Ids(n) = Ids(m) /\ TabSyms(n) = TabSyms(m) /\ PubSyms(n) = PubSyms(m)  BY DEF SameSyms
<1>3. QED  BY <1>1, <1>2 DEF Drawn

\* The definitions that are left are those that are marked, each once.
KeptFuncs(p, m) ==
  /\ \A n \in 1 .. Len(p.funcs) : \E k \in 1 .. Len(m.funcs) :
       k - 1 + Len(m.fimp) \in Mark(m) /\ p.funcs[n] = m.funcs[k]
  /\ \A k \in 1 .. Len(m.funcs) : k - 1 + Len(m.fimp) \in Mark(m) =>
       \E n \in 1 .. Len(p.funcs) : p.funcs[n] = m.funcs[k]
  /\ OnceEach(Ids(m)) => OnceEach(Ids(p))

\* Trimming keeps the functions that are marked.
LEMMA TrimmedFuncs ==
  ASSUME NEW m, Whole(m), NEW p, p = Trimmed(m)
  PROVE  KeptFuncs(p, m)
<1>1. m \in Modules /\ p \in Modules /\ p.funcs = Without(m.funcs, Gone(m))  BY TrimmedIs DEF Whole
<1>2. PICK s, t, l, dead, gone : s = m.funcs /\ t = p.funcs /\ l = Len(m.fimp) /\ dead = Dead(m) /\ gone = Gone(m)
  OBVIOUS
<1>3. s \in Seq(Bodies) /\ t \in Seq(Bodies) /\ l \in Nat /\ t = Without(s, gone)  BY <1>1, <1>2, ModuleFields
<1>4. /\ \A d \in dead : d \in Nat /\ d >= l
      /\ gone = {d - l : d \in dead} /\ gone \subseteq 0 .. Len(s) - 1
      /\ \A i \in Mark(m) : i \notin dead
      /\ \A i \in Numbers(m) : i \notin dead /\ i >= l => i \in Mark(m)
  BY <1>2, DeadIs
<1>5. PICK n \in Nat : n = Len(s)  BY <1>3, Entries
<1>6. \A k \in 1 .. n : k - 1 + l \in Numbers(m) /\ k - 1 + l >= l
  <2>1. NFuncs(m) = l + n  BY <1>2, <1>5 DEF NFuncs
  <2>2. Numbers(m) = 0 .. (l + n) - 1  BY <2>1 DEF Numbers
  <2>3. QED  BY <2>2, <1>3
<1>7. \A k \in 1 .. n : k - 1 \notin gone <=> k - 1 + l \in Mark(m)
  <2>1. TAKE k \in 1 .. n
  <2>2. k - 1 \in gone <=> k - 1 + l \in dead
    <3>1. k - 1 \in gone <=> \E d \in dead : k - 1 = d - l  BY <1>4
    <3>2. \A d \in dead : k - 1 = d - l <=> d = k - 1 + l
      <4>1. \A d \in dead : d \in Nat  BY <1>4
      <4>2. k \in Nat  OBVIOUS
      <4>3. QED  BY <4>1, <4>2, <1>3
    <3>3. QED  BY <3>1, <3>2
  <2>3. QED  BY <2>2, <1>4, <1>6
<1>8. /\ \A x \in 1 .. Len(t) : \E k \in 1 .. Len(s) : k - 1 \notin gone /\ t[x] = s[k]
                                                        /\ Nth(Staying(gone, Len(s)), k) = x
      /\ \A k \in 1 .. Len(s) : k - 1 \notin gone => \E x \in 1 .. Len(t) : t[x] = s[k]
  <2>1. gone \subseteq 0 .. Len(s) - 1  BY <1>4
  <2>2. LeftOf(t, s, gone)  BY <2>1, <1>3, WithoutEntries
  <2>3. QED  BY <2>2 DEF LeftOf
<1>9. ASSUME OnceEach(Ids(m)) PROVE OnceEach(Ids(p))
  <2>1. PICK a, b : a = Ids(m) /\ b = Ids(p)  OBVIOUS
  <2>2. /\ Len(a) = Len(s) /\ Len(b) = Len(t)
        /\ \A k \in 1 .. Len(s) : a[k] = s[k].id
        /\ \A k \in 1 .. Len(t) : b[k] = t[k].id
    BY <1>1, <1>2, <2>1, IdsOf
  <2>3. SUFFICES ASSUME NEW i \in 1 .. Len(b), NEW j \in 1 .. Len(b), b[i] = b[j] PROVE i = j
    BY <2>1 DEF OnceEach
  <2>4. PICK x \in 1 .. Len(s) : t[i] = s[x] /\ Nth(Staying(gone, Len(s)), x) = i  BY <1>8, <2>2
  <2>5. PICK y \in 1 .. Len(s) : t[j] = s[y] /\ Nth(Staying(gone, Len(s)), y) = j  BY <1>8, <2>2
  <2>6. a[x] = a[y]  BY <2>2, <2>3, <2>4, <2>5
  <2>7. x = y  BY <2>1, <2>2, <2>6, <1>9 DEF OnceEach
  <2>8. QED  BY <2>4, <2>5, <2>7
<1>10. QED  BY <1>2, <1>5, <1>7, <1>8, <1>9 DEF KeptFuncs

\* A definition that is marked is one of the definitions of the module.
LEMMA MarkedPlace ==
  ASSUME NEW m, NEW U, NEW H, NEW W, Whichever(m, U, H, W), NEW i \in Mark(m),
         FuncAt(m, i) \in FunctionsOf(U) \cup {StartWrapper}
  PROVE  \E k \in 1 .. Len(m.funcs) : k - 1 + Len(m.fimp) \in Mark(m) /\ m.funcs[k].id = FuncAt(m, i)
<1>1. Whole(m) /\ m \in Modules /\ Program(U, H) /\ Apart(U) /\ Range(m.fimp) \subseteq FuncWants(U) \cup Range(SysProc)
  BY DEF Whichever, Linked, Whole, Drawn
<1>2. i \in Numbers(m)  BY <1>1, MarkWorks
<1>3. FuncAt(m, i) \notin Range(m.fimp)  BY <1>1, ImportsApart
<1>4. PICK l \in Nat : l = Len(m.fimp)  BY <1>1, ModuleFields, Entries
<1>5. i \in Nat  BY <1>2 DEF Numbers
<1>6. i >= l /\ i - l + 1 \in 1 .. Len(m.funcs) /\ FuncAt(m, i) = m.funcs[i - l + 1].id
  BY <1>1, <1>2, <1>3, <1>4, <1>5, FuncPlace
<1>7. PICK k : k = i - l + 1  OBVIOUS
<1>8. k - 1 + l = i  BY <1>4, <1>5, <1>7
<1>9. QED  BY <1>4, <1>6, <1>7, <1>8

\* Dead code elimination leaves the live functions, each once, as the sources have them.
LEMMA TrimmedDrawn ==
  ASSUME NEW m, NEW U, NEW H, NEW W, Whichever(m, U, H, W), NEW p, p = Trimmed(m)
  PROVE  Drawn(p, U, W, LiveIn(U, H, W) \cap FunctionsOf(U))
<1>1. /\ Whole(m) /\ m \in Modules /\ Program(U, H) /\ Apart(U) /\ Linked(m, U, H)
      /\ Drawn(m, U, W, FunctionsOf(U))
  BY DEF Whichever, Linked, Whole
<1>2. /\ p \in Modules /\ p.fimp = m.fimp /\ p.table = m.table /\ p.start = m.start
      /\ \A n \in 1 .. Len(p.exps) : \E k \in Alive(m) : p.exps[n] = m.exps[k]
  BY <1>1, TrimmedIs
<1>3. /\ \A n \in 1 .. Len(p.funcs) : \E k \in 1 .. Len(m.funcs) :
             k - 1 + Len(m.fimp) \in Mark(m) /\ p.funcs[n] = m.funcs[k]
      /\ \A k \in 1 .. Len(m.funcs) : k - 1 + Len(m.fimp) \in Mark(m) =>
           \E n \in 1 .. Len(p.funcs) : p.funcs[n] = m.funcs[k]
      /\ OnceEach(Ids(m)) => OnceEach(Ids(p))
  <2>1. KeptFuncs(p, m)  BY <1>1, TrimmedFuncs
  <2>2. QED  BY <2>1 DEF KeptFuncs
<1>4. OnceEach(Ids(p))  BY <1>1, <1>3 DEF Drawn
<1>5. /\ \A x : x \in Range(Ids(p)) <=> \E n \in 1 .. Len(p.funcs) : p.funcs[n].id = x
      /\ \A x : x \in Range(Ids(m)) <=> \E n \in 1 .. Len(m.funcs) : m.funcs[n].id = x
  <2>1. \A q \in Modules : \A x : x \in Range(Ids(q)) <=> \E n \in 1 .. Len(q.funcs) : q.funcs[n].id = x
    <3>1. TAKE q \in Modules
    <3>2. /\ Ids(q) \in Seq(Symbols) /\ Len(Ids(q)) = Len(q.funcs)
          /\ \A k \in 1 .. Len(q.funcs) : Ids(q)[k] = q.funcs[k].id
      BY IdsOf
    <3>3. PICK a : a = Ids(q)  OBVIOUS
    <3>4. \A x : x \in Range(a) <=> \E k \in 1 .. Len(a) : a[k] = x  BY <3>2, <3>3, RangeOf
    <3>5. QED  BY <3>2, <3>3, <3>4
  <2>2. QED  BY <2>1, <1>1, <1>2
<1>6. PICK l \in Nat : l = Len(m.fimp)  BY <1>1, ModuleFields, Entries
<1>7. ASSUME NEW x \in Range(Ids(p))
      PROVE  x \in (LiveIn(U, H, W) \cap FunctionsOf(U)) \cup Start(W)
  <2>1. PICK n \in 1 .. Len(p.funcs) : p.funcs[n].id = x  BY <1>5
  <2>2. PICK k \in 1 .. Len(m.funcs) : k - 1 + l \in Mark(m) /\ p.funcs[n] = m.funcs[k]  BY <1>3, <1>6, <2>1
  <2>3. PICK i : i = k - 1 + l  OBVIOUS
  <2>4. k \in Nat /\ i \in Numbers(m) /\ i \in Mark(m)  BY <1>1, <2>2, <2>3, MarkWorks
  <2>5. i >= l /\ i - l + 1 = k  BY <1>6, <2>2, <2>3, <2>4
  <2>6. FuncAt(m, i) = m.funcs[k].id  BY <1>1, <1>6, <2>4, <2>5, FuncPlace
  <2>7. ~(i < l)  BY <2>4, <2>5, <1>6 DEF Numbers
  <2>8. FuncAt(m, i) \in LiveIn(U, H, W) \cup Start(W)  BY <1>6, <2>4, <2>7, MarkedLive
  <2>9. x \in Range(Ids(m))  BY <1>5, <2>1, <2>2
  <2>10. x \in FunctionsOf(U) \cup Start(W)  BY <2>9, <1>1 DEF Drawn
  <2>11. QED  BY <2>1, <2>2, <2>6, <2>8, <2>10
<1>8. ASSUME NEW i \in Mark(m), FuncAt(m, i) \in FunctionsOf(U) \cup {StartWrapper}
      PROVE  FuncAt(m, i) \in Range(Ids(p))
  <2>1. PICK k \in 1 .. Len(m.funcs) : k - 1 + Len(m.fimp) \in Mark(m) /\ m.funcs[k].id = FuncAt(m, i)
    BY <1>8, MarkedPlace
  <2>2. PICK n \in 1 .. Len(p.funcs) : p.funcs[n] = m.funcs[k]  BY <1>3, <2>1
  <2>3. QED  BY <1>5, <2>1, <2>2
<1>9. ASSUME NEW x \in LiveIn(U, H, W) \cap FunctionsOf(U) PROVE x \in Range(Ids(p))
  <2>1. LiveIn(U, H, W) \subseteq {FuncAt(m, i) : i \in Mark(m)}  BY LiveMarked
  <2>2. PICK i \in Mark(m) : FuncAt(m, i) = x  BY <2>1
  <2>3. QED  BY <2>2, <1>8
<1>10. ASSUME NEW x \in Start(W) PROVE x \in Range(Ids(p))
  <2>1. W /\ x = StartWrapper  BY DEF Start
  <2>2. m.start # {}  BY <2>1, <1>1 DEF Drawn
  <2>3. PICK i \in m.start : TRUE  BY <2>2
  <2>4. FuncAt(m, i) = StartWrapper  BY <2>3, <1>1 DEF Linked
  <2>5. i \in Roots(m)  BY <2>2, <2>3 DEF Roots
  <2>6. i \in Mark(m)  BY <2>5, <1>1, MarkWorks
  <2>7. QED  BY <2>1, <2>4, <2>6, <1>8
<1>11. Range(Ids(p)) = (LiveIn(U, H, W) \cap FunctionsOf(U)) \cup Start(W)  BY <1>7, <1>9, <1>10
<1>12. \A n \in 1 .. Len(p.funcs) : DrawnBody(U, W, p.funcs[n])
  <2>1. \A k \in 1 .. Len(m.funcs) : DrawnBody(U, W, m.funcs[k])  BY <1>1 DEF Drawn
  <2>2. QED  BY <2>1, <1>3
<1>13. TabSyms(p) = TabSyms(m)  BY <1>2 DEF TabSyms
<1>14. PubSyms(p) \subseteq PubSyms(m)
  <2>1. DOMAIN m.exps = 1 .. Len(m.exps)  BY <1>1, ModuleFields, Entries
  <2>2. Alive(m) \subseteq 1 .. Len(m.exps)  BY <2>1 DEF Alive
  <2>3. \A n \in 1 .. Len(p.exps) : \E k \in 1 .. Len(m.exps) : p.exps[n] = m.exps[k]  BY <1>2, <2>2
  <2>4. QED  BY <2>3 DEF PubSyms
<1>15. QED  BY <1>1, <1>2, <1>4, <1>11, <1>12, <1>13, <1>14 DEF Drawn

\* Dead code removed, the functions left are those that are live.
LEMMA EliminatedDrawn ==
  ASSUME NEW m, NEW U, NEW H, NEW W, Whichever(m, U, H, W), NEW n, n = Eliminate(m)
  PROVE  Drawn(n, U, W, LiveIn(U, H, W) \cap FunctionsOf(U))
<1>1. Whole(m)  BY DEF Whichever, Linked
<1>2. PICK p, F, dead : Eliminates(m, n, p, F, dead)  BY <1>1, EliminatesIs
<1>3. p = Trimmed(m)  BY <1>2 DEF Eliminates
<1>4. PICK S, X, fi, gi : S = Same /\ X = LiveIn(U, H, W) \cap FunctionsOf(U) /\ fi = p.fimp /\ gi = p.gimp  OBVIOUS
<1>5. Drawn(p, U, W, X)  BY <1>3, <1>4, TrimmedDrawn
<1>6. Renumbers(n, p, F, S, S, fi, gi)  BY <1>2, <1>4 DEF Eliminates
<1>7. SameSyms(n, p)  BY <1>6, RenumberSyms
<1>8. n.fimp = fi /\ n.start = {F[i] : i \in p.start}  BY <1>6, RenumberWorks
<1>9. n.start # {} <=> p.start # {}  BY <1>8
<1>10. Range(n.fimp) \subseteq Range(p.fimp)  BY <1>8, <1>4
<1>11. Drawn(n, U, W, X)  BY <1>5, <1>7, <1>9, <1>10, DrawnKept
<1>12. QED  BY <1>4, <1>11

\* A phase that gives the functions and the globals new numbers, and may drop imports.
Renumbered(n, m) ==
  \E F, G, S, fi, gi : Renumbers(n, m, F, G, S, fi, gi) /\ Range(fi) \subseteq Range(m.fimp)

\* What a renumbering phase keeps.
LEMMA RenumberedIs ==
  ASSUME NEW n, NEW m, Renumbered(n, m)
  PROVE  /\ SameSyms(n, m) /\ n \in Modules /\ Range(n.fimp) \subseteq Range(m.fimp)
         /\ n.start # {} <=> m.start # {}
<1>1. PICK F, G, S, fi, gi : Renumbers(n, m, F, G, S, fi, gi) /\ Range(fi) \subseteq Range(m.fimp)
  BY DEF Renumbered
<1>2. SameSyms(n, m)  BY <1>1, RenumberSyms
<1>3. n \in Modules /\ n.fimp = fi /\ n.start = {F[i] : i \in m.start}  BY <1>1, RenumberWorks
<1>4. n.start # {} <=> m.start # {}  BY <1>3
<1>5. Range(n.fimp) \subseteq Range(m.fimp)  BY <1>1, <1>3
<1>6. QED  BY <1>2, <1>3, <1>4, <1>5

\* A renumbered module is drawn from the same sources.
LEMMA RenumberedDrawn ==
  ASSUME NEW n, NEW m, Renumbered(n, m), NEW U, NEW W, NEW S, Drawn(m, U, W, S)
  PROVE  Drawn(n, U, W, S)
BY RenumberedIs, DrawnKept

\* Dropping entries adds none.
LEMMA DroppedRange ==
  ASSUME NEW a \in Seq(Symbols), NEW drop, drop \subseteq 0 .. Len(a) - 1, NEW w, w = Without(a, drop)
  PROVE  w \in Seq(Symbols) /\ Range(w) \subseteq Range(a)
<1>1. w \in Seq(Symbols)  BY WithoutWorks
<1>2. ASSUME NEW x \in Range(w) PROVE x \in Range(a)
  <2>1. PICK i \in 0 .. Len(a) - 1 : i \notin drop /\ a[i + 1] = x
    <3>1. \A y \in Range(Without(a, drop)) : \E i \in 0 .. Len(a) - 1 : i \notin drop /\ a[i + 1] = y
      BY SpaceResolved
    <3>2. QED  BY <3>1, <1>2
  <2>2. PICK l \in Nat : l = Len(a)  BY RangeOf
  <2>3. i + 1 \in 1 .. l  BY <2>1, <2>2
  <2>4. QED  BY <2>1, <2>2, <2>3, RangeOf
<1>3. QED  BY <1>1, <1>2

\* Pruning the imports of globals is a renumbering.
LEMMA PruneGlobalsAgain ==
  ASSUME NEW m \in Modules, NEW rt, NEW n, n = PruneGlobalImports(m, rt)
  PROVE  Renumbered(n, m)
<1>1. PICK a, drop : a = m.gimp /\ drop = Unused(m, "glob", a, rt)  OBVIOUS
<1>2. PICK w : w = Without(a, drop)  OBVIOUS
<1>3. a \in Seq(Symbols) /\ m.fimp \in Seq(Symbols)  BY <1>1, ModuleFields
<1>4. drop \subseteq 0 .. Len(a) - 1  BY <1>1 DEF Unused
<1>5. w \in Seq(Symbols) /\ \A i \in Nat : NewNumber(drop, i) \in Nat  BY <1>2, <1>3, <1>4, WithoutWorks
<1>6. PICK G : G = [i \in Nat |-> NewNumber(drop, i)]  OBVIOUS
<1>7. G \in [Nat -> Nat]  BY <1>5, <1>6
<1>8. PICK S, fi : S = Same /\ fi = m.fimp  OBVIOUS
<1>9. n = Renumber(m, S, G, S, fi, w)  BY <1>1, <1>2, <1>6, <1>8, PruneGlobalsIs
<1>10. S \in [Nat -> Nat]  BY <1>8, SameIs
<1>11. Renumbers(n, m, S, G, S, fi, w)  BY <1>3, <1>5, <1>7, <1>8, <1>9, <1>10 DEF Renumbers
<1>12. QED  BY <1>8, <1>11 DEF Renumbered

\* Pruning the imports of functions is a renumbering.
LEMMA PruneFunctionsAgain ==
  ASSUME NEW m \in Modules, NEW rt, NEW n, n = PruneFunctionImports(m, rt)
  PROVE  Renumbered(n, m)
<1>1. PICK a, drop : a = m.fimp /\ drop = Unused(m, "func", a, rt)  OBVIOUS
<1>2. PICK w : w = Without(a, drop)  OBVIOUS
<1>3. a \in Seq(Symbols) /\ m.gimp \in Seq(Symbols)  BY <1>1, ModuleFields
<1>4. drop \subseteq 0 .. Len(a) - 1  BY <1>1 DEF Unused
<1>5. \A i \in Nat : NewNumber(drop, i) \in Nat  BY <1>3, <1>4, WithoutWorks
<1>6. w \in Seq(Symbols) /\ Range(w) \subseteq Range(a)  BY <1>2, <1>3, <1>4, DroppedRange
<1>7. PICK F : F = [i \in Nat |-> NewNumber(drop, i)]  OBVIOUS
<1>8. F \in [Nat -> Nat]  BY <1>5, <1>7
<1>9. PICK S, gi : S = Same /\ gi = m.gimp  OBVIOUS
<1>10. n = Renumber(m, F, S, S, w, gi)  BY <1>1, <1>2, <1>7, <1>9, PruneFunctionsIs
<1>11. S \in [Nat -> Nat]  BY <1>9, SameIs
<1>12. Renumbers(n, m, F, S, S, w, gi)  BY <1>3, <1>6, <1>8, <1>9, <1>10, <1>11 DEF Renumbers
<1>13. QED  BY <1>1, <1>6, <1>12 DEF Renumbered

\* Pruning leaves a module drawn from the same sources.
LEMMA PrunedDrawn ==
  ASSUME NEW m \in Modules, NEW rt, NEW n, n = PruneImports(m, rt), NEW U, NEW W, NEW S, Drawn(m, U, W, S)
  PROVE  Drawn(n, U, W, S)
<1>1. PICK p : p = PruneGlobalImports(m, rt)  OBVIOUS
<1>2. Renumbered(p, m)  BY <1>1, PruneGlobalsAgain
<1>3. Drawn(p, U, W, S) /\ p \in Modules  BY <1>2, RenumberedDrawn, RenumberedIs
<1>4. n = PruneFunctionImports(p, rt)  BY <1>1 DEF PruneImports
<1>5. Renumbered(n, p)  BY <1>3, <1>4, PruneFunctionsAgain
<1>6. QED  BY <1>3, <1>5, RenumberedDrawn

\* The module while it grows: the functions of U, once each, with the calls and the table of U.
Outlined(m, U) ==
  /\ OnceEach(Ids(m)) /\ \A k \in 1 .. Len(m.funcs) : BodyFrom(U, m.funcs[k])
  /\ TabSyms(m) = TakenSyms(U)

\* A module with the same names has the same outline.
LEMMA OutlinedKept ==
  ASSUME NEW n, NEW m, SameSyms(n, m), NEW U, Outlined(m, U)
  PROVE  Outlined(n, U)
<1>1. \A k \in 1 .. Len(n.funcs) : BodyFrom(U, n.funcs[k])
  <2>1. SUFFICES ASSUME NEW k \in 1 .. Len(n.funcs) PROVE BodyFrom(U, n.funcs[k])  OBVIOUS
  <2>2. PICK a, b : a = n.funcs[k] /\ b = m.funcs[k]  OBVIOUS
  <2>3. a.id = b.id /\ CallsOf(a) = CallsOf(b) /\ k \in 1 .. Len(m.funcs)  BY <2>2 DEF SameSyms
  <2>4. BodyFrom(U, b)  BY <2>2, <2>3 DEF Outlined
  <2>5. QED  BY <2>2, <2>3, <2>4, FromSame
<1>2. Ids(n) = Ids(m) /\ TabSyms(n) = TabSyms(m)  BY DEF SameSyms
<1>3. QED  BY <1>1, <1>2 DEF Outlined

\* Resolving the imports of globals is a renumbering.
LEMMA ResolveGlobalsAgain ==
  ASSUME NEW m, NEW U, NEW H, MergedFrom(m, U), Program(U, H), NEW n, n = ResolveGlobalImports(m, H)
  PROVE  Renumbered(n, m)
<1>1. m \in Modules  BY DEF MergedFrom, Whole
<1>2. PICK a, b : a = m.gimp /\ b = m.globs  OBVIOUS
<1>3. a \in Seq(Symbols) /\ b \in Seq(Symbols)  BY <1>1, <1>2, ModuleFields
<1>4. PICK drop : drop = Resolved(m, "glob", a, H)  OBVIOUS
<1>5. PICK G : G = [i \in Nat |-> ResolveNumber(m, "glob", a, drop, i)]  OBVIOUS
<1>6. PICK w : w = Without(a, drop)  OBVIOUS
<1>7. Resolving(m, U, H, "glob", a, b)  BY <1>2, GlobSpace
<1>8. /\ drop \subseteq 0 .. Len(a) - 1
      /\ \A i \in Nat : ResolveNumber(m, "glob", a, drop, i) \in Nat
  BY <1>4, <1>7, ResolveNumbers
<1>9. G \in [Nat -> Nat]  BY <1>5, <1>8
<1>10. w \in Seq(Symbols)  BY <1>3, <1>6, <1>8, WithoutWorks
<1>11. PICK S, fi : S = Same /\ fi = m.fimp  OBVIOUS
<1>12. n = Renumber(m, S, G, S, fi, w)  BY <1>1, <1>2, <1>4, <1>5, <1>6, <1>11, ResolveGlobalsIs
<1>13. S \in [Nat -> Nat] /\ fi \in Seq(Symbols)  BY <1>1, <1>11, SameIs, ModuleFields
<1>14. Renumbers(n, m, S, G, S, fi, w)  BY <1>1, <1>9, <1>10, <1>12, <1>13 DEF Renumbers
<1>15. QED  BY <1>11, <1>14 DEF Renumbered

\* Resolving the imports of functions is a renumbering.
LEMMA ResolveFunctionsAgain ==
  ASSUME NEW m, NEW U, NEW H, GlobsResolved(m, U, H), Program(U, H), NEW n, n = ResolveFunctionImports(m, H)
  PROVE  Renumbered(n, m)
<1>1. m \in Modules  BY DEF GlobsResolved, Whole
<1>2. PICK a, b : a = m.fimp /\ b = Ids(m)  OBVIOUS
<1>3. a \in Seq(Symbols)  BY <1>1, <1>2, ModuleFields
<1>4. PICK drop : drop = Resolved(m, "func", a, H)  OBVIOUS
<1>5. PICK F : F = [i \in Nat |-> ResolveNumber(m, "func", a, drop, i)]  OBVIOUS
<1>6. PICK w : w = Without(a, drop)  OBVIOUS
<1>7. Resolving(m, U, H, "func", a, b)  BY <1>2, FuncSpace
<1>8. /\ drop \subseteq 0 .. Len(a) - 1
      /\ \A i \in Nat : ResolveNumber(m, "func", a, drop, i) \in Nat
  BY <1>4, <1>7, ResolveNumbers
<1>9. F \in [Nat -> Nat]  BY <1>5, <1>8
<1>10. w \in Seq(Symbols) /\ Range(w) \subseteq Range(a)  BY <1>3, <1>6, <1>8, DroppedRange
<1>11. PICK S, gi : S = Same /\ gi = m.gimp  OBVIOUS
<1>12. n = Renumber(m, F, S, S, w, gi)  BY <1>1, <1>2, <1>4, <1>5, <1>6, <1>11, ResolveFunctionsIs
<1>13. S \in [Nat -> Nat] /\ gi \in Seq(Symbols)  BY <1>1, <1>11, SameIs, ModuleFields
<1>14. Renumbers(n, m, F, S, S, w, gi)  BY <1>1, <1>9, <1>10, <1>12, <1>13 DEF Renumbers
<1>15. QED  BY <1>2, <1>10, <1>14 DEF Renumbered

\* Resolution keeps the functions, their calls and the table.
LEMMA ResolvedOutlined ==
  ASSUME NEW m, NEW U, NEW H, MergedFrom(m, U), Program(U, H), Outlined(m, U), NEW n, n = ResolveImports(m, H)
  PROVE  Outlined(n, U)
<1>1. PICK g : g = ResolveGlobalImports(m, H)  OBVIOUS
<1>2. GlobsResolved(g, U, H)  BY <1>1, ResolveGlobalsWorks
<1>3. Renumbered(g, m)  BY <1>1, ResolveGlobalsAgain
<1>4. SameSyms(g, m)  BY <1>3, RenumberedIs
<1>5. Outlined(g, U)  BY <1>4, OutlinedKept
<1>6. n = ResolveFunctionImports(g, H)  BY <1>1 DEF ResolveImports
<1>7. Renumbered(n, g)  BY <1>2, <1>6, ResolveFunctionsAgain
<1>8. SameSyms(n, g)  BY <1>7, RenumberedIs
<1>9. QED  BY <1>5, <1>8, OutlinedKept

\* A use refers to a function by number only where it is a call.
LEMMA UseCalls ==
  ASSUME NEW tu, NEW y \in Use, NEW r
  PROVE  (r \in UseRefs(tu, y) /\ r.kind = "func") <=> (y.use = "call" /\ r = FuncRef(tu, y.name))
<1>1. y.use \in {"call", "addr", "obj"}  BY DEF Use
<1>2. \A k, i, s : Ref(k, i, s).kind = k  BY DEF Ref
<1>3. FuncRef(tu, y.name).kind = "func"  BY <1>2 DEF FuncRef
<1>4. CASE y.use = "call"
  <2>1. UseRefs(tu, y) = {FuncRef(tu, y.name)}  BY <1>4 DEF UseRefs
  <2>2. QED  BY <1>3, <1>4, <2>1
<1>5. CASE y.use = "addr"
  <2>1. PICK p, s : p = PositionOf(Slots(tu), y.name) /\ s = FuncSymbol(tu, y.name)  OBVIOUS
  <2>2. UseRefs(tu, y) = {Ref("slot", p, s)}  BY <1>5, <2>1 DEF UseRefs
  <2>3. QED  BY <1>2, <1>5, <2>2
<1>6. CASE y.use = "obj"
  <2>1. PICK g : g = Gimp(tu)  OBVIOUS
  <2>2. UseRefs(tu, y) = {Ref("glob", k - 1, g[k]) : k \in {j \in DOMAIN g : g[j].name = y.name}}
    BY <1>6, <2>1 DEF UseRefs
  <2>3. \A q \in UseRefs(tu, y) : q.kind = "glob"  BY <2>2, <1>2
  <2>4. QED  BY <1>6, <2>3
<1>7. QED  BY <1>1, <1>4, <1>5, <1>6

\* What a compiled body calls is what the function calls.
LEMMA BodyCalls ==
  ASSUME NEW u \in TranslationUnit, NEW f, f \in Range(Decls(u, "func"))
  PROVE  Body(u, f).id = Symbol(u.name, f.name) /\ CallsOf(Body(u, f)) = BodySyms(u, f)
<1>1. PICK s, R : s = f.uses /\ R = UNION {UseRefs(u, s[j]) : j \in DOMAIN s}  OBVIOUS
<1>2. Body(u, f).refs = R /\ Body(u, f).id = Symbol(u.name, f.name)  BY <1>1 DEF Body
<1>3. \A j \in DOMAIN s : s[j] \in Use
  <2>1. TAKE j \in DOMAIN s
  <2>2. PICK y : y = s[j]  OBVIOUS
  <2>3. y \in Range(f.uses)  BY <1>1, <2>2 DEF Range
  <2>4. y \in Use  BY <2>3, UsesAre
  <2>5. QED  BY <2>2, <2>4
<1>4. \A x : FuncRef(u, x).sym = FuncSymbol(u, x)  BY DEF FuncRef, Ref
<1>5. ASSUME NEW x \in CallsOf(Body(u, f)) PROVE x \in BodySyms(u, f)
  <2>1. PICK r \in R : r.kind = "func" /\ x = r.sym  BY <1>2 DEF CallsOf
  <2>2. PICK j \in DOMAIN s : r \in UseRefs(u, s[j])  BY <1>1
  <2>3. PICK y \in Use : y = s[j]  BY <1>3
  <2>4. y.use = "call" /\ r = FuncRef(u, y.name)  BY <2>1, <2>2, <2>3, UseCalls
  <2>5. y \in Range(f.uses)  BY <1>1, <2>3 DEF Range
  <2>6. x = FuncSymbol(u, y.name)  BY <2>1, <2>4, <1>4
  <2>7. QED  BY <2>4, <2>5, <2>6 DEF BodySyms
<1>6. ASSUME NEW x \in BodySyms(u, f) PROVE x \in CallsOf(Body(u, f))
  <2>1. PICK y \in Range(f.uses) : y.use = "call" /\ x = FuncSymbol(u, y.name)  BY DEF BodySyms
  <2>2. PICK j \in DOMAIN s : y = s[j]  BY <2>1, <1>1 DEF Range
  <2>3. y \in Use  BY <2>2, <1>3
  <2>4. PICK r : r = FuncRef(u, y.name)  OBVIOUS
  <2>5. r \in UseRefs(u, y) /\ r.kind = "func"  BY <2>1, <2>3, <2>4, UseCalls
  <2>6. r \in R  BY <2>2, <2>5, <1>1
  <2>7. x = r.sym  BY <2>1, <2>4, <1>4
  <2>8. QED  BY <2>5, <2>6, <2>7, <1>2 DEF CallsOf
<1>7. QED  BY <1>2, <1>5, <1>6

\* A compiled unit holds its functions, once each, with the calls and the table slots of the source.
LEMMA CompiledOutline ==
  ASSUME NEW u \in TranslationUnit, WellFormed(u), DefinesOnce(u), NEW c, c = Compile(u)
  PROVE  Outlined(c, {u}) /\ Range(Ids(c)) = {Symbol(u.name, x) : x \in Defined(u)}
<1>1. c \in Modules /\ c.table = TableOf(u) /\ c.funcs = BodiesOf(u) /\ Ids(c) = DefsOf(u)  BY CompileFields
<1>2. PICK f, b, d : f = Decls(u, "func") /\ b = BodiesOf(u) /\ d = DefsOf(u)  OBVIOUS
<1>3. b \in Seq(Bodies) /\ Len(b) = Len(f)  BY <1>2, BodiesWork
<1>4. f \in Seq(FunctionDef)  BY <1>2, DeclsAre
<1>5. DOMAIN f = 1 .. Len(f) /\ Len(f) \in Nat  BY <1>4, Entries
<1>6. b = [k \in 1 .. Len(f) |-> Body(u, f[k])]  BY <1>2, <1>5 DEF BodiesOf
<1>7. d = [k \in 1 .. Len(f) |-> Symbol(u.name, f[k].name)]  BY <1>2, <1>5 DEF DefsOf
<1>8. \A k \in 1 .. Len(b) : BodyFrom({u}, b[k])
  <2>1. TAKE k \in 1 .. Len(b)
  <2>2. k \in DOMAIN f  BY <1>3, <1>5
  <2>3. PICK g : g = f[k]  OBVIOUS
  <2>4. g \in Range(Decls(u, "func"))  BY <1>2, <2>2, <2>3 DEF Range
  <2>5. Body(u, g).id = Symbol(u.name, g.name) /\ CallsOf(Body(u, g)) = BodySyms(u, g)  BY <2>4, BodyCalls
  <2>6. b[k] = Body(u, g)  BY <1>3, <1>6, <2>3
  <2>7. QED  BY <2>4, <2>5, <2>6 DEF BodyFrom
<1>9. Len(d) = Len(f) /\ DOMAIN d = 1 .. Len(f) /\ \A k \in 1 .. Len(f) : d[k] = Symbol(u.name, f[k].name)
  <2>1. d \in Seq(Symbols) /\ Len(d) = Len(b)  BY <1>1, <1>2, IdsOf
  <2>2. QED  BY <2>1, <1>3, <1>7
<1>10. \A x, y : Symbol(u.name, x) = Symbol(u.name, y) => x = y  BY DEF Symbol
<1>11. OnceEach(d)
  <2>1. SUFFICES ASSUME NEW i \in 1 .. Len(d), NEW j \in 1 .. Len(d), d[i] = d[j] PROVE i = j
    BY DEF OnceEach
  <2>2. i \in DOMAIN f /\ j \in DOMAIN f  BY <1>5, <1>9
  <2>3. f[i].name = f[j].name  BY <2>1, <1>9, <1>10
  <2>4. QED  BY <2>2, <2>3, <1>2 DEF DefinesOnce
<1>12. Range(d) = {Symbol(u.name, x) : x \in Defined(u)}
  <2>1. \A x : x \in Defined(u) <=> \E k \in 1 .. Len(f) : f[k].name = x  BY <1>2, DeclNames
  <2>2. \A s : s \in Range(d) <=> \E k \in 1 .. Len(f) : s = Symbol(u.name, f[k].name)  BY <1>9 DEF Range
  <2>3. QED  BY <2>1, <2>2
<1>13. TabSyms(c) = TakenSyms({u})
  <2>1. PICK s, t : s = Slots(u) /\ t = TableOf(u)  OBVIOUS
  <2>2. t \in Seq(Refs) /\ Len(t) = Len(s) /\ \A k \in 1 .. Len(s) : t[k] = FuncRef(u, s[k])
    BY <2>1, TableWorks
  <2>3. s \in Seq(Text)  BY <2>1, TakenWorks
  <2>4. \A x : x \in Range(s) <=> \E k \in 1 .. Len(s) : s[k] = x  BY <2>3, RangeOf
  <2>5. \A x : FuncRef(u, x).sym = FuncSymbol(u, x)  BY DEF FuncRef, Ref
  <2>6. TabSyms(c) = {FuncSymbol(u, s[k]) : k \in 1 .. Len(s)}  BY <1>1, <2>1, <2>2, <2>5 DEF TabSyms
  <2>7. TakenSyms({u}) = {FuncSymbol(u, x) : x \in Range(s)}  BY <2>1 DEF TakenSyms
  <2>8. QED  BY <2>4, <2>6, <2>7
<1>14. QED  BY <1>1, <1>2, <1>8, <1>11, <1>12, <1>13 DEF Outlined

\* The names in the table.
LEMMA TabIs ==
  ASSUME NEW m \in Modules
  PROVE  TabSyms(m) = {q.sym : q \in Range(m.table)}
<1>1. PICK t \in Seq(Refs) : t = m.table  BY ModuleFields
<1>2. \A q : q \in Range(t) <=> \E k \in 1 .. Len(t) : t[k] = q  BY RangeOf
<1>3. \A x : x \in TabSyms(m) <=> \E k \in 1 .. Len(t) : x = t[k].sym  BY <1>1 DEF TabSyms
<1>4. QED  BY <1>1, <1>2, <1>3

\* A merge puts the functions of the second module after those of the first.
LEMMA JoinedFuncs ==
  ASSUME NEW fi, NEW gi, NEW a, NEW b, NEW gl
  PROVE  Joined(fi, gi, a, b, gl).funcs = Cat(a.funcs, b.funcs)
<1>1. PICK fa, fb, ea, eb, ta, tb : /\ fa = a.funcs /\ fb = b.funcs /\ ea = a.exps /\ eb = b.exps
                                    /\ ta = a.table /\ tb = b.table
  OBVIOUS
<1>2. PICK f, e, t : f = fa \o fb /\ e = ea \o eb /\ t = ta \o tb  OBVIOUS
<1>3. Joined(fi, gi, a, b, gl)
        = [fimp |-> fi, gimp |-> gi, funcs |-> f, globs |-> gl, exps |-> e, table |-> t, start |-> a.start]
  BY <1>1, <1>2 DEF Joined
<1>4. Joined(fi, gi, a, b, gl).funcs = f  BY <1>3
<1>5. f = Cat(a.funcs, b.funcs)  BY <1>1, <1>2 DEF Cat
<1>6. QED  BY <1>4, <1>5

\* A body compiled from one of few units is compiled from one of more.
LEMMA FromMore ==
  ASSUME NEW U, NEW V, U \subseteq V, NEW b, BodyFrom(U, b)
  PROVE  BodyFrom(V, b)
BY DEF BodyFrom

\* Two outlines side by side.
LEMMA JoinedOutline ==
  ASSUME NEW n \in Modules, NEW a \in Modules, NEW b \in Modules, NEW U, NEW V, Outlined(a, U), Outlined(b, V),
         n.funcs = Cat(a.funcs, b.funcs), n.table = Cat(a.table, b.table), Ids(n) = Ids(a) \o Ids(b),
         Range(Ids(a)) \cap Range(Ids(b)) = {}
  PROVE  Outlined(n, U \cup V)
<1>1. PICK s, t, r : s = a.funcs /\ t = b.funcs /\ r = n.funcs  OBVIOUS
<1>2. s \in Seq(Bodies) /\ t \in Seq(Bodies) /\ r = s \o t
  <2>1. r = Cat(s, t)  BY <1>1
  <2>2. r = s \o t  BY <2>1 DEF Cat
  <2>3. QED  BY <2>2, <1>1, ModuleFields
<1>3. \A k \in 1 .. Len(r) : BodyFrom(U \cup V, r[k])
  <2>1. TAKE k \in 1 .. Len(r)
  <2>2. /\ Len(r) = Len(s) + Len(t)
        /\ \A i \in 1 .. Len(s) + Len(t) :
              \/ i \in 1 .. Len(s) /\ r[i] = s[i]
              \/ \E j \in 1 .. Len(t) : i = Len(s) + j /\ r[i] = t[j]
    BY <1>2, ConcatAt
  <2>3. CASE k \in 1 .. Len(s) /\ r[k] = s[k]
    <3>1. BodyFrom(U, s[k])  BY <1>1, <2>3 DEF Outlined
    <3>2. QED  BY <2>3, <3>1, FromMore
  <2>4. CASE \E j \in 1 .. Len(t) : k = Len(s) + j /\ r[k] = t[j]
    <3>1. PICK j \in 1 .. Len(t) : r[k] = t[j]  BY <2>4
    <3>2. BodyFrom(V, t[j])  BY <1>1 DEF Outlined
    <3>3. QED  BY <3>1, <3>2, FromMore
  <2>5. QED  BY <2>2, <2>3, <2>4
<1>4. OnceEach(Ids(n))
  <2>1. PICK x, y, z : x = Ids(a) /\ y = Ids(b) /\ z = Ids(n)  OBVIOUS
  <2>2. x \in Seq(Symbols) /\ y \in Seq(Symbols) /\ z = x \o y  BY <2>1, IdsOf
  <2>3. /\ Len(z) = Len(x) + Len(y)
        /\ \A i \in 1 .. Len(x) + Len(y) :
              \/ i \in 1 .. Len(x) /\ z[i] = x[i]
              \/ \E j \in 1 .. Len(y) : i = Len(x) + j /\ z[i] = y[j]
    BY <2>2, ConcatAt
  <2>4. (\A k \in 1 .. Len(x) : x[k] \in Range(x)) /\ (\A k \in 1 .. Len(y) : y[k] \in Range(y))
    BY <2>2, RangeOf
  <2>5. OnceEach(x) /\ OnceEach(y) /\ Range(x) \cap Range(y) = {}  BY <2>1 DEF Outlined
  <2>6. SUFFICES ASSUME NEW i \in 1 .. Len(z), NEW j \in 1 .. Len(z), z[i] = z[j] PROVE i = j
    BY <2>1 DEF OnceEach
  <2>7. /\ (i \in 1 .. Len(x) /\ z[i] = x[i]) \/ \E k \in 1 .. Len(y) : i = Len(x) + k /\ z[i] = y[k]
        /\ (j \in 1 .. Len(x) /\ z[j] = x[j]) \/ \E k \in 1 .. Len(y) : j = Len(x) + k /\ z[j] = y[k]
    BY <2>3
  <2>8. QED  BY <2>4, <2>5, <2>6, <2>7 DEF OnceEach
<1>5. TabSyms(n) = TakenSyms(U \cup V)
  <2>1. PICK x, y, z : x = a.table /\ y = b.table /\ z = n.table  OBVIOUS
  <2>a. z = Cat(x, y)  BY <2>1
  <2>b. z = x \o y  BY <2>a DEF Cat
  <2>2. x \in Seq(Refs) /\ y \in Seq(Refs) /\ z \in Seq(Refs) /\ z = x \o y  BY <2>1, <2>b, ModuleFields
  <2>3. Range(z) = Range(x) \cup Range(y)  BY <2>2, ConcatRange
  <2>5. TabSyms(a) = {q.sym : q \in Range(x)}  BY <2>1, TabIs
  <2>6. TabSyms(b) = {q.sym : q \in Range(y)}  BY <2>1, TabIs
  <2>7. TabSyms(n) = {q.sym : q \in Range(z)}  BY <2>1, TabIs
  <2>8. TabSyms(n) = TabSyms(a) \cup TabSyms(b)  BY <2>3, <2>5, <2>6, <2>7
  <2>9. TakenSyms(U \cup V) = TakenSyms(U) \cup TakenSyms(V)  BY DEF TakenSyms
  <2>10. QED  BY <2>8, <2>9 DEF Outlined
<1>6. QED  BY <1>1, <1>3, <1>4, <1>5 DEF Outlined

\* A merge keeps the outline.
LEMMA MergedOutline ==
  ASSUME NEW a \in Modules, NEW b \in Modules, NEW n, n = MergeOne(a, b), NEW U, NEW V, Outlined(a, U), Outlined(b, V),
         Range(Ids(a)) \cap Range(Ids(b)) = {}
  PROVE  Outlined(n, U \cup V)
<1>1. PICK fi, gi, F, G, H, J, K : MergesBy(a, b, n, fi, gi, F, G, H, J, K)  BY MergeParts
<1>2. PICK S, o, w, gl : /\ S = Same /\ gl = a.globs \o b.globs
                         /\ o = Renumber(a, F, G, S, a.fimp, a.gimp) /\ w = Renumber(b, H, J, K, b.fimp, b.gimp)
  OBVIOUS
<1>3. /\ fi \in Seq(Symbols) /\ gi \in Seq(Symbols)
      /\ F \in [Nat -> Nat] /\ G \in [Nat -> Nat] /\ H \in [Nat -> Nat] /\ J \in [Nat -> Nat] /\ K \in [Nat -> Nat]
      /\ S \in [Nat -> Nat] /\ n = Joined(fi, gi, o, w, gl)
  BY <1>1, <1>2 DEF MergesBy
<1>4. /\ a.fimp \in Seq(Symbols) /\ a.gimp \in Seq(Symbols) /\ b.fimp \in Seq(Symbols) /\ b.gimp \in Seq(Symbols)
      /\ a.globs \in Seq(Symbols) /\ b.globs \in Seq(Symbols)
  BY ModuleFields
<1>5. gl \in Seq(Symbols)  BY <1>2, <1>4
<1>6. Renumbers(o, a, F, G, S, a.fimp, a.gimp)  BY <1>2, <1>3, <1>4 DEF Renumbers
<1>7. Renumbers(w, b, H, J, K, b.fimp, b.gimp)  BY <1>2, <1>3, <1>4 DEF Renumbers
<1>8. SameSyms(o, a) /\ SameSyms(w, b)  BY <1>6, <1>7, RenumberSyms
<1>9. Outlined(o, U) /\ Outlined(w, V)  BY <1>8, OutlinedKept
<1>10. o \in Modules /\ w \in Modules /\ Ids(o) = Ids(a) /\ Ids(w) = Ids(b)  BY <1>8 DEF SameSyms
<1>11. JoinedFrom(n, fi, gi, o, w, gl)  BY <1>3, <1>5, <1>10 DEF JoinedFrom
<1>12. n \in Modules /\ n.table = Cat(o.table, w.table) /\ Ids(n) = Ids(o) \o Ids(w)  BY <1>11, JoinedIs
<1>13. n.funcs = Cat(o.funcs, w.funcs)
  <2>1. n = Joined(fi, gi, o, w, gl)  BY <1>3
  <2>2. Joined(fi, gi, o, w, gl).funcs = Cat(o.funcs, w.funcs)  BY JoinedFuncs
  <2>3. QED  BY <2>1, <2>2
<1>15. Range(Ids(o)) \cap Range(Ids(w)) = {}  BY <1>10
<1>16. QED  BY <1>9, <1>10, <1>12, <1>13, <1>15, JoinedOutline

\* An archive that is open is one of the inputs, and the only one at that place.
LEMMA OpenedAt ==
  ASSUME NEW inputs \in Seq(Input), NEW o, o = Kept(inputs, Archives(inputs)), NEW n \in 1 .. Len(o)
  PROVE  \E k \in Archives(inputs) : o[n] = inputs[k] /\ Nth(Archives(inputs), k) = n
<1>1. PICK A : A = Archives(inputs)  OBVIOUS
<1>2. A \subseteq DOMAIN inputs  BY <1>1 DEF Archives
<1>3. \A x \in 1 .. Len(Kept(inputs, A)) : \E k \in A : Kept(inputs, A)[x] = inputs[k] /\ Nth(A, k) = x
  BY <1>2, KeptWorks
<1>4. QED  BY <1>1, <1>3

\* The scan has not run past the inputs, and has pulled members of open archives.
Opening(p) == \E a \in 1 .. Len(OpenedInputs) : \E i \in DOMAIN OpenedInputs[a].members : p = <<a, i>>
Scanned == next <= Len(job.inputs) + 1 /\ \A p \in pulled : Opening(p)

\* An opened archive is one of the job's archives.
LEMMA MemberAt ==
  ASSUME ScanTyped, NEW a \in 1 .. Len(OpenedInputs)
  PROVE  \E k \in Archives(job.inputs) : OpenedInputs[a] = job.inputs[k] /\ Nth(Archives(job.inputs), k) = a
<1>1. PICK i, o : i = job.inputs /\ o = OpenedInputs  OBVIOUS
<1>2. i \in Seq(Input)  BY <1>1, JobIs DEF ScanTyped
<1>3. o = Kept(i, Archives(i))  BY <1>1 DEF OpenedInputs, Archives
<1>4. \A n \in 1 .. Len(o) : \E k \in Archives(i) : o[n] = i[k] /\ Nth(Archives(i), k) = n
  BY <1>2, <1>3, OpenedAt
<1>5. QED  BY <1>1, <1>4

\* The member that is scanned is one of an open archive.
LEMMA ScannedAt ==
  ASSUME ScanTyped, pc = "member", memb \in DOMAIN Pull!Members
  PROVE  arch \in 1 .. Len(OpenedInputs) /\ memb \in DOMAIN OpenedInputs[arch].members
<1>1. job.inputs \in Seq(Input)  BY JobIs DEF ScanTyped
<1>2. PICK i, o, a, m : i = job.inputs /\ o = OpenedInputs /\ a = arch /\ m = memb  OBVIOUS
<1>3. o = Kept(i, Archives(i))  BY <1>2 DEF OpenedInputs, Archives
<1>4. i \in Seq(Input)  BY <1>1, <1>2
<1>5. o \in Seq(Input) /\ \A n \in 1 .. Len(o) : \E k \in Archives(i) : o[n] = i[k]  BY <1>3, <1>4, OpenedAre
<1>6. a \in 1 .. Len(o) /\ archives[a] = AbstractInput(o[a])
  <2>1. a \in DOMAIN archives /\ archives \in Seq(Abstracted)  BY <1>2 DEF ScanTyped
  <2>2. a \in 1 .. Len(archives)  BY <2>1
  <2>3. QED  BY <2>2, <1>2 DEF ScanTyped
<1>7. PICK k \in Archives(i) : o[a] = i[k]  BY <1>5, <1>6
<1>8. k \in DOMAIN i /\ i[k].kind = "ar"  BY DEF Archives
<1>9. PICK x \in Input : x = i[k] /\ x.kind = "ar"  BY <1>4, <1>8
<1>10. archives[a] = AbstractInput(x)  BY <1>6, <1>7, <1>9
<1>11. m \in DOMAIN AbstractInput(x).members  BY <1>2, <1>10 DEF Pull!Members
<1>12. m \in DOMAIN x.members  BY <1>9, <1>11, InputIs
<1>13. QED  BY <1>2, <1>6, <1>7, <1>9, <1>12

\* Where a unit comes from.
Since(p) ==
  \/ job.inputs[p[1]].kind = "tu" /\ p[1] < next
  \/ job.inputs[p[1]].kind = "ar" /\ <<Nth(Archives(job.inputs), p[1]), p[2]>> \in pulled

\* The place of a translation unit given on its own.
LEMMA TUPlace ==
  ASSUME NEW k \in DOMAIN job.inputs, job.inputs[k].kind = "tu"
  PROVE  <<k, 1>> \in Places(job.inputs) /\ UnitAt(job.inputs, <<k, 1>>) = job.inputs[k].tu
BY DEF Places, UnitAt

\* The place of an archive's member.
LEMMA MemberPlace ==
  ASSUME NEW k \in DOMAIN job.inputs, job.inputs[k].kind = "ar", NEW i \in DOMAIN job.inputs[k].members
  PROVE  <<k, i>> \in Places(job.inputs) /\ UnitAt(job.inputs, <<k, i>>) = job.inputs[k].members[i]
BY DEF Places, UnitAt

\* Each unit merged so far comes from a place the scan has been at.
LEMMA UnitPlace ==
  ASSUME ScanTyped, Scanned, NEW u \in Units
  PROVE  \E p \in Places(job.inputs) : UnitAt(job.inputs, p) = u /\ Since(p)
<1>1. CASE \E k \in {j \in 1 .. next - 1 : job.inputs[j].kind = "tu"} : u = job.inputs[k].tu
  <2>1. PICK k \in 1 .. next - 1 : job.inputs[k].kind = "tu" /\ u = job.inputs[k].tu  BY <1>1
  <2>2. job.inputs \in Seq(Input)  BY JobIs DEF ScanTyped
  <2>3. PICK l \in Nat : l = Len(job.inputs) /\ DOMAIN job.inputs = 1 .. l  BY <2>2
  <2>4. next \in Nat /\ next <= l + 1  BY <2>3 DEF ScanTyped, Scanned
  <2>5. k \in DOMAIN job.inputs /\ k < next  BY <2>3, <2>4
  <2>6. <<k, 1>> \in Places(job.inputs) /\ UnitAt(job.inputs, <<k, 1>>) = job.inputs[k].tu  BY <2>1, <2>5, TUPlace
  <2>7. Since(<<k, 1>>)  BY <2>1, <2>5 DEF Since
  <2>8. QED  BY <2>1, <2>6, <2>7
<1>2. CASE \E p \in pulled : u = MemberTU(p)
  <2>1. PICK p \in pulled : u = MemberTU(p)  BY <1>2
  <2>2. PICK a \in 1 .. Len(OpenedInputs) : \E i \in DOMAIN OpenedInputs[a].members : p = <<a, i>>
    BY <2>1 DEF Scanned, Opening
  <2>3. PICK i \in DOMAIN OpenedInputs[a].members : p = <<a, i>>  BY <2>2
  <2>4. PICK k \in Archives(job.inputs) : OpenedInputs[a] = job.inputs[k] /\ Nth(Archives(job.inputs), k) = a
    BY MemberAt
  <2>5. k \in DOMAIN job.inputs /\ job.inputs[k].kind = "ar"  BY DEF Archives
  <2>6. i \in DOMAIN job.inputs[k].members  BY <2>3, <2>4
  <2>7. <<k, i>> \in Places(job.inputs) /\ UnitAt(job.inputs, <<k, i>>) = job.inputs[k].members[i]
    BY <2>5, <2>6, MemberPlace
  <2>8. u = OpenedInputs[a].members[i]  BY <2>1, <2>3 DEF MemberTU
  <2>9. Since(<<k, i>>)  BY <2>1, <2>3, <2>4, <2>5 DEF Since
  <2>10. QED  BY <2>4, <2>7, <2>8, <2>9
<1>3. QED  BY <1>1, <1>2 DEF Units

PlacesApart(inputs) ==
  \A p, q \in Places(inputs) : UnitAt(inputs, p).name = UnitAt(inputs, q).name => p = q
Fit(u) == /\ u.name \notin {"sys_proc", "crt0"} /\ DefinesOnce(u)
          /\ \A p \in Range(Decls(u, "proto")) : p.mod # "crt0"

\* What NamesAssumption says of the job.
LEMMA JobNames ==
  ASSUME ScanTyped
  PROVE  PlacesApart(job.inputs) /\ \A u \in SourceUnits(job.inputs) : Fit(u)
<1>1. \A j \in Jobs : PlacesApart(j.inputs) /\ \A u \in SourceUnits(j.inputs) : Fit(u)
  BY NamesAssumption DEF PlacesApart, Fit
<1>2. QED  BY <1>1 DEF ScanTyped

\* The units are told apart by their names.
LEMMA UnitsApart ==
  ASSUME ScanTyped, Scanned
  PROVE  Apart(Units)
<1>1. ASSUME NEW u \in Units, NEW v \in Units, u.name = v.name PROVE u = v
  <2>1. PICK p \in Places(job.inputs) : UnitAt(job.inputs, p) = u  BY UnitPlace
  <2>2. PICK q \in Places(job.inputs) : UnitAt(job.inputs, q) = v  BY UnitPlace
  <2>3. UnitAt(job.inputs, p).name = UnitAt(job.inputs, q).name  BY <2>1, <2>2, <1>1
  <2>6. PlacesApart(job.inputs)  BY JobNames
  <2>5. p = q  BY <2>3, <2>6 DEF PlacesApart
  <2>4. QED  BY <2>1, <2>2, <2>5
<1>2. Units \subseteq SourceUnits(job.inputs)  BY DEF ScanTyped
<1>3. \A u \in Units : /\ u.name \notin {"sys_proc", "crt0"} /\ DefinesOnce(u)
                       /\ \A p \in Range(Decls(u, "proto")) : p.mod # "crt0"
  <2>3. \A u \in SourceUnits(job.inputs) : Fit(u)  BY JobNames
  <2>1. \A u \in Units : Fit(u)  BY <1>2, <2>3
  <2>2. QED  BY <2>1 DEF Fit
<1>4. QED  BY <1>1, <1>3 DEF Apart

\* A unit that is merged is new.
LEMMA NewAt ==
  ASSUME ScanTyped, Scanned, NEW p \in Places(job.inputs), ~Since(p), NEW u \in Units
  PROVE  u.name # UnitAt(job.inputs, p).name
<1>1. PICK q \in Places(job.inputs) : UnitAt(job.inputs, q) = u /\ Since(q)  BY UnitPlace
<1>2. SUFFICES ASSUME u.name = UnitAt(job.inputs, p).name PROVE FALSE  OBVIOUS
<1>3. UnitAt(job.inputs, p).name = UnitAt(job.inputs, q).name  BY <1>1, <1>2
<1>6. PlacesApart(job.inputs)  BY JobNames
<1>4. p = q  BY <1>3, <1>6 DEF PlacesApart
<1>5. QED  BY <1>1, <1>4

\* The translation unit that is merged next has a name no merged unit has.
LEMMA NewTU ==
  ASSUME ScanTyped, Scanned, next \in DOMAIN job.inputs, job.inputs[next].kind = "tu", NEW u \in Units
  PROVE  u.name # job.inputs[next].tu.name
<1>1. PICK k \in DOMAIN job.inputs : k = next  OBVIOUS
<1>2. PICK p : p = <<k, 1>>  OBVIOUS
<1>3. p \in Places(job.inputs) /\ UnitAt(job.inputs, p) = job.inputs[k].tu  BY <1>1, <1>2, TUPlace
<1>4. next \in Nat  BY DEF ScanTyped
<1>5. p[1] = next /\ ~(next < next)  BY <1>1, <1>2, <1>4
<1>6. job.inputs[p[1]].kind = "tu"  BY <1>5
<1>7. ~Since(p)  BY <1>5, <1>6 DEF Since
<1>8. QED  BY <1>1, <1>3, <1>7, NewAt

\* The member that is pulled next has a name no merged unit has.
LEMMA NewMember ==
  ASSUME ScanTyped, Scanned, pc = "member", memb \in DOMAIN Pull!Members, <<arch, memb>> \notin pulled, NEW u \in Units
  PROVE  u.name # MemberTU(<<arch, memb>>).name
<1>1. arch \in 1 .. Len(OpenedInputs) /\ memb \in DOMAIN OpenedInputs[arch].members  BY ScannedAt
<1>2. PICK a, i : a = arch /\ i = memb  OBVIOUS
<1>3. PICK k \in Archives(job.inputs) : OpenedInputs[a] = job.inputs[k] /\ Nth(Archives(job.inputs), k) = a
  BY <1>1, <1>2, MemberAt
<1>4. k \in DOMAIN job.inputs /\ job.inputs[k].kind = "ar" /\ i \in DOMAIN job.inputs[k].members
  BY <1>1, <1>2, <1>3 DEF Archives
<1>5. PICK p : p = <<k, i>>  OBVIOUS
<1>6. p \in Places(job.inputs) /\ UnitAt(job.inputs, p) = job.inputs[k].members[i]  BY <1>4, <1>5, MemberPlace
<1>7. p[1] = k /\ p[2] = i  BY <1>5
<1>8. ~Since(p)  BY <1>2, <1>3, <1>4, <1>7 DEF Since
<1>9. MemberTU(<<arch, memb>>) = job.inputs[k].members[i]  BY <1>2, <1>3 DEF MemberTU
<1>10. QED  BY <1>6, <1>8, <1>9, NewAt

OutlineInv == Scanned /\ (phase \in {"resolve", "crt0"} => Outlined(out, Units))

\* The empty module is the outline of no units.
LEMMA EmptyOutline == Outlined(EmptyModule, {})
<1>1. PICK m : m = EmptyModule  OBVIOUS
<1>2. m.funcs = << >> /\ m.table = << >>  BY <1>1 DEF EmptyModule
<1>3. Ids(m) = << >>  BY <1>2 DEF Ids
<1>4. 1 .. Len(<< >>) = {}  OBVIOUS
<1>5. OnceEach(Ids(m))  BY <1>3, <1>4 DEF OnceEach
<1>6. TabSyms(m) = {}  BY <1>2, <1>4 DEF TabSyms
<1>7. TakenSyms({}) = {}  BY DEF TakenSyms
<1>8. \A k \in 1 .. Len(m.funcs) : BodyFrom({}, m.funcs[k])  BY <1>2, <1>4
<1>9. QED  BY <1>1, <1>5, <1>6, <1>7, <1>8 DEF Outlined

\* OutlineInv holds initially.
LEMMA OutlineInit == Init => OutlineInv
<1>1. SUFFICES ASSUME Init PROVE OutlineInv  OBVIOUS
<1>2. out = EmptyModule /\ Pull!Start /\ job \in Jobs  BY <1>1, Zenon DEF Init
<1>3. next = 1 /\ pulled = {}  BY <1>2, Zenon DEF Pull!Start
<1>4. Units = {}  BY <1>3 DEF Units
<1>5. job.inputs \in Seq(Input)  BY <1>2, JobIs
<1>6. PICK l \in Nat : l = Len(job.inputs)  BY <1>5
<1>7. next <= l + 1  BY <1>3
<1>8. Scanned  BY <1>3, <1>6, <1>7 DEF Scanned
<1>9. Outlined(out, Units)  BY <1>2, <1>4, EmptyOutline
<1>10. QED  BY <1>8, <1>9 DEF OutlineInv

\* A new unit keeps the outline.
LEMMA OutlineUnit ==
  ASSUME ScanTyped, MergeInv, phase = "resolve", Outlined(out, Units),
         NEW tu \in SourceUnits(job.inputs), \A u \in Units : u.name # tu.name, NEW c, c = Compile(tu),
         NEW n, n = MergeOne(out, c)
  PROVE  Outlined(n, Units \cup {tu})
<1>1. job.inputs \in Seq(Input) /\ Linkable(SourceUnits(job.inputs))  BY JobIs DEF ScanTyped
<1>2. tu \in TranslationUnit /\ WellFormed(tu) /\ DefinesOnce(tu)
  <2>1. tu \in TranslationUnit  BY <1>1, UnitsTyped
  <2>2. WellFormed(tu)  BY <1>1 DEF Linkable
  <2>3. Fit(tu)  BY JobNames
  <2>4. QED  BY <2>1, <2>2, <2>3 DEF Fit
<1>3. c \in Modules  BY <1>2, CompileFields
<1>4. Outlined(c, {tu}) /\ Range(Ids(c)) = {Symbol(tu.name, x) : x \in Defined(tu)}  BY <1>2, CompiledOutline
<1>5. MergedFrom(out, Units)  BY DEF MergeInv
<1>6. out \in Modules /\ Range(Ids(out)) = FunctionsOf(Units)  BY <1>5 DEF MergedFrom, Whole, SpacesFrom
<1>7. PICK U, m : U = Units /\ m = out  OBVIOUS
<1>8. Range(Ids(m)) \cap Range(Ids(c)) = {}
  <2>1. SUFFICES ASSUME NEW s, s \in Range(Ids(m)), s \in Range(Ids(c)) PROVE FALSE  OBVIOUS
  <2>2. PICK u \in U : \E f \in Defined(u) : s = Symbol(u.name, f)  BY <2>1, <1>6, <1>7 DEF FunctionsOf
  <2>3. PICK x \in Defined(tu) : s = Symbol(tu.name, x)  BY <2>1, <1>4
  <2>4. u.name = tu.name  BY <2>2, <2>3 DEF Symbol
  <2>5. QED  BY <2>4, <1>7
<1>9. m \in Modules /\ Outlined(m, U) /\ n = MergeOne(m, c)  BY <1>6, <1>7
<1>10. Outlined(n, U \cup {tu})  BY <1>3, <1>4, <1>8, <1>9, MergedOutline
<1>11. QED  BY <1>7, <1>10

\* A step that pulls no member keeps the scan where it may be.
LEMMA ScannedSame ==
  ASSUME Scanned, UNCHANGED <<job, pulled>>, next' <= Len(job.inputs) + 1
  PROVE  Scanned'
<1>1. OpenedInputs' = OpenedInputs  BY DEF OpenedInputs
<1>2. \A p : Opening(p)' <=> Opening(p)  BY <1>1 DEF Opening
<1>3. \A p \in pulled' : Opening(p)'  BY <1>2 DEF Scanned
<1>4. job' = job  OBVIOUS
<1>5. next' <= Len(job'.inputs) + 1  BY <1>4
<1>6. QED  BY <1>3, <1>5 DEF Scanned

\* Merging a translation unit extends the outline by it.
LEMMA OutlineMergeTU ==
  ASSUME ScanTyped, MergeInv, OutlineInv, MergeTU
  PROVE  OutlineInv'
<1>1. /\ pc = "merge" /\ next \in DOMAIN cmd.inputs /\ cmd.inputs[next].kind = "tu"
      /\ next' = next + 1
      /\ UNCHANGED <<cmd, archives, pulled, arch, memb, pc, job, phase>>
      /\ out' = MergeOne(out, Compile(job.inputs[next].tu))
  BY DEF MergeTU, Pull!MergeTU, Pull!Merge
<1>2. PICK i, n : i = job.inputs /\ n = next  OBVIOUS
<1>3. i \in Seq(Input)  BY <1>2, JobIs DEF ScanTyped
<1>4. n \in DOMAIN i /\ cmd.inputs[n] = AbstractInput(i[n])  BY <1>1, <1>2, NextInput
<1>5. PICK x \in Input : x = i[n]  BY <1>3, <1>4
<1>6. x.kind = "tu"  BY <1>1, <1>2, <1>4, <1>5, InputIs
<1>7. x.tu \in SourceUnits(i)  BY <1>3, <1>4, <1>5, <1>6, SourcesAre
<1>8. PICK tu \in SourceUnits(i) : tu = x.tu  BY <1>7
<1>9. PICK c, m : c = Compile(tu) /\ m = MergeOne(out, c)  OBVIOUS
<1>10. phase = "resolve" /\ Scanned /\ Outlined(out, Units)  BY <1>1 DEF ScanTyped, OutlineInv
<1>11. Units' = Units \cup {tu}
  <2>1. /\ UNCHANGED <<job, cmd, pulled, arch, pc, phase>> /\ pc = "merge"
        /\ next \in DOMAIN job.inputs /\ next' = next + 1
        /\ job.inputs[next].kind = "tu"
        /\ archives' = archives
    BY <1>1, <1>2, <1>4, <1>5, <1>6
  <2>2. archives' = IF job.inputs[next].kind = "tu" THEN archives
                      ELSE Append(archives, AbstractInput(job.inputs[next]))
    BY <2>1
  <2>3. ScanTyped' /\ Units' = IF job.inputs[next].kind = "tu" THEN Units \cup {job.inputs[next].tu} ELSE Units
    BY <2>1, <2>2, ScanNext
  <2>4. QED  BY <2>1, <2>3, <1>2, <1>5, <1>8
<1>12. \A u \in Units : u.name # tu.name
  <2>1. next \in DOMAIN job.inputs /\ job.inputs[next].kind = "tu"  BY <1>2, <1>4, <1>5, <1>6
  <2>2. \A u \in Units : u.name # job.inputs[next].tu.name  BY <2>1, <1>10, NewTU
  <2>3. QED  BY <2>2, <1>2, <1>5, <1>8
<1>13. Outlined(m, Units \cup {tu})
  <2>1. tu \in SourceUnits(job.inputs)  BY <1>2, <1>8
  <2>2. QED  BY <2>1, <1>9, <1>10, <1>12, OutlineUnit
<1>14. out' = m  BY <1>1, <1>2, <1>5, <1>8, <1>9
<1>15. Scanned'
  <2>1. PICK l \in Nat : l = Len(i) /\ DOMAIN i = 1 .. l  BY <1>3
  <2>2. n \in 1 .. l  BY <2>1, <1>4
  <2>3. next' <= l + 1  BY <2>2, <1>1, <1>2
  <2>4. QED  BY <2>1, <2>3, <1>1, <1>2, <1>10, ScannedSame
<1>16. Outlined(out', Units')  BY <1>11, <1>13, <1>14
<1>17. QED  BY <1>15, <1>16 DEF OutlineInv

\* Pulling a member extends the outline by it.
LEMMA OutlinePull ==
  ASSUME ScanTyped, MergeInv, OutlineInv, PullMember
  PROVE  OutlineInv'
<1>1. /\ pc = "member" /\ memb \in DOMAIN Pull!Members
      /\ <<arch, memb>> \notin pulled
      /\ pulled' = pulled \cup {<<arch, memb>>}
      /\ UNCHANGED <<cmd, next, archives, arch, pc, job, phase>>
      /\ out' = MergeOne(out, Compile(MemberTU(<<arch, memb>>)))
  BY DEF PullMember, Pull!PullMember, Pull!Merge, Pull!scan
<1>2. MemberTU(<<arch, memb>>) \in SourceUnits(job.inputs)  BY <1>1, CandidateIs
<1>3. PICK tu \in SourceUnits(job.inputs) : tu = MemberTU(<<arch, memb>>)  BY <1>2
<1>4. PICK c, m : c = Compile(tu) /\ m = MergeOne(out, c)  OBVIOUS
<1>5. phase = "resolve" /\ Scanned /\ Outlined(out, Units)  BY <1>1 DEF ScanTyped, OutlineInv
<1>6. Units' = Units \cup {tu}
  <2>1. OpenedInputs' = OpenedInputs  BY <1>1 DEF OpenedInputs
  <2>2. \A p : MemberTU(p)' = MemberTU(p)  BY <2>1 DEF MemberTU
  <2>3. {MemberTU(p)' : p \in pulled'} = {MemberTU(p) : p \in pulled} \cup {tu}  BY <1>1, <1>3, <2>2
  <2>4. QED  BY <1>1, <2>3 DEF Units
<1>7. \A u \in Units : u.name # tu.name  BY <1>1, <1>3, <1>5, NewMember
<1>8. Outlined(m, Units \cup {tu})  BY <1>4, <1>5, <1>7, OutlineUnit
<1>9. out' = m  BY <1>1, <1>3, <1>4
<1>10. Scanned'
  <2>1. OpenedInputs' = OpenedInputs  BY <1>1 DEF OpenedInputs
  <2>2. \A p : Opening(p)' <=> Opening(p)  BY <2>1 DEF Opening
  <2>3. arch \in 1 .. Len(OpenedInputs) /\ memb \in DOMAIN OpenedInputs[arch].members  BY <1>1, ScannedAt
  <2>4. Opening(<<arch, memb>>)  BY <2>3 DEF Opening
  <2>5. \A p \in pulled' : Opening(p)'  BY <2>2, <2>4, <1>1, <1>5 DEF Scanned
  <2>6. next' = next /\ job' = job  BY <1>1
  <2>7. next' <= Len(job'.inputs) + 1  BY <2>6, <1>5 DEF Scanned
  <2>8. QED  BY <2>5, <2>7 DEF Scanned
<1>11. Outlined(out', Units')  BY <1>6, <1>8, <1>9
<1>12. QED  BY <1>10, <1>11 DEF OutlineInv

\* The module that starts crt0: its imports resolved, its runtime state defined.
Shown(m, U) ==
  /\ m \in Modules /\ ExportsFrom(m, U) /\ Distinct(m.exps) /\ Outlined(m, U)
  /\ Range(m.fimp) \subseteq FuncWants(U) /\ Range(Ids(m)) = FunctionsOf(U)
Ready(m, U, H) == StateLinked(m, U, H) /\ Shown(m, U) /\ Program(U, H) /\ Apart(U)

\* Defining the runtime's state makes the resolved module ready for crt0.
LEMMA ReadyState ==
  ASSUME NEW m, NEW U, NEW H, ImportsResolved(m, U, H), Outlined(m, U), Program(U, H), Apart(U),
         NEW n, n = MaterialiseState(m)
  PROVE  Ready(n, U, H)
<1>1. StateLinked(n, U, H)  BY MaterialisedLinked
<1>2. /\ m \in Modules /\ ExportsFrom(m, U) /\ Distinct(m.exps) /\ GlobsLeft(m, U)
      /\ Range(m.fimp) \subseteq FuncWants(U) /\ Range(Ids(m)) = FunctionsOf(U)
  BY DEF ImportsResolved, Whole
<1>3. Materialised(m, n)
  <2>1. OnceEach(m.gimp) /\ StateFirst(m)  BY <1>2 DEF GlobsLeft
  <2>2. QED  BY <2>1, <1>2, MaterialiseAny
<1>4. n \in Modules /\ n.fimp = m.fimp /\ n.funcs = m.funcs /\ n.exps = m.exps /\ n.table = m.table
  BY <1>3 DEF Materialised
<1>5. Ids(n) = Ids(m)  BY <1>4 DEF Ids
<1>6. TabSyms(n) = TabSyms(m)  BY <1>4 DEF TabSyms
<1>7. Outlined(n, U)  BY <1>4, <1>5, <1>6 DEF Outlined
<1>8. ExportsFrom(n, U)  BY <1>2, <1>4 DEF ExportsFrom
<1>9. QED  BY <1>1, <1>2, <1>4, <1>5, <1>7, <1>8 DEF Ready, Shown

\* The functions that are exported are those the units offer.
LEMMA PubSymsAre ==
  ASSUME NEW m, NEW U, Shown(m, U)
  PROVE  PubSyms(m) = PublicIn(U)
<1>1. PICK e : e = m.exps  OBVIOUS
<1>2. \A x, s : Exporting(e, x, "func", s) <=> \E u \in U : Offering(u, x, "func", s)
  BY <1>1 DEF Shown, ExportsFrom
<1>3. ASSUME NEW s \in PubSyms(m) PROVE s \in PublicIn(U)
  <2>1. PICK k \in 1 .. Len(e) : e[k].ref.kind = "func" /\ e[k].ref.sym = s  BY <1>1, <1>3 DEF PubSyms
  <2>2. Exporting(e, e[k].name, "func", s)  BY <2>1 DEF Exporting
  <2>3. PICK u \in U : Offering(u, e[k].name, "func", s)  BY <2>2, <1>2
  <2>4. QED  BY <2>3 DEF Offering, PublicIn
<1>4. ASSUME NEW s \in PublicIn(U) PROVE s \in PubSyms(m)
  <2>1. PICK u \in U : \E x \in Offered(u, "func") : s = Symbol(u.name, x)  BY <1>4 DEF PublicIn
  <2>2. PICK x \in Offered(u, "func") : s = Symbol(u.name, x)  BY <2>1
  <2>3. Offering(u, x, "func", s)  BY <2>2 DEF Offering
  <2>4. Exporting(e, x, "func", s)  BY <2>3, <1>2
  <2>5. PICK k \in 1 .. Len(e) : e[k].ref.kind = "func" /\ e[k].ref.sym = s  BY <2>4 DEF Exporting
  <2>6. QED  BY <2>5, <1>1 DEF PubSyms
<1>5. QED  BY <1>3, <1>4

\* The exports under a name are the functions offered by that name.
LEMMA ExportSyms ==
  ASSUME NEW m, NEW U, Shown(m, U), NEW x
  PROVE  {r.sym : r \in FuncExport(m, x)} = PublicAs(U, x)
<1>1. PICK e : e = m.exps  OBVIOUS
<1>2. \A s : Exporting(e, x, "func", s) <=> \E u \in U : Offering(u, x, "func", s)
  BY <1>1 DEF Shown, ExportsFrom
<1>a. DOMAIN e = 1 .. Len(e)  BY <1>1, ModuleFields DEF Shown
<1>b. \A a, b : Symbol(a, b).name = b  BY DEF Symbol
<1>3. ASSUME NEW r \in FuncExport(m, x) PROVE r.sym \in PublicAs(U, x)
  <2>1. PICK k \in 1 .. Len(e) : e[k].name = x /\ e[k].ref.kind = "func" /\ e[k].ref = r
    BY <1>1, <1>3, <1>a DEF FuncExport
  <2>2. Exporting(e, x, "func", r.sym)  BY <2>1 DEF Exporting
  <2>3. PICK u \in U : Offering(u, x, "func", r.sym)  BY <2>2, <1>2
  <2>4. x \in Offered(u, "func") /\ r.sym = Symbol(u.name, x)  BY <2>3 DEF Offering
  <2>5. r.sym \in PublicIn(U)  BY <2>4 DEF PublicIn
  <2>6. r.sym.name = x  BY <2>4, <1>b
  <2>7. QED  BY <2>5, <2>6 DEF PublicAs
<1>4. ASSUME NEW s \in PublicAs(U, x) PROVE \E r \in FuncExport(m, x) : r.sym = s
  <2>1. s \in PublicIn(U) /\ s.name = x  BY <1>4 DEF PublicAs
  <2>2. PICK u \in U : \E y \in Offered(u, "func") : s = Symbol(u.name, y)  BY <2>1 DEF PublicIn
  <2>3. PICK y \in Offered(u, "func") : s = Symbol(u.name, y)  BY <2>2
  <2>4. y = x  BY <2>1, <2>3, <1>b
  <2>5. Offering(u, x, "func", s)  BY <2>3, <2>4 DEF Offering
  <2>6. Exporting(e, x, "func", s)  BY <2>5, <1>2
  <2>7. PICK k \in 1 .. Len(e) : e[k].name = x /\ e[k].ref.kind = "func" /\ e[k].ref.sym = s
    BY <2>6 DEF Exporting
  <2>8. e[k].ref \in FuncExport(m, x)  BY <2>7, <1>1, <1>a DEF FuncExport
  <2>9. QED  BY <2>7, <2>8
<1>5. QED  BY <1>3, <1>4

\* At most one function is exported under a name.
LEMMA ExportOnce ==
  ASSUME NEW m, NEW U, Shown(m, U), NEW x, NEW p \in FuncExport(m, x), NEW q \in FuncExport(m, x)
  PROVE  p = q
<1>1. PICK e : e = m.exps  OBVIOUS
<1>2. \E k \in 1 .. Len(e) : e[k].name = x /\ e[k].ref = p  BY <1>1, FuncExportIs DEF Shown
<1>3. \E k \in 1 .. Len(e) : e[k].name = x /\ e[k].ref = q  BY <1>1, FuncExportIs DEF Shown
<1>4. PICK j \in 1 .. Len(e) : e[j].name = x /\ e[j].ref = p  BY <1>2
<1>5. PICK k \in 1 .. Len(e) : e[k].name = x /\ e[k].ref = q  BY <1>3
<1>6. j = k  BY <1>1, <1>4, <1>5 DEF Shown, Distinct
<1>7. QED  BY <1>4, <1>5, <1>6

\* A main that is exported is a definition.
LEMMA MainFound ==
  ASSUME NEW m, NEW U, NEW H, Ready(m, U, H)
  PROVE  HasMain(m) <=> \E u \in U : Main \in Defined(u)
<1>1. /\ Shown(m, U) /\ Program(U, H) /\ Apart(U) /\ StateLinked(m, U, H) /\ m \in Modules
      /\ \A u \in U : u \in TranslationUnit
  BY DEF Ready, Shown, Program
<1>2. Linked(m, U, H)  BY <1>1 DEF StateLinked, Linked
<1>3. HasMain(m) <=> FuncExport(m, Main) # {}
  <2>1. ASSUME NEW r \in FuncExport(m, Main) PROVE r.idx >= Len(m.fimp)
    <3>1. r \in AllRefs(m) /\ r.kind = "func" /\ r \in Refs  BY <1>1, <2>1, FuncExportIs
    <3>2. PICK i : i = r.idx  OBVIOUS
    <3>3. FuncAt(m, i) = Meaning(U, H, "func", r.sym) /\ i \in Numbers(m)  BY <3>1, <3>2, <1>2, CallMeans
    <3>4. r.sym \in PublicAs(U, Main)  BY <2>1, <1>1, ExportSyms
    <3>5. r.sym \in FunctionsOf(U)  BY <3>4, <1>1, PublicTyped DEF PublicAs
    <3>6. FuncAt(m, i) \in FunctionsOf(U)  BY <3>3, <3>5, MeaningDefined
    <3>7. i < Len(m.fimp) => FuncAt(m, i) \in Range(m.fimp)  BY <3>3, <1>1, FuncPlace
    <3>8. FuncAt(m, i) \notin Range(m.fimp)
      <4>1. ASSUME FuncAt(m, i) \in Range(m.fimp) PROVE FALSE
        <5>1. PICK s : s = FuncAt(m, i)  OBVIOUS
        <5>2. s \in FuncWants(U) \cup Range(SysProc)  BY <4>1, <5>1, <1>1 DEF Shown
        <5>3. s \notin FunctionsOf(U)  BY <5>2, <1>1, ImportsApart
        <5>4. QED  BY <5>1, <5>3, <3>6
      <4>2. QED  BY <4>1
    <3>9. ~(i < Len(m.fimp))  BY <3>7, <3>8
    <3>10. i \in Nat /\ Len(m.fimp) \in Nat  BY <3>1, <3>2, <1>1, ModuleFields DEF Refs
    <3>11. QED  BY <3>2, <3>9, <3>10
  <2>2. QED  BY <2>1 DEF HasMain
<1>4. FuncExport(m, Main) # {} <=> PublicAs(U, Main) # {}  BY <1>1, ExportSyms
<1>5. PublicAs(U, Main) # {} <=> \E u \in U : Main \in Offered(u, "func")
  <2>0. \A a, b : Symbol(a, b).name = b  BY DEF Symbol
  <2>1. ASSUME NEW s \in PublicAs(U, Main) PROVE \E u \in U : Main \in Offered(u, "func")
    <3>1. s \in PublicIn(U) /\ s.name = Main  BY <2>1 DEF PublicAs
    <3>2. PICK u \in U : \E y \in Offered(u, "func") : s = Symbol(u.name, y)  BY <3>1 DEF PublicIn
    <3>3. PICK y \in Offered(u, "func") : s = Symbol(u.name, y)  BY <3>2
    <3>4. y = Main  BY <3>1, <3>3, <2>0
    <3>5. QED  BY <3>3, <3>4
  <2>2. ASSUME NEW u \in U, Main \in Offered(u, "func") PROVE Symbol(u.name, Main) \in PublicAs(U, Main)
    <3>1. Symbol(u.name, Main) \in PublicIn(U)  BY <2>2 DEF PublicIn
    <3>2. QED  BY <3>1, <2>0 DEF PublicAs
  <2>3. QED  BY <2>1, <2>2
<1>6. \A u \in U : Main \in Offered(u, "func") <=> Main \in Defined(u)
  <2>1. SUFFICES ASSUME NEW u \in U PROVE Main \in Offered(u, "func") <=> Main \in Defined(u)
    OBVIOUS
  <2>2. Offered(u, "func") = Public(u, "func") \cup ({Main} \cap Defined(u))  BY <1>1, OfferedIs
  <2>3. Offered(u, "func") \subseteq Defined(u)  BY <1>1, ExternalWorks
  <2>4. QED  BY <2>2, <2>3
<1>7. QED  BY <1>3, <1>4, <1>5, <1>6

\* Without a main there is no wrapper.
LEMMA PlainDrawn ==
  ASSUME NEW m, NEW U, NEW H, Ready(m, U, H), NEW W, ~W
  PROVE  Drawn(m, U, W, FunctionsOf(U)) /\ Opened(m, U, W)
<1>1. /\ Shown(m, U) /\ Outlined(m, U) /\ m.start = {} /\ Program(U, H) /\ Apart(U) /\ m \in Modules
      /\ Range(m.fimp) \subseteq FuncWants(U) /\ Range(Ids(m)) = FunctionsOf(U)
  BY DEF Ready, Shown, StateLinked
<1>2. PubSyms(m) = PublicIn(U) /\ PublicIn(U) \subseteq FunctionsOf(U)  BY <1>1, PubSymsAre, PublicTyped
<1>3. ASSUME NEW k \in 1 .. Len(m.funcs) PROVE DrawnBody(U, W, m.funcs[k])
  <2>1. PICK b : b = m.funcs[k]  OBVIOUS
  <2>2. BodyFrom(U, b)  BY <2>1, <1>1, <1>3 DEF Outlined
  <2>3. b.id # StartWrapper
    <3>1. PICK d : d = Ids(m)  OBVIOUS
    <3>2. d \in Seq(Symbols) /\ Len(d) = Len(m.funcs) /\ d[k] = b.id  BY <3>1, <2>1, <1>1, <1>3, IdsOf
    <3>3. b.id \in FunctionsOf(U)  BY <3>1, <3>2, <1>1, <1>3, RangeOf
    <3>4. QED  BY <3>3, <1>1, WrapperApart
  <2>4. QED  BY <2>1, <2>2, <2>3 DEF DrawnBody
<1>4. Start(W) = {}  BY DEF Start
<1>5. QED  BY <1>1, <1>2, <1>3, <1>4 DEF Drawn, Opened, Outlined

\* A shifted reference keeps its name.
LEMMA ShiftedIs ==
  ASSUME NEW r \in Refs
  PROVE  ShiftedRef(r) \in Refs /\ ShiftedRef(r).kind = r.kind /\ ShiftedRef(r).sym = r.sym
<1>1. PICK i \in Nat : i = r.idx  BY DEF Refs
<1>2. PICK j \in Nat : j = i + 4  OBVIOUS
<1>3. PICK q : q = ShiftedRef(r)  OBVIOUS
<1>4. q = [r EXCEPT !.idx = j]
  <2>1. q = [r EXCEPT !.idx = Up(r.idx)]  BY <1>3 DEF ShiftedRef
  <2>2. Up(r.idx) = j  BY <1>1, <1>2, UpIs
  <2>3. QED  BY <2>1, <2>2
<1>5. q \in Refs /\ q.kind = r.kind /\ q.sym = r.sym  BY <1>2, <1>4 DEF Refs
<1>6. QED  BY <1>3, <1>5

Invoking(R, S) == (\A q \in R : q.kind = "func" /\ q.sym \in S) /\ (\A s \in S : \E q \in R : q.sym = s)

\* The references of the wrapper to the exports under a name are calls of the functions offered by it.
LEMMA ShiftedCalls ==
  ASSUME NEW m, NEW U, Shown(m, U), NEW x
  PROVE  Invoking(ShiftedRefs(FuncExport(m, x)), PublicAs(U, x))
<1>1. m \in Modules  BY DEF Shown
<1>2. {r.sym : r \in FuncExport(m, x)} = PublicAs(U, x)  BY ExportSyms
<1>3. ASSUME NEW q \in ShiftedRefs(FuncExport(m, x)) PROVE q.kind = "func" /\ q.sym \in PublicAs(U, x)
  <2>1. PICK r \in FuncExport(m, x) : q = ShiftedRef(r)  BY <1>3 DEF ShiftedRefs
  <2>2. r \in Refs /\ r.kind = "func"  BY <1>1, FuncExportIs
  <2>3. q.kind = r.kind /\ q.sym = r.sym  BY <2>1, <2>2, ShiftedIs
  <2>4. QED  BY <2>1, <2>2, <2>3, <1>2
<1>4. ASSUME NEW s \in PublicAs(U, x) PROVE \E q \in ShiftedRefs(FuncExport(m, x)) : q.sym = s
  <2>1. PICK r \in FuncExport(m, x) : r.sym = s  BY <1>2
  <2>2. r \in Refs  BY <1>1, FuncExportIs
  <2>3. ShiftedRef(r).sym = s  BY <2>1, <2>2, ShiftedIs
  <2>4. ShiftedRef(r) \in ShiftedRefs(FuncExport(m, x))  BY DEF ShiftedRefs
  <2>5. QED  BY <2>3, <2>4
<1>5. QED  BY <1>3, <1>4 DEF Invoking

\* The wrapper calls the entry of the program and the host.
LEMMA WrapperCalls ==
  ASSUME NEW main, NEW argv \in BOOLEAN, NEW exit, NEW flush, NEW U, NEW W, W,
         Invoking({main}, PublicAs(U, Main)), Invoking(exit, PublicAs(U, Exit)), Invoking(flush, PublicAs(U, StdioExit)),
         NEW b, b.refs = WrapperRefs(main, argv, exit, flush)
  PROVE  WrapperFrom(U, W, b)
<1>1. PICK R : R = b.refs  OBVIOUS
<1>2. PICK A, X, F : A = PublicAs(U, Main) /\ X = PublicAs(U, Exit) /\ F = PublicAs(U, StdioExit)  OBVIOUS
<1>3. EntryIn(U, W) = A \cup IF X # {} THEN X ELSE F  BY <1>2 DEF EntryIn
<1>4. /\ main.kind = "func" /\ main.sym \in A /\ \A s \in A : main.sym = s
      /\ \A q \in exit : q.kind = "func" /\ q.sym \in X
      /\ \A s \in X : \E q \in exit : q.sym = s
      /\ \A q \in flush : q.kind = "func" /\ q.sym \in F
      /\ \A s \in F : \E q \in flush : q.sym = s
  BY <1>2 DEF Invoking
<1>5. exit = {} <=> X = {}  BY <1>4
<1>6. PICK T, V : /\ T = (IF exit = {} THEN {Ref("func", 4 - 1, SysProc[4])} \cup flush ELSE {})
                  /\ V = (IF argv THEN {Ref("func", 1 - 1, SysProc[1]), Ref("func", 2 - 1, SysProc[2]),
                                        Ref("func", 3 - 1, SysProc[3]), Ref("glob", 0, Symbol(Env, StackPointer))}
                                  ELSE {})
  OBVIOUS
<1>7. R = {main} \cup exit \cup T \cup V  BY <1>1, <1>6 DEF WrapperRefs
<1>8. \A s \in A : \E q \in R : q.kind = "func" /\ q.sym = s
  <2>1. main \in R  BY <1>7
  <2>2. QED  BY <2>1, <1>4
<1>9. \A s \in X : \E q \in R : q.kind = "func" /\ q.sym = s
  <2>1. exit \subseteq R  BY <1>7
  <2>2. QED  BY <2>1, <1>4
<1>10. X = {} => \A s \in F : \E q \in R : q.kind = "func" /\ q.sym = s
  <2>1. X = {} => flush \subseteq R  BY <1>5, <1>6, <1>7
  <2>2. QED  BY <2>1, <1>4
<1>11. CallsOf(b) = {r.sym : r \in {q \in R : q.kind = "func"}}  BY <1>1 DEF CallsOf
<1>12. \A s : s \in CallsOf(b) <=> \E q \in R : q.kind = "func" /\ q.sym = s  BY <1>11
<1>13. EntryIn(U, W) \subseteq CallsOf(b)
  <2>1. CASE X = {}  BY <2>1, <1>3, <1>8, <1>10, <1>12
  <2>2. CASE X # {}  BY <2>2, <1>3, <1>8, <1>9, <1>12
  <2>3. QED  BY <2>1, <2>2
<1>14. ASSUME NEW s \in CallsOf(b) PROVE s \in EntryIn(U, W) \cup Range(SysProc)
  <2>1. PICK q \in R : q.kind = "func" /\ q.sym = s  BY <1>12, <1>14
  <2>2. q \in WrapperRefs(main, argv, exit, flush)  BY <1>1, <2>1
  <2>3. \/ q = main \/ q \in exit
        \/ q \in flush /\ exit = {}
        \/ \E k \in 1 .. 4 : q = Ref("func", k - 1, SysProc[k])
        \/ q = Ref("glob", 0, Symbol(Env, StackPointer))
    <3>1. \/ q = main \/ q \in exit \/ q \in flush
          \/ \E k \in 1 .. 4 : q = Ref("func", k - 1, SysProc[k])
          \/ q = Ref("glob", 0, Symbol(Env, StackPointer))
      BY <2>2, WrapperIs
    <3>2. CASE q \in T
      <4>1. q = Ref("func", 4 - 1, SysProc[4]) \/ (q \in flush /\ exit = {})  BY <3>2, <1>6
      <4>2. 4 \in 1 .. 4  OBVIOUS
      <4>3. QED  BY <4>1, <4>2
    <3>3. CASE q \in V
      <4>1. \/ q = Ref("func", 1 - 1, SysProc[1]) \/ q = Ref("func", 2 - 1, SysProc[2])
            \/ q = Ref("func", 3 - 1, SysProc[3]) \/ q = Ref("glob", 0, Symbol(Env, StackPointer))
        BY <3>3, <1>6
      <4>2. 1 \in 1 .. 4 /\ 2 \in 1 .. 4 /\ 3 \in 1 .. 4  OBVIOUS
      <4>3. QED  BY <4>1, <4>2
    <3>4. q = main \/ q \in exit \/ q \in T \/ q \in V  BY <2>1, <1>7
    <3>5. QED  BY <3>2, <3>3, <3>4
  <2>4. CASE q = main  BY <2>1, <2>4, <1>3, <1>4
  <2>5. CASE q \in exit
    <3>1. s \in X  BY <2>1, <2>5, <1>4
    <3>2. X # {}  BY <3>1
    <3>3. QED  BY <3>1, <3>2, <1>3
  <2>6. CASE q \in flush /\ exit = {}
    <3>1. s \in F /\ X = {}  BY <2>1, <2>6, <1>4, <1>5
    <3>2. QED  BY <3>1, <1>3
  <2>7. CASE \E k \in 1 .. 4 : q = Ref("func", k - 1, SysProc[k])
    <3>1. PICK k \in 1 .. 4 : q = Ref("func", k - 1, SysProc[k])  BY <2>7
    <3>2. q.sym = SysProc[k]  BY <3>1 DEF Ref
    <3>3. SysProc[k] \in Range(SysProc)  BY SysProcIs, RangeOf
    <3>4. QED  BY <2>1, <3>2, <3>3
  <2>8. CASE q = Ref("glob", 0, Symbol(Env, StackPointer))
    <3>1. q.kind = "glob"  BY <2>8 DEF Ref
    <3>2. QED  BY <3>1, <2>1
  <2>9. QED  BY <2>3, <2>4, <2>5, <2>6, <2>7, <2>8
<1>15. QED  BY <1>13, <1>14 DEF WrapperFrom

\* A function appended under a name of its own, and an export of a function.
LEMMA AddsSyms ==
  ASSUME NEW m, NEW n, NEW b, NEW e, Adds(m, n, b, e)
  PROVE  /\ n \in Modules /\ n.fimp = m.fimp /\ n.start # {}
         /\ Len(n.funcs) = Len(m.funcs) + 1 /\ n.funcs[Len(m.funcs) + 1] = b
         /\ \A k \in 1 .. Len(m.funcs) : n.funcs[k] = m.funcs[k]
         /\ TabSyms(n) = TabSyms(m) /\ PubSyms(n) \subseteq PubSyms(m) \cup {e.ref.sym}
<1>1. PICK f, x : f = m.funcs /\ x = m.exps  OBVIOUS
<1>2. m \in Modules /\ b \in Bodies /\ e \in Exps  BY DEF Adds, Whole
<1>3. f \in Seq(Bodies) /\ x \in Seq(Exps) /\ Len(f) \in Nat /\ Len(x) \in Nat /\ Len(m.fimp) \in Nat  BY <1>1, <1>2, ModuleFields
<1>4. PICK g, y, st : g = Append(f, b) /\ y = Append(x, e) /\ st = {Len(m.fimp) + Len(f)}  OBVIOUS
<1>5. n = [m EXCEPT !.funcs = g, !.start = st, !.exps = y]  BY <1>1, <1>4 DEF Adds
<1>6. g \in Seq(Bodies) /\ Len(g) = Len(f) + 1 /\ g[Len(f) + 1] = b /\ \A k \in 1 .. Len(f) : g[k] = f[k]
  BY <1>2, <1>3, <1>4
<1>7. y \in Seq(Exps) /\ Len(y) = Len(x) + 1 /\ y[Len(x) + 1] = e /\ \A k \in 1 .. Len(x) : y[k] = x[k]
  BY <1>2, <1>3, <1>4
<1>8. st \subseteq Nat /\ st # {}  BY <1>3, <1>4
<1>9. /\ n \in Modules /\ n.fimp = m.fimp /\ n.funcs = g /\ n.exps = y /\ n.table = m.table /\ n.start = st
  BY <1>2, <1>5, <1>6, <1>7, <1>8 DEF Modules
<1>10. TabSyms(n) = TabSyms(m)  BY <1>9 DEF TabSyms
<1>11. ASSUME NEW s \in PubSyms(n) PROVE s \in PubSyms(m) \cup {e.ref.sym}
  <2>1. PICK k \in 1 .. Len(y) : y[k].ref.kind = "func" /\ s = y[k].ref.sym  BY <1>9, <1>11 DEF PubSyms
  <2>2. k \in 1 .. Len(x) \/ k = Len(x) + 1  BY <2>1, <1>3, <1>7
  <2>3. CASE k \in 1 .. Len(x)
    <3>1. x[k].ref.kind = "func" /\ s = x[k].ref.sym  BY <2>1, <2>3, <1>7
    <3>2. s \in PubSyms(m)  BY <3>1, <2>3, <1>1 DEF PubSyms
    <3>3. QED  BY <3>2
  <2>4. CASE k = Len(x) + 1  BY <2>1, <2>4, <1>7
  <2>5. QED  BY <2>2, <2>3, <2>4
<1>12. QED  BY <1>1, <1>6, <1>8, <1>9, <1>10, <1>11

\* Exports taken away and imports put in front change no name.
LEMMA UnexportSyms ==
  ASSUME NEW m \in Modules, NEW p, Unexported(m, p)
  PROVE  /\ p \in Modules /\ p.fimp = m.fimp /\ p.funcs = m.funcs /\ p.start = m.start
         /\ Ids(p) = Ids(m) /\ TabSyms(p) = TabSyms(m) /\ PubSyms(p) \subseteq PubSyms(m)
<1>1. /\ p \in Modules /\ p.fimp = m.fimp /\ p.funcs = m.funcs /\ p.table = m.table /\ p.start = m.start
      /\ \A k \in 1 .. Len(p.exps) : \E j \in 1 .. Len(m.exps) : p.exps[k] = m.exps[j]
  BY DEF Unexported
<1>2. Ids(p) = Ids(m)  BY <1>1 DEF Ids
<1>3. TabSyms(p) = TabSyms(m)  BY <1>1 DEF TabSyms
<1>4. ASSUME NEW s \in PubSyms(p) PROVE s \in PubSyms(m)
  <2>1. PICK d, e : d = p.exps /\ e = m.exps  OBVIOUS
  <2>2. PICK k \in 1 .. Len(d) : d[k].ref.kind = "func" /\ s = d[k].ref.sym  BY <2>1, <1>4 DEF PubSyms
  <2>3. PICK j \in 1 .. Len(e) : d[k] = e[j]  BY <2>1, <1>1
  <2>4. QED  BY <2>1, <2>2, <2>3 DEF PubSyms
<1>5. QED  BY <1>1, <1>2, <1>3, <1>4

\* Importing the host's process module first changes no name.
LEMMA PrependSyms ==
  ASSUME NEW m \in Modules, NEW n, n = PrependSysProc(m)
  PROVE  SameSyms(n, m) /\ n.fimp = SysProc \o m.fimp
<1>1. PICK f : f = SysProc \o m.fimp  OBVIOUS
<1>2. m.fimp \in Seq(Symbols) /\ m.gimp \in Seq(Symbols)  BY ModuleFields
<1>3. f \in Seq(Symbols)  BY <1>1, <1>2, SysProcIs
<1>4. n = Renumber(m, Upward, Same, Same, f, m.gimp)  BY <1>1, PrependIs
<1>5. PICK S : S = Same  OBVIOUS
<1>6. S \in [Nat -> Nat]  BY <1>5, SameIs
<1>7. Renumbers(n, m, Upward, S, S, f, m.gimp)  BY <1>2, <1>3, <1>4, <1>5, <1>6, UpIs DEF Renumbers
<1>8. SameSyms(n, m)  BY <1>7, RenumberSyms
<1>9. n.fimp = f  BY <1>7, RenumberWorks
<1>10. QED  BY <1>1, <1>8, <1>9

\* The start wrapper put behind an outline.
LEMMA StartDrawn ==
  ASSUME NEW m, NEW n, NEW b, NEW e, Adds(m, n, b, e), NEW U, Apart(U), Outlined(m, U), NEW W, W,
         Range(Ids(m)) = FunctionsOf(U), WrapperFrom(U, W, b),
         PubSyms(m) \cup {e.ref.sym} \subseteq FunctionsOf(U),
         Range(m.fimp) \subseteq FuncWants(U) \cup Range(SysProc)
  PROVE  Drawn(n, U, W, FunctionsOf(U)) /\ Opened(n, U, W)
<1>1. m \in Modules /\ b.id = StartWrapper  BY DEF Adds, Whole
<1>2. PICK f, g : f = m.funcs /\ g = n.funcs  OBVIOUS
<1>3. /\ n \in Modules /\ n.fimp = m.fimp /\ n.start # {}
      /\ Len(g) = Len(f) + 1 /\ g[Len(f) + 1] = b /\ \A k \in 1 .. Len(f) : g[k] = f[k]
      /\ TabSyms(n) = TabSyms(m) /\ PubSyms(n) \subseteq PubSyms(m) \cup {e.ref.sym}
  BY <1>2, AddsSyms
<1>4. PICK l \in Nat : l = Len(f)  BY <1>1, <1>2, ModuleFields
<1>5. PICK c, d : c = Ids(m) /\ d = Ids(n)  OBVIOUS
<1>6. c \in Seq(Symbols) /\ Len(c) = l /\ \A k \in 1 .. l : c[k] = f[k].id  BY <1>1, <1>2, <1>4, <1>5, IdsOf
<1>7. d \in Seq(Symbols) /\ Len(d) = l + 1 /\ \A k \in 1 .. l + 1 : d[k] = g[k].id
  BY <1>2, <1>3, <1>4, <1>5, IdsOf
<1>8. \A k \in 1 .. l : d[k] = c[k]
  <2>1. \A k \in 1 .. l : k \in 1 .. l + 1 /\ g[k] = f[k]  BY <1>3, <1>4
  <2>2. QED  BY <2>1, <1>6, <1>7
<1>9. d[l + 1] = StartWrapper
  <2>1. l + 1 \in 1 .. l + 1  OBVIOUS
  <2>2. QED  BY <2>1, <1>1, <1>3, <1>4, <1>7
<1>10. OnceEach(c) /\ Range(c) = FunctionsOf(U)  BY <1>5 DEF Outlined
<1>11. \A k \in 1 .. l : c[k] \in FunctionsOf(U) /\ c[k] # StartWrapper
  <2>1. \A k \in 1 .. l : c[k] \in FunctionsOf(U)  BY <1>6, <1>10, RangeOf
  <2>2. QED  BY <2>1, WrapperApart
<1>12. \A k \in 1 .. l + 1 : k \in 1 .. l \/ k = l + 1  OBVIOUS
<1>13. OnceEach(d)
  <2>1. SUFFICES ASSUME NEW i \in 1 .. l + 1, NEW j \in 1 .. l + 1, d[i] = d[j] PROVE i = j
    BY <1>7 DEF OnceEach
  <2>2. CASE i \in 1 .. l /\ j \in 1 .. l  BY <2>1, <2>2, <1>6, <1>8, <1>10 DEF OnceEach
  <2>3. CASE i = l + 1 /\ j \in 1 .. l  BY <2>1, <2>3, <1>8, <1>9, <1>11
  <2>4. CASE j = l + 1 /\ i \in 1 .. l  BY <2>1, <2>4, <1>8, <1>9, <1>11
  <2>5. QED  BY <2>2, <2>3, <2>4, <1>12
<1>14. Range(d) = FunctionsOf(U) \cup Start(W)
  <2>1. Start(W) = {StartWrapper}  BY DEF Start
  <2>2. ASSUME NEW s, s \in Range(d) PROVE s \in FunctionsOf(U) \cup {StartWrapper}
    <3>1. PICK k \in 1 .. l + 1 : d[k] = s  BY <2>2, <1>7, RangeOf
    <3>2. QED  BY <3>1, <1>8, <1>9, <1>11, <1>12
  <2>3. ASSUME NEW s \in FunctionsOf(U) PROVE s \in Range(d)
    <3>1. PICK k \in 1 .. l : c[k] = s  BY <2>3, <1>6, <1>10, RangeOf
    <3>2. d[k] = s /\ k \in 1 .. l + 1  BY <3>1, <1>8
    <3>3. QED  BY <3>2, <1>7, RangeOf
  <2>4. StartWrapper \in Range(d)
    <3>1. l + 1 \in 1 .. Len(d)  BY <1>7
    <3>2. QED  BY <3>1, <1>7, <1>9, RangeOf
  <2>5. QED  BY <2>1, <2>2, <2>3, <2>4
<1>15. ASSUME NEW k \in 1 .. l + 1 PROVE DrawnBody(U, W, g[k])
  <2>1. CASE k \in 1 .. l
    <3>1. g[k] = f[k] /\ BodyFrom(U, f[k])  BY <2>1, <1>2, <1>3, <1>4 DEF Outlined
    <3>2. g[k].id # StartWrapper  BY <2>1, <1>7, <1>8, <1>11, <1>15
    <3>3. QED  BY <3>1, <3>2 DEF DrawnBody
  <2>2. CASE k = l + 1
    <3>1. g[k] = b  BY <2>2, <1>3, <1>4
    <3>2. QED  BY <3>1, <1>1 DEF DrawnBody
  <2>3. QED  BY <2>1, <2>2, <1>12
<1>16. TabSyms(n) = TakenSyms(U)  BY <1>3 DEF Outlined
<1>17. PubSyms(n) \subseteq FunctionsOf(U)  BY <1>3
<1>18. Drawn(n, U, W, FunctionsOf(U))
  <2>1. \A k \in 1 .. Len(g) : DrawnBody(U, W, g[k])  BY <1>3, <1>4, <1>15
  <2>2. QED  BY <2>1, <1>2, <1>3, <1>5, <1>13, <1>14, <1>16, <1>17 DEF Drawn
<1>19. QED  BY <1>18 DEF Opened

\* With a main the module gets the wrapper.
LEMMA WrappedDrawn ==
  ASSUME NEW m, NEW U, NEW H, Ready(m, U, H), HasMain(m), NEW n, n = AddCrt0(m), NEW W, W
  PROVE  Drawn(n, U, W, FunctionsOf(U)) /\ Opened(n, U, W)
<1>1. /\ Shown(m, U) /\ StateLinked(m, U, H) /\ Program(U, H) /\ Apart(U) /\ Whole(m) /\ m \in Modules
      /\ Surely(m, U, H) /\ Distinct(m.exps) /\ Outlined(m, U)
      /\ Range(m.fimp) \subseteq FuncWants(U) /\ Range(Ids(m)) = FunctionsOf(U)
  BY DEF Ready, Shown, StateLinked
<1>2. PICK p : p = [m EXCEPT !.exps = Kept(m.exps, NotMain(m))]  OBVIOUS
<1>3. PICK s : s = PrependSysProc(p)  OBVIOUS
<1>4. PICK main, argv, exit, flush :
        /\ main = ShiftedRef(MainOf(m)) /\ argv = m.funcs[MainOf(m).idx - Len(m.fimp) + 1].argv
        /\ exit = ShiftedRefs(FuncExport(m, Exit)) /\ flush = ShiftedRefs(FuncExport(m, StdioExit))
  OBVIOUS
<1>5. Unexported(m, p)
  <2>1. PICK K : K = NotMain(m)  OBVIOUS
  <2>2. K \subseteq DOMAIN m.exps  BY <2>1 DEF NotMain
  <2>3. p = [m EXCEPT !.exps = Kept(m.exps, K)]  BY <2>1, <1>2
  <2>4. QED  BY <2>2, <2>3, <1>1, UnexportWorks
<1>6. Whole(p) /\ Surely(p, U, H) /\ p \in Modules
  <2>1. Whole(p) /\ Surely(p, U, H)  BY <1>1, <1>5, UnexportedLinked
  <2>2. QED  BY <2>1 DEF Whole
<1>7. Whole(s) /\ s \in Modules
  <2>1. Whole(s)  BY <1>3, <1>6, PrependWorks
  <2>2. QED  BY <2>1 DEF Whole
<1>8. /\ p.fimp = m.fimp /\ Ids(p) = Ids(m) /\ p.funcs = m.funcs
      /\ TabSyms(p) = TabSyms(m) /\ PubSyms(p) \subseteq PubSyms(m)
  BY <1>1, <1>5, UnexportSyms
<1>9. SameSyms(s, p) /\ s.fimp = SysProc \o p.fimp  BY <1>3, <1>6, PrependSyms
<1>10. Outlined(p, U)  BY <1>1, <1>8 DEF Outlined
<1>11. Outlined(s, U)  BY <1>9, <1>10, OutlinedKept
<1>12. Range(Ids(s)) = FunctionsOf(U) /\ PubSyms(s) \subseteq FunctionsOf(U)
  <2>1. Ids(s) = Ids(p) /\ PubSyms(s) = PubSyms(p)  BY <1>9 DEF SameSyms
  <2>2. PubSyms(m) \subseteq FunctionsOf(U)  BY <1>1, PubSymsAre, PublicTyped
  <2>3. QED  BY <2>1, <2>2, <1>1, <1>8
<1>13. Range(s.fimp) \subseteq FuncWants(U) \cup Range(SysProc)
  <2>1. PICK a : a = m.fimp  OBVIOUS
  <2>2. a \in Seq(Symbols) /\ SysProc \in Seq(Symbols)  BY <2>1, <1>1, SysProcIs, ModuleFields
  <2>3. Range(SysProc \o a) = Range(SysProc) \cup Range(a)  BY <2>2, ConcatRange
  <2>4. QED  BY <2>1, <2>3, <1>1, <1>8, <1>9
<1>14. argv \in BOOLEAN /\ main \in Refs /\ main.kind = "func" /\ Invoking({main}, PublicAs(U, Main))
  <2>1. PICK r : r = MainOf(m)  OBVIOUS
  <2>2. argv \in BOOLEAN /\ r.kind = "func" /\ r \in AllRefs(m)  BY <2>1, <1>1, <1>4, MainIs
  <2>3. r \in Refs  BY <2>2, <1>1, AllRefsAre
  <2>4. PICK E : E = FuncExport(m, Main)  OBVIOUS
  <2>5. r \in E  BY <2>1, <2>4 DEF HasMain, MainOf
  <2>6. E = {r}  BY <2>4, <2>5, <1>1, ExportOnce
  <2>7. {main} = ShiftedRefs(E)  BY <2>1, <2>6, <1>4 DEF ShiftedRefs
  <2>8. Invoking({main}, PublicAs(U, Main))  BY <2>4, <2>7, <1>1, ShiftedCalls
  <2>9. main \in Refs /\ main.kind = "func"  BY <2>1, <2>2, <2>3, <1>4, ShiftedIs
  <2>10. QED  BY <2>2, <2>8, <2>9
<1>15. Invoking(exit, PublicAs(U, Exit)) /\ Invoking(flush, PublicAs(U, StdioExit))  BY <1>1, <1>4, ShiftedCalls
<1>16. PICK R : R = WrapperRefs(main, argv, exit, flush)  OBVIOUS
<1>17. ASSUME NEW q \in R PROVE q \in Refs
  <2>1. \/ q = main \/ q \in exit \/ q \in flush
        \/ \E k \in 1 .. 4 : q = Ref("func", k - 1, SysProc[k])
        \/ q = Ref("glob", 0, Symbol(Env, StackPointer))
    BY <1>14, <1>16, <1>17, WrapperIs
  <2>2. ASSUME NEW x, q \in ShiftedRefs(FuncExport(m, x)) PROVE q \in Refs
    <3>1. PICK r \in FuncExport(m, x) : q = ShiftedRef(r)  BY <2>2 DEF ShiftedRefs
    <3>2. r \in Refs  BY <1>1, FuncExportIs
    <3>3. QED  BY <3>1, <3>2, ShiftedIs
  <2>3. CASE q = main  BY <2>3, <1>14
  <2>4. CASE q \in exit \/ q \in flush  BY <2>4, <2>2, <1>4
  <2>5. CASE \E k \in 1 .. 4 : q = Ref("func", k - 1, SysProc[k])
    <3>1. PICK k \in 1 .. 4 : q = Ref("func", k - 1, SysProc[k])  BY <2>5
    <3>2. SysProc[k] \in Symbols /\ k - 1 \in Nat  BY SysProcIs
    <3>3. QED  BY <3>1, <3>2, RefIs
  <2>6. CASE q = Ref("glob", 0, Symbol(Env, StackPointer))  BY <2>6, StateIs, RefIs
  <2>7. QED  BY <2>1, <2>3, <2>4, <2>5, <2>6
<1>18. PICK b, e : b = WrapperBody(main, argv, exit, flush) /\ e = MainExport(main)  OBVIOUS
<1>19. b \in Bodies /\ b.id = StartWrapper /\ b.refs = R
  <2>1. R \subseteq Refs  BY <1>17
  <2>2. b = [id |-> StartWrapper, argv |-> FALSE, refs |-> R]  BY <1>16, <1>18 DEF WrapperBody
  <2>3. QED  BY <2>1, <2>2, WrapperBodyIs
<1>20. e \in Exps /\ e.ref = main
  <2>1. e = [name |-> Main, ref |-> main]  BY <1>18 DEF MainExport
  <2>2. QED  BY <2>1, <1>14, TextIs, ExpIs
<1>21. n = [s EXCEPT !.funcs = Append(@, b), !.start = {Len(s.fimp) + Len(s.funcs)}, !.exps = Append(@, e)]
  <2>1. n = AddStart(s, main, argv, exit, flush)  BY <1>2, <1>3, <1>4, AddCrt0Is
  <2>2. QED  BY <2>1, <1>18, AddStartIs, ZenonT(30)
<1>22. Adds(s, n, b, e)  BY <1>7, <1>19, <1>20, <1>21 DEF Adds
<1>23. WrapperFrom(U, W, b)  BY <1>14, <1>15, <1>16, <1>19, WrapperCalls
<1>24. e.ref.sym \in FunctionsOf(U)
  <2>1. main.sym \in PublicAs(U, Main)  BY <1>14 DEF Invoking
  <2>2. QED  BY <2>1, <1>1, <1>20, PublicTyped DEF PublicAs
<1>25. QED  BY <1>1, <1>11, <1>12, <1>13, <1>22, <1>23, <1>24, StartDrawn

\* The range of a sequence is finite.
LEMMA SeqFinite ==
  ASSUME NEW S, NEW s \in Seq(S)
  PROVE  IsFiniteSet(Range(s))
<1>1. PICK n \in Nat : n = Len(s)  OBVIOUS
<1>2. DOMAIN s = 1 .. n /\ \A x : x \in Range(s) <=> \E k \in 1 .. n : s[k] = x  BY <1>1, RangeOf
<1>3. IsFiniteSet(1 .. n)  BY FS_Interval
<1>4. PICK f : f = [k \in 1 .. n |-> s[k]]  OBVIOUS
<1>5. f \in [1 .. n -> Range(s)]  BY <1>2, <1>4
<1>6. f \in Surjection(1 .. n, Range(s))
  <2>1. ASSUME NEW y \in Range(s) PROVE \E x \in 1 .. n : f[x] = y  BY <2>1, <1>2, <1>4
  <2>2. QED  BY <2>1, <1>5, Zenon DEF Surjection
<1>7. QED  BY <1>3, <1>6, FS_Surjection

\* After crt0 the module is the one dead code is removed from.
LEMMA SynthesizedDrawn ==
  ASSUME NEW m, NEW U, NEW H, ImportsResolved(m, U, H), Outlined(m, U), Program(U, H), Apart(U), NEW noStdlib,
         NEW n, n = Synthesize(m, noStdlib), NEW W, W <=> (~noStdlib /\ \E u \in U : Main \in Defined(u))
  PROVE  Whichever(n, U, H, W)
<1>1. PICK s : s = MaterialiseState(m)  OBVIOUS
<1>2. Ready(s, U, H)  BY <1>1, ReadyState
<1>3. HasMain(s) <=> \E u \in U : Main \in Defined(u)  BY <1>2, MainFound
<1>4. n = IF noStdlib \/ ~HasMain(s) THEN s ELSE AddCrt0(s)  BY <1>1 DEF Synthesize
<1>5. Drawn(n, U, W, FunctionsOf(U)) /\ Opened(n, U, W)
  <2>1. CASE noStdlib \/ ~HasMain(s)
    <3>1. n = s /\ ~W  BY <2>1, <1>3, <1>4
    <3>2. QED  BY <3>1, <1>2, PlainDrawn
  <2>2. CASE ~(noStdlib \/ ~HasMain(s))
    <3>1. n = AddCrt0(s) /\ HasMain(s) /\ W  BY <2>2, <1>3, <1>4
    <3>2. QED  BY <3>1, <1>2, WrappedDrawn
  <2>3. QED  BY <2>1, <2>2
<1>6. Linked(n, U, H)  BY SynthesizeWorks
<1>7. IsFiniteSet(FunctionsOf(U))
  <2>1. PICK d : d = Ids(m)  OBVIOUS
  <2>2. d \in Seq(Symbols) /\ Range(d) = FunctionsOf(U)
    <3>1. m \in Modules  BY DEF ImportsResolved, Whole
    <3>2. QED  BY <3>1, <2>1, IdsOf DEF ImportsResolved
  <2>3. IsFiniteSet(Range(d))  BY <2>2, SeqFinite
  <2>4. QED  BY <2>2, <2>3
<1>8. QED  BY <1>5, <1>6, <1>7 DEF Whichever

\* No step of the scan runs past the inputs.
LEMMA OutlineScan ==
  ASSUME ScanTyped, OutlineInv, Scan
  PROVE  OutlineInv'
<1>1. Units' = Units /\ UNCHANGED <<job, out, phase>>  BY ScanWorks
<1>2. Scanned  BY DEF OutlineInv
<1>3. pulled' = pulled /\ next' <= Len(job.inputs) + 1
  <2>1. CASE Pull!OpenArchive
    <3>1. next \in DOMAIN cmd.inputs /\ next' = next + 1 /\ pulled' = pulled
      BY <2>1 DEF Pull!OpenArchive
    <3>2. PICK i, n : i = job.inputs /\ n = next  OBVIOUS
    <3>3. i \in Seq(Input)  BY <3>2, JobIs DEF ScanTyped
    <3>4. n \in DOMAIN i  BY <3>1, <3>2, NextInput
    <3>5. PICK l \in Nat : l = Len(i) /\ DOMAIN i = 1 .. l  BY <3>3
    <3>6. n + 1 <= l + 1  BY <3>4, <3>5
    <3>7. QED  BY <3>1, <3>2, <3>5, <3>6
  <2>2. ASSUME UNCHANGED <<next, pulled>> PROVE pulled' = pulled /\ next' <= Len(job.inputs) + 1
    BY <2>2, <1>2 DEF Scanned
  <2>3. CASE Pull!NoInputs  BY <2>2, <2>3 DEF Pull!NoInputs, Pull!Fail
  <2>4. CASE Pull!InputFails  BY <2>2, <2>4 DEF Pull!InputFails, Pull!Fail
  <2>5. CASE Pull!StartPull  BY <2>2, <2>5 DEF Pull!StartPull
  <2>6. CASE Pull!BeginPass
    <3>1. UNCHANGED <<next, pulled>>  BY <2>6, Zenon DEF Pull!BeginPass
    <3>2. QED  BY <2>2, <3>1
  <2>7. CASE Pull!EndPull  BY <2>2, <2>7 DEF Pull!EndPull
  <2>8. CASE Pull!EnterArchive  BY <2>2, <2>8 DEF Pull!EnterArchive
  <2>9. CASE Pull!EndPass  BY <2>2, <2>9 DEF Pull!EndPass
  <2>10. CASE Pull!LeaveArchive  BY <2>2, <2>10 DEF Pull!LeaveArchive
  <2>11. CASE Pull!SkipMember  BY <2>2, <2>11 DEF Pull!SkipMember
  <2>12. CASE Pull!PullFails  BY <2>2, <2>12 DEF Pull!PullFails, Pull!Fail
  <2>13. QED  BY <2>1, <2>3, <2>4, <2>5, <2>6, <2>7, <2>8, <2>9, <2>10, <2>11, <2>12 DEF Scan
<1>4. Scanned'  BY <1>1, <1>2, <1>3, ScannedSame
<1>5. QED  BY <1>1, <1>4 DEF OutlineInv

\* The phases leave the scan where it ended.
LEMMA ScannedPhase ==
  ASSUME ScanTyped, OutlineInv, NEW from, NEW to, Phase(from, to)
  PROVE  Scanned'
<1>1. UNCHANGED <<job, next, pulled>> /\ Scanned  BY DEF Phase, scanVars, OutlineInv
<1>2. next' <= Len(job.inputs) + 1  BY <1>1 DEF Scanned
<1>3. QED  BY <1>1, <1>2, ScannedSame

\* Every step keeps OutlineInv.
LEMMA OutlineStep ==
  ASSUME ScanTyped, MergeInv, OutlineInv, [Next]_vars
  PROVE  OutlineInv'
<1>1. CASE MergeTU  BY <1>1, OutlineMergeTU
<1>2. CASE PullMember  BY <1>2, OutlinePull
<1>3. CASE Scan  BY <1>3, OutlineScan
<1>4. CASE Resolve
  <2>1. Phase("resolve", "crt0") /\ out' = ResolveImports(out, Host)  BY <1>4 DEF Resolve
  <2>2. Units' = Units /\ phase = "resolve" /\ Scanned'  BY <2>1, LinkPhase, ScannedPhase
  <2>3. MergedFrom(out, Units) /\ Program(Units, Host) /\ Outlined(out, Units)
    BY <2>2, ProgramIs DEF MergeInv, OutlineInv
  <2>4. PICK n : n = ResolveImports(out, Host)  OBVIOUS
  <2>5. Outlined(n, Units)  BY <2>3, <2>4, ResolvedOutlined
  <2>6. QED  BY <2>1, <2>2, <2>4, <2>5 DEF OutlineInv
<1>5. CASE Crt0 \/ DeadCodeElim \/ Prune \/ Diagnose
  <2>1. PICK from, to : to \notin {"resolve", "crt0"} /\ Phase(from, to)
    BY <1>5, Zenon DEF Crt0, DeadCodeElim, Prune, Diagnose
  <2>2. Scanned' /\ phase' = to  BY <2>1, LinkPhase, ScannedPhase
  <2>3. QED  BY <2>1, <2>2 DEF OutlineInv
<1>6. CASE UNCHANGED vars
  <2>1. UNCHANGED <<job, cmd, next, archives, exports, imports, pulled, arch, pc, out, phase>>
    BY <1>6 DEF vars, scanVars
  <2>2. Units' = Units  BY <2>1, ScanSame DEF ScanTyped
  <2>3. Scanned /\ next' <= Len(job.inputs) + 1  BY <2>1 DEF OutlineInv, Scanned
  <2>4. Scanned'  BY <2>1, <2>3, ScannedSame
  <2>5. QED  BY <2>1, <2>2, <2>4 DEF OutlineInv
<1>7. QED  BY <1>1, <1>2, <1>3, <1>4, <1>5, <1>6 DEF Next, Finished

-----------------------------------------------------------------------------
\* Before dead code is removed the module holds every function; afterwards those that are live.
LiveOnly(m, U, H, W) == Drawn(m, U, W, LiveIn(U, H, W) \cap FunctionsOf(U)) /\ IsFiniteSet(FunctionsOf(U))
LiveInv ==
  /\ phase = "dce" => Whichever(out, Units, Host, HasStart)
  /\ phase \in {"prune", "diagnose", "end"} => LiveOnly(out, Units, Host, HasStart)

\* Whether there is a start wrapper depends on the units and the job alone.
LEMMA StartSame ==
  ASSUME Units' = Units, job' = job
  PROVE  HasStart' <=> HasStart
BY DEF HasStart

\* What depends on the start of the program only through its truth.
LEMMA EntrySame ==
  ASSUME NEW V, NEW W, V <=> W, NEW U, NEW H
  PROVE  LiveIn(U, H, V) = LiveIn(U, H, W) /\ Start(V) = Start(W)
<1>1. EntryIn(U, V) = EntryIn(U, W)  BY DEF EntryIn
<1>2. Origin(U, H, V) = Origin(U, H, W)  BY <1>1 DEF Origin
<1>3. LiveIn(U, H, V) = LiveIn(U, H, W)  BY <1>2 DEF LiveIn
<1>4. Start(V) = Start(W)  BY DEF Start
<1>5. QED  BY <1>3, <1>4

\* Drawn, with an equivalent condition for the wrapper.
LEMMA DrawnEntry ==
  ASSUME NEW V, NEW W, V <=> W, NEW m, NEW U, NEW S, Drawn(m, U, V, S)
  PROVE  Drawn(m, U, W, S)
<1>1. EntryIn(U, V) = EntryIn(U, W) /\ Start(V) = Start(W)  BY DEF EntryIn, Start
<1>2. \A b : WrapperFrom(U, V, b) <=> WrapperFrom(U, W, b)  BY <1>1 DEF WrapperFrom
<1>3. \A b : DrawnBody(U, V, b) <=> DrawnBody(U, W, b)  BY <1>2 DEF DrawnBody
<1>4. QED  BY <1>1, <1>3 DEF Drawn

\* LiveOnly, with an equivalent condition for the wrapper.
LEMMA LiveOnlySame ==
  ASSUME NEW V, NEW W, V <=> W, NEW m, NEW U, NEW H, LiveOnly(m, U, H, V)
  PROVE  LiveOnly(m, U, H, W)
<1>1. LiveIn(U, H, V) = LiveIn(U, H, W)  BY EntrySame
<1>2. PICK S : S = LiveIn(U, H, W) \cap FunctionsOf(U)  OBVIOUS
<1>3. Drawn(m, U, V, S) /\ IsFiniteSet(FunctionsOf(U))  BY <1>1, <1>2 DEF LiveOnly
<1>4. Drawn(m, U, W, S)  BY <1>3, DrawnEntry
<1>5. QED  BY <1>2, <1>3, <1>4 DEF LiveOnly

\* Whichever, with an equivalent condition for the wrapper.
LEMMA WhicheverSame ==
  ASSUME NEW V, NEW W, V <=> W, NEW m, NEW U, NEW H, Whichever(m, U, H, V)
  PROVE  Whichever(m, U, H, W)
<1>1. Drawn(m, U, V, FunctionsOf(U)) /\ Opened(m, U, V)  BY DEF Whichever
<1>2. Drawn(m, U, W, FunctionsOf(U))  BY <1>1, DrawnEntry
<1>3. Opened(m, U, W)  BY <1>1 DEF Opened
<1>4. QED  BY <1>2, <1>3 DEF Whichever

\* crt0 leaves every function of the sources in place and adds the wrapper.
LEMMA LiveCrt0 ==
  ASSUME ScanTyped, OutlineInv, LinkInv, Crt0
  PROVE  LiveInv'
<1>1. Phase("crt0", "dce") /\ out' = Synthesize(out, job.noStdlib)  BY Zenon DEF Crt0
<1>2. Units' = Units /\ Host' = Host /\ job' = job /\ phase = "crt0" /\ phase' = "dce"
  BY <1>1, LinkPhase
<1>3. ImportsResolved(out, Units, Host) /\ Program(Units, Host)  BY <1>2, ProgramIs DEF LinkInv
<1>4. Outlined(out, Units) /\ Scanned  BY <1>2 DEF OutlineInv
<1>5. Apart(Units)  BY <1>4, UnitsApart
<1>6. PICK n : n = Synthesize(out, job.noStdlib)  OBVIOUS
<1>7. HasStart <=> (~job.noStdlib /\ \E u \in Units : Main \in Defined(u))  BY DEF HasStart
<1>8. Whichever(n, Units, Host, HasStart)  BY <1>3, <1>4, <1>5, <1>6, <1>7, SynthesizedDrawn
<1>9. HasStart <=> HasStart'  BY <1>2, StartSame
<1>10. PICK V, W : V = HasStart /\ W = HasStart'  OBVIOUS
<1>11. Whichever(n, Units, Host, W)
  <2>1. V <=> W  BY <1>9, <1>10
  <2>2. QED  BY <2>1, <1>8, <1>10, WhicheverSame
<1>12. QED  BY <1>1, <1>2, <1>6, <1>10, <1>11 DEF LiveInv

\* After dead code elimination LiveInv asks for the live functions alone.
LEMMA LiveLater ==
  ASSUME Units' = Units, Host' = Host, job' = job, phase' \in {"prune", "diagnose", "end"},
         LiveOnly(out', Units, Host, HasStart)
  PROVE  LiveInv'
<1>1. HasStart <=> HasStart'  BY StartSame
<1>2. PICK V, W : V = HasStart /\ W = HasStart'  OBVIOUS
<1>3. LiveOnly(out', Units, Host, W)
  <2>1. V <=> W  BY <1>1, <1>2
  <2>2. QED  BY <2>1, <1>2, LiveOnlySame
<1>4. phase' # "dce"  OBVIOUS
<1>5. QED  BY <1>2, <1>3, <1>4 DEF LiveInv

\* Every step keeps LiveInv.
LEMMA LiveStep ==
  ASSUME ScanTyped, MergeInv, LinkInv, OutlineInv, LiveInv, [Next]_vars
  PROVE  LiveInv'
<1>1. CASE MergeTU
  <2>1. pc = "merge" /\ phase' = phase  BY <1>1 DEF MergeTU, Pull!MergeTU
  <2>2. phase' = "resolve"  BY <2>1 DEF ScanTyped
  <2>3. QED  BY <2>2 DEF LiveInv
<1>2. CASE PullMember
  <2>1. pc = "member" /\ phase' = phase  BY <1>2 DEF PullMember, Pull!PullMember
  <2>2. phase' = "resolve"  BY <2>1 DEF ScanTyped
  <2>3. QED  BY <2>2 DEF LiveInv
<1>3. ASSUME Units' = Units, UNCHANGED <<job, out, phase>> PROVE LiveInv'
  <2>1. Host' = Host  BY <1>3 DEF Host
  <2>2. CASE phase = "dce"
    <3>1. HasStart <=> HasStart'  BY <1>3, StartSame
    <3>2. PICK V, W : V = HasStart /\ W = HasStart'  OBVIOUS
    <3>3. Whichever(out, Units, Host, V)  BY <2>2, <3>2 DEF LiveInv
    <3>4. V <=> W  BY <3>1, <3>2
    <3>5. Whichever(out, Units, Host, W)  BY <3>3, <3>4, WhicheverSame
    <3>6. QED  BY <3>2, <3>5, <1>3, <2>1, <2>2 DEF LiveInv
  <2>3. CASE phase \in {"prune", "diagnose", "end"}
    <3>1. LiveOnly(out, Units, Host, HasStart)  BY <2>3 DEF LiveInv
    <3>2. QED  BY <3>1, <1>3, <2>1, <2>3, LiveLater
  <2>4. CASE phase \notin {"dce", "prune", "diagnose", "end"}  BY <2>4, <1>3 DEF LiveInv
  <2>5. QED  BY <2>2, <2>3, <2>4
<1>4. CASE Scan
  <2>1. Units' = Units /\ UNCHANGED <<job, out, phase>>  BY <1>4, ScanWorks
  <2>2. QED  BY <2>1, <1>3
<1>5. CASE Resolve
  <2>1. Phase("resolve", "crt0")  BY <1>5 DEF Resolve
  <2>2. phase' = "crt0"  BY <2>1, LinkPhase
  <2>3. QED  BY <2>2 DEF LiveInv
<1>6. CASE Crt0  BY <1>6, LiveCrt0
<1>7. CASE DeadCodeElim
  <2>1. Phase("dce", "prune") /\ out' = Eliminate(out)  BY <1>7 DEF DeadCodeElim
  <2>2. Units' = Units /\ Host' = Host /\ job' = job /\ phase = "dce" /\ phase' = "prune"
    BY <2>1, LinkPhase
  <2>3. PICK W, n : W = HasStart /\ n = Eliminate(out)  OBVIOUS
  <2>4. Whichever(out, Units, Host, W)  BY <2>2, <2>3 DEF LiveInv
  <2>5. Drawn(n, Units, W, LiveIn(Units, Host, W) \cap FunctionsOf(Units))  BY <2>3, <2>4, EliminatedDrawn
  <2>6. LiveOnly(n, Units, Host, W)  BY <2>4, <2>5 DEF LiveOnly, Whichever
  <2>7. QED  BY <2>1, <2>2, <2>3, <2>6, LiveLater
<1>8. CASE Prune
  <2>1. Phase("prune", "diagnose") /\ out' = PruneImports(out, Runtime)  BY <1>8 DEF Prune
  <2>2. Units' = Units /\ Host' = Host /\ job' = job /\ phase = "prune" /\ phase' = "diagnose"
    BY <2>1, LinkPhase
  <2>3. PICK W, n, S : W = HasStart /\ n = PruneImports(out, Runtime) /\ S = LiveIn(Units, Host, W) \cap FunctionsOf(Units)
    OBVIOUS
  <2>4. LiveOnly(out, Units, Host, W)  BY <2>2, <2>3 DEF LiveInv
  <2>5. out \in Modules  BY <2>2 DEF LinkInv, LaterPhases, Linked, Whole
  <2>6. Drawn(n, Units, W, S)
    <3>1. Drawn(out, Units, W, S)  BY <2>3, <2>4 DEF LiveOnly
    <3>2. QED  BY <3>1, <2>3, <2>5, PrunedDrawn
  <2>7. LiveOnly(n, Units, Host, W)  BY <2>3, <2>4, <2>6 DEF LiveOnly
  <2>8. QED  BY <2>1, <2>2, <2>3, <2>7, LiveLater
<1>9. CASE Diagnose
  <2>1. Phase("diagnose", "end") /\ out' = out  BY <1>9 DEF Diagnose
  <2>2. Units' = Units /\ Host' = Host /\ job' = job /\ phase = "diagnose" /\ phase' = "end"
    BY <2>1, LinkPhase
  <2>3. LiveOnly(out, Units, Host, HasStart)  BY <2>2 DEF LiveInv
  <2>4. QED  BY <2>1, <2>2, <2>3, LiveLater
<1>10. CASE UNCHANGED vars
  <2>1. UNCHANGED <<job, cmd, next, archives, exports, imports, pulled, arch, pc, out, phase>>
    BY <1>10 DEF vars, scanVars
  <2>2. Units' = Units  BY <2>1, ScanSame DEF ScanTyped
  <2>3. QED  BY <2>1, <2>2, <1>3
<1>11. QED  BY <1>1, <1>2, <1>4, <1>5, <1>6, <1>7, <1>8, <1>9, <1>10 DEF Next, Finished

\* LiveInv holds initially.
LEMMA LiveInit == Init => LiveInv
<1>1. Init => phase = "resolve"  BY Zenon DEF Init
<1>2. QED  BY <1>1 DEF LiveInv

\* The functions of the linked program are those the sources can reach.
LEMMA ExactlyIs ==
  ASSUME ScanTyped, MergeInv, LinkInv, LiveInv
  PROVE  ExactlyLive
<1>1. SUFFICES ASSUME phase = "end"
               PROVE  /\ {out.funcs[k].id : k \in DOMAIN out.funcs}
                           = (Live \cap Functions) \cup {StartWrapper : k \in {1} \cap IF HasStart THEN {1} ELSE {}}
                      /\ \A j, k \in DOMAIN out.funcs : out.funcs[j].id = out.funcs[k].id => j = k
  BY DEF ExactlyLive
<1>2. LiveOnly(out, Units, Host, HasStart) /\ Linked(out, Units, Host)  BY <1>1 DEF LiveInv, LinkInv, LaterPhases
<1>3. out \in Modules /\ IsFiniteSet(FunctionsOf(Units))  BY <1>2 DEF LiveOnly, Linked, Whole
<1>4. \A u \in Units : u \in TranslationUnit  BY ProgramIs DEF Program
<1>5. PICK S, L, F, T : /\ S = LiveIn(Units, Host, HasStart) \cap FunctionsOf(Units) /\ L = Live /\ F = Functions
                        /\ T = Start(HasStart)
  OBVIOUS
<1>6. S = L \cap F  BY <1>3, <1>4, <1>5, LiveIs, FunctionsAre
<1>7. T = {StartWrapper : k \in {1} \cap IF HasStart THEN {1} ELSE {}}
  <2>1. CASE HasStart
    <3>1. T = {StartWrapper}  BY <2>1, <1>5 DEF Start
    <3>2. 1 \in {1} \cap IF HasStart THEN {1} ELSE {}  BY <2>1
    <3>3. QED  BY <3>1, <3>2
  <2>2. CASE ~HasStart
    <3>1. T = {}  BY <2>2, <1>5 DEF Start
    <3>2. ({1} \cap IF HasStart THEN {1} ELSE {}) = {}  BY <2>2
    <3>3. QED  BY <3>1, <3>2
  <2>3. QED  BY <2>1, <2>2
<1>8. OnceEach(Ids(out)) /\ Range(Ids(out)) = S \cup T  BY <1>2, <1>5 DEF LiveOnly, Drawn
<1>9. PICK f, d : f = out.funcs /\ d = Ids(out)  OBVIOUS
<1>10. /\ d \in Seq(Symbols) /\ Len(d) = Len(f) /\ DOMAIN f = 1 .. Len(f)
       /\ \A k \in 1 .. Len(f) : d[k] = f[k].id
  BY <1>3, <1>9, IdsOf, ModuleFields
<1>11. \A s : s \in Range(d) <=> \E k \in 1 .. Len(f) : f[k].id = s
  <2>1. \A s : s \in Range(d) <=> \E k \in 1 .. Len(f) : d[k] = s  BY <1>10, RangeOf
  <2>2. QED  BY <2>1, <1>10
<1>12. {f[k].id : k \in DOMAIN f} = S \cup T
  <2>1. \A s : s \in {f[k].id : k \in DOMAIN f} <=> s \in Range(d)  BY <1>10, <1>11
  <2>2. QED  BY <2>1, <1>8, <1>9
<1>13. \A j, k \in DOMAIN f : f[j].id = f[k].id => j = k
  <2>1. \A j, k \in 1 .. Len(f) : d[j] = d[k] => j = k  BY <1>8, <1>9, <1>10 DEF OnceEach
  <2>2. QED  BY <2>1, <1>10
<1>14. {f[k].id : k \in DOMAIN f} = (L \cap F) \cup {StartWrapper : k \in {1} \cap IF HasStart THEN {1} ELSE {}}
  BY <1>6, <1>7, <1>12
<1>15. QED  BY <1>5, <1>9, <1>13, <1>14

\* ExactlyLive: once the link has ended, the program holds the functions reachable from
\* its entry and from the functions whose address is taken, no other and each once, and the
\* start wrapper: dead code elimination removes all that is dead and nothing that is live.
THEOREM LiveCorrect == Spec => []ExactlyLive
<1>1. Init => ScanTyped /\ MergeInv /\ LinkInv /\ OutlineInv /\ LiveInv
  BY ScanInit, MergeInit, LinkInit, OutlineInit, LiveInit
<1>2. ScanTyped /\ MergeInv /\ LinkInv /\ OutlineInv /\ LiveInv /\ [Next]_vars
        => ScanTyped' /\ MergeInv' /\ LinkInv' /\ OutlineInv' /\ LiveInv'
  BY MergeStep, LinkStep, OutlineStep, LiveStep
<1>3. ScanTyped /\ MergeInv /\ LinkInv /\ LiveInv => ExactlyLive  BY ExactlyIs
<1>4. QED  BY <1>1, <1>2, <1>3, PTL DEF Spec

\* What the sources name is a function of theirs or one they import.
SourceFunctions(U) == FunctionsOf(U) \cup FuncWants(U)

\* What a unit's declaration names is a function of the sources or imported by them.
LEMMA NamedIs ==
  ASSUME NEW U, NEW H, Program(U, H), NEW u \in U, NEW x \in Declared(u)
  PROVE  FuncSymbol(u, x) \in SourceFunctions(U)
<1>1. u \in TranslationUnit  BY DEF Program
<1>2. CASE x \in Defined(u)
  <2>1. FuncSymbol(u, x) = Symbol(u.name, x)  BY <1>1, <1>2, FuncWorks
  <2>2. QED  BY <2>1, <1>2 DEF SourceFunctions, FunctionsOf
<1>3. CASE x \notin Defined(u)
  <2>1. FuncSymbol(u, x) \in Range(FimpOf(u))  BY <1>1, <1>3, FuncWorks
  <2>2. QED  BY <2>1 DEF SourceFunctions, FuncWants
<1>4. QED  BY <1>2, <1>3

\* What a name means is the name itself, or a function of the sources.
LEMMA MeaningNamed ==
  ASSUME NEW U, NEW H, Program(U, H), NEW t
  PROVE  Meaning(U, H, "func", t) = t \/ Meaning(U, H, "func", t) \in FunctionsOf(U)
<1>1. SUFFICES ASSUME Meaning(U, H, "func", t) # t PROVE Meaning(U, H, "func", t) \in FunctionsOf(U)
  OBVIOUS
<1>2. PICK O : O = Owners(U, "func", t.name)  OBVIOUS
<1>3. O # {} /\ Meaning(U, H, "func", t) = Symbol(Some(O).name, t.name)  BY <1>1, <1>2 DEF Meaning
<1>4. PICK v : v = Some(O)  OBVIOUS
<1>5. v \in O  BY <1>3, <1>4 DEF Some
<1>6. v \in U /\ t.name \in Public(v, "func")  BY <1>2, <1>5 DEF Owners
<1>7. v \in TranslationUnit  BY <1>6 DEF Program
<1>8. t.name \in Defined(v)
  <2>1. Offered(v, "func") = Public(v, "func") \cup ({Main} \cap Defined(v))  BY <1>7, OfferedIs
  <2>2. Offered(v, "func") \subseteq Defined(v)  BY <1>7, ExternalWorks
  <2>3. QED  BY <2>1, <2>2, <1>6
<1>9. QED  BY <1>3, <1>4, <1>6, <1>8 DEF FunctionsOf

\* What the names of the sources mean are names of the sources.
LEMMA MeaningsNamed ==
  ASSUME NEW U, NEW H, Program(U, H), NEW T, T \subseteq SourceFunctions(U)
  PROVE  Meanings(U, H, T) \subseteq SourceFunctions(U)
<1>1. SUFFICES ASSUME NEW t \in T PROVE Meaning(U, H, "func", t) \in SourceFunctions(U)  BY DEF Meanings
<1>2. QED  BY MeaningNamed DEF SourceFunctions

\* Calls name functions of the sources.
LEMMA CallSymsNamed ==
  ASSUME NEW U, NEW H, Program(U, H), NEW s
  PROVE  CallSyms(U, s) \subseteq SourceFunctions(U)
<1>1. SUFFICES ASSUME NEW t \in CallSyms(U, s) PROVE t \in SourceFunctions(U)  OBVIOUS
<1>2. PICK u \in U : \E n \in FuncUses(u, s.name, "call") : t = FuncSymbol(u, n)  BY DEF CallSyms
<1>3. PICK n \in FuncUses(u, s.name, "call") : t = FuncSymbol(u, n)  BY <1>2
<1>4. PICK f \in Range(Decls(u, "func")) : \E x \in Range(f.uses) : x.use = "call" /\ n = x.name
  BY DEF FuncUses
<1>5. PICK x \in Range(f.uses) : x.use = "call" /\ n = x.name  BY <1>4
<1>6. WellFormed(u)  BY DEF Program, Linkable
<1>7. x.name \in Declared(u)  BY <1>5, <1>6 DEF WellFormed
<1>8. QED  BY <1>3, <1>5, <1>7, NamedIs

\* Taken addresses name functions of the sources.
LEMMA TakenNamed ==
  ASSUME NEW U, NEW H, Program(U, H)
  PROVE  TakenSyms(U) \subseteq SourceFunctions(U)
<1>1. SUFFICES ASSUME NEW t \in TakenSyms(U) PROVE t \in SourceFunctions(U)  OBVIOUS
<1>2. PICK u \in U : \E x \in Range(Slots(u)) : t = FuncSymbol(u, x)  BY DEF TakenSyms
<1>3. PICK x \in Range(Slots(u)) : t = FuncSymbol(u, x)  BY <1>2
<1>4. u \in TranslationUnit /\ WellFormed(u)  BY DEF Program, Linkable
<1>5. x \in Declared(u)  BY <1>4, TakenWorks
<1>6. QED  BY <1>3, <1>5, NamedIs

\* What is live are functions the sources name.
LEMMA LiveNamed ==
  ASSUME NEW U, NEW H, Program(U, H), IsFiniteSet(FunctionsOf(U)), NEW W
  PROVE  LiveIn(U, H, W) \subseteq SourceFunctions(U)
<1>1. EntryIn(U, W) \subseteq SourceFunctions(U)  BY EntryTyped DEF SourceFunctions
<1>2. Origin(U, H, W) \subseteq SourceFunctions(U)  BY <1>1, TakenNamed, MeaningsNamed DEF Origin
<1>3. Whence(U, H, SourceFunctions(U))
  <2>1. ASSUME NEW s PROVE Callees(U, H, s) \subseteq SourceFunctions(U)
    BY CallSymsNamed, MeaningsNamed DEF Callees
  <2>2. QED  BY <2>1 DEF Whence
<1>4. QED  BY <1>2, <1>3, LiveLeast

-----------------------------------------------------------------------------
\* The module after dead code is removed.
Trim(m, U, H, W) == Linked(m, U, H) /\ LiveOnly(m, U, H, W) /\ Program(U, H) /\ Apart(U)

\* What is known of the module after dead code is removed.
LEMMA TrimIs ==
  ASSUME NEW m, NEW U, NEW H, NEW W, Trim(m, U, H, W)
  PROVE  /\ Linked(m, U, H) /\ Whole(m) /\ m \in Modules /\ Program(U, H) /\ Apart(U) /\ IsFiniteSet(FunctionsOf(U))
         /\ Range(Ids(m)) = (LiveIn(U, H, W) \cap FunctionsOf(U)) \cup Start(W)
         /\ \A k \in 1 .. Len(m.funcs) : DrawnBody(U, W, m.funcs[k])
         /\ TabSyms(m) = TakenSyms(U) /\ PubSyms(m) \subseteq FunctionsOf(U)
         /\ Range(m.fimp) \subseteq FuncWants(U) \cup Range(SysProc)
BY DEF Trim, LiveOnly, Drawn, Linked, Whole

\* A body that is left belongs to a live function, or is the wrapper.
LEMMA BodyLive ==
  ASSUME NEW m, NEW U, NEW H, NEW W, Trim(m, U, H, W), NEW k \in 1 .. Len(m.funcs), NEW t \in CallsOf(m.funcs[k])
  PROVE  \/ t \in EntryIn(U, W) \cup Range(SysProc)
         \/ \E s \in LiveIn(U, H, W) : t \in CallSyms(U, s)
<1>1. /\ m \in Modules /\ Program(U, H) /\ Apart(U) /\ DrawnBody(U, W, m.funcs[k])
      /\ Range(Ids(m)) = (LiveIn(U, H, W) \cap FunctionsOf(U)) \cup Start(W)
  BY TrimIs
<1>2. PICK b : b = m.funcs[k]  OBVIOUS
<1>3. CASE b.id = StartWrapper  BY <1>1, <1>2, <1>3 DEF DrawnBody, WrapperFrom
<1>4. CASE b.id # StartWrapper
  <2>1. BodyFrom(U, b)  BY <1>1, <1>2, <1>4 DEF DrawnBody
  <2>2. PICK u \in U : \E f \in Range(Decls(u, "func")) : b.id = Symbol(u.name, f.name) /\ CallsOf(b) = BodySyms(u, f)
    BY <2>1 DEF BodyFrom
  <2>3. PICK f \in Range(Decls(u, "func")) : b.id = Symbol(u.name, f.name) /\ CallsOf(b) = BodySyms(u, f)  BY <2>2
  <2>4. u \in TranslationUnit  BY <1>1 DEF Program
  <2>5. CallsOf(b) = CallSyms(U, b.id)  BY <1>1, <2>3, <2>4, CallsOnce
  <2>6. b.id \in Range(Ids(m))
    <3>1. PICK d : d = Ids(m)  OBVIOUS
    <3>2. d \in Seq(Symbols) /\ Len(d) = Len(m.funcs) /\ d[k] = b.id  BY <1>1, <1>2, <3>1, IdsOf
    <3>3. QED  BY <3>1, <3>2, RangeOf
  <2>7. b.id \in LiveIn(U, H, W)  BY <1>1, <1>4, <2>6 DEF Start
  <2>8. QED  BY <1>2, <2>5, <2>7
<1>5. QED  BY <1>3, <1>4

\* An import a live function refers to is live, unless it is the host's.
LEMMA UsedLive ==
  ASSUME NEW m, NEW U, NEW H, NEW W, Trim(m, U, H, W), NEW i \in Used(m, "func"), NEW s, s = FuncAt(m, i),
         s \in Range(m.fimp), s.mod \notin H
  PROVE  s \in LiveIn(U, H, W) /\ Meaning(U, H, "func", s) = s
<1>1. /\ Linked(m, U, H) /\ Whole(m) /\ m \in Modules /\ Program(U, H) /\ Apart(U) /\ IsFiniteSet(FunctionsOf(U))
      /\ TabSyms(m) = TakenSyms(U) /\ PubSyms(m) \subseteq FunctionsOf(U)
      /\ Range(m.fimp) \subseteq FuncWants(U) \cup Range(SysProc)
  BY TrimIs
<1>2. s \notin FunctionsOf(U) /\ s # StartWrapper  BY <1>1, ImportsApart
<1>3. s \notin Range(SysProc)
  <2>1. "sys_proc" \in H  BY <1>1 DEF Program
  <2>2. QED  BY <2>1, SysProcIs
<1>4. PICK L : L = LiveIn(U, H, W)  OBVIOUS
<1>5. Whence(U, H, L) /\ Origin(U, H, W) \subseteq L  BY <1>1, <1>4, LiveClosed
<1>6. i \notin m.start  BY <1>1, <1>2 DEF Linked
<1>7. PICK r \in AllRefs(m) : r.kind = "func" /\ r.idx = i  BY <1>6 DEF Used
<1>8. s = Meaning(U, H, "func", r.sym)  BY <1>1, <1>7, CallMeans
<1>9. Meaning(U, H, "func", s) = s
  <2>1. s = r.sym  BY <1>1, <1>2, <1>8, MeaningNamed
  <2>2. QED  BY <2>1, <1>8
<1>10. CASE \E k \in 1 .. Len(m.funcs) : r \in m.funcs[k].refs
  <2>1. PICK k \in 1 .. Len(m.funcs) : r \in m.funcs[k].refs  BY <1>10
  <2>2. PICK t : t = r.sym  OBVIOUS
  <2>3. t \in CallsOf(m.funcs[k])  BY <1>7, <2>1, <2>2 DEF CallsOf
  <2>4. \/ t \in EntryIn(U, W) \cup Range(SysProc)
        \/ \E f \in LiveIn(U, H, W) : t \in CallSyms(U, f)
    BY <2>1, <2>3, BodyLive
  <2>5. CASE t \in EntryIn(U, W)
    <3>1. t \in FunctionsOf(U)  BY <1>1, <2>5, EntryTyped
    <3>2. s = t  BY <3>1, <2>2, <1>8, MeaningDefined
    <3>3. QED  BY <3>1, <3>2, <1>2
  <2>6. CASE t \in Range(SysProc)
    <3>1. s = t  BY <2>6, <2>2, <1>8, MeaningProvided
    <3>2. QED  BY <3>1, <2>6, <1>3
  <2>7. CASE \E f \in LiveIn(U, H, W) : t \in CallSyms(U, f)
    <3>1. PICK f \in L : t \in CallSyms(U, f)  BY <2>7, <1>4
    <3>2. s \in Callees(U, H, f)  BY <3>1, <2>2, <1>8 DEF Callees, Meanings
    <3>3. QED  BY <3>1, <3>2, <1>4, <1>5, <1>9 DEF Whence
  <2>8. QED  BY <2>4, <2>5, <2>6, <2>7
<1>11. CASE \E k \in 1 .. Len(m.table) : r = m.table[k]
  <2>1. PICK k \in 1 .. Len(m.table) : r = m.table[k]  BY <1>11
  <2>2. FuncAt(m, m.table[k].idx) \in Meanings(U, H, TakenSyms(U))  BY <1>1, TableMeans
  <2>3. s \in Origin(U, H, W)  BY <2>1, <2>2, <1>7 DEF Origin
  <2>4. QED  BY <2>3, <1>4, <1>5, <1>9
<1>12. CASE \E k \in 1 .. Len(m.exps) : r = m.exps[k].ref
  <2>1. PICK k \in 1 .. Len(m.exps) : r = m.exps[k].ref  BY <1>12
  <2>2. FuncAt(m, m.exps[k].ref.idx) = m.exps[k].ref.sym /\ m.exps[k].ref.sym \in PubSyms(m)
    <3>1. m.exps[k].ref.kind = "func"  BY <2>1, <1>7
    <3>2. QED  BY <3>1, <1>1, ExportMeans
  <2>3. s \in FunctionsOf(U)  BY <2>1, <2>2, <1>1, <1>7
  <2>4. QED  BY <2>3, <1>2
<1>13. QED  BY <1>1, <1>7, <1>10, <1>11, <1>12, AllRefsAre

\* A live function that is not there is an import something refers to.
LEMMA LiveUsed ==
  ASSUME NEW m, NEW U, NEW H, NEW W, Trim(m, U, H, W), NEW s \in LiveIn(U, H, W), s \notin FunctionsOf(U)
  PROVE  \E i \in Used(m, "func") \cap Numbers(m) : FuncAt(m, i) = s
<1>1. /\ Linked(m, U, H) /\ Whole(m) /\ m \in Modules /\ Program(U, H) /\ Apart(U) /\ IsFiniteSet(FunctionsOf(U))
      /\ TabSyms(m) = TakenSyms(U) /\ \A k \in 1 .. Len(m.funcs) : DrawnBody(U, W, m.funcs[k])
      /\ Range(Ids(m)) = (LiveIn(U, H, W) \cap FunctionsOf(U)) \cup Start(W)
  BY TrimIs
<1>2. PICK L, F, M : /\ L = LiveIn(U, H, W) /\ F = FunctionsOf(U)
                     /\ M = {FuncAt(m, i) : i \in Used(m, "func") \cap Numbers(m)}
  OBVIOUS
<1>3. Whence(U, H, L) /\ Origin(U, H, W) \subseteq L /\ L \subseteq Symbols  BY <1>1, <1>2, LiveClosed
<1>4. ASSUME NEW r \in AllRefs(m), r.kind = "func" PROVE Meaning(U, H, "func", r.sym) \in M
  <2>1. FuncAt(m, r.idx) = Meaning(U, H, "func", r.sym) /\ r.idx \in Numbers(m)  BY <1>1, <1>4, CallMeans
  <2>2. r.idx \in Used(m, "func")  BY <1>4, UsedIs
  <2>3. QED  BY <2>1, <2>2, <1>2
<1>5. PICK S : S = L \cap (F \cup M)  OBVIOUS
<1>6. Meanings(U, H, TakenSyms(U)) \subseteq M
  <2>1. SUFFICES ASSUME NEW t \in Meanings(U, H, TakenSyms(U)) PROVE t \in M  OBVIOUS
  <2>2. PICK k \in 1 .. Len(m.table) : FuncAt(m, m.table[k].idx) = t  BY <1>1, TableMeans
  <2>3. PICK r : r = m.table[k]  OBVIOUS
  <2>4. r \in AllRefs(m)  BY <1>1, <2>2, <2>3, AllRefsAre
  <2>5. r.kind = "func"  BY <1>1, <2>2, <2>3, ModuleFields DEF Whole, InTable
  <2>6. Meaning(U, H, "func", r.sym) \in M  BY <1>4, <2>4, <2>5
  <2>7. FuncAt(m, r.idx) = Meaning(U, H, "func", r.sym)  BY <1>1, <2>4, <2>5, CallMeans
  <2>8. QED  BY <2>2, <2>3, <2>6, <2>7
<1>7. Origin(U, H, W) \subseteq S
  <2>1. EntryIn(U, W) \subseteq F  BY <1>1, <1>2, EntryTyped
  <2>2. QED  BY <2>1, <1>3, <1>5, <1>6 DEF Origin
<1>8. ASSUME NEW f \in S, NEW t \in Callees(U, H, f) PROVE t \in S
  <2>1. f \in L /\ f \in Symbols  BY <1>3, <1>5, <1>8
  <2>2. f \in F  BY <2>1, <1>2, <1>8, CallersDefined
  <2>3. f \in Range(Ids(m)) /\ f # StartWrapper  BY <2>1, <2>2, <1>1, <1>2, WrapperApart
  <2>4. PICK d : d = Ids(m)  OBVIOUS
  <2>5. /\ d \in Seq(Symbols) /\ Len(d) = Len(m.funcs) /\ \A k \in 1 .. Len(m.funcs) : d[k] = m.funcs[k].id
    BY <2>4, <1>1, IdsOf
  <2>6. PICK k \in 1 .. Len(m.funcs) : d[k] = f  BY <2>3, <2>4, <2>5, RangeOf
  <2>7. PICK b : b = m.funcs[k]  OBVIOUS
  <2>8. b.id = f /\ DrawnBody(U, W, b)  BY <2>5, <2>6, <2>7, <1>1
  <2>9. BodyFrom(U, b)  BY <2>3, <2>8 DEF DrawnBody
  <2>10. PICK u \in U : \E g \in Range(Decls(u, "func")) : b.id = Symbol(u.name, g.name) /\ CallsOf(b) = BodySyms(u, g)
    BY <2>9 DEF BodyFrom
  <2>11. PICK g \in Range(Decls(u, "func")) : b.id = Symbol(u.name, g.name) /\ CallsOf(b) = BodySyms(u, g)  BY <2>10
  <2>12. u \in TranslationUnit  BY <1>1 DEF Program
  <2>13. CallsOf(b) = CallSyms(U, f)  BY <1>1, <2>8, <2>11, <2>12, CallsOnce
  <2>14. PICK c \in CallsOf(b) : t = Meaning(U, H, "func", c)  BY <2>13, <1>8 DEF Callees, Meanings
  <2>15. PICK r \in b.refs : r.kind = "func" /\ r.sym = c  BY <2>14 DEF CallsOf
  <2>16. r \in AllRefs(m)  BY <1>1, <2>7, <2>15, AllRefsAre
  <2>17. t \in M  BY <2>14, <2>15, <2>16, <1>4
  <2>18. t \in L  BY <2>1, <1>3, <1>8 DEF Whence
  <2>19. QED  BY <2>17, <2>18, <1>5
<1>9. Whence(U, H, S)  BY <1>8 DEF Whence
<1>10. L \subseteq S  BY <1>1, <1>2, <1>7, <1>9, LiveLeast
<1>11. s \in M  BY <1>2, <1>5, <1>10
<1>12. QED  BY <1>2, <1>11

\* The functions nobody defines that the program needs; the imports that are left.
UndefinedIn(U, H, s) ==
  Meaning(U, H, "func", s) = s /\ s.mod \notin H \cup {u.name : u \in U} /\ s \notin StateImports
Missing(U, H, W) == {s \in LiveIn(U, H, W) : UndefinedIn(U, H, s)}
Left(m, H) == {s \in Imports(m) : s.mod \notin H /\ s \notin StateImports}
Bare(m, U) == NoneUndefined(U) => Range(m.gimp) = {}

\* The function an import's number denotes.
LEMMA ImportAt ==
  ASSUME NEW m \in Modules, NEW i \in Nat, i < Len(m.fimp)
  PROVE  FuncAt(m, i) = m.fimp[i + 1] /\ i + 1 \in 1 .. Len(m.fimp) /\ i \in Numbers(m)
<1>1. PICK a, d : a = m.fimp /\ d = Ids(m)  OBVIOUS
<1>2. a \in Seq(Symbols) /\ d \in Seq(Symbols) /\ Len(a) \in Nat /\ Len(d) \in Nat /\ Len(d) = Len(m.funcs)
  BY <1>1, ModuleFields, IdsOf
<1>3. PICK l, n \in Nat : l = Len(a) /\ n = Len(d)  BY <1>2
<1>4. i < Len(a) + Len(d) /\ i < Len(a)  BY <1>1, <1>3
<1>5. Numbered(a, d, i) = a[i + 1]  BY <1>2, <1>4, NumberedAt
<1>6. NFuncs(m) = l + n  BY <1>1, <1>2, <1>3 DEF NFuncs
<1>7. Numbers(m) = 0 .. (l + n) - 1  BY <1>6 DEF Numbers
<1>8. i \in 0 .. (l + n) - 1 /\ i + 1 \in 1 .. l  BY <1>1, <1>3
<1>9. QED  BY <1>1, <1>3, <1>5, <1>7, <1>8 DEF FuncAt

\* The imports that are left are the functions nobody defines that the program needs.
LEMMA PrunedLeft ==
  ASSUME NEW m, NEW U, NEW H, NEW W, Trim(m, U, H, W), NEW rt, \A s \in rt : s.mod \in H \/ s \in StateImports,
         NEW n, n = PruneFunctionImports(m, rt), Range(m.gimp) = {}
  PROVE  Left(n, H) = Missing(U, H, W) /\ Range(n.gimp) = {}
<1>1. /\ m \in Modules /\ Program(U, H) /\ Apart(U) /\ IsFiniteSet(FunctionsOf(U))
      /\ Range(Ids(m)) = (LiveIn(U, H, W) \cap FunctionsOf(U)) \cup Start(W)
      /\ Range(m.fimp) \subseteq FuncWants(U) \cup Range(SysProc)
  BY TrimIs
<1>2. PICK a, drop : a = m.fimp /\ drop = Unused(m, "func", a, rt)  OBVIOUS
<1>3. PICK w : w = Without(a, drop)  OBVIOUS
<1>4. a \in Seq(Symbols) /\ Len(a) \in Nat  BY <1>1, <1>2, ModuleFields
<1>5. drop \subseteq 0 .. Len(a) - 1  BY <1>2 DEF Unused
<1>6. w \in Seq(Symbols)  BY <1>3, <1>4, <1>5, DroppedRange
<1>7. LeftOf(w, a, drop)  BY <1>3, <1>4, <1>5, WithoutEntries
<1>8. n.fimp = w /\ n.gimp = m.gimp
  <2>1. PICK F : F = [i \in Nat |-> NewNumber(drop, i)]  OBVIOUS
  <2>2. PICK S, gi : S = Same /\ gi = m.gimp  OBVIOUS
  <2>3. n = Renumber(m, F, S, S, w, gi)  BY <1>1, <1>2, <1>3, <2>1, <2>2, PruneFunctionsIs
  <2>4. F \in [Nat -> Nat]
    <3>1. \A i \in Nat : NewNumber(drop, i) \in Nat  BY <1>4, <1>5, WithoutWorks
    <3>2. QED  BY <3>1, <2>1
  <2>5. gi \in Seq(Symbols) /\ S \in [Nat -> Nat]  BY <1>1, <2>2, ModuleFields, SameIs
  <2>6. Renumbers(n, m, F, S, S, w, gi)  BY <1>1, <1>6, <2>3, <2>4, <2>5 DEF Renumbers
  <2>7. n.fimp = w /\ n.gimp = gi  BY <2>6, RenumberWorks
  <2>8. QED  BY <2>2, <2>7
<1>9. Left(n, H) = {s \in Range(w) : s.mod \notin H /\ s \notin StateImports}
  <2>1. Imports(n) = Range(w) \cup Range(m.gimp)  BY <1>8 DEF Imports
  <2>2. QED  BY <2>1 DEF Left
<1>10. ASSUME NEW s, s \in Range(w), s.mod \notin H, s \notin StateImports PROVE s \in Missing(U, H, W)
  <2>1. PICK j \in 1 .. Len(w) : w[j] = s  BY <1>6, <1>10, RangeOf
  <2>2. PICK k \in 1 .. Len(a) : k - 1 \notin drop /\ s = a[k]  BY <1>7, <2>1 DEF LeftOf
  <2>3. PICK i \in Nat : i = k - 1 /\ i < Len(a) /\ i + 1 = k  BY <2>2, <1>4
  <2>4. i \in 0 .. Len(a) - 1  BY <2>3, <1>4
  <2>5. s \notin rt  BY <1>10
  <2>6. i \in Used(m, "func")
    <3>1. i \notin drop  BY <2>2, <2>3
    <3>2. a[i + 1] = s  BY <2>2, <2>3
    <3>3. QED  BY <3>1, <3>2, <2>4, <2>5, <1>2 DEF Unused
  <2>7. FuncAt(m, i) = s  BY <2>2, <2>3, <1>1, <1>2, ImportAt
  <2>8. s \in Range(m.fimp)  BY <2>2, <1>2, <1>4, RangeOf
  <2>9. s \in LiveIn(U, H, W) /\ Meaning(U, H, "func", s) = s  BY <2>6, <2>7, <2>8, <1>10, UsedLive
  <2>10. s.mod \notin {u.name : u \in U}
    <3>1. s \notin Range(SysProc)
      <4>1. "sys_proc" \in H  BY <1>1 DEF Program
      <4>2. QED  BY <4>1, <1>10, SysProcIs
    <3>2. s \in FuncWants(U)  BY <3>1, <2>8, <1>1
    <3>3. \A u \in U : s.mod # u.name  BY <3>2, <1>1, FuncWanted
    <3>4. QED  BY <3>3
  <2>11. QED  BY <2>9, <2>10, <1>10 DEF Missing, UndefinedIn
<1>11. ASSUME NEW s \in Missing(U, H, W) PROVE s \in Range(w) /\ s.mod \notin H /\ s \notin StateImports
  <2>1. /\ s \in LiveIn(U, H, W) /\ s.mod \notin H /\ s \notin StateImports /\ \A u \in U : s.mod # u.name
    BY <1>11 DEF Missing, UndefinedIn
  <2>2. s \notin FunctionsOf(U)  BY <2>1 DEF FunctionsOf, Symbol
  <2>3. s \in FuncWants(U)  BY <2>1, <2>2, <1>1, LiveNamed DEF SourceFunctions
  <2>4. s # StartWrapper  BY <2>3, <1>1, ImportsApart
  <2>5. PICK i \in Used(m, "func") \cap Numbers(m) : FuncAt(m, i) = s  BY <2>1, <2>2, LiveUsed
  <2>6. FuncAt(m, i) \notin Range(Ids(m))  BY <2>2, <2>4, <2>5, <1>1 DEF Start
  <2>7. i \in Nat
    <3>1. NFuncs(m) \in Nat  BY <1>1, NFuncsIs
    <3>2. QED  BY <3>1, <2>5 DEF Numbers
  <2>8. i < Len(a)
    <3>1. ~(i >= Len(m.fimp))  BY <2>5, <2>6, <1>1, FuncPlace
    <3>2. QED  BY <3>1, <2>7, <1>2, <1>4
  <2>9. a[i + 1] = s /\ i + 1 \in 1 .. Len(a)  BY <2>5, <2>7, <2>8, <1>1, <1>2, ImportAt
  <2>10. i \notin drop  BY <2>5, <1>2 DEF Unused
  <2>11. PICK k \in 1 .. Len(a) : k = i + 1 /\ k - 1 \notin drop /\ a[k] = s  BY <2>7, <2>9, <2>10
  <2>12. \E j \in 1 .. Len(w) : w[j] = s  BY <2>11, <1>7 DEF LeftOf
  <2>13. QED  BY <2>1, <2>12, <1>6, RangeOf
<1>12. Left(n, H) = Missing(U, H, W)  BY <1>9, <1>10, <1>11
<1>13. QED  BY <1>8, <1>12

\* Pruning leaves the imports of exactly the live functions nobody defines.
LEMMA PrunedMissing ==
  ASSUME NEW m, NEW U, NEW H, NEW W, Trim(m, U, H, W), NEW rt, \A s \in rt : s.mod \in H \/ s \in StateImports,
         NEW n, n = PruneImports(m, rt), Bare(m, U)
  PROVE  Bare(n, U) /\ (NoneUndefined(U) => Left(n, H) = Missing(U, H, W))
<1>1. SUFFICES ASSUME NoneUndefined(U) PROVE Range(n.gimp) = {} /\ Left(n, H) = Missing(U, H, W)
  BY DEF Bare
<1>2. Range(m.gimp) = {}  BY <1>1 DEF Bare
<1>3. PICK p : p = PruneGlobalImports(m, rt)  OBVIOUS
<1>4. Linked(m, U, H) /\ m \in Modules /\ LiveOnly(m, U, H, W) /\ Program(U, H) /\ Apart(U)  BY TrimIs DEF Trim
<1>5. Linked(p, U, H)  BY <1>3, <1>4, PruneGlobalsWorks
<1>6. Renumbered(p, m)  BY <1>3, <1>4, PruneGlobalsAgain
<1>7. LiveOnly(p, U, H, W)
  <2>1. PICK S : S = LiveIn(U, H, W) \cap FunctionsOf(U)  OBVIOUS
  <2>2. Drawn(m, U, W, S) /\ IsFiniteSet(FunctionsOf(U))  BY <2>1, <1>4 DEF LiveOnly
  <2>3. Drawn(p, U, W, S)  BY <2>2, <1>6, RenumberedDrawn
  <2>4. QED  BY <2>1, <2>2, <2>3 DEF LiveOnly
<1>8. Range(p.gimp) = {}
  <2>1. PICK b, drop : b = m.gimp /\ drop = Unused(m, "glob", b, rt)  OBVIOUS
  <2>2. PICK w : w = Without(b, drop)  OBVIOUS
  <2>3. b \in Seq(Symbols) /\ Len(b) \in Nat /\ m.fimp \in Seq(Symbols)  BY <1>4, <2>1, ModuleFields
  <2>4. drop \subseteq 0 .. Len(b) - 1  BY <2>1 DEF Unused
  <2>5. w \in Seq(Symbols) /\ Range(w) \subseteq Range(b)  BY <2>2, <2>3, <2>4, DroppedRange
  <2>6. PICK G : G = [i \in Nat |-> NewNumber(drop, i)]  OBVIOUS
  <2>7. PICK S, fi : S = Same /\ fi = m.fimp  OBVIOUS
  <2>8. p = Renumber(m, S, G, S, fi, w)  BY <1>3, <1>4, <2>1, <2>2, <2>6, <2>7, PruneGlobalsIs
  <2>9. G \in [Nat -> Nat]
    <3>1. \A i \in Nat : NewNumber(drop, i) \in Nat  BY <2>3, <2>4, WithoutWorks
    <3>2. QED  BY <3>1, <2>6
  <2>10. fi \in Seq(Symbols) /\ S \in [Nat -> Nat]  BY <2>3, <2>7, SameIs
  <2>11. Renumbers(p, m, S, G, S, fi, w)  BY <1>4, <2>5, <2>8, <2>9, <2>10 DEF Renumbers
  <2>12. p.gimp = w  BY <2>11, RenumberWorks
  <2>13. QED  BY <2>1, <2>5, <2>12, <1>2
<1>9. Trim(p, U, H, W)  BY <1>4, <1>5, <1>7 DEF Trim
<1>10. n = PruneFunctionImports(p, rt)  BY <1>3 DEF PruneImports
<1>11. QED  BY <1>8, <1>9, <1>10, PrunedLeft

\* No phase after crt0 adds an import of a global.
LEMMA EliminatedBare ==
  ASSUME NEW m, Whole(m), NEW n, n = Eliminate(m), NEW U, Bare(m, U)
  PROVE  Bare(n, U)
<1>1. PICK p, F, dead : Eliminates(m, n, p, F, dead)  BY EliminatesIs
<1>2. Renumbers(n, p, F, Same, Same, p.fimp, p.gimp) /\ p = Trimmed(m)  BY <1>1 DEF Eliminates
<1>3. n.gimp = p.gimp  BY <1>2, RenumberWorks
<1>4. p.gimp = m.gimp  BY <1>2, TrimmedIs
<1>5. QED  BY <1>3, <1>4 DEF Bare

\* crt0 leaves no import of a global in a program whose objects are all defined.
LEMMA SynthesizedBare ==
  ASSUME NEW m, NEW U, NEW H, ImportsResolved(m, U, H), Program(U, H), NEW noStdlib, NEW n, n = Synthesize(m, noStdlib)
  PROVE  Bare(n, U)
<1>1. SUFFICES ASSUME NoneUndefined(U) PROVE Range(n.gimp) = {}  BY DEF Bare
<1>2. PICK s : s = MaterialiseState(m)  OBVIOUS
<1>3. StateLinked(s, U, H)  BY <1>2, MaterialisedLinked
<1>4. Whole(s) /\ s \in Modules /\ Len(s.gimp) = 0 /\ Surely(s, U, H)
  BY <1>1, <1>3 DEF StateLinked, HasState, Whole
<1>5. Range(s.gimp) = {}
  <2>1. PICK g : g = s.gimp  OBVIOUS
  <2>2. g \in Seq(Symbols) /\ Len(g) = 0  BY <2>1, <1>4, ModuleFields
  <2>3. \A k : k \notin 1 .. Len(g)  BY <2>2
  <2>4. \A x : x \notin Range(g)  BY <2>2, <2>3, RangeOf
  <2>5. QED  BY <2>1, <2>4
<1>6. n = IF noStdlib \/ ~HasMain(s) THEN s ELSE AddCrt0(s)  BY <1>2 DEF Synthesize
<1>7. AddCrt0(s).gimp = s.gimp
  <2>1. PICK p : p = [s EXCEPT !.exps = Kept(s.exps, NotMain(s))]  OBVIOUS
  <2>2. PICK q : q = PrependSysProc(p)  OBVIOUS
  <2>3. Unexported(s, p)
    <3>1. PICK K : K = NotMain(s)  OBVIOUS
    <3>2. K \subseteq DOMAIN s.exps  BY <3>1 DEF NotMain
    <3>3. p = [s EXCEPT !.exps = Kept(s.exps, K)]  BY <3>1, <2>1
    <3>4. QED  BY <3>2, <3>3, <1>4, UnexportWorks
  <2>4. Whole(p) /\ Surely(p, U, H) /\ p.gimp = s.gimp
    <3>1. Whole(p) /\ Surely(p, U, H)  BY <2>3, <1>4, UnexportedLinked
    <3>2. QED  BY <3>1, <2>3 DEF Unexported
  <2>5. q.gimp = p.gimp /\ q \in Modules  BY <2>2, <2>4, PrependWorks DEF MovedUp
  <2>6. PICK main, argv, exit, flush : AddCrt0(s) = AddStart(q, main, argv, exit, flush)  BY <2>1, <2>2, AddCrt0Is
  <2>7. PICK f, st, y : AddStart(q, main, argv, exit, flush) = [q EXCEPT !.funcs = f, !.start = st, !.exps = y]
    BY AddStartIs
  <2>8. AddStart(q, main, argv, exit, flush).gimp = q.gimp  BY <2>5, <2>7 DEF Modules
  <2>9. QED  BY <2>4, <2>5, <2>6, <2>8
<1>8. QED  BY <1>5, <1>6, <1>7

\* The errors of each phase: a program without a main, then the imports that are left.
Startless(n, W) == IF ~n /\ ~W THEN {Symbol("", Main)} ELSE {}
Reported(m, e, at, U, H, W, n) ==
  /\ at \in LaterPhases => Bare(m, U)
  /\ at \in {"dce", "prune", "diagnose"} => e = Startless(n, W)
  /\ at = "diagnose" /\ NoneUndefined(U) => Left(m, H) = Missing(U, H, W)
  /\ at = "end" /\ NoneUndefined(U) => e = Missing(U, H, W) \cup Startless(n, W)
ReportInv == Reported(out, errors, phase, Units, Host, HasStart, job.noStdlib)

\* Reported, with an equivalent condition for the wrapper.
LEMMA ReportSame ==
  ASSUME NEW V, NEW W, V <=> W, NEW m, NEW e, NEW at, NEW U, NEW H, NEW n, Reported(m, e, at, U, H, V, n)
  PROVE  Reported(m, e, at, U, H, W, n)
<1>1. LiveIn(U, H, V) = LiveIn(U, H, W)  BY EntrySame
<1>2. Missing(U, H, V) = Missing(U, H, W)  BY <1>1 DEF Missing
<1>3. Startless(n, V) = Startless(n, W)  BY DEF Startless
<1>4. QED  BY <1>2, <1>3 DEF Reported

\* ReportInv after a step that changes neither the units nor the job.
LEMMA ReportNext ==
  ASSUME Units' = Units, Host' = Host, job' = job,
         Reported(out', errors', phase', Units, Host, HasStart, job.noStdlib)
  PROVE  ReportInv'
<1>1. HasStart <=> HasStart'  BY StartSame
<1>2. PICK V, W : V = HasStart /\ W = HasStart'  OBVIOUS
<1>3. V <=> W  BY <1>1, <1>2
<1>4. PICK m, e, at : m = out' /\ e = errors' /\ at = phase'  OBVIOUS
<1>5. Reported(m, e, at, Units, Host, V, job.noStdlib)  BY <1>2, <1>4
<1>6. Reported(m, e, at, Units, Host, W, job.noStdlib)  BY <1>3, <1>5, ReportSame
<1>7. QED  BY <1>2, <1>4, <1>6 DEF ReportInv

\* Before dead code elimination ReportInv asks for nothing.
LEMMA ReportEarly ==
  ASSUME phase' \notin LaterPhases
  PROVE  ReportInv'
BY DEF ReportInv, Reported, LaterPhases

\* crt0 reports a missing main, and nothing else.
LEMMA ReportCrt0 ==
  ASSUME ScanTyped, OutlineInv, LinkInv, Crt0
  PROVE  ReportInv'
<1>1. /\ Phase("crt0", "dce") /\ out' = Synthesize(out, job.noStdlib)
      /\ errors' = IF NoMainError(out, job.noStdlib) THEN {Symbol("", Main)} ELSE {}
  BY Zenon DEF Crt0
<1>2. Units' = Units /\ Host' = Host /\ job' = job /\ phase = "crt0" /\ phase' = "dce"
  BY <1>1, LinkPhase
<1>3. ImportsResolved(out, Units, Host) /\ Program(Units, Host)  BY <1>2, ProgramIs DEF LinkInv
<1>4. Outlined(out, Units) /\ Scanned  BY <1>2 DEF OutlineInv
<1>5. Apart(Units)  BY <1>4, UnitsApart
<1>6. PICK s : s = MaterialiseState(out)  OBVIOUS
<1>7. Ready(s, Units, Host)  BY <1>3, <1>4, <1>5, <1>6, ReadyState
<1>8. HasMain(s) <=> \E u \in Units : Main \in Defined(u)  BY <1>7, MainFound
<1>9. NoMainError(out, job.noStdlib) <=> ~job.noStdlib /\ ~HasStart
  <2>1. NoMainError(out, job.noStdlib) <=> ~job.noStdlib /\ ~HasMain(s)  BY <1>6 DEF NoMainError
  <2>2. HasStart <=> (~job.noStdlib /\ \E u \in Units : Main \in Defined(u))  BY DEF HasStart
  <2>3. QED  BY <2>1, <2>2, <1>8
<1>10. errors' = Startless(job.noStdlib, HasStart)  BY <1>1, <1>9 DEF Startless
<1>11. Bare(out', Units)
  <2>1. PICK n : n = Synthesize(out, job.noStdlib)  OBVIOUS
  <2>2. Bare(n, Units)  BY <2>1, <1>3, SynthesizedBare
  <2>3. QED  BY <2>1, <2>2, <1>1
<1>12. Reported(out', errors', phase', Units, Host, HasStart, job.noStdlib)
  BY <1>2, <1>10, <1>11 DEF Reported
<1>13. QED  BY <1>2, <1>12, ReportNext

\* Dead code elimination reports nothing.
LEMMA ReportEliminate ==
  ASSUME ScanTyped, LinkInv, ReportInv, DeadCodeElim
  PROVE  ReportInv'
<1>1. Phase("dce", "prune") /\ out' = Eliminate(out) /\ errors' = errors  BY DEF DeadCodeElim
<1>2. Units' = Units /\ Host' = Host /\ job' = job /\ phase = "dce" /\ phase' = "prune"
  BY <1>1, LinkPhase
<1>3. Whole(out)  BY <1>2 DEF LinkInv, LaterPhases, Linked
<1>4. errors = Startless(job.noStdlib, HasStart) /\ Bare(out, Units)
  BY <1>2 DEF ReportInv, Reported, LaterPhases
<1>5. PICK n : n = Eliminate(out)  OBVIOUS
<1>6. Bare(n, Units)  BY <1>3, <1>4, <1>5, EliminatedBare
<1>7. Reported(out', errors', phase', Units, Host, HasStart, job.noStdlib)
  BY <1>1, <1>2, <1>4, <1>5, <1>6 DEF Reported
<1>8. QED  BY <1>2, <1>7, ReportNext

\* The imports Diagnose passes over are those of the host and of the runtime's state.
LEMMA RuntimeIs ==
  /\ \A s \in Runtime : s.mod \in Host \/ s \in StateImports
  /\ Imports(out) \ Runtime = Left(out, Host)
<1>1. \A s \in Runtime : s.mod \in Host \/ s \in StateImports  BY DEF Runtime
<1>2. Imports(out) \ Runtime = Left(out, Host)  BY DEF Runtime, Left
<1>3. QED  BY <1>1, <1>2

\* Pruning leaves the imports of the missing functions for Diagnose to report.
LEMMA ReportPrune ==
  ASSUME ScanTyped, OutlineInv, LinkInv, LiveInv, ReportInv, Prune
  PROVE  ReportInv'
<1>1. Phase("prune", "diagnose") /\ out' = PruneImports(out, Runtime) /\ errors' = errors  BY DEF Prune
<1>2. Units' = Units /\ Host' = Host /\ job' = job /\ phase = "prune" /\ phase' = "diagnose"
  BY <1>1, LinkPhase
<1>3. PICK W : W = HasStart  OBVIOUS
<1>4. errors = Startless(job.noStdlib, HasStart) /\ Bare(out, Units)
  BY <1>2 DEF ReportInv, Reported, LaterPhases
<1>5. Trim(out, Units, Host, W)
  <2>1. Linked(out, Units, Host) /\ LiveOnly(out, Units, Host, W)  BY <1>2, <1>3 DEF LinkInv, LaterPhases, LiveInv
  <2>2. Program(Units, Host) /\ Apart(Units)  BY ProgramIs, UnitsApart DEF OutlineInv
  <2>3. QED  BY <2>1, <2>2 DEF Trim
<1>6. PICK n, rt : n = PruneImports(out, Runtime) /\ rt = Runtime  OBVIOUS
<1>7. \A s \in rt : s.mod \in Host \/ s \in StateImports  BY <1>6, RuntimeIs
<1>8. Bare(n, Units) /\ (NoneUndefined(Units) => Left(n, Host) = Missing(Units, Host, W))
  <2>1. n = PruneImports(out, rt)  BY <1>6
  <2>2. QED  BY <2>1, <1>4, <1>5, <1>7, PrunedMissing
<1>9. Reported(out', errors', phase', Units, Host, HasStart, job.noStdlib)
  BY <1>1, <1>2, <1>3, <1>4, <1>6, <1>8 DEF Reported
<1>10. QED  BY <1>2, <1>9, ReportNext

\* Diagnose reports the imports that are left.
LEMMA ReportDiagnose ==
  ASSUME ScanTyped, ReportInv, Diagnose
  PROVE  ReportInv'
<1>1. Phase("diagnose", "end") /\ out' = out /\ errors' = errors \cup (Imports(out) \ Runtime)  BY DEF Diagnose
<1>2. Units' = Units /\ Host' = Host /\ job' = job /\ phase = "diagnose" /\ phase' = "end"
  BY <1>1, LinkPhase
<1>3. /\ errors = Startless(job.noStdlib, HasStart) /\ Bare(out, Units)
      /\ NoneUndefined(Units) => Left(out, Host) = Missing(Units, Host, HasStart)
  BY <1>2 DEF ReportInv, Reported, LaterPhases
<1>4. errors' = Startless(job.noStdlib, HasStart) \cup Left(out, Host)  BY <1>1, <1>3, RuntimeIs
<1>5. NoneUndefined(Units) => errors' = Missing(Units, Host, HasStart) \cup Startless(job.noStdlib, HasStart)
  BY <1>3, <1>4
<1>6. Reported(out', errors', phase', Units, Host, HasStart, job.noStdlib)
  BY <1>1, <1>2, <1>3, <1>5 DEF Reported
<1>7. QED  BY <1>2, <1>6, ReportNext

\* Every step keeps ReportInv.
LEMMA ReportStep ==
  ASSUME ScanTyped, MergeInv, OutlineInv, LinkInv, LiveInv, ReportInv, [Next]_vars
  PROVE  ReportInv'
<1>1. CASE MergeTU
  <2>1. pc = "merge" /\ phase' = phase  BY <1>1 DEF MergeTU, Pull!MergeTU
  <2>2. phase' = "resolve"  BY <2>1 DEF ScanTyped
  <2>3. QED  BY <2>2, ReportEarly DEF LaterPhases
<1>2. CASE PullMember
  <2>1. pc = "member" /\ phase' = phase  BY <1>2 DEF PullMember, Pull!PullMember
  <2>2. phase' = "resolve"  BY <2>1 DEF ScanTyped
  <2>3. QED  BY <2>2, ReportEarly DEF LaterPhases
<1>3. ASSUME Units' = Units, UNCHANGED <<job, out, phase, errors>> PROVE ReportInv'
  <2>1. Host' = Host  BY <1>3 DEF Host
  <2>2. Reported(out', errors', phase', Units, Host, HasStart, job.noStdlib)  BY <1>3 DEF ReportInv
  <2>3. QED  BY <2>1, <2>2, <1>3, ReportNext
<1>4. CASE Scan
  <2>1. Units' = Units /\ UNCHANGED <<job, out, phase, errors>>  BY <1>4, ScanWorks
  <2>2. QED  BY <2>1, <1>3
<1>5. CASE Resolve
  <2>1. Phase("resolve", "crt0")  BY <1>5 DEF Resolve
  <2>2. phase' = "crt0"  BY <2>1, LinkPhase
  <2>3. QED  BY <2>2, ReportEarly DEF LaterPhases
<1>6. CASE Crt0  BY <1>6, ReportCrt0
<1>7. CASE DeadCodeElim  BY <1>7, ReportEliminate
<1>8. CASE Prune  BY <1>8, ReportPrune
<1>9. CASE Diagnose  BY <1>9, ReportDiagnose
<1>10. CASE UNCHANGED vars
  <2>1. UNCHANGED <<job, cmd, next, archives, exports, imports, pulled, arch, pc, out, phase, errors>>
    BY <1>10 DEF vars, scanVars
  <2>2. Units' = Units  BY <2>1, ScanSame DEF ScanTyped
  <2>3. QED  BY <2>1, <2>2, <1>3
<1>11. QED  BY <1>1, <1>2, <1>4, <1>5, <1>6, <1>7, <1>8, <1>9, <1>10 DEF Next, Finished

\* ReportInv holds initially.
LEMMA ReportInit == Init => ReportInv
<1>1. Init => phase = "resolve"  BY Zenon DEF Init
<1>2. QED  BY <1>1 DEF ReportInv, Reported, LaterPhases

\* An undefined function, as an operator of the units and the host's modules.
LEMMA UndefinedIs == \A s : Undefined("func", s) <=> UndefinedIn(Units, Host, s)
BY MeansIs DEF Undefined, UndefinedIn

\* Once the link has ended, ReportInv is FunctionsDiagnosed.
LEMMA DiagnosedIs ==
  ASSUME ScanTyped, LinkInv, LiveInv, ReportInv
  PROVE  FunctionsDiagnosed
<1>1. SUFFICES ASSUME phase = "end", UndefinedObjects = {}
               PROVE  errors = {s \in Live : Undefined("func", s)}
                                 \cup IF ~job.noStdlib /\ ~HasStart THEN {Symbol("", Main)} ELSE {}
  BY DEF FunctionsDiagnosed
<1>2. NoneUndefined(Units)  BY <1>1, NoneUndefinedIs
<1>3. errors = Missing(Units, Host, HasStart) \cup Startless(job.noStdlib, HasStart)
  BY <1>1, <1>2 DEF ReportInv, Reported
<1>4. IsFiniteSet(FunctionsOf(Units))  BY <1>1 DEF LiveInv, LiveOnly
<1>5. \A u \in Units : u \in TranslationUnit  BY ProgramIs DEF Program
<1>6. PICK L : L = Live  OBVIOUS
<1>7. L = LiveIn(Units, Host, HasStart)  BY <1>4, <1>5, <1>6, LiveIs
<1>8. Missing(Units, Host, HasStart) = {s \in L : Undefined("func", s)}  BY <1>7, UndefinedIs DEF Missing
<1>9. QED  BY <1>3, <1>6, <1>8 DEF Startless

\* FunctionsDiagnosed: once the link has ended, and every extern object is defined, the
\* errors are the functions that are live and that no unit, host module or runtime state
\* defines, and a missing main: nothing undefined goes unreported, nothing is reported in vain.
THEOREM DiagnosedCorrect == Spec => []FunctionsDiagnosed
<1>1. Init => ScanTyped /\ MergeInv /\ LinkInv /\ OutlineInv /\ LiveInv /\ ReportInv
  BY ScanInit, MergeInit, LinkInit, OutlineInit, LiveInit, ReportInit
<1>2. ScanTyped /\ MergeInv /\ LinkInv /\ OutlineInv /\ LiveInv /\ ReportInv /\ [Next]_vars
        => ScanTyped' /\ MergeInv' /\ LinkInv' /\ OutlineInv' /\ LiveInv' /\ ReportInv'
  BY MergeStep, LinkStep, OutlineStep, LiveStep, ReportStep
<1>3. ScanTyped /\ LinkInv /\ LiveInv /\ ReportInv => FunctionsDiagnosed  BY DiagnosedIs
<1>4. QED  BY <1>1, <1>2, <1>3, PTL DEF Spec
=============================================================================
