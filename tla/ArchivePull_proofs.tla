------------------------ MODULE ArchivePull_proofs ------------------------
(***************************************************************************)
(* Proofs about ArchivePull, for every set of names and every family of    *)
(* command lines: type correctness, one definition per name, no member     *)
(* pulled without a reason, and the fixpoint of the archive scan.          *)
(***************************************************************************)
EXTENDS ArchivePull, TLAPS

-----------------------------------------------------------------------------
(* The inductive invariant.                                                *)

(* exports and imports are those of the units merged so far. *)
Provenance ==
  /\ \A k \in MergedTUs : TUUnit(k).exp \subseteq exports
  /\ \A p \in pulled : MemberUnit(p).exp \subseteq exports
  /\ \A imp \in imports : \/ \E k \in MergedTUs : imp \in TUUnit(k).imp
                          \/ \E q \in pulled : imp \in MemberUnit(q).imp
  /\ pc = "merge" => pulled = {}

(* The worklist covers the unresolved names, plus at most the seed. *)
NeedOK ==
  pc \in {"pass", "archive", "member"} =>
    /\ UnresolvedNames(exports, imports) \subseteq need
    /\ need \subseteq UnresolvedNames(exports, imports) \cup {Exit}

(* What a pass without a pull has already looked at. *)
Behind(p) ==
  CASE pc = "pass"    -> TRUE
    [] pc = "archive" -> p[1] < arch
    [] pc = "member"  -> p[1] < arch \/ (p[1] = arch /\ p[2] < memb)
    [] OTHER          -> FALSE
Scanned ==
  /\ pc = "merge" => progress
  /\ ~progress => \A p \in Positions \ pulled :
                    Behind(p) => ~Satisfies(MemberUnit(p), need)

-----------------------------------------------------------------------------
(* What the names of a position stand for. *)
LEMMA PositionsDef ==
  ASSUME NEW p
  PROVE  p \in Positions <=> /\ p = <<p[1], p[2]>>
                             /\ p[1] \in DOMAIN archives
                             /\ p[2] \in DOMAIN archives[p[1]].members
<1>1. ASSUME p \in Positions
      PROVE  \E a \in DOMAIN archives :
               \E i \in DOMAIN archives[a].members : p = <<a, i>>
  BY <1>1 DEF Positions
<1>2. ASSUME p = <<p[1], p[2]>>, p[1] \in DOMAIN archives,
             p[2] \in DOMAIN archives[p[1]].members
      PROVE  p \in Positions
  BY <1>2 DEF Positions
<1> QED
  BY <1>1, <1>2

(* A unit at a position, and an input, are well typed. *)
LEMMA UnitTypes ==
  ASSUME TypeOK
  PROVE  /\ \A p \in Positions : MemberUnit(p) \in Unit
         /\ \A k \in DOMAIN cmd.inputs : cmd.inputs[k] \in TU \cup Archive
         /\ \A k \in DOMAIN cmd.inputs :
              cmd.inputs[k].kind = "tu" => TUUnit(k) \in Unit
         /\ \A k \in DOMAIN cmd.inputs :
              cmd.inputs[k].kind = "ar" => cmd.inputs[k] \in Archive
<1>1. cmd.inputs \in Seq(TU \cup Archive)
  BY DEF TypeOK, Command
<1>2. \A k \in DOMAIN cmd.inputs : cmd.inputs[k] \in TU \cup Archive
  BY <1>1
<1>3. \A x \in TU : x.kind = "tu" /\ x.unit \in Unit
  BY DEF TU
<1>4. \A x \in Archive : x.kind = "ar" /\ x.members \in Seq(Unit)
  BY DEF Archive
<1>5. \A a \in DOMAIN archives : archives[a] \in Archive
  BY DEF TypeOK
<1>6. \A p \in Positions : MemberUnit(p) \in Unit
  BY <1>4, <1>5, PositionsDef DEF MemberUnit
<1> QED
  BY <1>2, <1>3, <1>4, <1>6 DEF TUUnit

LEMMA MembersType ==
  ASSUME TypeOK
  PROVE  \A a \in DOMAIN archives : archives[a].members \in Seq(Unit)
<1>1. \A x \in Archive : x.members \in Seq(Unit)
  BY DEF Archive
<1>2. \A a \in DOMAIN archives : archives[a] \in Archive
  BY DEF TypeOK
<1> QED
  BY <1>1, <1>2

LEMMA UnresolvedType ==
  ASSUME NEW E, NEW I \in SUBSET Import
  PROVE  UnresolvedNames(E, I) \subseteq Name
  BY DEF UnresolvedNames, Import

(* The candidate of the scan is the unit at the scan position. *)
LEMMA CandidateFacts ==
  ASSUME TypeOK, pc = "member", memb \in DOMAIN Members
  PROVE  /\ scan \in Positions
         /\ scan[1] = arch /\ scan[2] = memb
         /\ MemberUnit(scan) = Candidate
         /\ Candidate \in Unit
<1>1. arch \in DOMAIN archives
  BY DEF TypeOK
<1>2. scan \in Positions
  BY <1>1, PositionsDef DEF scan, Members
<1> QED
  BY <1>2, UnitTypes DEF scan, MemberUnit, Candidate, Members

-----------------------------------------------------------------------------
(* Type correctness. *)
LEMMA TypeInit == Init => TypeOK
<1> SUFFICES ASSUME Init PROVE TypeOK
  OBVIOUS
<1>1. cmd \in Command
  BY CommandsAssumption DEF Init, Start
<1>2. Len(cmd.inputs) \in Nat
  BY <1>1 DEF Command
<1> QED
  BY <1>1, <1>2 DEF Init, Start, TypeOK

LEMMA TypeStep ==
  ASSUME TypeOK, [Next]_vars
  PROVE  TypeOK'
<1> USE DEF TypeOK
<1>0. cmd.inputs \in Seq(TU \cup Archive)
  BY DEF Command
<1>1. CASE NoInputs
  BY <1>1 DEF NoInputs, Fail, Positions
<1>2. CASE MergeTU
  <2>1. TUUnit(next) \in Unit
    BY <1>2, UnitTypes DEF MergeTU
  <2>2. exports' \subseteq Name /\ imports' \subseteq Import
    BY <1>2, <2>1 DEF MergeTU, Merge, Unit, TUUnit
  <2>3. next' \in 1 .. Len(cmd.inputs) + 1
    BY <1>0, <1>2 DEF MergeTU
  <2> QED
    BY <1>2, <2>2, <2>3 DEF MergeTU, Positions
<1>3. CASE OpenArchive
  <2>1. cmd.inputs[next] \in Archive
    BY <1>3, UnitTypes DEF OpenArchive
  <2>2. /\ archives' \in Seq(Archive)
        /\ DOMAIN archives \subseteq DOMAIN archives'
        /\ \A a \in DOMAIN archives : archives'[a] = archives[a]
    BY <1>3, <2>1 DEF OpenArchive
  <2>3. Positions \subseteq Positions'
    BY <2>2 DEF Positions
  <2>4. next' \in 1 .. Len(cmd.inputs) + 1
    BY <1>0, <1>3 DEF OpenArchive
  <2> QED
    BY <1>3, <2>2, <2>3, <2>4 DEF OpenArchive
<1>4. CASE InputFails
  BY <1>4 DEF InputFails, Fail, Positions
<1>5. CASE StartPull
  <2>1. need' \subseteq Name
    BY <1>5, UnresolvedType, NamesAssumption DEF StartPull, Seed
  <2> QED
    BY <1>5, <2>1 DEF StartPull, Positions
<1>6. CASE BeginPass
  <2>1. progress' \in BOOLEAN
    BY <1>6 DEF BeginPass
  <2>2. pulled' \subseteq Positions' /\ arch' \in Nat \ {0} /\ memb' \in Nat \ {0}
    BY <1>6 DEF BeginPass, Positions
  <2> QED
    BY <1>6, <2>1, <2>2 DEF BeginPass
<1>7. CASE EndPull
  BY <1>7 DEF EndPull, Positions
<1>8. CASE EnterArchive
  BY <1>8 DEF EnterArchive, Positions
<1>9. CASE EndPass
  BY <1>9 DEF EndPass, Positions
<1>10. CASE LeaveArchive
  BY <1>10 DEF LeaveArchive, Positions
<1>11. CASE SkipMember
  BY <1>11 DEF SkipMember, Positions
<1>12. CASE PullFails
  BY <1>12 DEF PullFails, Fail, Positions
<1>13. CASE PullMember
  <2>1. scan \in Positions /\ Candidate \in Unit
    BY <1>13, CandidateFacts DEF PullMember
  <2>2. exports' \subseteq Name /\ imports' \subseteq Import
    BY <1>13, <2>1 DEF PullMember, Merge, Unit
  <2>3. need' \subseteq Name
    BY <1>13, <2>2, UnresolvedType DEF PullMember
  <2> QED
    BY <1>13, <2>1, <2>2, <2>3 DEF PullMember, Positions
<1>14. CASE UNCHANGED vars
  BY <1>14 DEF vars, Positions
<1> QED
  BY <1>1, <1>2, <1>3, <1>4, <1>5, <1>6, <1>7, <1>8, <1>9, <1>10, <1>11,
     <1>12, <1>13, <1>14 DEF Next, Finished

(* Every variable keeps its type, for every family of command lines. *)
THEOREM TypeCorrect == Spec => []TypeOK
<1>1. TypeOK /\ [Next]_vars => TypeOK'
  BY TypeStep
<1> QED
  BY TypeInit, <1>1, PTL DEF Spec

-----------------------------------------------------------------------------
(* One definition per name, and no pull without a reason.                  *)
LinkInv == Provenance /\ OneDefinition /\ PullJustified

LEMMA LinkInit == Init => LinkInv
  BY DEF Init, Start, LinkInv, Provenance, OneDefinition, PullJustified, MergedTUs

(* A step that leaves the output and the inputs alone. *)
LEMMA LinkSame ==
  ASSUME LinkInv,
         UNCHANGED <<cmd, next, archives, exports, imports, pulled>>,
         pc' = "merge" => pc = "merge"
  PROVE  LinkInv'
  BY DEF LinkInv, Provenance, OneDefinition, PullJustified, MergedTUs,
         TUUnit, MemberUnit

LEMMA LinkMergeTU ==
  ASSUME TypeOK, LinkInv, MergeTU
  PROVE  LinkInv'
<1> DEFINE D == TUUnit(next).exp
<1>1. next \in Nat /\ next' = next + 1 /\ cmd' = cmd /\ pulled = {} /\ pulled' = {}
  BY DEF MergeTU, LinkInv, Provenance, TypeOK
<1>2. MergedTUs' = MergedTUs \cup {next} /\ next \notin MergedTUs
  <2>1. next \in Nat \ {0}
    BY DEF TypeOK
  <2>2. 1 .. next' - 1 = (1 .. next - 1) \cup {next} /\ next \notin 1 .. next - 1
    BY <1>1, <2>1
  <2> QED
    BY <1>1, <2>2 DEF MergedTUs, MergeTU
<1>3. \A k : TUUnit(k)' = TUUnit(k)
  BY <1>1 DEF TUUnit
<1>4. /\ exports' = exports \cup D
      /\ imports' = imports \cup TUUnit(next).imp
      /\ D \cap exports = {}
  BY DEF MergeTU, Merge, MergeFails, TUUnit
<1>5. Provenance'
  BY <1>1, <1>2, <1>3, <1>4 DEF LinkInv, Provenance
<1>6. OneDefinition'
  BY <1>1, <1>2, <1>3, <1>4 DEF LinkInv, Provenance, OneDefinition
<1> QED
  BY <1>1, <1>5, <1>6 DEF LinkInv, PullJustified

LEMMA LinkOpenArchive ==
  ASSUME TypeOK, LinkInv, OpenArchive
  PROVE  LinkInv'
<1>1. next \in Nat /\ next' = next + 1 /\ cmd' = cmd /\ pulled = {} /\ pulled' = {}
  BY DEF OpenArchive, LinkInv, Provenance, TypeOK
<1>2. MergedTUs' = MergedTUs
  BY <1>1 DEF MergedTUs, OpenArchive
<1>3. \A k : TUUnit(k)' = TUUnit(k)
  BY <1>1 DEF TUUnit
<1> QED
  BY <1>1, <1>2, <1>3
  DEF OpenArchive, LinkInv, Provenance, OneDefinition, PullJustified

LEMMA LinkPullMember ==
  ASSUME TypeOK, LinkInv, NeedOK, PullMember
  PROVE  LinkInv'
<1> DEFINE D == Candidate.exp
<1>1. /\ MergedTUs' = MergedTUs
      /\ \A k : TUUnit(k)' = TUUnit(k)
      /\ \A p : MemberUnit(p)' = MemberUnit(p)
  BY DEF PullMember, MergedTUs, TUUnit, MemberUnit
<1>2. MemberUnit(scan) = Candidate /\ scan \notin pulled
      /\ pulled' = pulled \cup {scan} /\ pc' # "merge"
  BY CandidateFacts DEF PullMember
<1>3. /\ exports' = exports \cup D
      /\ imports' = imports \cup Candidate.imp
      /\ D \cap exports = {}
  BY DEF PullMember, Merge, MergeFails
<1>4. Provenance'
  BY <1>1, <1>2, <1>3 DEF LinkInv, Provenance
<1>5. OneDefinition'
  BY <1>1, <1>2, <1>3 DEF LinkInv, Provenance, OneDefinition
<1>6. PullJustified'
  <2>1. PICK n \in D : n = Exit \/ n \in UnresolvedNames(exports, imports)
    BY DEF PullMember, NeedOK, Satisfies
  <2>2. n = Exit \/ \E imp \in imports : imp.name = n /\ ~RuntimeProvided(imp)
    BY <2>1 DEF UnresolvedNames
  <2>3. imports \subseteq Import
    BY DEF TypeOK
  <2>4. n = Exit \/ \E imp \in Import :
           /\ imp.name = n /\ ~RuntimeProvided(imp)
           /\ \/ \E k \in MergedTUs : imp \in TUUnit(k).imp
              \/ \E q \in pulled' \ {scan} : imp \in MemberUnit(q).imp
    BY <1>2, <2>2, <2>3 DEF LinkInv, Provenance
  <2>5. ASSUME NEW p \in pulled
        PROVE  \E m \in MemberUnit(p).exp :
                 \/ m = Exit
                 \/ \E imp \in Import :
                      /\ imp.name = m /\ ~RuntimeProvided(imp)
                      /\ \/ \E k \in MergedTUs : imp \in TUUnit(k).imp
                         \/ \E q \in pulled' \ {p} : imp \in MemberUnit(q).imp
    BY <1>2, <2>5 DEF LinkInv, PullJustified
  <2> QED
    BY <1>1, <1>2, <2>1, <2>4, <2>5 DEF PullJustified
<1> QED
  BY <1>4, <1>5, <1>6 DEF LinkInv

LEMMA LinkStep ==
  ASSUME TypeOK, LinkInv, NeedOK, [Next]_vars
  PROVE  LinkInv'
<1>1. CASE MergeTU
  BY <1>1, LinkMergeTU
<1>2. CASE OpenArchive
  BY <1>2, LinkOpenArchive
<1>3. CASE PullMember
  BY <1>3, LinkPullMember
<1>4. CASE \/ NoInputs \/ InputFails \/ StartPull \/ BeginPass \/ EndPull
           \/ EnterArchive \/ EndPass \/ LeaveArchive \/ SkipMember
           \/ PullFails \/ UNCHANGED vars
  <2>1. /\ UNCHANGED <<cmd, next, archives, exports, imports, pulled>>
        /\ pc' = "merge" => pc = "merge"
    BY <1>4 DEF NoInputs, InputFails, Fail, StartPull, BeginPass, EndPull,
                EnterArchive, EndPass, LeaveArchive, SkipMember, PullFails, vars
  <2> QED
    BY <2>1, LinkSame
<1> QED
  BY <1>1, <1>2, <1>3, <1>4 DEF Next, Finished

-----------------------------------------------------------------------------
(* The fixpoint of the scan.                                               *)
ScanInv == NeedOK /\ Scanned /\ Fixpoint

LEMMA ScanInit == Init => ScanInv
  BY DEF Init, Start, ScanInv, NeedOK, Scanned, Fixpoint

(* A longer worklist satisfies more members. *)
LEMMA SatisfiesMonotone ==
  ASSUME NEW unit, NEW S, NEW T, S \subseteq T, Satisfies(unit, S)
  PROVE  Satisfies(unit, T)
  BY DEF Satisfies

LEMMA ScanStart ==
  ASSUME TypeOK, ScanInv, StartPull
  PROVE  ScanInv'
<1>1. /\ UNCHANGED <<archives, exports, imports, pulled>>
      /\ UnresolvedNames(exports, imports)' = UnresolvedNames(exports, imports)
      /\ Positions' = Positions
      /\ \A p : MemberUnit(p)' = MemberUnit(p)
  BY DEF StartPull, UnresolvedNames, Positions, MemberUnit
<1>2. CASE archives = << >>
  <2>1. Positions = {} /\ pc' = "done"
    BY <1>2 DEF Positions, StartPull
  <2> QED
    BY <1>1, <2>1 DEF ScanInv, NeedOK, Scanned, Fixpoint
<1>3. CASE archives # << >>
  <2>1. pc' = "pass" /\ progress' = progress
        /\ need' = UnresolvedNames(exports, imports) \cup Seed
    BY <1>3 DEF StartPull
  <2>2. NeedOK'
    BY <1>1, <2>1 DEF NeedOK, Seed
  <2>3. Scanned'
    BY <2>1 DEF ScanInv, Scanned, StartPull
  <2> QED
    BY <2>1, <2>2, <2>3 DEF ScanInv, Fixpoint
<1> QED
  BY <1>2, <1>3

(* A step that moves the scan over the same output. *)
LEMMA ScanMove ==
  ASSUME TypeOK, ScanInv,
         UNCHANGED <<archives, exports, imports, pulled, need>>,
         pc \in {"pass", "archive", "member"},
         pc' \in {"pass", "archive", "member"},
         ~progress' => /\ ~progress
                       /\ \A p \in Positions \ pulled :
                            Behind(p)' => \/ Behind(p)
                                          \/ ~Satisfies(MemberUnit(p), need)
  PROVE  ScanInv'
<1>1. /\ UnresolvedNames(exports, imports)' = UnresolvedNames(exports, imports)
      /\ Positions' = Positions
      /\ \A p : MemberUnit(p)' = MemberUnit(p)
  BY DEF UnresolvedNames, Positions, MemberUnit
<1>2. NeedOK'
  BY <1>1 DEF ScanInv, NeedOK
<1>3. Scanned'
  BY <1>1 DEF ScanInv, Scanned
<1> QED
  BY <1>2, <1>3 DEF ScanInv, Fixpoint

LEMMA ScanEnd ==
  ASSUME TypeOK, ScanInv, EndPull
  PROVE  ScanInv'
<1>1. /\ UNCHANGED <<archives, exports, imports, pulled, need, progress>>
      /\ pc = "pass" /\ pc' = "done"
      /\ UnresolvedNames(exports, imports)' = UnresolvedNames(exports, imports)
      /\ Positions' = Positions
      /\ \A p : MemberUnit(p)' = MemberUnit(p)
  BY DEF EndPull, UnresolvedNames, Positions, MemberUnit
<1>2. UnresolvedNames(exports, imports) \subseteq need
  BY <1>1 DEF ScanInv, NeedOK
<1>3. \A p \in Positions \ pulled : ~Satisfies(MemberUnit(p), need)
  <2>1. CASE need = {}
    BY <2>1 DEF Satisfies
  <2>2. CASE ~progress
    BY <1>1, <2>2 DEF ScanInv, Scanned, Behind
  <2> QED
    BY <2>1, <2>2 DEF EndPull
<1>4. \A p \in Positions \ pulled :
        ~Satisfies(MemberUnit(p), UnresolvedNames(exports, imports))
  BY <1>2, <1>3, SatisfiesMonotone
<1> QED
  BY <1>1, <1>4 DEF ScanInv, NeedOK, Scanned, Fixpoint, Behind

LEMMA ScanStep ==
  ASSUME TypeOK, ScanInv, [Next]_vars
  PROVE  ScanInv'
<1>0. /\ arch \in Nat \ {0} /\ memb \in Nat \ {0}
      /\ \A p \in Positions : /\ p[1] \in DOMAIN archives
                              /\ p[2] \in DOMAIN archives[p[1]].members
                              /\ p[1] \in Nat /\ p[2] \in Nat
                              /\ p[1] > 0 /\ p[2] > 0
  <2>1. \A a \in DOMAIN archives : archives[a].members \in Seq(Unit)
    BY MembersType
  <2>2. archives \in Seq(Archive)
    BY DEF TypeOK
  <2> QED
    BY <2>1, <2>2, PositionsDef DEF TypeOK
<1>1. CASE MergeTU \/ OpenArchive
  <2>1. pc = "merge" /\ pc' = "merge" /\ progress' = progress
    BY <1>1 DEF MergeTU, OpenArchive
  <2> QED
    BY <2>1 DEF ScanInv, NeedOK, Scanned, Fixpoint
<1>2. CASE NoInputs \/ InputFails \/ PullFails
  <2>1. pc' = "error"
    BY <1>2 DEF NoInputs, InputFails, PullFails, Fail
  <2>2. \A p : ~Behind(p)'
    BY <2>1 DEF Behind
  <2> QED
    BY <2>1, <2>2 DEF ScanInv, NeedOK, Scanned, Fixpoint
<1>3. CASE StartPull
  BY <1>3, ScanStart
<1>4. CASE BeginPass
  <2>1. \A p \in Positions : ~Behind(p)'
    BY <1>0, <1>4 DEF BeginPass, Behind
  <2>2. UNCHANGED <<archives, exports, imports, pulled, need>>
        /\ pc = "pass" /\ pc' = "archive"
    BY <1>4 DEF BeginPass
  <2>3. /\ UnresolvedNames(exports, imports)' = UnresolvedNames(exports, imports)
        /\ Positions' = Positions
    BY <2>2 DEF UnresolvedNames, Positions
  <2> QED
    BY <2>1, <2>2, <2>3 DEF ScanInv, NeedOK, Scanned, Fixpoint
<1>5. CASE EndPull
  BY <1>5, ScanEnd
<1>6. CASE EnterArchive
  <2>1. \A p \in Positions : Behind(p)' => Behind(p)
    BY <1>0, <1>6 DEF EnterArchive, Behind
  <2> QED
    BY <1>6, <2>1, ScanMove DEF EnterArchive
<1>7. CASE EndPass
  <2>1. \A p \in Positions : Behind(p) \/ ~Satisfies(MemberUnit(p), need)
    <3>1. CASE need = {}
      BY <3>1 DEF Satisfies
    <3>2. CASE arch \notin DOMAIN archives
      BY <1>0, <1>7, <3>2 DEF EndPass, Behind, TypeOK
    <3> QED
      BY <1>7, <3>1, <3>2 DEF EndPass
  <2> QED
    BY <1>7, <2>1, ScanMove DEF EndPass
<1>8. CASE LeaveArchive
  <2>1. /\ pc = "member" /\ arch \in DOMAIN archives
        /\ memb \notin DOMAIN archives[arch].members
        /\ archives[arch].members \in Seq(Unit)
    BY <1>8, MembersType DEF LeaveArchive, Members, TypeOK
  <2>2. \A p \in Positions : Behind(p)' => Behind(p)
    BY <1>0, <1>8, <2>1 DEF LeaveArchive, Behind
  <2> QED
    BY <1>8, <2>2, ScanMove DEF LeaveArchive
<1>9. CASE SkipMember
  <2>1. /\ memb \in DOMAIN Members /\ pc = "member"
        /\ scan \in pulled \/ ~Satisfies(MemberUnit(scan), need)
    BY <1>9, CandidateFacts DEF SkipMember
  <2>2. ASSUME NEW p \in Positions \ pulled, Behind(p)'
        PROVE  Behind(p) \/ ~Satisfies(MemberUnit(p), need)
    <3>1. p = <<p[1], p[2]>>
      BY PositionsDef
    <3>2. Behind(p) \/ (p[1] = arch /\ p[2] = memb)
      BY <1>0, <1>9, <2>2 DEF SkipMember, Behind
    <3> QED
      BY <2>1, <3>1, <3>2 DEF scan
  <2> QED
    BY <1>9, <2>2, ScanMove DEF SkipMember
<1>10. CASE PullMember
  <2>1. pc' = "member" /\ progress' = TRUE
        /\ need' = UnresolvedNames(exports, imports)'
    BY <1>10 DEF PullMember, UnresolvedNames
  <2> QED
    BY <2>1 DEF ScanInv, NeedOK, Scanned, Fixpoint
<1>11. CASE UNCHANGED vars
  BY <1>11 DEF vars, ScanInv, NeedOK, Scanned, Fixpoint, UnresolvedNames,
               Positions, MemberUnit, Behind
<1> QED
  BY <1>1, <1>2, <1>3, <1>4, <1>5, <1>6, <1>7, <1>8, <1>9, <1>10, <1>11
  DEF Next, Finished

-----------------------------------------------------------------------------
(* The three invariants together are inductive. *)
IInv == TypeOK /\ LinkInv /\ ScanInv

LEMMA Inductive == Spec => []IInv
<1>1. Init => IInv
  BY TypeInit, LinkInit, ScanInit DEF IInv
<1>2. IInv /\ [Next]_vars => IInv'
  BY TypeStep, LinkStep, ScanStep DEF IInv, ScanInv
<1> QED
  BY <1>1, <1>2, PTL DEF Spec

(* No two units of the output export the same name. *)
THEOREM OneDefinitionHolds == Spec => []OneDefinition
<1>1. IInv => OneDefinition
  BY DEF IInv, LinkInv
<1> QED
  BY Inductive, <1>1, PTL

(* Nothing is pulled that no other unit asked for, but the provider of exit. *)
THEOREM PullJustifiedHolds == Spec => []PullJustified
<1>1. IInv => PullJustified
  BY DEF IInv, LinkInv
<1> QED
  BY Inductive, <1>1, PTL

(* When the scan ends, no member left out could resolve a name. *)
THEOREM FixpointHolds == Spec => []Fixpoint
<1>1. IInv => Fixpoint
  BY DEF IInv, ScanInv
<1> QED
  BY Inductive, <1>1, PTL

-----------------------------------------------------------------------------
(* The refinement: a step of the scan is a step of LinkClosure or a        *)
(* stutter, under the mapping ArchivePull gives.                           *)
Wanted == UnresolvedNames(exports, imports)
Left   == [p \in Positions \ pulled |-> MemberUnit(p).exp]
State  == CASE pc = "merge" -> "loading"
            [] pc \in {"pass", "archive", "member"} -> "pulling"
            [] pc = "done"  -> "linked"
            [] pc = "error" -> "failed"

LEMMA RefineInit == Init => Closure!Init
  BY DEF Init, Start, Closure!Init, UnresolvedNames, Positions

(* Merging a unit is linking the names it defines. *)
LEMMA RefineMerge ==
  ASSUME TypeOK, NEW unit \in Unit, ~MergeFails(unit), Merge(unit)
  PROVE  Closure!Link(unit.exp)
<1>1. imports' \subseteq Import /\ exports' = exports \cup unit.exp
      /\ imports \subseteq imports'
  BY DEF TypeOK, Merge, Unit
<1>2. Wanted' \subseteq Name \ exports'
  BY <1>1, UnresolvedType DEF Wanted, UnresolvedNames
<1>3. Wanted \ unit.exp \subseteq Wanted'
  BY <1>1 DEF Wanted, UnresolvedNames
<1> QED
  BY <1>1, <1>2, <1>3 DEF Closure!Link, MergeFails, Wanted

LEMMA RefineStep ==
  ASSUME IInv, [Next]_vars
  PROVE  [Closure!Next]_(Closure!vars)
<1> USE DEF Closure!Next, Closure!vars
<1>0. TypeOK
  BY DEF IInv
<1>1. CASE MergeTU
  <2>1. TUUnit(next) \in Unit /\ Closure!Link(TUUnit(next).exp)
    BY <1>0, <1>1, UnitTypes, RefineMerge DEF MergeTU, TUUnit
  <2>2. TUUnit(next).exp \in SUBSET Name
    BY <2>1 DEF Unit
  <2>3. Left' = Left /\ State' = State /\ State = "loading"
    BY <1>1 DEF MergeTU, Left, State, Positions, MemberUnit
  <2>4. Closure!LoadUnit
    BY <2>1, <2>2, <2>3 DEF Closure!LoadUnit, Left, State
  <2> QED
    BY <2>4
<1>2. CASE OpenArchive
  <2>1. /\ DOMAIN archives \subseteq DOMAIN archives'
        /\ \A a \in DOMAIN archives : archives'[a] = archives[a]
    BY <1>0, <1>2, UnitTypes DEF OpenArchive, TypeOK
  <2>2. Positions \subseteq Positions' /\ pulled' = pulled
        /\ \A p \in Positions : MemberUnit(p)' = MemberUnit(p)
    BY <1>2, <2>1, PositionsDef DEF OpenArchive, Positions, MemberUnit
  <2>3. /\ DOMAIN Left \subseteq DOMAIN Left'
        /\ \A p \in DOMAIN Left : Left'[p] = Left[p]
    BY <2>2 DEF Left
  <2>4. /\ UNCHANGED <<exports, Wanted, State>> /\ State = "loading"
    BY <1>2 DEF OpenArchive, Wanted, UnresolvedNames, State
  <2>5. Closure!LoadLibrary
    BY <2>3, <2>4 DEF Closure!LoadLibrary, Left, Wanted, State
  <2> QED
    BY <2>5
<1>3. CASE PullMember
  <2>1. /\ Candidate \in Unit /\ Closure!Link(Candidate.exp)
        /\ scan \in Positions /\ MemberUnit(scan) = Candidate
        /\ scan \notin pulled
    BY <1>0, <1>3, CandidateFacts, RefineMerge DEF PullMember
  <2>2. scan \in DOMAIN Left /\ Left[scan] = Candidate.exp
    BY <2>1 DEF Left
  <2>3. Candidate.exp \cap (Wanted \cup {Exit}) # {}
    BY <1>3 DEF IInv, ScanInv, NeedOK, PullMember, Satisfies, Wanted
  <2>4. Left' = [p \in DOMAIN Left \ {scan} |-> Left[p]]
    <3>1. /\ Positions' = Positions /\ pulled' = pulled \cup {scan}
          /\ \A p : MemberUnit(p)' = MemberUnit(p)
      BY <1>3 DEF PullMember, Positions, MemberUnit
    <3>2. Left' = [p \in Positions \ (pulled \cup {scan}) |-> MemberUnit(p).exp]
      BY <3>1 DEF Left
    <3> QED
      BY <3>2 DEF Left
  <2>5. State' = State /\ State = "pulling"
    BY <1>3 DEF PullMember, State
  <2>6. Closure!PullOne
    BY <2>1, <2>2, <2>3, <2>4, <2>5 DEF Closure!PullOne, Left, Wanted, State
  <2> QED
    BY <2>6
<1>4. CASE StartPull
  <2>1. /\ UNCHANGED <<exports, Wanted, Left>> /\ State = "loading"
    BY <1>4 DEF StartPull, Wanted, UnresolvedNames, Left, Positions, MemberUnit,
                State
  <2>2. CASE archives = << >>
    <3>1. DOMAIN Left = {} /\ State' = "linked"
      BY <1>4, <2>2 DEF StartPull, Left, Positions, State
    <3>2. Closure!Finish
      BY <2>1, <3>1 DEF Closure!Finish, Left, Wanted, State
    <3> QED
      BY <3>2
  <2>3. CASE archives # << >>
    <3>1. State' = "pulling"
      BY <1>4, <2>3 DEF StartPull, State
    <3>2. Closure!StartPulling
      BY <2>1, <3>1 DEF Closure!StartPulling, Left, Wanted, State
    <3> QED
      BY <3>2
  <2> QED
    BY <2>2, <2>3
<1>5. CASE EndPull
  <2>1. ScanInv' /\ pc' = "done" /\ pc = "pass"
    BY <1>0, <1>5, ScanEnd DEF IInv, EndPull
  <2>2. UNCHANGED <<exports, Wanted, Left>>
    BY <1>5 DEF EndPull, Wanted, UnresolvedNames, Left, Positions, MemberUnit
  <2>3. \A p \in DOMAIN Left : Left[p] \cap Wanted = {}
    BY <1>5, <2>1 DEF ScanInv, Fixpoint, Satisfies, EndPull, Left, Wanted,
                      Positions, MemberUnit, UnresolvedNames
  <2>4. State = "pulling" /\ State' = "linked"
    BY <2>1 DEF State
  <2>5. Closure!Finish
    BY <2>2, <2>3, <2>4 DEF Closure!Finish, Left, Wanted, State
  <2> QED
    BY <2>5
<1>6. CASE NoInputs \/ InputFails \/ PullFails
  <2>1. UNCHANGED <<exports, Wanted, Left>>
    BY <1>6 DEF NoInputs, InputFails, PullFails, Fail, Wanted, UnresolvedNames,
                Left, Positions, MemberUnit
  <2>2. State \in {"loading", "pulling"} /\ State' = "failed"
    BY <1>6 DEF NoInputs, InputFails, PullFails, Fail, State
  <2>3. Closure!Fail
    BY <2>1, <2>2 DEF Closure!Fail, Left, Wanted, State
  <2> QED
    BY <2>3
<1>7. CASE \/ BeginPass \/ EnterArchive \/ EndPass \/ LeaveArchive
           \/ SkipMember \/ UNCHANGED vars
  <2>1. UNCHANGED <<exports, Wanted, Left>>
    BY <1>7 DEF BeginPass, EnterArchive, EndPass, LeaveArchive, SkipMember, vars,
                Wanted, UnresolvedNames, Left, Positions, MemberUnit
  <2>2. State' = State
    BY <1>7 DEF BeginPass, EnterArchive, EndPass, LeaveArchive, SkipMember, vars,
                State
  <2> QED
    BY <2>1, <2>2 DEF Left, Wanted, State
<1> QED
  BY <1>1, <1>2, <1>3, <1>4, <1>5, <1>6, <1>7 DEF Next, Finished

(* phaseMerge implements the abstract linking of libraries. *)
THEOREM Refinement == Spec => ImplementsClosure
<1>1. IInv /\ [Next]_vars => [Closure!Next]_(Closure!vars)
  BY RefineStep
<1> QED
  BY RefineInit, Inductive, <1>1, PTL DEF Spec, ImplementsClosure, Closure!Spec

=============================================================================
