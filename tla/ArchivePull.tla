---------------------------- MODULE ArchivePull ----------------------------
(***************************************************************************)
(* The merge phase of the linker, at the level of symbol names: phaseMerge *)
(* appends every in-memory translation unit to the output in command-line  *)
(* order and opens the archives; lazyPullArchives then scans the archives, *)
(* member by member, and merges the members that export a name the output  *)
(* still needs, until a whole pass adds nothing (src/link/Linker.cpp).     *)
(*                                                                         *)
(* A unit (a translation unit or an archive member) is reduced to the      *)
(* names it exports, the (module, name) pairs it imports and whether it    *)
(* can be read and merged; what merging does to the unit's contents is the *)
(* subject of LinkPhases and Linker.                                       *)
(***************************************************************************)
EXTENDS Integers, Sequences

CONSTANTS
  Name,        \* symbol names
  Module,      \* import modules: "env", the host modules, ...
  Builtin,     \* kHostModules: the modules the built-in host always provides
  Env,         \* the module "env" of ordinary C externs
  RuntimeState,\* the four env.__* names crt0 materialises
  Main, Exit,  \* the names "main" and "exit"
  Commands     \* the link command lines considered

Import == [mod : Module, name : Name]
Status == {"good", "undecodable", "unlinkable"}
Unit   == [exp : SUBSET Name, imp : SUBSET Import, status : Status]

TU      == [kind : {"tu"}, unit : Unit]
Archive == [kind : {"ar"}, open : BOOLEAN, members : Seq(Unit)]
Command == [inputs : Seq(TU \cup Archive), noStdlib : BOOLEAN]

ASSUME NamesAssumption == /\ RuntimeState \subseteq Name
                          /\ {Main, Exit} \subseteq Name
                          /\ Env \in Module
                          /\ Builtin \subseteq Module
ASSUME CommandsAssumption == Commands \subseteq Command

VARIABLES
  cmd,       \* the command line being linked (never changes)
  next,      \* position of the next input phaseMerge looks at
  archives,  \* the archives opened so far, in order
  exports,   \* names exported by ctx.output
  imports,   \* imports of ctx.output (never removed during this phase)
  pulled,    \* <<archive, member>> pairs already merged
  need,      \* the worklist of lazyPullArchives
  arch, memb,\* the scan position
  progress,  \* did the current pass pull anything?
  pc         \* "merge", "pass", "archive", "member", "done" or "error"

scan == <<arch, memb>>
vars == <<cmd, next, archives, exports, imports, pulled, need, arch, memb,
          progress, pc>>

-----------------------------------------------------------------------------
(* isRuntimeProvided, unresolvedNames and memberSatisfies.                 *)

RuntimeProvided(imp) ==
  \/ imp.mod \in Builtin
  \/ imp.mod = Env /\ imp.name \in RuntimeState

(* Fault: the host functions are not excluded from the worklist. *)
UnresolvedHostNames(exps, imps) == {imp.name : imp \in imps} \ exps

UnresolvedNames(exps, imps) ==
  {imp.name : imp \in {p \in imps : ~RuntimeProvided(p)}} \ exps

Satisfies(unit, names) == unit.exp \cap names # {}

(* Fault: no duplicate export check. *)
MergeFailsUnlinkable(unit) == unit.status = "unlinkable"

(* mergeOne refuses a unit that is not linkable (its own memory, a start   *)
(* section, a non-funcref table) or that exports a name already exported.  *)
MergeFails(unit) == unit.status = "unlinkable" \/ unit.exp \cap exports # {}

Merge(unit) ==
  /\ exports' = exports \cup unit.exp
  /\ imports' = imports \cup unit.imp

Members  == archives[arch].members
Candidate == Members[memb]

-----------------------------------------------------------------------------
Start ==
  /\ next = 1
  /\ archives = << >>
  /\ exports = {} /\ imports = {}
  /\ pulled = {} /\ need = {}
  /\ arch = 1 /\ memb = 1
  /\ progress = TRUE
  /\ pc = "merge"
Init == cmd \in Commands /\ Start

Fail == /\ pc' = "error"
        /\ UNCHANGED <<cmd, next, archives, exports, imports, pulled, need,
                       arch, memb, progress>>

(* phaseMerge: one iteration of the loop over the inputs. *)
NoInputs == pc = "merge" /\ cmd.inputs = << >> /\ Fail

MergeTU ==
  /\ pc = "merge" /\ next \in DOMAIN cmd.inputs
  /\ cmd.inputs[next].kind = "tu"
  /\ ~MergeFails(cmd.inputs[next].unit)
  /\ Merge(cmd.inputs[next].unit)
  /\ next' = next + 1
  /\ UNCHANGED <<cmd, archives, pulled, need, arch, memb, progress, pc>>

OpenArchive ==
  /\ pc = "merge" /\ next \in DOMAIN cmd.inputs
  /\ cmd.inputs[next].kind = "ar"
  /\ cmd.inputs[next].open
  /\ archives' = Append(archives, cmd.inputs[next])
  /\ next' = next + 1
  /\ UNCHANGED <<cmd, exports, imports, pulled, need, arch, memb, progress, pc>>

InputFails ==
  /\ pc = "merge" /\ next \in DOMAIN cmd.inputs
  /\ \/ cmd.inputs[next].kind = "tu" /\ MergeFails(cmd.inputs[next].unit)
     \/ cmd.inputs[next].kind = "ar" /\ ~cmd.inputs[next].open
  /\ Fail

(* lazyPullArchives: the initial worklist, with the seed of #79. *)
Seed == IF ~cmd.noStdlib /\ Main \in exports /\ Exit \notin exports
          THEN {Exit} ELSE {}

StartPull ==
  /\ pc = "merge" /\ cmd.inputs # << >> /\ next = Len(cmd.inputs) + 1
  /\ IF archives = << >>
       THEN pc' = "done" /\ UNCHANGED need
       ELSE pc' = "pass" /\ need' = UnresolvedNames(exports, imports) \cup Seed
  /\ UNCHANGED <<cmd, next, archives, exports, imports, pulled, arch, memb,
                 progress>>

(* Fault: one pass over the archives, no fixpoint. *)
EndPullOnePass ==
  /\ pc = "pass" /\ (~progress \/ need = {} \/ pulled # {})
  /\ pc' = "done"
  /\ UNCHANGED <<cmd, next, archives, exports, imports, pulled, need, arch,
                 memb, progress>>

(* while (progress && !need.empty()) { progress = false; ... *)
BeginPass ==
  /\ pc = "pass" /\ progress /\ need # {}
  /\ progress' = FALSE
  /\ arch' = 1 /\ memb' = 1
  /\ pc' = "archive"
  /\ UNCHANGED <<cmd, next, archives, exports, imports, pulled, need>>

EndPull ==
  /\ pc = "pass" /\ (~progress \/ need = {})
  /\ pc' = "done"
  /\ UNCHANGED <<cmd, next, archives, exports, imports, pulled, need, arch,
                 memb, progress>>

(* for (a = 0; a < archives.size() && !need.empty(); ++a) *)
EnterArchive ==
  /\ pc = "archive" /\ arch \in DOMAIN archives /\ need # {}
  /\ memb' = 1 /\ pc' = "member"
  /\ UNCHANGED <<cmd, next, archives, exports, imports, pulled, need, arch,
                 progress>>

EndPass ==
  /\ pc = "archive" /\ (arch \notin DOMAIN archives \/ need = {})
  /\ pc' = "pass"
  /\ UNCHANGED <<cmd, next, archives, exports, imports, pulled, need, arch,
                 memb, progress>>

(* Fault: the archive index does not advance. *)
LeaveArchiveStay ==
  /\ pc = "member" /\ memb \notin DOMAIN Members
  /\ pc' = "archive"
  /\ UNCHANGED <<cmd, next, archives, exports, imports, pulled, need, arch,
                 memb, progress>>

(* for (i = 0; i < ar.memberCount(); ++i) *)
LeaveArchive ==
  /\ pc = "member" /\ memb \notin DOMAIN Members
  /\ arch' = arch + 1 /\ pc' = "archive"
  /\ UNCHANGED <<cmd, next, archives, exports, imports, pulled, need, memb,
                 progress>>

SkipMember ==
  /\ pc = "member" /\ memb \in DOMAIN Members
  /\ \/ scan \in pulled
     \/ Candidate.status # "undecodable" /\ ~Satisfies(Candidate, need)
  /\ memb' = memb + 1
  /\ UNCHANGED <<cmd, next, archives, exports, imports, pulled, need, arch,
                 progress, pc>>

PullFails ==
  /\ pc = "member" /\ memb \in DOMAIN Members
  /\ scan \notin pulled
  /\ \/ Candidate.status = "undecodable"
     \/ Satisfies(Candidate, need) /\ MergeFails(Candidate)
  /\ Fail

(* The pull: merge, recompute the worklist from the output alone, and      *)
(* restart the scan of THIS archive (i = -1; ++i).                         *)
PullMember ==
  /\ pc = "member" /\ memb \in DOMAIN Members
  /\ scan \notin pulled
  /\ Candidate.status # "undecodable"
  /\ Satisfies(Candidate, need) /\ ~MergeFails(Candidate)
  /\ Merge(Candidate)
  /\ pulled' = pulled \cup {scan}
  /\ progress' = TRUE
  /\ need' = UnresolvedNames(exports', imports')
  /\ memb' = 1
  /\ UNCHANGED <<cmd, next, archives, arch, pc>>

(* The phase is over: link() goes on with the output or reports the error. *)
Finished == pc \in {"done", "error"} /\ UNCHANGED vars

Next ==
  \/ NoInputs \/ MergeTU \/ OpenArchive \/ InputFails \/ StartPull
  \/ BeginPass \/ EndPull \/ EnterArchive \/ EndPass \/ LeaveArchive
  \/ SkipMember \/ PullFails \/ PullMember \/ Finished

Spec == Init /\ [][Next]_vars

(* The linker is one sequential process: it never stops between two steps. *)
FairSpec == Spec /\ WF_vars(Next)

-----------------------------------------------------------------------------
(* Units already part of the output: inputs by position, members by scan   *)
(* position.                                                               *)
MergedTUs == {k \in 1 .. next - 1 : cmd.inputs[k].kind = "tu"}
TUUnit(k) == cmd.inputs[k].unit
MemberUnit(p) == archives[p[1]].members[p[2]]
Positions ==
  UNION {{<<a, i>> : i \in DOMAIN archives[a].members} : a \in DOMAIN archives}

(* Every variable holds a value of the C++ variable's type. *)
TypeOK ==
  /\ cmd \in Command
  /\ next \in 1 .. Len(cmd.inputs) + 1
  /\ archives \in Seq(Archive)
  /\ exports \subseteq Name /\ imports \subseteq Import
  /\ pulled \subseteq Positions /\ need \subseteq Name
  /\ arch \in Nat \ {0} /\ memb \in Nat \ {0}
  /\ progress \in BOOLEAN
  /\ pc \in {"merge", "pass", "archive", "member", "done", "error"}
  /\ pc = "member" => arch \in DOMAIN archives

(* One definition per name: no two units merged into the output, whether   *)
(* translation units or archive members, export the same name, whatever    *)
(* the order in which the scan found them (mergeOne's duplicate check and  *)
(* the `pulled` table together).                                           *)
OneDefinition ==
  /\ \A k, l \in MergedTUs : k # l => TUUnit(k).exp \cap TUUnit(l).exp = {}
  /\ \A p, q \in pulled : p # q => MemberUnit(p).exp \cap MemberUnit(q).exp = {}
  /\ \A k \in MergedTUs, p \in pulled : TUUnit(k).exp \cap MemberUnit(p).exp = {}

(* Only what is needed is linked: each pulled member exports a name that   *)
(* some OTHER merged unit imports, or is the provider of `exit`.           *)
PullJustified ==
  \A p \in pulled : \E n \in MemberUnit(p).exp :
    \/ n = Exit
    \/ \E imp \in Import : /\ imp.name = n /\ ~RuntimeProvided(imp)
                          /\ \/ \E k \in MergedTUs : imp \in TUUnit(k).imp
                             \/ \E q \in pulled \ {p} : imp \in MemberUnit(q).imp

(* The scan is a fixpoint: when it is over, no member left out of the      *)
(* output exports a name that is still unresolved, in any archive, earlier *)
(* or later on the command line (the comment "until a full pass adds       *)
(* nothing").                                                              *)
Fixpoint ==
  pc = "done" => \A p \in Positions \ pulled :
                   ~Satisfies(MemberUnit(p), UnresolvedNames(exports, imports))

(* Whatever the archives' mutual references, the scan ends. *)
Termination == <>(pc \in {"done", "error"})

(* The phase implements LinkClosure: the worklist, the scan position and   *)
(* the progress flag only decide which wanted member is pulled next.       *)
Closure == INSTANCE LinkClosure WITH
  defined <- exports,
  wanted  <- UnresolvedNames(exports, imports),
  left    <- [p \in Positions \ pulled |-> MemberUnit(p).exp],
  state   <- CASE pc = "merge" -> "loading"
               [] pc \in {"pass", "archive", "member"} -> "pulling"
               [] pc = "done"  -> "linked"
               [] pc = "error" -> "failed"
ImplementsClosure == Closure!Spec

(* What Linker.cpp:84-87 and Crt0Synth.cpp:291-292 say of the seed: an     *)
(* executable linked against an archive that defines exit contains it.     *)
ExitPresent ==
  /\ pc = "done" /\ ~cmd.noStdlib /\ Main \in exports
  /\ \E p \in Positions : Exit \in MemberUnit(p).exp
  => Exit \in exports
=============================================================================
