--------------------------- MODULE Driver_proofs ---------------------------
(***************************************************************************)
(* Proofs about the command wvmcc, for every command line, every world and *)
(* every number of diagnostics: what a run reports and the status it ends  *)
(* with (Driver, ExitTruthful and EveryDiagnosticOnce), the files it       *)
(* leaves (Delivered) and those it does not touch (InputsKept).            *)
(***************************************************************************)
EXTENDS Driver, FiniteSetTheorems, SequenceTheorems, WellFoundedInduction, TLAPS

Phases == {"usage", "open", "object", "preprocess", "parse", "semantic", "codegen", "validate", "write",
           "library", "merge", "symbols", "map"}
Severities == {"warning", "error"}
Diagnostics == [unit : Nat, phase : Phases, severity : Severities]

\* The streams of diagnostics: while the driver runs, everything found has been printed, except what the linker has
\* just put in its log; no error lies behind it, nor in the list semantic analysis appends to.
Reports ==
  /\ unit \in Nat /\ status \in {Running, 0, 1, 2}
  /\ raised \in Seq(Diagnostics) /\ shown \in Seq(Diagnostics)
  /\ list \in Seq(Diagnostics) /\ log \in Seq(Diagnostics)
  /\ status # Running <=> pc = "done"
  /\ \A i \in DOMAIN log : log[i].severity = "error"
  /\ IF pc = "log" THEN raised = shown \o log ELSE raised = shown
  /\ pc # "done" => ~HasError(shown)
  /\ pc = "done" => (status = 0 <=> ~HasError(shown))
  /\ pc = "semantic" => ~HasError(list)

-----------------------------------------------------------------------------
\* A sequence holds an error when one of its two parts does.
LEMMA ErrorInEither ==
  ASSUME NEW a \in Seq(Diagnostics), NEW b \in Seq(Diagnostics)
  PROVE  HasError(a \o b) <=> HasError(a) \/ HasError(b)
<1>1. ASSUME NEW i \in DOMAIN (a \o b), (a \o b)[i].severity = "error"
      PROVE  HasError(a) \/ HasError(b)
  <2>1. CASE i \in DOMAIN a  BY <1>1, <2>1 DEF HasError
  <2>2. CASE i \notin DOMAIN a
    <3>1. i - Len(a) \in DOMAIN b /\ (a \o b)[i] = b[i - Len(a)]  BY <2>2
    <3>2. QED  BY <1>1, <3>1 DEF HasError
  <2>3. QED  BY <2>1, <2>2
<1>2. ASSUME NEW i \in DOMAIN a, a[i].severity = "error"
      PROVE  HasError(a \o b)
  <2>1. i \in DOMAIN (a \o b) /\ (a \o b)[i] = a[i]  OBVIOUS
  <2>2. QED  BY <1>2, <2>1 DEF HasError
<1>3. ASSUME NEW i \in DOMAIN b, b[i].severity = "error"
      PROVE  HasError(a \o b)
  <2>1. Len(a) + i \in DOMAIN (a \o b) /\ (a \o b)[Len(a) + i] = b[i]  OBVIOUS
  <2>2. QED  BY <1>3, <2>1 DEF HasError
<1>4. QED  BY <1>1, <1>2, <1>3 DEF HasError

\* The printed part of the list is what was appended to it.
LEMMA AppendedPart ==
  ASSUME NEW a \in Seq(Diagnostics), NEW b \in Seq(Diagnostics)
  PROVE  Added(a, a \o b) = b
BY DEF Added

\* One diagnostic is an error when its severity says so.
LEMMA ErrorOfOne ==
  ASSUME NEW d \in Diagnostics
  PROVE  HasError(<<d>>) <=> d.severity = "error"
BY DEF HasError

\* No error among no diagnostics.
LEMMA NoErrorInNone == ~HasError(<<>>)
BY DEF HasError

\* What Diagnostic builds is a diagnostic of the severity given.
LEMMA DiagnosticType ==
  ASSUME unit \in Nat, NEW phase \in Phases, NEW severity \in Severities
  PROVE  Diagnostic(phase, severity) \in Diagnostics /\ Diagnostic(phase, severity).severity = severity
BY DEF Diagnostic, Diagnostics

\* What a phase may report is a sequence of diagnostics.
LEMMA BatchType ==
  ASSUME unit \in Nat, NEW phase \in Phases, NEW ds \in Batches(phase)
  PROVE  ds \in Seq(Diagnostics)
<1>1. CASE ds = <<>>  BY <1>1
<1>2. CASE ds # <<>>
  <2>1. PICK s \in {"warning", "error"} : ds = <<Diagnostic(phase, s)>>  BY <1>2 DEF Batches
  <2>2. Diagnostic(phase, s) \in Diagnostics
    <3>1. s \in Severities  BY <2>1 DEF Severities
    <3>2. QED  BY <3>1, DiagnosticType
  <2> HIDE DEF Diagnostics, Diagnostic
  <2>3. QED  BY <2>1, <2>2
<1>3. QED  BY <1>1, <1>2

\* A step that prints what it finds, and stops with the status of what it found or goes on when it found no error,
\* keeps the account of the diagnostics.
LEMMA Reporting ==
  ASSUME Reports, pc # "log", pc # "done", NEW ds \in Seq(Diagnostics), Report(ds),
         unit' \in Nat, list' \in Seq(Diagnostics), UNCHANGED log,
         \/ pc' = "done" /\ status' \in {0, 1, 2} /\ (status' = 0 <=> ~HasError(ds))
         \/ pc' \notin {"done", "log"} /\ UNCHANGED status /\ ~HasError(ds) /\ (pc' = "semantic" => ~HasError(list'))
  PROVE  Reports'
<1>1. raised = shown /\ ~HasError(shown) /\ status = Running
  BY DEF Reports
<1>2. raised' \in Seq(Diagnostics) /\ shown' \in Seq(Diagnostics) /\ raised' = shown'
  BY <1>1 DEF Reports, Report, Raise, PrintDiagnostics
<1>3. HasError(shown') <=> HasError(ds)
  BY <1>1, ErrorInEither DEF Reports, Report, PrintDiagnostics
<1>4. log' \in Seq(Diagnostics) /\ \A i \in DOMAIN log' : log'[i].severity = "error"
  BY DEF Reports
<1>5. CASE pc' = "done"
  BY <1>2, <1>3, <1>4, <1>5 DEF Reports, Running
<1>6. CASE pc' # "done"
  BY <1>1, <1>2, <1>3, <1>4, <1>6 DEF Reports, Running
<1>7. QED  BY <1>5, <1>6

\* A step that finds nothing.
LEMMA Silent ==
  ASSUME Reports, pc # "log", pc # "done", UNCHANGED report, unit' \in Nat, list' \in Seq(Diagnostics), UNCHANGED log,
         \/ pc' = "done" /\ status' = 0
         \/ pc' \notin {"done", "log"} /\ UNCHANGED status /\ (pc' = "semantic" => pc = "semantic" /\ UNCHANGED list)
  PROVE  Reports'
<1>1. <<>> \in Seq(Diagnostics) /\ Report(<<>>)
  BY DEF Reports, report, Report, Raise, PrintDiagnostics
<1>2. pc' = "semantic" => pc = "semantic" /\ ~HasError(list')
  BY DEF Reports
<1>3. QED  BY <1>1, <1>2, NoErrorInNone, Reporting

\* An action that fails prints one error and ends with another status than 0.
LEMMA Failing ==
  ASSUME Reports, pc # "log", pc # "done", NEW phase \in Phases, NEW code \in {1, 2}, Fail(phase, code),
         unit' \in Nat, list' \in Seq(Diagnostics), UNCHANGED log
  PROVE  Reports'
<1>1. Diagnostic(phase, "error") \in Diagnostics /\ Diagnostic(phase, "error").severity = "error"
  <2>1. "error" \in Severities /\ unit \in Nat  BY DEF Reports, Severities
  <2>2. QED  BY <2>1, DiagnosticType
<1> DEFINE d == <<Diagnostic(phase, "error")>>
<1>2. d \in Seq(Diagnostics) /\ HasError(d)  BY <1>1, ErrorOfOne
<1>3. Report(d) /\ pc' = "done" /\ status' = code
  BY DEF Fail, Exit
<1> HIDE DEF d
<1>4. QED  BY <1>2, <1>3, Reporting

\* The linker's log holds errors only.
Errors == {d \in Diagnostics : d.severity = "error"}

\* Unless reports an error or nothing.
LEMMA UnlessType ==
  ASSUME unit \in Nat, NEW ok, NEW phase \in Phases
  PROVE  Unless(ok, phase) \in Seq(Errors)
<1>1. "error" \in Severities  BY DEF Severities
<1>2. Diagnostic(phase, "error") \in Errors  BY <1>1, DiagnosticType DEF Errors
<1>3. QED  BY <1>2 DEF Unless

\* The linker's log, put together of three parts, holds errors only.
LEMMA LogOfErrors ==
  ASSUME NEW a \in Seq(Errors), NEW b \in Seq(Errors), NEW c \in Seq(Errors)
  PROVE  a \o b \o c \in Seq(Diagnostics) /\ \A i \in DOMAIN (a \o b \o c) : (a \o b \o c)[i].severity = "error"
<1>1. a \o b \o c \in Seq(Errors)  OBVIOUS
<1>2. QED  BY <1>1 DEF Errors

\* A run starts with nothing found and nothing printed.
LEMMA ReportsInit == Init => Reports
<1> SUFFICES ASSUME Init PROVE Reports  OBVIOUS
<1>1. /\ pc = "arguments" /\ unit = 1 /\ status = Running
      /\ list = <<>> /\ log = <<>> /\ raised = <<>> /\ shown = <<>>
  BY DEF Init
<1>2. <<>> \in Seq(Diagnostics)  OBVIOUS
<1>3. QED  BY <1>1, <1>2, NoErrorInNone DEF Reports, Running

\* Every step keeps what was found printed: one case per action.
LEMMA ReportsStep == Reports /\ [Next]_vars => Reports'
<1> SUFFICES ASSUME Reports, [Next]_vars PROVE Reports'  OBVIOUS
<1> USE DEF Continue, Exit, linking
<1>0. unit \in Nat /\ unit + 1 \in Nat /\ list \in Seq(Diagnostics) /\ <<>> \in Seq(Diagnostics)
  BY DEF Reports
<1>p. Phases = {"usage", "open", "object", "preprocess", "parse", "semantic", "codegen", "validate", "write",
                "library", "merge", "symbols", "map"}
  BY DEF Phases
<1>1. CASE ReadArgument
  BY <1>0, <1>1, Silent DEF ReadArgument
<1>2. CASE LastArgumentAwaits
  <2>1. CASE Argument.opt = "-o"  BY <1>0, <1>2, <2>1, Silent DEF LastArgumentAwaits
  <2>2. CASE Argument.opt # "-o"  BY <1>0, <1>p, <1>2, <2>2, Failing DEF LastArgumentAwaits
  <2>3. QED  BY <2>1, <2>2
<1>3. CASE ShowHelp
  BY <1>0, <1>3, Silent DEF ShowHelp
<1>4. CASE SelectMode
  <2>1. CASE Refused  BY <1>0, <1>p, <1>4, <2>1, Failing DEF SelectMode
  <2>2. CASE ~Refused  BY <1>0, <1>4, <2>2, Silent DEF SelectMode
  <2>3. QED  BY <2>1, <2>2
<1>5. CASE OpenSource
  <2>1. CASE Fail("open", 1)  BY <1>0, <1>p, <1>5, <2>1, Failing DEF OpenSource
  <2>2. CASE ~Fail("open", 1)  BY <1>0, <1>5, <2>2, Silent DEF OpenSource
  <2>3. QED  BY <2>1, <2>2
<1>6. CASE Preprocess
  <2>1. PICK ds \in Batches("preprocess") : Report(ds) /\ Exit(IF HasError(ds) THEN 1 ELSE 0)
    BY <1>6 DEF Preprocess
  <2>2. ds \in Seq(Diagnostics)  BY <1>0, <1>p, BatchType
  <2>3. pc = "front" /\ UNCHANGED <<unit, list, log>>  BY <1>6 DEF Preprocess
  <2>4. CASE HasError(ds)  BY <1>0, <2>1, <2>2, <2>3, <2>4, Reporting
  <2>5. CASE ~HasError(ds)  BY <1>0, <2>1, <2>2, <2>3, <2>5, Reporting
  <2>6. QED  BY <2>4, <2>5
<1>7. CASE Parse
  <2>1. PICK pp \in Batches("preprocess"), ps \in Batches("parse") :
          /\ Report(pp \o ps) /\ list' = ps
          /\ IF FrontFails(pp, ps) THEN Exit(1) ELSE Continue(IF Mode = "--ast" THEN "write" ELSE "semantic")
    BY <1>7 DEF Parse
  <2>2. pp \in Seq(Diagnostics) /\ ps \in Seq(Diagnostics)  BY <1>0, <1>p, BatchType
  <2>3. PICK ds \in Seq(Diagnostics) : ds = pp \o ps
    <3>1. pp \o ps \in Seq(Diagnostics)  BY <2>2
    <3>2. QED  BY <3>1
  <2>4. HasError(ds) <=> FrontFails(pp, ps)  BY <2>2, <2>3, ErrorInEither DEF FrontFails
  <2>5. /\ pc = "front" /\ UNCHANGED log /\ unit' \in Nat /\ Report(ds)
    BY <1>0, <1>7, <2>1, <2>3 DEF Parse
  <2>6. CASE FrontFails(pp, ps)
    <3>1. pc' = "done" /\ status' = 1 /\ list' = ps  BY <2>1, <2>6
    <3>2. HasError(ds)  BY <2>4, <2>6
    <3>3. QED  BY <2>2, <2>5, <3>1, <3>2, Reporting
  <2>7. CASE ~FrontFails(pp, ps)
    <3>1. ~HasError(list')  BY <2>1, <2>7 DEF FrontFails
    <3>2. pc' \notin {"done", "log"} /\ UNCHANGED status  BY <2>1, <2>7
    <3>3. QED  BY <2>1, <2>2, <2>3, <2>4, <2>5, <2>7, <3>1, <3>2, Reporting
  <2>8. QED  BY <2>6, <2>7
<1>8. CASE RunSemantic
  <2>1. PICK ds \in Batches("semantic") :
          /\ list' = list \o ds /\ Raise(ds) /\ PrintDiagnostics(Added(list, list \o ds))
          /\ IF HasError(list \o ds) \/ HasError(Added(list, list \o ds)) THEN Exit(1) ELSE Continue("generate")
    BY <1>8 DEF RunSemantic
  <2>2. ds \in Seq(Diagnostics)  BY <1>0, <1>p, BatchType
  <2>3. Added(list, list \o ds) = ds  BY <1>0, <2>2, AppendedPart
  <2>4. HasError(list \o ds) <=> HasError(ds)
    BY <1>0, <1>8, <2>2, ErrorInEither DEF Reports, RunSemantic
  <2>5. list' \in Seq(Diagnostics) /\ unit' \in Nat /\ UNCHANGED log /\ pc = "semantic"
    BY <1>0, <1>8, <2>1, <2>2 DEF RunSemantic
  <2>6. Report(ds)
    BY <2>1, <2>3 DEF Report
  <2>7. CASE HasError(ds)  BY <2>1, <2>2, <2>3, <2>4, <2>5, <2>6, <2>7, Reporting
  <2>8. CASE ~HasError(ds)  BY <2>1, <2>2, <2>3, <2>4, <2>5, <2>6, <2>8, Reporting
  <2>9. QED  BY <2>7, <2>8
<1>9. CASE Generate
  <2>1. PICK ds \in Batches("codegen") :
          Report(ds) /\ (IF HasError(ds) THEN Exit(1) ELSE Continue("validate"))
    BY <1>9 DEF Generate
  <2>2. ds \in Seq(Diagnostics)  BY <1>0, <1>p, BatchType
  <2>3. pc = "generate" /\ UNCHANGED <<unit, list, log>>  BY <1>9 DEF Generate
  <2>4. CASE HasError(ds)  BY <1>0, <2>1, <2>2, <2>3, <2>4, Reporting
  <2>5. CASE ~HasError(ds)  BY <1>0, <2>1, <2>2, <2>3, <2>5, Reporting
  <2>6. QED  BY <2>4, <2>5
<1>10. CASE Validate
  <2>1. CASE Fail("validate", 1)  BY <1>0, <1>p, <1>10, <2>1, Failing DEF Validate
  <2>2. CASE ~Fail("validate", 1)  BY <1>0, <1>10, <2>2, Silent DEF Validate
  <2>3. QED  BY <2>1, <2>2
<1>11. CASE WriteObject
  <2>1. CASE Fail("write", 1)  BY <1>0, <1>p, <1>11, <2>1, Failing DEF WriteObject
  <2>2. CASE ~Fail("write", 1)  BY <1>0, <1>11, <2>2, Silent DEF WriteObject
  <2>3. QED  BY <2>1, <2>2
<1>12. CASE AllWritten
  BY <1>0, <1>12, Silent DEF AllWritten
<1>13. CASE LoadObject
  <2>1. CASE Fail("object", 1)  BY <1>0, <1>p, <1>13, <2>1, Failing DEF LoadObject
  <2>2. CASE ~Fail("object", 1)  BY <1>0, <1>13, <2>2, Silent DEF LoadObject
  <2>3. QED  BY <2>1, <2>2
<1>14. CASE AllCompiled
  BY <1>0, <1>14, Silent DEF AllCompiled
<1>15. CASE FindLibrary
  <2>1. CASE Fail("library", 1)  BY <1>0, <1>p, <1>15, <2>1, Failing DEF FindLibrary
  <2>2. CASE ~Fail("library", 1)
    <3>1. UNCHANGED <<report, unit, list, log>> /\ Continue(pc) /\ pc = "libraries"
      BY <1>15, <2>2 DEF FindLibrary
    <3>2. QED  BY <1>0, <3>1, Silent
  <2>3. QED  BY <2>1, <2>2
<1>16. CASE Link
  <2>1. PICK merged, resolved, opens \in BOOLEAN :
          log' = Unless(merged, "merge") \o Unless(resolved, "symbols") \o Unless(opens, "map")
    BY <1>16 DEF Link
  <2>a. /\ Unless(merged, "merge") \in Seq(Errors)
        /\ Unless(resolved, "symbols") \in Seq(Errors)
        /\ Unless(opens, "map") \in Seq(Errors)
    BY <1>0, <1>p, UnlessType
  <2>2. log' \in Seq(Diagnostics) /\ \A i \in DOMAIN log' : log'[i].severity = "error"
    BY <2>1, <2>a, LogOfErrors
  <2>3. /\ pc = "libraries" /\ pc' = "log" /\ UNCHANGED <<status, shown, unit, list>>
        /\ raised' = raised \o log'
    BY <1>16 DEF Link, Raise
  <2>4. QED  BY <2>2, <2>3 DEF Reports, HasError
<1>17. CASE ShowLog
  <2>1. pc = "log" /\ UNCHANGED <<raised, unit, list, log>>
    BY <1>17 DEF ShowLog
  <2>2. log = <<>> \/ HasError(log)
    BY DEF Reports, HasError
  <2>3. shown' = shown \o log
    BY <1>17, <2>2 DEF ShowLog, PrintDiagnostics
  <2>4. shown' = raised' /\ shown' \in Seq(Diagnostics)
    BY <2>1, <2>3 DEF Reports
  <2>5. HasError(shown') <=> HasError(log)
    <3>1. raised \in Seq(Diagnostics) /\ log \in Seq(Diagnostics) /\ shown \in Seq(Diagnostics)  BY DEF Reports
    <3>2. ~HasError(shown)  BY <2>1 DEF Reports
    <3>3. QED  BY <2>3, <3>1, <3>2, ErrorInEither
  <2>6. IF HasError(log) THEN pc' = "done" /\ status' = 1 ELSE pc' = "check" /\ UNCHANGED status
    BY <1>17 DEF ShowLog
  <2>7. CASE HasError(log)
    BY <2>1, <2>4, <2>5, <2>6, <2>7 DEF Reports, Running
  <2>8. CASE ~HasError(log)
    BY <2>1, <2>4, <2>5, <2>6, <2>8 DEF Reports, Running
  <2>9. QED  BY <2>7, <2>8
<1>18. CASE ValidateProgram
  <2>1. CASE Fail("validate", 1)  BY <1>0, <1>p, <1>18, <2>1, Failing DEF ValidateProgram
  <2>2. CASE ~Fail("validate", 1)  BY <1>0, <1>18, <2>2, Silent DEF ValidateProgram
  <2>3. QED  BY <2>1, <2>2
<1>19. CASE WriteProgram
  <2>1. CASE Fail("write", 1)  BY <1>0, <1>p, <1>19, <2>1, Failing DEF WriteProgram
  <2>2. CASE ~Fail("write", 1)  BY <1>0, <1>19, <2>2, Silent DEF WriteProgram
  <2>3. QED  BY <2>1, <2>2
<1>20. CASE Ended \/ UNCHANGED vars
  BY <1>20 DEF Ended, vars, report, Reports, HasError
<1>21. QED
  BY <1>1, <1>2, <1>3, <1>4, <1>5, <1>6, <1>7, <1>8, <1>9, <1>10, <1>11, <1>12, <1>13, <1>14, <1>15, <1>16,
     <1>17, <1>18, <1>19, <1>20 DEF Next

\* The invariant of the reports.
LEMMA ReportsAlways == Spec => []Reports
BY ReportsInit, ReportsStep, PTL DEF Spec

-----------------------------------------------------------------------------
\* The status of a run that has ended is 0 exactly when no phase of any unit, nor the linker, found an error.
THEOREM StatusTruthful == Spec => []ExitTruthful
<1>1. Reports => ExitTruthful
  BY DEF Reports, ExitTruthful
<1>2. QED  BY <1>1, ReportsAlways, PTL

\* A run that has ended has printed each diagnostic once, in the order found.
THEOREM PrintedOnce == Spec => []EveryDiagnosticOnce
<1>1. Reports => EveryDiagnosticOnce
  BY DEF Reports, EveryDiagnosticOnce
<1>2. QED  BY <1>1, ReportsAlways, PTL

-----------------------------------------------------------------------------
(* Numbers of a set in order, and the words of a command line. *)

UpTo(K, k) == {j \in K : j <= k}
At(K, n) == {k \in K : Cardinality(UpTo(K, k)) = n}

\* The nth number of a set is one of those with n numbers up to it.
LEMMA NthIs ==
  ASSUME NEW K, NEW n
  PROVE  Nth(K, n) = CHOOSE k \in At(K, n) : TRUE
<1>1. \A k : k \in At(K, n) <=> k \in K /\ Cardinality({j \in K : j <= k}) = n  BY DEF At, UpTo
<1>2. QED  BY <1>1, Zenon DEF Nth

\* The function w on 1 .. c + 1 goes on where the function v on 1 .. c ends.
GoesOn(v, w, c) ==
  c \in Nat /\ v = [n \in 1 .. c |-> v[n]] /\ w = [n \in 1 .. c + 1 |-> w[n]] /\ \A n \in 1 .. c : w[n] = v[n]

\* Such a w is v with one more element.
LEMMA AppendOf ==
  ASSUME NEW v, NEW w, NEW c, GoesOn(v, w, c)
  PROVE  w = Append(v, w[c + 1])
<1>1. c \in Nat /\ v = [n \in 1 .. c |-> v[n]] /\ w = [n \in 1 .. c + 1 |-> w[n]] /\ \A n \in 1 .. c : w[n] = v[n]
  BY DEF GoesOn
<1>2. PICK x, S : x = w[c + 1] /\ S = {v[n] : n \in 1 .. c} \cup {x}  OBVIOUS
<1>3. v \in Seq(S) /\ x \in S /\ Len(v) = c  BY <1>1, <1>2
<1>4. PICK a : a = Append(v, x)  OBVIOUS
<1>5. a \in Seq(S) /\ Len(a) = c + 1 /\ a[c + 1] = x /\ \A n \in 1 .. c : a[n] = v[n]
  BY <1>3, <1>4, AppendProperties
<1>6. a = [n \in 1 .. c + 1 |-> a[n]]  BY <1>5
<1>7. \A n \in 1 .. c + 1 : w[n] = a[n]
  <2>1. SUFFICES ASSUME NEW n \in 1 .. c + 1 PROVE w[n] = a[n]  OBVIOUS
  <2>2. n \in 1 .. c \/ n = c + 1  BY <1>1
  <2>3. QED  BY <2>2, <1>1, <1>2, <1>5
<1>8. w = a  BY <1>1, <1>6, <1>7
<1>9. QED  BY <1>2, <1>4, <1>8

\* A number above all others comes last.
LEMMA UpwardsAppend ==
  ASSUME NEW K, K \subseteq Nat, IsFiniteSet(K), NEW i \in Nat, \A k \in K : k < i
  PROVE  Upwards(K \cup {i}) = Append(Upwards(K), i)
<1>1. PICK D : D = K \cup {i}  OBVIOUS
<1>2. i \notin K /\ D \subseteq Nat  BY <1>1
<1>3. PICK c \in Nat : c = Cardinality(K)  BY FS_CardinalityType
<1>4. IsFiniteSet(D) /\ Cardinality(D) = c + 1
  <2>1. IsFiniteSet(K \cup {i}) /\ Cardinality(K \cup {i}) = Cardinality(K) + 1  BY <1>2, FS_AddElement
  <2>2. QED  BY <1>1, <1>3, <2>1
<1>5. \A k \in K : UpTo(D, k) = UpTo(K, k)
  <2>1. ASSUME NEW k \in K, NEW j PROVE j \in UpTo(D, k) <=> j \in UpTo(K, k)
    <3>1. k \in Nat /\ k < i  OBVIOUS
    <3>2. QED  BY <1>1, <3>1 DEF UpTo
  <2>2. QED  BY <2>1
<1>6. UpTo(D, i) = D
  <2>1. \A j \in D : j \in Nat /\ j <= i  BY <1>1
  <2>2. QED  BY <2>1 DEF UpTo
<1>7. At(D, c + 1) = {i}
  <2>1. ASSUME NEW k \in K PROVE Cardinality(UpTo(D, k)) # c + 1
    <3>1. UpTo(K, k) \subseteq K  BY DEF UpTo
    <3>2. Cardinality(UpTo(K, k)) \in Nat /\ Cardinality(UpTo(K, k)) <= Cardinality(K)
      <4>1. IsFiniteSet(UpTo(K, k)) /\ Cardinality(UpTo(K, k)) <= Cardinality(K)  BY <3>1, FS_Subset
      <4>2. QED  BY <4>1, FS_CardinalityType
    <3>3. QED  BY <3>2, <1>3, <1>5
  <2>2. \A k : k \in At(D, c + 1) <=> k = i  BY <2>1, <1>1, <1>4, <1>6 DEF At
  <2>3. QED  BY <2>2
<1>8. ASSUME NEW n \in 1 .. c PROVE At(D, n) = At(K, n)
  <2>1. n # c + 1  OBVIOUS
  <2>2. \A k : k \in At(D, n) <=> k \in At(K, n)  BY <2>1, <1>1, <1>4, <1>5, <1>6 DEF At
  <2>3. QED  BY <2>2
<1>9. PICK u, v : u = Upwards(K) /\ v = Upwards(D)  OBVIOUS
<1>10. u = [n \in 1 .. c |-> Nth(K, n)] /\ v = [n \in 1 .. c + 1 |-> Nth(D, n)]
  BY <1>3, <1>4, <1>9 DEF Upwards
<1>11. \A n \in 1 .. c : Nth(D, n) = Nth(K, n)  BY <1>8, NthIs
<1>12. Nth(D, c + 1) = i  BY <1>7, NthIs
<1>13. /\ u = [n \in 1 .. c |-> u[n]] /\ v = [n \in 1 .. c + 1 |-> v[n]]
       /\ v[c + 1] = i /\ \A n \in 1 .. c : v[n] = u[n]
  BY <1>10, <1>11, <1>12
<1>14. GoesOn(u, v, c)  BY <1>13 DEF GoesOn
<1>15. v = Append(u, i)  BY <1>13, <1>14, AppendOf
<1>16. QED  BY <1>1, <1>9, <1>15

\* A set of natural numbers that is not empty has a least element.
LEMMA Least ==
  ASSUME NEW T, T \subseteq Nat, T # {}
  PROVE  \E x \in T : \A y \in T : x <= y
<1> DEFINE Below == {0 .. (x - 1) : x \in T}
<1>1. Below \subseteq FiniteSubsetsOf(Nat) /\ Below # {}
  <2>1. \A x \in Nat : IsFiniteSet(0 .. (x - 1)) /\ 0 .. (x - 1) \subseteq Nat
    BY FS_Interval
  <2>2. QED  BY <2>1 DEF FiniteSubsetsOf
<1>2. PICK b \in Below : \A c \in Below : <<c, b>> \notin StrictSubsetOrdering(Nat)
  <2> HIDE DEF Below
  <2>1. QED  BY <1>1, WFMin, FS_StrictSubsetOrderingWellFounded
<1>3. PICK x \in T : b = 0 .. (x - 1)
  BY <1>2
<1>4. \A y \in T : x <= y
  <2>1. SUFFICES ASSUME NEW y \in T, y < x PROVE FALSE  OBVIOUS
  <2>2. 0 .. (y - 1) \subseteq 0 .. (x - 1) /\ y \notin 0 .. (y - 1) /\ y \in 0 .. (x - 1)  BY <2>1
  <2>3. <<0 .. (y - 1), b>> \in StrictSubsetOrdering(Nat)  BY <2>2, <1>3, <2>1 DEF StrictSubsetOrdering
  <2>4. QED  BY <1>2, <2>3
<1>5. QED  BY <1>4

Awaiting(l, k, i) == \A j \in k .. i - 1 : Awaits(l[j])
RunAt(l, k, i) == k \in 1 .. i - 1 /\ Awaiting(l, k, i) /\ (k > 1 => ~Awaits(l[k - 1]))

\* A word is a value when an odd run of options that await one ends before it.
LEMMA IsValueIs ==
  ASSUME NEW l, NEW i
  PROVE  IsValue(l, i) <=> \E k \in 1 .. i - 1 : (i - k) % 2 = 1 /\ RunAt(l, k, i)
BY DEF IsValue, RunAt, Awaiting

\* Before a word that is awaited there is such a run.
LEMMA RunExists ==
  ASSUME NEW l, NEW i \in Nat, i > 1, Awaits(l[i - 1])
  PROVE  \E k \in 1 .. i - 1 : RunAt(l, k, i)
<1>1. PICK T : T = {k \in 1 .. i - 1 : Awaiting(l, k, i)}  OBVIOUS
<1>2. i - 1 \in T
  <2>1. i - 1 \in 1 .. i - 1 /\ \A j \in (i - 1) .. (i - 1) : j = i - 1  OBVIOUS
  <2>2. Awaiting(l, i - 1, i)  BY <2>1 DEF Awaiting
  <2>3. QED  BY <1>1, <2>1, <2>2
<1>3. PICK k \in T : \A x \in T : k <= x
  <2>1. T \subseteq Nat /\ T # {}  BY <1>1, <1>2
  <2>2. QED  BY <2>1, Least
<1>4. k \in 1 .. i - 1 /\ Awaiting(l, k, i)  BY <1>1
<1>5. ASSUME k > 1, Awaits(l[k - 1]) PROVE FALSE
  <2>1. k - 1 \in 1 .. i - 1 /\ k \in Nat  BY <1>4, <1>5
  <2>2. \A j \in (k - 1) .. (i - 1) : j = k - 1 \/ j \in k .. i - 1  BY <1>4
  <2>3. Awaiting(l, k - 1, i)  BY <1>4, <1>5, <2>2 DEF Awaiting
  <2>4. k - 1 \in T  BY <1>1, <2>1, <2>3
  <2>5. QED  BY <1>3, <2>1, <2>4
<1>6. QED  BY <1>4, <1>5 DEF RunAt

\* The options before i that await a word start at one place.
LEMMA RunUnique ==
  ASSUME NEW l, NEW i \in Nat, NEW k \in 1 .. i - 1, NEW x \in 1 .. i - 2, RunAt(l, k, i), RunAt(l, x, i - 1)
  PROVE  k = x
<1>1. CASE k < x
  <2>1. x - 1 \in k .. i - 1 /\ x > 1  BY <1>1
  <2>2. Awaits(l[x - 1])  BY <2>1 DEF RunAt, Awaiting
  <2>3. QED  BY <2>1, <2>2 DEF RunAt
<1>2. CASE x < k
  <2>1. k - 1 \in x .. (i - 1) - 1 /\ k > 1  BY <1>2
  <2>2. Awaits(l[k - 1])  BY <2>1 DEF RunAt, Awaiting
  <2>3. QED  BY <2>1, <2>2 DEF RunAt
<1>3. QED  BY <1>1, <1>2

\* A word is a value when the one before it awaits it and is not a value.
LEMMA ValueAfter ==
  ASSUME NEW l, NEW i \in Nat, i > 1
  PROVE  IsValue(l, i) <=> Awaits(l[i - 1]) /\ ~IsValue(l, i - 1)
<1>1. ASSUME IsValue(l, i) PROVE Awaits(l[i - 1]) /\ ~IsValue(l, i - 1)
  <2>1. PICK k \in 1 .. i - 1 : (i - k) % 2 = 1 /\ RunAt(l, k, i)  BY <1>1, IsValueIs
  <2>2. i - 1 \in k .. i - 1  OBVIOUS
  <2>3. Awaits(l[i - 1])  BY <2>1, <2>2 DEF RunAt, Awaiting
  <2>4. ASSUME IsValue(l, i - 1) PROVE FALSE
    <3>1. PICK x \in 1 .. (i - 1) - 1 : ((i - 1) - x) % 2 = 1 /\ RunAt(l, x, i - 1)  BY <2>4, IsValueIs
    <3>2. x \in 1 .. i - 2  BY <3>1
    <3>3. k = x  BY <2>1, <3>1, <3>2, RunUnique
    <3>4. PICK d \in Nat : d = i - k  OBVIOUS
    <3>5. d % 2 = 1 /\ (d - 1) % 2 = 1 /\ d >= 1  BY <2>1, <3>1, <3>3, <3>4
    <3>6. QED  BY <3>5
  <2>5. QED  BY <2>3, <2>4
<1>2. ASSUME Awaits(l[i - 1]), ~IsValue(l, i - 1) PROVE IsValue(l, i)
  <2>1. PICK k \in 1 .. i - 1 : RunAt(l, k, i)  BY <1>2, RunExists
  <2>2. SUFFICES ASSUME (i - k) % 2 # 1 PROVE FALSE  BY <2>1, IsValueIs
  <2>3. PICK d \in Nat : d = i - k /\ d >= 1  OBVIOUS
  <2>4. d % 2 # 1 /\ d # 1  BY <2>2, <2>3
  <2>5. (d - 1) % 2 = 1 /\ d >= 2  BY <2>3, <2>4
  <2>6. k \in 1 .. (i - 1) - 1 /\ ((i - 1) - k) % 2 = 1  BY <2>3, <2>5
  <2>7. RunAt(l, k, i - 1)
    <3>1. \A j \in k .. (i - 1) - 1 : j \in k .. i - 1  OBVIOUS
    <3>2. QED  BY <2>1, <2>6, <3>1 DEF RunAt, Awaiting
  <2>8. QED  BY <1>2, <2>6, <2>7, IsValueIs
<1>3. QED  BY <1>1, <1>2

\* After an option comes its value, and then the next option or operand.
LEMMA NextHead ==
  ASSUME NEW l, NEW n \in Nat, DOMAIN l = 1 .. n, NEW i \in Heads(l)
  PROVE  /\ ~Awaits(l[i]) /\ i + 1 \in DOMAIN l => i + 1 \in Heads(l)
         /\ Awaits(l[i]) => i + 1 \notin Heads(l)
         /\ Awaits(l[i]) /\ i + 2 \in DOMAIN l => i + 2 \in Heads(l)
<1>1. i \in Nat /\ i >= 1 /\ ~IsValue(l, i)  BY DEF Heads
<1>2. ASSUME i >= 1 PROVE IsValue(l, i + 1) <=> Awaits(l[i])
  <2>1. i + 1 \in Nat /\ i + 1 > 1 /\ (i + 1) - 1 = i  BY <1>1, <1>2
  <2>2. PICK k \in Nat : k = i + 1  BY <2>1
  <2>3. IsValue(l, k) <=> Awaits(l[k - 1]) /\ ~IsValue(l, k - 1)  BY <2>1, <2>2, ValueAfter
  <2>4. QED  BY <1>1, <2>1, <2>2, <2>3
<1>3. ASSUME i >= 1 PROVE IsValue(l, i + 2) <=> Awaits(l[i + 1]) /\ ~IsValue(l, i + 1)
  <2>1. i + 2 \in Nat /\ i + 2 > 1 /\ (i + 2) - 1 = i + 1  BY <1>1, <1>3
  <2>2. PICK k \in Nat : k = i + 2  BY <2>1
  <2>3. IsValue(l, k) <=> Awaits(l[k - 1]) /\ ~IsValue(l, k - 1)  BY <2>1, <2>2, ValueAfter
  <2>4. QED  BY <2>1, <2>2, <2>3
<1>4. QED  BY <1>1, <1>2, <1>3 DEF Heads

\* The members of K below n.
Before(K, n) == {i \in K : i < n}

\* Of no numbers there is no order.
LEMMA NoUpwards == Upwards({}) = <<>>
<1>1. Cardinality({}) = 0  BY FS_EmptySet
<1>2. 1 .. 0 = {}  OBVIOUS
<1>3. QED  BY <1>1, <1>2 DEF Upwards

\* The numbers of a finite set in order are a sequence as long as the set is large.
LEMMA UpwardsType ==
  ASSUME NEW K, K \subseteq Nat, IsFiniteSet(K)
  PROVE  /\ Cardinality(K) \in Nat /\ DOMAIN Upwards(K) = 1 .. Cardinality(K)
         /\ Len(Upwards(K)) = Cardinality(K) /\ \E S : Upwards(K) \in Seq(S)
<1>1. PICK c \in Nat : c = Cardinality(K)  BY FS_CardinalityType
<1>2. PICK u : u = Upwards(K)  OBVIOUS
<1>3. u = [n \in 1 .. c |-> Nth(K, n)]  BY <1>1, <1>2 DEF Upwards
<1>4. u \in Seq({Nth(K, n) : n \in 1 .. c})  BY <1>3
<1>5. DOMAIN u = 1 .. c /\ Len(u) = c  BY <1>3
<1>6. QED  BY <1>1, <1>2, <1>4, <1>5

\* No uses have no values.
LEMMA ValuesNone == ASSUME NEW l PROVE Values(l, {}) = <<>>
BY NoUpwards DEF Values

\* One use more, after the others, adds its value at the end.
LEMMA ValuesAppend ==
  ASSUME NEW l, NEW K, K \subseteq Nat, IsFiniteSet(K), NEW i \in Nat, \A k \in K : k < i
  PROVE  Values(l, K \cup {i}) = Append(Values(l, K), Value(l, i))
<1>1. PICK u, t : u = Upwards(K) /\ t = Append(u, i)  OBVIOUS
<1>2. Upwards(K \cup {i}) = t  BY <1>1, UpwardsAppend
<1>3. PICK c \in Nat : DOMAIN u = 1 .. c /\ Len(u) = c  BY <1>1, UpwardsType
<1>4. PICK S : u \in Seq(S)  BY <1>1, UpwardsType
<1>5. /\ DOMAIN t = 1 .. c + 1 /\ t[c + 1] = i /\ \A n \in 1 .. c : t[n] = u[n]
  <2>1. PICK R : R = S \cup {i}  OBVIOUS
  <2>2. u \in Seq(R) /\ i \in R  BY <1>4, <2>1
  <2>3. t \in Seq(R) /\ Len(t) = c + 1 /\ t[c + 1] = i /\ \A n \in 1 .. c : t[n] = u[n]
    BY <2>2, <1>1, <1>3, AppendProperties
  <2>4. QED  BY <2>3
<1>6. PICK v, w, x : v = Values(l, K) /\ w = Values(l, K \cup {i}) /\ x = Value(l, i)  OBVIOUS
<1>7. v = [n \in 1 .. c |-> Value(l, u[n])]  BY <1>1, <1>3, <1>6 DEF Values
<1>8. w = [n \in 1 .. c + 1 |-> Value(l, t[n])]  BY <1>2, <1>5, <1>6 DEF Values
<1>9. v = [n \in 1 .. c |-> v[n]] /\ w = [n \in 1 .. c + 1 |-> w[n]]  BY <1>7, <1>8
<1>10. \A n \in 1 .. c : w[n] = v[n]
  <2>1. SUFFICES ASSUME NEW n \in 1 .. c PROVE w[n] = v[n]  OBVIOUS
  <2>2. n \in 1 .. c + 1 /\ t[n] = u[n]  BY <1>3, <1>5
  <2>3. QED  BY <2>2, <1>7, <1>8
<1>11. w[c + 1] = x
  <2>1. c + 1 \in 1 .. c + 1  BY <1>3
  <2>2. QED  BY <2>1, <1>5, <1>6, <1>8
<1>12. GoesOn(v, w, c)  BY <1>9, <1>10 DEF GoesOn
<1>13. w = Append(v, x)  BY <1>11, <1>12, AppendOf
<1>14. QED  BY <1>6, <1>13

\* The value of the last use is the one that counts.
LEMMA LastAppend ==
  ASSUME NEW l, NEW K, K \subseteq Nat, NEW i \in Nat, \A k \in K : k < i
  PROVE  LastValue(l, K \cup {i}) = Value(l, i)
<1>1. PICK D : D = K \cup {i}  OBVIOUS
<1>2. \A k \in D : k \in Nat /\ (k = i <=> \A y \in D : k >= y)
  <2>1. SUFFICES ASSUME NEW k \in D PROVE k \in Nat /\ (k = i <=> \A y \in D : k >= y)  OBVIOUS
  <2>2. CASE k = i  BY <2>2, <1>1
  <2>3. CASE k \in K
    <3>1. k \in Nat /\ k < i /\ i \in D  BY <2>3, <1>1
    <3>2. ~(k >= i) /\ k # i  BY <3>1
    <3>3. QED  BY <3>1, <3>2
  <2>4. QED  BY <2>2, <2>3, <1>1
<1>3. Max(D) = i  BY <1>1, <1>2 DEF Max
<1>4. D # {}  BY <1>1
<1>5. QED  BY <1>1, <1>3, <1>4 DEF LastValue

\* What the words before n make of the options.
ReadTo(l, n) ==
  [out     |-> LastValue(l, Before(Uses(l, {"-o"}), n)),
   inputs  |-> Values(l, Before(Named(l, {""}), n)),
   include |-> Values(l, Before(Uses(l, {"-I"}), n)),
   system  |-> Values(l, Before(Uses(l, {"-isystem"}), n)),
   dirs    |-> Values(l, Before(Uses(l, {"-L"}), n)),
   libs    |-> Values(l, Before(Named(l, {"-l"}), n)),
   sysroot |-> LastValue(l, Before(Uses(l, {"--sysroot", "--sysroot="}), n)),
   map     |-> LastValue(l, Before(Uses(l, {"--map="}), n)),
   imports |-> Values(l, Before(Named(l, {"--import-module", "--import-module="}), n)),
   flags   |-> {o \in Options : \E i \in Before(Heads(l), n) : l[i].opt = o}]

\* The word at i is read at i, and the next at x.
ReadAt(l, i, x) == (\E n \in Nat : DOMAIN l = 1 .. n) /\ i \in Heads(l) /\ x = i + Stride(l[i])

\* Of the words at K, one more lies before x when it is the word read.
LEMMA BeforeNext ==
  ASSUME NEW l, NEW i, NEW x, ReadAt(l, i, x), NEW K, K \subseteq Heads(l)
  PROVE  /\ Before(K, x) = IF i \in K THEN Before(K, i) \cup {i} ELSE Before(K, i)
         /\ Before(K, i) \subseteq Nat /\ IsFiniteSet(Before(K, i)) /\ \A k \in Before(K, i) : k < i
<1> PICK n \in Nat : DOMAIN l = 1 .. n  BY DEF ReadAt
<1>0. i \in Heads(l) /\ x = i + Stride(l[i])  BY DEF ReadAt
<1>1. i \in Nat /\ Heads(l) \subseteq 1 .. n  BY <1>0 DEF Heads
<1>2. Awaits(l[i]) => i + 1 \notin K  BY <1>0, NextHead
<1>3. ASSUME NEW k \in K PROVE k < x <=> k < i \/ k = i
  <2>1. k \in Nat  BY <1>1
  <2>2. CASE Awaits(l[i])
    <3>1. x = i + 2 /\ k # i + 1  BY <1>0, <1>2, <2>2 DEF Stride
    <3>2. QED  BY <1>1, <2>1, <3>1
  <2>3. CASE ~Awaits(l[i])
    <3>1. x = i + 1  BY <1>0, <2>3 DEF Stride
    <3>2. QED  BY <1>1, <2>1, <3>1
  <2>4. QED  BY <2>2, <2>3
<1>4. Before(K, x) = IF i \in K THEN Before(K, i) \cup {i} ELSE Before(K, i)
  <2>1. \A k : k \in Before(K, x) <=> k \in Before(K, i) \/ (k = i /\ i \in K)  BY <1>3 DEF Before
  <2>2. CASE i \in K  BY <2>1, <2>2
  <2>3. CASE i \notin K  BY <2>1, <2>3
  <2>4. QED  BY <2>2, <2>3
<1>5. IsFiniteSet(Before(K, i))
  <2>1. Before(K, i) \subseteq 1 .. n  BY <1>1 DEF Before
  <2>2. IsFiniteSet(1 .. n)  BY FS_Interval
  <2>3. QED  BY <2>1, <2>2, FS_Subset
<1>6. Before(K, i) \subseteq Nat /\ \A k \in Before(K, i) : k < i
  <2>1. K \subseteq Nat  BY <1>1
  <2>2. QED  BY <2>1 DEF Before
<1>7. QED  BY <1>4, <1>5, <1>6

\* What is gathered from the words at K, one word later.
LEMMA FieldNext ==
  ASSUME NEW l, NEW i, NEW x, ReadAt(l, i, x), NEW K, K \subseteq Heads(l)
  PROVE  /\ Values(l, Before(K, x)) = IF i \in K THEN Append(Values(l, Before(K, i)), Value(l, i))
                                                 ELSE Values(l, Before(K, i))
         /\ LastValue(l, Before(K, x)) = IF i \in K THEN Value(l, i) ELSE LastValue(l, Before(K, i))
<1>1. PICK B : B = Before(K, i)  OBVIOUS
<1>2. /\ Before(K, x) = IF i \in K THEN B \cup {i} ELSE B
      /\ B \subseteq Nat /\ IsFiniteSet(B) /\ \A k \in B : k < i
  <2>1. /\ Before(K, x) = IF i \in K THEN Before(K, i) \cup {i} ELSE Before(K, i)
        /\ Before(K, i) \subseteq Nat /\ IsFiniteSet(Before(K, i)) /\ \A k \in Before(K, i) : k < i
    BY BeforeNext
  <2>2. QED  BY <1>1, <2>1
<1>3. i \in Nat  BY DEF ReadAt, Heads
<1>4. CASE i \in K
  <2>1. Before(K, x) = B \cup {i}  BY <1>2, <1>4
  <2>2. Values(l, B \cup {i}) = Append(Values(l, B), Value(l, i))  BY <1>2, <1>3, ValuesAppend
  <2>3. LastValue(l, B \cup {i}) = Value(l, i)  BY <1>2, <1>3, LastAppend
  <2>4. QED  BY <1>1, <1>4, <2>1, <2>2, <2>3
<1>5. CASE i \notin K  BY <1>1, <1>2, <1>5
<1>6. QED  BY <1>4, <1>5

\* What one word w, given the text v, adds to what the words before it said.
Heard(r, w, v) ==
  [out     |-> IF w.opt = "-o" THEN v ELSE r.out,
   inputs  |-> IF w.opt = "" /\ v # Empty THEN Append(r.inputs, v) ELSE r.inputs,
   include |-> IF w.opt = "-I" THEN Append(r.include, v) ELSE r.include,
   system  |-> IF w.opt = "-isystem" THEN Append(r.system, v) ELSE r.system,
   dirs    |-> IF w.opt = "-L" THEN Append(r.dirs, v) ELSE r.dirs,
   libs    |-> IF w.opt = "-l" /\ v # Empty THEN Append(r.libs, v) ELSE r.libs,
   sysroot |-> IF w.opt \in {"--sysroot", "--sysroot="} THEN v ELSE r.sysroot,
   map     |-> IF w.opt = "--map=" THEN v ELSE r.map,
   imports |-> IF w.opt \in {"--import-module", "--import-module="} /\ v # Empty THEN Append(r.imports, v)
               ELSE r.imports,
   flags   |-> IF w.opt \in Options THEN r.flags \cup {w.opt} ELSE r.flags]

\* What the words before x make of the options is what those before i make of them, and the word at i.
LEMMA ReadNext ==
  ASSUME NEW l, NEW i, NEW x, ReadAt(l, i, x), Awaits(l[i]) => i < Len(l)
  PROVE  ReadTo(l, x) = Heard(ReadTo(l, i), l[i], Value(l, i))
<1>1. i \in Heads(l)  BY DEF ReadAt
<1>2. ASSUME NEW opts
      PROVE  /\ Uses(l, opts) \subseteq Heads(l) /\ (i \in Uses(l, opts) <=> l[i].opt \in opts)
             /\ Named(l, opts) \subseteq Heads(l)
             /\ (i \in Named(l, opts) <=> l[i].opt \in opts /\ Value(l, i) # Empty)
  BY <1>1 DEF Uses, Named
<1>3. ASSUME NEW opts
      PROVE  LastValue(l, Before(Uses(l, opts), x)) =
               IF l[i].opt \in opts THEN Value(l, i) ELSE LastValue(l, Before(Uses(l, opts), i))
  BY <1>2, FieldNext
<1>4. ASSUME NEW opts
      PROVE  Values(l, Before(Uses(l, opts), x)) =
               IF l[i].opt \in opts THEN Append(Values(l, Before(Uses(l, opts), i)), Value(l, i))
               ELSE Values(l, Before(Uses(l, opts), i))
  BY <1>2, FieldNext
<1>5. ASSUME NEW opts
      PROVE  Values(l, Before(Named(l, opts), x)) =
               IF l[i].opt \in opts /\ Value(l, i) # Empty
               THEN Append(Values(l, Before(Named(l, opts), i)), Value(l, i))
               ELSE Values(l, Before(Named(l, opts), i))
  BY <1>2, FieldNext
<1>6. PICK r, t, w, v : r = ReadTo(l, i) /\ t = ReadTo(l, x) /\ w = l[i] /\ v = Value(l, i)  OBVIOUS
<1>7. /\ t.out = IF w.opt \in {"-o"} THEN v ELSE r.out
      /\ t.sysroot = IF w.opt \in {"--sysroot", "--sysroot="} THEN v ELSE r.sysroot
      /\ t.map = IF w.opt \in {"--map="} THEN v ELSE r.map
  BY <1>3, <1>6 DEF ReadTo
<1>8. /\ t.include = IF w.opt \in {"-I"} THEN Append(r.include, v) ELSE r.include
      /\ t.system = IF w.opt \in {"-isystem"} THEN Append(r.system, v) ELSE r.system
      /\ t.dirs = IF w.opt \in {"-L"} THEN Append(r.dirs, v) ELSE r.dirs
  BY <1>4, <1>6 DEF ReadTo
<1>9. /\ t.inputs = IF w.opt \in {""} /\ v # Empty THEN Append(r.inputs, v) ELSE r.inputs
      /\ t.libs = IF w.opt \in {"-l"} /\ v # Empty THEN Append(r.libs, v) ELSE r.libs
      /\ t.imports = IF w.opt \in {"--import-module", "--import-module="} /\ v # Empty
                     THEN Append(r.imports, v) ELSE r.imports
  BY <1>5, <1>6 DEF ReadTo
<1>10. t.flags = IF w.opt \in Options THEN r.flags \cup {w.opt} ELSE r.flags
  <2>1. Before(Heads(l), x) = Before(Heads(l), i) \cup {i}  BY <1>1, BeforeNext
  <2>2. /\ t.flags = {o \in Options : \E j \in Before(Heads(l), x) : l[j].opt = o}
        /\ r.flags = {o \in Options : \E j \in Before(Heads(l), i) : l[j].opt = o}
    BY <1>6 DEF ReadTo
  <2>3. \A o : o \in t.flags <=> o \in r.flags \/ (o \in Options /\ o = w.opt)  BY <1>6, <2>1, <2>2
  <2>4. CASE w.opt \in Options  BY <2>3, <2>4
  <2>5. CASE w.opt \notin Options
    <3>1. \A o : o \in t.flags <=> o \in r.flags  BY <2>3, <2>5
    <3>2. t.flags = r.flags  BY <2>2, <3>1
    <3>3. QED  BY <2>5, <3>2
  <2>6. QED  BY <2>4, <2>5
<1>11. t = [out |-> t.out, inputs |-> t.inputs, include |-> t.include, system |-> t.system, dirs |-> t.dirs,
            libs |-> t.libs, sysroot |-> t.sysroot, map |-> t.map, imports |-> t.imports, flags |-> t.flags]
  BY <1>6 DEF ReadTo
<1>12. t = Heard(r, w, v)  BY <1>7, <1>8, <1>9, <1>10, <1>11 DEF Heard
<1>13. QED  BY <1>6, <1>12

\* What the command line holds, taken apart in fields.
Record(r) ==
  r = [out |-> r.out, inputs |-> r.inputs, include |-> r.include, system |-> r.system, dirs |-> r.dirs,
       libs |-> r.libs, sysroot |-> r.sysroot, map |-> r.map, imports |-> r.imports, flags |-> r.flags]

\* What the text attached to a word tells of the word.
LEMMA WordClasses ==
  ASSUME NEW w \in Words
  PROVE  /\ w.opt = "" => Text(w) = w
         /\ w.opt \in WithValue /\ ~Awaits(w) => w.opt \in WithText /\ Attached(w)
         /\ Attached(w) => Text(w) # Empty
         /\ ~Attached(w) => Text(w) = Empty
         /\ w.opt \notin WithValue => ~Awaits(w)
<1>1. w \in [opt : STRING, base : STRING, ext : STRING]  BY DEF Words
<1>2. Attached(w) => w.opt \in {""} \union WithText \union DOMAIN Equated  BY DEF Words
<1>3. w.opt = "" => Text(w) = w
  <2>1. PICK a, b, c : w = [opt |-> a, base |-> b, ext |-> c]  BY <1>1
  <2>2. PICK t : t = [w EXCEPT !.opt = ""]  OBVIOUS
  <2>3. DOMAIN w = {"opt", "base", "ext"} /\ w.base = b /\ w.ext = c  BY <2>1
  <2>4. t = [f \in {"opt", "base", "ext"} |-> IF f = "opt" THEN "" ELSE w[f]]  BY <2>2, <2>3
  <2>5. t = [opt |-> "", base |-> b, ext |-> c]  BY <2>3, <2>4
  <2>6. Text(w) = t  BY <2>2 DEF Text
  <2>7. QED  BY <2>1, <2>5, <2>6
<1>4. DOMAIN Equated = {"--map=", "--import-module=", "--sysroot="}  BY DEF Equated
<1>5. w.opt \in WithValue /\ ~Awaits(w) => w.opt \in WithText /\ Attached(w)
  BY <1>2, <1>4 DEF Awaits, WithValue, WithText
<1>6. QED  BY <1>3, <1>5 DEF Attached, Awaits

\* ReadArgument adds to the arguments what the word says, and nothing else.
LEMMA TakeIs ==
  ASSUME Record(args), NEW w \in Words, NEW next, NEW v, v = IF Awaits(w) THEN next ELSE Text(w)
  PROVE  Heard(args, w, v) =
           CASE w.opt \in Options -> [args EXCEPT !.flags = @ \union {w.opt}]
             [] Awaits(w) -> Take(w.opt, next)
             [] w.opt \in WithText /\ Attached(w) -> Take(w.opt, Text(w))
             [] w.opt \in DOMAIN Equated -> Take(Equated[w.opt], Text(w))
             [] w.opt = "" /\ w # Empty -> [args EXCEPT !.inputs = Append(@, w)]
             [] OTHER -> args
<1>1. /\ w.opt = "" => Text(w) = w
      /\ w.opt \in WithValue /\ ~Awaits(w) => w.opt \in WithText /\ Attached(w)
      /\ Attached(w) => Text(w) # Empty
      /\ ~Attached(w) => Text(w) = Empty
      /\ w.opt \notin WithValue => ~Awaits(w)
  BY WordClasses
<1>2. DOMAIN Equated = {"--map=", "--import-module=", "--sysroot="}  BY DEF Equated
<1>3. /\ Equated["--map="] = "--map" /\ Equated["--sysroot="] = "--sysroot"
      /\ Equated["--import-module="] = "--import-module"
  BY DEF Equated
<1>4. PICK e : e = CASE w.opt \in Options -> [args EXCEPT !.flags = @ \union {w.opt}]
                     [] Awaits(w) -> Take(w.opt, next)
                     [] w.opt \in WithText /\ Attached(w) -> Take(w.opt, Text(w))
                     [] w.opt \in DOMAIN Equated -> Take(Equated[w.opt], Text(w))
                     [] w.opt = "" /\ w # Empty -> [args EXCEPT !.inputs = Append(@, w)]
                     [] OTHER -> args
  OBVIOUS
<1>8. /\ w.opt \in Options => w.opt \notin WithValue \cup WithText \cup DOMAIN Equated \cup {""}
      /\ Awaits(w) => w.opt \in WithValue /\ ~Attached(w)
      /\ w.opt \in WithValue => w.opt \notin DOMAIN Equated \cup {""}
      /\ w.opt \in WithText => w.opt \notin DOMAIN Equated \cup {""}
      /\ w.opt \in DOMAIN Equated => w.opt # ""
  BY <1>1, <1>2 DEF Options, WithValue, WithText, Awaits
<1>5. CASE w.opt \in Options
  <2>1. e = [args EXCEPT !.flags = @ \union {w.opt}]  BY <1>8, <1>4, <1>5
  <2>2. w.opt \notin WithValue \cup WithText \cup DOMAIN Equated \cup {""}  BY <1>5, <1>8
  <2>3. Heard(args, w, v) = e  BY <1>2, <1>5, <2>1, <2>2 DEF Heard, Record, WithValue, WithText
  <2>4. QED  BY <1>4, <2>3
<1>6. ASSUME w.opt \notin Options PROVE Heard(args, w, v) = e
  <2>1. CASE Awaits(w)
    <3>1. e = Take(w.opt, v) /\ w.opt \in WithValue  BY <1>8, <1>1, <1>4, <1>6, <2>1
    <3>2. CASE w.opt = "-o"  BY <3>1, <3>2, <1>6 DEF Take, Heard, Record
    <3>3. CASE w.opt = "-I"  BY <3>1, <3>3, <1>6 DEF Take, Heard, Record
    <3>4. CASE w.opt = "-isystem"  BY <3>1, <3>4, <1>6 DEF Take, Heard, Record
    <3>5. CASE w.opt = "-L"  BY <3>1, <3>5, <1>6 DEF Take, Heard, Record
    <3>6. CASE w.opt = "--import-module"  BY <3>1, <3>6, <1>6 DEF Take, Heard, Record
    <3>7. CASE w.opt = "--sysroot"  BY <3>1, <3>7, <1>6 DEF Take, Heard, Record
    <3>8. QED  BY <3>1, <3>2, <3>3, <3>4, <3>5, <3>6, <3>7 DEF WithValue
  <2>2. CASE ~Awaits(w) /\ w.opt \in WithText /\ Attached(w)
    <3>1. e = Take(w.opt, v) /\ v # Empty  BY <1>8, <1>1, <1>4, <1>6, <2>2
    <3>2. CASE w.opt = "-I"  BY <3>1, <3>2, <1>6 DEF Take, Heard, Record
    <3>3. CASE w.opt = "-L"  BY <3>1, <3>3, <1>6 DEF Take, Heard, Record
    <3>4. CASE w.opt = "-l"  BY <3>1, <3>4, <1>6 DEF Take, Heard, Record
    <3>5. QED  BY <2>2, <3>2, <3>3, <3>4 DEF WithText
  <2>3. CASE ~Awaits(w) /\ w.opt \in DOMAIN Equated
    <3>1. w.opt \notin WithText  BY <1>2, <2>3 DEF WithText
    <3>2. e = Take(Equated[w.opt], v)  BY <1>8, <1>4, <1>6, <2>3, <3>1
    <3>3. CASE w.opt = "--map="  BY <3>2, <3>3, <1>3, <1>6 DEF Take, Heard, Record
    <3>4. CASE w.opt = "--sysroot="  BY <3>2, <3>4, <1>3, <1>6 DEF Take, Heard, Record
    <3>5. CASE w.opt = "--import-module="  BY <3>2, <3>5, <1>3, <1>6 DEF Take, Heard, Record
    <3>6. QED  BY <1>2, <2>3, <3>3, <3>4, <3>5
  <2>4. CASE w.opt = "" /\ w # Empty
    <3>1. ~Awaits(w) /\ w.opt \notin WithText /\ w.opt \notin DOMAIN Equated
      BY <1>2, <2>4 DEF WithText, WithValue, Awaits
    <3>2. e = [args EXCEPT !.inputs = Append(@, w)]  BY <1>8, <1>4, <1>6, <2>4, <3>1
    <3>3. v = w  BY <1>1, <2>4, <3>1
    <3>4. QED  BY <1>6, <2>4, <3>2, <3>3 DEF Heard, Record
  <2>5. CASE ~Awaits(w) /\ ~(w.opt \in WithText /\ Attached(w)) /\ w.opt \notin DOMAIN Equated
             /\ ~(w.opt = "" /\ w # Empty)
    <3>1. e = args  BY <1>8, <1>4, <1>6, <2>5
    <3>2. w.opt \notin WithValue  BY <1>1, <2>5
    <3>3. w.opt \in {"", "-l"} => v = Empty  BY <1>1, <2>5 DEF WithText
    <3>4. QED  BY <1>2, <1>6, <2>5, <3>1, <3>2, <3>3 DEF Heard, Record, WithValue
  <2>6. QED  BY <2>1, <2>2, <2>3, <2>4, <2>5
<1>7. QED  BY <1>4, <1>5, <1>6

\* A set of numbers up to m that is not empty has a greatest element.
LEMMA Greatest ==
  ASSUME NEW m \in Nat, NEW K, K \subseteq 1 .. m, K # {}
  PROVE  \E x \in K : \A y \in K : y <= x
<1>1. PICK U : U = {u \in 0 .. m : \A y \in K : y <= u}  OBVIOUS
<1>2. m \in U  BY <1>1
<1>3. PICK x \in U : \A u \in U : x <= u
  <2>1. U \subseteq Nat /\ U # {}  BY <1>1, <1>2
  <2>2. QED  BY <2>1, Least
<1>4. ASSUME x \notin K PROVE FALSE
  <2>1. x \in 0 .. m /\ \A y \in K : y \in Nat /\ y >= 1 /\ y <= x /\ y # x  BY <1>1, <1>4
  <2>2. x >= 1
    <3>1. PICK y \in K : TRUE  OBVIOUS
    <3>2. y \in Nat /\ y >= 1 /\ y <= x  BY <2>1
    <3>3. QED  BY <2>1, <3>2
  <2>3. x - 1 \in U  BY <1>1, <2>1, <2>2
  <2>4. QED  BY <1>3, <2>1, <2>3
<1>5. QED  BY <1>1, <1>4

\* The nth number of a set of numbers up to m is a member of it.
LEMMA NthIn ==
  ASSUME NEW m \in Nat, NEW K, K \subseteq 1 .. m, NEW n, n \in 1 .. Cardinality(K)
  PROVE  Nth(K, n) \in K
<1>1. IsFiniteSet(K) /\ Cardinality(K) \in Nat
  <2>1. IsFiniteSet(1 .. m)  BY FS_Interval
  <2>2. QED  BY <2>1, FS_Subset, FS_CardinalityType
<1>2. ASSUME NEW S, S \subseteq K PROVE S \subseteq 1 .. m /\ IsFiniteSet(S) /\ Cardinality(S) \in Nat
  <2>1. IsFiniteSet(S)  BY <1>1, <1>2, FS_Subset
  <2>2. QED  BY <1>2, <2>1, FS_CardinalityType
<1>3. PICK T : T = {x \in K : Cardinality(UpTo(K, x)) >= n}  OBVIOUS
<1>4. T # {}
  <2>1. K # {}  BY <1>1, FS_EmptySet
  <2>2. PICK x \in K : \A y \in K : y <= x  BY <2>1, Greatest
  <2>3. UpTo(K, x) = K  BY <2>2 DEF UpTo
  <2>4. QED  BY <1>1, <1>3, <2>3
<1>5. PICK x \in T : \A y \in T : x <= y
  <2>1. \A k \in K : k \in Nat  OBVIOUS
  <2>2. T \subseteq Nat  BY <1>3, <2>1
  <2>3. QED  BY <2>2, <1>4, Least
<1>6. PICK A : A = UpTo(K, x)  OBVIOUS
<1>7. x \in K /\ x \in A /\ A \subseteq K /\ \A y \in A : y <= x
  BY <1>3, <1>6 DEF UpTo
<1>8. Cardinality(A) \in Nat /\ Cardinality(A) >= n  BY <1>2, <1>3, <1>6, <1>7
<1>9. ASSUME Cardinality(A) # n PROVE FALSE
  <2>1. PICK R : R = A \ {x}  OBVIOUS
  <2>2. IsFiniteSet(A) /\ x \in A  BY <1>2, <1>7
  <2>3. Cardinality(R) = Cardinality(A) - 1  BY <2>1, <2>2, FS_RemoveElement
  <2>4. Cardinality(R) >= n /\ n >= 1  BY <1>1, <1>8, <1>9, <2>3
  <2>5. R \subseteq 1 .. m  BY <1>2, <1>7, <2>1
  <2>6. R # {}  BY <1>1, <2>4, FS_EmptySet
  <2>7. PICK y \in R : \A z \in R : z <= y  BY <2>5, <2>6, Greatest
  <2>8. y \in K /\ y < x
    <3>1. y \in A /\ y # x /\ y \in Nat /\ x \in Nat  BY <1>7, <2>1, <2>5, <1>2
    <3>2. QED  BY <3>1, <1>7
  <2>9. UpTo(K, y) = R
    <3>1. ASSUME NEW z PROVE z \in UpTo(K, y) <=> z \in R
      <4>1. CASE z \in K
        <5>1. z \in Nat /\ y \in Nat /\ x \in Nat  BY <4>1, <2>8, <1>7
        <5>2. z \in UpTo(K, y) <=> z <= y  BY <4>1 DEF UpTo
        <5>3. z \in R <=> z <= x /\ z # x  BY <4>1, <2>1, <1>6 DEF UpTo
        <5>4. z \in R => z <= y  BY <2>7
        <5>5. QED  BY <5>1, <5>2, <5>3, <5>4, <2>8
      <4>2. CASE z \notin K  BY <4>2, <2>1, <1>7 DEF UpTo
      <4>3. QED  BY <4>1, <4>2
    <3>2. QED  BY <3>1
  <2>10. y \in T  BY <1>3, <2>4, <2>8, <2>9
  <2>11. x \in Nat /\ y \in Nat  BY <1>7, <2>8
  <2>12. QED  BY <1>5, <2>8, <2>10, <2>11
<1>10. x \in At(K, n)  BY <1>6, <1>7, <1>9 DEF At
<1>11. QED  BY <1>10, NthIs DEF At

\* The numbers of a set in order are members of the set.
LEMMA UpwardsIn ==
  ASSUME NEW m \in Nat, NEW K, K \subseteq 1 .. m
  PROVE  /\ Cardinality(K) \in Nat /\ DOMAIN Upwards(K) = 1 .. Cardinality(K)
         /\ \A n \in 1 .. Cardinality(K) : Upwards(K)[n] \in K
<1>1. IsFiniteSet(K) /\ K \subseteq Nat
  <2>1. IsFiniteSet(1 .. m)  BY FS_Interval
  <2>2. IsFiniteSet(K)  BY <2>1, FS_Subset
  <2>3. \A k \in K : k \in Nat  OBVIOUS
  <2>4. QED  BY <2>2, <2>3
<1>2. Cardinality(K) \in Nat  BY <1>1, FS_CardinalityType
<1>3. \A n \in 1 .. Cardinality(K) : Nth(K, n) \in K  BY NthIn
<1>4. QED  BY <1>2, <1>3 DEF Upwards

\* The words that name an input.
Sources(l) == {f \in Words : f.opt = "" /\ f # Empty /\ f \in {l[j] : j \in {k \in DOMAIN l : l[k].opt = ""}}}

\* The operands of a command line are words of it that name an input.
LEMMA OperandsType ==
  ASSUME NEW l \in Seq(Words)
  PROVE  Operands(l) \in Seq(Sources(l))
<1>1. PICK m, K : m = Len(l) /\ K = Named(l, {""})  OBVIOUS
<1>2. m \in Nat /\ DOMAIN l = 1 .. m /\ K \subseteq 1 .. m
  <2>1. m \in Nat /\ DOMAIN l = 1 .. m  BY <1>1, LenProperties
  <2>2. K \subseteq DOMAIN l  BY <1>1 DEF Named, Uses, Heads
  <2>3. QED  BY <2>1, <2>2
<1>3. ASSUME NEW k \in K PROVE Value(l, k) \in Sources(l)
  <2>1. k \in DOMAIN l /\ l[k].opt = "" /\ Value(l, k) # Empty
    <3>1. k \in Named(l, {""})  BY <1>1
    <3>2. QED  BY <3>1, <1>2 DEF Named, Uses
  <2>5. l[k] \in Words
    <3>1. k \in 1 .. Len(l)  BY <2>1, <1>1, <1>2
    <3>2. QED  BY <3>1, ElementOfSeq
  <2>2. ~Awaits(l[k])  BY <2>1 DEF Awaits, WithValue
  <2>3. Value(l, k) = l[k]
    <3>1. Text(l[k]) = l[k]  BY <2>1, <2>5, WordClasses
    <3>2. QED  BY <3>1, <2>2 DEF Value
  <2>4. QED  BY <2>1, <2>3, <2>5 DEF Sources
<1>4. PICK c, u : c = Cardinality(K) /\ u = Upwards(K)  OBVIOUS
<1>5. c \in Nat /\ DOMAIN u = 1 .. c /\ \A n \in 1 .. c : u[n] \in K  BY <1>2, <1>4, UpwardsIn
<1>6. PICK v : v = Operands(l)  OBVIOUS
<1>7. v = [n \in 1 .. c |-> Value(l, u[n])]  BY <1>1, <1>4, <1>5, <1>6 DEF Operands, Values
<1>8. \A n \in 1 .. c : Value(l, u[n]) \in Sources(l)  BY <1>3, <1>5
<1>9. v \in Seq(Sources(l))  BY <1>5, <1>7, <1>8
<1>10. QED  BY <1>6, <1>9

-----------------------------------------------------------------------------
(* The reading of the command line. *)

\* What has been read of the command line, and where the reading stands.
ReadInv ==
  /\ argv \in Seq(Words) /\ arg \in Nat /\ arg >= 1 /\ arg <= Len(argv) + 1
  /\ arg <= Len(argv) => arg \in Heads(argv)
  /\ args = ReadTo(argv, arg)
  /\ pc \notin {"arguments", "done"} => arg > Len(argv)
  /\ pc = "done" /\ status = 0 => arg > Len(argv) \/ Informs(argv)

\* A command line is a sequence of words.
LEMMA LineType ==
  ASSUME NEW l \in Seq(Words)
  PROVE  Len(l) \in Nat /\ DOMAIN l = 1 .. Len(l) /\ \A i \in 1 .. Len(l) : l[i] \in Words
BY LenProperties, ElementOfSeq

\* Before the first word nothing is read, and the first word is no value.
LEMMA NothingRead ==
  ASSUME NEW l \in Seq(Words)
  PROVE  ReadTo(l, 1) = NoArgs /\ (1 <= Len(l) => 1 \in Heads(l))
<1>1. \A i \in DOMAIN l : i \in Nat /\ ~(i < 1)  BY LineType
<1>2. ASSUME NEW K, K \subseteq DOMAIN l PROVE Before(K, 1) = {}  BY <1>1, <1>2 DEF Before
<1>3. Heads(l) \subseteq DOMAIN l  BY DEF Heads
<1>4. ASSUME NEW opts PROVE Before(Uses(l, opts), 1) = {} /\ Before(Named(l, opts), 1) = {}
  <2>1. Uses(l, opts) \subseteq DOMAIN l /\ Named(l, opts) \subseteq DOMAIN l  BY <1>3 DEF Uses, Named
  <2>2. QED  BY <2>1, <1>2
<1>5. Before(Heads(l), 1) = {}  BY <1>2, <1>3
<1>6. \A o : ~\E i \in Before(Heads(l), 1) : l[i].opt = o  BY <1>5
<1>7. ASSUME NEW opts
      PROVE  /\ Values(l, Before(Uses(l, opts), 1)) = <<>> /\ Values(l, Before(Named(l, opts), 1)) = <<>>
             /\ LastValue(l, Before(Uses(l, opts), 1)) = Empty
  BY <1>4, ValuesNone DEF LastValue
<1>8. {o \in Options : \E i \in Before(Heads(l), 1) : l[i].opt = o} = {}  BY <1>6
<1>9. ReadTo(l, 1) = NoArgs  BY <1>7, <1>8 DEF ReadTo, NoArgs
<1>10. ASSUME 1 <= Len(l) PROVE 1 \in Heads(l)
  <2>1. ~IsValue(l, 1)  BY DEF IsValue
  <2>2. 1 \in DOMAIN l  BY <1>10, LineType
  <2>3. QED  BY <2>1, <2>2 DEF Heads
<1>11. QED  BY <1>9, <1>10

\* The reading starts at the first word.
LEMMA StartRead == Init => ReadInv
<1> SUFFICES ASSUME Init PROVE ReadInv  OBVIOUS
<1>1. argv \in Seq(Words) /\ arg = 1 /\ args = NoArgs /\ pc = "arguments"
  BY LinesAssumption DEF Init
<1>2. Len(argv) \in Nat  BY <1>1, LineType
<1>3. args = ReadTo(argv, arg) /\ (arg <= Len(argv) => arg \in Heads(argv))  BY <1>1, NothingRead
<1>4. QED  BY <1>1, <1>2, <1>3 DEF ReadInv

\* What is read has the fields of CommandLineArgs.
LEMMA ReadToRecord == ASSUME NEW l, NEW n PROVE Record(ReadTo(l, n))
BY DEF ReadTo, Record

\* Where the reading goes from a word that has its value, and what it has read then.
LEMMA ReadWord ==
  ASSUME ReadInv, arg <= Len(argv), ~(Awaits(Argument) /\ arg = Len(argv)), NEW x, x = arg + Stride(Argument)
  PROVE  /\ x \in Nat /\ x >= 1 /\ x <= Len(argv) + 1 /\ (x <= Len(argv) => x \in Heads(argv))
         /\ ReadTo(argv, x) = Heard(args, Argument, Value(argv, arg))
<1>1. PICK l, i, n : l = argv /\ i = arg /\ n = Len(argv)  OBVIOUS
<1>2. l \in Seq(Words) /\ i \in Heads(l) /\ args = ReadTo(l, i)  BY <1>1 DEF ReadInv
<1>3. n \in Nat /\ DOMAIN l = 1 .. n /\ i \in 1 .. n
  <2>1. n \in Nat /\ DOMAIN l = 1 .. n  BY <1>1, <1>2, LineType
  <2>2. QED  BY <2>1, <1>2 DEF Heads
<1>4. x = i + Stride(l[i]) /\ ~(Awaits(l[i]) /\ i = n)  BY <1>1 DEF Argument
<1>5. x = i + 1 \/ (x = i + 2 /\ i < n)  BY <1>3, <1>4 DEF Stride
<1>6. ReadAt(l, i, x)  BY <1>2, <1>3, <1>4 DEF ReadAt
<1>7. x <= n => x \in Heads(l)
  <2>1. CASE Awaits(l[i])
    <3>1. x = i + 2  BY <2>1, <1>4 DEF Stride
    <3>2. x <= n => i + 2 \in DOMAIN l  BY <3>1, <1>3
    <3>3. QED  BY <2>1, <3>1, <3>2, <1>2, <1>3, NextHead
  <2>2. CASE ~Awaits(l[i])
    <3>1. x = i + 1  BY <2>2, <1>4 DEF Stride
    <3>2. x <= n => i + 1 \in DOMAIN l  BY <3>1, <1>3
    <3>3. QED  BY <2>2, <3>1, <3>2, <1>2, <1>3, NextHead
  <2>3. QED  BY <2>1, <2>2
<1>8. ReadTo(l, x) = Heard(ReadTo(l, i), l[i], Value(l, i))
  <2>1. Awaits(l[i]) => i < Len(l)  BY <1>1, <1>3, <1>4
  <2>2. QED  BY <2>1, <1>6, ReadNext
<1>9. x \in Nat /\ x >= 1 /\ x <= n + 1  BY <1>3, <1>5
<1>10. QED  BY <1>1, <1>2, <1>7, <1>8, <1>9 DEF Argument

\* ReadArgument reads on.
LEMMA ReadArgumentReads ==
  ASSUME ReadInv, ReadArgument
  PROVE  ReadInv'
<1>1. PICK x, w, v : x = arg + Stride(Argument) /\ w = Argument /\ v = Value(argv, arg)  OBVIOUS
<1>2. arg <= Len(argv) /\ ~(Awaits(Argument) /\ arg = Len(argv)) /\ arg' = x /\ pc = "arguments"
  BY <1>1 DEF ReadArgument
<1>3. /\ x \in Nat /\ x >= 1 /\ x <= Len(argv) + 1 /\ (x <= Len(argv) => x \in Heads(argv))
      /\ ReadTo(argv, x) = Heard(args, w, v)
  BY <1>1, <1>2, ReadWord
<1>4. w \in Words
  <2>1. argv \in Seq(Words) /\ arg \in 1 .. Len(argv)
    <3>1. Len(argv) \in Nat  BY LineType DEF ReadInv
    <3>2. QED  BY <3>1, <1>2 DEF ReadInv
  <2>2. QED  BY <2>1, <1>1, LineType DEF Argument
<1>5. Record(args)  BY ReadToRecord DEF ReadInv
<1>6. v = IF Awaits(w) THEN argv[arg + 1] ELSE Text(w)  BY <1>1 DEF Value, Argument
<1>7. Heard(args, w, v) =
           CASE w.opt \in Options -> [args EXCEPT !.flags = @ \union {w.opt}]
             [] Awaits(w) -> Take(w.opt, argv[arg + 1])
             [] w.opt \in WithText /\ Attached(w) -> Take(w.opt, Text(w))
             [] w.opt \in DOMAIN Equated -> Take(Equated[w.opt], Text(w))
             [] w.opt = "" /\ w # Empty -> [args EXCEPT !.inputs = Append(@, w)]
             [] OTHER -> args
  BY <1>4, <1>5, <1>6, TakeIs
<1>8. args' = Heard(args, w, v)  BY <1>1, <1>7 DEF ReadArgument
<1>9. argv' = argv /\ pc' = "arguments"  BY DEF ReadArgument, command
<1>10. QED  BY <1>2, <1>3, <1>8, <1>9 DEF ReadInv

\* An option at the end of the line that awaits a word says nothing.
LEMMA LastWordReads ==
  ASSUME ReadInv, LastArgumentAwaits
  PROVE  ReadInv'
<1>1. PICK l, n : l = argv /\ n = Len(argv)  OBVIOUS
<1>2. l \in Seq(Words) /\ n \in Heads(l) /\ args = ReadTo(l, n) /\ arg = n
  BY <1>1 DEF ReadInv, LastArgumentAwaits
<1>3. n \in Nat /\ n >= 1 /\ DOMAIN l = 1 .. n /\ l[n] \in Words
  <2>1. n \in Nat /\ DOMAIN l = 1 .. n  BY <1>1, <1>2, LineType
  <2>2. n \in 1 .. n  BY <2>1, <1>2 DEF Heads
  <2>3. QED  BY <2>1, <2>2, <1>1, <1>2, LineType
<1>4. Awaits(l[n])  BY <1>1, <1>2 DEF LastArgumentAwaits, Argument
<1>5. ASSUME NEW K, K \subseteq Heads(l), n \notin K PROVE Before(K, n + 1) = Before(K, n)
  <2>1. \A k \in K : k \in Nat /\ k # n  BY <1>5, <1>3 DEF Heads
  <2>2. \A k \in K : k < n + 1 <=> k < n  BY <2>1, <1>3
  <2>3. QED  BY <2>2 DEF Before
<1>6. ASSUME NEW opts PROVE Before(Uses(l, opts), n + 1) = Before(Uses(l, opts), n)
                             /\ Before(Named(l, opts), n + 1) = Before(Named(l, opts), n)
  <2>1. n \notin Uses(l, opts)
    <3>1. ~(n < Len(l))  BY <1>1, <1>3
    <3>2. QED  BY <3>1, <1>4 DEF Uses
  <2>2. Named(l, opts) \subseteq Uses(l, opts) /\ Uses(l, opts) \subseteq Heads(l)  BY DEF Uses, Named
  <2>3. QED  BY <2>1, <2>2, <1>5
<1>7. {o \in Options : \E i \in Before(Heads(l), n + 1) : l[i].opt = o}
        = {o \in Options : \E i \in Before(Heads(l), n) : l[i].opt = o}
  <2>1. l[n].opt \notin Options  BY <1>4 DEF Awaits, WithValue, Options
  <2>2. \A i \in Before(Heads(l), n + 1) : i \in Before(Heads(l), n) \/ i = n
    <3>1. \A i \in Heads(l) : i \in Nat  BY <1>3 DEF Heads
    <3>2. QED  BY <3>1, <1>3 DEF Before
  <2>3. \A i \in Before(Heads(l), n) : i \in Before(Heads(l), n + 1)
    <3>1. \A i \in Heads(l) : i \in Nat  BY <1>3 DEF Heads
    <3>2. QED  BY <3>1, <1>3 DEF Before
  <2>4. \A o \in Options : (\E i \in Before(Heads(l), n + 1) : l[i].opt = o)
                             <=> \E i \in Before(Heads(l), n) : l[i].opt = o
    BY <2>1, <2>2, <2>3
  <2>5. QED  BY <2>4
<1>8. ReadTo(l, n + 1) = ReadTo(l, n)  BY <1>6, <1>7 DEF ReadTo
<1>9. argv' = l /\ arg' = n + 1 /\ args' = args /\ (pc' = "arguments" \/ status' = 2)
  BY <1>1, <1>2 DEF LastArgumentAwaits, command, Continue, Fail, Exit
<1>10. pc' \in {"arguments", "done"}
  BY DEF LastArgumentAwaits, Continue, Fail, Exit
<1>11. n + 1 \in Nat /\ n + 1 >= 1 /\ n + 1 <= Len(l) + 1 /\ ~(n + 1 <= Len(l)) /\ n + 1 > Len(l)
  BY <1>1, <1>3
<1>12. QED  BY <1>2, <1>8, <1>9, <1>10, <1>11 DEF ReadInv

\* A step that leaves the command line and the arguments alone keeps what was read.
LEMMA KeepsReading ==
  ASSUME ReadInv, UNCHANGED <<command, reading>>,
         \/ pc' = pc /\ status' = status
         \/ pc # "arguments" /\ pc # "done"
         \/ pc' \notin {"arguments", "done"} /\ arg > Len(argv)
         \/ pc' = "done" /\ (status' = 0 => Informs(argv))
  PROVE  ReadInv'
<1>1. argv' = argv /\ arg' = arg /\ args' = args  BY DEF command, reading
<1>2. QED  BY <1>1 DEF ReadInv, Informs

\* Every step keeps the account of the reading.
LEMMA ReadStep ==
  ASSUME ReadInv, [Next]_vars
  PROVE  ReadInv'
<1>1. CASE ReadArgument  BY <1>1, ReadArgumentReads
<1>2. CASE LastArgumentAwaits  BY <1>2, LastWordReads
<1>3. CASE ShowHelp
  <2>1. arg \in Heads(argv)  BY <1>3 DEF ReadInv, ShowHelp
  <2>2. argv[arg].opt \in {"--help", "-h", "--version"}  BY <1>3 DEF ShowHelp, Argument
  <2>3. Informs(argv)  BY <2>1, <2>2 DEF Informs, Has
  <2>4. UNCHANGED <<command, reading>> /\ pc' = "done"  BY <1>3 DEF ShowHelp, Exit
  <2>5. QED  BY <2>3, <2>4, KeepsReading
<1>4. CASE SelectMode
  <2>1. UNCHANGED <<command, reading>> /\ arg > Len(argv)  BY <1>4 DEF SelectMode
  <2>2. (pc' = "done" /\ status' = 2) \/ pc' = "open"
    BY <1>4 DEF SelectMode, Fail, Exit, Continue
  <2>3. QED  BY <2>1, <2>2, KeepsReading
<1>5. CASE UNCHANGED vars
  <2>1. UNCHANGED <<command, reading>> /\ pc' = pc /\ status' = status  BY <1>5 DEF vars, command, reading
  <2>2. QED  BY <2>1, KeepsReading
<1>6. CASE Ended
  <2>1. UNCHANGED vars  BY <1>6 DEF Ended
  <2>2. QED  BY <2>1, <1>5
<1>7. ASSUME UNCHANGED <<command, reading>>, pc # "arguments", pc # "done" PROVE ReadInv'
  BY <1>7, KeepsReading
<1>8. CASE OpenSource  BY <1>7, <1>8 DEF OpenSource
<1>9. CASE Preprocess  BY <1>7, <1>9 DEF Preprocess
<1>10. CASE Parse  BY <1>7, <1>10 DEF Parse
<1>11. CASE RunSemantic  BY <1>7, <1>11 DEF RunSemantic
<1>12. CASE Generate  BY <1>7, <1>12 DEF Generate
<1>13. CASE Validate  BY <1>7, <1>13 DEF Validate
<1>14. CASE WriteObject  BY <1>7, <1>14 DEF WriteObject
<1>15. CASE AllWritten  BY <1>7, <1>15 DEF AllWritten
<1>16. CASE LoadObject  BY <1>7, <1>16 DEF LoadObject
<1>17. CASE AllCompiled  BY <1>7, <1>17 DEF AllCompiled
<1>18. CASE FindLibrary  BY <1>7, <1>18 DEF FindLibrary
<1>19. CASE Link  BY <1>7, <1>19 DEF Link
<1>20. CASE ShowLog  BY <1>7, <1>20 DEF ShowLog
<1>21. CASE ValidateProgram  BY <1>7, <1>21 DEF ValidateProgram
<1>22. CASE WriteProgram  BY <1>7, <1>22 DEF WriteProgram
<1>23. QED
  BY <1>1, <1>2, <1>3, <1>4, <1>5, <1>6, <1>8, <1>9, <1>10, <1>11, <1>12, <1>13, <1>14, <1>15, <1>16, <1>17, <1>18,
     <1>19, <1>20, <1>21, <1>22 DEF Next

\* The file written has its content, and the others keep theirs.
LEMMA WrittenIs ==
  ASSUME NEW f, NEW c
  PROVE  /\ DOMAIN Written(f, c) = DOMAIN disk \cup {f}
         /\ Written(f, c)[f] = c
         /\ \A g \in DOMAIN disk : g # f => Written(f, c)[g] = disk[g]
BY DEF Written

\* The least of numbers.
LEMMA MinIs ==
  ASSUME NEW K, K \subseteq Nat, NEW x \in K, \A y \in K : x <= y
  PROVE  Min(K) = x
<1>1. \A k \in K : k = x <=> \A y \in K : k <= y
  <2>1. SUFFICES ASSUME NEW k \in K PROVE k = x <=> \A y \in K : k <= y  OBVIOUS
  <2>2. k \in Nat /\ x \in Nat /\ x <= k  OBVIOUS
  <2>3. (\A y \in K : k <= y) => k <= x  OBVIOUS
  <2>4. QED  BY <2>2, <2>3
<1>2. QED  BY <1>1 DEF Min

\* The first of three directories that is named.
LEMMA RootIs ==
  ASSUME NEW l, NEW w, NEW r, r = LastValue(l, Uses(l, {"--sysroot", "--sysroot="}))
  PROVE  RootFor(l, w) = IF r # Empty THEN r ELSE IF w.env # Empty THEN w.env ELSE w.install
<1>1. PICK roots : roots = <<r, w.env, w.install>>  OBVIOUS
<1>2. PICK set : set = {i \in DOMAIN roots : roots[i] # Empty}  OBVIOUS
<1>3. RootFor(l, w) = IF set = {} THEN Empty ELSE roots[Min(set)]  BY <1>1, <1>2 DEF RootFor
<1>4. roots[1] = r /\ roots[2] = w.env /\ roots[3] = w.install /\ DOMAIN roots = 1 .. 3  BY <1>1
<1>5. \A i \in set : i \in Nat /\ i >= 1 /\ i <= 3  BY <1>2, <1>4
<1>6. set \subseteq Nat  BY <1>5
<1>7. CASE r # Empty
  <2>1. 1 \in set  BY <1>2, <1>4, <1>7
  <2>2. Min(set) = 1  BY <1>5, <1>6, <2>1, MinIs
  <2>3. QED  BY <1>3, <1>4, <1>7, <2>1, <2>2
<1>8. CASE r = Empty /\ w.env # Empty
  <2>1. 2 \in set /\ 1 \notin set  BY <1>2, <1>4, <1>8
  <2>2. \A i \in set : 2 <= i  BY <1>5, <2>1
  <2>3. Min(set) = 2  BY <1>6, <2>1, <2>2, MinIs
  <2>4. QED  BY <1>3, <1>4, <1>8, <2>1, <2>3
<1>9. CASE r = Empty /\ w.env = Empty /\ w.install # Empty
  <2>1. 3 \in set /\ 1 \notin set /\ 2 \notin set  BY <1>2, <1>4, <1>9
  <2>2. \A i \in set : 3 <= i  BY <1>5, <2>1
  <2>3. Min(set) = 3  BY <1>6, <2>1, <2>2, MinIs
  <2>4. QED  BY <1>3, <1>4, <1>9, <2>1, <2>3
<1>10. CASE r = Empty /\ w.env = Empty /\ w.install = Empty
  <2>1. \A i \in DOMAIN roots : roots[i] = Empty
    <3>1. \A i \in 1 .. 3 : i = 1 \/ i = 2 \/ i = 3  OBVIOUS
    <3>2. QED  BY <3>1, <1>4, <1>10
  <2>2. set = {}  BY <1>2, <2>1
  <2>3. QED  BY <1>3, <1>10, <2>2
<1>11. QED  BY <1>7, <1>8, <1>9, <1>10

\* When all words are read, the arguments are what the command line says.
AsSaid ==
  /\ args.out = OutputOf(argv) /\ args.inputs = Operands(argv) /\ args.include = ValuesOf(argv, "-I")
  /\ args.system = ValuesOf(argv, "-isystem") /\ args.dirs = ValuesOf(argv, "-L")
  /\ args.libs = Values(argv, Named(argv, {"-l"}))
  /\ args.sysroot = LastValue(argv, Uses(argv, {"--sysroot", "--sysroot="})) /\ args.map = MapOf(argv)
  /\ args.imports = Values(argv, Named(argv, {"--import-module", "--import-module="}))
  /\ args.flags = {o \in Options : Has(argv, o)}

\* After the last word the arguments are what the command line says.
LEMMA AllRead ==
  ASSUME ReadInv, arg > Len(argv)
  PROVE  AsSaid
<1>1. PICK l, n, a : l = argv /\ n = arg /\ a = args  OBVIOUS
<1>2. l \in Seq(Words) /\ a = ReadTo(l, n) /\ n \in Nat /\ n > Len(l)  BY <1>1 DEF ReadInv
<1>3. ASSUME NEW K, K \subseteq Heads(l) PROVE Before(K, n) = K
  <2>1. Len(l) \in Nat /\ DOMAIN l = 1 .. Len(l)  BY <1>2, LineType
  <2>2. \A k \in K : k \in 1 .. Len(l)  BY <1>3, <2>1 DEF Heads
  <2>3. \A k \in K : k < n  BY <1>2, <2>1, <2>2
  <2>4. QED  BY <2>3 DEF Before
<1>4. ASSUME NEW opts PROVE Before(Uses(l, opts), n) = Uses(l, opts) /\ Before(Named(l, opts), n) = Named(l, opts)
  <2>1. Uses(l, opts) \subseteq Heads(l) /\ Named(l, opts) \subseteq Heads(l)  BY DEF Uses, Named
  <2>2. QED  BY <2>1, <1>3
<1>5. Before(Heads(l), n) = Heads(l)  BY <1>3
<1>6. a.flags = {o \in Options : Has(l, o)}  BY <1>2, <1>5 DEF ReadTo, Has
<1>7. a.out = OutputOf(l) /\ a.sysroot = LastValue(l, Uses(l, {"--sysroot", "--sysroot="})) /\ a.map = MapOf(l)
  BY <1>2, <1>4 DEF ReadTo, OutputOf, MapOf
<1>8. a.include = ValuesOf(l, "-I") /\ a.system = ValuesOf(l, "-isystem") /\ a.dirs = ValuesOf(l, "-L")
  BY <1>2, <1>4 DEF ReadTo, ValuesOf
<1>9. /\ a.inputs = Operands(l) /\ a.libs = Values(l, Named(l, {"-l"}))
      /\ a.imports = Values(l, Named(l, {"--import-module", "--import-module="}))
  BY <1>2, <1>4 DEF ReadTo, Operands
<1>10. QED  BY <1>1, <1>6, <1>7, <1>8, <1>9 DEF AsSaid

\* What the phases make of the arguments is what the command line asks for.
LEMMA AsAsked ==
  ASSUME AsSaid
  PROVE  /\ Sysroot = RootFor(argv, world)
         /\ \A f : Preprocessed(Given(f)) = TextOf(argv, world, f)
         /\ SearchPath(Sysroot) = DirsFor(argv, world)
         /\ \A o \in Options : o \in args.flags <=> Has(argv, o)
         /\ Libraries = NamesFor(argv)
         /\ Linking(argv) <=> Mode = "link"
<1>1. Sysroot = RootFor(argv, world)
  <2>1. PICK r : r = args.sysroot  OBVIOUS
  <2>2. r = LastValue(argv, Uses(argv, {"--sysroot", "--sysroot="}))  BY <2>1 DEF AsSaid
  <2>3. QED  BY <2>1, <2>2, RootIs DEF Sysroot
<1>2. \A f : Preprocessed(Given(f)) = TextOf(argv, world, f)
  BY <1>1 DEF AsSaid, Preprocessed, TextOf
<1>3. SearchPath(Sysroot) = DirsFor(argv, world)
  BY <1>1 DEF AsSaid, SearchPath, DirsFor
<1>4. \A o \in Options : o \in args.flags <=> Has(argv, o)  BY DEF AsSaid
<1>5. "-nostdlib" \in args.flags <=> Has(argv, "-nostdlib")  BY <1>4 DEF Options
<1>6. Libraries = NamesFor(argv)  BY <1>5 DEF AsSaid, Libraries, NamesFor
<1>7. Linking(argv) <=> Mode = "link"  BY <1>4 DEF Linking, Mode, Options
<1>8. QED  BY <1>1, <1>2, <1>3, <1>4, <1>6, <1>7

-----------------------------------------------------------------------------
(* What the phases make. *)

Files == args.inputs
InitDisk == [f \in {argv[i] : i \in {j \in DOMAIN argv : argv[j].opt = ""}} |-> Given(f)]
OnDisk(f, content) == f \in DOMAIN disk /\ disk[f] = content

\* What the phases make of the source f, and what goes into the link or onto the disk.
Made(f) == [kind |-> "module", from |-> Preprocessed(Given(f)), mode |-> CompileMode, sections |-> FALSE]
LinkedAs(f) == IF IsObject(f) THEN Given(f) ELSE Made(f)
OutputFor(f) ==
  IF Mode = "--ast" THEN [f EXCEPT !.ext = "_ast.xml"]
  ELSE IF args.out # Empty THEN args.out
  ELSE [f EXCEPT !.ext = IF Mode = "-ffreestanding" THEN ".wasm" ELSE ".o"]
ContentFor(f) == Encoded(IF Mode = "--ast" THEN Preprocessed(Given(f)) ELSE Made(f))

\* No two inputs are made into different contents of one file.
Apart ==
  \A i, j \in DOMAIN Files :
    OutputFor(Files[i]) = OutputFor(Files[j]) => ContentFor(Files[i]) = ContentFor(Files[j])

Remaining == \A k \in DOMAIN Files : k >= unit => OnDisk(Files[k], Given(Files[k]))
Produced ==
  Mode \notin {"link", "-E"} /\ Apart =>
    \A k \in DOMAIN Files : k < unit => OnDisk(OutputFor(Files[k]), ContentFor(Files[k]))

\* Between two units, and at a unit that is compiled.
Between ==
  /\ ~Refused
  /\ Mode = "-E" => unit = 1
  /\ unit \in Nat /\ unit >= 1 /\ unit <= Len(Files) + 1 /\ lib = 1
  /\ Mode = "link" => inputs = [k \in 1 .. unit - 1 |-> LinkedAs(Files[k])]
  /\ Remaining /\ Produced
AtUnit == Between /\ unit <= Len(Files) /\ ~Loads

\* The archives of the libraries at K, in order, and all inputs of the link when the libraries before n are found.
Findable == {k \in DOMAIN Libraries : Holding(SearchPath(Sysroot), Libraries[k]) # {}}
Archived(k) == [kind |-> "archive", dir |-> ResolveLib(Libraries[k]), name |-> Libraries[k]]
Archives(K) == LET at == Upwards(K) IN [n \in DOMAIN at |-> Archived(at[n])]
InputsBefore(n) == [k \in DOMAIN Files |-> LinkedAs(Files[k])] \o Archives(Before(Findable, n))
Gathered == ~Refused /\ Mode = "link" /\ inputs = InputsBefore(Len(Libraries) + 1)
Mapped == args.map # Empty => OnDisk(args.map, Map(inputs))

\* The files of a run that ends with status 0.
Final ==
  /\ ~Refused
  /\ Mode = "-E" => OnDisk(Stdout, Preprocessed(Given(Files[1])))
  /\ Mode \notin {"link", "-E"} /\ Apart => \A k \in DOMAIN Files : OnDisk(OutputFor(Files[k]), ContentFor(Files[k]))
  /\ Mode = "link" => Gathered /\ OnDisk(Target, Linked(inputs)) /\ (args.map # Target => Mapped)

AtFront == AtUnit /\ built = Given(Input)
AtSemantic == AtUnit /\ Mode \notin {"-E", "--ast"} /\ built = Preprocessed(Given(Input))
AtValidate == AtUnit /\ Mode \notin {"-E", "--ast"} /\ built = Made(Input)
AtWrite ==
  IF Mode = "link" THEN Gathered /\ Mapped
  ELSE AtUnit /\ Mode # "-E" /\ Encoded(built) = ContentFor(Input)
AtLibraries ==
  ~Refused /\ Mode = "link" /\ lib \in Nat /\ lib >= 1 /\ lib <= Len(Libraries) + 1 /\ inputs = InputsBefore(lib)
AtStart == unit = 1 /\ lib = 1 /\ inputs = <<>> /\ disk = InitDisk

\* What the phases have made, in each place of the program.
WorkInv ==
  /\ pc = "arguments" => AtStart
  /\ pc = "open" => Between
  /\ pc = "front" => AtFront
  /\ pc \in {"semantic", "generate"} => AtSemantic
  /\ pc = "validate" => AtValidate
  /\ pc = "write" => AtWrite
  /\ pc = "libraries" => AtLibraries
  /\ pc = "log" => Gathered /\ (~HasError(log) => Mapped)
  /\ pc = "check" => Gathered /\ Mapped
  /\ pc = "done" /\ status = 0 /\ arg > Len(argv) => Final

\* Nothing that hangs on the arguments changes while they do not.
Same ==
  /\ Files' = Files /\ Mode' = Mode /\ Refused' = Refused /\ Apart' = Apart /\ CompileMode' = CompileMode
  /\ Sysroot' = Sysroot /\ Libraries' = Libraries /\ Findable' = Findable /\ Target' = Target /\ args' = args
  /\ \A f : OutputFor(f)' = OutputFor(f) /\ ContentFor(f)' = ContentFor(f) /\ LinkedAs(f)' = LinkedAs(f)
  /\ \A f : Made(f)' = Made(f) /\ Preprocessed(f)' = Preprocessed(f) /\ Linked(f)' = Linked(f) /\ Map(f)' = Map(f)
            /\ Encoded(f)' = Encoded(f)
  /\ \A k : Archived(k)' = Archived(k) /\ InputsBefore(k)' = InputsBefore(k)

\* A step that reads no argument changes nothing that hangs on them.
LEMMA Steady ==
  ASSUME UNCHANGED <<command, reading>>
  PROVE  Same
<1>1. argv' = argv /\ world' = world /\ arg' = arg /\ args' = args  BY DEF command, reading
<1>2. Files' = Files /\ Mode' = Mode /\ Target' = Target  BY <1>1 DEF Files, Mode, Target
<1>3. Refused' = Refused  BY <1>1, <1>2 DEF Refused
<1>4. CompileMode' = CompileMode /\ Sysroot' = Sysroot /\ Libraries' = Libraries
  BY <1>1, <1>2 DEF CompileMode, Sysroot, Libraries
<1>5. \A f : Preprocessed(f)' = Preprocessed(f)  BY <1>1, <1>4 DEF Preprocessed
<1>6. \A f : Made(f)' = Made(f)  BY <1>4, <1>5 DEF Made
<1>7. \A f : LinkedAs(f)' = LinkedAs(f)  BY <1>6 DEF LinkedAs
<1>8. \A f : OutputFor(f)' = OutputFor(f)  BY <1>1, <1>2 DEF OutputFor
<1>9. \A f : Encoded(f)' = Encoded(f)  BY <1>2 DEF Encoded
<1>10. \A f : ContentFor(f)' = ContentFor(f)  BY <1>2, <1>5, <1>6 DEF ContentFor, Encoded
<1>11. Apart' = Apart  BY <1>2, <1>8, <1>10 DEF Apart
<1>12. \A f : Linked(f)' = Linked(f) /\ Map(f)' = Map(f)  BY <1>1 DEF Linked, Map
<1>13. \A p, n : Holding(p, n)' = Holding(p, n)  BY <1>1 DEF Holding
<1>14. \A r : SearchPath(r)' = SearchPath(r)  BY <1>1 DEF SearchPath
<1>15. SearchPath(Sysroot)' = SearchPath(Sysroot)  BY <1>4, <1>14 DEF SearchPath
<1>16. Findable' = Findable  BY <1>1, <1>4, <1>13, <1>15 DEF Findable, Holding
<1>17. \A n : ResolveLib(n)' = ResolveLib(n)  BY <1>1, <1>15 DEF ResolveLib, Holding
<1>18. \A k : Archived(k)' = Archived(k)  BY <1>4, <1>17 DEF Archived, ResolveLib
<1>19. \A K : Archives(K)' = Archives(K)  BY <1>18 DEF Archives
<1>20. \A k : InputsBefore(k)' = InputsBefore(k)  BY <1>2, <1>7, <1>16, <1>19 DEF InputsBefore, Archives
<1>21. QED
  BY <1>1, <1>2, <1>3, <1>4, <1>5, <1>6, <1>7, <1>8, <1>9, <1>10, <1>11, <1>12, <1>16, <1>18, <1>20 DEF Same

\* The inputs are words of the command line, and each is on disk at the start.
LEMMA FilesType ==
  ASSUME ReadInv, arg > Len(argv)
  PROVE  Files \in Seq(Sources(argv)) /\ Len(Files) \in Nat /\ DOMAIN Files = 1 .. Len(Files)
         /\ \A k \in DOMAIN Files : Files[k] \in Sources(argv)
<1>1. PICK l, s : l = argv /\ s = Files  OBVIOUS
<1>2. s = Operands(l) /\ l \in Seq(Words)  BY <1>1, AllRead DEF AsSaid, Files, ReadInv
<1>3. s \in Seq(Sources(l))  BY <1>2, OperandsType
<1>4. Len(s) \in Nat /\ DOMAIN s = 1 .. Len(s)  BY <1>3, LenProperties
<1>5. \A k \in DOMAIN s : s[k] \in Sources(l)  BY <1>3, <1>4, ElementOfSeq
<1>6. QED  BY <1>1, <1>3, <1>4, <1>5

\* At the start every source is on disk as given.
LEMMA SourceOnDisk ==
  ASSUME NEW f \in Sources(argv), disk = InitDisk
  PROVE  OnDisk(f, Given(f))
BY DEF Sources, InitDisk, OnDisk

\* The places of the program hold after a step that changes none of what they speak of.
LEMMA SamePlace ==
  ASSUME Same, UNCHANGED <<unit, lib, inputs, disk>>
  PROVE  /\ Between' <=> Between
         /\ AtUnit' <=> AtUnit
         /\ Input' = Input
         /\ AtLibraries' <=> AtLibraries
         /\ Gathered' <=> Gathered
         /\ Mapped' <=> Mapped
<1>1. \A f, c : OnDisk(f, c)' <=> OnDisk(f, c)  BY DEF OnDisk
<1>2. Remaining' <=> Remaining  BY <1>1 DEF Same, Remaining, OnDisk
<1>3. Produced' <=> Produced  BY <1>1 DEF Same, Produced, OnDisk
<1>4. Between' <=> Between  BY <1>2, <1>3 DEF Same, Between
<1>5. Input' = Input  BY DEF Same, Input
<1>6. Loads' <=> Loads  BY <1>5 DEF Same, Loads
<1>7. AtUnit' <=> AtUnit  BY <1>4, <1>6 DEF Same, AtUnit
<1>8. Map(inputs)' = Map(inputs)  BY DEF Same, Map, Linked
<1>9. Mapped' <=> Mapped  BY <1>1, <1>8 DEF Same, Mapped, OnDisk
<1>10. InputsBefore(lib)' = InputsBefore(lib) /\ InputsBefore(Len(Libraries) + 1)' = InputsBefore(Len(Libraries) + 1)
  BY DEF Same, InputsBefore, Archives
<1>11. Gathered' <=> Gathered  BY <1>10 DEF Same, Gathered
<1>12. AtLibraries' <=> AtLibraries  BY <1>10 DEF Same, AtLibraries
<1>13. QED  BY <1>4, <1>5, <1>7, <1>9, <1>11, <1>12

\* A step that changes nothing.
LEMMA Stays ==
  ASSUME WorkInv, UNCHANGED vars
  PROVE  WorkInv'
<1>1. /\ argv' = argv /\ world' = world /\ arg' = arg /\ args' = args /\ unit' = unit /\ lib' = lib
      /\ inputs' = inputs /\ disk' = disk /\ pc' = pc /\ built' = built /\ log' = log /\ status' = status
  BY DEF vars
<1>2. Same
  <2>1. UNCHANGED <<command, reading>>  BY <1>1 DEF command, reading
  <2>2. QED  BY <2>1, Steady
<1>3. /\ Between' <=> Between
      /\ AtUnit' <=> AtUnit
      /\ Input' = Input
      /\ AtLibraries' <=> AtLibraries
      /\ Gathered' <=> Gathered
      /\ Mapped' <=> Mapped
  <2>1. UNCHANGED <<unit, lib, inputs, disk>>  BY <1>1
  <2>2. QED  BY <1>2, <2>1, SamePlace
<1>4. AtStart' <=> AtStart  BY <1>1 DEF AtStart, InitDisk, command
<1>5. AtFront' <=> AtFront  BY <1>1, <1>3 DEF AtFront, Given
<1>6. AtSemantic' <=> AtSemantic  BY <1>1, <1>2, <1>3 DEF AtSemantic, Same, Preprocessed, Given
<1>7. AtValidate' <=> AtValidate  BY <1>1, <1>2, <1>3 DEF AtValidate, Same, Made
<1>8. Encoded(built)' = Encoded(built)  BY <1>1, <1>2 DEF Same, Encoded
<1>9. ContentFor(Input)' = ContentFor(Input)  BY <1>2, <1>3 DEF Same, ContentFor
<1>10. AtWrite' <=> AtWrite  BY <1>2, <1>3, <1>8, <1>9 DEF AtWrite, Same
<1>11. HasError(log)' <=> HasError(log)  BY <1>1 DEF HasError
<1>12. Final' <=> Final
  <2>1. \A f, c : OnDisk(f, c)' <=> OnDisk(f, c)  BY <1>1 DEF OnDisk
  <2>2. OnDisk(Stdout, Preprocessed(Given(Files[1])))' <=> OnDisk(Stdout, Preprocessed(Given(Files[1])))
    BY <1>1, <1>2 DEF OnDisk, Same, Preprocessed
  <2>3. (\A k \in DOMAIN Files : OnDisk(OutputFor(Files[k]), ContentFor(Files[k])))'
          <=> \A k \in DOMAIN Files : OnDisk(OutputFor(Files[k]), ContentFor(Files[k]))
    BY <1>1, <1>2, <2>1 DEF OnDisk, Same
  <2>4. OnDisk(Target, Linked(inputs))' <=> OnDisk(Target, Linked(inputs))
    BY <1>1, <1>2 DEF OnDisk, Same, Linked
  <2>5. QED  BY <1>2, <1>3, <2>2, <2>3, <2>4 DEF Final, Same
<1>13. arg' = arg /\ argv' = argv  BY <1>1
<1>14. QED  BY <1>1, <1>3, <1>4, <1>5, <1>6, <1>7, <1>10, <1>11, <1>12, <1>13 DEF WorkInv

\* A run that stops without success leaves nothing to show.
LEMMA Stops ==
  ASSUME pc' = "done", status' # 0
  PROVE  WorkInv'
BY DEF WorkInv

\* At the same unit, with the same files, after a step that leaves the arguments alone.
LEMMA SameUnit ==
  ASSUME AtUnit, UNCHANGED <<command, reading>>, UNCHANGED <<unit, lib, inputs, disk>>
  PROVE  AtUnit' /\ Input' = Input /\ Same
<1>1. Same  BY Steady
<1>2. QED  BY <1>1, SamePlace

\* A command line that is not refused leaves every input to be read.
LEMMA SelectStep ==
  ASSUME ReadInv, WorkInv, SelectMode
  PROVE  WorkInv'
<1>1. AtStart /\ arg > Len(argv)  BY DEF SelectMode, WorkInv
<1>2. /\ UNCHANGED <<command, reading>> /\ UNCHANGED <<unit, lib, inputs, disk>>
      /\ (pc' = "done" /\ status' = 2) \/ (pc' = "open" /\ ~Refused)
  BY DEF SelectMode, linking, Fail, Exit, Continue
<1>3. CASE pc' = "open" /\ ~Refused
  <2>1. DOMAIN Files = 1 .. Len(Files) /\ Len(Files) \in Nat /\ \A k \in DOMAIN Files : Files[k] \in Sources(argv)
    BY <1>1, FilesType
  <2>2. Remaining  BY <1>1, <2>1, SourceOnDisk DEF Remaining, AtStart
  <2>3. Produced  BY <1>1, <2>1 DEF Produced, AtStart
  <2>4. inputs = [k \in 1 .. unit - 1 |-> LinkedAs(Files[k])]
    <3>1. 1 .. unit - 1 = {}  BY <1>1 DEF AtStart
    <3>2. QED  BY <1>1, <3>1 DEF AtStart
  <2>5. Between  BY <1>1, <1>3, <2>1, <2>2, <2>3, <2>4 DEF AtStart, Between
  <2>6. Same  BY <1>2, Steady
  <2>7. Between'  BY <1>2, <2>5, <2>6, SamePlace
  <2>8. QED  BY <1>3, <2>7 DEF WorkInv
<1>4. CASE pc' = "done" /\ status' = 2  BY <1>4, Stops
<1>5. QED  BY <1>2, <1>3, <1>4

\* A source that is opened is still what was given.
LEMMA OpenStep ==
  ASSUME ReadInv, WorkInv, OpenSource
  PROVE  WorkInv'
<1>1. AtUnit  BY DEF OpenSource, WorkInv, AtUnit, Files
<1>2. UNCHANGED <<command, reading>> /\ UNCHANGED <<unit, lib, inputs, disk>>  BY DEF OpenSource, linking
<1>3. AtUnit' /\ Input' = Input  BY <1>1, <1>2, SameUnit
<1>4. CASE Fail("open", 1)  BY <1>4, Stops DEF Fail, Exit
<1>5. CASE pc' = "front" /\ built' = disk[Input]
  <2>1. unit \in DOMAIN Files
    <3>1. DOMAIN Files = 1 .. Len(Files) /\ Len(Files) \in Nat
      <4>1. arg > Len(argv)  BY DEF OpenSource, ReadInv
      <4>2. QED  BY <4>1, FilesType
    <3>2. QED  BY <1>1, <3>1 DEF AtUnit, Between
  <2>2. disk[Input] = Given(Input)
    <3>1. unit >= unit  BY <1>1 DEF AtUnit, Between
    <3>2. QED  BY <1>1, <2>1, <3>1 DEF AtUnit, Between, Remaining, OnDisk, Input, Files
  <2>3. built' = Given(Input')  BY <1>3, <1>5, <2>2
  <2>4. AtFront'  BY <1>3, <2>3 DEF AtFront
  <2>5. QED  BY <1>5, <2>4 DEF WorkInv
<1>6. QED  BY <1>4, <1>5 DEF OpenSource, Continue

\* With -E the only input is written preprocessed.
LEMMA PreprocessStep ==
  ASSUME ReadInv, WorkInv, Preprocess
  PROVE  WorkInv'
<1>1. AtFront /\ Mode = "-E"  BY DEF Preprocess, WorkInv
<1>2. UNCHANGED <<command, reading>> /\ disk' = Written(Stdout, Preprocessed(built)) /\ pc' = "done"
  BY DEF Preprocess, Exit
<1>3. Same  BY <1>2, Steady
<1>4. unit = 1 /\ Input = Files[1] /\ ~Refused  BY <1>1 DEF AtFront, AtUnit, Between, Input, Files
<1>5. Preprocessed(built) = Preprocessed(Given(Files[1]))  BY <1>1, <1>4 DEF AtFront
<1>6. OnDisk(Stdout, Preprocessed(Given(Files[1])))'
  <2>1. PICK c : c = Preprocessed(Given(Files[1]))  OBVIOUS
  <2>2. Preprocessed(Given(Files[1]))' = c  BY <1>3, <2>1 DEF Same, Preprocessed
  <2>3. disk' = Written(Stdout, c)  BY <1>2, <1>5, <2>1
  <2>4. Stdout \in DOMAIN disk' /\ disk'[Stdout] = c  BY <2>3, WrittenIs
  <2>5. QED  BY <2>2, <2>4 DEF OnDisk
<1>7. Mode' = "-E" /\ ~Refused'  BY <1>1, <1>3, <1>4 DEF Same
<1>8. Final'  BY <1>6, <1>7 DEF Final
<1>9. QED  BY <1>2, <1>8 DEF WorkInv

\* The parser takes its tokens from the preprocessed source.
LEMMA ParseStep ==
  ASSUME ReadInv, WorkInv, Parse
  PROVE  WorkInv'
<1>1. AtFront /\ Mode # "-E"  BY DEF Parse, WorkInv
<1>2. /\ UNCHANGED <<command, reading>> /\ UNCHANGED <<unit, lib, inputs, disk>>
      /\ built' = Preprocessed(built)
      /\ (pc' = "done" /\ status' = 1) \/ pc' = IF Mode = "--ast" THEN "write" ELSE "semantic"
  BY DEF Parse, linking, Exit, Continue
<1>3. AtUnit' /\ Input' = Input /\ Same
  <2>1. AtUnit  BY <1>1 DEF AtFront
  <2>2. QED  BY <1>2, <2>1, SameUnit
<1>4. built' = Preprocessed(Given(Input))  BY <1>1, <1>2 DEF AtFront
<1>5. CASE pc' = "done" /\ status' = 1  BY <1>5, Stops
<1>6. CASE pc' = "write" /\ Mode = "--ast"
  <2>1. ContentFor(Input)' = ContentFor(Input)  BY <1>3 DEF Same, ContentFor
  <2>2. Encoded(built)' = Encoded(built')  BY <1>3 DEF Same, Encoded
  <2>3. Encoded(built') = ContentFor(Input)  BY <1>4, <1>6 DEF ContentFor
  <2>4. Mode' = "--ast"  BY <1>3, <1>6 DEF Same
  <2>5. AtWrite'  BY <1>3, <2>1, <2>2, <2>3, <2>4 DEF AtWrite
  <2>6. QED  BY <1>6, <2>5 DEF WorkInv
<1>7. CASE pc' = "semantic" /\ Mode # "--ast"
  <2>1. Mode' = Mode  BY <1>3 DEF Same
  <2>2. Preprocessed(Given(Input))' = Preprocessed(Given(Input))  BY <1>3 DEF Same, Preprocessed
  <2>3. AtSemantic'  BY <1>1, <1>3, <1>4, <1>7, <2>1, <2>2 DEF AtSemantic
  <2>4. QED  BY <1>7, <2>3 DEF WorkInv
<1>8. QED  BY <1>2, <1>5, <1>6, <1>7

\* Semantic analysis makes nothing new.
LEMMA SemanticStep ==
  ASSUME ReadInv, WorkInv, RunSemantic
  PROVE  WorkInv'
<1>1. AtSemantic  BY DEF RunSemantic, WorkInv
<1>2. /\ UNCHANGED <<command, reading>> /\ UNCHANGED <<unit, lib, inputs, disk>> /\ built' = built
      /\ (pc' = "done" /\ status' = 1) \/ pc' = "generate"
  BY DEF RunSemantic, linking, Exit, Continue
<1>3. AtUnit' /\ Input' = Input /\ Same
  <2>1. AtUnit  BY <1>1 DEF AtSemantic
  <2>2. QED  BY <1>2, <2>1, SameUnit
<1>4. CASE pc' = "done" /\ status' = 1  BY <1>4, Stops
<1>5. CASE pc' = "generate"
  <2>1. Mode' = Mode  BY <1>3 DEF Same
  <2>2. Preprocessed(Given(Input))' = Preprocessed(Given(Input))  BY <1>3 DEF Same, Preprocessed
  <2>3. AtSemantic'  BY <1>1, <1>2, <1>3, <2>1, <2>2 DEF AtSemantic
  <2>4. QED  BY <1>5, <2>3 DEF WorkInv
<1>6. QED  BY <1>2, <1>4, <1>5

\* Code generation makes the module of the source, in the mode asked for.
LEMMA GenerateStep ==
  ASSUME ReadInv, WorkInv, Generate
  PROVE  WorkInv'
<1>1. AtSemantic  BY DEF Generate, WorkInv
<1>2. /\ UNCHANGED <<command, reading>> /\ UNCHANGED <<unit, lib, inputs, disk>>
      /\ built' = [kind |-> "module", from |-> built, mode |-> CompileMode, sections |-> FALSE]
      /\ (pc' = "done" /\ status' = 1) \/ pc' = "validate"
  BY DEF Generate, linking, Exit, Continue
<1>3. AtUnit' /\ Input' = Input /\ Same
  <2>1. AtUnit  BY <1>1 DEF AtSemantic
  <2>2. QED  BY <1>2, <2>1, SameUnit
<1>4. CASE pc' = "done" /\ status' = 1  BY <1>4, Stops
<1>5. CASE pc' = "validate"
  <2>1. Mode' = Mode  BY <1>3 DEF Same
  <2>2. Made(Input)' = Made(Input)  BY <1>3 DEF Same, Made
  <2>3. built' = Made(Input)  BY <1>1, <1>2 DEF AtSemantic, Made
  <2>4. AtValidate'  BY <1>1, <1>3, <2>1, <2>2, <2>3 DEF AtSemantic, AtValidate
  <2>5. QED  BY <1>5, <2>4 DEF WorkInv
<1>6. QED  BY <1>2, <1>4, <1>5

\* One more input for the linker, and on to the next unit.
LEMMA OneMoreInput ==
  ASSUME ReadInv, arg > Len(argv), Between, unit <= Len(Files), Mode = "link", UNCHANGED <<command, reading>>,
         unit' = unit + 1, UNCHANGED <<lib, disk>>, inputs' = Append(inputs, LinkedAs(Input))
  PROVE  Between'
<1>1. Same  BY Steady
<1>2. DOMAIN Files = 1 .. Len(Files) /\ Len(Files) \in Nat  BY FilesType
<1>3. /\ unit \in Nat /\ unit >= 1 /\ unit <= Len(Files) /\ lib = 1 /\ ~Refused
      /\ inputs = [k \in 1 .. unit - 1 |-> LinkedAs(Files[k])] /\ Remaining
  BY DEF Between
<1>4. inputs' = [k \in 1 .. unit |-> LinkedAs(Files[k])]
  <2>1. PICK c, w : c = unit - 1 /\ w = [k \in 1 .. unit |-> LinkedAs(Files[k])]  OBVIOUS
  <2>2. c \in Nat /\ c + 1 = unit  BY <1>3, <2>1
  <2>3. GoesOn(inputs, w, c)  BY <1>3, <2>1, <2>2 DEF GoesOn
  <2>4. w = Append(inputs, w[c + 1])  BY <2>3, AppendOf
  <2>5. w[c + 1] = LinkedAs(Input)  BY <1>3, <2>1, <2>2 DEF Input, Files
  <2>6. QED  BY <2>1, <2>4, <2>5
<1>5. inputs' = [k \in 1 .. unit' - 1 |-> LinkedAs(Files[k])']
  <2>1. unit' - 1 = unit  BY <1>3
  <2>2. QED  BY <1>1, <1>4, <2>1 DEF Same
<1>6. Remaining'
  <2>1. \A k \in DOMAIN Files : k >= unit + 1 => k >= unit  BY <1>2, <1>3
  <2>2. QED  BY <1>1, <1>3, <2>1 DEF Remaining, OnDisk, Same
<1>7. Mode' = "link" /\ ~Refused'  BY <1>1, <1>3 DEF Same
<1>8. Produced'  BY <1>7 DEF Produced
<1>9. unit' \in Nat /\ unit' >= 1 /\ unit' <= Len(Files') + 1 /\ lib' = 1  BY <1>1, <1>2, <1>3 DEF Same
<1>10. QED  BY <1>5, <1>6, <1>7, <1>8, <1>9 DEF Between

\* A validated module is given to the linker or is the one to write.
LEMMA ValidateStep ==
  ASSUME ReadInv, WorkInv, Validate
  PROVE  WorkInv'
<1>1. AtValidate /\ arg > Len(argv)  BY DEF Validate, WorkInv, ReadInv
<1>2. UNCHANGED <<command, reading>> /\ built' = built /\ UNCHANGED <<lib, disk>>  BY DEF Validate
<1>3. CASE Fail("validate", 1)  BY <1>3, Stops DEF Fail, Exit
<1>4. CASE Mode = "link" /\ inputs' = Append(inputs, built) /\ unit' = unit + 1 /\ pc' = "open"
  <2>1. ~IsObject(Input)  BY <1>1, <1>4 DEF AtValidate, AtUnit, Loads
  <2>2. built = LinkedAs(Input)  BY <1>1, <2>1 DEF AtValidate, LinkedAs
  <2>3. Between'  BY <1>1, <1>2, <1>4, <2>2, OneMoreInput DEF AtValidate, AtUnit
  <2>4. QED  BY <1>4, <2>3 DEF WorkInv
<1>5. CASE Mode # "link" /\ UNCHANGED <<unit, inputs>> /\ pc' = "write"
  <2>1. AtUnit' /\ Input' = Input /\ Same
    <3>1. AtUnit /\ UNCHANGED <<unit, lib, inputs, disk>>  BY <1>1, <1>2, <1>5 DEF AtValidate
    <3>2. QED  BY <1>2, <3>1, SameUnit
  <2>2. Mode' # "link" /\ Mode' # "-E"  BY <1>1, <1>5, <2>1 DEF Same, AtValidate
  <2>3. ContentFor(Input)' = ContentFor(Input)  BY <2>1 DEF Same, ContentFor
  <2>4. Encoded(built)' = Encoded(built)  BY <1>2, <2>1 DEF Same, Encoded
  <2>5. Encoded(built) = ContentFor(Input)  BY <1>1 DEF AtValidate, ContentFor
  <2>6. AtWrite'  BY <2>1, <2>2, <2>3, <2>4, <2>5 DEF AtWrite
  <2>7. QED  BY <1>5, <2>6 DEF WorkInv
<1>6. QED  BY <1>3, <1>4, <1>5 DEF Validate, Continue

\* What is written for a source is no source that is still to be read.
LEMMA OutputIsNoInput ==
  ASSUME ReadInv, arg > Len(argv), ~Refused, Mode \notin {"link", "-E"}, NEW k \in DOMAIN Files, NEW j \in DOMAIN Files,
         k > j
  PROVE  OutputFor(Files[j]) # Files[k]
<1>1. /\ DOMAIN Files = 1 .. Len(Files) /\ Len(Files) \in Nat
      /\ Files[j] \in [opt : STRING, base : STRING, ext : STRING]
  <2>1. DOMAIN Files = 1 .. Len(Files) /\ Len(Files) \in Nat /\ Files[j] \in Sources(argv)  BY FilesType
  <2>2. Files[j] \in Words  BY <2>1 DEF Sources
  <2>3. QED  BY <2>1, <2>2 DEF Words
<1>2. Len(args.inputs) # 1
  <2>1. PICK n : n = Len(Files)  OBVIOUS
  <2>2. n \in Nat /\ k \in 1 .. n /\ j \in 1 .. n  BY <1>1, <2>1
  <2>3. n # 1  BY <2>2
  <2>4. QED  BY <2>1, <2>3 DEF Files
<1>3. Mode \in {"-c", "-ffreestanding"} /\ args.out = Empty /\ ~IsObject(Files[k])
  BY <1>2 DEF Refused, Mode, Files
<1>4. PICK e \in {".o", ".wasm"} : OutputFor(Files[j]) = [Files[j] EXCEPT !.ext = e]
  BY <1>3 DEF OutputFor
<1>5. PICK f, g : f = Files[j] /\ g = [f EXCEPT !.ext = e]  OBVIOUS
<1>6. DOMAIN f = {"opt", "base", "ext"}
  <2>1. f \in [opt : STRING, base : STRING, ext : STRING]  BY <1>1, <1>5
  <2>2. QED  BY <2>1
<1>7. g.ext = e  BY <1>5, <1>6
<1>8. Files[k].ext # e  BY <1>3 DEF IsObject
<1>9. QED  BY <1>4, <1>5, <1>7, <1>8

\* A file written for one input leaves those of the other inputs, and the inputs still to be read.
LEMMA WriteObjectStep ==
  ASSUME ReadInv, WorkInv, WriteObject
  PROVE  WorkInv'
<1>1. AtUnit /\ Mode \notin {"link", "-E"} /\ Encoded(built) = ContentFor(Input) /\ arg > Len(argv)
  BY DEF WriteObject, WorkInv, AtWrite, ReadInv
<1>2. UNCHANGED <<command, reading>> /\ UNCHANGED <<lib, inputs>>  BY DEF WriteObject, linking
<1>3. Same  BY <1>2, Steady
<1>4. DOMAIN Files = 1 .. Len(Files) /\ Len(Files) \in Nat  BY <1>1, FilesType
<1>5. /\ unit \in Nat /\ unit >= 1 /\ unit <= Len(Files) /\ lib = 1 /\ ~Refused /\ Remaining /\ Produced
      /\ unit \in DOMAIN Files
  BY <1>1, <1>4 DEF AtUnit, Between
<1>6. CASE Fail("write", 1)  BY <1>6, Stops DEF Fail, Exit
<1>7. CASE disk' = Written(OutFile, Encoded(built)) /\ unit' = unit + 1 /\ pc' = "open"
  <2>1. PICK o, c : o = OutputFor(Files[unit]) /\ c = ContentFor(Files[unit])  OBVIOUS
  <2>2. disk' = Written(o, c)
    <3>1. OutFile = o  BY <2>1 DEF OutFile, OutputFor, Input, Files
    <3>2. Encoded(built) = c  BY <1>1, <2>1 DEF Input, Files
    <3>3. QED  BY <1>7, <3>1, <3>2
  <2>3. /\ DOMAIN disk' = DOMAIN disk \cup {o} /\ disk'[o] = c
        /\ \A g \in DOMAIN disk : g # o => disk'[g] = disk[g]
    <3>1. PICK d : d = Written(o, c)  OBVIOUS
    <3>2. DOMAIN d = DOMAIN disk \cup {o} /\ d[o] = c /\ \A g \in DOMAIN disk : g # o => d[g] = disk[g]
      BY <3>1 DEF Written
    <3>3. disk' = d  BY <2>2, <3>1
    <3>4. QED  BY <3>2, <3>3
  <2>4. Remaining'
    <3>1. ASSUME NEW k \in DOMAIN Files, k >= unit + 1 PROVE OnDisk(Files[k], Given(Files[k]))'
      <4>1. k \in Nat /\ k > unit /\ k >= unit  BY <3>1, <1>4, <1>5
      <4>2. OnDisk(Files[k], Given(Files[k]))  BY <4>1, <1>5 DEF Remaining
      <4>3. Files[k] # o  BY <4>1, <1>1, <1>5, <2>1, OutputIsNoInput
      <4>4. Files[k] \in DOMAIN disk' /\ disk'[Files[k]] = Given(Files[k])  BY <4>2, <4>3, <2>3 DEF OnDisk
      <4>5. Files' = Files  BY <1>3 DEF Same
      <4>6. QED  BY <4>4, <4>5 DEF OnDisk, Given
    <3>2. QED  BY <1>3, <1>7, <3>1 DEF Remaining, Same, OnDisk
  <2>5. Produced'
    <3>1. SUFFICES ASSUME Apart, NEW k \in DOMAIN Files, k < unit + 1
                   PROVE  OutputFor(Files[k]) \in DOMAIN disk' /\ disk'[OutputFor(Files[k])] = ContentFor(Files[k])
      BY <1>3, <1>7 DEF Produced, Same, OnDisk
    <3>2. CASE OutputFor(Files[k]) = o
      <4>1. ContentFor(Files[k]) = c  BY <1>5, <2>1, <3>1, <3>2 DEF Apart
      <4>2. QED  BY <2>3, <3>2, <4>1
    <3>3. CASE OutputFor(Files[k]) # o
      <4>1. k # unit  BY <2>1, <3>3
      <4>2. k < unit  BY <1>4, <1>5, <3>1, <4>1
      <4>3. OnDisk(OutputFor(Files[k]), ContentFor(Files[k]))  BY <1>1, <1>5, <3>1, <4>2 DEF Produced
      <4>4. QED  BY <2>3, <3>3, <4>3 DEF OnDisk
    <3>4. QED  BY <3>2, <3>3
  <2>6. Mode' \notin {"link", "-E"} /\ ~Refused' /\ Len(Files') = Len(Files)  BY <1>1, <1>3, <1>5 DEF Same
  <2>7. unit' \in Nat /\ unit' >= 1 /\ unit' <= Len(Files') + 1 /\ lib' = 1  BY <1>2, <1>4, <1>5, <1>7, <2>6
  <2>8. Between'  BY <2>4, <2>5, <2>6, <2>7 DEF Between
  <2>9. QED  BY <1>7, <2>8 DEF WorkInv
<1>8. QED  BY <1>6, <1>7 DEF WriteObject, Continue

\* After the last unit every file is there.
LEMMA AllWrittenStep ==
  ASSUME ReadInv, WorkInv, AllWritten
  PROVE  WorkInv'
<1>1. Between /\ unit > Len(Files) /\ Mode # "link" /\ arg > Len(argv)  BY DEF AllWritten, WorkInv, Files, ReadInv
<1>2. UNCHANGED <<command, reading>> /\ UNCHANGED <<unit, lib, inputs, disk>> /\ pc' = "done"
  BY DEF AllWritten, linking, Exit
<1>3. Same  BY <1>2, Steady
<1>4. DOMAIN Files = 1 .. Len(Files) /\ Len(Files) \in Nat  BY <1>1, FilesType
<1>5. unit \in Nat /\ ~Refused /\ Produced /\ (Mode = "-E" => unit = 1)  BY <1>1 DEF Between
<1>6. Mode # "-E"
  <2>1. Mode = "-E" => Len(args.inputs) = 1  BY <1>5 DEF Refused
  <2>2. QED  BY <1>1, <1>5, <2>1 DEF Files
<1>7. Apart => \A k \in DOMAIN Files : OnDisk(OutputFor(Files[k]), ContentFor(Files[k]))
  <2>1. \A k \in DOMAIN Files : k < unit  BY <1>1, <1>4, <1>5
  <2>2. QED  BY <1>1, <1>5, <1>6, <2>1 DEF Produced
<1>8. Final  BY <1>1, <1>5, <1>6, <1>7 DEF Final
<1>9. Final'
  <2>1. Mode' \notin {"link", "-E"} /\ ~Refused'  BY <1>1, <1>3, <1>5, <1>6 DEF Same
  <2>2. Apart' => (\A k \in DOMAIN Files : OnDisk(OutputFor(Files[k]), ContentFor(Files[k])))'
    BY <1>2, <1>3, <1>7 DEF Same, OnDisk
  <2>3. QED  BY <2>1, <2>2 DEF Final
<1>10. QED  BY <1>2, <1>9 DEF WorkInv

\* An object is given to the linker as it is on disk.
LEMMA LoadStep ==
  ASSUME ReadInv, WorkInv, LoadObject
  PROVE  WorkInv'
<1>1. Between /\ unit <= Len(Files) /\ Mode = "link" /\ IsObject(Input) /\ arg > Len(argv)
  BY DEF LoadObject, WorkInv, Loads, Files, ReadInv
<1>2. UNCHANGED <<command, reading>> /\ UNCHANGED <<lib, disk>>  BY DEF LoadObject
<1>3. CASE Fail("object", 1)  BY <1>3, Stops DEF Fail, Exit
<1>4. CASE inputs' = Append(inputs, disk[Input]) /\ unit' = unit + 1 /\ pc' = "open"
  <2>1. DOMAIN Files = 1 .. Len(Files) /\ Len(Files) \in Nat  BY <1>1, FilesType
  <2>2. unit \in DOMAIN Files /\ unit >= unit  BY <1>1, <2>1 DEF Between
  <2>3. disk[Input] = LinkedAs(Input)
    BY <1>1, <2>2 DEF Between, Remaining, OnDisk, Input, Files, LinkedAs
  <2>4. Between'  BY <1>1, <1>2, <1>4, <2>3, OneMoreInput
  <2>5. QED  BY <1>4, <2>4 DEF WorkInv
<1>5. QED
  <2>1. pc = "open"  BY DEF LoadObject
  <2>2. QED  BY <1>3, <1>4, <2>1 DEF LoadObject, Continue

\* One library more adds its archive at the end.
LEMMA ArchivesAppend ==
  ASSUME NEW K, K \subseteq Nat, IsFiniteSet(K), NEW i \in Nat, \A k \in K : k < i
  PROVE  Archives(K \cup {i}) = Append(Archives(K), Archived(i))
<1>1. PICK u, t : u = Upwards(K) /\ t = Append(u, i)  OBVIOUS
<1>2. Upwards(K \cup {i}) = t  BY <1>1, UpwardsAppend
<1>3. PICK c \in Nat : DOMAIN u = 1 .. c /\ Len(u) = c  BY <1>1, UpwardsType
<1>4. PICK S : u \in Seq(S)  BY <1>1, UpwardsType
<1>5. DOMAIN t = 1 .. c + 1 /\ t[c + 1] = i /\ \A n \in 1 .. c : t[n] = u[n]
  <2>1. PICK R : R = S \cup {i}  OBVIOUS
  <2>2. u \in Seq(R) /\ i \in R  BY <1>4, <2>1
  <2>3. t \in Seq(R) /\ Len(t) = c + 1 /\ t[c + 1] = i /\ \A n \in 1 .. c : t[n] = u[n]
    BY <2>2, <1>1, <1>3, AppendProperties
  <2>4. QED  BY <2>3
<1>6. PICK v, w, x : v = Archives(K) /\ w = Archives(K \cup {i}) /\ x = Archived(i)  OBVIOUS
<1>7. v = [n \in 1 .. c |-> Archived(u[n])]  BY <1>1, <1>3, <1>6 DEF Archives
<1>8. w = [n \in 1 .. c + 1 |-> Archived(t[n])]  BY <1>2, <1>5, <1>6 DEF Archives
<1>9. v = [n \in 1 .. c |-> v[n]] /\ w = [n \in 1 .. c + 1 |-> w[n]]  BY <1>7, <1>8
<1>10. \A n \in 1 .. c : w[n] = v[n]
  <2>1. SUFFICES ASSUME NEW n \in 1 .. c PROVE w[n] = v[n]  OBVIOUS
  <2>2. n \in 1 .. c + 1 /\ t[n] = u[n]  BY <1>3, <1>5
  <2>3. QED  BY <2>2, <1>7, <1>8
<1>11. w[c + 1] = x
  <2>1. c + 1 \in 1 .. c + 1  BY <1>3
  <2>2. QED  BY <2>1, <1>5, <1>6, <1>8
<1>12. GoesOn(v, w, c)  BY <1>9, <1>10 DEF GoesOn
<1>13. w = Append(v, x)  BY <1>11, <1>12, AppendOf
<1>14. QED  BY <1>6, <1>13

\* No libraries have no archives.
LEMMA NoArchives == Archives({}) = <<>>
BY NoUpwards DEF Archives

\* Values and Archives are sequences.
LEMMA ValuesSeq ==
  ASSUME NEW l, NEW K, K \subseteq Nat, IsFiniteSet(K)
  PROVE  \E S : Values(l, K) \in Seq(S)
<1>1. PICK u : u = Upwards(K)  OBVIOUS
<1>2. PICK c \in Nat : DOMAIN u = 1 .. c  BY <1>1, UpwardsType
<1>3. PICK v : v = Values(l, K)  OBVIOUS
<1>4. v = [n \in 1 .. c |-> Value(l, u[n])]  BY <1>1, <1>2, <1>3 DEF Values
<1>5. v \in Seq({Value(l, u[n]) : n \in 1 .. c})  BY <1>4
<1>6. QED  BY <1>3, <1>5

\* The archives of libraries are a sequence.
LEMMA ArchivesSeq ==
  ASSUME NEW K, K \subseteq Nat, IsFiniteSet(K)
  PROVE  \E S : Archives(K) \in Seq(S)
<1>1. PICK u : u = Upwards(K)  OBVIOUS
<1>2. PICK c \in Nat : DOMAIN u = 1 .. c  BY <1>1, UpwardsType
<1>3. PICK v : v = Archives(K)  OBVIOUS
<1>4. v = [n \in 1 .. c |-> Archived(u[n])]  BY <1>1, <1>2, <1>3 DEF Archives
<1>5. v \in Seq({Archived(u[n]) : n \in 1 .. c})  BY <1>4
<1>6. QED  BY <1>3, <1>5

\* The libraries of the link are a sequence.
LEMMA LibrariesType ==
  ASSUME ReadInv, arg > Len(argv)
  PROVE  Len(Libraries) \in Nat /\ DOMAIN Libraries = 1 .. Len(Libraries)
<1>1. PICK K : K = Named(argv, {"-l"})  OBVIOUS
<1>2. args.libs = Values(argv, K)  BY <1>1, AllRead DEF AsSaid
<1>3. K \subseteq Nat /\ IsFiniteSet(K)
  <2>1. Len(argv) \in Nat /\ DOMAIN argv = 1 .. Len(argv)  BY LineType DEF ReadInv
  <2>2. K \subseteq DOMAIN argv  BY <1>1 DEF Named, Uses, Heads
  <2>3. K \subseteq 1 .. Len(argv)  BY <2>1, <2>2
  <2>4. IsFiniteSet(1 .. Len(argv))  BY <2>1, FS_Interval
  <2>5. IsFiniteSet(K)  BY <2>3, <2>4, FS_Subset
  <2>6. \A k \in K : k \in Nat  BY <2>1, <2>3
  <2>7. QED  BY <2>5, <2>6
<1>4. PICK S : args.libs \in Seq(S)  BY <1>2, <1>3, ValuesSeq
<1>5. PICK a, b, R : a = args.libs /\ b = (IF "-nostdlib" \in args.flags THEN <<>> ELSE <<C>>) /\ R = S \cup {C}
  OBVIOUS
<1>6. a \in Seq(R) /\ b \in Seq(R)
  <2>1. a \in Seq(S) /\ S \subseteq R /\ C \in R  BY <1>4, <1>5
  <2>2. a \in Seq(R)  BY <2>1
  <2>3. PICK c \in R : c = C  BY <2>1
  <2>4. <<>> \in Seq(R) /\ <<c>> \in Seq(R)  OBVIOUS
  <2>5. b = <<>> \/ b = <<c>>  BY <1>5, <2>3
  <2>6. QED  BY <2>2, <2>4, <2>5
<1>7. a \o b \in Seq(R)  BY <1>6
<1>8. Libraries = a \o b  BY <1>5 DEF Libraries
<1>9. Libraries \in Seq(R)  BY <1>7, <1>8
<1>10. QED  BY <1>9, LenProperties

\* The inputs of the link, one library later.
LEMMA InputsNext ==
  ASSUME ReadInv, arg > Len(argv), NEW n \in 1 .. Len(Libraries)
  PROVE  InputsBefore(n + 1) = IF n \in Findable THEN Append(InputsBefore(n), Archived(n)) ELSE InputsBefore(n)
<1>1. Len(Libraries) \in Nat /\ Findable \subseteq 1 .. Len(Libraries) /\ n \in Nat
  <2>1. Len(Libraries) \in Nat /\ DOMAIN Libraries = 1 .. Len(Libraries)  BY LibrariesType
  <2>2. QED  BY <2>1 DEF Findable
<1>2. PICK B : B = Before(Findable, n)  OBVIOUS
<1>3. \A k \in Findable : k \in Nat  BY <1>1
<1>4. B \subseteq Nat /\ \A k \in B : k < n  BY <1>2, <1>3 DEF Before
<1>5. IsFiniteSet(B)
  <2>1. B \subseteq 1 .. Len(Libraries)  BY <1>1, <1>2 DEF Before
  <2>2. IsFiniteSet(1 .. Len(Libraries))  BY <1>1, FS_Interval
  <2>3. QED  BY <2>1, <2>2, FS_Subset
<1>6. Before(Findable, n + 1) = IF n \in Findable THEN B \cup {n} ELSE B
  <2>1. \A k \in Findable : k < n + 1 <=> k < n \/ k = n  BY <1>1, <1>3
  <2>2. \A k : k \in Before(Findable, n + 1) <=> k \in B \/ (k = n /\ n \in Findable)
    BY <1>2, <2>1 DEF Before
  <2>3. CASE n \in Findable  BY <2>2, <2>3
  <2>4. CASE n \notin Findable  BY <2>2, <2>4
  <2>5. QED  BY <2>3, <2>4
<1>7. PICK s : s = [k \in DOMAIN Files |-> LinkedAs(Files[k])]  OBVIOUS
<1>8. InputsBefore(n) = s \o Archives(B)  BY <1>2, <1>7 DEF InputsBefore
<1>9. CASE n \in Findable
  <2>1. PICK a, x : a = Archives(B) /\ x = Archived(n)  OBVIOUS
  <2>2. Archives(B \cup {n}) = Append(a, x)
    <3>1. Archives(B \cup {n}) = Append(Archives(B), Archived(n))  BY <1>1, <1>4, <1>5, ArchivesAppend
    <3>2. QED  BY <2>1, <3>1
  <2>3. InputsBefore(n + 1) = s \o Append(a, x)  BY <1>6, <1>7, <1>9, <2>2 DEF InputsBefore
  <2>4. PICK S : a \in Seq(S)  BY <1>4, <1>5, <2>1, ArchivesSeq
  <2>5. PICK m \in Nat : DOMAIN Files = 1 .. m  BY FilesType
  <2>6. PICK R : R = {s[k] : k \in 1 .. m} \cup S \cup {x}  OBVIOUS
  <2>7. s \in Seq(R) /\ a \in Seq(R) /\ x \in R
    <3>1. s = [k \in 1 .. m |-> s[k]]  BY <1>7, <2>5
    <3>2. s \in Seq(R)  BY <2>6, <3>1
    <3>3. QED  BY <2>4, <2>6, <3>2
  <2>8. s \o Append(a, x) = Append(s \o a, x)
    <3>1. Append(a, x) = a \o <<x>> /\ <<x>> \in Seq(R)  BY <2>7, AppendIsConcat
    <3>2. s \o (a \o <<x>>) = (s \o a) \o <<x>>  BY <2>7, <3>1, ConcatAssociative
    <3>3. s \o a \in Seq(R)  BY <2>7, ConcatProperties
    <3>4. Append(s \o a, x) = (s \o a) \o <<x>>  BY <2>7, <3>3, AppendIsConcat
    <3>5. QED  BY <3>1, <3>2, <3>4
  <2>9. QED  BY <1>8, <1>9, <2>1, <2>3, <2>8
<1>10. CASE n \notin Findable  BY <1>2, <1>6, <1>10 DEF InputsBefore
<1>11. QED  BY <1>9, <1>10

\* After the last unit the linker has one input for each, and no archive yet.
LEMMA AllCompiledStep ==
  ASSUME ReadInv, WorkInv, AllCompiled
  PROVE  WorkInv'
<1>1. Between /\ unit > Len(Files) /\ Mode = "link" /\ arg > Len(argv)  BY DEF AllCompiled, WorkInv, Files, ReadInv
<1>2. UNCHANGED <<command, reading>> /\ UNCHANGED <<unit, lib, inputs, disk>> /\ pc' = "libraries"
  BY DEF AllCompiled, linking, Continue
<1>3. Same  BY <1>2, Steady
<1>4. DOMAIN Files = 1 .. Len(Files) /\ Len(Files) \in Nat  BY <1>1, FilesType
<1>5. Len(Libraries) \in Nat /\ DOMAIN Libraries = 1 .. Len(Libraries)  BY <1>1, LibrariesType
<1>6. unit - 1 = Len(Files) /\ lib = 1 /\ ~Refused /\ inputs = [k \in 1 .. unit - 1 |-> LinkedAs(Files[k])]
  BY <1>1, <1>4 DEF Between
<1>7. Before(Findable, 1) = {}
  <2>1. \A k \in Findable : ~(k < 1)  BY <1>5 DEF Findable
  <2>2. QED  BY <2>1 DEF Before
<1>8. inputs = InputsBefore(1)
  <2>1. PICK s : s = [k \in DOMAIN Files |-> LinkedAs(Files[k])]  OBVIOUS
  <2>2. inputs = s  BY <1>4, <1>6, <2>1
  <2>3. PICK m \in Nat : DOMAIN Files = 1 .. m  BY <1>4
  <2>4. s \in Seq({s[k] : k \in 1 .. m})
    <3>1. s = [k \in 1 .. m |-> s[k]]  BY <2>1, <2>3
    <3>2. QED  BY <3>1
  <2>5. s \o <<>> = s  BY <2>4, ConcatEmptySeq
  <2>6. InputsBefore(1) = s \o <<>>  BY <1>7, <2>1, NoArchives DEF InputsBefore
  <2>7. QED  BY <2>2, <2>5, <2>6
<1>9. AtLibraries  BY <1>1, <1>5, <1>6, <1>8 DEF AtLibraries
<1>10. AtLibraries'  BY <1>2, <1>3, <1>9, SamePlace
<1>11. QED  BY <1>2, <1>10 DEF WorkInv

\* A library found adds the first archive of its name on the search path.
LEMMA FindStep ==
  ASSUME ReadInv, WorkInv, FindLibrary
  PROVE  WorkInv'
<1>1. AtLibraries /\ lib <= Len(Libraries) /\ arg > Len(argv)  BY DEF FindLibrary, WorkInv, ReadInv
<1>2. UNCHANGED <<command, reading>>  BY DEF FindLibrary
<1>3. Same  BY <1>2, Steady
<1>4. Len(Libraries) \in Nat /\ DOMAIN Libraries = 1 .. Len(Libraries)  BY <1>1, LibrariesType
<1>5. lib \in 1 .. Len(Libraries) /\ lib \in Nat /\ inputs = InputsBefore(lib) /\ ~Refused /\ Mode = "link"
  BY <1>1, <1>4 DEF AtLibraries
<1>6. lib \in Findable <=> Holding(SearchPath(Sysroot), Libraries[lib]) # {}  BY <1>4, <1>5 DEF Findable
<1>7. ASSUME pc' = "libraries", lib' = lib + 1, inputs' = InputsBefore(lib + 1)
      PROVE  WorkInv'
  <2>1. InputsBefore(lib)' = InputsBefore(lib + 1)
    <3>1. PICK n : n = lib + 1  OBVIOUS
    <3>2. InputsBefore(n)' = InputsBefore(n)  BY <1>3 DEF Same
    <3>3. InputsBefore(lib)' = InputsBefore(n)'  BY <1>7, <3>1 DEF InputsBefore, Archives, Before
    <3>4. QED  BY <3>1, <3>2, <3>3
  <2>2. lib' \in Nat /\ lib' >= 1 /\ lib' <= Len(Libraries') + 1 /\ Mode' = "link" /\ ~Refused'
    BY <1>3, <1>4, <1>5, <1>7 DEF Same
  <2>3. AtLibraries'  BY <1>7, <2>1, <2>2 DEF AtLibraries
  <2>4. QED  BY <1>7, <2>3 DEF WorkInv
<1>8. CASE /\ Holding(SearchPath(Sysroot), Libraries[lib]) # {}
           /\ inputs' = Append(inputs, [kind |-> "archive", dir |-> ResolveLib(Libraries[lib]), name |-> Libraries[lib]])
           /\ lib' = lib + 1 /\ pc' = "libraries"
  <2>1. inputs' = Append(InputsBefore(lib), Archived(lib))  BY <1>5, <1>8 DEF Archived
  <2>2. inputs' = InputsBefore(lib + 1)  BY <1>1, <1>5, <1>6, <1>8, <2>1, InputsNext
  <2>3. QED  BY <1>7, <1>8, <2>2
<1>9. CASE /\ Holding(SearchPath(Sysroot), Libraries[lib]) = {}
           /\ inputs' = inputs /\ lib' = lib + 1 /\ pc' = "libraries"
  <2>1. inputs' = InputsBefore(lib + 1)  BY <1>1, <1>5, <1>6, <1>9, InputsNext
  <2>2. QED  BY <1>7, <1>9, <2>1
<1>10. CASE Fail("library", 1)  BY <1>10, Stops DEF Fail, Exit
<1>11. QED
  <2>1. pc = "libraries"  BY DEF FindLibrary
  <2>2. QED  BY <2>1, <1>8, <1>9, <1>10 DEF FindLibrary, Continue

\* A linker's log without an error says that nothing failed.
LEMMA NothingFailed ==
  ASSUME unit \in Nat, NEW merged \in BOOLEAN, NEW resolved \in BOOLEAN, NEW opens \in BOOLEAN,
         ~HasError(Unless(merged, "merge") \o Unless(resolved, "symbols") \o Unless(opens, "map"))
  PROVE  merged /\ opens
<1>1. "merge" \in Phases /\ "symbols" \in Phases /\ "map" \in Phases  BY DEF Phases
<1>2. PICK a, b, c : a = Unless(merged, "merge") /\ b = Unless(resolved, "symbols") /\ c = Unless(opens, "map")
  OBVIOUS
<1>3. a \in Seq(Errors) /\ b \in Seq(Errors) /\ c \in Seq(Errors)  BY <1>1, <1>2, UnlessType
<1>4. \A e \in Errors : e \in Diagnostics /\ e.severity = "error"  BY DEF Errors
<1>5. a \in Seq(Diagnostics) /\ b \in Seq(Diagnostics) /\ c \in Seq(Diagnostics)  BY <1>3, <1>4
<1>6. a \o b \in Seq(Diagnostics)  BY <1>5
<1>7. ~HasError(a) /\ ~HasError(c)
  <2>1. ~HasError(a \o b \o c)  BY <1>2
  <2>2. ~HasError(a \o b) /\ ~HasError(c)  BY <1>5, <1>6, <2>1, ErrorInEither
  <2>3. QED  BY <1>5, <2>2, ErrorInEither
<1>8. ASSUME NEW p \in Phases PROVE HasError(<<Diagnostic(p, "error")>>)
  <2>1. "error" \in Severities  BY DEF Severities
  <2>2. Diagnostic(p, "error") \in Diagnostics /\ Diagnostic(p, "error").severity = "error"
    BY <2>1, DiagnosticType
  <2>3. QED  BY <2>2, ErrorOfOne
<1>9. ~merged => HasError(a)  BY <1>1, <1>2, <1>8 DEF Unless
<1>10. ~opens => HasError(c)  BY <1>1, <1>2, <1>8 DEF Unless
<1>11. QED  BY <1>7, <1>9, <1>10

\* Without an error the linker has all inputs and has written the map that was asked for.
LEMMA LinkStep ==
  ASSUME Reports, ReadInv, WorkInv, Link
  PROVE  WorkInv'
<1>1. AtLibraries /\ lib > Len(Libraries) /\ arg > Len(argv)  BY DEF Link, WorkInv, ReadInv
<1>2. UNCHANGED <<command, reading>> /\ unit' = unit /\ lib' = lib /\ inputs' = inputs /\ pc' = "log"
  BY DEF Link, Continue
<1>3. Same  BY <1>2, Steady
<1>4. Len(Libraries) \in Nat  BY <1>1, LibrariesType
<1>5. Gathered
  <2>1. lib = Len(Libraries) + 1  BY <1>1, <1>4 DEF AtLibraries
  <2>2. QED  BY <1>1, <2>1 DEF AtLibraries, Gathered
<1>6. Gathered'
  <2>1. InputsBefore(Len(Libraries) + 1)' = InputsBefore(Len(Libraries) + 1)
    BY <1>3 DEF Same, InputsBefore, Archives
  <2>2. QED  BY <1>2, <1>3, <1>5, <2>1 DEF Gathered, Same
<1>7. PICK merged, resolved, opens \in BOOLEAN :
        /\ log' = Unless(merged, "merge") \o Unless(resolved, "symbols") \o Unless(opens, "map")
        /\ disk' = IF merged /\ opens /\ args.map # Empty THEN Written(args.map, Map(inputs)) ELSE disk
  BY DEF Link
<1>8. ASSUME ~HasError(log'), args.map # Empty PROVE args.map \in DOMAIN disk' /\ disk'[args.map] = Map(inputs)
  <2>1. unit \in Nat  BY DEF Reports
  <2>2. PICK e : e = Unless(merged, "merge") \o Unless(resolved, "symbols") \o Unless(opens, "map")  OBVIOUS
  <2>3. log' = e  BY <1>7, <2>2
  <2>4. ~HasError(e)  BY <1>8, <2>3 DEF HasError
  <2>5. merged /\ opens  BY <2>1, <2>2, <2>4, NothingFailed
  <2>6. PICK d : d = Written(args.map, Map(inputs))  OBVIOUS
  <2>7. args.map \in DOMAIN d /\ d[args.map] = Map(inputs)  BY <2>6 DEF Written
  <2>8. disk' = d  BY <1>7, <1>8, <2>5, <2>6
  <2>9. QED  BY <2>7, <2>8
<1>9. ~HasError(log') => Mapped'
  <2>1. Map(inputs)' = Map(inputs)  BY <1>2, <1>3 DEF Same, Map, Linked
  <2>2. args' = args  BY <1>3 DEF Same
  <2>3. QED  BY <1>8, <2>1, <2>2 DEF Mapped, OnDisk
<1>10. ~HasError(log)' => Mapped'  BY <1>9 DEF HasError
<1>11. QED  BY <1>2, <1>6, <1>10 DEF WorkInv

\* Showing the log makes nothing.
LEMMA ShowLogStep ==
  ASSUME ReadInv, WorkInv, ShowLog
  PROVE  WorkInv'
<1>1. Gathered /\ (~HasError(log) => Mapped)  BY DEF ShowLog, WorkInv
<1>2. UNCHANGED <<command, reading>> /\ UNCHANGED <<unit, lib, inputs, disk>>  BY DEF ShowLog, linking
<1>3. Same  BY <1>2, Steady
<1>4. CASE HasError(log)
  <2>1. pc' = "done" /\ status' = 1  BY <1>4 DEF ShowLog, Exit
  <2>2. QED  BY <2>1, Stops
<1>5. CASE ~HasError(log)
  <2>1. pc' = "check"  BY <1>5 DEF ShowLog, Continue
  <2>2. Gathered' /\ Mapped'  BY <1>1, <1>2, <1>3, <1>5, SamePlace
  <2>3. QED  BY <2>1, <2>2 DEF WorkInv
<1>6. QED  BY <1>4, <1>5

\* Validating the program makes nothing.
LEMMA ValidateProgramStep ==
  ASSUME ReadInv, WorkInv, ValidateProgram
  PROVE  WorkInv'
<1>1. Gathered /\ Mapped  BY DEF ValidateProgram, WorkInv
<1>2. UNCHANGED <<command, reading>> /\ UNCHANGED <<unit, lib, inputs, disk>>  BY DEF ValidateProgram, linking
<1>3. Same  BY <1>2, Steady
<1>4. CASE Fail("validate", 1)  BY <1>4, Stops DEF Fail, Exit
<1>5. CASE pc' = "write"
  <2>1. Gathered' /\ Mapped'  BY <1>1, <1>2, <1>3, SamePlace
  <2>2. Mode' = "link"  BY <1>1, <1>3 DEF Same, Gathered
  <2>3. QED  BY <1>5, <2>1, <2>2 DEF WorkInv, AtWrite
<1>6. QED  BY <1>4, <1>5 DEF ValidateProgram, Continue

\* The program written is linked from all inputs, and leaves the map.
LEMMA WriteProgramStep ==
  ASSUME ReadInv, WorkInv, WriteProgram
  PROVE  WorkInv'
<1>1. Gathered /\ Mapped /\ Mode = "link"  BY DEF WriteProgram, WorkInv, AtWrite
<1>2. UNCHANGED <<command, reading>> /\ inputs' = inputs  BY DEF WriteProgram, linking
<1>3. Same  BY <1>2, Steady
<1>4. CASE Fail("write", 1)  BY <1>4, Stops DEF Fail, Exit
<1>5. CASE disk' = Written(Target, Linked(inputs)) /\ pc' = "done"
  <2>1. PICK t, c, d : t = Target /\ c = Linked(inputs) /\ d = Written(t, c)  OBVIOUS
  <2>2. /\ DOMAIN d = DOMAIN disk \cup {t} /\ d[t] = c
        /\ \A g \in DOMAIN disk : g # t => d[g] = disk[g]
    BY <2>1 DEF Written
  <2>3. disk' = d  BY <1>5, <2>1
  <2>4. Target' = t /\ Linked(inputs)' = c /\ Map(inputs)' = Map(inputs) /\ args' = args
    BY <1>2, <1>3, <2>1 DEF Same, Linked, Map
  <2>5. OnDisk(Target, Linked(inputs))'  BY <2>2, <2>3, <2>4 DEF OnDisk
  <2>6. args'.map # Target' => Mapped'
    <3>1. SUFFICES ASSUME args.map # t, args.map # Empty
                   PROVE  args.map \in DOMAIN d /\ d[args.map] = Map(inputs)
      BY <2>3, <2>4 DEF Mapped, OnDisk
    <3>2. args.map \in DOMAIN disk /\ disk[args.map] = Map(inputs)  BY <1>1, <3>1 DEF Mapped, OnDisk
    <3>3. QED  BY <2>2, <3>1, <3>2
  <2>7. Gathered'
    <3>1. InputsBefore(Len(Libraries) + 1)' = InputsBefore(Len(Libraries) + 1)
      BY <1>3 DEF Same, InputsBefore, Archives
    <3>2. QED  BY <1>1, <1>2, <1>3, <3>1 DEF Gathered, Same
  <2>8. Mode' = "link" /\ ~Refused'  BY <1>1, <1>3 DEF Same, Gathered
  <2>9. Final'  BY <2>5, <2>6, <2>7, <2>8 DEF Final
  <2>10. QED  BY <1>5, <2>9 DEF WorkInv
<1>6. QED  BY <1>4, <1>5 DEF WriteProgram, Exit

\* Reading the command line makes nothing.
LEMMA ReadingSteps ==
  ASSUME ReadInv, WorkInv, ReadArgument \/ LastArgumentAwaits \/ ShowHelp
  PROVE  WorkInv'
<1>1. AtStart /\ argv' = argv  BY DEF ReadArgument, LastArgumentAwaits, ShowHelp, WorkInv, command
<1>2. unit' = unit /\ lib' = lib /\ inputs' = inputs /\ disk' = disk
  BY DEF ReadArgument, LastArgumentAwaits, ShowHelp, linking
<1>3. AtStart'  BY <1>1, <1>2 DEF AtStart, InitDisk
<1>4. CASE pc' = "arguments"  BY <1>3, <1>4 DEF WorkInv
<1>5. CASE LastArgumentAwaits /\ pc' # "arguments"
  <2>1. pc' = "done" /\ status' = 2  BY <1>5 DEF LastArgumentAwaits, Fail, Exit, Continue
  <2>2. QED  BY <2>1, Stops
<1>6. CASE ShowHelp
  <2>1. pc' = "done" /\ arg' = arg /\ arg <= Len(argv)  BY <1>6 DEF ShowHelp, Exit, reading
  <2>2. Len(argv) \in Nat /\ arg \in Nat  BY LineType DEF ReadInv
  <2>3. ~(arg' > Len(argv'))  BY <1>1, <2>1, <2>2
  <2>4. QED  BY <2>1, <2>3 DEF WorkInv
<1>7. CASE ReadArgument  BY <1>4, <1>7 DEF ReadArgument
<1>8. QED  BY <1>4, <1>5, <1>6, <1>7

\* The phases start with nothing made.
LEMMA WorkStart == Init => WorkInv
<1> SUFFICES ASSUME Init PROVE WorkInv  OBVIOUS
<1>1. pc = "arguments" /\ AtStart  BY DEF Init, AtStart, InitDisk
<1>2. QED  BY <1>1 DEF WorkInv

\* Every step keeps the account of what is made: one case per action.
LEMMA WorkStep ==
  ASSUME Reports, ReadInv, WorkInv, [Next]_vars
  PROVE  WorkInv'
<1>1. CASE ReadArgument \/ LastArgumentAwaits \/ ShowHelp  BY <1>1, ReadingSteps
<1>2. CASE SelectMode  BY <1>2, SelectStep
<1>3. CASE OpenSource  BY <1>3, OpenStep
<1>4. CASE Preprocess  BY <1>4, PreprocessStep
<1>5. CASE Parse  BY <1>5, ParseStep
<1>6. CASE RunSemantic  BY <1>6, SemanticStep
<1>7. CASE Generate  BY <1>7, GenerateStep
<1>8. CASE Validate  BY <1>8, ValidateStep
<1>9. CASE WriteObject  BY <1>9, WriteObjectStep
<1>10. CASE AllWritten  BY <1>10, AllWrittenStep
<1>11. CASE LoadObject  BY <1>11, LoadStep
<1>12. CASE AllCompiled  BY <1>12, AllCompiledStep
<1>13. CASE FindLibrary  BY <1>13, FindStep
<1>14. CASE Link  BY <1>14, LinkStep
<1>15. CASE ShowLog  BY <1>15, ShowLogStep
<1>16. CASE ValidateProgram  BY <1>16, ValidateProgramStep
<1>17. CASE WriteProgram  BY <1>17, WriteProgramStep
<1>18. CASE UNCHANGED vars  BY <1>18, Stays
<1>19. CASE Ended  BY <1>18, <1>19 DEF Ended
<1>20. QED
  BY <1>1, <1>2, <1>3, <1>4, <1>5, <1>6, <1>7, <1>8, <1>9, <1>10, <1>11, <1>12, <1>13, <1>14, <1>15, <1>16, <1>17,
     <1>18, <1>19 DEF Next

-----------------------------------------------------------------------------
(* What the phases spare. *)

\* Each source is still what was given, unless the command line names it as a file to write.
Spared(f) == f \in {args.out, args.map} \/ (f = Word("a", ".wasm") /\ Mode = "link")
KeptInv ==
  \/ disk = InitDisk
  \/ /\ arg > Len(argv)
     /\ \A k \in DOMAIN Files :
          OnDisk(Files[k], Given(Files[k])) \/ (Files[k] \in DOMAIN disk /\ Spared(Files[k]))

\* That holds for each input once all words are read.
LEMMA KeptFiles ==
  ASSUME ReadInv, arg > Len(argv), KeptInv, NEW k \in DOMAIN Files
  PROVE  OnDisk(Files[k], Given(Files[k])) \/ (Files[k] \in DOMAIN disk /\ Spared(Files[k]))
<1>1. Files[k] \in Sources(argv)  BY FilesType
<1>2. CASE disk = InitDisk  BY <1>1, <1>2, SourceOnDisk
<1>3. QED  BY <1>2 DEF KeptInv

\* At the start nothing is written.
LEMMA KeptStart == Init => KeptInv
BY DEF Init, KeptInv, InitDisk

\* A step that writes no file.
LEMMA KeptSilent ==
  ASSUME KeptInv, UNCHANGED disk, UNCHANGED <<command, reading>>
  PROVE  KeptInv'
<1>1. Same  BY Steady
<1>2. argv' = argv /\ arg' = arg /\ args' = args /\ disk' = disk  BY DEF command, reading
<1>3. InitDisk' = InitDisk  BY <1>2 DEF InitDisk, Given
<1>4. \A f : Spared(f)' <=> Spared(f)  BY <1>1, <1>2 DEF Spared, Same
<1>5. \A f, c : OnDisk(f, c)' <=> OnDisk(f, c)  BY <1>2 DEF OnDisk
<1>6. CASE disk = InitDisk  BY <1>2, <1>3, <1>6 DEF KeptInv
<1>7. CASE disk # InitDisk
  <2>1. \A k \in DOMAIN Files : OnDisk(Files[k], Given(Files[k])) \/ (Files[k] \in DOMAIN disk /\ Spared(Files[k]))
    BY <1>7 DEF KeptInv
  <2>2. (\A k \in DOMAIN Files : OnDisk(Files[k], Given(Files[k])) \/ (Files[k] \in DOMAIN disk /\ Spared(Files[k])))'
    BY <1>1, <1>2, <1>4, <1>5, <2>1 DEF Same, OnDisk, Spared
  <2>3. arg' > Len(argv')  BY <1>2, <1>7 DEF KeptInv
  <2>4. QED  BY <2>2, <2>3 DEF KeptInv
<1>8. QED  BY <1>6, <1>7

\* A step that writes a file which is no input, or one the command line spares.
LEMMA KeptWriting ==
  ASSUME ReadInv, arg > Len(argv), KeptInv, UNCHANGED <<command, reading>>, NEW o, NEW c, disk' = Written(o, c),
         \A k \in DOMAIN Files : Files[k] = o => Spared(o)
  PROVE  KeptInv'
<1>1. Same  BY Steady
<1>2. argv' = argv /\ arg' = arg /\ args' = args  BY DEF command, reading
<1>3. PICK d : d = Written(o, c)  OBVIOUS
<1>4. disk' = d /\ DOMAIN d = DOMAIN disk \cup {o} /\ \A g \in DOMAIN disk : g # o => d[g] = disk[g]
  <2>1. DOMAIN d = DOMAIN disk \cup {o} /\ \A g \in DOMAIN disk : g # o => d[g] = disk[g]  BY <1>3 DEF Written
  <2>2. QED  BY <1>3, <2>1
<1>5. ASSUME NEW k \in DOMAIN Files
      PROVE  (Files[k] \in DOMAIN d /\ d[Files[k]] = Given(Files[k])) \/ (Files[k] \in DOMAIN d /\ Spared(Files[k]))
  <2>1. OnDisk(Files[k], Given(Files[k])) \/ (Files[k] \in DOMAIN disk /\ Spared(Files[k]))  BY KeptFiles
  <2>2. CASE Files[k] = o  BY <1>4, <2>2
  <2>3. CASE Files[k] # o  BY <1>4, <2>1, <2>3 DEF OnDisk
  <2>4. QED  BY <2>2, <2>3
<1>6. \A f : Spared(f)' <=> Spared(f)  BY <1>1, <1>2 DEF Spared, Same
<1>7. (\A k \in DOMAIN Files : OnDisk(Files[k], Given(Files[k])) \/ (Files[k] \in DOMAIN disk /\ Spared(Files[k])))'
  BY <1>1, <1>4, <1>5, <1>6 DEF Same, OnDisk, Spared, Given
<1>8. QED  BY <1>2, <1>7 DEF KeptInv

\* The object or the tree written for a source is no source, or the one file that -o names.
LEMMA KeptWriteObject ==
  ASSUME ReadInv, WorkInv, KeptInv, WriteObject
  PROVE  KeptInv'
<1>1. AtUnit /\ Mode \notin {"link", "-E"} /\ arg > Len(argv)  BY DEF WriteObject, WorkInv, AtWrite, ReadInv
<1>2. UNCHANGED <<command, reading>>  BY DEF WriteObject
<1>3. DOMAIN Files = 1 .. Len(Files) /\ Len(Files) \in Nat  BY <1>1, FilesType
<1>4. unit \in DOMAIN Files /\ ~Refused  BY <1>1, <1>3 DEF AtUnit, Between
<1>5. ASSUME NEW k \in DOMAIN Files
      PROVE  Files[k] \in [opt : STRING, base : STRING, ext : STRING] /\ Files[k].ext # "_ast.xml"
  <2>1. Files[k] \in Sources(argv)  BY <1>1, FilesType
  <2>2. Files[k] \in Words  BY <2>1 DEF Sources
  <2>3. QED  BY <2>2 DEF Words
<1>6. ASSUME NEW k \in DOMAIN Files, Files[k] = OutFile PROVE Spared(OutFile)
  <2>1. CASE Mode # "--ast" /\ args.out # Empty  BY <2>1 DEF OutFile, Spared
  <2>2. CASE Mode = "--ast" \/ args.out = Empty
    <3>1. PICK f, e : f = Input /\ e \in {"_ast.xml", ".wasm", ".o"} /\ OutFile = [f EXCEPT !.ext = e]
                      /\ (Mode = "--ast" => e = "_ast.xml") /\ (Mode # "--ast" => e # "_ast.xml")
      <4>1. PICK e : e = IF Mode = "--ast" THEN "_ast.xml" ELSE IF Mode = "-ffreestanding" THEN ".wasm" ELSE ".o"
        OBVIOUS
      <4>2. OutFile = [Input EXCEPT !.ext = e]
        <5>1. CASE Mode = "--ast"  BY <4>1, <5>1 DEF OutFile
        <5>2. CASE Mode # "--ast"
          <6>1. OutFile = [Input EXCEPT !.ext = IF Mode = "-ffreestanding" THEN ".wasm" ELSE ".o"]
            BY <2>2, <5>2 DEF OutFile
          <6>2. e = IF Mode = "-ffreestanding" THEN ".wasm" ELSE ".o"  BY <4>1, <5>2
          <6>3. QED  BY <6>1, <6>2
        <5>3. QED  BY <5>1, <5>2
      <4>3. e \in {"_ast.xml", ".wasm", ".o"} /\ (Mode = "--ast" => e = "_ast.xml") /\ (Mode # "--ast" => e # "_ast.xml")
        BY <4>1
      <4>4. QED  BY <4>2, <4>3
    <3>2. f \in [opt : STRING, base : STRING, ext : STRING]  BY <1>4, <1>5, <3>1 DEF Input, Files
    <3>3. PICK g : g = [f EXCEPT !.ext = e]  OBVIOUS
    <3>4. g.ext = e
      <4>1. DOMAIN f = {"opt", "base", "ext"}  BY <3>2
      <4>2. QED  BY <3>3, <4>1
    <3>5. Files[k].ext = e  BY <1>6, <3>1, <3>3, <3>4
    <3>6. e \in {".wasm", ".o"} /\ Mode # "--ast"  BY <1>5, <3>1, <3>5
    <3>7. ~IsObject(Files[k])
      <4>1. Mode \in {"-c", "-ffreestanding"}  BY <1>1, <3>6 DEF Mode
      <4>2. QED  BY <1>4, <4>1 DEF Refused, Files
    <3>8. QED  BY <3>5, <3>6, <3>7 DEF IsObject
  <2>3. QED  BY <2>1, <2>2
<1>7. CASE disk' = Written(OutFile, Encoded(built))
  <2>1. PICK o, c : o = OutFile /\ c = Encoded(built)  OBVIOUS
  <2>2. disk' = Written(o, c) /\ \A k \in DOMAIN Files : Files[k] = o => Spared(o)  BY <1>6, <1>7, <2>1
  <2>3. QED  BY <1>1, <1>2, <2>2, KeptWriting
<1>8. CASE UNCHANGED disk  BY <1>2, <1>8, KeptSilent
<1>9. QED  BY <1>7, <1>8 DEF WriteObject

\* Every step spares the inputs: one case per action.
LEMMA KeptStep ==
  ASSUME ReadInv, WorkInv, KeptInv, [Next]_vars
  PROVE  KeptInv'
<1>1. CASE ReadArgument \/ LastArgumentAwaits \/ ShowHelp
  <2>1. AtStart /\ argv' = argv /\ disk' = disk
    BY <1>1 DEF ReadArgument, LastArgumentAwaits, ShowHelp, WorkInv, command
  <2>2. disk' = InitDisk'  BY <2>1 DEF AtStart, InitDisk, Given
  <2>3. QED  BY <2>2 DEF KeptInv
<1>2. ASSUME UNCHANGED disk, UNCHANGED <<command, reading>> PROVE KeptInv'  BY <1>2, KeptSilent
<1>3. CASE SelectMode  BY <1>2, <1>3 DEF SelectMode
<1>4. CASE OpenSource  BY <1>2, <1>4 DEF OpenSource
<1>5. CASE Parse  BY <1>2, <1>5 DEF Parse
<1>6. CASE RunSemantic  BY <1>2, <1>6 DEF RunSemantic
<1>7. CASE Generate  BY <1>2, <1>7 DEF Generate
<1>8. CASE Validate  BY <1>2, <1>8 DEF Validate
<1>9. CASE AllWritten  BY <1>2, <1>9 DEF AllWritten
<1>10. CASE LoadObject  BY <1>2, <1>10 DEF LoadObject
<1>11. CASE AllCompiled  BY <1>2, <1>11 DEF AllCompiled
<1>12. CASE FindLibrary  BY <1>2, <1>12 DEF FindLibrary
<1>13. CASE ShowLog  BY <1>2, <1>13 DEF ShowLog
<1>14. CASE ValidateProgram  BY <1>2, <1>14 DEF ValidateProgram
<1>15. CASE UNCHANGED vars
  <2>1. UNCHANGED disk /\ UNCHANGED <<command, reading>>  BY <1>15 DEF vars, command, reading
  <2>2. QED  BY <1>2, <2>1
<1>16. CASE Ended  BY <1>15, <1>16 DEF Ended
<1>17. CASE WriteObject  BY <1>17, KeptWriteObject
<1>18. CASE Preprocess
  <2>1. arg > Len(argv) /\ UNCHANGED <<command, reading>>  BY <1>18 DEF Preprocess, ReadInv
  <2>2. PICK o, c : o = Stdout /\ c = Preprocessed(built)  OBVIOUS
  <2>3. disk' = Written(o, c)  BY <1>18, <2>2 DEF Preprocess
  <2>4. \A k \in DOMAIN Files : Files[k] # o
    <3>1. \A k \in DOMAIN Files : Files[k] \in Sources(argv)  BY <2>1, FilesType
    <3>2. QED  BY <2>2, <3>1 DEF Sources, Words
  <2>5. QED  BY <2>1, <2>3, <2>4, KeptWriting
<1>19. CASE Link
  <2>1. arg > Len(argv) /\ UNCHANGED <<command, reading>>  BY <1>19 DEF Link, ReadInv
  <2>2. CASE UNCHANGED disk  BY <1>2, <2>1, <2>2
  <2>3. CASE disk' = Written(args.map, Map(inputs))
    <3>1. PICK o, c : o = args.map /\ c = Map(inputs)  OBVIOUS
    <3>2. disk' = Written(o, c) /\ Spared(o)  BY <2>3, <3>1 DEF Spared
    <3>3. QED  BY <2>1, <3>2, KeptWriting
  <2>4. QED  BY <1>19, <2>2, <2>3 DEF Link
<1>20. CASE WriteProgram
  <2>1. arg > Len(argv) /\ UNCHANGED <<command, reading>> /\ Mode = "link"  BY <1>20 DEF WriteProgram, ReadInv
  <2>2. CASE UNCHANGED disk  BY <1>2, <2>1, <2>2
  <2>3. CASE disk' = Written(Target, Linked(inputs))
    <3>1. PICK o, c : o = Target /\ c = Linked(inputs)  OBVIOUS
    <3>2. disk' = Written(o, c) /\ Spared(o)  BY <2>1, <2>3, <3>1 DEF Spared, Target
    <3>3. QED  BY <2>1, <3>2, KeptWriting
  <2>4. QED  BY <1>20, <2>2, <2>3 DEF WriteProgram
<1>21. QED
  BY <1>1, <1>3, <1>4, <1>5, <1>6, <1>7, <1>8, <1>9, <1>10, <1>11, <1>12, <1>13, <1>14, <1>15, <1>16, <1>17, <1>18,
     <1>19, <1>20 DEF Next

\* The inputs are the operands of the command line.
LEMMA KeptIs ==
  ASSUME ReadInv, KeptInv
  PROVE  InputsKept
<1>1. SUFFICES ASSUME NEW f \in ToSet(Operands(argv))
               PROVE  \/ disk[f] = Given(f)
                      \/ f \in {OutputOf(argv), MapOf(argv)}
                      \/ f = Word("a", ".wasm") /\ Linking(argv)
  BY DEF InputsKept
<1>2. PICK l, s : l = argv /\ s = Operands(argv)  OBVIOUS
<1>3. s \in Seq(Sources(l))  BY <1>2, OperandsType DEF ReadInv
<1>4. PICK k \in DOMAIN s : f = s[k]  BY <1>1, <1>2 DEF ToSet
<1>5. f \in Sources(l)
  <2>1. k \in 1 .. Len(s)  BY <1>3, <1>4, LenProperties
  <2>2. QED  BY <1>3, <1>4, <2>1, ElementOfSeq
<1>6. CASE disk = InitDisk  BY <1>2, <1>5, <1>6, SourceOnDisk DEF OnDisk
<1>7. CASE disk # InitDisk
  <2>1. arg > Len(argv)  BY <1>7 DEF KeptInv
  <2>2. AsSaid  BY <2>1, AllRead
  <2>3. Files = s  BY <1>2, <2>2 DEF AsSaid, Files
  <2>4. OnDisk(f, Given(f)) \/ Spared(f)  BY <1>4, <1>7, <2>3 DEF KeptInv
  <2>5. args.out = OutputOf(argv) /\ args.map = MapOf(argv)  BY <2>2 DEF AsSaid
  <2>6. Mode = "link" => Linking(argv)  BY <2>2, AsAsked
  <2>7. QED  BY <2>4, <2>5, <2>6 DEF OnDisk, Spared
<1>8. QED  BY <1>6, <1>7

-----------------------------------------------------------------------------
(* What the command line asks for. *)

\* Records of one file have one content.
OneEach(asked) == \A r, s \in asked : r.file = s.file => r = s
AllThere(asked) == \A r \in asked : OnDisk(r.file, r.content)

\* Delivered in those words.
LEMMA DeliveredIs == Delivered <=> (status = 0 => (OneEach(Asked(argv, world)) => AllThere(Asked(argv, world))))
BY DEF Delivered, OneEach, AllThere, OnDisk

\* One file for each input.
Outputs == {[file |-> OutputFor(f), content |-> ContentFor(f)] : f \in ToSet(Files)}

\* When the contents of each file agree, all files of a run with status 0 are there.
LEMMA OutputsThere ==
  ASSUME Final, Mode \notin {"link", "-E"}, OneEach(Outputs)
  PROVE  AllThere(Outputs)
<1>1. ToSet(Files) = {Files[k] : k \in DOMAIN Files}  BY DEF ToSet
<1>2. Apart
  <2>1. SUFFICES ASSUME NEW i \in DOMAIN Files, NEW j \in DOMAIN Files, OutputFor(Files[i]) = OutputFor(Files[j])
                 PROVE  ContentFor(Files[i]) = ContentFor(Files[j])
    BY DEF Apart
  <2>2. PICK r, s : /\ r = [file |-> OutputFor(Files[i]), content |-> ContentFor(Files[i])]
                    /\ s = [file |-> OutputFor(Files[j]), content |-> ContentFor(Files[j])]
    OBVIOUS
  <2>3. r \in Outputs /\ s \in Outputs  BY <1>1, <2>2 DEF Outputs
  <2>4. r.file = s.file  BY <2>1, <2>2
  <2>5. r = s  BY <2>3, <2>4 DEF OneEach
  <2>6. r.content = ContentFor(Files[i]) /\ s.content = ContentFor(Files[j])  BY <2>2
  <2>7. QED  BY <2>5, <2>6
<1>3. \A k \in DOMAIN Files : OnDisk(OutputFor(Files[k]), ContentFor(Files[k]))  BY <1>2 DEF Final
<1>4. ASSUME NEW r \in Outputs PROVE OnDisk(r.file, r.content)
  <2>1. PICK k \in DOMAIN Files : r = [file |-> OutputFor(Files[k]), content |-> ContentFor(Files[k])]
    BY <1>1 DEF Outputs
  <2>2. r.file = OutputFor(Files[k]) /\ r.content = ContentFor(Files[k])  BY <2>1
  <2>3. QED  BY <1>3, <2>2
<1>5. QED  BY <1>4 DEF AllThere

\* The content of the objects and of the tree.
LEMMA ContentIs ==
  ASSUME AsSaid, NEW f
  PROVE  /\ Mode = "--ast" => ContentFor(f) = [kind |-> "ast", from |-> TextOf(argv, world, f)]
         /\ Mode = "-ffreestanding" => ContentFor(f) = ModuleOf(argv, world, f, "freestanding", FALSE)
         /\ Mode = "-c" => ContentFor(f) = ModuleOf(argv, world, f, "linkable", TRUE)
         /\ Mode = "link" => Made(f) = ModuleOf(argv, world, f, "linkable", FALSE)
<1>1. Preprocessed(Given(f)) = TextOf(argv, world, f)  BY AsAsked
<1>2. Mode = "--ast" => ContentFor(f) = [kind |-> "ast", from |-> TextOf(argv, world, f)]
  BY <1>1 DEF ContentFor, Encoded
<1>3. PICK t, m : t = Preprocessed(Given(f)) /\ m = CompileMode  OBVIOUS
<1>4. Made(f) = [kind |-> "module", from |-> t, mode |-> m, sections |-> FALSE]  BY <1>3 DEF Made
<1>5. Mode # "--ast" => ContentFor(f) = [kind |-> "module", from |-> t, mode |-> m, sections |-> (m = "linkable")]
  BY <1>4 DEF ContentFor, Encoded
<1>6. Mode = "-ffreestanding" => m = "freestanding"  BY <1>3 DEF CompileMode
<1>7. Mode \in {"-c", "link"} => m = "linkable"  BY <1>3 DEF CompileMode
<1>8. Mode = "-ffreestanding" => ContentFor(f) = ModuleOf(argv, world, f, "freestanding", FALSE)
  BY <1>1, <1>3, <1>5, <1>6 DEF ModuleOf
<1>9. Mode = "-c" => ContentFor(f) = ModuleOf(argv, world, f, "linkable", TRUE)
  BY <1>1, <1>3, <1>5, <1>7 DEF ModuleOf
<1>10. Mode = "link" => Made(f) = ModuleOf(argv, world, f, "linkable", FALSE)
  BY <1>1, <1>3, <1>4, <1>7 DEF ModuleOf
<1>11. QED  BY <1>2, <1>8, <1>9, <1>10

\* The archives of the link are those the command line asks for.
LEMMA ArchivesAre ==
  ASSUME ReadInv, arg > Len(argv)
  PROVE  Archives(Before(Findable, Len(Libraries) + 1)) = ArchivesFor(argv, world)
<1>1. AsSaid  BY AllRead
<1>2. PICK names, dirs : names = Libraries /\ dirs = SearchPath(Sysroot)  OBVIOUS
<1>3. names = NamesFor(argv) /\ dirs = DirsFor(argv, world)  BY <1>1, <1>2, AsAsked
<1>4. Len(Libraries) \in Nat /\ DOMAIN Libraries = 1 .. Len(Libraries)  BY LibrariesType
<1>5. Before(Findable, Len(Libraries) + 1) = Findable
  <2>1. Findable \subseteq 1 .. Len(Libraries)  BY <1>4 DEF Findable
  <2>2. \A k \in Findable : k < Len(Libraries) + 1  BY <1>4, <2>1
  <2>3. QED  BY <2>2 DEF Before
<1>6. ASSUME NEW n PROVE Holding(dirs, n) = {i \in DOMAIN dirs : <<dirs[i], n>> \in world.archives}
  BY DEF Holding
<1>7. PICK K : K = {k \in DOMAIN names : {i \in DOMAIN dirs : <<dirs[i], names[k]>> \in world.archives} # {}}  OBVIOUS
<1>8. Findable = K  BY <1>2, <1>6, <1>7 DEF Findable
<1>9. PICK found : found = Upwards(K)  OBVIOUS
<1>10. ArchivesFor(argv, world) =
         [n \in DOMAIN found |->
           [kind |-> "archive",
            dir |-> dirs[Min({i \in DOMAIN dirs : <<dirs[i], names[found[n]]>> \in world.archives})],
            name |-> names[found[n]]]]
  BY <1>3, <1>7, <1>9 DEF ArchivesFor
<1>11. \A k : Archived(k) =
         [kind |-> "archive", dir |-> dirs[Min({i \in DOMAIN dirs : <<dirs[i], names[k]>> \in world.archives})],
          name |-> names[k]]
  BY <1>2, <1>6 DEF Archived, ResolveLib
<1>12. Archives(K) = [n \in DOMAIN found |-> Archived(found[n])]  BY <1>9 DEF Archives
<1>13. Archives(K) = ArchivesFor(argv, world)  BY <1>10, <1>11, <1>12
<1>14. QED  BY <1>5, <1>8, <1>13

\* The program linked is the one the command line asks for.
LEMMA LinkedIs ==
  ASSUME ReadInv, arg > Len(argv), Gathered
  PROVE  Linked(inputs) = ProgramFor(argv, world)
<1>1. AsSaid  BY AllRead
<1>2. PICK s, a : s = [k \in DOMAIN Files |-> LinkedAs(Files[k])] /\ a = ArchivesFor(argv, world)  OBVIOUS
<1>3. inputs = s \o a  BY <1>2, ArchivesAre DEF Gathered, InputsBefore
<1>4. Files = Operands(argv)  BY <1>1 DEF AsSaid, Files
<1>5. PICK p : p = Operands(argv)  OBVIOUS
<1>6. \A f : LinkedAs(f) = IF IsObject(f) THEN Given(f) ELSE ModuleOf(argv, world, f, "linkable", FALSE)
  <2>1. Mode = "link"  BY DEF Gathered
  <2>2. QED  BY <1>1, <2>1, ContentIs DEF LinkedAs
<1>7. s = [k \in DOMAIN p |-> IF IsObject(p[k]) THEN Given(p[k]) ELSE ModuleOf(argv, world, p[k], "linkable", FALSE)]
  BY <1>2, <1>4, <1>5, <1>6
<1>8. ("-nostdlib" \in args.flags) <=> Has(argv, "-nostdlib")  BY <1>1, AsAsked DEF Options
<1>9. args.imports = Values(argv, Named(argv, {"--import-module", "--import-module="}))  BY <1>1 DEF AsSaid
<1>10. ProgramFor(argv, world) =
         [kind |-> "program", imports |-> args.imports, stdlib |-> ~Has(argv, "-nostdlib"), inputs |-> s \o a]
  BY <1>2, <1>5, <1>7, <1>9 DEF ProgramFor
<1>11. Linked(inputs) =
         [kind |-> "program", inputs |-> s \o a, imports |-> args.imports, stdlib |-> "-nostdlib" \notin args.flags]
  BY <1>3 DEF Linked
<1>12. ("-nostdlib" \notin args.flags) = ~Has(argv, "-nostdlib")  BY <1>8
<1>13. QED  BY <1>10, <1>11, <1>12

\* What is asked for in each mode, in the words of the phases.
AskedOf ==
  CASE Mode = "-E" -> {[file |-> Stdout, content |-> Preprocessed(Given(f))] : f \in ToSet(Files)}
    [] Mode = "link" -> {[file |-> Target, content |-> ProgramFor(argv, world)]} \union
                        (IF args.map = Empty THEN {}
                         ELSE {[file |-> args.map, content |-> [kind |-> "map", of |-> ProgramFor(argv, world)]]})
    [] OTHER -> Outputs

\* The files asked for are those the phases write.
LEMMA AskedIs ==
  ASSUME AsSaid, ~Informs(argv)
  PROVE  Asked(argv, world) = AskedOf
<1>1. PICK e : e = ToSet(Files)  OBVIOUS
<1>2. e = ToSet(Operands(argv)) /\ args.out = OutputOf(argv) /\ args.map = MapOf(argv)
  BY <1>1 DEF AsSaid, Files
<1>3. \A o \in Options : o \in args.flags <=> Has(argv, o)  BY AsAsked
<1>4. /\ Has(argv, "-E") <=> Mode = "-E"
      /\ ~Has(argv, "-E") => (Has(argv, "--ast") <=> Mode = "--ast")
      /\ ~Has(argv, "-E") /\ ~Has(argv, "--ast") => (Has(argv, "-ffreestanding") <=> Mode = "-ffreestanding")
      /\ ~Has(argv, "-E") /\ ~Has(argv, "--ast") /\ ~Has(argv, "-ffreestanding") => (Has(argv, "-c") <=> Mode = "-c")
      /\ ~Has(argv, "-E") /\ ~Has(argv, "--ast") /\ ~Has(argv, "-ffreestanding") /\ ~Has(argv, "-c") => Mode = "link"
  BY <1>3 DEF Mode, Options
<1>5. PICK A : A = Asked(argv, world)  OBVIOUS
<1>6. \A f : Preprocessed(Given(f)) = TextOf(argv, world, f)  BY AsAsked
<1>7. CASE Mode = "-E"
  <2>1. A = {[file |-> Stdout, content |-> TextOf(argv, world, f)] : f \in e}  BY <1>2, <1>4, <1>5, <1>7 DEF Asked
  <2>2. AskedOf = {[file |-> Stdout, content |-> Preprocessed(Given(f))] : f \in e}  BY <1>1, <1>7 DEF AskedOf
  <2>3. QED  BY <1>5, <1>6, <2>1, <2>2
<1>8. CASE Mode = "--ast"
  <2>1. A = {[file |-> [f EXCEPT !.ext = "_ast.xml"],
              content |-> [kind |-> "ast", from |-> TextOf(argv, world, f)]] : f \in e}
    BY <1>2, <1>4, <1>5, <1>8 DEF Asked
  <2>2. AskedOf = {[file |-> OutputFor(f), content |-> ContentFor(f)] : f \in e}  BY <1>1, <1>8 DEF AskedOf, Outputs
  <2>3. \A f : OutputFor(f) = [f EXCEPT !.ext = "_ast.xml"]  BY <1>8 DEF OutputFor
  <2>4. \A f : ContentFor(f) = [kind |-> "ast", from |-> TextOf(argv, world, f)]  BY <1>8, ContentIs
  <2>5. QED  BY <1>5, <2>1, <2>2, <2>3, <2>4
<1>9. CASE Mode = "-ffreestanding"
  <2>1. A = {[file |-> IF args.out = Empty THEN [f EXCEPT !.ext = ".wasm"] ELSE args.out,
              content |-> ModuleOf(argv, world, f, "freestanding", FALSE)] : f \in e}
    BY <1>2, <1>4, <1>5, <1>9 DEF Asked
  <2>2. AskedOf = {[file |-> OutputFor(f), content |-> ContentFor(f)] : f \in e}  BY <1>1, <1>9 DEF AskedOf, Outputs
  <2>3. \A f : OutputFor(f) = IF args.out = Empty THEN [f EXCEPT !.ext = ".wasm"] ELSE args.out  BY <1>9 DEF OutputFor
  <2>4. \A f : ContentFor(f) = ModuleOf(argv, world, f, "freestanding", FALSE)  BY <1>9, ContentIs
  <2>5. QED  BY <1>5, <2>1, <2>2, <2>3, <2>4
<1>10. CASE Mode = "-c"
  <2>1. A = {[file |-> IF args.out = Empty THEN [f EXCEPT !.ext = ".o"] ELSE args.out,
              content |-> ModuleOf(argv, world, f, "linkable", TRUE)] : f \in e}
    BY <1>2, <1>4, <1>5, <1>10 DEF Asked
  <2>2. AskedOf = {[file |-> OutputFor(f), content |-> ContentFor(f)] : f \in e}  BY <1>1, <1>10 DEF AskedOf, Outputs
  <2>3. \A f : OutputFor(f) = IF args.out = Empty THEN [f EXCEPT !.ext = ".o"] ELSE args.out  BY <1>10 DEF OutputFor
  <2>4. \A f : ContentFor(f) = ModuleOf(argv, world, f, "linkable", TRUE)  BY <1>10, ContentIs
  <2>5. QED  BY <1>5, <2>1, <2>2, <2>3, <2>4
<1>11. CASE Mode = "link"
  <2>1. PICK p : p = ProgramFor(argv, world)  OBVIOUS
  <2>2. A = {[file |-> Target, content |-> p]} \union
              (IF args.map = Empty THEN {} ELSE {[file |-> args.map, content |-> [kind |-> "map", of |-> p]]})
    BY <1>2, <1>4, <1>5, <1>11, <2>1 DEF Asked, Target
  <2>3. AskedOf = {[file |-> Target, content |-> p]} \union
              (IF args.map = Empty THEN {} ELSE {[file |-> args.map, content |-> [kind |-> "map", of |-> p]]})
    BY <1>11, <2>1 DEF AskedOf
  <2>4. QED  BY <1>5, <2>2, <2>3
<1>12. QED  BY <1>7, <1>8, <1>9, <1>10, <1>11 DEF Mode

\* What is there when a run ends with status 0 is what was asked for.
LEMMA FinalDelivers ==
  ASSUME ReadInv, arg > Len(argv), Final, ~Informs(argv), OneEach(Asked(argv, world))
  PROVE  AllThere(Asked(argv, world))
<1>1. AsSaid  BY AllRead
<1>2. PICK A : A = Asked(argv, world)  OBVIOUS
<1>3. A = AskedOf /\ OneEach(A)  BY <1>1, <1>2, AskedIs
<1>4. CASE Mode = "-E"
  <2>1. Len(args.inputs) = 1  BY <1>4 DEF Final, Refused
  <2>2. DOMAIN Files = {1}
    <3>1. DOMAIN Files = 1 .. 1  BY <2>1, FilesType DEF Files
    <3>2. QED  BY <3>1
  <2>3. ToSet(Files) = {Files[1]}  BY <2>2 DEF ToSet
  <2>4. PICK c : c = Preprocessed(Given(Files[1]))  OBVIOUS
  <2>5. A = {[file |-> Stdout, content |-> c]}  BY <1>3, <1>4, <2>3, <2>4 DEF AskedOf
  <2>6. OnDisk(Stdout, c)  BY <1>4, <2>4 DEF Final
  <2>7. AllThere(A)  BY <2>5, <2>6 DEF AllThere
  <2>8. QED  BY <1>2, <2>7
<1>5. CASE Mode = "link"
  <2>1. PICK p, q : p = ProgramFor(argv, world) /\ q = [kind |-> "map", of |-> p]  OBVIOUS
  <2>2. Linked(inputs) = p
    <3>1. Gathered  BY <1>5 DEF Final
    <3>2. QED  BY <2>1, <3>1, LinkedIs
  <2>3. A = {[file |-> Target, content |-> p]} \union
              (IF args.map = Empty THEN {} ELSE {[file |-> args.map, content |-> q]})
    BY <1>3, <1>5, <2>1 DEF AskedOf
  <2>4. OnDisk(Target, p)  BY <1>5, <2>2 DEF Final
  <2>5. CASE args.map = Empty
    <3>1. A = {[file |-> Target, content |-> p]}  BY <2>3, <2>5
    <3>2. AllThere(A)  BY <2>4, <3>1 DEF AllThere
    <3>3. QED  BY <1>2, <3>2
  <2>6. CASE args.map # Empty
    <3>1. PICK r, s : r = [file |-> Target, content |-> p] /\ s = [file |-> args.map, content |-> q]  OBVIOUS
    <3>2. A = {r, s}  BY <2>3, <2>6, <3>1
    <3>3. p.kind = "program" /\ q.kind = "map"  BY <2>1 DEF ProgramFor
    <3>4. r.content = p /\ s.content = q /\ r.file = Target /\ s.file = args.map  BY <3>1
    <3>5. args.map # Target
      <4>1. r # s  BY <3>3, <3>4
      <4>2. r.file # s.file  BY <1>3, <3>2, <4>1 DEF OneEach
      <4>3. QED  BY <3>4, <4>2
    <3>6. OnDisk(args.map, Map(inputs))  BY <1>5, <2>6, <3>5 DEF Final, Mapped
    <3>7. Map(inputs) = q  BY <2>1, <2>2 DEF Map
    <3>8. AllThere(A)  BY <2>4, <3>2, <3>4, <3>6, <3>7 DEF AllThere
    <3>9. QED  BY <1>2, <3>8
  <2>7. QED  BY <2>5, <2>6
<1>6. CASE Mode \notin {"-E", "link"}
  <2>1. A = Outputs  BY <1>3, <1>6 DEF AskedOf
  <2>2. AllThere(A)  BY <1>3, <1>6, <2>1, OutputsThere
  <2>3. QED  BY <1>2, <2>2
<1>7. QED  BY <1>4, <1>5, <1>6

\* A command line with --help or --version asks for no file.
LEMMA InformsAsksNothing ==
  ASSUME Informs(argv)
  PROVE  AllThere(Asked(argv, world))
BY DEF Asked, AllThere

\* The invariants of the run give Delivered.
LEMMA DeliveredAt ==
  ASSUME Reports, ReadInv, WorkInv
  PROVE  Delivered
<1>1. SUFFICES ASSUME status = 0, OneEach(Asked(argv, world)), ~Informs(argv) PROVE AllThere(Asked(argv, world))
  BY DeliveredIs, InformsAsksNothing
<1>2. pc = "done"  BY <1>1 DEF Reports, Running
<1>3. arg > Len(argv)  BY <1>1, <1>2 DEF ReadInv
<1>4. Final  BY <1>1, <1>2, <1>3 DEF WorkInv
<1>5. QED  BY <1>1, <1>3, <1>4, FinalDelivers

RunInv == Reports /\ ReadInv /\ WorkInv /\ KeptInv

\* All four invariants hold in every reachable state.
LEMMA RunInvAlways == Spec => []RunInv
<1>1. Init => RunInv  BY ReportsInit, StartRead, WorkStart, KeptStart DEF RunInv
<1>2. RunInv /\ [Next]_vars => RunInv'
  <2> SUFFICES ASSUME RunInv, [Next]_vars PROVE RunInv'  OBVIOUS
  <2>1. Reports /\ ReadInv /\ WorkInv /\ KeptInv  BY DEF RunInv
  <2>2. Reports'  BY <2>1, ReportsStep
  <2>3. ReadInv'  BY <2>1, ReadStep
  <2>4. WorkInv'  BY <2>1, WorkStep
  <2>5. KeptInv'  BY <2>1, KeptStep
  <2>6. QED  BY <2>2, <2>3, <2>4, <2>5 DEF RunInv
<1>3. QED  BY <1>1, <1>2, PTL DEF Spec

\* A run that ends with status 0 has left every file the command line asks for, made from the inputs, options and
\* libraries it names, unless two of them have one name.
THEOREM FilesDelivered == Spec => []Delivered
<1>1. RunInv => Delivered  BY DeliveredAt DEF RunInv
<1>2. QED  BY <1>1, RunInvAlways, PTL

\* No run writes over its inputs, unless the command line names one as a file to write.
THEOREM InputsSurvive == Spec => []InputsKept
<1>1. RunInv => InputsKept  BY KeptIs DEF RunInv
<1>2. QED  BY <1>1, RunInvAlways, PTL
=============================================================================
