--------------------------- MODULE SuiTestProofs ---------------------------
(***************************************************************************)
(* Proofs about SuiTest for any list of test functions, any parameters and *)
(* any object mapping.                                                     *)
(***************************************************************************)
EXTENDS SuiTest, SequenceTheorems, FiniteSetTheorems, TLAPS

Functions == {Targets[k] : k \in DOMAIN Targets}
Entries == [function : Functions, outcome : Outcomes]

InFunction == {"restore", "fix", "append", "run"}
InOutput == {"write_lcov", "output"}

\* The command has no exit status before it ends, and 0 only through its report.
ControlInv ==
  /\ pc \in {"prepare", "dump", "reset", "end"} \cup InFunction \cup InOutput
  /\ exit \in {None, "ok", "err"}
  /\ pc # "end" => exit = None /\ cause = None
  /\ exit = "ok" => cause = "outcome"
  /\ pc \notin {"prepare", "end"} => Targets # <<>> /\ (lcovPath => locals)

\* The report has an entry for each function the loop is past, in their order.
ReportInv ==
  /\ report \in Seq(Entries)
  /\ i = Len(report) + 1 /\ Len(report) <= Len(Targets)
  /\ \A k \in 1..Len(report) : report[k].function = Targets[k]
  /\ pc \in InFunction => Len(report) < Len(Targets)
  /\ pc \in InOutput => Len(report) = Len(Targets)

\* The summary counts the entries of the report.
SummaryInv ==
  /\ summary \in [Outcomes \cup {"total"} -> Nat]
  /\ summary.total = Len(report)
  /\ \A o \in Outcomes : summary[o] = Count(o)

Executed == {k \in 1..Len(report) : report[k].outcome # "SequenceBuildFailure"}

\* The collector has seen every function that was executed; what is written is
\* what it has seen after the last one.
CoverageInv ==
  /\ hits = Executed
  /\ lcov \in [{"embedded", "file", "json"} -> {lcov[f] : f \in {"embedded", "file", "json"}}]
  /\ pc \in InOutput => lcov.embedded = IF Coverage THEN {hits} ELSE {}
  /\ pc = "output" => lcov.file = IF lcovPath THEN lcov.embedded ELSE {}

\* A function starts from an empty store.
EmptiedInv == pc = "restore" => store = {} /\ touched = {}

\* The inductive invariant.
IInv ==
  /\ ControlInv /\ ReportInv /\ SummaryInv /\ CoverageInv /\ EmptiedInv
  /\ FunctionsIsolated /\ ReportComplete /\ CoverageComplete

-----------------------------------------------------------------------------
\* Adding an entry to a report adds one to the count of its outcome.
LEMMA CountStep ==
  ASSUME ReportInv, NEW e \in Entries, report' = Append(report, e), NEW o \in Outcomes
  PROVE  /\ Count(o) \in Nat
         /\ Count(o)' = IF o = e.outcome THEN Count(o) + 1 ELSE Count(o)
<1> DEFINE S == {k \in DOMAIN report : report[k].outcome = o}
           n == Len(report) + 1
<1>1. /\ report \in Seq(Entries) /\ Len(report) \in Nat /\ DOMAIN report = 1..Len(report)
      /\ report' \in Seq(Entries) /\ DOMAIN report' = 1..n
      /\ \A k \in 1..Len(report) : report'[k] = report[k]
      /\ report'[n] = e
  BY AppendProperties, LenProperties DEF ReportInv
<1>2. IsFiniteSet(S) /\ Cardinality(S) \in Nat /\ n \notin S
  <2>1. IsFiniteSet(1..Len(report))
    BY <1>1, FS_Interval
  <2>2. S \in SUBSET (1..Len(report))
    BY <1>1
  <2>3. IsFiniteSet(S)
    BY <2>1, <2>2, FS_Subset
  <2> QED BY <1>1, <2>2, <2>3, FS_CardinalityType
<1>3. {k \in DOMAIN report' : report'[k].outcome = o} = IF o = e.outcome THEN S \cup {n} ELSE S
  BY <1>1
<1>4. Cardinality(S \cup {n}) = Cardinality(S) + 1
  BY <1>2, FS_AddElement
<1> QED BY <1>2, <1>3, <1>4 DEF Count

\* The loop goes on to the next function with this one's outcome recorded.
LEMMA RecordStep ==
  ASSUME ReportInv, SummaryInv, hits = Executed, NEW o \in Outcomes, record(o),
         Len(report) < Len(Targets),
         hits' = IF o = "SequenceBuildFailure" THEN hits ELSE hits \cup {i}
  PROVE  ReportInv' /\ SummaryInv' /\ hits' = Executed'
<1> DEFINE e == [function |-> Targets[i], outcome |-> o]
           n == Len(report) + 1
<1>1. /\ report \in Seq(Entries) /\ Len(report) \in Nat
      /\ Len(Targets) \in Nat /\ DOMAIN Targets = 1..Len(Targets)
  BY ConstantsAssumption, LenProperties DEF ReportInv
<1>2. i = n /\ e \in Entries
  BY <1>1 DEF ReportInv, Entries, Functions
<1>3. report' = Append(report, e) /\ summary' = observe(summary, o) /\ i' = i + 1 /\ pc' = "reset"
  BY DEF record, Goto
<1>4. /\ report' \in Seq(Entries) /\ Len(report') = n
      /\ \A k \in 1..Len(report) : report'[k] = report[k]
      /\ report'[n] = e /\ e.function = Targets[n] /\ e.outcome = o
  BY <1>1, <1>2, <1>3, AppendProperties
<1> HIDE DEF e
<1>5. ReportInv'
  BY <1>1, <1>2, <1>3, <1>4 DEF ReportInv, InFunction, InOutput
<1>6. SummaryInv'
  <2>1. "total" \notin Outcomes
    BY DEF Outcomes
  <2>2. \A q \in Outcomes : /\ Count(q) \in Nat
                            /\ Count(q)' = IF q = o THEN Count(q) + 1 ELSE Count(q)
    BY <1>2, <1>3, <1>4, CountStep
  <2>3. /\ summary'.total = summary.total + 1
        /\ \A q \in Outcomes : summary'[q] = IF q = o THEN summary[q] + 1 ELSE summary[q]
        /\ summary' \in [Outcomes \cup {"total"} -> Nat]
    BY <1>3, <2>1 DEF SummaryInv, observe
  <2> QED BY <1>4, <2>2, <2>3, SMTT(30) DEF SummaryInv
<1>7. hits' = Executed'
  BY <1>1, <1>2, <1>4 DEF Executed
<1> QED BY <1>5, <1>6, <1>7

\* Nothing the report and its counts depend on changes.
LEMMA QuietStep ==
  ASSUME ReportInv, SummaryInv, hits = Executed, UNCHANGED <<i, report, summary, hits>>,
         pc' \in InFunction => pc \in InFunction \/ (pc = "reset" /\ i <= Len(Targets)),
         pc' \in InOutput => pc \in InOutput \/ (pc = "reset" /\ i > Len(Targets))
  PROVE  ReportInv' /\ SummaryInv' /\ hits' = Executed'
<1>1. Len(report) \in Nat /\ Len(Targets) \in Nat
  BY ConstantsAssumption, LenProperties DEF ReportInv
<1>2. ReportInv'
  BY <1>1 DEF ReportInv
<1>3. SummaryInv' /\ hits' = Executed'
  BY DEF SummaryInv, Executed, Count
<1> QED BY <1>2, <1>3

\* At the end of a report with an entry for every function, status 0 in human
\* mode says that all of them passed.
LEMMA AllOkExact ==
  ASSUME ReportInv, SummaryInv, Len(report) = Len(Targets), Targets # <<>>
  PROVE  all_ok(summary) <=> \A k \in DOMAIN report : report[k].outcome = "Ok"
<1> DEFINE S == {k \in DOMAIN report : report[k].outcome = "Ok"}
<1>1. /\ Len(report) \in Nat /\ DOMAIN report = 1..Len(report) /\ Len(Targets) > 0
  BY ConstantsAssumption, LenProperties, EmptySeq DEF ReportInv
<1>2. IsFiniteSet(DOMAIN report) /\ Cardinality(DOMAIN report) = Len(report)
  <2>1. /\ IsFiniteSet(1..Len(report))
        /\ Cardinality(1..Len(report)) = IF 1 > Len(report) THEN 0 ELSE Len(report) - 1 + 1
    BY <1>1, FS_Interval
  <2> QED BY <1>1, <2>1
<1>3. S = DOMAIN report <=> Cardinality(S) = Cardinality(DOMAIN report)
  BY <1>2, FS_Subset
<1>4. summary.total = Len(report) /\ summary["Ok"] = Cardinality(S)
  BY DEF SummaryInv, Count, Outcomes
<1> QED BY <1>1, <1>2, <1>3, <1>4 DEF all_ok

-----------------------------------------------------------------------------
\* The command starts with an empty report and nothing collected.
LEMMA InitInv == Init => IInv
<1> SUFFICES ASSUME Init PROVE IInv
  OBVIOUS
<1>1. /\ report = <<>> /\ report \in Seq(Entries) /\ Len(report) = 0 /\ DOMAIN report = {}
      /\ Len(Targets) \in Nat
  BY ConstantsAssumption, LenProperties, EmptySeq DEF Init
<1>2. ReportInv
  BY <1>1 DEF Init, ReportInv, InFunction, InOutput
<1>3. SummaryInv
  <2>1. \A o \in Outcomes : Count(o) = 0
    BY <1>1, FS_EmptySet DEF Count
  <2> QED BY <1>1, <2>1 DEF Init, SummaryInv, NoCounts
<1>4. CoverageInv
  BY <1>1 DEF Init, CoverageInv, Executed, InOutput
<1>5. ControlInv /\ EmptiedInv /\ FunctionsIsolated /\ ReportComplete /\ CoverageComplete
  BY DEF Init, ControlInv, EmptiedInv, InFunction, InOutput, FunctionsIsolated, ReportComplete, CoverageComplete, None
<1> QED BY <1>2, <1>3, <1>4, <1>5 DEF IInv

\* Every step of the command keeps the invariant: the steps before the loop and
\* of its iterations leave the report alone or add one entry to it; the steps
\* after the loop find it complete.
LEMMA InvStep == IInv /\ [Next]_vars => IInv'
<1> SUFFICES ASSUME IInv, [Next]_vars PROVE IInv'
  OBVIOUS
<1> DEFINE Quiet == UNCHANGED <<args, i, report, summary, hits>>
           Open == UNCHANGED lcov /\ pc' \notin InOutput
           Failed == pc' = "end" /\ exit' = "err" /\ cause' # "outcome"
           Going == exit' = None /\ cause' = None /\ pc \notin {"prepare", "end"}
                      /\ pc' \notin {"prepare", "end"}
<1>0. /\ ReportInv /\ SummaryInv /\ hits = Executed /\ ControlInv /\ CoverageInv
      /\ Len(report) \in Nat /\ Len(Targets) \in Nat /\ DOMAIN Targets = 1..Len(Targets)
      /\ DOMAIN report = 1..Len(report)
  BY ConstantsAssumption, LenProperties DEF IInv, CoverageInv, ReportInv
<1>a. ASSUME Failed, Quiet \/ UNCHANGED args PROVE ReportComplete' /\ CoverageComplete'
  BY <1>a DEF ReportComplete, CoverageComplete
<1>b. ASSUME exit' = None, cause' = None PROVE ReportComplete' /\ CoverageComplete'
  BY <1>b DEF ReportComplete, CoverageComplete, None
<1>c. ASSUME Going, pc' \in {"reset"} \cup InFunction \cup InOutput, UNCHANGED args PROVE ControlInv'
  BY <1>0, <1>c DEF ControlInv, InFunction, InOutput, None, args
<1>d. ASSUME Failed PROVE ControlInv'
  BY <1>d DEF ControlInv, InFunction, InOutput, None
<1>e. ASSUME Quiet, Open, ReportInv', SummaryInv', hits' = Executed' PROVE CoverageInv'
  BY <1>0, <1>e DEF CoverageInv, InOutput
<1>1. ASSUME NEW read \in SUBSET Objects, prepare(read) PROVE IInv'
  <2>1. /\ Quiet /\ Open /\ pc' \in {"dump", "end"}
        /\ Failed \/ (pc' = "dump" /\ exit' = None /\ cause' = None /\ Targets # <<>> /\ (lcovPath => locals))
    BY <1>0, <1>1 DEF prepare, Goto, End, ControlInv, InOutput
  <2>2. ReportInv' /\ SummaryInv' /\ hits' = Executed'
    BY <1>0, <2>1, QuietStep DEF InFunction, InOutput
  <2>3. ControlInv'
    BY <2>1 DEF ControlInv, InFunction, InOutput, None, args
  <2>4. CoverageInv' /\ ReportComplete' /\ CoverageComplete'
    BY <1>a, <1>b, <1>e, <2>1, <2>2
  <2> QED BY <2>1, <2>2, <2>3, <2>4 DEF IInv, EmptiedInv, FunctionsIsolated
<1>2. ASSUME dump_snapshot PROVE IInv'
  <2>1. /\ Quiet /\ Open /\ pc = "dump" /\ pc' \in {"reset", "end"}
        /\ Failed \/ (pc' = "reset" /\ Going)
    BY <1>0, <1>2 DEF dump_snapshot, Goto, End, ControlInv, InOutput
  <2>2. ReportInv' /\ SummaryInv' /\ hits' = Executed'
    BY <1>0, <2>1, QuietStep DEF InFunction, InOutput
  <2>3. ControlInv' /\ CoverageInv' /\ ReportComplete' /\ CoverageComplete'
    BY <1>a, <1>b, <1>c, <1>d, <1>e, <2>1, <2>2
  <2> QED BY <2>1, <2>2, <2>3 DEF IInv, EmptiedInv, FunctionsIsolated
<1>3. ASSUME reset PROVE IInv'
  <2>1. Quiet /\ Open /\ pc = "reset" /\ i <= Len(Targets) /\ pc' = "restore" /\ Going
    BY <1>0, <1>3 DEF reset, Goto, ControlInv, InOutput
  <2>2. ReportInv' /\ SummaryInv' /\ hits' = Executed'
    BY <1>0, <2>1, QuietStep DEF InFunction, InOutput
  <2>3. ControlInv' /\ CoverageInv' /\ ReportComplete' /\ CoverageComplete'
    BY <1>b, <1>c, <1>e, <2>1, <2>2 DEF InFunction
  <2>4. EmptiedInv' /\ FunctionsIsolated'
    BY <1>3, <2>1 DEF reset, EmptiedInv, FunctionsIsolated
  <2> QED BY <2>2, <2>3, <2>4 DEF IInv
<1>4. ASSUME restore_snapshot PROVE IInv'
  <2>1. Quiet /\ Open /\ pc = "restore" /\ pc' = "fix" /\ Going
    BY <1>0, <1>4 DEF restore_snapshot, Goto, ControlInv, InOutput
  <2>2. ReportInv' /\ SummaryInv' /\ hits' = Executed'
    BY <1>0, <2>1, QuietStep DEF InFunction, InOutput
  <2>3. ControlInv' /\ CoverageInv' /\ ReportComplete' /\ CoverageComplete'
    BY <1>b, <1>c, <1>e, <2>1, <2>2 DEF InFunction
  <2>4. EmptiedInv' /\ FunctionsIsolated'
    BY <1>4, <2>1 DEF IInv, restore_snapshot, EmptiedInv, FunctionsIsolated
  <2> QED BY <2>2, <2>3, <2>4 DEF IInv
<1>5. ASSUME build_test_fixed_args PROVE IInv'
  <2>1. /\ Quiet /\ Open /\ pc = "fix" /\ pc' \in {"append", "end"}
        /\ Failed \/ (pc' = "append" /\ Going)
    BY <1>0, <1>5 DEF build_test_fixed_args, Goto, End, ControlInv, InOutput
  <2>2. ReportInv' /\ SummaryInv' /\ hits' = Executed'
    BY <1>0, <2>1, QuietStep DEF InFunction, InOutput
  <2>3. ControlInv' /\ CoverageInv' /\ ReportComplete' /\ CoverageComplete'
    BY <1>a, <1>b, <1>c, <1>d, <1>e, <2>1, <2>2 DEF InFunction
  <2>4. PICK objs : store' = store \cup objs /\ touched' = touched \cup objs /\ baseline' = baseline
    BY <1>5 DEF build_test_fixed_args, Read
  <2>5. EmptiedInv' /\ FunctionsIsolated'
    BY <2>1, <2>4 DEF IInv, EmptiedInv, FunctionsIsolated
  <2> QED BY <2>2, <2>3, <2>5 DEF IInv
<1>6. ASSUME NEW read \in SUBSET Objects, append_function(read) PROVE IInv'
  <2>1. /\ pc = "append" /\ pc' \in {"run", "reset"} /\ Going /\ Open
        /\ UNCHANGED <<args, hits, baseline>>
        /\ \/ pc' = "run" /\ UNCHANGED <<i, report, summary>>
           \/ record("SequenceBuildFailure")
    BY <1>0, <1>6 DEF append_function, record, Goto, ControlInv, InOutput
  <2>2. Len(report) < Len(Targets) /\ "SequenceBuildFailure" \in Outcomes
    BY <1>0, <2>1 DEF ReportInv, InFunction, Outcomes
  <2>3. ReportInv' /\ SummaryInv' /\ hits' = Executed'
    <3>1. CASE pc' = "run" /\ UNCHANGED <<i, report, summary>>
      BY <1>0, <2>1, <3>1, QuietStep DEF InFunction, InOutput
    <3>2. CASE record("SequenceBuildFailure")
      BY <1>0, <2>1, <2>2, <3>2, RecordStep
    <3> QED BY <2>1, <3>1, <3>2
  <2>4. CoverageInv'
    BY <1>0, <2>1, <2>3 DEF CoverageInv, InOutput
  <2>5. ControlInv' /\ ReportComplete' /\ CoverageComplete'
    BY <1>b, <1>c, <2>1 DEF InFunction
  <2>6. EmptiedInv' /\ FunctionsIsolated'
    BY <1>6, <2>1 DEF IInv, EmptiedInv, FunctionsIsolated, append_function, Read
  <2> QED BY <2>3, <2>4, <2>5, <2>6 DEF IInv
<1>7. ASSUME NEW read \in SUBSET Objects, run_ptb(read) PROVE IInv'
  <2>1. /\ pc = "run" /\ pc' \in {"end", "reset"} /\ Open /\ UNCHANGED <<args, baseline>>
        /\ \/ Failed /\ Quiet
           \/ /\ Going /\ hits' = hits \cup {i}
              /\ \E o \in {"ExecutionFailure", "OracleCrash", "Ok"} : record(o)
    BY <1>0, <1>7 DEF run_ptb, record, Goto, End, ControlInv, InOutput
  <2>2. ReportInv' /\ SummaryInv' /\ hits' = Executed'
    <3>1. CASE Failed /\ Quiet
      BY <1>0, <2>1, <3>1, QuietStep DEF InFunction, InOutput
    <3>2. ASSUME NEW o \in {"ExecutionFailure", "OracleCrash", "Ok"}, record(o), hits' = hits \cup {i}
          PROVE  ReportInv' /\ SummaryInv' /\ hits' = Executed'
      <4>1. o \in Outcomes /\ o # "SequenceBuildFailure" /\ Len(report) < Len(Targets)
        BY <1>0, <2>1, <3>2 DEF ReportInv, InFunction, Outcomes
      <4> QED BY <1>0, <3>2, <4>1, RecordStep, SMTT(30)
    <3> QED BY <2>1, <3>1, <3>2
  <2>3. CoverageInv'
    BY <1>0, <2>1, <2>2 DEF CoverageInv, InOutput
  <2>4. ControlInv' /\ ReportComplete' /\ CoverageComplete'
    BY <1>a, <1>b, <1>c, <1>d, <2>1 DEF InFunction
  <2>5. EmptiedInv' /\ FunctionsIsolated'
    BY <2>1 DEF EmptiedInv, FunctionsIsolated
  <2> QED BY <2>2, <2>3, <2>4, <2>5 DEF IInv
<1>8. ASSUME render_lcov PROVE IInv'
  <2>1. /\ Quiet /\ pc = "reset" /\ i > Len(Targets) /\ pc' = "write_lcov" /\ Going
        /\ lcov' = [lcov EXCEPT !.embedded = IF Coverage THEN {hits} ELSE {}]
    BY <1>0, <1>8 DEF render_lcov, Goto, ControlInv
  <2>2. ReportInv' /\ SummaryInv' /\ hits' = Executed'
    BY <1>0, <2>1, QuietStep DEF InFunction, InOutput
  <2>3. CoverageInv'
    BY <1>0, <2>1, <2>2 DEF CoverageInv, InOutput, Coverage, args
  <2>4. ControlInv' /\ ReportComplete' /\ CoverageComplete'
    BY <1>b, <1>c, <2>1 DEF InOutput
  <2> QED BY <2>1, <2>2, <2>3, <2>4 DEF IInv, EmptiedInv, FunctionsIsolated
<1>9. ASSUME write_lcov PROVE IInv'
  <2>1. /\ Quiet /\ pc = "write_lcov" /\ pc' \in {"output", "end"}
        /\ \/ pc' = "output" /\ Going
              /\ lcov' = [lcov EXCEPT !.file = IF lcovPath THEN lcov.embedded ELSE {}]
           \/ Failed /\ UNCHANGED lcov
    BY <1>0, <1>9 DEF write_lcov, Goto, End, ControlInv
  <2>2. ReportInv' /\ SummaryInv' /\ hits' = Executed'
    BY <1>0, <2>1, QuietStep DEF InFunction, InOutput
  <2>3. CoverageInv'
    BY <1>0, <2>1, <2>2, ZenonT(40) DEF CoverageInv, InOutput, Coverage, args
  <2>4. ControlInv' /\ ReportComplete' /\ CoverageComplete'
    BY <1>a, <1>b, <1>c, <1>d, <2>1 DEF InOutput
  <2> QED BY <2>1, <2>2, <2>3, <2>4 DEF IInv, EmptiedInv, FunctionsIsolated
<1>10. ASSUME write_machine \/ render_human PROVE IInv'
  <2>1. /\ Quiet /\ pc = "output" /\ pc' = "end" /\ Len(report) = Len(Targets) /\ Targets # <<>>
        /\ \/ Failed /\ UNCHANGED lcov
           \/ /\ machine /\ cause' = "outcome" /\ exit' = "ok"
              /\ lcov' = [lcov EXCEPT !.json = {report}]
           \/ /\ ~machine /\ cause' = "outcome" /\ UNCHANGED lcov
              /\ exit' = IF all_ok(summary) THEN "ok" ELSE "err"
    BY <1>0, <1>10, ZenonT(40) DEF write_machine, render_human, Goto, End, ControlInv, ReportInv, InOutput
  <2>2. ReportInv' /\ SummaryInv' /\ hits' = Executed'
    BY <1>0, <2>1, QuietStep DEF InFunction, InOutput
  <2>3. CoverageInv' /\ ControlInv'
    BY <1>0, <2>1, <2>2 DEF CoverageInv, ControlInv, InOutput, InFunction, None
  <2>4. all_ok(summary) <=> \A k \in DOMAIN report : report[k].outcome = "Ok"
    BY <1>0, <2>1, AllOkExact
  <2>5. ReportComplete'
    <3>1. [k \in DOMAIN report |-> report[k].function] = Targets
      <4>1. DOMAIN report = DOMAIN Targets /\ \A k \in DOMAIN report : report[k].function = Targets[k]
        BY <1>0, <2>1 DEF ReportInv
      <4>2. Targets = [k \in DOMAIN Targets |-> Targets[k]]
        BY ConstantsAssumption
      <4> QED BY <4>1, <4>2
    <3>2. summary.total = Len(report) /\ \A o \in Outcomes : summary[o] = Count(o)
      BY <1>0 DEF SummaryInv
    <3>3. CASE Failed
      BY <3>3, <1>a, <2>1
    <3>4. CASE machine /\ cause' = "outcome" /\ exit' = "ok" /\ lcov' = [lcov EXCEPT !.json = {report}]
      BY <1>0, <2>1, <3>1, <3>2, <3>4 DEF ReportComplete, Count, CoverageInv, args
    <3>5. CASE ~machine /\ cause' = "outcome" /\ exit' = IF all_ok(summary) THEN "ok" ELSE "err"
      BY <2>1, <2>4, <3>1, <3>2, <3>5 DEF ReportComplete, Count, args
    <3> QED BY <2>1, <3>3, <3>4, <3>5
  <2>6. CoverageComplete'
    <3>1. /\ lcov.embedded = IF Coverage THEN {hits} ELSE {}
          /\ lcov.file = IF lcovPath THEN lcov.embedded ELSE {}
          /\ lcovPath => locals
      BY <1>0, <2>1 DEF CoverageInv, ControlInv, InOutput
    <3>2. lcov'.embedded = lcov.embedded /\ lcov'.file = lcov.file
      BY <1>0, <2>1 DEF CoverageInv
    <3> QED BY <1>0, <2>1, <3>1, <3>2 DEF CoverageComplete, Coverage, Executed, args
  <2> QED BY <2>1, <2>2, <2>3, <2>5, <2>6 DEF IInv, EmptiedInv, FunctionsIsolated
<1>11. ASSUME UNCHANGED vars PROVE IInv'
  <2> USE <1>11 DEF vars, args
  <2>1. ControlInv' /\ ReportInv' /\ EmptiedInv' /\ FunctionsIsolated'
    BY DEF IInv, ControlInv, ReportInv, EmptiedInv, FunctionsIsolated
  <2>2. SummaryInv' /\ CoverageInv'
    BY DEF IInv, SummaryInv, CoverageInv, Count, Executed, Coverage
  <2>3. ReportComplete' /\ CoverageComplete'
    BY DEF IInv, ReportComplete, CoverageComplete, Count
  <2> QED BY <2>1, <2>2, <2>3 DEF IInv
<1> QED BY <1>1, <1>2, <1>3, <1>4, <1>5, <1>6, <1>7, <1>8, <1>9, <1>10, <1>11 DEF Next

\* Every state the command reaches satisfies the invariant.
LEMMA InvHolds == Spec => []IInv
BY InitInv, InvStep, PTL DEF Spec

-----------------------------------------------------------------------------
\* Whatever the functions read, and however many there are, each of them runs on
\* the baseline and its own reads (the reset and restore of the store at the top
\* of the loop).
THEOREM FunctionsAlwaysIsolated == Spec => []FunctionsIsolated
<1>1. IInv => FunctionsIsolated
  BY DEF IInv
<1> QED BY <1>1, InvHolds, PTL

\* For any number of functions the report the command ends with lists each of
\* them once and in order, its summary counts its entries and the exit status
\* tells whether all of them passed.
THEOREM ReportAlwaysComplete == Spec => []ReportComplete
<1>1. IInv => ReportComplete
  BY DEF IInv
<1> QED BY <1>1, InvHolds, PTL

\* For any number of functions the coverage of a successful command, in the
\* report and on disk, is that of every function that was executed.
THEOREM CoverageAlwaysComplete == Spec => []CoverageComplete
<1>1. IInv => CoverageComplete
  BY DEF IInv
<1> QED BY <1>1, InvHolds, PTL
=============================================================================
