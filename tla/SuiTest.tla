------------------------------- MODULE SuiTest -------------------------------
(***************************************************************************)
(* `movy sui test`: the loop over the selected test functions (movy-fuzz   *)
(* operations/sui_test.rs), its report (movy-types test_report.rs) and the *)
(* command around it (movy sui/test.rs).                                   *)
(*                                                                         *)
(* The store is the set of objects the cache holds; transactions are never *)
(* committed, but every read caches what it fetched.  What append_function *)
(* and the Move VM answer is left open.                                    *)
(***************************************************************************)
EXTENDS Integers, Sequences, FiniteSets

CONSTANTS
  Targets,     \* the sequence of selected test functions
  ObjectTypes, \* the object types the test functions take
  ParamLists,  \* parameter lists: sequences of object types and "other"
  Objects,     \* objects the chain holds
  Mapped       \* per type the sequence of ids given with --object-mapping

ASSUME ConstantsAssumption ==
  /\ Targets \in Seq({Targets[k] : k \in DOMAIN Targets})
  /\ \A t \in ObjectTypes : Mapped[t] \in Seq(Objects)
  /\ \A ps \in ParamLists : ps \in Seq(ObjectTypes \cup {"other"})

Outcomes == {"Ok", "SequenceBuildFailure", "ExecutionFailure", "OracleCrash"}
None == "none"

VARIABLES
  machine, lcovPath, locals, \* --machine-output, --lcov and --locals are given
  owner,     \* is the object owned, shared or immutable, rather than a child?
  params,    \* per function its parameter list
  pc, i,     \* where the command is, and the function it is at
  store,     \* objects in the CachedStore
  baseline,  \* the snapshot taken before the first function
  touched,   \* ghost: what the present function read
  fixed,     \* parameter position -> mapped object, for the present function
  report,    \* TestRunReport.functions
  summary,   \* TestRunReport.summary
  hits,      \* functions whose execution reached the coverage collector
  lcov,      \* TestRunReport.lcov (embedded), the lcov file and the JSON file,
             \* each as the set of its contents, {} when there is none
  exit, cause

args == <<machine, lcovPath, locals, owner, params>>
vars == <<args, pc, i, store, baseline, touched, fixed, report, summary, hits, lcov, exit, cause>>

NoCounts == [c \in Outcomes \cup {"total"} |-> 0]

Init ==
  /\ machine \in BOOLEAN /\ lcovPath \in BOOLEAN /\ locals \in BOOLEAN
  /\ owner \in [Objects -> {"direct", "child"}]
  /\ params \in [1..Len(Targets) -> ParamLists]
  /\ pc = "prepare" /\ i = 1
  /\ store = {} /\ baseline = {} /\ touched = {} /\ fixed = <<>>
  /\ report = <<>> /\ summary = NoCounts
  /\ hits = {}
  /\ lcov = [embedded |-> {}, file |-> {}, json |-> {}]
  /\ exit = None /\ cause = None

End(e, c) == pc' = "end" /\ exit' = e /\ cause' = c
Goto(p) == pc' = p /\ UNCHANGED <<exit, cause>>

MappedObjects == UNION {{Mapped[t][k] : k \in 1..Len(Mapped[t])} : t \in ObjectTypes}

\* A coverage map is built when either output was asked for and there are local
\* packages to cover.
Coverage == (machine \/ lcovPath) /\ locals

\* prepare_fuzz_context, the coverage map (--lcov without --locals is an error),
\* resolve_object_mapping, which looks every mapped object up, resolve_test_ty.
prepare(read) ==
  /\ pc = "prepare"
  /\ store' = read \cup MappedObjects
  /\ \/ Targets # <<>> /\ (lcovPath => locals) /\ Goto("dump")
     \/ End("err", "setup")
  /\ UNCHANGED <<args, i, baseline, touched, fixed, report, summary, hits, lcov>>

\* The baseline, then SuiExecutor::new.
dump_snapshot ==
  /\ pc = "dump"
  /\ baseline' = store
  /\ Goto("reset") \/ End("err", "setup")
  /\ UNCHANGED <<args, i, store, touched, fixed, report, summary, hits, lcov>>

-----------------------------------------------------------------------------
(* One iteration of the loop.                                               *)

\* Mutant: the store is not emptied between two functions.
reset_skipped ==
  /\ pc = "reset" /\ i <= Len(Targets)
  /\ touched' = {} /\ fixed' = <<>>
  /\ Goto("restore")
  /\ UNCHANGED <<args, i, store, baseline, report, summary, hits, lcov>>

reset ==
  /\ pc = "reset" /\ i <= Len(Targets)
  /\ store' = {} /\ touched' = {} /\ fixed' = <<>>
  /\ Goto("restore")
  /\ UNCHANGED <<args, i, baseline, report, summary, hits, lcov>>

restore_snapshot ==
  /\ pc = "restore"
  /\ store' = store \cup baseline
  /\ Goto("fix")
  /\ UNCHANGED <<args, i, baseline, touched, fixed, report, summary, hits, lcov>>

Read(objs) == store' = store \cup objs /\ touched' = touched \cup objs

\* The how manyth parameter of its type position p of ps is.
Rank(ps, p) == Cardinality({q \in 1..p : ps[q] = ps[p]})

\* The positions an object is injected at: their type has a mapped object left.
MappedPositions(ps) ==
  {p \in 1..Len(ps) : ps[p] \in ObjectTypes /\ Rank(ps, p) <= Len(Mapped[ps[p]])}

\* Every object parameter takes the next mapped object of its type; an object
\* that is neither owned, immutable nor shared ends the whole run.
build_test_fixed_args ==
  LET ps == params[i]
      objectAt == [p \in MappedPositions(ps) |-> Mapped[ps[p]][Rank(ps, p)]]
      objs == {objectAt[p] : p \in DOMAIN objectAt}
  IN  /\ pc = "fix"
      /\ Read(objs)
      /\ \/ /\ \A o \in objs : owner[o] = "direct"
            /\ fixed' = objectAt
            /\ Goto("append")
         \/ /\ \E o \in objs : owner[o] = "child"
            /\ fixed' = fixed
            /\ End("err", "fixed_args")
      /\ UNCHANGED <<args, i, baseline, report, summary, hits, lcov>>

observe(s, o) == [s EXCEPT !.total = @ + 1, ![o] = @ + 1]

\* Mutant: a function whose sequence cannot be built is skipped.
record_built(o) ==
  /\ IF o = "SequenceBuildFailure" THEN UNCHANGED <<report, summary>>
     ELSE /\ report' = Append(report, [function |-> Targets[i], outcome |-> o])
          /\ summary' = observe(summary, o)
  /\ i' = i + 1
  /\ Goto("reset")

record(o) ==
  /\ report' = Append(report, [function |-> Targets[i], outcome |-> o])
  /\ summary' = observe(summary, o)
  /\ i' = i + 1
  /\ Goto("reset")

append_function(read) ==
  /\ pc = "append" /\ Read(read)
  /\ \/ Goto("run") /\ UNCHANGED <<i, report, summary>>
     \/ record("SequenceBuildFailure")
  /\ UNCHANGED <<args, baseline, fixed, hits, lcov>>

\* Mutant: the coverage of a function that failed is thrown away.
run_ptb_ok_only(read) ==
  /\ pc = "run" /\ Read(read)
  /\ \E o \in {"ExecutionFailure", "OracleCrash", "Ok"} :
       record(o) /\ hits' = IF o = "Ok" THEN hits \cup {i} ELSE hits
  /\ UNCHANGED <<args, baseline, fixed, lcov>>

\* apply_hooks, to_ptb, and the transaction; an error of the executor (as
\* opposed to a failed transaction) ends the whole run.
run_ptb(read) ==
  /\ pc = "run" /\ Read(read)
  /\ \/ \E o \in {"ExecutionFailure", "OracleCrash", "Ok"} : record(o) /\ hits' = hits \cup {i}
     \/ /\ \E c \in {"to_ptb", "executor"} : End("err", c)
        /\ UNCHANGED <<i, report, summary, hits>>
  /\ UNCHANGED <<args, baseline, fixed, lcov>>

-----------------------------------------------------------------------------
(* After the loop.                                                          *)

render_lcov ==
  /\ pc = "reset" /\ i > Len(Targets)
  /\ lcov' = [lcov EXCEPT !.embedded = IF Coverage THEN {hits} ELSE {}]
  /\ Goto("write_lcov")
  /\ UNCHANGED <<args, i, store, baseline, touched, fixed, report, summary, hits>>

write_lcov ==
  /\ pc = "write_lcov"
  /\ \/ lcov' = [lcov EXCEPT !.file = IF lcovPath THEN lcov.embedded ELSE {}] /\ Goto("output")
     \/ lcovPath /\ End("err", "output") /\ UNCHANGED lcov
  /\ UNCHANGED <<args, i, store, baseline, touched, fixed, report, summary, hits>>

write_machine ==
  /\ pc = "output" /\ machine
  /\ \/ lcov' = [lcov EXCEPT !.json = {report}] /\ End("ok", "outcome")
     \/ End("err", "output") /\ UNCHANGED lcov
  /\ UNCHANGED <<args, i, store, baseline, touched, fixed, report, summary, hits>>

all_ok(s) == s.total > 0 /\ s["Ok"] = s.total

render_human ==
  /\ pc = "output" /\ ~machine
  /\ End(IF all_ok(summary) THEN "ok" ELSE "err", "outcome")
  /\ UNCHANGED <<args, i, store, baseline, touched, fixed, report, summary, hits, lcov>>

Next ==
  \/ \E read \in SUBSET Objects : prepare(read)
  \/ dump_snapshot \/ reset \/ restore_snapshot
  \/ build_test_fixed_args
  \/ \E read \in SUBSET Objects : append_function(read)
  \/ \E read \in SUBSET Objects : run_ptb(read)
  \/ render_lcov \/ write_lcov \/ write_machine \/ render_human

Spec == Init /\ [][Next]_vars

-----------------------------------------------------------------------------
\* No function sees what an earlier one left in the cache: between the restore
\* and the end of its run the store is the baseline and what it read itself.
FunctionsIsolated ==
  pc \in {"fix", "append", "run"} => store = baseline \cup touched

Count(o) == Cardinality({k \in DOMAIN report : report[k].outcome = o})

\* A command that got as far as its report tells the caller the truth: the
\* report has one entry per selected function in their order, whatever each of
\* them ended with, and its summary counts those entries; exit status 0 means in
\* human mode that every function passed, and in machine mode that this report
\* has been written.
ReportComplete ==
  cause = "outcome" =>
    /\ [k \in DOMAIN report |-> report[k].function] = Targets
    /\ summary.total = Len(report) /\ \A o \in Outcomes : summary[o] = Count(o)
    /\ machine => lcov.json = {report} /\ exit = "ok"
    /\ ~machine => (exit = "ok" <=> \A k \in DOMAIN report : report[k].outcome = "Ok")

\* The coverage in the report and its copy on disk agree, and they include
\* every function that was executed, failed ones too.
CoverageComplete ==
  exit = "ok" =>
    /\ lcovPath => lcov.file = lcov.embedded /\ lcov.file # {}
    /\ \A covered \in lcov.embedded :
         covered = {k \in 1..Len(report) : report[k].outcome # "SequenceBuildFailure"}
=============================================================================
