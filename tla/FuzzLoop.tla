------------------------------ MODULE FuzzLoop ------------------------------
(***************************************************************************)
(* A fuzzing campaign of movy-fuzz: the loop of operations/sui_fuzz.rs, the *)
(* two mutators with their stage replay (mutators/sequence.rs, arg.rs,     *)
(* utils.rs), the executor (executor.rs) and the feedback that attaches    *)
(* outcomes to test cases (utils.rs).                                      *)
(*                                                                         *)
(* A sequence is a model value with a number of commands.  Executing it    *)
(* always ends the same way (the executor commits to an overlay that is    *)
(* thrown away), but oracles keep state, so their findings are left open.  *)
(* External: libafl's fuzzer, scheduler, calibration and mutational stage. *)
(***************************************************************************)
EXTENDS Integers, FiniteSets

CONSTANTS
  Sequences, Length,  \* command sequences and their number of commands
  Initial,            \* the empty sequence every campaign starts from
  None,
  Edges,              \* slots of the coverage map besides slot 0
  MaxReplay,          \* MAX_STAGE_REPLAY_ATTEMPTS
  MaxIterations,      \* with_max_iterations of a mutational stage
  CycleLimit          \* --cycle-limit

ASSUME ConstantsAssumption ==
  /\ Length \in [Sequences -> Nat] /\ Initial \in Sequences /\ Length[Initial] = 0
  /\ None \notin Sequences
  /\ MaxReplay \in Nat \ {0} /\ MaxIterations \in Nat \ {0} /\ CycleLimit \in Nat

NoStage == -1
Kinds == {"Sequence", "Magic"}
Statuses(s) == {[ok |-> TRUE, stage |-> NoStage]}
          \cup {[ok |-> FALSE, stage |-> c] : c \in {NoStage} \cup (0..(Length[s] - 1))}
NoOutcome == [of |-> None, stage |-> NoStage, success |-> FALSE, verdict |-> "Ok"]
NoReplay == [stage |-> NoStage, snapshot |-> None, of |-> None]

VARIABLES
  status, edges,   \* what executing a sequence does
  corpus, crashes, \* test cases: a sequence and its recorded outcome
  history,         \* the slots the coverage feedback has seen
  map,             \* the code observer after the last execution
  outcome,         \* global_outcome (of: ghost, the sequence it describes)
  mutator,         \* current_mutator
  replay,          \* per mutator its StageReplay
  pc, parent, left, cycle,
  calibrated,      \* test cases that have been scheduled before
  child,           \* the mutated sequence, while it is evaluated
  decision,        \* ghost: the last Replay decision and whose outcome it used
  found            \* ghost: mutated sequences some oracle reported

program == <<status, edges>>
feedback == <<corpus, crashes, history>>
mutation == <<mutator, replay, decision>>
vars == <<program, feedback, map, outcome, mutation, pc, parent, left, cycle, calibrated, child, found>>

NewReplay == [cached |-> None, fingerprint |-> None, stage |-> NoStage, attempts |-> 0]

Init ==
  /\ status \in [Sequences -> UNION {Statuses(s) : s \in Sequences}]
  /\ \A s \in Sequences : status[s] \in Statuses(s)
  /\ edges \in [Sequences -> SUBSET Edges] /\ edges[Initial] = {}
  /\ corpus = {} /\ crashes = {} /\ history = {} /\ map = {}
  /\ outcome = NoOutcome /\ mutator = None
  /\ replay = [k \in Kinds |-> NewReplay]
  /\ pc = "add_input" /\ parent = None /\ left = 0 /\ cycle = 1
  /\ calibrated = {} /\ child = None /\ decision = NoReplay /\ found = {}

-----------------------------------------------------------------------------
(* SuiFuzzExecutor::run_target.                                             *)

\* Mutant: the outcome the oracles looked at is never replaced by the final one.
run_target_preliminary(s, finding) ==
  /\ map' = IF status[s].ok THEN {0} \cup edges[s] ELSE {}
  /\ outcome' = [of |-> s, stage |-> status[s].stage, success |-> status[s].ok,
                 verdict |-> IF finding = "trace" THEN "Crash" ELSE "Ok"]

\* Mutant: the map of a failed execution is kept.
run_target_keep_map(s, finding) ==
  /\ map' = {0} \cup edges[s]
  /\ outcome' = [of |-> s, stage |-> status[s].stage, success |-> status[s].ok,
                 verdict |-> IF finding = "none" THEN "Ok" ELSE "Crash"]

\* Mutant: an outcome nobody has taken yet is not replaced.
run_target_first(s, finding) ==
  /\ map' = IF status[s].ok THEN {0} \cup edges[s] ELSE {}
  /\ outcome' = IF outcome # NoOutcome THEN outcome
                ELSE [of |-> s, stage |-> status[s].stage, success |-> status[s].ok,
                      verdict |-> IF finding = "none" THEN "Ok" ELSE "Crash"]

\* Slot 0 is always hit, a failed execution leaves an empty map; a finding of
\* an oracle, while tracing or after the execution, makes the verdict a crash.
run_target(s, finding) ==
  /\ map' = IF status[s].ok THEN {0} \cup edges[s] ELSE {}
  /\ outcome' = [of |-> s, stage |-> status[s].stage, success |-> status[s].ok,
                 verdict |-> IF finding = "none" THEN "Ok" ELSE "Crash"]

Findings == {"none", "trace", "done"}

\* AppendOutcomeFeedback::append_metadata takes the outcome away.
AppendedTestCase(s) == [seq |-> s, outcome |-> outcome]

-----------------------------------------------------------------------------
(* The campaign.                                                            *)

\* The empty input is added whatever its execution shows.
add_input ==
  /\ pc = "add_input" /\ child = None
  /\ run_target(Initial, "none")
  /\ child' = Initial
  /\ UNCHANGED <<program, feedback, mutation, pc, parent, left, cycle, calibrated, found>>

append_initial ==
  /\ pc = "add_input" /\ child = Initial
  /\ corpus' = {AppendedTestCase(Initial)}
  /\ history' = map
  /\ outcome' = NoOutcome /\ child' = None /\ pc' = "round"
  /\ UNCHANGED <<program, crashes, map, mutation, parent, left, cycle, calibrated, found>>

\* The time limit, if there is one, is looked at between rounds only.
time_over ==
  /\ pc = "round"
  /\ pc' = "end"
  /\ UNCHANGED <<program, feedback, map, outcome, mutation, parent, left, cycle, calibrated, child, found>>

limit_reached ==
  /\ pc = "round" /\ cycle >= CycleLimit
  /\ pc' = "end"
  /\ UNCHANGED <<program, feedback, map, outcome, mutation, parent, left, cycle, calibrated, child, found>>

\* fuzz_one: the scheduler picks any test case.
schedule(t) ==
  /\ pc = "round" /\ cycle < CycleLimit
  /\ parent' = t.seq
  /\ pc' = IF t.seq \in calibrated THEN "Sequence" ELSE "calibrate"
  /\ left' = MaxIterations
  /\ UNCHANGED <<program, feedback, map, outcome, mutation, cycle, calibrated, child, found>>

\* CalibrationStage runs a test case the first time it is scheduled.
calibrate ==
  /\ pc = "calibrate"
  /\ \E f \in Findings : run_target(parent, f)
  /\ pc' = "calibrated"
  /\ UNCHANGED <<program, feedback, mutation, parent, left, cycle, calibrated, child, found>>

calibrate_ok ==
  /\ pc = "calibrated" /\ map # {}
  /\ calibrated' = calibrated \cup {parent} /\ pc' = "Sequence"
  /\ UNCHANGED <<program, feedback, map, outcome, mutation, parent, left, cycle, child, found>>

\* Mutant: skipping a test case is not counted as a cycle.
skip_invalid_corpus_uncounted ==
  /\ pc = "calibrated" /\ map = {}
  /\ pc' = "round"
  /\ UNCHANGED <<program, feedback, map, outcome, mutation, parent, left, cycle, calibrated, child, found>>

\* Error::InvalidCorpus: an empty map.  The round is skipped before it clears
\* the outcome.
skip_invalid_corpus ==
  /\ pc = "calibrated" /\ map = {}
  /\ pc' = "round" /\ cycle' = cycle + 1
  /\ UNCHANGED <<program, feedback, map, outcome, mutation, parent, left, calibrated, child, found>>

\* Any other error of a round ends the campaign.
fuzz_error ==
  /\ pc \in {"calibrate", "Sequence", "Magic"} /\ child = None
  /\ pc' = "end"
  /\ UNCHANGED <<program, feedback, map, outcome, mutation, parent, left, cycle, calibrated, child, found>>

-----------------------------------------------------------------------------
(* Mutation: StageReplay::decide and the two mutators.                      *)

Progress(r, stage, attempts) == [r EXCEPT !.stage = stage, !.attempts = attempts]
reset_progress(r) == Progress(r, NoStage, 0)
restart_progress(r) == Progress(r, 0, 0)

\* Retry the failing command, or the one after the last retried; give up and start
\* over at command 0 when the attempts are used up.
advance(r, stage) ==
  LET to == IF r.stage # NoStage /\ stage > r.stage THEN r.stage + 1 ELSE stage
      n == IF to # r.stage THEN 1 ELSE r.attempts + 1
  IN  IF n >= MaxReplay THEN restart_progress(r) ELSE Progress(r, to, n)

\* Mutant: the outcome of the other mutator's last input is replayed too.
decide_any_mutator(k, s) ==
  LET r == replay[k]
      seen == [r EXCEPT !.fingerprint = s]
  IN  IF r.fingerprint \notin {None, s} THEN [reset_progress(seen) EXCEPT !.cached = None]
      ELSE IF outcome.stage = NoStage THEN reset_progress(seen)
      ELSE advance(seen, outcome.stage)

\* The StageReplay of mutator k after it has been asked about test case s.
decide(k, s) ==
  LET r == replay[k]
      seen == [r EXCEPT !.fingerprint = s]
  IN  IF r.fingerprint \notin {None, s} THEN [reset_progress(seen) EXCEPT !.cached = None]
      ELSE IF mutator # k \/ outcome.stage = NoStage THEN reset_progress(seen)
      ELSE advance(seen, outcome.stage)

Replays(r) == r.stage # NoStage /\ r.cached # None

\* mutate_arg and solve_arg keep the commands; they find nothing to mutate in
\* an empty sequence or behind its end.
ArgMutants(s, stage) ==
  {q \in Sequences : Length[q] = Length[s] /\ Length[s] > 0 /\ stage < Length[s]}

\* What a mutator can make of the test case: the sequence mutator builds any
\* sequence afresh, the other changes the arguments of the test case.
Mutants(k, r) ==
  IF Replays(r) THEN ArgMutants(r.cached, r.stage)
  ELSE IF k = "Sequence" THEN Sequences
  ELSE ArgMutants(parent, NoStage)

Decided(k, r) ==
  decision' = IF Replays(r) THEN [stage |-> r.stage, snapshot |-> r.cached, of |-> outcome.of]
              ELSE NoReplay

\* MutationResult::Skipped: nothing is executed.
mutate_skipped(k) ==
  LET r == decide(k, parent) IN
  /\ pc = k /\ child = None /\ left > 0
  /\ replay' = [replay EXCEPT ![k] = r]
  /\ Decided(k, r)
  /\ left' = left - 1
  /\ UNCHANGED <<program, feedback, map, outcome, mutator, pc, parent, cycle, calibrated, child, found>>

\* MutationResult::Mutated: record_success, then the stage runs the child.
mutate(k, q, finding) ==
  LET r == decide(k, parent) IN
  /\ pc = k /\ child = None /\ left > 0
  /\ q \in Mutants(k, r)
  /\ replay' = [replay EXCEPT ![k] = [r EXCEPT !.cached = q]]
  /\ Decided(k, r)
  /\ mutator' = k
  /\ run_target(q, finding)
  /\ child' = q /\ left' = left - 1
  /\ found' = IF finding = "none" THEN found ELSE found \cup {q}
  /\ UNCHANGED <<program, feedback, pc, parent, cycle, calibrated>>

-----------------------------------------------------------------------------
(* StdFuzzer's evaluation of the child.                                     *)

\* CrashFeedback: the child becomes a solution.
objective_found ==
  /\ pc \in Kinds /\ child # None /\ outcome.verdict = "Crash"
  /\ crashes' = crashes \cup {AppendedTestCase(child)}
  /\ outcome' = NoOutcome /\ child' = None
  /\ UNCHANGED <<program, corpus, history, map, mutation, pc, parent, left, cycle, calibrated, found>>

\* OkFeedback, and coverage nobody has seen.
corpus_grows ==
  /\ pc \in Kinds /\ child # None /\ outcome.verdict = "Ok" /\ ~ map \subseteq history
  /\ corpus' = corpus \cup {AppendedTestCase(child)}
  /\ history' = history \cup map
  /\ outcome' = NoOutcome /\ child' = None
  /\ UNCHANGED <<program, crashes, map, mutation, pc, parent, left, cycle, calibrated, found>>

discard ==
  /\ pc \in Kinds /\ child # None /\ outcome.verdict = "Ok" /\ map \subseteq history
  /\ child' = None
  /\ UNCHANGED <<program, feedback, map, outcome, mutation, pc, parent, left, cycle, calibrated, found>>

\* A mutational stage ends after any number of iterations up to its maximum.
stage_over ==
  /\ pc \in Kinds /\ child = None /\ left < MaxIterations
  /\ left' = MaxIterations
  /\ \/ pc = "Sequence" /\ pc' = "Magic"
     \/ pc = "Magic" /\ pc' = "round_over"
  /\ UNCHANGED <<program, feedback, map, outcome, mutation, parent, cycle, calibrated, child, found>>

\* The outcome of the round is dropped.
round_over ==
  /\ pc = "round_over"
  /\ outcome' = NoOutcome
  /\ cycle' = cycle + 1 /\ pc' = "round"
  /\ UNCHANGED <<program, feedback, map, mutation, parent, left, calibrated, child, found>>

Next ==
  \/ add_input \/ append_initial \/ time_over \/ limit_reached
  \/ \E t \in corpus : schedule(t)
  \/ calibrate \/ calibrate_ok \/ skip_invalid_corpus \/ fuzz_error
  \/ \E k \in Kinds : mutate_skipped(k)
  \/ \E k \in Kinds, q \in Sequences, f \in Findings : mutate(k, q, f)
  \/ objective_found \/ corpus_grows \/ discard
  \/ stage_over \/ round_over

Spec == Init /\ [][Next]_vars /\ WF_vars(Next)

-----------------------------------------------------------------------------
Outcomes == [of : Sequences \cup {None}, stage : Nat \cup {NoStage}, success : BOOLEAN,
             verdict : {"Ok", "Crash"}]

(* Type correctness.                                                        *)
TypeOK ==
  /\ corpus \subseteq [seq : Sequences, outcome : Outcomes]
  /\ crashes \subseteq [seq : Sequences, outcome : Outcomes]
  /\ history \subseteq {0} \cup Edges /\ map \subseteq {0} \cup Edges
  /\ outcome \in Outcomes /\ mutator \in Kinds \cup {None}
  /\ replay \in [Kinds -> [cached : Sequences \cup {None}, fingerprint : Sequences \cup {None},
                           stage : Nat \cup {NoStage}, attempts : 0..(MaxReplay - 1)]]
  /\ parent \in Sequences \cup {None} /\ child \in Sequences \cup {None}
  /\ left \in 0..MaxIterations /\ cycle \in 1..(CycleLimit + 1)

\* A replay is aimed at a command of the sequence it replays, and at one that
\* the failing execution of this very sequence reached: the outcome shared by
\* both mutators is never applied to the other one's sequence.
ReplayOfOwnFailure ==
  decision # NoReplay =>
    /\ decision.of = decision.snapshot
    /\ decision.stage <= status[decision.of].stage

\* The outcome stored with a test case is the outcome of running it.
OutcomesAttached ==
  /\ \A t \in corpus \cup crashes : t.outcome.of = t.seq
  /\ \A t \in crashes : t.outcome.verdict = "Crash"

\* Every test case but the initial one ran to success without a finding, and
\* brought coverage that no failing run is credited with.
CorpusSound ==
  /\ \A t \in corpus : t.seq # Initial => status[t.seq].ok /\ t.outcome.verdict = "Ok"
  /\ history \subseteq {0} \cup UNION {edges[s] : s \in {q \in Sequences : status[q].ok}}

\* No finding about a mutated sequence is lost, whichever oracle reported it
\* and whether or not the execution succeeded.
FindingsKept ==
  child = None => found \subseteq {t.seq : t \in crashes}

\* With a cycle limit the campaign ends.
CampaignEnds == <>(pc = "end")
=============================================================================
