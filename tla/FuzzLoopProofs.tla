--------------------------- MODULE FuzzLoopProofs ---------------------------
(***************************************************************************)
(* Proofs about FuzzLoop for any set of sequences, any coverage map and    *)
(* any limits.                                                             *)
(***************************************************************************)
EXTENDS FuzzLoop, TLAPS

\* Executing a sequence fails at one of its commands or at none of them.
ProgramOK ==
  /\ status \in [Sequences -> [ok : BOOLEAN, stage : Int]]
  /\ \A s \in Sequences : status[s] \in Statuses(s)
  /\ edges \in [Sequences -> SUBSET Edges]

\* While a child is evaluated, the outcome and the map are those of its execution.
ChildEvaluated ==
  child # None =>
    /\ pc \in Kinds \cup {"add_input"}
    /\ outcome.of = child /\ outcome.stage = status[child].stage
    /\ map = IF status[child].ok THEN {0} \cup edges[child] ELSE {}
    /\ pc = "add_input" => child = Initial /\ outcome.verdict = "Ok"

\* An outcome with a failing command is the one of the sequence the current
\* mutator made last, unless that mutator has dropped its snapshot.
OutcomeOfMutator ==
  outcome.stage # NoStage =>
    /\ outcome.of \in Sequences /\ outcome.stage = status[outcome.of].stage
    /\ mutator \in Kinds /\ replay[mutator].cached \in {None, outcome.of}

\* A test case never fails at a command of its own.
CorpusRuns ==
  /\ \A t \in corpus : status[t.seq].stage = NoStage
  /\ pc \in Kinds \cup {"calibrate", "calibrated"} => parent \in Sequences /\ status[parent].stage = NoStage

\* A finding about the child shows in the verdict.
FindingShown ==
  found \subseteq {t.seq : t \in crashes}
            \cup (IF child # None /\ outcome.verdict = "Crash" THEN {child} ELSE {})

\* A round only starts, and only goes on, below the cycle limit.
RoundBelowLimit ==
  pc \in Kinds \cup {"calibrate", "calibrated", "round_over"} => cycle < CycleLimit

\* The inductive invariant.
IInv ==
  /\ TypeOK /\ ProgramOK /\ ChildEvaluated /\ OutcomeOfMutator /\ CorpusRuns
  /\ FindingShown /\ RoundBelowLimit
  /\ ReplayOfOwnFailure /\ OutcomesAttached /\ CorpusSound

-----------------------------------------------------------------------------
\* What the statuses of a sequence can be.
LEMMA StatusFacts ==
  ASSUME ProgramOK, NEW s \in Sequences
  PROVE  /\ status[s].ok \in BOOLEAN
         /\ status[s].stage \in Nat \cup {NoStage}
         /\ status[s].ok => status[s].stage = NoStage
         /\ Length[s] = 0 => status[s].stage = NoStage
BY ConstantsAssumption DEF ProgramOK, Statuses, NoStage

\* run_target leaves a well-typed outcome and map that describe the sequence it ran.
LEMMA RunFacts ==
  ASSUME ProgramOK, NEW s \in Sequences, NEW f \in Findings, run_target(s, f)
  PROVE  /\ outcome' \in Outcomes /\ map' \subseteq {0} \cup Edges
         /\ outcome'.of = s /\ outcome'.stage = status[s].stage
         /\ outcome'.verdict = (IF f = "none" THEN "Ok" ELSE "Crash")
         /\ map' = IF status[s].ok THEN {0} \cup edges[s] ELSE {}
BY StatusFacts DEF run_target, Outcomes, ProgramOK

\* decide yields a well-typed StageReplay; the snapshot it keeps is the one it
\* had or none, and when it asks for a replay the mutator is the current one and
\* the command is at most the failing one.
LEMMA DecideFacts ==
  ASSUME TypeOK, NEW k \in Kinds, NEW s \in Sequences, NEW STATE r, r = decide(k, s)
  PROVE  /\ r \in [cached : Sequences \cup {None}, fingerprint : Sequences \cup {None},
                   stage : Nat \cup {NoStage}, attempts : 0..(MaxReplay - 1)]
         /\ r.cached \in {None, replay[k].cached}
         /\ Replays(r) => /\ mutator = k /\ outcome.stage # NoStage
                          /\ r.stage <= outcome.stage
<1> DEFINE R == [cached : Sequences \cup {None}, fingerprint : Sequences \cup {None},
                 stage : Nat \cup {NoStage}, attempts : 0..(MaxReplay - 1)]
           old == replay[k]
           seen == [old EXCEPT !.fingerprint = s]
<1>1. old \in R /\ MaxReplay \in Nat \ {0}
  BY ConstantsAssumption DEF TypeOK
<1>2. seen \in R /\ seen.cached = old.cached
  BY <1>1
<1>3. outcome.stage \in Nat \cup {NoStage}
  BY DEF TypeOK, Outcomes
<1>7. 0 \in 0..(MaxReplay - 1) /\ 0 \in Nat \cup {NoStage} /\ NoStage \in Nat \cup {NoStage}
  BY <1>1
<1>8. \A q \in R, st \in Nat \cup {NoStage}, a \in 0..(MaxReplay - 1) :
        /\ Progress(q, st, a) \in R
        /\ Progress(q, st, a).cached = q.cached /\ Progress(q, st, a).stage = st
  BY DEF Progress
<1>9. \A q \in R : [q EXCEPT !.cached = None] \in R /\ [q EXCEPT !.cached = None].cached = None
  OBVIOUS
<1>10. reset_progress(seen) \in R
       /\ reset_progress(seen).cached = seen.cached /\ reset_progress(seen).stage = NoStage
  <2> HIDE DEF R, seen
  <2> QED BY <1>2, <1>7, <1>8 DEF reset_progress
<1>11. SUFFICES /\ r \in R /\ r.cached \in {None, old.cached}
                /\ Replays(r) => /\ mutator = k /\ outcome.stage # NoStage
                                 /\ r.stage <= outcome.stage
  OBVIOUS
<1> HIDE DEF R, seen, old
<1>4. CASE old.fingerprint \notin {None, s}
  <2>1. r = [reset_progress(seen) EXCEPT !.cached = None]
    BY <1>4 DEF decide, seen, old
  <2>2. r \in R /\ r.cached = None
    BY <1>9, <1>10, <2>1, Zenon
  <2> QED BY <2>2 DEF Replays
<1>5. CASE old.fingerprint \in {None, s} /\ (mutator # k \/ outcome.stage = NoStage)
  <2>1. r = reset_progress(seen)
    BY <1>5 DEF decide, seen, old
  <2> QED BY <1>2, <1>10, <2>1 DEF Replays
<1>6. CASE old.fingerprint \in {None, s} /\ mutator = k /\ outcome.stage # NoStage
  <2>1. r = advance(seen, outcome.stage)
    BY <1>6 DEF decide, seen, old
  <2> DEFINE to == IF seen.stage # NoStage /\ outcome.stage > seen.stage THEN seen.stage + 1
                   ELSE outcome.stage
             n == IF to # seen.stage THEN 1 ELSE seen.attempts + 1
  <2>2. to \in Nat /\ to <= outcome.stage /\ n \in Nat
    BY <1>1, <1>2, <1>3, <1>6 DEF NoStage, R
  <2>3. CASE n >= MaxReplay
    <3>1. r = Progress(seen, 0, 0)
      BY <2>1, <2>3 DEF advance, restart_progress
    <3>2. r \in R /\ r.cached = seen.cached /\ r.stage = 0
      BY <3>1, <1>2, <1>7, <1>8
    <3>3. 0 <= outcome.stage
      BY <1>3, <1>6 DEF NoStage
    <3> QED BY <3>2, <3>3, <1>2, <1>6
  <2>4. CASE ~ n >= MaxReplay
    <3>1. r = Progress(seen, to, n)
      BY <2>1, <2>4 DEF advance
    <3>2. n \in 0..(MaxReplay - 1) /\ to \in Nat \cup {NoStage}
      BY <1>1, <2>2, <2>4
    <3> HIDE DEF to, n
    <3>4. /\ Progress(seen, to, n) \in R
          /\ Progress(seen, to, n).cached = seen.cached /\ Progress(seen, to, n).stage = to
      BY <3>2, <1>2, <1>8
    <3>3. r \in R /\ r.cached = seen.cached /\ r.stage = to
      BY <3>1, <3>4
    <3> QED BY <3>3, <1>2, <2>2, <1>6
  <2> QED BY <2>3, <2>4
<1> QED BY <1>4, <1>5, <1>6

-----------------------------------------------------------------------------
\* The campaign starts in the inductive invariant.
LEMMA InvInit == Init => IInv
<1> SUFFICES ASSUME Init PROVE IInv
  OBVIOUS
<1>1. ProgramOK
  <2>1. \A s \in Sequences : Statuses(s) \subseteq [ok : BOOLEAN, stage : Int]
    <3> SUFFICES ASSUME NEW s \in Sequences, NEW x \in Statuses(s)
                 PROVE  x \in [ok : BOOLEAN, stage : Int]
      OBVIOUS
    <3>1. Length[s] \in Nat
      BY ConstantsAssumption
    <3>2. CASE x = [ok |-> TRUE, stage |-> NoStage]
      BY <3>2 DEF NoStage
    <3>3. ASSUME NEW c \in {NoStage} \cup (0..(Length[s] - 1)), x = [ok |-> FALSE, stage |-> c]
          PROVE  x \in [ok : BOOLEAN, stage : Int]
      <4>1. c \in Int
        BY <3>1 DEF NoStage
      <4> QED BY <3>3, <4>1
    <3> QED BY <3>2, <3>3 DEF Statuses
  <2> QED BY <2>1 DEF Init, ProgramOK
<1>2. TypeOK
  BY ConstantsAssumption DEF Init, TypeOK, Outcomes, NoOutcome, NewReplay, NoStage
<1>3. ChildEvaluated /\ OutcomeOfMutator /\ CorpusRuns /\ FindingShown /\ RoundBelowLimit
  BY DEF Init, ChildEvaluated, OutcomeOfMutator, CorpusRuns, FindingShown, RoundBelowLimit,
         NoOutcome, Kinds
<1>4. ReplayOfOwnFailure /\ OutcomesAttached /\ CorpusSound
  BY DEF Init, ReplayOfOwnFailure, OutcomesAttached, CorpusSound
<1> QED BY <1>1, <1>2, <1>3, <1>4 DEF IInv

\* Every step of the campaign keeps the inductive invariant.
LEMMA InvStep == IInv /\ [Next]_vars => IInv'
<1> SUFFICES ASSUME IInv, [Next]_vars PROVE IInv'
  OBVIOUS
<1> USE ConstantsAssumption DEF IInv, Kinds, NoStage
<1>a. ASSUME UNCHANGED program PROVE ProgramOK'
  BY <1>a DEF ProgramOK, program, Statuses
<1>b. NoOutcome \in Outcomes
  BY DEF NoOutcome, Outcomes
<1>c. status[Initial].stage = NoStage
  BY StatusFacts
<1>1. ASSUME add_input PROVE IInv'
  <2>r. run_target(Initial, "none") /\ "none" \in Findings
    BY <1>1 DEF add_input, Findings
  <2>f. /\ outcome' \in Outcomes /\ map' \subseteq {0} \cup Edges
        /\ outcome'.of = Initial /\ outcome'.stage = status[Initial].stage
        /\ outcome'.verdict = "Ok"
        /\ map' = IF status[Initial].ok THEN {0} \cup edges[Initial] ELSE {}
    BY <2>r, RunFacts
  <2>1. /\ ProgramOK' /\ CorpusRuns' /\ RoundBelowLimit'
        /\ ReplayOfOwnFailure' /\ OutcomesAttached' /\ CorpusSound'
    BY <1>1, <1>a DEF add_input, CorpusRuns, RoundBelowLimit, ReplayOfOwnFailure, OutcomesAttached, CorpusSound, program, feedback, mutation
  <2>2. TypeOK'
    BY <1>1, <2>f DEF add_input, TypeOK, program, feedback, mutation
  <2>3. ChildEvaluated'
    BY <1>1, <2>f DEF add_input, ChildEvaluated, program, feedback, mutation
  <2>4. OutcomeOfMutator'
    BY <1>1, <2>f, <1>c DEF add_input, OutcomeOfMutator, program, feedback, mutation
  <2>5. FindingShown'
    BY <1>1, <2>f DEF add_input, FindingShown, program, feedback, mutation
  <2> QED BY <2>1, <2>2, <2>3, <2>4, <2>5
<1>2. ASSUME append_initial PROVE IInv'
  <2>t. AppendedTestCase(Initial) = [seq |-> Initial, outcome |-> outcome] /\ outcome.of = Initial
    BY <1>2 DEF append_initial, AppendedTestCase, ChildEvaluated
  <2>1. ProgramOK' /\ ChildEvaluated' /\ RoundBelowLimit' /\ ReplayOfOwnFailure'
    BY <1>2, <1>a DEF append_initial, ChildEvaluated, RoundBelowLimit, ReplayOfOwnFailure, program, feedback, mutation
  <2>2. TypeOK'
    BY <1>2, <1>b, <2>t DEF append_initial, TypeOK, program, feedback, mutation
  <2>3. OutcomeOfMutator'
    BY <1>2 DEF append_initial, OutcomeOfMutator, NoOutcome, program, feedback, mutation
  <2>4. CorpusRuns'
    BY <1>2, <1>c, <2>t DEF append_initial, CorpusRuns, program, feedback, mutation
  <2>5. FindingShown'
    BY <1>2 DEF append_initial, FindingShown, ChildEvaluated, program, feedback, mutation
  <2>6. OutcomesAttached'
    BY <1>2, <2>t DEF append_initial, OutcomesAttached, program, feedback, mutation
  <2>7. CorpusSound'
    BY <1>2, <2>t DEF append_initial, CorpusSound, ChildEvaluated, program, feedback, mutation
  <2> QED BY <2>1, <2>2, <2>3, <2>4, <2>5, <2>6, <2>7
<1>3. ASSUME time_over PROVE IInv'
  <2>1. /\ TypeOK' /\ ProgramOK' /\ ChildEvaluated' /\ OutcomeOfMutator' /\ CorpusRuns'
        /\ FindingShown' /\ RoundBelowLimit' /\ ReplayOfOwnFailure' /\ OutcomesAttached' /\ CorpusSound'
    BY <1>3, <1>a DEF time_over, TypeOK, ChildEvaluated, OutcomeOfMutator, CorpusRuns, FindingShown, RoundBelowLimit, ReplayOfOwnFailure, OutcomesAttached, CorpusSound, program, feedback, mutation
  <2> QED BY <2>1
<1>4. ASSUME limit_reached PROVE IInv'
  <2>1. /\ TypeOK' /\ ProgramOK' /\ ChildEvaluated' /\ OutcomeOfMutator' /\ CorpusRuns'
        /\ FindingShown' /\ RoundBelowLimit' /\ ReplayOfOwnFailure' /\ OutcomesAttached' /\ CorpusSound'
    BY <1>4, <1>a DEF limit_reached, TypeOK, ChildEvaluated, OutcomeOfMutator, CorpusRuns, FindingShown, RoundBelowLimit, ReplayOfOwnFailure, OutcomesAttached, CorpusSound, program, feedback, mutation
  <2> QED BY <2>1
<1>5. ASSUME NEW t \in corpus, schedule(t) PROVE IInv'
  <2>t. t.seq \in Sequences /\ status[t.seq].stage = NoStage
    BY DEF TypeOK, CorpusRuns
  <2>1. /\ ProgramOK' /\ ChildEvaluated' /\ OutcomeOfMutator' /\ FindingShown'
        /\ RoundBelowLimit' /\ ReplayOfOwnFailure' /\ OutcomesAttached' /\ CorpusSound'
    BY <1>5, <1>a DEF schedule, ChildEvaluated, OutcomeOfMutator, FindingShown, RoundBelowLimit, ReplayOfOwnFailure, OutcomesAttached, CorpusSound, program, feedback, mutation
  <2>2. TypeOK'
    BY <1>5, <2>t DEF schedule, TypeOK, program, feedback, mutation
  <2>3. CorpusRuns'
    BY <1>5, <2>t DEF schedule, CorpusRuns, program, feedback, mutation
  <2> QED BY <2>1, <2>2, <2>3
<1>6. ASSUME calibrate PROVE IInv'
  <2>p. parent \in Sequences /\ status[parent].stage = NoStage
    BY <1>6 DEF calibrate, CorpusRuns
  <2>f. /\ outcome' \in Outcomes /\ map' \subseteq {0} \cup Edges
        /\ outcome'.stage = NoStage
    BY <1>6, <2>p, RunFacts DEF calibrate
  <2>1. /\ ProgramOK' /\ ChildEvaluated' /\ CorpusRuns'
        /\ RoundBelowLimit' /\ ReplayOfOwnFailure' /\ OutcomesAttached' /\ CorpusSound'
    BY <1>6, <1>a DEF calibrate, ChildEvaluated, CorpusRuns, RoundBelowLimit, ReplayOfOwnFailure, OutcomesAttached, CorpusSound, program, feedback, mutation
  <2>2. TypeOK'
    BY <1>6, <2>f DEF calibrate, TypeOK, program, feedback, mutation
  <2>3. OutcomeOfMutator'
    BY <1>6, <2>f DEF calibrate, OutcomeOfMutator, program, feedback, mutation
  <2>4. FindingShown'
    BY <1>6 DEF calibrate, FindingShown, ChildEvaluated, program, feedback, mutation
  <2> QED BY <2>1, <2>2, <2>3, <2>4
<1>7. ASSUME calibrate_ok PROVE IInv'
  <2>1. /\ TypeOK' /\ ProgramOK' /\ ChildEvaluated' /\ OutcomeOfMutator' /\ CorpusRuns'
        /\ FindingShown' /\ RoundBelowLimit' /\ ReplayOfOwnFailure' /\ OutcomesAttached' /\ CorpusSound'
    BY <1>7, <1>a DEF calibrate_ok, TypeOK, ChildEvaluated, OutcomeOfMutator, CorpusRuns, FindingShown, RoundBelowLimit, ReplayOfOwnFailure, OutcomesAttached, CorpusSound, program, feedback, mutation
  <2> QED BY <2>1
<1>8. ASSUME skip_invalid_corpus PROVE IInv'
  <2>1. /\ ProgramOK' /\ ChildEvaluated' /\ OutcomeOfMutator' /\ CorpusRuns'
        /\ FindingShown' /\ RoundBelowLimit' /\ ReplayOfOwnFailure' /\ OutcomesAttached' /\ CorpusSound'
    BY <1>8, <1>a DEF skip_invalid_corpus, ChildEvaluated, OutcomeOfMutator, CorpusRuns, FindingShown, RoundBelowLimit, ReplayOfOwnFailure, OutcomesAttached, CorpusSound, program, feedback, mutation
  <2>2. TypeOK'
    BY <1>8 DEF skip_invalid_corpus, TypeOK, RoundBelowLimit, program, feedback, mutation
  <2> QED BY <2>1, <2>2
<1>9. ASSUME fuzz_error PROVE IInv'
  <2>1. /\ TypeOK' /\ ProgramOK' /\ ChildEvaluated' /\ OutcomeOfMutator' /\ CorpusRuns'
        /\ FindingShown' /\ RoundBelowLimit' /\ ReplayOfOwnFailure' /\ OutcomesAttached' /\ CorpusSound'
    BY <1>9, <1>a DEF fuzz_error, TypeOK, ChildEvaluated, OutcomeOfMutator, CorpusRuns, FindingShown, RoundBelowLimit, ReplayOfOwnFailure, OutcomesAttached, CorpusSound, program, feedback, mutation
  <2> QED BY <2>1
<1>10. ASSUME NEW k \in Kinds, mutate_skipped(k) PROVE IInv'
  <2>p. parent \in Sequences
    BY <1>10 DEF mutate_skipped, CorpusRuns
  <2>r. PICK r : r = decide(k, parent)
    OBVIOUS
  <2>f. /\ r \in [cached : Sequences \cup {None}, fingerprint : Sequences \cup {None},
                  stage : Nat \cup {NoStage}, attempts : 0..(MaxReplay - 1)]
        /\ r.cached \in {None, replay[k].cached}
        /\ Replays(r) => mutator = k /\ outcome.stage # NoStage /\ r.stage <= outcome.stage
    BY <2>p, <2>r, DecideFacts
  <2>u. replay' = [replay EXCEPT ![k] = r] /\ Decided(k, r)
    BY <1>10, <2>r DEF mutate_skipped
  <2>1. /\ ProgramOK' /\ ChildEvaluated' /\ CorpusRuns'
        /\ FindingShown' /\ RoundBelowLimit' /\ OutcomesAttached' /\ CorpusSound'
    BY <1>10, <1>a DEF mutate_skipped, ChildEvaluated, CorpusRuns, FindingShown, RoundBelowLimit, OutcomesAttached, CorpusSound, program, feedback, mutation
  <2>2. TypeOK'
    BY <1>10, <2>f, <2>u DEF mutate_skipped, TypeOK, program, feedback, mutation
  <2>3. OutcomeOfMutator'
    BY <1>10, <2>f, <2>u DEF mutate_skipped, OutcomeOfMutator, TypeOK, program, feedback, mutation
  <2>4. ReplayOfOwnFailure'
    BY <1>10, <2>f, <2>u DEF mutate_skipped, ReplayOfOwnFailure, OutcomeOfMutator, Decided, Replays, TypeOK, NoReplay, program, feedback, mutation
  <2> QED BY <2>1, <2>2, <2>3, <2>4
<1>11. ASSUME NEW k \in Kinds, NEW q \in Sequences, NEW f \in Findings, mutate(k, q, f) PROVE IInv'
  <2>p. parent \in Sequences
    BY <1>11 DEF mutate, CorpusRuns
  <2>r. PICK r : r = decide(k, parent)
    OBVIOUS
  <2>f. /\ r \in [cached : Sequences \cup {None}, fingerprint : Sequences \cup {None},
                  stage : Nat \cup {NoStage}, attempts : 0..(MaxReplay - 1)]
        /\ r.cached \in {None, replay[k].cached}
        /\ Replays(r) => mutator = k /\ outcome.stage # NoStage /\ r.stage <= outcome.stage
    BY <2>p, <2>r, DecideFacts
  <2>u. replay' = [replay EXCEPT ![k] = [r EXCEPT !.cached = q]] /\ Decided(k, r)
    BY <1>11, <2>r DEF mutate
  <2>g. /\ outcome' \in Outcomes /\ map' \subseteq {0} \cup Edges
        /\ outcome'.of = q /\ outcome'.stage = status[q].stage
        /\ outcome'.verdict = (IF f = "none" THEN "Ok" ELSE "Crash")
        /\ map' = IF status[q].ok THEN {0} \cup edges[q] ELSE {}
    BY <1>11, RunFacts DEF mutate
  <2>1. ProgramOK' /\ CorpusRuns' /\ RoundBelowLimit' /\ OutcomesAttached' /\ CorpusSound'
    BY <1>11, <1>a DEF mutate, CorpusRuns, RoundBelowLimit, OutcomesAttached, CorpusSound, program, feedback, mutation
  <2>2. TypeOK'
    BY <1>11, <2>f, <2>u, <2>g DEF mutate, TypeOK, program, feedback, mutation
  <2>3. ChildEvaluated'
    BY <1>11, <2>g DEF mutate, ChildEvaluated, program, feedback, mutation
  <2>4. OutcomeOfMutator'
    BY <1>11, <2>f, <2>u, <2>g DEF mutate, OutcomeOfMutator, TypeOK, program, feedback, mutation
  <2>5. FindingShown'
    BY <1>11, <2>g DEF mutate, FindingShown, program, feedback, mutation
  <2>6. ReplayOfOwnFailure'
    BY <1>11, <2>f, <2>u DEF mutate, ReplayOfOwnFailure, OutcomeOfMutator, Decided, Replays, TypeOK, NoReplay, program, feedback, mutation
  <2> QED BY <2>1, <2>2, <2>3, <2>4, <2>5, <2>6
<1>12. ASSUME objective_found PROVE IInv'
  <2>t. /\ AppendedTestCase(child) = [seq |-> child, outcome |-> outcome]
        /\ child \in Sequences /\ outcome.of = child
    BY <1>12 DEF objective_found, AppendedTestCase, ChildEvaluated, TypeOK
  <2>1. /\ ProgramOK' /\ ChildEvaluated' /\ CorpusRuns'
        /\ RoundBelowLimit' /\ ReplayOfOwnFailure' /\ CorpusSound'
    BY <1>12, <1>a DEF objective_found, ChildEvaluated, CorpusRuns, RoundBelowLimit, ReplayOfOwnFailure, CorpusSound, program, feedback, mutation
  <2>2. TypeOK'
    BY <1>12, <1>b, <2>t DEF objective_found, TypeOK, program, feedback, mutation
  <2>3. OutcomeOfMutator'
    BY <1>12 DEF objective_found, OutcomeOfMutator, NoOutcome, program, feedback, mutation
  <2>4. FindingShown'
    BY <1>12, <2>t DEF objective_found, FindingShown, TypeOK, program, feedback, mutation
  <2>5. OutcomesAttached'
    BY <1>12, <2>t DEF objective_found, OutcomesAttached, program, feedback, mutation
  <2> QED BY <2>1, <2>2, <2>3, <2>4, <2>5
<1>13. ASSUME corpus_grows PROVE IInv'
  <2>t. /\ AppendedTestCase(child) = [seq |-> child, outcome |-> outcome]
        /\ child \in Sequences /\ outcome.of = child
    BY <1>13 DEF corpus_grows, AppendedTestCase, ChildEvaluated, TypeOK
  <2>o. status[child].ok /\ map = {0} \cup edges[child]
    BY <1>13 DEF corpus_grows, ChildEvaluated
  <2>s. status[child].stage = NoStage
    BY <2>t, <2>o, StatusFacts
  <2>h. edges[child] \subseteq UNION {edges[s] : s \in {q \in Sequences : status[q].ok}}
    BY <2>t, <2>o, Zenon
  <2>1. ProgramOK' /\ ChildEvaluated' /\ RoundBelowLimit' /\ ReplayOfOwnFailure'
    BY <1>13, <1>a DEF corpus_grows, ChildEvaluated, RoundBelowLimit, ReplayOfOwnFailure, program, feedback, mutation
  <2>2. TypeOK'
    BY <1>13, <1>b, <2>t DEF corpus_grows, TypeOK, program, feedback, mutation
  <2>3. OutcomeOfMutator'
    BY <1>13 DEF corpus_grows, OutcomeOfMutator, NoOutcome, program, feedback, mutation
  <2>4. FindingShown'
    BY <1>13, <2>t DEF corpus_grows, FindingShown, TypeOK, program, feedback, mutation
  <2>5. OutcomesAttached'
    BY <1>13, <2>t DEF corpus_grows, OutcomesAttached, program, feedback, mutation
  <2>6. CorpusRuns'
    BY <1>13, <2>t, <2>s DEF corpus_grows, CorpusRuns, program, feedback, mutation
  <2>7. CorpusSound'
    <3>1. \A t \in corpus' : t.seq # Initial => status[t.seq].ok /\ t.outcome.verdict = "Ok"
      BY <1>13, <2>t, <2>o DEF corpus_grows, CorpusSound
    <3>2. history' \subseteq {0} \cup UNION {edges[s] : s \in {q \in Sequences : status[q].ok}}
      <4> DEFINE credited == UNION {edges[s] : s \in {q \in Sequences : status[q].ok}}
      <4>1. history \subseteq {0} \cup credited /\ edges[child] \subseteq credited
        BY <2>h DEF CorpusSound
      <4> HIDE DEF credited
      <4>2. history' \subseteq {0} \cup credited
        BY <1>13, <2>o, <4>1 DEF corpus_grows
      <4> QED BY <4>2 DEF credited
    <3>3. UNCHANGED <<status, edges>>
      BY <1>13 DEF corpus_grows, program
    <3> QED BY <3>1, <3>2, <3>3 DEF CorpusSound
  <2> QED BY <2>1, <2>2, <2>3, <2>4, <2>5, <2>6, <2>7
<1>14. ASSUME discard PROVE IInv'
  <2>1. /\ TypeOK' /\ ProgramOK' /\ ChildEvaluated' /\ OutcomeOfMutator'
        /\ CorpusRuns' /\ RoundBelowLimit' /\ ReplayOfOwnFailure' /\ OutcomesAttached' /\ CorpusSound'
    BY <1>14, <1>a DEF discard, TypeOK, ChildEvaluated, OutcomeOfMutator, CorpusRuns, RoundBelowLimit, ReplayOfOwnFailure, OutcomesAttached, CorpusSound, program, feedback, mutation
  <2>2. FindingShown'
    BY <1>14 DEF discard, FindingShown, program, feedback, mutation
  <2> QED BY <2>1, <2>2
<1>15. ASSUME stage_over PROVE IInv'
  <2>1. /\ TypeOK' /\ ProgramOK' /\ ChildEvaluated' /\ OutcomeOfMutator' /\ CorpusRuns'
        /\ FindingShown' /\ RoundBelowLimit' /\ ReplayOfOwnFailure' /\ OutcomesAttached' /\ CorpusSound'
    BY <1>15, <1>a DEF stage_over, TypeOK, ChildEvaluated, OutcomeOfMutator, CorpusRuns, FindingShown, RoundBelowLimit, ReplayOfOwnFailure, OutcomesAttached, CorpusSound, program, feedback, mutation
  <2> QED BY <2>1
<1>16. ASSUME round_over PROVE IInv'
  <2>1. /\ ProgramOK' /\ ChildEvaluated' /\ CorpusRuns'
        /\ RoundBelowLimit' /\ ReplayOfOwnFailure' /\ OutcomesAttached' /\ CorpusSound'
    BY <1>16, <1>a DEF round_over, ChildEvaluated, CorpusRuns, RoundBelowLimit, ReplayOfOwnFailure, OutcomesAttached, CorpusSound, program, feedback, mutation
  <2>2. TypeOK'
    BY <1>16, <1>b DEF round_over, TypeOK, RoundBelowLimit, program, feedback, mutation
  <2>3. OutcomeOfMutator'
    BY <1>16 DEF round_over, OutcomeOfMutator, NoOutcome, program, feedback, mutation
  <2>4. FindingShown'
    BY <1>16 DEF round_over, FindingShown, ChildEvaluated, program, feedback, mutation
  <2> QED BY <2>1, <2>2, <2>3, <2>4
<1>17. CASE UNCHANGED vars
  BY <1>17, <1>a DEF vars, TypeOK, ChildEvaluated, OutcomeOfMutator, CorpusRuns, FindingShown, RoundBelowLimit, ReplayOfOwnFailure, OutcomesAttached, CorpusSound, program, feedback, mutation
<1> QED
  BY <1>1, <1>2, <1>3, <1>4, <1>5, <1>6, <1>7, <1>8, <1>9, <1>10, <1>11, <1>12, <1>13, <1>14, <1>15, <1>16, <1>17 DEF Next

-----------------------------------------------------------------------------
\* The campaign state is well typed; in particular a StageReplay never counts
\* more attempts than MAX_STAGE_REPLAY_ATTEMPTS allows, and the cycle counter
\* stays at the limit.
THEOREM TypeCorrect == Spec => []TypeOK
BY InvInit, InvStep, PTL DEF Spec, IInv

\* StageReplay::decide only replays a sequence at a command that the failing
\* run of this very sequence reached, although both mutators and the calibration
\* stage write the one global outcome it reads.
THEOREM ReplaysOwnFailure == Spec => []ReplayOfOwnFailure
BY InvInit, InvStep, PTL DEF Spec, IInv

\* The outcome that AppendOutcomeFeedback stores with a test case is the outcome
\* of running that test case, and a solution's verdict is a crash.
THEOREM OutcomesStayAttached == Spec => []OutcomesAttached
BY InvInit, InvStep, PTL DEF Spec, IInv

\* The corpus holds successful runs only, and no failing run is credited with
\* coverage.
THEOREM CorpusStaysSound == Spec => []CorpusSound
BY InvInit, InvStep, PTL DEF Spec, IInv

\* No oracle finding about a mutated sequence is lost.
THEOREM FindingsAreKept == Spec => []FindingsKept
<1>1. IInv => FindingsKept
  BY DEF IInv, FindingShown, FindingsKept
<1> QED BY <1>1, InvInit, InvStep, PTL DEF Spec
=============================================================================
