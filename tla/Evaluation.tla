------------------------------ MODULE Evaluation ------------------------------
(***************************************************************************)
(* The evaluation harness (evaluation.py): comparisons of the local branch *)
(* with the MaaS branch, the library of failure samples they feed, and the *)
(* replay of those samples.  Each request is a coroutine that gives way    *)
(* only while a case runs; from its last case on a comparison writes one   *)
(* file after another, and the process may die or the disk refuse at each. *)
(* A file that is being written then is left torn.                         *)
(*                                                                         *)
(* What a case does to its run is RunLifecycle's; here it has an outcome:  *)
(* how many checks passed, and whether MaaS wrote the contract.            *)
(***************************************************************************)
EXTENDS Naturals, Sequences, FiniteSets, FiniteSetsExt, SequencesExt

CONSTANTS
  Comparisons,  \* numbers of the comparisons; older have lower ones
  Archived,     \* those made before there was a library of samples
  NumCases,     \* max_cases
  Full,         \* checks of a case; it passed if all did
  MaxFailures,  \* max_failures of a replay
  MaxReplays    \* bound: replays

ASSUME EvaluationAssumption ==
  /\ Comparisons \subseteq Nat /\ IsFiniteSet(Comparisons)
  /\ Archived \subseteq Comparisons
  /\ {NumCases, Full, MaxFailures} \subseteq Nat \ {0}
  /\ MaxReplays \in Nat

VARIABLES
  configured,  \* MaaS has its settings
  stage,       \* of each comparison
  ran,         \* maas_ran
  local, maas, \* outcomes of the cases of each branch so far
  summary,     \* compare-*/summary.json: its status and its failing cases
  samples,     \* failures/<case>/<comparison>-<case>/failure.json
  replay,      \* the replay at hand
  replays      \* replays so far

vars == <<configured, stage, ran, local, maas, summary, samples, replay, replays>>
-----------------------------------------------------------------------------
Cases == 1 .. NumCases
Outcome == [score : 0 .. Full, used : BOOLEAN]
File == {"none", "torn", "whole"}
Verdicts == {"failed", "needs_maas", "maas_unavailable", "passed", "review_needed"}
Summary == [file : File, status : Verdicts, failing : SUBSET Cases, maas : BOOLEAN]
NoSummary == [file |-> "none", status |-> "failed", failing |-> {}, maas |-> FALSE]

Init ==
  /\ configured \in BOOLEAN
  /\ stage = [c \in Comparisons |-> IF c \in Archived THEN "ended" ELSE "idle"]
  /\ ran = [c \in Comparisons |-> FALSE]
  /\ local = [c \in Comparisons |-> <<>>]
  /\ maas = [c \in Comparisons |-> <<>>]
  /\ \E failing \in SUBSET Cases \ {{}}, both \in BOOLEAN :
       summary = [c \in Comparisons |->
         IF c \in Archived
         THEN [file |-> "whole", failing |-> IF both THEN failing ELSE Cases, maas |-> both,
               status |-> IF both THEN "failed" ELSE "needs_maas"]
         ELSE NoSummary]
  /\ samples = [c \in Comparisons |-> [i \in Cases |-> "none"]]
  /\ replay = [stage |-> "idle", picked |-> <<>>, done |-> 0, failed |-> 0]
  /\ replays = 0

\* The comparisons that are past their last case hold the event loop.
Writing == {"local_file", "maas_file", "capture", "summary", "report"}
LoopIsFree == \A c \in Comparisons : stage[c] \notin Writing

\* The settings are read again for every request and every case.
Configure ==
  /\ configured' = ~configured
  /\ UNCHANGED <<stage, ran, local, maas, summary, samples, replay, replays>>
-----------------------------------------------------------------------------
Passed(outcome) == outcome.score = Full

Step(c, here, next) ==
  /\ stage[c] = here
  /\ stage' = [stage EXCEPT ![c] = next]
  /\ UNCHANGED <<configured, replay, replays>>

\* Definitions named Bug... are deliberate mistakes; nothing uses them.

StartComparison(c) ==
  /\ LoopIsFree
  /\ Step(c, "idle", "local")
  /\ ran' = [ran EXCEPT ![c] = configured]
  /\ UNCHANGED <<local, maas, summary, samples>>

\* A case that raises has passed no check.
LocalCase(c) ==
  /\ LoopIsFree
  /\ Step(c, "local", IF Len(local[c]) + 1 = NumCases THEN "local_file" ELSE "local")
  /\ \E score \in 0 .. Full :
       local' = [local EXCEPT ![c] = Append(@, [score |-> score, used |-> FALSE])]
  /\ UNCHANGED <<ran, maas, summary, samples>>

LocalFile(c) ==
  /\ Step(c, "local_file", IF ran[c] THEN "maas" ELSE "maas_file")
  /\ UNCHANGED <<ran, local, maas, summary, samples>>

\* BugUntilUsed: a case that fell back to the local contract is run again.
BugUntilUsed(c) ==
  /\ LoopIsFree
  /\ \E outcome \in Outcome :
       /\ outcome.used => configured
       /\ maas' = [maas EXCEPT ![c] = IF outcome.used THEN Append(@, outcome) ELSE @]
       /\ Step(c, "maas", IF Len(maas'[c]) = NumCases THEN "maas_file" ELSE "maas")
  /\ UNCHANGED <<ran, local, summary, samples>>

MaasCase(c) ==
  /\ LoopIsFree
  /\ Step(c, "maas", IF Len(maas[c]) + 1 = NumCases THEN "maas_file" ELSE "maas")
  /\ \E outcome \in Outcome :
       /\ outcome.used => configured
       /\ maas' = [maas EXCEPT ![c] = Append(@, outcome)]
  /\ UNCHANGED <<ran, local, summary, samples>>

\* maas/summary.json, or maas/skipped.json.
MaasFile(c) ==
  /\ Step(c, "maas_file", "capture")
  /\ UNCHANGED <<ran, local, maas, summary, samples>>
-----------------------------------------------------------------------------
\* BugFallbackCounts: an outcome is judged whoever wrote the contract.
BugFallbackCounts(c, i) ==
  CASE ~ran[c] -> "skipped"
    [] ran[c] /\ Passed(local[c][i]) /\ Passed(maas[c][i]) -> "passed"
    [] OTHER -> "failed"

\* build_case_comparisons.  A MaaS branch that was skipped has no cases.
CaseStatus(c, i) ==
  CASE ~ran[c] -> "skipped"
    [] ran[c] /\ ~maas[c][i].used -> "failed"
    [] ran[c] /\ maas[c][i].used /\ ~Passed(maas[c][i]) -> "failed"
    [] OTHER -> IF Passed(local[c][i]) /\ maas[c][i].score >= local[c][i].score
                THEN "passed" ELSE "warning"

Failing(c) == {i \in Cases : CaseStatus(c, i) # "passed"}

\* The checks that passed, over all cases of a branch.
Checks(outcomes) ==
  {check \in (DOMAIN outcomes) \X (1 .. Full) : check[2] <= outcomes[check[1]].score}

Score(outcomes) == Cardinality(Checks(outcomes))
AllPassed(outcomes) == \A i \in DOMAIN outcomes : Passed(outcomes[i])
Used(outcomes) == Cardinality({i \in DOMAIN outcomes : outcomes[i].used})

\* BugSomeUsed: one case that used MaaS is enough.
BugSomeUsed(c) ==
  IF ~AllPassed(local[c]) THEN "failed"
  ELSE IF ~ran[c] THEN "needs_maas"
  ELSE IF Used(maas[c]) = 0 THEN "maas_unavailable"
  ELSE IF AllPassed(maas[c]) THEN "passed" ELSE "failed"

\* BugSkippedVerdict: the status of a skipped branch is passed on.
BugSkippedVerdict(c) == IF ~ran[c] THEN "skipped" ELSE BugSomeUsed(c)

\* build_comparison_verdict
Verdict(c) ==
  IF ~AllPassed(local[c]) THEN "failed"
  ELSE IF ~ran[c] THEN "needs_maas"
  ELSE IF Used(maas[c]) # Len(maas[c]) THEN "maas_unavailable"
  ELSE IF ~AllPassed(maas[c]) THEN "failed"
  ELSE IF Score(maas[c]) >= Score(local[c]) THEN "passed" ELSE "review_needed"

\* The failing cases are captured one by one, and then the diff is written.
CaptureSample(c) ==
  /\ Step(c, "capture", "capture")
  /\ \E i \in Failing(c) :
       /\ \A j \in Failing(c) : j < i => samples[c][j] = "whole"
       /\ samples[c][i] # "whole"
       /\ samples' = [samples EXCEPT ![c][i] = "whole"]
  /\ UNCHANGED <<ran, local, maas, summary>>

\* BugSummaryFirst: the summary does not wait for the samples.
BugSummaryFirst(c) == TRUE

Captured(c) == \A i \in Failing(c) : samples[c][i] = "whole"

ArtifactDiff(c) ==
  /\ Step(c, "capture", "summary")
  /\ Captured(c)
  /\ UNCHANGED <<ran, local, maas, summary, samples>>

WriteSummary(c) ==
  /\ Step(c, "summary", "report")
  /\ summary' = [summary EXCEPT ![c] =
       [file |-> "whole", status |-> Verdict(c), failing |-> Failing(c), maas |-> ran[c]]]
  /\ UNCHANGED <<ran, local, maas, samples>>

WriteReport(c) ==
  /\ Step(c, "report", "ended")
  /\ UNCHANGED <<ran, local, maas, summary, samples>>

\* What a comparison is writing when it stops may be torn.
TornWrite(c) ==
  /\ samples' = IF stage[c] = "capture" /\ \E i \in Failing(c) : samples[c][i] # "whole"
                THEN [samples EXCEPT ![c][Min({i \in Failing(c) : samples[c][i] # "whole"})] = "torn"]
                ELSE samples
  /\ summary' = IF stage[c] = "summary" THEN [summary EXCEPT ![c].file = "torn"] ELSE summary

\* The disk refuses: the request fails, and what it wrote stays.
ComparisonRaises(c) ==
  /\ stage[c] \in Writing
  /\ Step(c, stage[c], "lost")
  /\ \/ TornWrite(c)
     \/ UNCHANGED <<samples, summary>>
  /\ UNCHANGED <<ran, local, maas>>
-----------------------------------------------------------------------------
\* ensure_failure_samples_from_existing_comparisons: of a comparison whose two
\* branches ran, every failing case is captured again if one was not.
Restorable ==
  {c \in Comparisons :
     /\ summary[c].file = "whole"
     /\ summary[c].status # "passed"
     /\ summary[c].maas
     /\ \E i \in summary[c].failing : samples[c][i] = "none"}

\* BugOnlyListed: the samples are listed as they are.
BugOnlyListed == samples

Restored ==
  [c \in Comparisons |-> [i \in Cases |->
     IF c \in Restorable /\ i \in summary[c].failing THEN "whole" ELSE samples[c][i]]]

Listing ==
  /\ LoopIsFree
  /\ samples' = Restored
  /\ UNCHANGED <<configured, stage, ran, local, maas, summary, replay, replays>>

\* The disk refuses at case i of the last comparison it gets to.
ListingRaises ==
  /\ LoopIsFree
  /\ \E c \in Restorable : \E i \in summary[c].failing :
       samples' = [d \in Comparisons |->
         IF d < c THEN Restored[d]
         ELSE IF d > c THEN samples[d]
         ELSE [j \in Cases |-> IF j < i THEN Restored[c][j]
                               ELSE IF j = i THEN "torn" ELSE samples[c][j]]]
  /\ UNCHANGED <<configured, stage, ran, local, maas, summary, replay, replays>>

\* Torn samples are not listed.
Listed(files) == {s \in Comparisons \X Cases : files[s[1]][s[2]] = "whole"}

\* By the name of the case, then of the comparison, the last ones first.
Later(s, t) == s[2] > t[2] \/ (s[2] = t[2] /\ s[1] > t[1])

StartReplay ==
  /\ LoopIsFree
  /\ replay.stage # "running"
  /\ replays < MaxReplays
  /\ replays' = replays + 1
  /\ samples' = Restored
  /\ \E listed \in SetToSeqs(Listed(samples')) :
       /\ \A i, j \in DOMAIN listed : i < j => Later(listed[i], listed[j])
       /\ LET picked == SubSeq(listed, 1, Min({MaxFailures, Len(listed)}))
          IN  replay' = [stage |-> IF picked = <<>> THEN "skipped" ELSE "running",
                         picked |-> picked, done |-> 0, failed |-> 0]
  /\ UNCHANGED <<configured, stage, ran, local, maas, summary>>

\* The sample is read again, and is still whole.  Whether MaaS was used is
\* reported, and not asked.
ReplayCase ==
  /\ LoopIsFree
  /\ replay.stage = "running"
  /\ replay.done < Len(replay.picked)
  /\ \E failed \in {0, 1} : replay' = [replay EXCEPT !.done = @ + 1, !.failed = @ + failed]
  /\ UNCHANGED <<configured, stage, ran, local, maas, summary, samples, replays>>

\* The disk may refuse it.
ReplaySummary ==
  /\ LoopIsFree
  /\ replay.stage = "running"
  /\ replay.done = Len(replay.picked)
  /\ \E stop \in {IF replay.failed = 0 THEN "passed" ELSE "failed", "lost"} :
       replay' = [replay EXCEPT !.stage = stop]
  /\ UNCHANGED <<configured, stage, ran, local, maas, summary, samples, replays>>

\* The process dies with everything that is under way.
Crash ==
  /\ stage' = [c \in Comparisons |-> IF stage[c] \in {"idle", "ended"} THEN stage[c] ELSE "lost"]
  /\ replay' = [replay EXCEPT !.stage = IF @ = "running" THEN "lost" ELSE @]
  /\ \/ UNCHANGED <<samples, summary>>
     \/ \E c \in Comparisons : stage[c] \in Writing /\ TornWrite(c)
  /\ UNCHANGED <<configured, ran, local, maas, replays>>
-----------------------------------------------------------------------------
Goes(c) ==
  \/ LocalCase(c) \/ LocalFile(c) \/ MaasCase(c) \/ MaasFile(c)
  \/ CaptureSample(c) \/ ArtifactDiff(c) \/ WriteSummary(c) \/ WriteReport(c)

Next ==
  \/ \E c \in Comparisons : StartComparison(c) \/ Goes(c) \/ ComparisonRaises(c)
  \/ Listing \/ ListingRaises
  \/ StartReplay \/ ReplayCase \/ ReplaySummary
  \/ Configure \/ Crash

Spec == Init /\ [][Next]_vars

\* Calls to MaaS time out: a request that has begun goes on.
FairSpec ==
  /\ Spec
  /\ \A c \in Comparisons : SF_vars(Goes(c))
  /\ SF_vars(ReplayCase \/ ReplaySummary)
-----------------------------------------------------------------------------
\* Every variable keeps its type.
TypeOK ==
  /\ configured \in BOOLEAN
  /\ stage \in [Comparisons -> Writing \cup {"idle", "local", "maas", "ended", "lost"}]
  /\ ran \in [Comparisons -> BOOLEAN]
  /\ \A c \in Comparisons : \A branch \in {local[c], maas[c]} :
       Len(branch) <= NumCases /\ \A i \in DOMAIN branch : branch[i] \in Outcome
  /\ summary \in [Comparisons -> Summary]
  /\ samples \in [Comparisons -> [Cases -> File]]
  /\ replay.stage \in {"idle", "running", "passed", "failed", "skipped", "lost"}
  /\ Len(replay.picked) <= MaxFailures
  /\ replay.failed <= replay.done /\ replay.done <= Len(replay.picked)
  /\ replays \in 0 .. MaxReplays

New == {c \in Comparisons \ Archived : summary[c].file = "whole"}

\* A comparison that is on disk as passed ran both branches, every case of both
\* passed all its checks, and MaaS wrote the contract of every case of its
\* branch, though its settings may come and go in between: a local fallback is
\* no success of MaaS (README.md:176, 242; build_comparison_verdict).
VerdictIsEarned ==
  \A c \in New : summary[c].status = "passed" =>
    /\ ran[c]
    /\ \A i \in Cases : Passed(local[c][i]) /\ Passed(maas[c][i]) /\ maas[c][i].used

\* The verdict, taken from the totals of the branches, and the status of the
\* cases, taken case by case, never disagree: a comparison passes exactly if it
\* leaves no failing case (build_comparison_verdict, build_case_comparisons).
VerdictAgrees ==
  \A c \in New : summary[c].status = "passed" <=> summary[c].failing = {}

\* Whoever finds the summary of a comparison finds the samples of all its
\* failing cases as well, whatever crash or full disk came in between, now and
\* after every restoration of others (capture_failure_samples, README.md:178).
FailuresAreKept ==
  \A c \in New : \A i \in summary[c].failing : samples[c][i] = "whole"

\* A replay that reports that there is nothing to replay leaves out no failing
\* case of a comparison whose branches both ran, not even of one made before
\* samples were captured, unless its sample cannot be read
\* (replay_failure_samples, ensure_failure_samples_from_existing_comparisons).
SkippedIsClean ==
  [][replay.stage # "skipped" /\ replay'.stage = "skipped" =>
       \A c \in Comparisons :
         summary[c].file = "whole" /\ summary[c].maas =>
           \A i \in summary[c].failing : samples[c][i] = "torn"]_vars

\* Every comparison and every replay that begins comes to its report, or fails
\* with the disk or the process: MaaS is never waited for twice for one case.
EveryEvaluationEnds ==
  /\ \A c \in Comparisons : stage[c] = "local" ~> stage[c] \in {"ended", "lost"}
  /\ replay.stage = "running" ~> replay.stage # "running"
=============================================================================
