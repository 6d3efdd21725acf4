--------------------------- MODULE EvaluationProofs ---------------------------
(* Theorems about Evaluation, for any comparisons, archive, numbers of     *)
(* cases and checks, and replays.                                          *)
EXTENDS Evaluation, FiniteSetTheorems, TLAPS

LEMMA Parameters ==
  /\ NumCases \in Nat \ {0}
  /\ Comparisons \subseteq Nat
  /\ Full \in Nat \ {0}
  BY EvaluationAssumption DEF EvaluationAssumption

\* The types of what is on disk and of the comparisons.
EvalType ==
  /\ stage \in [Comparisons -> Writing \cup {"idle", "local", "maas", "ended", "lost"}]
  /\ configured \in BOOLEAN
  /\ ran \in [Comparisons -> BOOLEAN]
  /\ local \in [Comparisons -> Seq(Outcome)]
  /\ maas \in [Comparisons -> Seq(Outcome)]
  /\ summary \in [Comparisons -> Summary]
  /\ samples \in [Comparisons -> [Cases -> File]]

Complete(c) ==
  /\ Len(local[c]) = NumCases
  /\ ran[c] => Len(maas[c]) = NumCases

Kept(c) == \A i \in Failing(c) : samples[c][i] = "whole"

\* How far each comparison is: what it has run, and what it has written.
Progress(c) ==
  /\ stage[c] = "idle" => local[c] = <<>> /\ maas[c] = <<>>
  /\ stage[c] = "local" => Len(local[c]) < NumCases /\ maas[c] = <<>>
  /\ stage[c] = "local_file" => Len(local[c]) = NumCases /\ maas[c] = <<>>
  /\ stage[c] = "maas" => Len(local[c]) = NumCases /\ Len(maas[c]) < NumCases
  /\ stage[c] \in {"maas_file", "capture", "summary"} => Complete(c)
  /\ stage[c] \notin {"report", "ended", "lost"} => summary[c].file = "none"
  /\ stage[c] = "summary" => Kept(c)

\* What a summary on disk says is what the comparison came to, and its samples
\* were there first.
Reported(c) ==
  summary[c].file = "whole" =>
    /\ Complete(c)
    /\ Kept(c)
    /\ summary[c].failing = Failing(c)
    /\ summary[c].status = Verdict(c)

EvalInv == \A c \in Comparisons \ Archived : Progress(c) /\ Reported(c)

LEMMA InitInv == Init => EvalType /\ EvalInv
<1> SUFFICES ASSUME Init PROVE EvalType /\ EvalInv
  OBVIOUS
<1> USE Parameters
<1>1. <<>> \in Seq(Outcome) /\ Len(<<>>) = 0 /\ NoSummary \in Summary /\ NoSummary.file = "none"
  BY DEF NoSummary, Summary, File, Verdicts
<1>2. summary \in [Comparisons -> Summary]
  <2>1. PICK failing \in SUBSET Cases \ {{}}, both \in BOOLEAN :
          summary = [c \in Comparisons |->
            IF c \in Archived
            THEN [file |-> "whole", failing |-> IF both THEN failing ELSE Cases, maas |-> both,
                  status |-> IF both THEN "failed" ELSE "needs_maas"]
            ELSE NoSummary]
    BY DEF Init
  <2> QED
    BY <1>1, <2>1 DEF Summary, File, Verdicts
<1>3. \A c \in Comparisons \ Archived : summary[c] = NoSummary
  BY DEF Init
<1> QED
  BY <1>1, <1>2, <1>3 DEF Init, EvalType, EvalInv, Progress, Reported, Writing, File

LEMMA Frame ==
  ASSUME NEW c \in Comparisons,
         ran'[c] = ran[c], local'[c] = local[c], maas'[c] = maas[c]
  PROVE  Failing(c)' = Failing(c) /\ Verdict(c)' = Verdict(c) /\ Complete(c)' = Complete(c)
<1>1. \A i \in Cases : CaseStatus(c, i)' = CaseStatus(c, i)
  BY DEF CaseStatus, Passed
<1>2. Failing(c)' = Failing(c)
  BY <1>1 DEF Failing
<1>3. Verdict(c)' = Verdict(c)
  BY DEF Verdict, AllPassed, Passed
<1> QED
  BY <1>2, <1>3 DEF Complete

LEMMA Left ==
  ASSUME NEW c \in Comparisons, Progress(c), Reported(c),
         stage'[c] = stage[c], ran'[c] = ran[c], local'[c] = local[c], maas'[c] = maas[c],
         summary'[c] = summary[c], samples'[c] = samples[c]
  PROVE  Progress(c)' /\ Reported(c)'
  BY Frame DEF Progress, Reported, Kept

\* A request of its own leaves the other comparisons alone.
LEMMA OwnStep ==
  ASSUME NEW c \in Comparisons, EvalType, EvalInv,
         Goes(c) \/ StartComparison(c) \/ ComparisonRaises(c),
         NEW d \in Comparisons \ Archived, d # c
  PROVE  Progress(d)' /\ Reported(d)'
<1>1. /\ stage'[d] = stage[d]
      /\ ran'[d] = ran[d]
      /\ local'[d] = local[d]
      /\ maas'[d] = maas[d]
      /\ summary'[d] = summary[d]
      /\ samples'[d] = samples[d]
  BY DEF EvalType, Goes, StartComparison, ComparisonRaises, LocalCase, LocalFile, MaasCase,
     MaasFile, CaptureSample, ArtifactDiff, WriteSummary, WriteReport, TornWrite, Step
<1> QED
  BY <1>1, Left DEF EvalInv

LEMMA TornType ==
  ASSUME NEW c \in Comparisons, EvalType, TornWrite(c)
  PROVE  /\ samples' \in [Comparisons -> [Cases -> File]]
         /\ summary' \in [Comparisons -> Summary]
<1>1. samples' \in [Comparisons -> [Cases -> File]]
  BY DEF EvalType, TornWrite, File
<1>2. summary' \in [Comparisons -> Summary]
  BY DEF EvalType, TornWrite, Summary, File
<1> QED
  BY <1>1, <1>2

LEMMA OwnType ==
  ASSUME NEW c \in Comparisons, EvalType,
         Goes(c) \/ StartComparison(c) \/ ComparisonRaises(c)
  PROVE  EvalType'
<1> USE DEF EvalType, Step, Writing
<1>1. CASE StartComparison(c) \/ LocalFile(c) \/ MaasFile(c) \/ ArtifactDiff(c) \/ WriteReport(c)
  BY <1>1 DEF StartComparison, LocalFile, MaasFile, ArtifactDiff, WriteReport
<1>2. CASE LocalCase(c)
  <2>1. PICK score \in 0 .. Full :
          local' = [local EXCEPT ![c] = Append(@, [score |-> score, used |-> FALSE])]
    BY <1>2 DEF LocalCase
  <2>2. [score |-> score, used |-> FALSE] \in Outcome
    BY DEF Outcome
  <2>3. local' \in [Comparisons -> Seq(Outcome)]
    BY <2>1, <2>2
  <2> QED
    BY <1>2, <2>3 DEF LocalCase
<1>3. CASE MaasCase(c)
  BY <1>3 DEF MaasCase
<1>4. CASE CaptureSample(c)
  BY <1>4 DEF CaptureSample, Failing, File
<1>5. CASE WriteSummary(c)
  <2>1. [file |-> "whole", status |-> Verdict(c), failing |-> Failing(c), maas |-> ran[c]] \in Summary
    BY DEF Summary, File, Verdicts, Verdict, Failing
  <2> QED
    BY <1>5, <2>1 DEF WriteSummary
<1>6. CASE ComparisonRaises(c)
  BY <1>6, TornType DEF ComparisonRaises
<1> QED
  BY <1>1, <1>2, <1>3, <1>4, <1>5, <1>6 DEF Goes

LEMMA OwnProgress ==
  ASSUME NEW c \in Comparisons, EvalType, Progress(c), Reported(c),
         Goes(c) \/ StartComparison(c) \/ ComparisonRaises(c)
  PROVE  Progress(c)' /\ Reported(c)'
<1> USE Parameters DEF EvalType, Step
<1>a. /\ stage[c] \in Writing \cup {"idle", "local", "maas", "ended", "lost"}
      /\ local[c] \in Seq(Outcome) /\ maas[c] \in Seq(Outcome)
      /\ Len(local[c]) \in Nat /\ Len(maas[c]) \in Nat
      /\ ran[c] \in BOOLEAN
  OBVIOUS
<1>1. CASE StartComparison(c)
  <2>1. /\ stage[c] = "idle" /\ stage'[c] = "local"
        /\ local' = local /\ maas' = maas /\ summary' = summary
    BY <1>1 DEF StartComparison
  <2> QED
    BY <1>a, <2>1 DEF Progress, Reported
<1>2. CASE LocalCase(c)
  <2>1. PICK outcome : local' = [local EXCEPT ![c] = Append(@, outcome)]
    BY <1>2 DEF LocalCase
  <2>2. Len(local'[c]) = Len(local[c]) + 1
    BY <1>a, <2>1
  <2>3. /\ stage[c] = "local"
        /\ stage'[c] = IF Len(local[c]) + 1 = NumCases THEN "local_file" ELSE "local"
        /\ maas' = maas /\ summary' = summary
    BY <1>2 DEF LocalCase
  <2> QED
    BY <1>a, <2>2, <2>3 DEF Progress, Reported
<1>3. CASE LocalFile(c)
  <2>1. /\ stage[c] = "local_file" /\ stage'[c] = IF ran[c] THEN "maas" ELSE "maas_file"
        /\ ran' = ran /\ local' = local /\ maas' = maas /\ summary' = summary
    BY <1>3 DEF LocalFile
  <2> QED
    BY <1>a, <2>1 DEF Progress, Reported, Complete
<1>4. CASE MaasCase(c)
  <2>1. PICK outcome : maas' = [maas EXCEPT ![c] = Append(@, outcome)]
    BY <1>4 DEF MaasCase
  <2>2. Len(maas'[c]) = Len(maas[c]) + 1
    BY <1>a, <2>1
  <2>3. /\ stage[c] = "maas"
        /\ stage'[c] = IF Len(maas[c]) + 1 = NumCases THEN "maas_file" ELSE "maas"
        /\ local' = local /\ summary' = summary
    BY <1>4 DEF MaasCase
  <2> QED
    BY <1>a, <2>2, <2>3 DEF Progress, Reported, Complete
<1>5. CASE MaasFile(c)
  <2>1. /\ stage[c] = "maas_file" /\ stage'[c] = "capture"
        /\ ran' = ran /\ local' = local /\ maas' = maas /\ summary' = summary
    BY <1>5 DEF MaasFile
  <2> QED
    BY <1>a, <2>1 DEF Progress, Reported, Complete
<1>6. CASE CaptureSample(c)
  <2>1. /\ stage[c] = "capture" /\ stage'[c] = "capture"
        /\ ran' = ran /\ local' = local /\ maas' = maas /\ summary' = summary
    BY <1>6 DEF CaptureSample
  <2> QED
    BY <1>a, <2>1 DEF Progress, Reported, Complete
<1>7. CASE ArtifactDiff(c)
  <2>1. /\ stage[c] = "capture" /\ stage'[c] = "summary" /\ Kept(c) /\ samples' = samples
        /\ ran' = ran /\ local' = local /\ maas' = maas /\ summary' = summary
    BY <1>7 DEF ArtifactDiff, Captured, Kept
  <2> QED
    BY <1>a, <2>1, Frame DEF Progress, Reported, Kept
<1>8. CASE WriteSummary(c)
  <2>1. /\ stage[c] = "summary" /\ stage'[c] = "report" /\ samples' = samples
        /\ ran' = ran /\ local' = local /\ maas' = maas
        /\ summary'[c] = [file |-> "whole", status |-> Verdict(c),
                          failing |-> Failing(c), maas |-> ran[c]]
    BY <1>8 DEF WriteSummary
  <2> QED
    BY <1>a, <2>1, Frame DEF Progress, Reported, Kept
<1>9. CASE WriteReport(c)
  <2>1. /\ stage[c] = "report" /\ stage'[c] = "ended" /\ samples' = samples
        /\ ran' = ran /\ local' = local /\ maas' = maas /\ summary' = summary
    BY <1>9 DEF WriteReport
  <2> QED
    BY <1>a, <2>1, Frame DEF Progress, Reported, Kept
<1>10. CASE ComparisonRaises(c)
  <2>1. /\ stage[c] \in Writing /\ stage'[c] = "lost"
        /\ ran' = ran /\ local' = local /\ maas' = maas
        /\ TornWrite(c) \/ UNCHANGED <<samples, summary>>
    BY <1>10 DEF ComparisonRaises
  <2>2. summary[c].file = "whole" => stage[c] = "report"
    BY <2>1 DEF Progress, Writing
  <2>3. summary'[c].file = "whole" => summary'[c] = summary[c] /\ samples' = samples
    BY <2>1, <2>2 DEF TornWrite, Summary
  <2> QED
    BY <1>a, <2>1, <2>3, Frame DEF Progress, Reported, Kept
<1> QED
  BY <1>1, <1>2, <1>3, <1>4, <1>5, <1>6, <1>7, <1>8, <1>9, <1>10 DEF Goes

\* Restoring leaves a sample alone that is whole, and has nothing to restore of
\* a comparison all of whose failing cases are.
LEMMA RestoredSamples ==
  ASSUME NEW c \in Comparisons, Reported(c), summary[c].file = "whole"
  PROVE  c \notin Restorable /\ \A i \in Cases : Restored[c][i] = samples[c][i]
<1>1. \A i \in summary[c].failing : samples[c][i] = "whole"
  BY DEF Reported, Kept
<1> QED
  BY <1>1 DEF Restorable, Restored

LEMMA RestoredType ==
  ASSUME EvalType
  PROVE  /\ Restored \in [Comparisons -> [Cases -> File]]
         /\ ListingRaises => samples' \in [Comparisons -> [Cases -> File]]
<1>1. Restored \in [Comparisons -> [Cases -> File]]
  BY DEF EvalType, Restored, File
<1>2. ASSUME ListingRaises PROVE samples' \in [Comparisons -> [Cases -> File]]
  <2>1. PICK c \in Restorable : \E i \in summary[c].failing :
          samples' = [d \in Comparisons |->
            IF d < c THEN Restored[d]
            ELSE IF d > c THEN samples[d]
            ELSE [j \in Cases |-> IF j < i THEN Restored[c][j]
                                  ELSE IF j = i THEN "torn" ELSE samples[c][j]]]
    BY <1>2 DEF ListingRaises
  <2>2. c \in Comparisons /\ samples[c] \in [Cases -> File] /\ Restored[c] \in [Cases -> File]
    BY <1>1 DEF EvalType, Restorable
  <2>3. ASSUME NEW i
        PROVE  [j \in Cases |-> IF j < i THEN Restored[c][j]
                                ELSE IF j = i THEN "torn" ELSE samples[c][j]] \in [Cases -> File]
    BY <2>2 DEF File
  <2> QED
    BY <1>1, <2>1, <2>3 DEF EvalType
<1> QED
  BY <1>1, <1>2

\* A listing or a replay that begins touches the samples of nothing that is on
\* its way, and of nothing that has its summary.
LEMMA LibraryStep ==
  ASSUME EvalType, EvalInv, Listing \/ ListingRaises \/ StartReplay,
         NEW c \in Comparisons \ Archived
  PROVE  Progress(c)' /\ Reported(c)'
<1>1. /\ stage[c] \notin Writing
      /\ stage' = stage /\ ran' = ran /\ local' = local /\ maas' = maas /\ summary' = summary
  BY DEF LoopIsFree, Listing, ListingRaises, StartReplay
<1>2. Progress(c) /\ Reported(c)
  BY DEF EvalInv
<1>3. ASSUME summary[c].file = "whole" PROVE \A i \in Cases : samples'[c][i] = samples[c][i]
  <2>1. c \notin Restorable /\ \A i \in Cases : Restored[c][i] = samples[c][i]
    BY <1>2, <1>3, RestoredSamples
  <2>2. CASE samples' = Restored
    BY <2>1, <2>2
  <2>3. CASE ListingRaises
    <3>1. PICK e \in Restorable : \E i \in summary[e].failing :
            samples' = [d \in Comparisons |->
              IF d < e THEN Restored[d]
              ELSE IF d > e THEN samples[d]
              ELSE [j \in Cases |-> IF j < i THEN Restored[e][j]
                                    ELSE IF j = i THEN "torn" ELSE samples[e][j]]]
      BY <2>3 DEF ListingRaises
    <3>2. c \in Nat /\ e \in Nat /\ c # e
      BY <2>1, Parameters DEF Restorable
    <3> QED
      BY <2>1, <3>1, <3>2
  <2> QED
    BY <2>2, <2>3 DEF Listing, StartReplay
<1>4. \A i \in Failing(c) : i \in Cases
  BY DEF Failing
<1> QED
  BY <1>1, <1>2, <1>3, <1>4, Frame DEF Progress, Reported, Kept, Writing

LEMMA CrashStep ==
  ASSUME EvalType, EvalInv, Crash, NEW c \in Comparisons \ Archived
  PROVE  Progress(c)' /\ Reported(c)'
<1>1. /\ stage'[c] = IF stage[c] \in {"idle", "ended"} THEN stage[c] ELSE "lost"
      /\ ran' = ran /\ local' = local /\ maas' = maas
  BY DEF Crash
<1>2. Progress(c) /\ Reported(c)
  BY DEF EvalInv
<1>3. ASSUME NEW d \in Comparisons, TornWrite(d)
      PROVE  /\ summary'[c].file = "whole" => summary'[c] = summary[c] /\ samples'[c] = samples[c]
             /\ stage[c] = "idle" => summary'[c] = summary[c]
  <2>1. CASE d # c
    BY <1>3, <2>1 DEF EvalType, TornWrite
  <2>2. CASE d = c
    <3>1. summary[c].file = "whole" => stage[c] \in {"report", "ended", "lost"}
      BY <1>2 DEF Progress
    <3> QED
      BY <1>3, <2>2, <3>1 DEF EvalType, TornWrite, Summary
  <2> QED
    BY <2>1, <2>2
<1>4. /\ summary'[c].file = "whole" => summary'[c] = summary[c] /\ samples'[c] = samples[c]
      /\ stage[c] = "idle" => summary'[c] = summary[c]
  BY <1>3 DEF Crash
<1> QED
  BY <1>1, <1>2, <1>4, Frame DEF Progress, Reported, Kept

LEMMA NextInv == EvalType /\ EvalInv /\ [Next]_vars => EvalType' /\ EvalInv'
<1> SUFFICES ASSUME EvalType, EvalInv, [Next]_vars PROVE EvalType' /\ EvalInv'
  OBVIOUS
<1>1. ASSUME NEW c \in Comparisons, StartComparison(c) \/ Goes(c) \/ ComparisonRaises(c)
      PROVE  EvalType' /\ EvalInv'
  <2>1. ASSUME NEW d \in Comparisons \ Archived PROVE Progress(d)' /\ Reported(d)'
    BY <1>1, OwnStep, OwnProgress DEF EvalInv
  <2> QED
    BY <1>1, <2>1, OwnType DEF EvalInv
<1>2. CASE Listing \/ ListingRaises \/ StartReplay
  <2>1. EvalType'
    BY <1>2, RestoredType DEF EvalType, Listing, ListingRaises, StartReplay
  <2> QED
    BY <1>2, <2>1, LibraryStep DEF EvalInv
<1>3. CASE Crash
  <2>1. EvalType'
    BY <1>3, TornType DEF EvalType, Crash, Writing
  <2> QED
    BY <1>3, <2>1, CrashStep DEF EvalInv
<1>4. CASE ReplayCase \/ ReplaySummary \/ Configure \/ UNCHANGED vars
  <2>1. /\ stage' = stage /\ ran' = ran /\ local' = local /\ maas' = maas
        /\ summary' = summary /\ samples' = samples /\ configured' \in BOOLEAN
    BY <1>4 DEF ReplayCase, ReplaySummary, Configure, vars, EvalType
  <2> QED
    BY <2>1, Left DEF EvalType, EvalInv
<1> QED
  BY <1>1, <1>2, <1>3, <1>4 DEF Next

LEMMA EvalInvariant == Spec => [](EvalType /\ EvalInv)
  BY InitInv, NextInv, PTL DEF Spec

\* A summary on disk is never without the samples of its failing cases
\* (capture_failure_samples), whatever crashes, is torn or is restored.
THEOREM FailuresKept == Spec => []FailuresAreKept
<1>1. EvalInv => FailuresAreKept
  BY DEF EvalInv, Reported, Kept, FailuresAreKept, New
<1> QED
  BY <1>1, EvalInvariant, PTL

\* As many as there are is all of them.
LEMMA AllUsed ==
  ASSUME NEW outcomes \in Seq(Outcome), Used(outcomes) = Len(outcomes)
  PROVE  \A i \in 1 .. Len(outcomes) : outcomes[i].used
<1> DEFINE U == {i \in DOMAIN outcomes : outcomes[i].used}
<1>1. DOMAIN outcomes = 1 .. Len(outcomes) /\ Len(outcomes) \in Nat
  OBVIOUS
<1>2. IsFiniteSet(1 .. Len(outcomes)) /\ Cardinality(1 .. Len(outcomes)) = Len(outcomes)
  <2>0. 1 \in Int /\ Len(outcomes) \in Int
    BY <1>1
  <2>1. /\ IsFiniteSet(1 .. Len(outcomes))
        /\ Cardinality(1 .. Len(outcomes)) =
             IF 1 > Len(outcomes) THEN 0 ELSE Len(outcomes) - 1 + 1
    BY ONLY <2>0, FS_Interval
  <2> QED
    BY <1>1, <2>1
<1>3. Cardinality(U) = Cardinality(1 .. Len(outcomes)) /\ U \subseteq 1 .. Len(outcomes)
  BY <1>1, <1>2 DEF Used
<1>4. U = 1 .. Len(outcomes)
  BY <1>2, <1>3, FS_Subset
<1> QED
  BY <1>4

\* A verdict of passed is earned by every case of both branches, and by MaaS
\* itself in every case of its own (build_comparison_verdict).
THEOREM VerdictsAreEarned == Spec => []VerdictIsEarned
<1>1. EvalType /\ EvalInv => VerdictIsEarned
  <2> SUFFICES ASSUME EvalType, EvalInv, NEW c \in New, summary[c].status = "passed"
               PROVE  /\ ran[c]
                      /\ \A i \in Cases : Passed(local[c][i]) /\ Passed(maas[c][i]) /\ maas[c][i].used
    BY DEF VerdictIsEarned
  <2>1. Reported(c) /\ summary[c].file = "whole" /\ c \in Comparisons
    BY DEF EvalInv, New
  <2>2. /\ AllPassed(local[c]) /\ ran[c]
        /\ Used(maas[c]) = Len(maas[c]) /\ AllPassed(maas[c])
    BY <2>1 DEF Reported, Verdict
  <2>3. /\ local[c] \in Seq(Outcome) /\ maas[c] \in Seq(Outcome)
        /\ Len(local[c]) = NumCases /\ Len(maas[c]) = NumCases
    BY <2>1, <2>2 DEF EvalType, Reported, Complete
  <2> QED
    BY <2>2, <2>3, AllUsed DEF AllPassed, Cases
<1> QED
  BY <1>1, EvalInvariant, PTL
-----------------------------------------------------------------------------
(* The verdict is taken from totals.  A branch that passed has the full    *)
(* score in every case, so two of them have the same total, and the last   *)
(* clause of build_comparison_verdict is never reached.                    *)
LEMMA FullScore ==
  ASSUME NEW a \in Seq(Outcome), NEW b \in Seq(Outcome), Len(a) = Len(b),
         AllPassed(a), AllPassed(b)
  PROVE  Score(a) = Score(b) /\ Score(a) \in Nat
<1>1. DOMAIN a = DOMAIN b /\ DOMAIN a = 1 .. Len(a) /\ Len(a) \in Nat
  OBVIOUS
<1>2. \A i \in DOMAIN a : a[i].score = b[i].score
  BY <1>1 DEF AllPassed, Passed
<1>3. Checks(a) = Checks(b)
  BY <1>1, <1>2 DEF Checks
<1>4. 1 \in Int /\ Len(a) \in Int /\ Full \in Int
  BY <1>1, Parameters
<1>5. IsFiniteSet(1 .. Len(a)) /\ IsFiniteSet(1 .. Full)
  BY ONLY <1>4, FS_Interval
<1>6. IsFiniteSet((1 .. Len(a)) \X (1 .. Full))
  BY ONLY <1>5, FS_Product
<1>7. Checks(a) \in SUBSET ((1 .. Len(a)) \X (1 .. Full))
  BY <1>1 DEF Checks
<1>8. IsFiniteSet(Checks(a))
  BY ONLY <1>6, <1>7, FS_Subset
<1>9. Cardinality(Checks(a)) \in Nat
  BY ONLY <1>8, FS_CardinalityType
<1> QED
  BY <1>3, <1>9 DEF Score

LEMMA UsedByAll ==
  ASSUME NEW outcomes \in Seq(Outcome), \A i \in DOMAIN outcomes : outcomes[i].used
  PROVE  Used(outcomes) = Len(outcomes)
<1>1. /\ {i \in DOMAIN outcomes : outcomes[i].used} = 1 .. Len(outcomes)
      /\ Len(outcomes) \in Nat
  OBVIOUS
<1>2. 1 \in Int /\ Len(outcomes) \in Int
  BY <1>1
<1>3. Cardinality(1 .. Len(outcomes)) = IF 1 > Len(outcomes) THEN 0 ELSE Len(outcomes) - 1 + 1
  BY ONLY <1>2, FS_Interval
<1>4. Cardinality(1 .. Len(outcomes)) = Len(outcomes)
  <2> DEFINE n == Len(outcomes)
  <2>1. n \in Nat /\ Cardinality(1 .. n) = IF 1 > n THEN 0 ELSE n - 1 + 1
    BY <1>1, <1>3
  <2> HIDE DEF n
  <2>2. Cardinality(1 .. n) = n
    BY <2>1
  <2> QED
    BY <2>2 DEF n
<1> QED
  BY ONLY <1>1, <1>4 DEF Used

LEMMA Agree ==
  ASSUME NEW c \in Comparisons, EvalType, Complete(c)
  PROVE  Verdict(c) = "passed" <=> Failing(c) = {}
<1>1. /\ local[c] \in Seq(Outcome) /\ maas[c] \in Seq(Outcome)
      /\ Len(local[c]) = NumCases
      /\ ran[c] => Len(maas[c]) = NumCases
  BY DEF EvalType, Complete
<1>2. /\ DOMAIN local[c] = Cases
      /\ \A i \in Cases : local[c][i] \in Outcome
      /\ ran[c] => DOMAIN maas[c] = Cases /\ \A i \in Cases : maas[c][i] \in Outcome
  BY <1>1, Parameters DEF Cases
<1>3. 1 \in Cases
  BY Parameters DEF Cases
<1>4. ASSUME Verdict(c) = "passed" PROVE Failing(c) = {}
  <2>1. ran[c] /\ AllPassed(local[c]) /\ AllPassed(maas[c]) /\ Used(maas[c]) = Len(maas[c])
    BY <1>4 DEF Verdict
  <2>2. \A i \in Cases : Passed(local[c][i]) /\ Passed(maas[c][i]) /\ maas[c][i].used
    BY <1>1, <1>2, <2>1, AllUsed DEF AllPassed, Cases
  <2>3. \A i \in Cases : maas[c][i].score >= local[c][i].score
    BY <2>2, Parameters DEF Passed
  <2> QED
    BY <2>1, <2>2, <2>3 DEF Failing, CaseStatus
<1>5. ASSUME Failing(c) = {} PROVE Verdict(c) = "passed"
  <2>1. \A i \in Cases : CaseStatus(c, i) = "passed"
    BY <1>5 DEF Failing
  <2>2. ran[c]
    BY <1>3, <2>1 DEF CaseStatus
  <2>3. \A i \in Cases : maas[c][i].used /\ Passed(maas[c][i]) /\ Passed(local[c][i])
    BY <2>1, <2>2 DEF CaseStatus
  <2>4. AllPassed(local[c]) /\ AllPassed(maas[c]) /\ Used(maas[c]) = Len(maas[c])
    BY <1>1, <1>2, <2>2, <2>3, UsedByAll DEF AllPassed
  <2>5. Score(maas[c]) = Score(local[c]) /\ Score(maas[c]) \in Nat
    BY <1>1, <2>2, <2>4, FullScore
  <2>6. Score(maas[c]) >= Score(local[c])
    BY <2>5
  <2> QED
    BY <2>2, <2>4, <2>6 DEF Verdict
<1> QED
  BY <1>4, <1>5

\* The verdict, taken from the totals, and the list of failing cases, taken case
\* by case, never disagree in a summary on disk (build_comparison_verdict,
\* build_case_comparisons).
THEOREM VerdictsAgree == Spec => []VerdictAgrees
<1>1. EvalType /\ EvalInv => VerdictAgrees
  <2> SUFFICES ASSUME EvalType, EvalInv, NEW c \in New
               PROVE  summary[c].status = "passed" <=> summary[c].failing = {}
    BY DEF VerdictAgrees
  <2>1. c \in Comparisons /\ Reported(c) /\ summary[c].file = "whole"
    BY DEF EvalInv, New
  <2> QED
    BY <2>1, Agree DEF Reported
<1> QED
  BY <1>1, EvalInvariant, PTL
-----------------------------------------------------------------------------
(* The archive, the number of cases of a branch, and the replay.           *)
ReplayType ==
  /\ replay \in [stage : {"idle", "running", "passed", "failed", "skipped", "lost"},
                 picked : Seq(Comparisons \X Cases), done : Nat, failed : Nat]
  /\ Len(replay.picked) <= MaxFailures
  /\ replay.failed <= replay.done
  /\ replay.done <= Len(replay.picked)
  /\ replays \in 0 .. MaxReplays

\* An archived comparison is not run again, and had not passed.
ArchiveStays ==
  \A c \in Archived : stage[c] = "ended" /\ summary[c].status # "passed"

CasesBounded ==
  \A c \in Comparisons : Len(local[c]) <= NumCases /\ Len(maas[c]) <= NumCases

LEMMA InitRest == Init => ReplayType /\ ArchiveStays /\ CasesBounded
<1> SUFFICES ASSUME Init PROVE ReplayType /\ ArchiveStays /\ CasesBounded
  OBVIOUS
<1>1. <<>> \in Seq(Comparisons \X Cases) /\ Len(<<>>) = 0 /\ MaxFailures \in Nat /\ MaxReplays \in Nat
  BY EvaluationAssumption DEF EvaluationAssumption
<1>2. ReplayType
  BY <1>1 DEF Init, ReplayType
<1>3. ArchiveStays
  <2>1. PICK failing \in SUBSET Cases \ {{}}, both \in BOOLEAN :
          summary = [c \in Comparisons |->
            IF c \in Archived
            THEN [file |-> "whole", failing |-> IF both THEN failing ELSE Cases, maas |-> both,
                  status |-> IF both THEN "failed" ELSE "needs_maas"]
            ELSE NoSummary]
    BY DEF Init
  <2>2. Archived \subseteq Comparisons
    BY EvaluationAssumption DEF EvaluationAssumption
  <2> QED
    BY <2>1, <2>2 DEF Init, ArchiveStays
<1>4. CasesBounded
  BY <1>1, Parameters DEF Init, CasesBounded
<1> QED
  BY <1>2, <1>3, <1>4

LEMMA ArchiveStep ==
  ASSUME EvalType, ArchiveStays, [Next]_vars
  PROVE  ArchiveStays'
<1>1. Archived \subseteq Comparisons
  BY EvaluationAssumption DEF EvaluationAssumption
<1>2. ASSUME NEW c \in Archived, NEW d \in Comparisons,
             StartComparison(d) \/ Goes(d) \/ ComparisonRaises(d)
      PROVE  stage'[c] = stage[c] /\ summary'[c].status = summary[c].status
  <2>1. stage[c] = "ended" /\ c \in Comparisons
    BY <1>1 DEF ArchiveStays
  <2>2. c # d
    BY <1>2, <2>1 DEF Goes, StartComparison, ComparisonRaises, LocalCase, LocalFile, MaasCase,
       MaasFile, CaptureSample, ArtifactDiff, WriteSummary, WriteReport, Step, Writing
  <2> QED
    BY <1>2, <2>1, <2>2 DEF EvalType, Goes, StartComparison, ComparisonRaises, LocalCase,
       LocalFile, MaasCase, MaasFile, CaptureSample, ArtifactDiff, WriteSummary, WriteReport,
       TornWrite, Step
<1>3. CASE Crash
  <2>1. ASSUME NEW c \in Archived
        PROVE  stage'[c] = "ended" /\ summary'[c].status = summary[c].status
    BY <1>1, <1>3 DEF EvalType, ArchiveStays, Crash, TornWrite, Summary
  <2> QED
    BY <2>1 DEF ArchiveStays
<1>4. CASE Listing \/ ListingRaises \/ StartReplay \/ ReplayCase \/ ReplaySummary
           \/ Configure \/ UNCHANGED vars
  BY <1>4 DEF ArchiveStays, Listing, ListingRaises, StartReplay, ReplayCase, ReplaySummary,
     Configure, vars
<1> QED
  BY <1>2, <1>3, <1>4 DEF ArchiveStays, Next

LEMMA BoundStep ==
  ASSUME EvalType, EvalInv, ArchiveStays, CasesBounded, [Next]_vars
  PROVE  CasesBounded'
<1>1. ASSUME NEW c \in Comparisons, LocalCase(c)
      PROVE  CasesBounded'
  <2>1. PICK outcome : local' = [local EXCEPT ![c] = Append(@, outcome)]
    BY <1>1 DEF LocalCase
  <2>2. stage[c] = "local" /\ maas' = maas
    BY <1>1 DEF LocalCase, Step
  <2>3. Len(local[c]) < NumCases /\ local[c] \in Seq(Outcome)
    BY <2>2 DEF EvalType, EvalInv, ArchiveStays, Progress
  <2>4. Len(local'[c]) <= NumCases
    BY <2>1, <2>3, Parameters DEF EvalType
  <2> QED
    BY <2>1, <2>2, <2>4 DEF EvalType, CasesBounded
<1>2. ASSUME NEW c \in Comparisons, MaasCase(c)
      PROVE  CasesBounded'
  <2>1. PICK outcome : maas' = [maas EXCEPT ![c] = Append(@, outcome)]
    BY <1>2 DEF MaasCase
  <2>2. stage[c] = "maas" /\ local' = local
    BY <1>2 DEF MaasCase, Step
  <2>3. Len(maas[c]) < NumCases /\ maas[c] \in Seq(Outcome)
    BY <2>2 DEF EvalType, EvalInv, ArchiveStays, Progress
  <2>4. Len(maas'[c]) <= NumCases
    BY <2>1, <2>3, Parameters DEF EvalType
  <2> QED
    BY <2>1, <2>2, <2>4 DEF EvalType, CasesBounded
<1>3. CASE UNCHANGED <<local, maas>>
  BY <1>3 DEF CasesBounded
<1> QED
  BY <1>1, <1>2, <1>3 DEF Next, Goes, StartComparison, ComparisonRaises, LocalFile, MaasFile,
     CaptureSample, ArtifactDiff, WriteSummary, WriteReport, Listing, ListingRaises,
     StartReplay, ReplayCase, ReplaySummary, Configure, Crash, vars

LEMMA ListedFinite ==
  ASSUME NEW files
  PROVE  IsFiniteSet(Listed(files)) /\ Cardinality(Listed(files)) \in Nat
<1>1. 1 \in Int /\ NumCases \in Int /\ IsFiniteSet(Comparisons)
  BY EvaluationAssumption, Parameters DEF EvaluationAssumption
<1>2. IsFiniteSet(1 .. NumCases)
  BY ONLY <1>1, FS_Interval
<1>3. IsFiniteSet(Comparisons \X (1 .. NumCases))
  BY ONLY <1>1, <1>2, FS_Product
<1>4. Listed(files) \in SUBSET (Comparisons \X (1 .. NumCases))
  BY DEF Listed, Cases
<1>5. IsFiniteSet(Listed(files))
  BY ONLY <1>3, <1>4, FS_Subset
<1>6. Cardinality(Listed(files)) \in Nat
  BY ONLY <1>5, FS_CardinalityType
<1> QED
  BY <1>5, <1>6

LEMMA MinOfTwo ==
  ASSUME NEW m \in Nat, NEW n \in Nat
  PROVE  /\ Min({m, n}) \in Nat
         /\ Min({m, n}) <= m
         /\ Min({m, n}) <= n
         /\ Min({m, n}) \in {m, n}
<1>1. \E x \in {m, n} : \A y \in {m, n} : x =< y
  BY m <= n \/ n <= m
<1> QED
  BY <1>1 DEF Min

LEMMA Prefix ==
  ASSUME NEW S, NEW s \in Seq(S), NEW m \in Nat, m <= Len(s)
  PROVE  SubSeq(s, 1, m) \in Seq(S) /\ Len(SubSeq(s, 1, m)) = m
  OBVIOUS

\* What a replay picks: no more than its limit, and nothing only if nothing is
\* listed.
LEMMA Picked ==
  ASSUME StartReplay
  PROVE  /\ replays < MaxReplays /\ replays' = replays + 1 /\ samples' = Restored
         /\ \E picked \in Seq(Comparisons \X Cases) :
              /\ replay' = [stage |-> IF picked = <<>> THEN "skipped" ELSE "running",
                            picked |-> picked, done |-> 0, failed |-> 0]
              /\ Len(picked) <= MaxFailures
              /\ picked = <<>> => Listed(Restored) = {}
<1>1. /\ replays < MaxReplays
      /\ replays' = replays + 1
      /\ samples' = Restored
  BY DEF StartReplay
<1>2. PICK listed \in SetToSeqs(Listed(Restored)) :
        replay' = [stage |-> IF SubSeq(listed, 1, Min({MaxFailures, Len(listed)})) = <<>>
                             THEN "skipped" ELSE "running",
                   picked |-> SubSeq(listed, 1, Min({MaxFailures, Len(listed)})),
                   done |-> 0, failed |-> 0]
  BY <1>1 DEF StartReplay
<1> DEFINE n == Cardinality(Listed(Restored))
           picked == SubSeq(listed, 1, Min({MaxFailures, Len(listed)}))
<1>3. n \in Nat /\ IsFiniteSet(Listed(Restored))
  BY ListedFinite
<1>4. listed \in [1 .. n -> Listed(Restored)]
  BY <1>2 DEF SetToSeqs
<1>5. Listed(Restored) \subseteq Comparisons \X Cases
  BY DEF Listed
<1>6. listed \in Seq(Comparisons \X Cases) /\ Len(listed) = n
  <2> HIDE DEF n
  <2> QED
    BY <1>3, <1>4, <1>5
<1>7. MaxFailures \in Nat \ {0}
  BY EvaluationAssumption DEF EvaluationAssumption
<1>8. /\ Min({MaxFailures, n}) \in Nat
      /\ Min({MaxFailures, n}) <= MaxFailures
      /\ Min({MaxFailures, n}) <= n
      /\ Min({MaxFailures, n}) = 0 => n = 0
  <2> HIDE DEF n
  <2> QED
    BY <1>3, <1>7, MinOfTwo
<1>9. picked \in Seq(Comparisons \X Cases) /\ Len(picked) = Min({MaxFailures, n})
  <2>1. Min({MaxFailures, Len(listed)}) \in Nat /\ Min({MaxFailures, Len(listed)}) <= Len(listed)
    BY <1>6, <1>8
  <2>2. /\ SubSeq(listed, 1, Min({MaxFailures, Len(listed)})) \in Seq(Comparisons \X Cases)
        /\ Len(SubSeq(listed, 1, Min({MaxFailures, Len(listed)}))) = Min({MaxFailures, Len(listed)})
    BY ONLY <1>6, <2>1, Prefix
  <2> QED
    BY ONLY <1>6, <2>2
<1>10. n = 0 => Listed(Restored) = {}
  BY <1>3, FS_EmptySet
<1>11. picked = <<>> => Listed(Restored) = {}
  <2> HIDE DEF n, picked
  <2> QED
    BY <1>8, <1>9, <1>10
<1>12. Len(picked) <= MaxFailures
  BY <1>8, <1>9
<1> QED
  BY <1>1, <1>2, <1>9, <1>11, <1>12

LEMMA ReplayStep ==
  ASSUME ReplayType, [Next]_vars
  PROVE  ReplayType'
<1>1. CASE StartReplay
  <2>1. PICK picked \in Seq(Comparisons \X Cases) :
          /\ replay' = [stage |-> IF picked = <<>> THEN "skipped" ELSE "running",
                        picked |-> picked, done |-> 0, failed |-> 0]
          /\ Len(picked) <= MaxFailures
    BY <1>1, Picked
  <2>2. replays' \in 0 .. MaxReplays
    BY <1>1, Picked, EvaluationAssumption DEF ReplayType, EvaluationAssumption
  <2>3. Len(picked) \in Nat
    BY <2>1
  <2> QED
    BY <2>1, <2>2, <2>3 DEF ReplayType
<1>2. CASE ReplayCase
  <2>1. PICK failed \in {0, 1} :
          replay' = [replay EXCEPT !.done = @ + 1, !.failed = @ + failed]
    BY <1>2 DEF ReplayCase
  <2>2. replay.done < Len(replay.picked) /\ replays' = replays
    BY <1>2 DEF ReplayCase
  <2> DEFINE R == [stage : {"idle", "running", "passed", "failed", "skipped", "lost"},
                   picked : Seq(Comparisons \X Cases), done : Nat, failed : Nat]
  <2>3. /\ replay \in R
        /\ replay.done \in Nat /\ replay.failed \in Nat /\ Len(replay.picked) \in Nat
        /\ replay.failed <= replay.done
        /\ failed \in Nat /\ failed <= 1
    BY DEF ReplayType
  <2>4. /\ replay.done + 1 \in Nat /\ replay.failed + failed \in Nat
        /\ replay.failed + failed <= replay.done + 1 /\ replay.done + 1 <= Len(replay.picked)
    BY ONLY <2>2, <2>3
  <2>5. /\ replay' \in R
        /\ replay'.done = replay.done + 1 /\ replay'.failed = replay.failed + failed
        /\ replay'.picked = replay.picked
    BY ONLY <2>1, <2>3, <2>4
  <2> QED
    BY <2>2, <2>4, <2>5 DEF ReplayType
<1>3. CASE ReplaySummary
  BY <1>3 DEF ReplaySummary, ReplayType
<1>4. CASE Crash
  BY <1>4 DEF Crash, ReplayType
<1>5. CASE UNCHANGED <<replay, replays>>
  BY <1>5 DEF ReplayType
<1> QED
  BY <1>1, <1>2, <1>3, <1>4, <1>5 DEF Next, Goes, StartComparison, ComparisonRaises, LocalCase,
     LocalFile, MaasCase, MaasFile, CaptureSample, ArtifactDiff, WriteSummary, WriteReport,
     Listing, ListingRaises, Configure, Step, vars

LEMMA Invariant ==
  Spec => [](EvalType /\ EvalInv /\ ReplayType /\ ArchiveStays /\ CasesBounded)
<1>1. EvalType /\ EvalInv /\ ReplayType /\ ArchiveStays /\ CasesBounded /\ [Next]_vars
        => ReplayType' /\ ArchiveStays' /\ CasesBounded'
  BY ReplayStep, ArchiveStep, BoundStep
<1> QED
  BY <1>1, InitRest, InitInv, NextInv, PTL DEF Spec

\* Every variable keeps its type: no branch runs more cases than it was given,
\* and no replay more than its limit.
THEOREM TypeCorrect == Spec => []TypeOK
<1>1. EvalType /\ ReplayType /\ CasesBounded => TypeOK
  BY DEF EvalType, ReplayType, CasesBounded, TypeOK
<1> QED
  BY <1>1, Invariant, PTL

\* A replay that is skipped had nothing to replay: before it, every failing case
\* of every comparison whose branches both ran had a sample that is torn
\* (replay_failure_samples, ensure_failure_samples_from_existing_comparisons).
THEOREM SkippedReplaysAreClean == Spec => SkippedIsClean
<1> DEFINE Clean ==
      replay.stage # "skipped" /\ replay'.stage = "skipped" =>
        \A c \in Comparisons :
          summary[c].file = "whole" /\ summary[c].maas =>
            \A i \in summary[c].failing : samples[c][i] = "torn"
<1>1. EvalType /\ EvalInv /\ ReplayType /\ ArchiveStays /\ [Next]_vars => [Clean]_vars
  <2> SUFFICES ASSUME EvalType, EvalInv, ReplayType, ArchiveStays, [Next]_vars,
                      replay.stage # "skipped", replay'.stage = "skipped",
                      NEW c \in Comparisons, summary[c].file = "whole", summary[c].maas,
                      NEW i \in summary[c].failing
               PROVE  samples[c][i] = "torn"
    OBVIOUS
  <2>1. StartReplay
    BY DEF Next, Goes, StartComparison, ComparisonRaises, LocalCase, LocalFile, MaasCase,
       MaasFile, CaptureSample, ArtifactDiff, WriteSummary, WriteReport, Listing,
       ListingRaises, ReplayCase, ReplaySummary, Configure, Crash, Step, vars, ReplayType
  <2>2. Listed(Restored) = {}
    BY <2>1, Picked
  <2>3. i \in Cases /\ samples[c][i] \in File
    BY DEF EvalType, Summary
  <2>4. summary[c].status # "passed"
    <3>1. CASE c \in Archived
      BY <3>1 DEF ArchiveStays
    <3>2. CASE c \notin Archived
      BY <3>2, Agree DEF EvalInv, Reported
    <3> QED
      BY <3>1, <3>2
  <2>5. Restored[c][i] # "whole"
    <3>1. <<c, i>> \in Comparisons \X Cases /\ <<c, i>>[1] = c /\ <<c, i>>[2] = i
      BY <2>3
    <3> QED
      BY <2>2, <3>1 DEF Listed
  <2>6. CASE samples[c][i] = "none"
    <3>1. c \in Restorable
      BY <2>4, <2>6 DEF Restorable
    <3> QED
      BY <2>3, <2>5, <3>1 DEF Restored
  <2>7. CASE samples[c][i] = "whole"
    BY <2>3, <2>5, <2>7 DEF Restored
  <2> QED
    BY <2>3, <2>6, <2>7 DEF File
<1> QED
  BY <1>1, Invariant, PTL DEF Spec, SkippedIsClean
-----------------------------------------------------------------------------
(* Progress counted: what a comparison and a replay have before them.      *)
Missing(c) == {i \in Failing(c) : samples[c][i] # "whole"}

\* At stage s, with l and m cases run of the branches and k samples missing.
Rank(s, l, m, k) ==
  CASE s = "idle" -> 7 + NumCases + NumCases + NumCases
    [] s = "local" -> 6 + NumCases + NumCases + (NumCases - l)
    [] s = "local_file" -> 6 + NumCases + NumCases
    [] s = "maas" -> 5 + NumCases + (NumCases - m)
    [] s = "maas_file" -> 4 + NumCases
    [] s = "capture" -> 3 + k
    [] s = "summary" -> 2
    [] s = "report" -> 1
    [] OTHER -> 0

StepsLeft(c) == Rank(stage[c], Len(local[c]), Len(maas[c]), Cardinality(Missing(c)))

CasesLeft == IF replay.stage = "running" THEN 1 + Len(replay.picked) - replay.done ELSE 0

LEMMA SubsetOfCases ==
  ASSUME NEW S \in SUBSET Cases
  PROVE  /\ IsFiniteSet(S) /\ Cardinality(S) \in Nat /\ Cardinality(S) <= NumCases
         /\ S = {} => Cardinality(S) = 0
<1>1. 1 \in Int /\ NumCases \in Int /\ NumCases > 0
  BY Parameters
<1>2. /\ IsFiniteSet(1 .. NumCases)
      /\ Cardinality(1 .. NumCases) = IF 1 > NumCases THEN 0 ELSE NumCases - 1 + 1
  BY ONLY <1>1, FS_Interval
<1>3. IsFiniteSet(Cases) /\ Cardinality(Cases) = NumCases
  BY <1>1, <1>2 DEF Cases
<1>4. IsFiniteSet(S) /\ Cardinality(S) <= Cardinality(Cases)
  <2>1. S \subseteq Cases
    OBVIOUS
  <2> QED
    BY ONLY <1>3, <2>1, FS_Subset
<1>5. Cardinality(S) \in Nat
  BY ONLY <1>4, FS_CardinalityType
<1>6. S = {} => Cardinality(S) = 0
  BY ONLY <1>4, FS_EmptySet
<1> QED
  BY <1>3, <1>4, <1>5, <1>6

\* A sample more is one less that is missing.
LEMMA OneLess ==
  ASSUME NEW S \in SUBSET Cases, NEW i \in S
  PROVE  Cardinality(S \ {i}) = Cardinality(S) - 1
<1>1. IsFiniteSet(S)
  BY SubsetOfCases
<1> QED
  BY ONLY <1>1, i \in S, FS_RemoveElement

LEMMA MissingNow ==
  ASSUME NEW c \in Comparisons
  PROVE  /\ Missing(c) \in SUBSET Cases
         /\ Missing(c)' \in SUBSET Cases
         /\ Cardinality(Missing(c)) \in 0 .. NumCases
         /\ Cardinality(Missing(c))' \in 0 .. NumCases
<1>1. Missing(c) \in SUBSET Cases /\ Missing(c)' \in SUBSET Cases
  BY DEF Missing, Failing, Cases
<1>2. Cardinality(Missing(c))' = Cardinality(Missing(c)')
  OBVIOUS
<1>3. \A n \in Nat : n <= NumCases => n \in 0 .. NumCases
  BY Parameters
<1> QED
  BY <1>1, <1>2, <1>3, SubsetOfCases

\* A comparison's own step, in the terms of its rank.
LEMMA StepMoves ==
  ASSUME NEW c \in Comparisons, EvalType, Progress(c),
         Goes(c) \/ StartComparison(c) \/ ComparisonRaises(c)
  PROVE  \/ stage[c] = "idle" /\ stage'[c] = "local" /\ Len(local'[c]) = 0
         \/ stage[c] = "local" /\ stage'[c] = "local" /\ Len(local'[c]) = Len(local[c]) + 1
         \/ stage[c] = "local" /\ stage'[c] = "local_file"
         \/ stage[c] = "local_file" /\ stage'[c] = "maas" /\ Len(maas'[c]) = 0
         \/ stage[c] = "local_file" /\ stage'[c] = "maas_file"
         \/ stage[c] = "maas" /\ stage'[c] = "maas" /\ Len(maas'[c]) = Len(maas[c]) + 1
         \/ stage[c] = "maas" /\ stage'[c] = "maas_file"
         \/ stage[c] = "maas_file" /\ stage'[c] = "capture"
         \/ /\ stage[c] = "capture" /\ stage'[c] = "capture"
            /\ \E i \in Missing(c) : Missing(c)' = Missing(c) \ {i}
         \/ stage[c] = "capture" /\ stage'[c] = "summary"
         \/ stage[c] = "summary" /\ stage'[c] = "report"
         \/ stage[c] = "report" /\ stage'[c] = "ended"
         \/ stage[c] \in Writing /\ stage'[c] = "lost"
<1> USE DEF EvalType, Step
<1>a. local[c] \in Seq(Outcome) /\ maas[c] \in Seq(Outcome) /\ Len(<<>>) = 0
  OBVIOUS
<1>1. CASE StartComparison(c)
  BY <1>1, <1>a DEF StartComparison, Progress
<1>2. CASE LocalCase(c)
  BY <1>2, <1>a DEF LocalCase
<1>3. CASE LocalFile(c)
  BY <1>3, <1>a DEF LocalFile, Progress
<1>4. CASE MaasCase(c)
  BY <1>4, <1>a DEF MaasCase
<1>5. CASE MaasFile(c)
  BY <1>5 DEF MaasFile
<1>6. CASE CaptureSample(c)
  <2>1. PICK i \in Failing(c) : samples[c][i] # "whole"
                                /\ samples' = [samples EXCEPT ![c][i] = "whole"]
    BY <1>6 DEF CaptureSample
  <2>2. Failing(c)' = Failing(c) /\ Failing(c) \subseteq Cases
    BY <1>6, Frame DEF CaptureSample, Failing
  <2>3. i \in Missing(c) /\ Missing(c)' = Missing(c) \ {i}
    BY <2>1, <2>2 DEF Missing
  <2> QED
    BY <1>6, <2>3 DEF CaptureSample
<1>7. CASE ArtifactDiff(c) \/ WriteSummary(c) \/ WriteReport(c) \/ ComparisonRaises(c)
  BY <1>7 DEF ArtifactDiff, WriteSummary, WriteReport, ComparisonRaises, Writing
<1> QED
  BY <1>1, <1>2, <1>3, <1>4, <1>5, <1>6, <1>7 DEF Goes

LEMMA Bounds ==
  ASSUME NEW c \in Comparisons, EvalType, CasesBounded
  PROVE  /\ Len(local[c]) \in 0 .. NumCases
         /\ Len(maas[c]) \in 0 .. NumCases
  BY Parameters DEF EvalType, CasesBounded

LEMMA RankBounded ==
  ASSUME NEW s, NEW l \in 0 .. NumCases, NEW m \in 0 .. NumCases, NEW k \in 0 .. NumCases
  PROVE  Rank(s, l, m, k) \in 0 .. 7 + NumCases + NumCases + NumCases
  BY Parameters DEF Rank

LEMMA OwnStepAdvances ==
  ASSUME NEW c \in Comparisons, EvalType, EvalType', CasesBounded, CasesBounded', Progress(c),
         Goes(c) \/ StartComparison(c) \/ ComparisonRaises(c)
  PROVE  StepsLeft(c)' < StepsLeft(c) /\ StepsLeft(c)' <= StepsLeft(c)
<1> DEFINE l == Len(local[c])
           m == Len(maas[c])
           k == Cardinality(Missing(c))
           l1 == Len(local'[c])
           m1 == Len(maas'[c])
           k1 == Cardinality(Missing(c)')
<1>1. /\ l \in 0 .. NumCases /\ m \in 0 .. NumCases /\ k \in 0 .. NumCases
      /\ l1 \in 0 .. NumCases /\ m1 \in 0 .. NumCases /\ k1 \in 0 .. NumCases
  BY Bounds, MissingNow, Parameters DEF EvalType, CasesBounded
<1>2. /\ StepsLeft(c) = Rank(stage[c], l, m, k)
      /\ StepsLeft(c)' = Rank(stage'[c], l1, m1, k1)
  BY DEF StepsLeft, Rank
<1>3. stage[c] = "local" => l < NumCases
  BY DEF Progress
<1>4. stage[c] = "maas" => m < NumCases
  BY DEF Progress
<1>5. ASSUME NEW i \in Missing(c), Missing(c)' = Missing(c) \ {i}
      PROVE  k1 = k - 1
  BY <1>5, MissingNow, OneLess
<1>6. \/ stage[c] = "idle" /\ stage'[c] = "local" /\ l1 = 0
      \/ stage[c] = "local" /\ stage'[c] = "local" /\ l1 = l + 1
      \/ stage[c] = "local" /\ stage'[c] = "local_file"
      \/ stage[c] = "local_file" /\ stage'[c] = "maas" /\ m1 = 0
      \/ stage[c] = "local_file" /\ stage'[c] = "maas_file"
      \/ stage[c] = "maas" /\ stage'[c] = "maas" /\ m1 = m + 1
      \/ stage[c] = "maas" /\ stage'[c] = "maas_file"
      \/ stage[c] = "maas_file" /\ stage'[c] = "capture"
      \/ stage[c] = "capture" /\ stage'[c] = "capture" /\ k1 = k - 1
      \/ stage[c] = "capture" /\ stage'[c] = "summary"
      \/ stage[c] = "summary" /\ stage'[c] = "report"
      \/ stage[c] = "report" /\ stage'[c] = "ended"
      \/ stage[c] \in Writing /\ stage'[c] = "lost"
  BY <1>5, StepMoves
<1> HIDE DEF l, m, k, l1, m1, k1
<1>7. /\ Rank(stage'[c], l1, m1, k1) < Rank(stage[c], l, m, k)
      /\ Rank(stage'[c], l1, m1, k1) <= Rank(stage[c], l, m, k)
  BY <1>1, <1>3, <1>4, <1>6, Parameters DEF Rank, Writing
<1> QED
  BY <1>2, <1>7

\* Nobody else sets a comparison back.
LEMMA OtherStepKeeps ==
  ASSUME NEW c \in Comparisons, EvalType, EvalType', CasesBounded, CasesBounded', [Next]_vars,
         ~(Goes(c) \/ StartComparison(c) \/ ComparisonRaises(c))
  PROVE  StepsLeft(c)' <= StepsLeft(c)
<1>1. /\ Len(local[c]) \in 0 .. NumCases /\ Len(maas[c]) \in 0 .. NumCases
      /\ Cardinality(Missing(c)) \in 0 .. NumCases
  BY Bounds, MissingNow
<1>2. StepsLeft(c) \in 0 .. 7 + NumCases + NumCases + NumCases
  BY <1>1, RankBounded DEF StepsLeft
<1>3. CASE /\ stage'[c] = stage[c] /\ ran'[c] = ran[c]
           /\ local'[c] = local[c] /\ maas'[c] = maas[c]
           /\ stage[c] = "capture" => samples'[c] = samples[c]
  <2>1. stage[c] = "capture" => Cardinality(Missing(c))' = Cardinality(Missing(c))
    BY <1>3, Frame DEF Missing
  <2>2. StepsLeft(c)' = StepsLeft(c)
    BY <1>3, <2>1 DEF StepsLeft, Rank
  <2> QED
    BY <1>2, <2>2, Parameters
<1>4. CASE stage'[c] = "lost"
  <2>1. StepsLeft(c)' = 0
    BY <1>4 DEF StepsLeft, Rank
  <2> QED
    BY <1>2, <2>1, Parameters
<1>5. ASSUME NEW d \in Comparisons, d # c, StartComparison(d) \/ Goes(d) \/ ComparisonRaises(d)
      PROVE  StepsLeft(c)' <= StepsLeft(c)
  BY <1>3, <1>5 DEF EvalType, Goes, StartComparison, ComparisonRaises, LocalCase, LocalFile,
     MaasCase, MaasFile, CaptureSample, ArtifactDiff, WriteSummary, WriteReport, TornWrite, Step
<1>6. CASE Listing \/ ListingRaises \/ StartReplay
  BY <1>3, <1>6 DEF Listing, ListingRaises, StartReplay, LoopIsFree, Writing
<1>7. CASE Crash
  <2>1. stage'[c] = IF stage[c] \in {"idle", "ended"} THEN stage[c] ELSE "lost"
    BY <1>7 DEF Crash
  <2>2. ran' = ran /\ local' = local /\ maas' = maas
    BY <1>7 DEF Crash
  <2> QED
    BY <1>3, <1>4, <2>1, <2>2
<1>8. CASE ReplayCase \/ ReplaySummary \/ Configure \/ UNCHANGED vars
  BY <1>3, <1>8 DEF ReplayCase, ReplaySummary, Configure, vars
<1> QED
  BY <1>5, <1>6, <1>7, <1>8 DEF Next

LEMMA ReplayAdvances ==
  ASSUME ReplayType, ReplayCase \/ ReplaySummary
  PROVE  CasesLeft \in Nat /\ CasesLeft' < CasesLeft
<1>1. /\ replay.done \in Nat /\ Len(replay.picked) \in Nat /\ replay.done <= Len(replay.picked)
      /\ replay.stage = "running"
  BY DEF ReplayType, ReplayCase, ReplaySummary
<1>2. CASE ReplayCase
  <2>1. /\ replay.done < Len(replay.picked)
        /\ replay'.stage = "running" /\ replay'.done = replay.done + 1
        /\ replay'.picked = replay.picked
    BY <1>1, <1>2 DEF ReplayCase, ReplayType
  <2> QED
    BY <1>1, <2>1 DEF CasesLeft
<1>3. CASE ReplaySummary
  <2>1. replay'.stage # "running"
    BY <1>3 DEF ReplaySummary, ReplayType
  <2> QED
    BY <1>1, <2>1 DEF CasesLeft
<1> QED
  BY <1>2, <1>3

\* What EveryEvaluationEnds rests on: every step of a comparison brings it
\* nearer to its end, which is at most 7 steps and three per case away, and
\* neither another comparison, nor a listing, a replay or a crash sets it back;
\* a replay gets nearer to its own with every case (run_ab_comparison,
\* replay_failure_samples).
THEOREM EvaluationsAdvance ==
  Spec => /\ [](\A c \in Comparisons \ Archived :
                  StepsLeft(c) \in 0 .. 7 + NumCases + NumCases + NumCases)
          /\ [][\A c \in Comparisons \ Archived :
                  /\ StepsLeft(c)' <= StepsLeft(c)
                  /\ StartComparison(c) \/ Goes(c) \/ ComparisonRaises(c) =>
                       StepsLeft(c)' < StepsLeft(c)]_vars
          /\ [][ReplayCase \/ ReplaySummary => CasesLeft \in Nat /\ CasesLeft' < CasesLeft]_vars
<1> DEFINE Inv == EvalType /\ EvalInv /\ ReplayType /\ ArchiveStays /\ CasesBounded
           Bounded == \A c \in Comparisons \ Archived :
                        StepsLeft(c) \in 0 .. 7 + NumCases + NumCases + NumCases
           Advances == \A c \in Comparisons \ Archived :
                  /\ StepsLeft(c)' <= StepsLeft(c)
                  /\ StartComparison(c) \/ Goes(c) \/ ComparisonRaises(c) =>
                       StepsLeft(c)' < StepsLeft(c)
           Replays == ReplayCase \/ ReplaySummary => CasesLeft \in Nat /\ CasesLeft' < CasesLeft
<1>1. Inv => Bounded
  BY Bounds, MissingNow, RankBounded DEF StepsLeft
<1>2. Inv /\ Inv' /\ [Next]_vars => [Advances]_vars
  <2> SUFFICES ASSUME Inv, Inv', [Next]_vars, NEW c \in Comparisons \ Archived
               PROVE  /\ StepsLeft(c)' <= StepsLeft(c)
                      /\ StartComparison(c) \/ Goes(c) \/ ComparisonRaises(c) =>
                           StepsLeft(c)' < StepsLeft(c)
    OBVIOUS
  <2>1. Progress(c)
    BY DEF EvalInv
  <2>2. CASE StartComparison(c) \/ Goes(c) \/ ComparisonRaises(c)
    BY <2>1, <2>2, OwnStepAdvances
  <2> QED
    BY <2>2, OtherStepKeeps
<1>3. Inv /\ [Next]_vars => [Replays]_vars
  BY ReplayAdvances
<1> QED
  BY <1>1, <1>2, <1>3, Invariant, PTL DEF Spec
=============================================================================
