----------------------------- MODULE RunLifecycle -----------------------------
(***************************************************************************)
(* A run from its prompt to an execution request: AgentRun writes the      *)
(* directory in which the handlers of ReleaseGate then work, and an        *)
(* evaluation case (evaluation.py) takes its own run through the handlers' *)
(* functions before anybody else can: it approves every artifact in the    *)
(* status file, not in the database, and does not await, so that only the  *)
(* disk and the end of the process come between its steps.                 *)
(*                                                                         *)
(* ReleaseGate starts where the package is on disk with every gate passed; *)
(* here both are conditions on the files, and RunSpec implements its Spec. *)
(***************************************************************************)
EXTENDS ReleaseGate

CONSTANTS
  Dimensions, Metrics, Rfc  \* see AgentRun

ASSUME AgentAssumption == Rfc \notin Dimensions \cup Metrics

VARIABLES
  origin, stage, contract, audit, dryRun, gates, written, told,  \* see AgentRun
  harness  \* what run_eval_case does next

agent == <<origin, stage, contract, audit, dryRun, gates, written, told>>

runVars == <<vars, agent, harness>>

Agent == INSTANCE AgentRun
-----------------------------------------------------------------------------
RunInit == Init /\ Agent!Init /\ harness = "idle"

\* The evaluation goes on at once with what its generation returns.
AgentStep ==
  /\ Agent!Next
  /\ harness' = IF origin = "evaluation" /\ told' = "completed" THEN "approve" ELSE harness
  /\ UNCHANGED vars

\* A review needs the status file that lists the artifacts.
Reviewable == Agent!OnDisk("review_status")

\* Definitions named Bug... are deliberate mistakes; nothing uses them.

\* BugNoManifest: a run without its manifest is ready all the same.
BugNoManifest ==
  /\ Reviewable
  /\ Agent!OnDisk("quality_gates")
  /\ gates = {}

\* What readiness reads beside the reviews: no missing file, no failed gate.
Releasable ==
  /\ Reviewable
  /\ Agent!OnDisk("quality_gates")
  /\ Agent!OnDisk("run_manifest")
  /\ gates = {}

\* An artifact can be edited once it is there, whatever the process does.
Edit ==
  /\ Agent!OnDisk("artifacts")
  /\ stage # "persist"
  /\ \E a \in Artifacts, v \in Versions : EditArtifact(a, v)
  /\ UNCHANGED <<agent, harness>>
-----------------------------------------------------------------------------
\* A handler runs when neither generation nor evaluation holds the event
\* loop; the stream gives it up before run_completed.
LoopIsFree ==
  /\ harness = "idle"
  /\ \/ stage = "over"
     \/ stage = "respond" /\ origin = "stream"

Handle ==
  /\ LoopIsFree
  /\ \/ /\ Reviewable
        /\ \E a \in Artifacts, decision \in Decision :
             ReviewArtifact(a, decision) \/ ReviewUnrecorded(a, decision)
     \/ Releasable /\ GenerateRelease
     \/ Releasable /\ GenerateUnrecorded
     \/ Releasable /\ GenerateCut
     \/ \E resources \in Resources, ok \in BOOLEAN : Bind(resources, ok)
     \/ \E ok \in BOOLEAN : BindCut(ok) \/ ImportReview(ok) \/ Standardize(ok)
     \/ \E resources \in Resources, ready, real \in BOOLEAN : Probe(resources, ready, real)
     \/ Releasable /\ RequestExecution
  /\ UNCHANGED <<agent, harness>>
-----------------------------------------------------------------------------
Turn(here, next) ==
  /\ harness = here
  /\ harness' = next
  /\ UNCHANGED agent

Unapproved == {a \in Artifacts : review[a].status = "pending"}

HarnessApprove ==
  /\ Turn("approve", "approve")
  /\ \E a \in Unapproved : ReviewUnrecorded(a, "approved")

HarnessApproved ==
  /\ Turn("approve", "release")
  /\ Unapproved = {}
  /\ UNCHANGED vars

\* A blocked answer is no exception: the case goes on without a release.
HarnessRelease ==
  /\ Turn("release", "bind")
  /\ \/ Releasable /\ GenerateUnrecorded
     \/ ~(Releasable /\ Ready) /\ UNCHANGED vars

\* BugBindAnyway: a run without a release is bound.
BugBindAnyway ==
  /\ Turn("bind", "import")
  /\ \E resources \in Resources, ok \in BOOLEAN :
       binding' = [ready |-> ok, release |-> release.id, resources |-> resources]
  /\ UNCHANGED <<content, review, approvals, release, manifest, recorded, halfBound,
                 standard, handoff, probe, requests>>

HarnessBind ==
  /\ Turn("bind", "import")
  /\ \/ \E resources \in Resources, ok \in BOOLEAN : Bind(resources, ok)
     \/ release = NoRelease /\ UNCHANGED vars

HarnessImport ==
  /\ Turn("import", "idle")
  /\ \/ \E ok \in BOOLEAN : ImportReview(ok)
     \/ ~(release # NoRelease /\ binding.ready) /\ UNCHANGED vars

\* A step raises, or the process dies: nothing is undone.
HarnessStops ==
  /\ harness # "idle"
  /\ harness' = "idle"
  /\ UNCHANGED <<vars, agent>>

\* The process dies between two writes of a release or a binding.
HarnessCut ==
  /\ harness' = "idle"
  /\ UNCHANGED agent
  /\ \/ harness = "release" /\ Releasable /\ GenerateCut
     \/ harness = "bind" /\ \E ok \in BOOLEAN : BindCut(ok)

Harness ==
  \/ HarnessApprove \/ HarnessApproved \/ HarnessRelease \/ HarnessBind
  \/ HarnessImport \/ HarnessStops \/ HarnessCut

RunNext == AgentStep \/ Edit \/ Handle \/ Harness

RunSpec == RunInit /\ [][RunNext]_runVars
-----------------------------------------------------------------------------
\* The generation's variables and the harness keep their types.
RunTypeOK ==
  /\ Agent!TypeOK
  /\ harness \in {"idle", "approve", "release", "bind", "import"}

\* See AgentRun.
CompletedIsWhole == Agent!CompletedIsWhole

\* A release is only ever made of a package whose generation got to its last
\* file: not of one that a full disk or a crash left half written, whatever is
\* approved in it (persist_run_package, release_readiness).
ReleasedIsWhole == release # NoRelease => written = Len(Agent!PackageFiles)

\* Whatever MaaS answers, a contract is released only if it serves exactly the
\* supported dimensions and metrics, states a goal and keeps execution blocked
\* (normalize_business_contract, audit_business_contract, FG-002 and
\* release_readiness together).
ReleasedIsSupported ==
  release # NoRelease =>
    /\ contract.dimensions = Dimensions
    /\ contract.metrics = Metrics
    /\ contract.goal
    /\ contract.blocks

\* What the evaluation approves for itself is no approval: until a reviewer
\* has persisted one, no release is recorded and nothing can be executed
\* (approve_reviewable_artifacts, record_release, _execution_release).
EvaluationApprovesNothing ==
  (\E a \in Artifacts : approvals[a].approved = {}) => recorded = <<>> /\ requests = <<>>

\* Every step of a run is a step of the gate or leaves it alone: what holds of
\* ReleaseGate holds of runs as they are really made.
ImplementsGate == Spec
=============================================================================
