-------------------------- MODULE RunLifecycleProofs --------------------------
(* Theorems about RunLifecycle, for any names, artifacts, contents,        *)
(* resources and bounds: runs implement the gate, so that what is proved   *)
(* of ReleaseGate holds of them, and what they release is a whole package  *)
(* of a supported contract.                                                *)
EXTENDS RunLifecycle, ReleaseGateProofs

LEMMA PackageLength == Len(Agent!PackageFiles) = 6
BY DEF Agent!PackageFiles

LEMMA WholeWithManifest ==
  ASSUME written \in 0 .. 6, Agent!OnDisk("run_manifest")
  PROVE  written = 6
BY DEF Agent!OnDisk, Agent!PackageFiles
-----------------------------------------------------------------------------
\* A step of RunLifecycle is a step of the gate, or leaves its state alone.
LEMMA StepImplements == [RunNext]_runVars => [Next]_vars
<1> SUFFICES ASSUME [RunNext]_runVars PROVE [Next]_vars
  OBVIOUS
<1>1. CASE AgentStep
  BY <1>1 DEF AgentStep
<1>2. CASE Edit
  BY <1>2 DEF Edit, Next
<1>3. CASE Handle
  BY <1>3 DEF Handle, Next
<1>4. CASE Harness
  <2>1. CASE HarnessApprove
    BY <2>1 DEF HarnessApprove, Unapproved, Next, Decision
  <2>2. CASE HarnessApproved
    BY <2>2 DEF HarnessApproved
  <2>3. CASE HarnessRelease
    BY <2>3 DEF HarnessRelease, Next
  <2>4. CASE HarnessBind
    BY <2>4 DEF HarnessBind, Next
  <2>5. CASE HarnessImport
    BY <2>5 DEF HarnessImport, Next
  <2>6. CASE HarnessStops
    BY <2>6 DEF HarnessStops
  <2>7. CASE HarnessCut
    BY <2>7 DEF HarnessCut, Next
  <2> QED
    BY <1>4, <2>1, <2>2, <2>3, <2>4, <2>5, <2>6, <2>7 DEF Harness
<1>5. CASE UNCHANGED runVars
  BY <1>5 DEF runVars
<1> QED
  BY <1>1, <1>2, <1>3, <1>4, <1>5 DEF RunNext

\* Every run, generated, evaluated and handled as it may be, behaves as the
\* gate says (run_agent_workflow, run_eval_case and the handlers of main.py).
THEOREM RunsImplementGate == RunSpec => ImplementsGate
<1>1. RunInit => Init
  BY DEF RunInit
<1> QED
  BY <1>1, StepImplements, PTL DEF RunSpec, Spec, ImplementsGate

\* Runs as they are generated, evaluated and handled keep what is proved of the
\* gate: a request is for a release whose every content somebody approved, and
\* a ready handoff for one with a binding of its own, or with one that was cut
\* short between the manifest and its status file (_execution_release,
\* create_cloud_binding_simulation, create_import_review).
THEOREM GateHoldsOfRuns ==
  /\ RunSpec => []RequestedWasApproved
  /\ RunSpec => HandoffIsBound
<1>1. RunSpec => Spec
  BY RunsImplementGate DEF ImplementsGate
<1> QED
  BY <1>1, RequestsWereApproved, HandoffsAreBound

\* What an evaluation approved lets nobody record or execute a release.
THEOREM EvaluationsApproveNothing == RunSpec => []EvaluationApprovesNothing
<1>1. TypeOK /\ ApprovalTrail => EvaluationApprovesNothing
  <2> SUFFICES ASSUME TypeOK, ApprovalTrail, NEW a \in Artifacts, approvals[a].approved = {}
               PROVE  recorded = <<>> /\ requests = <<>>
    BY DEF EvaluationApprovesNothing
  <2>1. DOMAIN recorded = {}
    BY DEF ApprovalTrail
  <2>2. DOMAIN requests = {}
    BY <2>1 DEF ApprovalTrail
  <2> QED
    BY <2>1, <2>2, EmptySeq, LenProperties DEF TypeOK
<1>2. Spec => [](TypeOK /\ ApprovalTrail)
  BY InitType, NextType, InitTrail, NextTrail, PTL DEF Spec
<1> QED
  BY <1>1, <1>2, RunsImplementGate, PTL DEF ImplementsGate
-----------------------------------------------------------------------------
\* The audit's verdict is the contract's, the gates carry it, and only what
\* is wholly on disk with no failed gate is released.
RunInv ==
  /\ Agent!TypeOK
  /\ stage \in {"artifact_package", "local_dry_run", "review_gates"} =>
       audit = Agent!AuditFailures(contract)
  /\ stage \in {"finalize", "persist", "respond"} \/ written > 0 =>
       (gates = {} => Agent!AuditFailures(contract) = {})
  /\ written > 0 => stage \in {"persist", "respond", "over"}
  /\ stage = "respond" \/ told = "completed" => written = 6
  /\ release # NoRelease => written = 6 /\ gates = {}

LEMMA InitRun == RunInit => RunInv
<1> SUFFICES ASSUME RunInit PROVE RunInv
  OBVIOUS
<1>1. Agent!Init /\ release = NoRelease
  BY DEF RunInit, Init
<1>2. contract \in Agent!Contract
  BY <1>1 DEF Agent!Init, Agent!Contract, Agent!LocalContract, Agent!Names
<1>3. written \in 0 .. Len(Agent!PackageFiles)
  BY <1>1, PackageLength DEF Agent!Init
<1>4. audit = {} /\ gates = {} /\ stage = "local_data" /\ dryRun = "none" /\ told = "waiting"
      /\ origin \in {"api", "stream", "evaluation"}
  BY <1>1 DEF Agent!Init
<1>5. Agent!TypeOK
  BY <1>2, <1>3, <1>4 DEF Agent!TypeOK, Agent!Stages
<1> QED
  BY <1>1, <1>5 DEF RunInv, Agent!Init

LEMMA GatesCarryAudit ==
  ASSUME stage = "review_gates", RunInv, Agent!FailedGates = {}
  PROVE  Agent!AuditFailures(contract) = {}
<1>1. "FG-002" \notin Agent!FailedGates
  OBVIOUS
<1>2. audit = {}
  BY <1>1 DEF Agent!FailedGates
<1> QED
  BY <1>2 DEF RunInv

\* What a generation does, with the release left alone.
LEMMA AgentKeepsRun ==
  ASSUME RunInv, Agent!Next, UNCHANGED release
  PROVE  RunInv'
<1> USE PackageLength DEF RunInv, Agent!TypeOK, Agent!Stages, NoRelease
<1>1. CASE Agent!LocalData
  BY <1>1 DEF Agent!LocalData, Agent!Node
<1>2. CASE Agent!LocalAnswer
  <2>1. contract' \in Agent!Contract
    BY <1>2 DEF Agent!LocalAnswer, Agent!Contract, Agent!LocalContract, Agent!Names
  <2> QED
    BY <1>2, <2>1 DEF Agent!LocalAnswer, Agent!Node
<1>3. CASE Agent!MaasAnswer
  <2>1. PICK candidate \in Agent!Contract, goal \in BOOLEAN :
          contract' = Agent!Normalize(candidate, Agent!LocalContract(goal))
    BY <1>3 DEF Agent!MaasAnswer
  <2>2. contract' \in Agent!Contract
    BY <2>1 DEF Agent!Normalize, Agent!EnforcedPolicy, Agent!Contract, Agent!LocalContract
  <2> QED
    BY <1>3, <2>2 DEF Agent!MaasAnswer, Agent!Node
<1>4. CASE Agent!MaasUnparsable
  BY <1>4 DEF Agent!MaasUnparsable, Agent!Node
<1>5. CASE Agent!ContractAudit
  <2>1. audit' = Agent!AuditFailures(contract) /\ contract' = contract
    BY <1>5 DEF Agent!ContractAudit
  <2>2. audit' \subseteq Agent!Findings
    BY <2>1 DEF Agent!AuditFailures
  <2> QED
    BY <1>5, <2>1, <2>2 DEF Agent!ContractAudit, Agent!Node
<1>6. CASE Agent!ArtifactPackage
  BY <1>6 DEF Agent!ArtifactPackage, Agent!Node
<1>7. CASE Agent!LocalDryRun
  BY <1>7 DEF Agent!LocalDryRun, Agent!Node
<1>8. CASE Agent!ReviewGates
  <2>1. gates' = Agent!FailedGates /\ contract' = contract
    BY <1>8 DEF Agent!ReviewGates
  <2>2. gates' \subseteq {"FG-002", "FG-003"}
    BY <2>1 DEF Agent!FailedGates
  <2>3. gates' = {} => Agent!AuditFailures(contract)' = {}
    BY <1>8, <2>1, GatesCarryAudit DEF Agent!ReviewGates, Agent!Node
  <2> QED
    BY <1>8, <2>2, <2>3 DEF Agent!ReviewGates, Agent!Node
<1>9. CASE Agent!Finalize
  BY <1>9 DEF Agent!Finalize, Agent!Node
<1>10. CASE Agent!PersistFile
  BY <1>10 DEF Agent!PersistFile, Agent!Result
<1>11. CASE Agent!PersistEnds
  BY <1>11 DEF Agent!PersistEnds, Agent!Persisted, Agent!Result
<1>12. CASE Agent!PersistRaises
  BY <1>12 DEF Agent!PersistRaises, Agent!Result
<1>13. CASE Agent!Respond
  BY <1>13 DEF Agent!Respond, Agent!Result
<1>14. CASE Agent!Disconnect
  BY <1>14 DEF Agent!Disconnect, Agent!Result
<1>15. CASE Agent!Crash
  BY <1>15 DEF Agent!Crash, Agent!Result
<1> QED
  BY <1>1, <1>2, <1>3, <1>4, <1>5, <1>6, <1>7, <1>8, <1>9, <1>10, <1>11, <1>12,
     <1>13, <1>14, <1>15 DEF Agent!Next

\* What the handlers and the harness do, with the generation left alone.
LEMMA GateKeepsRun ==
  ASSUME RunInv, UNCHANGED agent, UNCHANGED release \/ release # NoRelease \/ Releasable
  PROVE  RunInv'
<1>1. Releasable => written = 6 /\ gates = {}
  BY WholeWithManifest, PackageLength DEF Releasable, RunInv, Agent!TypeOK
<1>2. release' # NoRelease => written = 6 /\ gates = {}
  BY <1>1 DEF RunInv
<1>3. (Agent!TypeOK /\ UNCHANGED agent) => Agent!TypeOK'
  BY DEF Agent!TypeOK, agent
<1>4. UNCHANGED agent => UNCHANGED Agent!AuditFailures(contract)
  BY DEF agent
<1> QED
  BY <1>2, <1>3, <1>4 DEF RunInv, agent, NoRelease

LEMMA NextRun == RunInv /\ [RunNext]_runVars => RunInv'
<1> SUFFICES ASSUME RunInv, [RunNext]_runVars PROVE RunInv'
  OBVIOUS
<1>1. CASE AgentStep
  BY <1>1, AgentKeepsRun DEF AgentStep, vars
<1>2. CASE Edit
  BY <1>2, GateKeepsRun DEF Edit, EditArtifact
<1>3. CASE Handle
  BY <1>3, GateKeepsRun
     DEF Handle, ReviewArtifact, ReviewUnrecorded, GenerateRelease, GenerateUnrecorded,
         GenerateCut, Bind, BindCut, BindManifest, BindStatus, ImportReview, Standardize,
         Probe, RequestExecution
<1>4. CASE Harness
  BY <1>4, GateKeepsRun
     DEF Harness, HarnessApprove, HarnessApproved, HarnessRelease, HarnessBind, HarnessImport,
         HarnessStops, HarnessCut, Turn, ReviewUnrecorded, GenerateUnrecorded, GenerateCut,
         Bind, BindCut, BindManifest, BindStatus, ImportReview, vars
<1>5. CASE UNCHANGED runVars
  BY <1>5, GateKeepsRun DEF runVars, vars
<1> QED
  BY <1>1, <1>2, <1>3, <1>4, <1>5 DEF RunNext

LEMMA RunInvariant == RunSpec => []RunInv
BY InitRun, NextRun, PTL DEF RunSpec

\* Every variable of a run keeps its type, whatever MaaS answers and whoever
\* drives the harness.
THEOREM RunsAreTyped == RunSpec => []RunTypeOK
<1> DEFINE Typed == harness \in {"idle", "approve", "release", "bind", "import"}
<1>1. RunInit => Typed
  BY DEF RunInit
<1>2. Typed /\ [RunNext]_runVars => Typed'
  BY DEF RunNext, runVars, AgentStep, Edit, Handle, Harness, HarnessApprove, HarnessApproved,
     HarnessRelease, HarnessBind, HarnessImport, HarnessStops, HarnessCut, Turn
<1>3. RunSpec => []Typed
  BY <1>1, <1>2, PTL DEF RunSpec
<1>4. RunInv /\ Typed => RunTypeOK
  BY DEF RunInv, RunTypeOK
<1> QED
  BY <1>3, <1>4, RunInvariant, PTL

\* The caller of a generation is told "completed" of whole packages only.
THEOREM CompletedRunsAreWhole == RunSpec => []CompletedIsWhole
<1>1. RunInv => CompletedIsWhole
  BY PackageLength DEF RunInv, CompletedIsWhole, Agent!CompletedIsWhole
<1> QED
  BY <1>1, RunInvariant, PTL

\* A crash, a full disk or a closed stream leaves nothing that is released.
THEOREM ReleasesAreWhole == RunSpec => []ReleasedIsWhole
<1>1. RunInv => ReleasedIsWhole
  BY PackageLength DEF RunInv, ReleasedIsWhole
<1> QED
  BY <1>1, RunInvariant, PTL

LEMMA NoFailureMeansSupported ==
  ASSUME Agent!AuditFailures(contract) = {}
  PROVE  /\ contract.dimensions = Dimensions
         /\ contract.metrics = Metrics
         /\ contract.goal
         /\ contract.blocks
<1>1. \A check \in Agent!Findings : check \notin Agent!AuditFailures(contract)
  OBVIOUS
<1>2. /\ "CA-001" \notin Agent!AuditFailures(contract)
      /\ "CA-002" \notin Agent!AuditFailures(contract)
      /\ "CA-003" \notin Agent!AuditFailures(contract)
      /\ "CA-008" \notin Agent!AuditFailures(contract)
  BY <1>1 DEF Agent!Findings
<1> QED
  BY <1>2 DEF Agent!AuditFailures, Agent!Findings

\* Whatever MaaS answers, what is released serves the supported names only and
\* keeps execution blocked.
THEOREM ReleasesAreSupported == RunSpec => []ReleasedIsSupported
<1>1. RunInv => ReleasedIsSupported
  <2> SUFFICES ASSUME RunInv, release # NoRelease PROVE ReleasedIsSupported
    BY DEF ReleasedIsSupported
  <2>1. Agent!AuditFailures(contract) = {}
    BY DEF RunInv
  <2> QED
    BY <2>1, NoFailureMeansSupported DEF ReleasedIsSupported
<1> QED
  BY <1>1, RunInvariant, PTL
=============================================================================
