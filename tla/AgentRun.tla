------------------------------- MODULE AgentRun -------------------------------
(***************************************************************************)
(* One generation (agent_graph.py): a chain of nodes turns a prompt into a *)
(* business contract, audits it, renders the artifacts, runs them dry,     *)
(* decides the quality gates, and persist_run_package writes the run       *)
(* directory file by file.  Only the call to MaaS waits for anything; the  *)
(* stream's reader may leave at every event, the process may die between   *)
(* any two steps, and the disk may refuse any file.                        *)
(*                                                                         *)
(* A contract is what the later nodes read of it.  Checks that pass on     *)
(* every contract and every sample row (CA-004, FG-001, FG-004, FG-005),   *)
(* the gate that is always blocked (FG-006) and warnings are left out.     *)
(***************************************************************************)
EXTENDS Naturals, Sequences

CONSTANTS
  Dimensions,  \* SUPPORTED_DIMENSIONS
  Metrics,     \* SUPPORTED_METRICS
  Rfc          \* the identifier that must not be served: none of these

VARIABLES
  origin,    \* who asked: POST /api/runs, its stream, or an evaluation case
  stage,     \* the node to run next
  contract,  \* business_contract
  audit,     \* failed findings of contract_audit
  dryRun,    \* status of local_execution
  gates,     \* failed quality gates
  written,   \* how many of PackageFiles are complete on disk
  told       \* what the caller has heard

vars == <<origin, stage, contract, audit, dryRun, gates, written, told>>
-----------------------------------------------------------------------------
Names == Dimensions \cup Metrics \cup {Rfc}

\* goal: a business goal is stated; blocks: approval_policy blocks execution.
Contract == [dimensions : SUBSET Names, metrics : SUBSET Names,
             goal : BOOLEAN, blocks : BOOLEAN]

\* The local contract has no goal when the prompt is blank.
LocalContract(goal) ==
  [dimensions |-> Dimensions, metrics |-> Metrics, goal |-> goal, blocks |-> TRUE]

Findings == {"CA-001", "CA-002", "CA-003", "CA-007", "CA-008"}

\* In the order persist_run_package writes them; "evidence" is request.json
\* to local_execution.json, "trace" lineage_manifest.json and maas_trace.json.
PackageFiles == <<"artifacts", "evidence", "quality_gates", "trace",
                  "review_status", "run_manifest">>

OnDisk(file) == \E i \in 1 .. written : PackageFiles[i] = file

Init ==
  /\ origin \in {"api", "stream", "evaluation"}
  /\ stage = "local_data"
  /\ contract = LocalContract(FALSE)
  /\ audit = {}
  /\ dryRun = "none"
  /\ gates = {}
  /\ written = 0
  /\ told = "waiting"

\* A node runs and hands the state to the next.
Node(here, next) ==
  /\ stage = here
  /\ stage' = next
  /\ UNCHANGED <<origin, written, told>>
-----------------------------------------------------------------------------
\* Definitions named Bug... are deliberate mistakes; nothing uses them.

\* The synthetic rows are the same for every run.
LocalData ==
  /\ Node("local_data", "business_contract")
  /\ UNCHANGED <<contract, audit, dryRun, gates>>

\* enforce_approval_policy: a policy that does not block gives way to the local one.
EnforcedPolicy(candidate, fallback) == candidate.blocks \/ fallback.blocks

\* What the model leaves out comes from the local contract, which a set of
\* names equal to the supported ones stands for.
Normalize(candidate, fallback) ==
  [candidate EXCEPT !.goal = @ \/ fallback.goal,
                    !.blocks = EnforcedPolicy(candidate, fallback)]

\* MaaS was not asked for, is not configured, or its call raised.
LocalAnswer ==
  /\ Node(stage, "contract_audit")
  /\ stage \in {"business_contract", "second_call"}
  /\ \E goal \in BOOLEAN : contract' = LocalContract(goal)
  /\ UNCHANGED <<audit, dryRun, gates>>

MaasAnswer ==
  /\ Node(stage, "contract_audit")
  /\ stage \in {"business_contract", "second_call"}
  /\ \E candidate \in Contract, goal \in BOOLEAN :
       contract' = Normalize(candidate, LocalContract(goal))
  /\ UNCHANGED <<audit, dryRun, gates>>

\* The answer holds no JSON object: it is asked for once more, shorter.
MaasUnparsable ==
  /\ Node("business_contract", "second_call")
  /\ UNCHANGED <<contract, audit, dryRun, gates>>
-----------------------------------------------------------------------------
\* BugExtrasPass: names the adapters do not know are not looked for.
BugExtrasPass(c) ==
  {check \in Findings :
     CASE check = "CA-001" -> ~c.goal
       [] check = "CA-002" -> ~(Dimensions \subseteq c.dimensions)
       [] check = "CA-003" -> ~(Metrics \subseteq c.metrics)
       [] check = "CA-007" -> Rfc \in c.dimensions \cup c.metrics
       [] check = "CA-008" -> ~c.blocks}

AuditFailures(c) ==
  {check \in Findings :
     CASE check = "CA-001" -> ~c.goal
       [] check = "CA-002" -> c.dimensions # Dimensions
       [] check = "CA-003" -> c.metrics # Metrics
       [] check = "CA-007" -> Rfc \in c.dimensions \cup c.metrics
       [] check = "CA-008" -> ~c.blocks}

ContractAudit ==
  /\ Node("contract_audit", "artifact_package")
  /\ audit' = AuditFailures(contract)
  /\ UNCHANGED <<contract, dryRun, gates>>

ArtifactPackage ==
  /\ Node("artifact_package", "local_dry_run")
  /\ UNCHANGED <<contract, audit, dryRun, gates>>

\* The columns of the dry run's output are the names of the contract.
OutputColumns == contract.dimensions \cup contract.metrics

\* rows: the contract's filters leave sample rows.  Both outputs that are
\* compared come from one function; LR-007 can fail.
LocalDryRun ==
  /\ Node("local_dry_run", "review_gates")
  /\ \E rows \in BOOLEAN :
       dryRun' = IF rows /\ Rfc \in OutputColumns THEN "failed" ELSE "passed"
  /\ UNCHANGED <<contract, audit, gates>>

\* BugBlockedFails: the gate that is always blocked is counted as failed.
BugBlockedFails == {"FG-006"}

FailedGates ==
  {gate \in {"FG-002", "FG-003"} :
     \/ gate = "FG-002" /\ audit # {}
     \/ gate = "FG-003" /\ dryRun = "failed"}

ReviewGates ==
  /\ Node("review_gates", "finalize")
  /\ gates' = FailedGates
  /\ UNCHANGED <<contract, audit, dryRun>>

Finalize ==
  /\ Node("finalize", "persist")
  /\ UNCHANGED <<contract, audit, dryRun, gates>>
-----------------------------------------------------------------------------
Result == <<origin, contract, audit, dryRun, gates>>

\* BugAnsweredEarly: the manifest is written after the answer.
BugAnsweredEarly == written >= Len(PackageFiles) - 1

Persisted == written = Len(PackageFiles)

PersistFile ==
  /\ stage = "persist"
  /\ written < Len(PackageFiles)
  /\ written' = written + 1
  /\ UNCHANGED <<stage, told, Result>>

PersistEnds ==
  /\ stage = "persist"
  /\ Persisted
  /\ stage' = "respond"
  /\ UNCHANGED <<written, told, Result>>

PersistRaises ==
  /\ stage = "persist"
  /\ written < Len(PackageFiles)
  /\ stage' = "over"
  /\ told' = "error"
  /\ UNCHANGED <<written, Result>>

\* run_completed, or the answer of run_agent_workflow.
Respond ==
  /\ stage = "respond"
  /\ stage' = "over"
  /\ told' = "completed"
  /\ UNCHANGED <<written, Result>>

\* The stream's reader leaves: the generator is closed at its last yield.
Disconnect ==
  /\ origin = "stream"
  /\ stage \notin {"persist", "over"}
  /\ stage' = "over"
  /\ told' = "nothing"
  /\ UNCHANGED <<written, Result>>

Crash ==
  /\ stage # "over"
  /\ stage' = "over"
  /\ told' = "nothing"
  /\ UNCHANGED <<written, Result>>

Next ==
  \/ LocalData \/ LocalAnswer \/ MaasAnswer \/ MaasUnparsable
  \/ ContractAudit \/ ArtifactPackage \/ LocalDryRun \/ ReviewGates \/ Finalize
  \/ PersistFile \/ PersistEnds \/ PersistRaises \/ Respond
  \/ Disconnect \/ Crash
-----------------------------------------------------------------------------
Stages == {"local_data", "business_contract", "second_call", "contract_audit",
           "artifact_package", "local_dry_run", "review_gates", "finalize",
           "persist", "respond", "over"}

\* Every variable keeps its type.
TypeOK ==
  /\ origin \in {"api", "stream", "evaluation"}
  /\ stage \in Stages
  /\ contract \in Contract
  /\ audit \subseteq Findings
  /\ dryRun \in {"none", "passed", "failed"}
  /\ gates \subseteq {"FG-002", "FG-003"}
  /\ written \in 0 .. Len(PackageFiles)
  /\ told \in {"waiting", "completed", "error", "nothing"}

\* Whoever hears that a run is completed finds its whole package on disk,
\* whatever was refused, closed or killed before (run_agent_workflow_events,
\* persist_run_package).
CompletedIsWhole == told = "completed" => written = Len(PackageFiles)
=============================================================================
