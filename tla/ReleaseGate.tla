----------------------------- MODULE ReleaseGate -----------------------------
(***************************************************************************)
(* The gate in front of ExecutionControl: how one generated run becomes a  *)
(* release that may be executed.  Its evidence lives in two places that no *)
(* transaction spans: status files in the run's directory, written by      *)
(* artifact_store.py, and rows of the control database, written by         *)
(* production_control.py afterwards and in the same web handler.  Handlers *)
(* never await between reading and writing, and one process serves them,   *)
(* so each is one step, unless it ends between two of its writes: the      *)
(* database refuses its part, or a crash or a full disk cuts it short.  A  *)
(* file that is torn makes its readers raise, which is a step not taken.   *)
(*                                                                         *)
(* A run whose quality gates failed has no release; this run's passed.     *)
(***************************************************************************)
EXTENDS Naturals, Sequences

CONSTANTS
  Artifacts,    \* the run's artifacts that require a review
  Versions,     \* contents of an artifact, which is what SHA-256 tells apart
  Resources,    \* cloud resources that bindings can name
  MaxReleases,  \* bound: release packages generated
  MaxRequests,  \* bound: execution requests accepted
  None          \* no file, no row

ASSUME GateAssumption ==
  /\ MaxReleases \in Nat
  /\ MaxRequests \in Nat
  /\ None \notin Versions \cup Resources

VARIABLES
  content,    \* the artifact files
  review,     \* review_status.json
  approvals,  \* sat_artifact_approvals: the latest row, and the hashes of approving rows
  release,    \* release_status.json
  manifest,   \* release_manifest.json, beside the package itself
  recorded,   \* sat_releases, oldest first
  binding,    \* cloud_binding_status.json
  halfBound,  \* history: what the manifest says of a binding is of one cut short
  standard,   \* dataarts_standard_status.json: ready_for_cloud_probe
  handoff,    \* import_review_status.json
  probe,      \* cloud_resource_probe_status.json
  requests    \* release of every execution request accepted

vars == <<content, review, approvals, release, manifest, recorded,
          binding, halfBound, standard, handoff, probe, requests>>
-----------------------------------------------------------------------------
Decision == {"approved", "rejected"}
Review   == [status : Decision \cup {"pending"}, hash : Versions]
Approval == [decision : Decision \cup {"none"}, hash : Versions \cup {None},
             approved : SUBSET Versions]
\* bound: the cloud_binding section says ready_for_import_review.
Release  == [id : 1 .. MaxReleases, hashes : [Artifacts -> Versions], bound : BOOLEAN]
NoRelease == [id |-> 0, hashes |-> [a \in Artifacts |-> None], bound |-> FALSE]

Init ==
  /\ content \in [Artifacts -> Versions]
  /\ review = [a \in Artifacts |-> [status |-> "pending", hash |-> content[a]]]
  /\ approvals = [a \in Artifacts |-> [decision |-> "none", hash |-> None, approved |-> {}]]
  /\ release = NoRelease
  /\ manifest = [id |-> 0, bound |-> FALSE]
  /\ recorded = <<>>
  /\ binding = [ready |-> FALSE, release |-> 0, resources |-> None]
  /\ halfBound = FALSE
  /\ standard = FALSE
  /\ handoff = [ready |-> FALSE, release |-> 0]
  /\ probe = [ready |-> FALSE, real |-> FALSE, resources |-> None]
  /\ requests = <<>>

\* The files' own verdict: every artifact approved as it is now.
Ready == \A a \in Artifacts : review[a] = [status |-> "approved", hash |-> content[a]]

\* An artifact file changes behind the handlers; readiness checks for it.
EditArtifact(a, v) ==
  /\ content[a] # v
  /\ content' = [content EXCEPT ![a] = v]
  /\ UNCHANGED <<review, approvals, release, manifest, recorded,
                 binding, halfBound, standard, handoff, probe, requests>>
-----------------------------------------------------------------------------
\* Definitions named Bug... are deliberate mistakes; nothing uses them.

\* BugNoHash: the review is filed without the hash of what was reviewed.
BugNoHash(a, decision) ==
  review' = [review EXCEPT ![a] = [status |-> decision, hash |-> None]]

FileReview(a, decision) ==
  review' = [review EXCEPT ![a] = [status |-> decision, hash |-> content[a]]]

ReviewArtifact(a, decision) ==
  /\ FileReview(a, decision)
  /\ approvals' = [approvals EXCEPT ![a] =
       [decision |-> decision, hash |-> content[a],
        approved |-> @.approved \cup (IF decision = "approved" THEN {content[a]} ELSE {})]]
  /\ UNCHANGED <<content, release, manifest, recorded,
                 binding, halfBound, standard, handoff, probe, requests>>

\* The file is written and the insert raises: the decision is not persisted.
ReviewUnrecorded(a, decision) ==
  /\ FileReview(a, decision)
  /\ UNCHANGED <<content, approvals, release, manifest, recorded,
                 binding, halfBound, standard, handoff, probe, requests>>

\* BugDecisionOnly: any approval will do, whatever it approved.
BugDecisionOnly(hashes) == \A a \in Artifacts : approvals[a].decision = "approved"

\* BugTrustsFiles: the status file is asked instead of the database.
BugTrustsFiles(hashes) == \A a \in Artifacts :
  review[a].status = "approved" /\ review[a].hash = hashes[a]

\* record_release: the latest persisted decisions approve exactly these hashes.
Persisted(hashes) == \A a \in Artifacts :
  approvals[a].decision = "approved" /\ approvals[a].hash = hashes[a]

\* The new package replaces the status file and its binding section; the
\* other status files of the run stay.
NewRelease == [id |-> manifest.id + 1, hashes |-> [a \in Artifacts |-> review[a].hash],
               bound |-> FALSE]

\* The package comes before the status file.
WritePackage ==
  /\ Ready
  /\ manifest.id < MaxReleases
  /\ manifest' = [id |-> NewRelease.id, bound |-> FALSE]
  /\ halfBound' = FALSE
  /\ UNCHANGED <<content, review, approvals, binding, standard, handoff, probe, requests>>

WriteRelease == WritePackage /\ release' = NewRelease

GenerateRelease ==
  /\ WriteRelease
  /\ Persisted(NewRelease.hashes)
  /\ recorded' = Append(recorded, NewRelease)

\* record_release refuses, or the database does; the package stays on disk.
GenerateUnrecorded == WriteRelease /\ UNCHANGED recorded

\* Cut short behind the manifest: the status file is an earlier release's.
GenerateCut == WritePackage /\ UNCHANGED <<release, recorded>>
-----------------------------------------------------------------------------
\* A binding writes the status file, the manifest and its own status file, in
\* this order.  ok: the checks of the values given passed.
BindStatus(ok) ==
  /\ release # NoRelease
  /\ release' = [release EXCEPT !.bound = ok]
  /\ UNCHANGED <<content, review, approvals, recorded, standard, handoff, probe, requests>>

BindManifest(ok) == BindStatus(ok) /\ manifest' = [manifest EXCEPT !.bound = ok]

Bind(resources, ok) ==
  /\ BindManifest(ok)
  /\ binding' = [ready |-> ok, release |-> release.id, resources |-> resources]
  /\ halfBound' = FALSE

\* Cut short behind the first file or the second.
BindCut(ok) ==
  /\ UNCHANGED binding
  /\ \/ BindStatus(ok) /\ UNCHANGED <<manifest, halfBound>>
     \/ BindManifest(ok) /\ halfBound' = ok

\* BugStatusOnly: IR-009 asks the status file alone.
BugStatusOnly == release.bound

\* IR-009: both files of the release carry the evidence of its binding.
BindingEvidence == release.bound /\ manifest.bound

\* ok: the checks of the package's contents (IR-002, IR-004 to IR-008) passed.
ImportReview(ok) ==
  /\ release # NoRelease
  /\ binding.ready
  /\ handoff' = [ready |-> ok /\ Ready /\ BindingEvidence, release |-> release.id]
  /\ UNCHANGED <<content, review, approvals, release, manifest, recorded,
                 binding, halfBound, standard, probe, requests>>

Standardize(ok) ==
  /\ release # NoRelease
  /\ standard' = ok
  /\ UNCHANGED <<content, review, approvals, release, manifest, recorded,
                 binding, halfBound, handoff, probe, requests>>

\* The operator names the resources to probe, or they come from the
\* environment or from the binding: ready and real say how that went.
Probe(resources, ready, real) ==
  /\ release # NoRelease
  /\ standard
  /\ probe' = [ready |-> ready, real |-> real, resources |-> resources]
  /\ UNCHANGED <<content, review, approvals, release, manifest, recorded,
                 binding, halfBound, standard, handoff, requests>>

RequestExecution ==
  /\ Len(requests) < MaxRequests
  /\ release # NoRelease
  /\ Ready
  /\ recorded # <<>>
  /\ recorded[Len(recorded)].id = release.id
  /\ probe.ready
  /\ probe.real
  /\ requests' = Append(requests, release.id)
  /\ UNCHANGED <<content, review, approvals, release, manifest, recorded,
                 binding, halfBound, standard, handoff, probe>>

Next ==
  \/ \E a \in Artifacts, v \in Versions : EditArtifact(a, v)
  \/ \E a \in Artifacts, decision \in Decision :
       ReviewArtifact(a, decision) \/ ReviewUnrecorded(a, decision)
  \/ GenerateRelease
  \/ GenerateUnrecorded
  \/ GenerateCut
  \/ \E resources \in Resources, ok \in BOOLEAN : Bind(resources, ok)
  \/ \E ok \in BOOLEAN : BindCut(ok) \/ ImportReview(ok) \/ Standardize(ok)
  \/ \E resources \in Resources, ready, real \in BOOLEAN : Probe(resources, ready, real)
  \/ RequestExecution

Spec == Init /\ [][Next]_vars
-----------------------------------------------------------------------------
\* Every variable keeps its type.
TypeOK ==
  /\ content \in [Artifacts -> Versions]
  /\ review \in [Artifacts -> Review]
  /\ approvals \in [Artifacts -> Approval]
  /\ release \in Release \cup {NoRelease}
  /\ manifest \in [id : 0 .. MaxReleases, bound : BOOLEAN]
  /\ recorded \in Seq(Release)
  /\ binding \in [ready : BOOLEAN, release : 0 .. MaxReleases, resources : Resources \cup {None}]
  /\ halfBound \in BOOLEAN
  /\ standard \in BOOLEAN
  /\ handoff \in [ready : BOOLEAN, release : 0 .. MaxReleases]
  /\ probe \in [ready : BOOLEAN, real : BOOLEAN, resources : Resources \cup {None}]
  /\ requests \in Seq(1 .. MaxReleases)

\* Whatever is edited, reviewed again, regenerated or lost between the files
\* and the database, the release of an accepted request consists of contents
\* that somebody's persisted decision approved (record_release,
\* _execution_release).
RequestedWasApproved ==
  \A i \in DOMAIN requests : \E j \in DOMAIN recorded :
    /\ recorded[j].id = requests[i]
    /\ \A a \in Artifacts : recorded[j].hashes[a] \in approvals[a].approved

\* An import is handed to the operator only for a release that was itself
\* bound.  The status file of an earlier release's binding, which is still
\* there, gets through in one case alone: a binding of this very package was
\* cut short between the manifest and its own status file
\* (create_cloud_binding_simulation, create_import_review, IR-003, IR-009).
HandoffIsBound ==
  [][handoff' # handoff /\ handoff'.ready =>
       binding.ready /\ (binding.release = handoff'.release \/ halfBound)]_vars

\* README.md:26: production writes require "current artifact approvals stored
\* against exact SHA-256 hashes": when a request is accepted, the latest
\* persisted decision on every artifact approves what its release contains.
ApprovalsAreCurrent ==
  [][requests' # requests => Persisted(release.hashes)]_vars

\* main.py:1189: "A successful read-only verification of the bound cloud
\* resources is required": when a request is accepted for a run whose
\* resources are bound, they are the resources that were verified.
ProbeCoversBinding ==
  [][requests' # requests /\ binding.ready => probe.resources = binding.resources]_vars
=============================================================================
