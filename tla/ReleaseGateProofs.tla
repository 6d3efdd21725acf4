--------------------------- MODULE ReleaseGateProofs ---------------------------
(* Theorems about ReleaseGate, for any artifacts, contents, resources and  *)
(* bounds.                                                                 *)
EXTENDS ReleaseGate, SequenceTheorems, TLAPS

USE GateAssumption DEF GateAssumption

LEMMA InitType == Init => TypeOK
<1> SUFFICES ASSUME Init PROVE TypeOK
  OBVIOUS
<1> USE DEF Init
<1>1. content \in [Artifacts -> Versions] /\ review \in [Artifacts -> Review]
  BY DEF Review
<1>2. approvals \in [Artifacts -> Approval]
  BY DEF Approval
<1>3. release \in Release \cup {NoRelease} /\ recorded \in Seq(Release) /\ requests \in Seq(1 .. MaxReleases)
  BY EmptySeq
<1>4. /\ manifest \in [id : 0 .. MaxReleases, bound : BOOLEAN]
      /\ binding \in [ready : BOOLEAN, release : 0 .. MaxReleases, resources : Resources \cup {None}]
      /\ handoff \in [ready : BOOLEAN, release : 0 .. MaxReleases]
  OBVIOUS
<1>5. probe \in [ready : BOOLEAN, real : BOOLEAN, resources : Resources \cup {None}]
  OBVIOUS
<1> QED
  BY <1>1, <1>2, <1>3, <1>4, <1>5 DEF TypeOK

LEMMA NextType == TypeOK /\ [Next]_vars => TypeOK'
<1> SUFFICES ASSUME TypeOK, [Next]_vars PROVE TypeOK'
  OBVIOUS
<1> USE DEF TypeOK, Decision
<1>1. ASSUME NEW a \in Artifacts, NEW v \in Versions, EditArtifact(a, v) PROVE TypeOK'
  BY <1>1 DEF EditArtifact
<1>2. ASSUME NEW a \in Artifacts, NEW decision \in Decision, ReviewArtifact(a, decision)
      PROVE  TypeOK'
  BY <1>2 DEF ReviewArtifact, FileReview, Review, Approval
<1>3. ASSUME NEW a \in Artifacts, NEW decision \in Decision, ReviewUnrecorded(a, decision)
      PROVE  TypeOK'
  BY <1>3 DEF ReviewUnrecorded, FileReview, Review
<1>4. ASSUME WritePackage
      PROVE  NewRelease \in Release /\ manifest' \in [id : 0 .. MaxReleases, bound : BOOLEAN]
  BY <1>4 DEF WritePackage, NewRelease, Release, Review
<1>5. CASE GenerateRelease
  BY <1>4, <1>5, AppendProperties DEF GenerateRelease, WriteRelease, WritePackage
<1>6. CASE GenerateUnrecorded
  BY <1>4, <1>6 DEF GenerateUnrecorded, WriteRelease, WritePackage
<1>7. CASE GenerateCut
  BY <1>4, <1>7 DEF GenerateCut, WritePackage
<1>8. ASSUME NEW ok \in BOOLEAN, BindStatus(ok) PROVE release' \in Release
  BY <1>8 DEF BindStatus, Release
<1>9. ASSUME NEW ok \in BOOLEAN, BindManifest(ok)
       PROVE  manifest' \in [id : 0 .. MaxReleases, bound : BOOLEAN]
  BY <1>9 DEF BindManifest
<1>10. ASSUME NEW resources \in Resources, NEW ok \in BOOLEAN, Bind(resources, ok)
       PROVE  TypeOK'
  <2>1. release' \in Release /\ manifest' \in [id : 0 .. MaxReleases, bound : BOOLEAN]
    BY <1>10, <1>8, <1>9 DEF Bind, BindManifest
  <2>2. release.id \in 0 .. MaxReleases
    BY DEF Release, NoRelease
  <2>3. binding' \in [ready : BOOLEAN, release : 0 .. MaxReleases, resources : Resources \cup {None}]
    BY <1>10, <2>2 DEF Bind
  <2> QED
    BY <1>10, <2>1, <2>3 DEF Bind, BindManifest, BindStatus
<1>11. ASSUME NEW ok \in BOOLEAN, BindCut(ok) PROVE TypeOK'
  <2>1. release' \in Release
    BY <1>11, <1>8 DEF BindCut, BindManifest
  <2>2. manifest' \in [id : 0 .. MaxReleases, bound : BOOLEAN]
    BY <1>11, <1>9 DEF BindCut
  <2> QED
    BY <1>11, <2>1, <2>2 DEF BindCut, BindManifest, BindStatus
<1>12. ASSUME NEW ok \in BOOLEAN, ImportReview(ok) PROVE TypeOK'
  BY <1>12 DEF ImportReview, BindingEvidence, Ready, Release, NoRelease
<1>13. ASSUME NEW ok \in BOOLEAN, Standardize(ok) PROVE TypeOK'
  BY <1>13 DEF Standardize
<1>14. ASSUME NEW resources \in Resources, NEW ready \in BOOLEAN, NEW real \in BOOLEAN,
              Probe(resources, ready, real)
       PROVE  TypeOK'
  BY <1>14 DEF Probe
<1>15. CASE RequestExecution
  BY <1>15, AppendProperties DEF RequestExecution, Release, NoRelease
<1>16. CASE UNCHANGED vars
  BY <1>16 DEF vars
<1> QED
  BY <1>1, <1>2, <1>3, <1>5, <1>6, <1>7, <1>10, <1>11, <1>12, <1>13, <1>14, <1>15, <1>16 DEF Next

\* Every file and every table of the gate keeps its type.
THEOREM TypeCorrect == Spec => []TypeOK
  BY InitType, NextType, PTL DEF Spec
-----------------------------------------------------------------------------
(* The approvals table is append-only: an approving row stays behind every *)
(* recorded release, and a request names a recorded release.               *)
ApprovalTrail ==
  /\ \A a \in Artifacts :
       approvals[a].decision = "approved" => approvals[a].hash \in approvals[a].approved
  /\ \A j \in DOMAIN recorded, a \in Artifacts :
       recorded[j].hashes[a] \in approvals[a].approved
  /\ \A i \in DOMAIN requests : \E j \in DOMAIN recorded : recorded[j].id = requests[i]

LEMMA InitTrail == Init => ApprovalTrail
  BY DEF Init, ApprovalTrail

LEMMA NextTrail == TypeOK /\ ApprovalTrail /\ [Next]_vars => ApprovalTrail'
<1> SUFFICES ASSUME TypeOK, ApprovalTrail, [Next]_vars PROVE ApprovalTrail'
  OBVIOUS
<1> USE DEF ApprovalTrail
<1>1. ASSUME NEW a \in Artifacts, NEW decision \in Decision, ReviewArtifact(a, decision)
      PROVE  ApprovalTrail'
  <2>1. \A b \in Artifacts : approvals[b].approved \subseteq approvals'[b].approved
    BY <1>1 DEF ReviewArtifact, TypeOK, Approval
  <2>2. \A b \in Artifacts : approvals'[b].decision = "approved" =>
          approvals'[b].hash \in approvals'[b].approved
    BY <1>1 DEF ReviewArtifact, TypeOK, Approval
  <2> QED
    BY <1>1, <2>1, <2>2 DEF ReviewArtifact
<1>2. CASE GenerateRelease
  <2>1. /\ approvals' = approvals /\ requests' = requests
        /\ recorded' = Append(recorded, NewRelease)
        /\ NewRelease \in Release
    BY <1>2 DEF GenerateRelease, WriteRelease, WritePackage, TypeOK, NewRelease, Release, Review
  <2>2. \A a \in Artifacts : NewRelease.hashes[a] \in approvals[a].approved
    BY <1>2 DEF GenerateRelease, Persisted
  <2>3. DOMAIN recorded' = DOMAIN recorded \cup {Len(recorded) + 1}
    BY <2>1, AppendProperties DEF TypeOK
  <2>4. /\ \A j \in DOMAIN recorded : recorded'[j] = recorded[j]
        /\ recorded'[Len(recorded) + 1] = NewRelease
    BY <2>1, AppendProperties DEF TypeOK
  <2> QED
    BY <2>1, <2>2, <2>3, <2>4
<1>3. CASE RequestExecution
  <2>1. /\ approvals' = approvals /\ recorded' = recorded
        /\ requests' = Append(requests, release.id) /\ release.id \in 1 .. MaxReleases
        /\ Len(recorded) \in DOMAIN recorded /\ recorded[Len(recorded)].id = release.id
    <3>1. Len(recorded) \in DOMAIN recorded
      BY <1>3, EmptySeq, LenProperties DEF RequestExecution, TypeOK
    <3> QED
      BY <1>3, <3>1 DEF RequestExecution, TypeOK, Release
  <2>2. DOMAIN requests' = DOMAIN requests \cup {Len(requests) + 1}
    BY <2>1, AppendProperties DEF TypeOK
  <2>3. /\ \A i \in DOMAIN requests : requests'[i] = requests[i]
        /\ requests'[Len(requests) + 1] = release.id
    BY <2>1, AppendProperties DEF TypeOK
  <2> QED
    BY <2>1, <2>2, <2>3
<1>4. CASE UNCHANGED <<approvals, recorded, requests>>
  BY <1>4
<1> QED
  BY <1>1, <1>2, <1>3, <1>4
     DEF Next, vars, EditArtifact, ReviewUnrecorded, GenerateUnrecorded, GenerateCut,
         WriteRelease, WritePackage, Bind, BindCut, BindManifest, BindStatus, ImportReview,
         Standardize, Probe

\* Whatever is executed consists of contents that were approved and persisted.
THEOREM RequestsWereApproved == Spec => []RequestedWasApproved
<1>1. ApprovalTrail => RequestedWasApproved
  BY DEF ApprovalTrail, RequestedWasApproved
<1> QED
  BY <1>1, InitType, NextType, InitTrail, NextTrail, PTL DEF Spec
-----------------------------------------------------------------------------
(* The manifest's evidence of a binding is about the release at hand, if    *)
(* the binding was not cut short.  The status file's is not: a binding      *)
(* writes it first.                                                         *)
EvidenceIsOwn ==
  manifest.bound => halfBound \/ (binding.ready /\ binding.release = release.id)

LEMMA InitEvidence == Init => EvidenceIsOwn
  BY DEF Init, EvidenceIsOwn

LEMMA NextEvidence == TypeOK /\ EvidenceIsOwn /\ [Next]_vars => EvidenceIsOwn'
<1> SUFFICES ASSUME TypeOK, EvidenceIsOwn, [Next]_vars PROVE EvidenceIsOwn'
  OBVIOUS
<1> USE DEF EvidenceIsOwn
<1>1. CASE WritePackage
  BY <1>1 DEF WritePackage
<1>2. ASSUME NEW ok \in BOOLEAN, BindStatus(ok) PROVE release'.id = release.id
  BY <1>2 DEF BindStatus, TypeOK, Release, NoRelease
<1>3. ASSUME NEW ok \in BOOLEAN, BindManifest(ok) PROVE manifest'.bound = ok
  BY <1>3 DEF BindManifest, TypeOK
<1>4. ASSUME NEW resources \in Resources, NEW ok \in BOOLEAN, Bind(resources, ok)
      PROVE  EvidenceIsOwn'
  BY <1>2, <1>3, <1>4 DEF Bind, BindManifest
<1>5. ASSUME NEW ok \in BOOLEAN, BindCut(ok) PROVE EvidenceIsOwn'
  <2>1. CASE BindStatus(ok) /\ UNCHANGED <<manifest, halfBound>>
    BY <1>2, <1>5, <2>1 DEF BindCut
  <2>2. CASE BindManifest(ok) /\ halfBound' = ok
    BY <1>3, <2>2
  <2> QED
    BY <1>5, <2>1, <2>2 DEF BindCut
<1>6. CASE UNCHANGED <<release, manifest, binding, halfBound>>
  BY <1>6
<1> QED
  BY <1>1, <1>4, <1>5, <1>6
     DEF Next, vars, EditArtifact, ReviewArtifact, ReviewUnrecorded, GenerateRelease,
         GenerateUnrecorded, GenerateCut, WriteRelease, ImportReview, Standardize, Probe,
         RequestExecution

\* An operator is handed a release on an earlier release's binding only if a
\* binding of this release was cut short between the manifest and its own
\* status file (create_cloud_binding_simulation, create_import_review).
THEOREM HandoffsAreBound == Spec => HandoffIsBound
<1>1. EvidenceIsOwn /\ [Next]_vars =>
        [handoff' # handoff /\ handoff'.ready =>
           binding.ready /\ (binding.release = handoff'.release \/ halfBound)]_vars
  <2> SUFFICES ASSUME EvidenceIsOwn, Next, handoff' # handoff, handoff'.ready
               PROVE  binding.ready /\ (binding.release = handoff'.release \/ halfBound)
    BY DEF vars
  <2>1. PICK ok \in BOOLEAN : ImportReview(ok)
    BY DEF Next, EditArtifact, ReviewArtifact, ReviewUnrecorded, WritePackage, WriteRelease,
           GenerateRelease, GenerateUnrecorded, GenerateCut, Bind, BindCut, BindManifest,
           BindStatus, Standardize, Probe, RequestExecution
  <2> QED
    BY <2>1 DEF ImportReview, BindingEvidence, EvidenceIsOwn
<1> QED
  BY <1>1, InitType, NextType, InitEvidence, NextEvidence, PTL DEF Spec, HandoffIsBound
=============================================================================
