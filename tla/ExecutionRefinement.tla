------------------------- MODULE ExecutionRefinement -------------------------
(* What was withdrawn, started or ended stays so, and ExecutionControl     *)
(* implements AuthorizedOnce, for one web process and any number of        *)
(* requests, keys, actors, workers and faults.                             *)
EXTENDS ExecutionFaultProofs

USE ConstantsAssumption DEF ConstantsAssumption, Requests

(* The audit trail of a row that no worker has started tells its status,   *)
(* and a cancellation under way still finds the row as it read it, unless  *)
(* a worker has started it since.                                          *)
RowTrail(r) ==
  /\ row[r].status = "absent" => row[r] = NoRow /\ audit[r] = {}
  /\ row[r].status = "execution_requested" =>
       audit[r] = {"execution_requested"} /\ row[r].approved_by = None
  /\ row[r].status = "queued" =>
       "approved_for_execution" \in audit[r] /\ "cancelled" \notin audit[r]
  /\ ~Started(r) => row[r].status \in Queueable \cup {"cancelled"}
  /\ ~Started(r) /\ row[r].status = "cancelled" => "cancelled" \in audit[r]

CancelTrail(a) ==
  web[a].op = "cancel" /\ ~Started(web[a].req) =>
    /\ row[web[a].req].status \in {"execution_requested", "queued"}
    /\ web[a].snap = row[web[a].req].status

Trail ==
  /\ \A r \in Requests : RowTrail(r)
  /\ \A a \in Web : CancelTrail(a)

LEMMA InitTrail == Init => Trail
<1> SUFFICES ASSUME Init PROVE Trail
  OBVIOUS
<1>1. ASSUME NEW r \in Requests PROVE RowTrail(r)
  BY DEF Init, RowTrail, NoRow, Queueable
<1>2. ASSUME NEW a \in Web PROVE CancelTrail(a)
  BY DEF Init, CancelTrail, NoTransaction
<1> QED
  BY <1>1, <1>2 DEF Trail

\* Steps that change neither the rows nor the trail.
LEMMA Quiet ==
  TypeOK /\ [Next]_vars =>
    \/ UNCHANGED <<row, audit>>
    \/ \E a \in Web : \/ ApproveCommit(a)
                      \/ CancelCommit(a)
                      \/ \E r \in Requests, key \in Keys, target \in Targets, actor \in Actors :
                           CreateRequest(a, r, key, target, actor)
    \/ \E w \in Workers : \/ ClaimCommit(w)
                          \/ wk[w].pc = "write" /\ WriteRow(w) /\ UNCHANGED <<jobs, web>>
  BY DEF Next, vars, WebStep, ApproveRead, CancelRead, WorkerStep, FaultStep, ClaimLock,
         SubmitAccepted, SubmitRefused, SubmitUnanswered, CheckCancel, CheckTimeout, CheckPoll,
         CancelAccepted, CancelRaises, Poll, PollRaises, UpdateRead, UpdateCommit, Crash, Restart,
         DatabaseRaises, RefreshRaises, JobEnds

LEMMA NextTrail ==
  ASSUME \A a, b \in Web : a = b
  PROVE  TypeOK /\ Existing /\ ApprovalCarried /\ Exclusive /\ Trail /\ [Next]_vars => Trail'
<1> SUFFICES ASSUME TypeOK, Existing, ApprovalCarried, Exclusive, Trail, [Next]_vars PROVE Trail'
  OBVIOUS
<1>1. \A r \in Requests : row[r] \in Row
  BY DEF TypeOK
<1>2. ASSUME NEW r \in Requests, row'[r] = row[r], audit'[r] = audit[r] PROVE RowTrail(r)'
  BY <1>2 DEF Trail, RowTrail, Started
<1>3. ASSUME NEW a \in Web, web'[a] = web[a],
             row'[web[a].req].status = row[web[a].req].status, audit'[web[a].req] = audit[web[a].req]
      PROVE  CancelTrail(a)'
  BY <1>3 DEF Trail, CancelTrail, Started
<1>4. ASSUME NEW a \in Web, web'[a].op # "cancel" PROVE CancelTrail(a)'
  BY <1>4 DEF CancelTrail
<1>5. ASSUME NEW a \in Web, web'[a] = web[a], "execution_started" \in audit'[web[a].req]
      PROVE  CancelTrail(a)'
  BY <1>5 DEF CancelTrail, Started
<1>6. CASE UNCHANGED <<row, audit>>
  <2>1. ASSUME NEW r \in Requests PROVE RowTrail(r)'
    BY <1>2, <1>6
  <2>2. ASSUME NEW a \in Web PROVE CancelTrail(a)'
    <3>1. CASE web'[a] = web[a]
      BY <1>3, <1>6, <3>1
    <3>2. CASE web'[a] = NoTransaction \/ \E r \in Requests, actor \in Actors : ApproveRead(a, r, actor)
      <4>1. web'[a].op # "cancel"
        BY <3>2 DEF ApproveRead, NoTransaction, TypeOK
      <4> QED
        BY <1>4, <4>1
    <3>3. ASSUME NEW r \in Requests, CancelRead(a, r) PROVE CancelTrail(a)'
      <4>1. web'[a].req = r /\ web'[a].snap = row[r].status /\ row[r].status \in Active
        BY <3>3 DEF CancelRead, TypeOK
      <4>2. ~Started(r) => row[r].status \in {"execution_requested", "queued"}
        BY <4>1 DEF Trail, RowTrail, Active, Queueable
      <4> QED
        BY <1>6, <4>1, <4>2 DEF CancelTrail, Started
    <3> QED
      BY <3>1, <3>2, <3>3, WebStepFrame
  <2> QED
    BY <2>1, <2>2 DEF Trail
<1>7. ASSUME NEW a \in Web, NEW r \in Requests, NEW key \in Keys, NEW target \in Targets,
             NEW actor \in Actors, CreateRequest(a, r, key, target, actor)
      PROVE  Trail'
  <2>1. /\ row[r].status = "absent" /\ audit[r] = {}
        /\ row'[r].status = "execution_requested" /\ row'[r].approved_by = None
        /\ audit'[r] = {"execution_requested"}
        /\ \A q \in Requests \ {r} : row'[q] = row[q] /\ audit'[q] = audit[q]
    BY <1>7 DEF CreateRequest, Recorded, Trail, RowTrail, TypeOK, NoRow
  <2>2. ASSUME NEW q \in Requests PROVE RowTrail(q)'
    <3>1. CASE q = r
      BY <2>1, <3>1 DEF RowTrail, Started, Queueable
    <3> QED
      BY <1>2, <2>1, <3>1
  <2>3. ASSUME NEW b \in Web, web[b].op = "cancel" PROVE CancelTrail(b)'
    <3>1. web[b].req \in Requests \ {r}
      BY <2>1, <2>3 DEF Existing
    <3> QED
      BY <1>3, <1>7, <2>1, <3>1 DEF CreateRequest
  <2>4. ASSUME NEW b \in Web, web[b].op # "cancel" PROVE CancelTrail(b)'
    BY <1>4, <1>7, <2>4 DEF CreateRequest
  <2> QED
    BY <2>2, <2>3, <2>4 DEF Trail
<1>8. ASSUME NEW a \in Web, ApproveCommit(a) PROVE Trail'
  <2> DEFINE r == web[a].req
  <2>1. r \in Requests /\ row[r].status = "execution_requested" /\ audit[r] = {"execution_requested"}
    BY <1>8 DEF ApproveCommit, Existing, Exclusive, Trail, RowTrail
  <2>2. /\ row'[r].status = "queued"
        /\ audit'[r] = {"execution_requested", "approved_for_execution"}
        /\ \A q \in Requests \ {r} : row'[q] = row[q] /\ audit'[q] = audit[q]
    <3>1. row[r] \in Row
      BY <1>1, <2>1
    <3> QED
      BY <1>8, <2>1, <3>1 DEF ApproveCommit, Recorded, TypeOK, Row
  <2>3. ASSUME NEW q \in Requests PROVE RowTrail(q)'
    <3>1. CASE q = r
      BY <2>2, <3>1 DEF RowTrail, Started, Queueable
    <3> QED
      BY <1>2, <2>2, <3>1
  <2>4. ASSUME NEW b \in Web PROVE CancelTrail(b)'
    <3>1. b = a /\ web'[b].op # "cancel"
      BY <1>8 DEF ApproveCommit, NoTransaction, TypeOK
    <3> QED
      BY <1>4, <3>1
  <2> QED
    BY <2>3, <2>4 DEF Trail
<1>9. ASSUME NEW a \in Web, CancelCommit(a) PROVE Trail'
  <2> DEFINE r == web[a].req
  <2>1. r \in Requests /\ row[r] \in Row
    BY <1>1, <1>9 DEF CancelCommit, Existing
  <2>2. /\ row'[r].status \in {"cancelled", "cancel_requested"}
        /\ audit'[r] = audit[r] \cup {row'[r].status}
        /\ \A q \in Requests \ {r} : row'[q] = row[q] /\ audit'[q] = audit[q]
    BY <1>9, <2>1 DEF CancelCommit, Recorded, TypeOK, Row
  <2>3. ~Started(r) => row'[r].status = "cancelled"
    <3>1. ~Started(r) => web[a].snap # "running"
      BY <1>9 DEF CancelCommit, Trail, CancelTrail
    <3> QED
      BY <1>9, <2>1, <3>1 DEF CancelCommit, TypeOK, Row
  <2>4. ASSUME NEW q \in Requests PROVE RowTrail(q)'
    <3>1. CASE q = r
      BY <2>2, <2>3, <3>1 DEF RowTrail, Started, Queueable
    <3> QED
      BY <1>2, <2>2, <3>1
  <2>5. ASSUME NEW b \in Web PROVE CancelTrail(b)'
    <3>1. b = a /\ web'[b].op # "cancel"
      BY <1>9 DEF CancelCommit, NoTransaction, TypeOK
    <3> QED
      BY <1>4, <3>1
  <2> QED
    BY <2>4, <2>5 DEF Trail
<1>10. ASSUME NEW r \in Requests, UNCHANGED web, "execution_started" \in audit'[r],
              row'[r].status \notin Queueable,
              \A q \in Requests \ {r} : row'[q] = row[q] /\ audit'[q] = audit[q]
       PROVE  Trail'
  <2>1. ASSUME NEW q \in Requests PROVE RowTrail(q)'
    <3>1. CASE q = r
      BY <1>10, <3>1 DEF RowTrail, Started, Queueable
    <3> QED
      BY <1>2, <1>10, <3>1
  <2>2. ASSUME NEW b \in Web PROVE CancelTrail(b)'
    <3>1. CASE web[b].op = "cancel" /\ web[b].req # r
      <4>1. web[b].req \in Requests
        BY <3>1 DEF Existing
      <4> QED
        BY <1>3, <1>10, <3>1, <4>1
    <3>2. CASE web[b].op = "cancel" /\ web[b].req = r
      BY <1>5, <1>10, <3>2
    <3> QED
      BY <1>4, <1>10, <3>1, <3>2
  <2> QED
    BY <2>1, <2>2 DEF Trail
<1>11. ASSUME NEW w \in Workers, ClaimCommit(w) PROVE Trail'
  <2>1. wk[w].req \in Requests /\ row[wk[w].req] \in Row
    BY <1>1, <1>11 DEF ClaimCommit, Existing
  <2>2. /\ "execution_started" \in audit'[wk[w].req] /\ row'[wk[w].req].status \notin Queueable /\ UNCHANGED web
        /\ \A q \in Requests \ {wk[w].req} : row'[q] = row[q] /\ audit'[q] = audit[q]
    BY <1>11, <2>1 DEF ClaimCommit, Recorded, Started, Queueable, TypeOK, Row
  <2> QED
    BY <1>10, <2>1, <2>2
<1>12. ASSUME NEW w \in Workers, wk[w].pc = "write", WriteRow(w), UNCHANGED <<jobs, web>> PROVE Trail'
  <2>1. wk[w].req \in Requests /\ row[wk[w].req] \in Row /\ Started(wk[w].req)
    BY <1>1, <1>12 DEF Existing, ApprovalCarried
  <2>2. row[wk[w].req].status \notin Queueable /\ wk[w].next \notin Queueable
    BY <2>1 DEF Exclusive, TypeOK, WorkerState, Terminal, Queueable
  <2>3. /\ "execution_started" \in audit'[wk[w].req] /\ row'[wk[w].req].status \notin Queueable /\ UNCHANGED web
        /\ \A q \in Requests \ {wk[w].req} : row'[q] = row[q] /\ audit'[q] = audit[q]
    BY <1>12, <2>1, <2>2 DEF WriteRow, Started, TypeOK, Row
  <2> QED
    BY <1>10, <2>1, <2>3
<1> QED
  BY <1>6, <1>7, <1>8, <1>9, <1>11, <1>12, Quiet

LEMMA TrailAlways ==
  ASSUME \A a, b \in Web : a = b
  PROVE  Spec => [](TypeOK /\ Existing /\ ApprovalCarried /\ Exclusive /\ SubmittedOnce /\ Trail)
<1>1. TypeOK /\ Existing /\ ApprovalCarried /\ Exclusive /\ Trail /\ [Next]_vars => Trail'
  BY NextTrail
<1> QED
  BY <1>1, ExclusiveAlways, InitSubmitted, NextSubmitted, InitTrail, PTL DEF Spec
-----------------------------------------------------------------------------
LEMMA StaysWithdrawn ==
  TypeOK /\ Existing /\ ApprovalCarried /\ Exclusive /\ Trail /\ [Next]_vars =>
    \A r \in Requests : row[r].status = "cancelled" /\ Unstarted(r) =>
      (row[r].status = "cancelled" /\ Unstarted(r))'
<1> SUFFICES ASSUME TypeOK, Existing, ApprovalCarried, Exclusive, Trail, [Next]_vars,
                    NEW r \in Requests, row[r].status = "cancelled", Unstarted(r)
             PROVE  (row[r].status = "cancelled" /\ Unstarted(r))'
  OBVIOUS
<1>1. \A q \in Requests : row[q] \in Row
  BY DEF TypeOK
<1>2. ASSUME NEW a \in Web, ApproveCommit(a) \/ CancelCommit(a) PROVE web[a].req # r
  BY <1>2 DEF ApproveCommit, CancelCommit, Exclusive, Trail, CancelTrail, Started, Unstarted
<1>3. ASSUME NEW w \in Workers, ClaimCommit(w) PROVE wk[w].req # r
  BY <1>3 DEF ClaimCommit, Exclusive
<1>4. ASSUME NEW w \in Workers, wk[w].pc = "write" PROVE wk[w].req # r
  BY <1>4 DEF ApprovalCarried, Started, Unstarted
<1>5. CASE Creation
  BY <1>5 DEF Creation, CreateRequest, Recorded, Unstarted, TypeOK
<1>6. CASE UNCHANGED <<row, audit>>
  BY <1>6 DEF Unstarted
<1>7. ASSUME NEW a \in Web, ApproveCommit(a) \/ CancelCommit(a)
      PROVE  (row[r].status = "cancelled" /\ Unstarted(r))'
  <2>1. row'[r] = row[r] /\ audit'[r] = audit[r]
    BY <1>2, <1>7 DEF ApproveCommit, CancelCommit, Recorded, TypeOK
  <2> QED
    BY <2>1 DEF Unstarted
<1>8. ASSUME NEW w \in Workers, ClaimCommit(w) \/ (wk[w].pc = "write" /\ WriteRow(w))
      PROVE  (row[r].status = "cancelled" /\ Unstarted(r))'
  <2>1. row'[r] = row[r] /\ audit'[r] = audit[r]
    BY <1>3, <1>4, <1>8 DEF ClaimCommit, WriteRow, Recorded, TypeOK
  <2> QED
    BY <2>1 DEF Unstarted
<1> QED
  BY <1>5, <1>6, <1>7, <1>8, Quiet DEF Creation

\* One web process, any number of workers: what was cancelled before its
\* start stays cancelled and is never started.
THEOREM WithdrawalsAreFinal ==
  ASSUME \A a, b \in Web : a = b
  PROVE  Spec => WithdrawnIsFinal
<1>1. TypeOK /\ Existing /\ ApprovalCarried /\ Exclusive /\ SubmittedOnce /\ Trail /\ [Next]_vars =>
        [\A r \in Requests : row[r].status = "cancelled" /\ Unstarted(r) =>
          (row[r].status = "cancelled" /\ Unstarted(r))']_vars
  BY StaysWithdrawn
<1> QED
  BY <1>1, TrailAlways, PTL DEF Spec, WithdrawnIsFinal
-----------------------------------------------------------------------------
(* A row leaves its execution for good: a started row never returns to the *)
(* queue, from which alone a worker takes rows, and a row that has ended   *)
(* is written by nobody but its worker and a cancellation that loaded it   *)
(* while it was active.                                                    *)
LEMMA StaysUnowned ==
  TypeOK /\ Exclusive /\ [Next]_vars =>
    \A r \in Requests : ~Unstarted(r) /\ Unowned(r) => Unowned(r)'
<1> SUFFICES ASSUME TypeOK, Exclusive, [Next]_vars,
                    NEW r \in Requests, ~Unstarted(r), Unowned(r), NEW w \in Workers
             PROVE  wk'[w].req # r
  BY DEF Unowned
<1>1. row[r].status # "queued" /\ wk[w].req # r
  BY DEF Exclusive, Queueable, Started, Unstarted, Unowned
<1>2. CASE ClaimLock(w)
  BY <1>1, <1>2 DEF ClaimLock, Claimable, TypeOK
<1>3. CASE ClaimCommit(w)
  BY <1>1, <1>3 DEF ClaimCommit, TypeOK
<1> QED
  BY <1>1, <1>2, <1>3, WorkerFrame DEF Moves

\* One web process, any number of workers and faults: a request that a worker
\* started and let go of is never taken up again.
THEOREM ExecutionsAreNotRepeated ==
  ASSUME \A a, b \in Web : a = b
  PROVE  Spec => ExecutedOnce
<1>1. TypeOK /\ Exclusive /\ [Next]_vars =>
        [\A r \in Requests : ~Unstarted(r) /\ Unowned(r) => Unowned(r)']_vars
  BY StaysUnowned
<1> QED
  BY <1>1, ExclusiveAlways, PTL DEF Spec, ExecutedOnce

CancelsActive == \A a \in Web : web[a].op = "cancel" => web[a].snap \in Active

LEMMA NextCancels == TypeOK /\ CancelsActive /\ [Next]_vars => CancelsActive'
<1> SUFFICES ASSUME TypeOK, CancelsActive, [Next]_vars, NEW a \in Web, web'[a].op = "cancel"
             PROVE  web'[a].snap \in Active
  BY DEF CancelsActive
<1>1. ASSUME NEW r \in Requests, NEW actor \in Actors, ApproveRead(a, r, actor) PROVE FALSE
  BY <1>1 DEF ApproveRead, TypeOK
<1>2. ASSUME NEW r \in Requests, CancelRead(a, r) PROVE web'[a].snap \in Active
  BY <1>2 DEF CancelRead, TypeOK
<1> QED
  BY <1>1, <1>2, WebStepFrame DEF CancelsActive, NoTransaction

LEMMA EndedStays ==
  TypeOK /\ Existing /\ Exclusive /\ CancelsActive /\ [Next]_vars =>
    \A r \in Requests : row[r].status \in Terminal /\ Unowned(r) =>
      \/ row'[r] = row[r]
      \/ /\ \E a \in Web : web[a].op = "cancel" /\ web[a].req = r /\ web[a].snap \in Active
         /\ \E status \in Status : row'[r] = [row[r] EXCEPT !.status = status]
<1> DEFINE Left(r)     == row'[r] = row[r]
           Canceled(r) ==
             /\ \E a \in Web : web[a].op = "cancel" /\ web[a].req = r /\ web[a].snap \in Active
             /\ \E status \in Status : row'[r] = [row[r] EXCEPT !.status = status]
<1> SUFFICES ASSUME TypeOK, Existing, Exclusive, CancelsActive, [Next]_vars,
                    NEW r \in Requests, row[r].status \in Terminal, Unowned(r)
             PROVE  Left(r) \/ Canceled(r)
  OBVIOUS
<1>1. CASE UNCHANGED <<row, audit>>
  BY <1>1
<1>2. ASSUME NEW a \in Web, NEW q \in Requests, NEW key \in Keys, NEW target \in Targets,
             NEW actor \in Actors, CreateRequest(a, q, key, target, actor)
      PROVE  Left(r)
  BY <1>2 DEF CreateRequest, TypeOK, Terminal
<1>3. ASSUME NEW a \in Web, ApproveCommit(a) PROVE Left(r)
  <2>1. web[a].req # r
    BY <1>3 DEF ApproveCommit, Exclusive, Terminal
  <2> QED
    BY <1>3, <2>1 DEF ApproveCommit, TypeOK
<1>4. ASSUME NEW a \in Web, CancelCommit(a) PROVE Left(r) \/ Canceled(r)
  <2>1. CASE web[a].req # r
    BY <1>4, <2>1 DEF CancelCommit, TypeOK
  <2>2. CASE web[a].req = r
    <3>1. \E status \in Status : row'[r] = [row[r] EXCEPT !.status = status]
      BY <1>4, <2>2 DEF CancelCommit, TypeOK, Status, Active, Terminal
    <3> QED
      BY <1>4, <2>2, <3>1 DEF CancelCommit, CancelsActive
  <2> QED
    BY <2>1, <2>2
<1>5. ASSUME NEW w \in Workers, ClaimCommit(w) \/ WriteRow(w) PROVE Left(r)
  <2>1. wk[w].req # r
    BY DEF Unowned
  <2> QED
    BY <1>5, <2>1 DEF ClaimCommit, WriteRow, TypeOK
<1> QED
  BY <1>1, <1>2, <1>3, <1>4, <1>5, Quiet

\* One web process, any number of workers and faults: a row that has ended, and
\* that no worker holds, is changed by a late cancellation only, in its status.
THEOREM EndedRowsAreLeftAlone ==
  ASSUME \A a, b \in Web : a = b
  PROVE  Spec => EndedIsLeftAlone
<1>1. Init => CancelsActive
  BY DEF Init, CancelsActive, NoTransaction
<1>2. TypeOK /\ CancelsActive /\ [Next]_vars => CancelsActive'
  BY NextCancels
<1>3. TypeOK /\ Existing /\ Exclusive /\ CancelsActive /\ [Next]_vars =>
        [\A r \in Requests : row[r].status \in Terminal /\ Unowned(r) =>
           \/ row'[r] = row[r]
           \/ /\ \E a \in Web : web[a].op = "cancel" /\ web[a].req = r /\ web[a].snap \in Active
              /\ \E status \in Status : row'[r] = [row[r] EXCEPT !.status = status]]_vars
  BY EndedStays
<1> QED
  BY <1>1, <1>2, <1>3, ExclusiveAlways, PTL DEF Spec, EndedIsLeftAlone
-----------------------------------------------------------------------------
(* Refinement.  Every step that writes a row or adds a job is one step of  *)
(* AuthorizedOnce or leaves its state alone.                               *)
LEMMA LedgerInit == Init => Ledger!Init
<1> SUFFICES ASSUME Init PROVE Ledger!Init
  OBVIOUS
<1>1. \A r \in Requests : Mapped(r) = "none" /\ row[r].requested_by = None /\ row[r].approved_by = None
  BY DEF Init, Mapped, NoRow
<1>2. ASSUME NEW r \in Requests PROVE Cardinality({j \in DOMAIN jobs : jobs[j].owner = r}) = 0
  <2>1. {j \in DOMAIN jobs : jobs[j].owner = r} = {}
    BY DEF Init
  <2> QED
    BY <2>1, FS_EmptySet
<1> QED
  BY <1>1, <1>2 DEF Ledger!Init

\* The jobs of every request, and their number, unless a worker submits.
LEMMA LaunchesStay ==
  ASSUME DOMAIN jobs' = DOMAIN jobs, \A j \in DOMAIN jobs : jobs'[j].owner = jobs[j].owner
  PROVE  \A r \in Requests : Cardinality({j \in DOMAIN jobs : jobs[j].owner = r})'
                              = Cardinality({j \in DOMAIN jobs : jobs[j].owner = r})
<1> SUFFICES ASSUME NEW r \in Requests
             PROVE  {j \in DOMAIN jobs' : jobs'[j].owner = r} = {j \in DOMAIN jobs : jobs[j].owner = r}
  OBVIOUS
<1> QED
  OBVIOUS

LEMMA LedgerStutters ==
  ASSUME \A r \in Requests : /\ Mapped(r)' = Mapped(r)
                             /\ row'[r].requested_by = row[r].requested_by
                             /\ row'[r].approved_by = row[r].approved_by,
         DOMAIN jobs' = DOMAIN jobs, \A j \in DOMAIN jobs : jobs'[j].owner = jobs[j].owner
  PROVE  UNCHANGED Ledger!vars
<1>1. \A r \in Requests : Cardinality({j \in DOMAIN jobs : jobs[j].owner = r})'
                            = Cardinality({j \in DOMAIN jobs : jobs[j].owner = r})
  BY LaunchesStay
<1> QED
  BY <1>1 DEF Ledger!vars

\* Where a row stands, from its status and its trail.
LEMMA MappedIs ==
  ASSUME NEW r \in Requests, TypeOK, ApprovalCarried, Exclusive, Trail
  PROVE  /\ row[r].status = "absent" => Mapped(r) = "none"
         /\ row[r].status = "execution_requested" => Mapped(r) = "requested"
         /\ row[r].status = "queued" => Mapped(r) = "approved"
         /\ Started(r) => row[r].status # "absent" /\ Mapped(r) = "started"
<1>1. Started(r) => row[r].status \notin Queueable
  BY DEF Exclusive
<1>2. RowTrail(r)
  BY DEF Trail
<1> QED
  BY <1>1, <1>2 DEF Mapped, Started, RowTrail, Queueable

\* A step of one row that leaves the jobs alone.
LEMMA OneRow ==
  ASSUME NEW r \in Requests, UNCHANGED jobs,
         \A q \in Requests \ {r} : row'[q] = row[q] /\ audit'[q] = audit[q]
  PROVE  /\ \A q \in Requests \ {r} : Mapped(q)' = Mapped(q)
         /\ \A q \in Requests : Cardinality({j \in DOMAIN jobs : jobs[j].owner = q})'
                                 = Cardinality({j \in DOMAIN jobs : jobs[j].owner = q})
  BY DEF Mapped

LEMMA StepRefines ==
  ASSUME \A a, b \in Web : a = b
  PROVE  TypeOK /\ Existing /\ ApprovalCarried /\ Exclusive /\ SubmittedOnce /\ Trail /\ [Next]_vars
           => [Ledger!Next]_(Ledger!vars)
<1> SUFFICES ASSUME TypeOK, Existing, ApprovalCarried, Exclusive, SubmittedOnce, Trail, [Next]_vars
             PROVE  Ledger!Next \/ UNCHANGED Ledger!vars
  OBVIOUS
<1>1. \A r \in Requests : row[r] \in Row
  BY DEF TypeOK
<1>2. ASSUME NEW a \in Web, NEW r \in Requests, NEW key \in Keys, NEW target \in Targets,
             NEW actor \in Actors, CreateRequest(a, r, key, target, actor)
      PROVE  Ledger!Next
  <2>1. /\ row[r] = NoRow /\ UNCHANGED jobs
        /\ row'[r].requested_by = actor /\ row'[r].approved_by = None
        /\ row'[r].status = "execution_requested" /\ audit'[r] = {"execution_requested"}
        /\ \A q \in Requests \ {r} : row'[q] = row[q] /\ audit'[q] = audit[q]
    BY <1>2 DEF CreateRequest, Recorded, Trail, RowTrail, TypeOK, NoRow
  <2>2. Mapped(r) = "none" /\ Mapped(r)' = "requested"
    BY <2>1 DEF Mapped, NoRow
  <2>3. row[r].requested_by = None /\ row[r].approved_by = None
    BY <2>1 DEF NoRow
  <2>4. Ledger!Request(r, actor)
    BY <2>1, <2>2, <2>3, OneRow DEF Ledger!Request
  <2> QED
    BY <2>4 DEF Ledger!Next
<1>3. ASSUME NEW a \in Web, ApproveCommit(a) PROVE Ledger!Next
  <2> DEFINE actor == web[a].actor
  <2>1. PICK r \in Requests : r = web[a].req
    BY <1>3 DEF ApproveCommit, Existing
  <2>2. /\ row[r].status = "execution_requested" /\ audit[r] = {"execution_requested"}
        /\ actor \in Actors /\ actor # row[r].requested_by
    BY <1>3, <2>1 DEF ApproveCommit, Exclusive, ApprovalCarried, Trail, RowTrail
  <2>3. /\ row'[r].requested_by = row[r].requested_by /\ row'[r].approved_by = actor
        /\ row'[r].status = "queued" /\ UNCHANGED jobs
        /\ audit'[r] = {"execution_requested", "approved_for_execution"}
        /\ \A q \in Requests \ {r} : row'[q] = row[q] /\ audit'[q] = audit[q]
    <3>1. row[r] \in Row
      BY <1>1
    <3> QED
      BY <1>3, <2>1, <2>2, <3>1 DEF ApproveCommit, Recorded, TypeOK, Row
  <2>4. Mapped(r) = "requested" /\ Mapped(r)' = "approved"
    BY <2>2, <2>3 DEF Mapped
  <2>5. PICK b \in Actors : b = actor
    BY <2>2
  <2>6. Ledger!Authorize(r, b)
    <3>1. \A q \in Requests : row'[q].requested_by = row[q].requested_by
      BY <2>3
    <3>2. /\ row'[r].approved_by = b /\ b # row[r].requested_by
          /\ \A q \in Requests \ {r} : row'[q].approved_by = row[q].approved_by
      BY <2>2, <2>3, <2>5
    <3>3. /\ \A q \in Requests \ {r} : Mapped(q)' = Mapped(q)
          /\ \A q \in Requests : Cardinality({j \in DOMAIN jobs : jobs[j].owner = q})'
                                  = Cardinality({j \in DOMAIN jobs : jobs[j].owner = q})
      BY <2>3, OneRow
    <3> QED
      BY <2>4, <3>1, <3>2, <3>3 DEF Ledger!Authorize
  <2> QED
    BY <2>6 DEF Ledger!Next
<1>4. ASSUME NEW a \in Web, CancelCommit(a) PROVE Ledger!Next \/ UNCHANGED Ledger!vars
  <2>1. PICK r \in Requests : r = web[a].req
    BY <1>4 DEF CancelCommit, Existing
  <2>2. /\ row'[r].status \in {"cancelled", "cancel_requested"} /\ UNCHANGED jobs
        /\ row'[r].requested_by = row[r].requested_by /\ row'[r].approved_by = row[r].approved_by
        /\ audit'[r] = audit[r] \cup {row'[r].status}
        /\ \A q \in Requests \ {r} : row'[q] = row[q] /\ audit'[q] = audit[q]
    <3>1. row[r] \in Row
      BY <1>1
    <3> QED
      BY <1>4, <2>1, <3>1 DEF CancelCommit, Recorded, TypeOK, Row
  <2>3. CASE Started(r)
    <3>1. Mapped(r) = "started"
      BY <2>3, MappedIs
    <3>2. Mapped(r)' = "started"
      BY <2>2, <2>3 DEF Mapped, Started
    <3>3. \A q \in Requests : Mapped(q)' = Mapped(q)
      BY <2>2, <3>1, <3>2, OneRow
    <3> QED
      BY <2>2, <3>3, LedgerStutters
  <2>4. CASE ~Started(r)
    <3>1. row[r].status \in {"execution_requested", "queued"} /\ web[a].snap # "running"
      BY <1>4, <2>1, <2>4 DEF CancelCommit, Trail, CancelTrail
    <3>2. row'[r].status = "cancelled"
      <4>1. row[r] \in Row
        BY <1>1
      <4> QED
        BY <1>4, <2>1, <3>1, <4>1 DEF CancelCommit, TypeOK, Row
    <3>3. Mapped(r) \in {"requested", "approved"}
      BY <3>1, MappedIs
    <3>4. Mapped(r)' = "withdrawn"
      BY <2>2, <2>4, <3>2 DEF Mapped, Started
    <3>5. Ledger!Withdraw(r)
      BY <2>2, <3>3, <3>4, OneRow DEF Ledger!Withdraw
    <3> QED
      BY <3>5 DEF Ledger!Next
  <2> QED
    BY <2>3, <2>4
<1>5. ASSUME NEW w \in Workers, ClaimCommit(w) PROVE Ledger!Next
  <2>1. PICK r \in Requests : r = wk[w].req
    BY <1>5 DEF ClaimCommit, Existing
  <2>2. Mapped(r) = "approved"
    BY <1>5, <2>1, MappedIs DEF ClaimCommit, Exclusive
  <2>3. /\ row'[r].status = "running" /\ "execution_started" \in audit'[r] /\ UNCHANGED jobs
        /\ row'[r].requested_by = row[r].requested_by /\ row'[r].approved_by = row[r].approved_by
        /\ \A q \in Requests \ {r} : row'[q] = row[q] /\ audit'[q] = audit[q]
    <3>1. row[r] \in Row
      BY <1>1
    <3> QED
      BY <1>5, <2>1, <3>1 DEF ClaimCommit, Recorded, TypeOK, Row
  <2>4. Mapped(r)' = "started"
    BY <2>3 DEF Mapped
  <2>5. Ledger!Start(r)
    BY <2>2, <2>3, <2>4, OneRow DEF Ledger!Start
  <2> QED
    BY <2>5 DEF Ledger!Next
<1>6. ASSUME NEW w \in Workers, wk[w].pc = "write", WriteRow(w), UNCHANGED <<jobs, web>>
      PROVE  UNCHANGED Ledger!vars
  <2>1. PICK r \in Requests : r = wk[w].req
    BY <1>6 DEF Existing
  <2>2. Started(r)
    BY <1>6, <2>1 DEF ApprovalCarried
  <2>3. /\ row'[r].status # "absent" /\ audit'[r] = audit[r]
        /\ row'[r].requested_by = row[r].requested_by /\ row'[r].approved_by = row[r].approved_by
        /\ \A q \in Requests \ {r} : row'[q] = row[q] /\ audit'[q] = audit[q]
    <3>1. row[r] \in Row /\ row[r].status # "absent" /\ wk[w].next # "absent"
      BY <1>1, <2>2, MappedIs DEF TypeOK, WorkerState, Terminal
    <3> QED
      BY <1>6, <2>1, <3>1 DEF WriteRow, TypeOK, Row
  <2>4. Mapped(r) = "started" /\ Mapped(r)' = "started"
    BY <2>2, <2>3, MappedIs DEF Mapped, Started
  <2>5. \A q \in Requests : Mapped(q)' = Mapped(q)
    BY <1>6, <2>3, <2>4, OneRow
  <2> QED
    BY <1>6, <2>3, <2>5, LedgerStutters
<1>7. CASE UNCHANGED <<row, audit>>
  <2>1. \A r \in Requests : Mapped(r)' = Mapped(r)
    BY <1>7 DEF Mapped
  <2>2. CASE DOMAIN jobs' = DOMAIN jobs /\ \A j \in DOMAIN jobs : jobs'[j].owner = jobs[j].owner
    BY <1>7, <2>1, <2>2, LedgerStutters
  <2>3. ASSUME NEW w \in Workers, wk[w].pc = "submit",
               DOMAIN jobs' = DOMAIN jobs \cup {Len(jobs) + 1},
               \A j \in DOMAIN jobs : jobs'[j] = jobs[j],
               jobs'[Len(jobs) + 1].owner = wk[w].req
        PROVE  Ledger!Next
    <3>1. PICK r \in Requests : r = wk[w].req
      BY <2>3 DEF Existing
    <3>2. PICK new \in Nat : new = Len(jobs) + 1 /\ new \notin DOMAIN jobs
      BY JobNumbers
    <3>3. Mapped(r) = "started"
      BY <2>3, <3>1, MappedIs DEF ApprovalCarried
    <3>4. {j \in DOMAIN jobs : jobs[j].owner = r} = {}
      BY <2>3, <3>1 DEF SubmittedOnce
    <3>5. {j \in DOMAIN jobs' : jobs'[j].owner = r} = {new}
      BY <2>3, <3>1, <3>2, <3>4
    <3>6. /\ Cardinality({j \in DOMAIN jobs : jobs[j].owner = r}) = 0
          /\ Cardinality({j \in DOMAIN jobs' : jobs'[j].owner = r}) = 1
      BY <3>4, <3>5, FS_EmptySet, FS_Singleton
    <3>7. ASSUME NEW q \in Requests \ {r}
          PROVE  {j \in DOMAIN jobs' : jobs'[j].owner = q} = {j \in DOMAIN jobs : jobs[j].owner = q}
      BY <2>3, <3>1
    <3>8. Ledger!Launch(r)
      BY <1>7, <2>1, <3>3, <3>6, <3>7 DEF Ledger!Launch
    <3> QED
      BY <3>8 DEF Ledger!Next
  <2> QED
    BY <2>2, <2>3, JobStep
<1> QED
  BY <1>2, <1>3, <1>4, <1>5, <1>6, <1>7, Quiet

\* One web process, any number of requests, workers and faults: the rows, the
\* transactions and the workers implement AuthorizedOnce.
THEOREM ImplementsAuthorizedOnce ==
  ASSUME \A a, b \in Web : a = b
  PROVE  Spec => Implements
<1>1. TypeOK /\ Existing /\ ApprovalCarried /\ Exclusive /\ SubmittedOnce /\ Trail /\ [Next]_vars
        => [Ledger!Next]_(Ledger!vars)
  BY StepRefines
<1> QED
  BY <1>1, LedgerInit, TrailAlways, PTL DEF Spec, Implements, Ledger!Spec
-----------------------------------------------------------------------------
LEMMA LedgerKeeps ==
  Ledger!LaunchedWasAuthorized /\ [Ledger!Next]_(Ledger!vars) => Ledger!LaunchedWasAuthorized'
<1> DEFINE Launches(r) == Cardinality({j \in DOMAIN jobs : jobs[j].owner = r})
           Fine(r) ==
             /\ Launches(r) \in {0, 1}
             /\ Launches(r) = 1 => Mapped(r) = "started"
             /\ Mapped(r) \in {"approved", "started"} =>
                  row[r].approved_by \in Actors /\ row[r].approved_by # row[r].requested_by
           Same(r) ==
             /\ Mapped(r)' = Mapped(r) /\ Launches(r)' = Launches(r)
             /\ row'[r].approved_by = row[r].approved_by
             /\ row'[r].requested_by = row[r].requested_by
<1>1. Ledger!LaunchedWasAuthorized <=> \A r \in Requests : Fine(r)
  BY DEF Ledger!LaunchedWasAuthorized
<1>2. Ledger!LaunchedWasAuthorized' <=> \A r \in Requests : Fine(r)'
  BY DEF Ledger!LaunchedWasAuthorized
<1> SUFFICES ASSUME \A r \in Requests : Fine(r), [Ledger!Next]_(Ledger!vars), NEW q \in Requests
             PROVE  Fine(q)'
  BY <1>1, <1>2
<1>3. ASSUME Same(q) PROVE Fine(q)'
  BY <1>3
<1>4. CASE UNCHANGED Ledger!vars
  <2>1. Same(q)
    BY <1>4 DEF Ledger!vars
  <2> QED
    BY <1>3, <2>1
<1>5. ASSUME NEW r \in Requests, NEW a \in Actors, Ledger!Request(r, a) PROVE Fine(q)'
  <2>1. CASE q = r
    <3>1. /\ Mapped(q) = "none" /\ Mapped(q)' = "requested" /\ Launches(q)' = Launches(q)
      BY <1>5, <2>1 DEF Ledger!Request
    <3> QED
      BY <3>1
  <2>2. CASE q # r
    <3>1. Same(q)
      BY <1>5, <2>2 DEF Ledger!Request
    <3> QED
      BY <1>3, <3>1
  <2> QED
    BY <2>1, <2>2
<1>6. ASSUME NEW r \in Requests, NEW a \in Actors, Ledger!Authorize(r, a) PROVE Fine(q)'
  <2>1. CASE q = r
    <3>1. /\ Mapped(q) = "requested" /\ Mapped(q)' = "approved" /\ Launches(q)' = Launches(q)
          /\ a # row[q].requested_by
          /\ row'[q].approved_by = a /\ row'[q].requested_by = row[q].requested_by
      BY <1>6, <2>1 DEF Ledger!Authorize
    <3> QED
      BY <3>1
  <2>2. CASE q # r
    <3>1. Same(q)
      BY <1>6, <2>2 DEF Ledger!Authorize
    <3> QED
      BY <1>3, <3>1
  <2> QED
    BY <2>1, <2>2
<1>7. ASSUME NEW r \in Requests, Ledger!Withdraw(r) PROVE Fine(q)'
  <2>1. CASE q = r
    <3>1. /\ Mapped(q) \in {"requested", "approved"} /\ Mapped(q)' = "withdrawn"
          /\ Launches(q)' = Launches(q)
      BY <1>7, <2>1 DEF Ledger!Withdraw
    <3> QED
      BY <3>1
  <2>2. CASE q # r
    <3>1. Same(q)
      BY <1>7, <2>2 DEF Ledger!Withdraw
    <3> QED
      BY <1>3, <3>1
  <2> QED
    BY <2>1, <2>2
<1>8. ASSUME NEW r \in Requests, Ledger!Start(r) PROVE Fine(q)'
  <2>1. CASE q = r
    <3>1. /\ Mapped(q) = "approved" /\ Mapped(q)' = "started" /\ Launches(q)' = Launches(q)
          /\ row'[q].approved_by = row[q].approved_by /\ row'[q].requested_by = row[q].requested_by
      BY <1>8, <2>1 DEF Ledger!Start
    <3> QED
      BY <3>1
  <2>2. CASE q # r
    <3>1. Same(q)
      BY <1>8, <2>2 DEF Ledger!Start
    <3> QED
      BY <1>3, <3>1
  <2> QED
    BY <2>1, <2>2
<1>9. ASSUME NEW r \in Requests, Ledger!Launch(r) PROVE Fine(q)'
  <2>1. CASE q = r
    <3>1. /\ Mapped(q) = "started" /\ Mapped(q)' = "started" /\ Launches(q)' = 1
          /\ row'[q].approved_by = row[q].approved_by /\ row'[q].requested_by = row[q].requested_by
      BY <1>9, <2>1 DEF Ledger!Launch
    <3> QED
      BY <3>1
  <2>2. CASE q # r
    <3>1. Same(q)
      BY <1>9, <2>2 DEF Ledger!Launch
    <3> QED
      BY <1>3, <3>1
  <2> QED
    BY <2>1, <2>2
<1> QED
  BY <1>4, <1>5, <1>6, <1>7, <1>8, <1>9 DEF Ledger!Next

\* What AuthorizedOnce promises holds of the rows and the jobs: one launch at
\* most for a request, after its start, authorised by somebody other than who
\* asked for it.
THEOREM LaunchesWereAuthorized ==
  ASSUME \A a, b \in Web : a = b
  PROVE  Spec => []Ledger!LaunchedWasAuthorized
<1>1. Init => Ledger!LaunchedWasAuthorized
  <2> SUFFICES ASSUME Init PROVE Ledger!LaunchedWasAuthorized
    OBVIOUS
  <2>1. Ledger!Init
    BY LedgerInit
  <2>2. ASSUME NEW r \in Requests
        PROVE  Mapped(r) = "none" /\ Cardinality({j \in DOMAIN jobs : jobs[j].owner = r}) = 0
    BY <2>1 DEF Ledger!Init
  <2> QED
    BY <2>2 DEF Ledger!LaunchedWasAuthorized
<1>2. TypeOK /\ Existing /\ ApprovalCarried /\ Exclusive /\ SubmittedOnce /\ Trail
        /\ Ledger!LaunchedWasAuthorized /\ [Next]_vars => Ledger!LaunchedWasAuthorized'
  BY StepRefines, LedgerKeeps
<1> QED
  BY <1>1, <1>2, TrailAlways, PTL DEF Spec
=============================================================================
