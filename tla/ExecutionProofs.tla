---------------------------- MODULE ExecutionProofs ----------------------------
(* Theorems about ExecutionControl, for any number of requests, keys,      *)
(* actors, workers and faults.                                             *)
EXTENDS ExecutionProperties, SequenceTheorems, TLAPS

USE ConstantsAssumption DEF ConstantsAssumption, Requests

LEMMA InitType == Init => TypeOK
<1> SUFFICES ASSUME Init PROVE TypeOK
  OBVIOUS
<1> USE DEF Init
<1>1. row \in [Requests -> Row]
  BY DEF Row, NoRow
<1>2. jobs \in Seq(Job)
  BY EmptySeq
<1>3. web \in [Web -> Transaction]
  BY DEF Transaction, NoTransaction
<1>4. wk \in [Workers -> WorkerState]
  BY DEF WorkerState, Idle, Status, Active
<1> QED
  BY <1>1, <1>2, <1>3, <1>4 DEF TypeOK

(* What the actions share. *)

LEMMA RowType ==
  ASSUME TypeOK, NEW r \in Requests, NEW new \in Row
  PROVE  [row EXCEPT ![r] = new] \in [Requests -> Row]
  BY DEF TypeOK

LEMMA StatusType ==
  ASSUME TypeOK, NEW r \in Requests, NEW status \in Status
  PROVE  [row EXCEPT ![r].status = status] \in [Requests -> Row]
<1>1. row[r] \in Row
  BY DEF TypeOK
<1>2. [row[r] EXCEPT !.status = status] \in Row
  BY <1>1 DEF Row
<1> QED
  BY <1>2, RowType

LEMMA ApprovalType ==
  ASSUME TypeOK, NEW r \in Requests, NEW status \in Status, NEW actor \in Actors \cup {None}
  PROVE  [row EXCEPT ![r].status = status, ![r].approved_by = actor] \in [Requests -> Row]
<1>1. row[r] \in Row
  BY DEF TypeOK
<1>2. [row[r] EXCEPT !.status = status, !.approved_by = actor] \in Row
  BY <1>1 DEF Row
<1> QED
  BY <1>2, RowType

LEMMA WorkerType ==
  ASSUME TypeOK, NEW w \in Workers, NEW new \in WorkerState
  PROVE  [wk EXCEPT ![w] = new] \in [Workers -> WorkerState]
  BY DEF TypeOK

\* A worker moves on, remembering a request or a status.
LEMMA WorkerMoveType ==
  ASSUME TypeOK, NEW w \in Workers,
         NEW pc \in {"idle", "claiming", "submit", "check", "cancel", "poll", "read", "write", "dead"}
  PROVE  /\ [wk EXCEPT ![w].pc = pc] \in [Workers -> WorkerState]
         /\ \A r \in Requests :
              [wk EXCEPT ![w].pc = pc, ![w].req = r] \in [Workers -> WorkerState]
         /\ \A status \in Status \cup {"absent"} :
              [wk EXCEPT ![w].pc = pc, ![w].snap = status] \in [Workers -> WorkerState]
         /\ [Idle EXCEPT !.pc = pc] \in WorkerState
<1>1. wk[w] \in WorkerState
  BY DEF TypeOK
<1>2. [wk[w] EXCEPT !.pc = pc] \in WorkerState
  BY <1>1 DEF WorkerState
<1>3. ASSUME NEW r \in Requests PROVE [wk[w] EXCEPT !.pc = pc, !.req = r] \in WorkerState
  BY <1>1 DEF WorkerState
<1>4. ASSUME NEW status \in Status \cup {"absent"}
      PROVE  [wk[w] EXCEPT !.pc = pc, !.snap = status] \in WorkerState
  BY <1>1 DEF WorkerState
<1>5. [Idle EXCEPT !.pc = pc] \in WorkerState
  BY DEF WorkerState, Idle, Status, Active
<1> QED
  BY <1>2, <1>3, <1>4, <1>5, WorkerType

LEMMA RecordedType ==
  ASSUME TypeOK, NEW r \in Requests,
         NEW event \in Status \cup {"approved_for_execution", "execution_started"},
         Recorded(r, event)
  PROVE  audit' \in [Requests -> SUBSET (Status \cup {"approved_for_execution", "execution_started"})]
  BY DEF Recorded, TypeOK

LEMMA UpdateType ==
  ASSUME TypeOK, NEW w \in Workers, NEW status \in Terminal \cup {"running"}, NEW job \in Nat,
         Update(w, status, job)
  PROVE  wk' \in [Workers -> WorkerState]
<1>1. [Idle EXCEPT !.pc = "read", !.req = wk[w].req, !.next = status, !.job = job] \in WorkerState
  BY DEF TypeOK, Idle, WorkerState
<1> QED
  BY <1>1 DEF Update, TypeOK

(* A request that a handler or a worker refers to has a row, and a row is  *)
(* complete: this keeps jobs well typed.                                   *)
Existing ==
  /\ \A r \in Requests : row[r].status # "absent" =>
       row[r].target \in Targets /\ row[r].requested_by \in Actors
  /\ \A a \in Web : web[a].op # "none" =>
       web[a].req \in Requests /\ row[web[a].req].status # "absent"
  /\ \A w \in Workers : wk[w].pc \notin {"idle", "dead"} =>
       wk[w].req \in Requests /\ row[wk[w].req].status # "absent"

LEMMA NewJobType ==
  ASSUME TypeOK, Existing, NEW w \in Workers, wk[w].pc \notin {"idle", "dead"}
  PROVE  NewJob(w) \in Seq(Job)
<1>1. Target(w) \in Targets /\ wk[w].req \in Requests
  BY DEF Existing, Target
<1>2. [owner |-> wk[w].req, target |-> Target(w), status |-> Born(Target(w))] \in Job
  BY <1>1 DEF Job, Born
<1> QED
  BY <1>2, AppendProperties DEF TypeOK, NewJob

LEMMA JobType == TypeOK => \A j \in DOMAIN jobs : jobs[j].owner \in Requests
<1> SUFFICES ASSUME TypeOK, NEW j \in DOMAIN jobs PROVE jobs[j].owner \in Requests
  OBVIOUS
<1>1. jobs[j] \in Job
  BY ElementOfSeq DEF TypeOK
<1> QED
  BY <1>1 DEF Job

LEMMA JobStatusType ==
  ASSUME TypeOK, NEW j, NEW status \in {"running", "stopping", "succeeded", "failed"}
  PROVE  [jobs EXCEPT ![j].status = status] \in Seq(Job)
<1> DEFINE new == [jobs EXCEPT ![j].status = status]
<1>1. jobs \in [1 .. Len(jobs) -> Job] /\ Len(jobs) \in Nat
  BY LenProperties DEF TypeOK
<1>2. new \in [1 .. Len(jobs) -> Job]
  BY <1>1 DEF Job
<1> QED
  BY <1>1, <1>2, SeqDef

LEMMA StopType ==
  ASSUME TypeOK, NEW j
  PROVE  [jobs EXCEPT ![j].status = IF @ = "running" THEN "stopping" ELSE @] \in Seq(Job)
<1> DEFINE new == [jobs EXCEPT ![j].status = IF @ = "running" THEN "stopping" ELSE @]
<1>1. jobs \in [1 .. Len(jobs) -> Job] /\ Len(jobs) \in Nat
  BY LenProperties DEF TypeOK
<1>2. new \in [1 .. Len(jobs) -> Job]
  BY <1>1 DEF Job
<1> QED
  BY <1>1, <1>2, SeqDef

LEMMA WriteRowType ==
  ASSUME TypeOK, Existing, NEW w \in Workers, wk[w].pc = "write", WriteRow(w)
  PROVE  row' \in [Requests -> Row]
<1>1. /\ wk[w].req \in Requests /\ wk[w].next \in Status /\ wk[w].job \in Nat
  BY DEF Existing, TypeOK, WorkerState, Status, Active
<1>2. row[wk[w].req] \in Row
  BY <1>1 DEF TypeOK
<1>3. PICK status \in Status \cup {"absent"}, id \in Nat :
        row' = [row EXCEPT ![wk[w].req].status = status, ![wk[w].req].cloud_job_id = id]
  BY <1>1, <1>2 DEF WriteRow, Row
<1> QED
  BY <1>1, <1>2, <1>3 DEF TypeOK, Row
LEMMA NextType == TypeOK /\ Existing /\ [Next]_vars => TypeOK'
<1> SUFFICES ASSUME TypeOK, Existing, [Next]_vars PROVE TypeOK'
  OBVIOUS
<1> USE DEF TypeOK
<1>1. ASSUME NEW a \in Web, WebStep(a) PROVE TypeOK'
  <2>1. ASSUME NEW r \in Requests, NEW key \in Keys, NEW target \in Targets, NEW actor \in Actors,
               CreateRequest(a, r, key, target, actor)
        PROVE  TypeOK'
    <3>1. row' \in [Requests -> Row]
      BY <2>1 DEF CreateRequest, Row, NoRow, Status, Active
    <3>2. audit' \in [Requests -> SUBSET (Status \cup {"approved_for_execution", "execution_started"})]
      BY <2>1, RecordedType DEF CreateRequest, Status, Active
    <3> QED
      BY <2>1, <3>1, <3>2 DEF CreateRequest
  <2>2. ASSUME NEW r \in Requests, NEW actor \in Actors, ApproveRead(a, r, actor) PROVE TypeOK'
    BY <2>2 DEF ApproveRead, Transaction, Row
  <2>3. ASSUME NEW r \in Requests, CancelRead(a, r) PROVE TypeOK'
    BY <2>3 DEF CancelRead, Transaction, Row
  <2>4. CASE ApproveCommit(a)
    <3>1. web[a].req \in Requests /\ web[a].actor \in Actors \cup {None}
      BY <2>4 DEF ApproveCommit, Existing, Transaction
    <3>2. row' \in [Requests -> Row]
      BY <2>4, <3>1, ApprovalType DEF ApproveCommit, Status, Active
    <3>3. audit' \in [Requests -> SUBSET (Status \cup {"approved_for_execution", "execution_started"})]
      BY <2>4, <3>1, RecordedType DEF ApproveCommit
    <3> QED
      BY <2>4, <3>2, <3>3 DEF ApproveCommit, NoTransaction, Transaction
  <2>5. CASE CancelCommit(a)
    <3> DEFINE new == IF web[a].snap = "running" THEN "cancel_requested" ELSE "cancelled"
    <3>1. web[a].req \in Requests /\ new \in Status
      BY <2>5 DEF CancelCommit, Existing, Status, Active, Terminal
    <3>2. row' = [row EXCEPT ![web[a].req].status = new] /\ Recorded(web[a].req, new)
      BY <2>5 DEF CancelCommit
    <3> HIDE DEF new
    <3>3. row' \in [Requests -> Row]
      BY <3>1, <3>2, StatusType
    <3>4. audit' \in [Requests -> SUBSET (Status \cup {"approved_for_execution", "execution_started"})]
      BY <3>1, <3>2, RecordedType
    <3> QED
      BY <2>5, <3>3, <3>4 DEF CancelCommit, NoTransaction, Transaction
  <2> QED
    BY <1>1, <2>1, <2>2, <2>3, <2>4, <2>5 DEF WebStep
<1>2. ASSUME NEW w \in Workers, WorkerStep(w) PROVE TypeOK'
  <2>1. CASE ClaimLock(w)
    <3>1. \A r \in Requests :
            [wk EXCEPT ![w].pc = "claiming", ![w].req = r] \in [Workers -> WorkerState]
      BY WorkerMoveType
    <3> QED
      BY <2>1, <3>1 DEF ClaimLock
  <2>2. CASE ClaimCommit(w)
    <3>1. wk[w].req \in Requests
      BY <2>2 DEF ClaimCommit, Existing
    <3>2. row' \in [Requests -> Row]
      BY <2>2, <3>1, StatusType DEF ClaimCommit, Status, Active
    <3>3. audit' \in [Requests -> SUBSET (Status \cup {"approved_for_execution", "execution_started"})]
      BY <2>2, <3>1, RecordedType DEF ClaimCommit
    <3> QED
      BY <2>2, <3>2, <3>3, WorkerMoveType DEF ClaimCommit
  <2>3. CASE SubmitAccepted(w)
    <3>1. Len(jobs) + 1 \in Nat
      BY LenProperties
    <3>2. jobs' \in Seq(Job) /\ wk' \in [Workers -> WorkerState]
      BY <2>3, <3>1, NewJobType, UpdateType DEF SubmitAccepted
    <3> QED
      BY <2>3, <3>2 DEF SubmitAccepted
  <2>4. CASE \/ SubmitRefused(w) \/ CancelRaises(w) \/ PollRaises(w)
    <3>1. wk' \in [Workers -> WorkerState]
      BY <2>4, UpdateType DEF SubmitRefused, CancelRaises, PollRaises, Handler, Status, Terminal
    <3> QED
      BY <2>4, <3>1 DEF SubmitRefused, CancelRaises, PollRaises
  <2>5. CASE CheckCancel(w) \/ CheckPoll(w)
    <3>1. /\ [wk EXCEPT ![w].pc = "cancel"] \in [Workers -> WorkerState]
          /\ [wk EXCEPT ![w].pc = "poll"] \in [Workers -> WorkerState]
      BY WorkerMoveType
    <3> QED
      BY <2>5, <3>1 DEF CheckCancel, CheckPoll
  <2>6. wk[w].job \in Nat
    BY DEF WorkerState
  <2>7. CASE CheckTimeout(w)
    <3>1. wk' \in [Workers -> WorkerState]
      BY <2>6, <2>7, UpdateType DEF CheckTimeout, Status, Terminal
    <3> QED
      BY <2>7, <3>1 DEF CheckTimeout
  <2>8. CASE CancelAccepted(w)
    <3>1. wk' \in [Workers -> WorkerState]
      BY <2>6, <2>8, UpdateType DEF CancelAccepted, Status, Terminal
    <3>2. jobs' \in Seq(Job)
      BY <2>8, StopType DEF CancelAccepted
    <3> QED
      BY <2>8, <3>1, <3>2 DEF CancelAccepted
  <2>9. CASE Poll(w)
    <3>1. wk' \in [Workers -> WorkerState]
      BY <2>6, <2>9, UpdateType DEF Poll, Status, Terminal, Active
    <3> QED
      BY <2>9, <3>1 DEF Poll
  <2>10. CASE UpdateRead(w)
    <3>1. row[wk[w].req].status \in Status \cup {"absent"}
      BY <2>10 DEF UpdateRead, Existing, Row
    <3> QED
      BY <2>10, <3>1, WorkerMoveType DEF UpdateRead
  <2>11. CASE UpdateCommit(w)
    <3>1. row' \in [Requests -> Row] /\ audit' = audit
      BY <2>11, WriteRowType DEF UpdateCommit, WriteRow
    <3>2. wk' \in [Workers -> WorkerState]
      <4>1. Idle \in WorkerState /\ wk[w] \in WorkerState
        BY DEF WorkerState, Idle, Status, Active
      <4>2. [wk[w] EXCEPT !.pc = "check", !.snap = "absent"] \in WorkerState
        BY <4>1 DEF WorkerState
      <4> QED
        BY <2>11, <4>1, <4>2, WorkerType DEF UpdateCommit
    <3> QED
      BY <2>11, <3>1, <3>2 DEF UpdateCommit
  <2> QED
    BY <1>2, <2>1, <2>2, <2>3, <2>4, <2>5, <2>7, <2>8, <2>9, <2>10, <2>11 DEF WorkerStep
<1>3. ASSUME NEW w \in Workers, FaultStep(w) PROVE TypeOK'
  <2>1. "failed" \in Terminal /\ faults \in Nat
    BY DEF Terminal
  <2>2. CASE SubmitUnanswered(w)
    <3>1. wk' \in [Workers -> WorkerState] /\ jobs' \in Seq(Job)
      BY <2>1, <2>2, UpdateType, NewJobType DEF SubmitUnanswered, Handler
    <3> QED
      BY <2>1, <2>2, <3>1 DEF SubmitUnanswered
  <2>3. CASE Crash(w) \/ Restart(w)
    <3>1. Idle \in WorkerState /\ [Idle EXCEPT !.pc = "dead"] \in WorkerState
      BY DEF WorkerState, Idle, Status, Active
    <3>2. wk' \in [Workers -> WorkerState]
      BY <2>3, <3>1, WorkerType DEF Crash, Restart
    <3> QED
      BY <2>1, <2>3, <3>2 DEF Crash, Restart, Fault
  <2>4. CASE DatabaseRaises(w)
    <3>1. wk' \in [Workers -> WorkerState]
      BY <2>1, <2>4, UpdateType DEF DatabaseRaises, Handler
    <3> QED
      BY <2>1, <2>4, <3>1 DEF DatabaseRaises, Fault
  <2>5. CASE RefreshRaises(w)
    <3>1. wk' \in [Workers -> WorkerState]
      BY <2>1, <2>5, UpdateType DEF RefreshRaises, Handler
    <3>2. row' \in [Requests -> Row] /\ audit' = audit
      BY <2>5, WriteRowType DEF RefreshRaises, WriteRow
    <3> QED
      BY <2>1, <2>5, <3>1, <3>2 DEF RefreshRaises, Fault
  <2> QED
    BY <1>3, <2>2, <2>3, <2>4, <2>5 DEF FaultStep
<1>4. ASSUME NEW j \in DOMAIN jobs, NEW status \in {"succeeded", "failed"}, JobEnds(j, status)
      PROVE  TypeOK'
  BY <1>4, JobStatusType DEF JobEnds
<1>5. CASE UNCHANGED vars
  BY <1>5 DEF vars
<1> QED
  BY <1>1, <1>2, <1>3, <1>4, <1>5 DEF Next
(* No step deletes a row or changes what the request is.                   *)
Kept(old, new) ==
  /\ new.status # "absent"
  /\ new.target = old.target
  /\ new.requested_by = old.requested_by
  /\ new.idempotency_key = old.idempotency_key

Creation == \E a \in Web, r \in Requests, key \in Keys, target \in Targets, actor \in Actors :
              CreateRequest(a, r, key, target, actor)

Change(r) ==
  /\ row[r].status # "absent"
  /\ Kept(row[r], row'[r])
  /\ \A q \in Requests \ {r} : row'[q] = row[q]

\* Every step creates one row, changes one that exists, or leaves them alone.
LEMMA RowStep ==
  TypeOK /\ Existing /\ [Next]_vars =>
    UNCHANGED row \/ Creation \/ \E r \in Requests : Change(r)
<1> SUFFICES ASSUME TypeOK, Existing, [Next]_vars
             PROVE  UNCHANGED row \/ Creation \/ \E r \in Requests : Change(r)
  OBVIOUS
<1>1. \A q \in Requests : row[q] \in Row
  BY DEF TypeOK
<1>2. ASSUME NEW a \in Web, ApproveCommit(a) PROVE \E r \in Requests : Change(r)
  <2>1. web[a].req \in Requests /\ row[web[a].req].status # "absent"
    BY <1>2 DEF ApproveCommit, Existing
  <2>2. Change(web[a].req)
    BY <1>1, <1>2, <2>1 DEF ApproveCommit, Change, Kept, Row, TypeOK
  <2> QED
    BY <2>1, <2>2
<1>3. ASSUME NEW a \in Web, CancelCommit(a) PROVE \E r \in Requests : Change(r)
  <2>1. web[a].req \in Requests /\ row[web[a].req].status # "absent"
    BY <1>3 DEF CancelCommit, Existing
  <2>2. Change(web[a].req)
    BY <1>1, <1>3, <2>1 DEF CancelCommit, Change, Kept, Row, TypeOK
  <2> QED
    BY <2>1, <2>2
<1>4. ASSUME NEW w \in Workers, ClaimCommit(w) PROVE \E r \in Requests : Change(r)
  <2>1. wk[w].req \in Requests /\ row[wk[w].req].status # "absent"
    BY <1>4 DEF ClaimCommit, Existing
  <2>2. Change(wk[w].req)
    BY <1>1, <1>4, <2>1 DEF ClaimCommit, Change, Kept, Row, TypeOK
  <2> QED
    BY <2>1, <2>2
<1>5. ASSUME NEW w \in Workers, wk[w].pc = "write", WriteRow(w)
      PROVE  \E r \in Requests : Change(r)
  <2>1. /\ wk[w].req \in Requests /\ row[wk[w].req].status # "absent"
        /\ wk[w].next # "absent"
    BY <1>5 DEF Existing, TypeOK, WorkerState, Status, Active, Terminal
  <2>2. Change(wk[w].req)
    BY <1>1, <1>5, <2>1 DEF WriteRow, Change, Kept, Row, TypeOK
  <2> QED
    BY <2>1, <2>2
<1> QED
  BY <1>2, <1>3, <1>4, <1>5
     DEF Creation, Next, vars, WebStep, ApproveRead, CancelRead, WorkerStep, FaultStep, ClaimLock,
         SubmitAccepted, SubmitRefused, SubmitUnanswered, CheckCancel, CheckTimeout, CheckPoll,
         CancelAccepted, CancelRaises, Poll, PollRaises, UpdateRead, UpdateCommit, Crash, Restart,
         DatabaseRaises, RefreshRaises, JobEnds

LEMMA RowsAreKept ==
  TypeOK /\ Existing /\ [Next]_vars =>
    \A r \in Requests : row[r].status # "absent" => Kept(row[r], row'[r])
<1> SUFFICES ASSUME TypeOK, Existing, [Next]_vars, NEW r \in Requests, row[r].status # "absent"
             PROVE  Kept(row[r], row'[r])
  OBVIOUS
<1>1. CASE Creation
  BY <1>1 DEF Creation, CreateRequest, Kept, TypeOK
<1>2. ASSUME NEW q \in Requests, Change(q) PROVE Kept(row[r], row'[r])
  BY <1>2 DEF Change, Kept
<1> QED
  BY <1>1, <1>2, RowStep DEF Kept

(* How a worker's program state changes: it claims a row, or it goes on    *)
(* with the row it has, never back to the submission, or it lets go.       *)
Moves(v) ==
  /\ \A u \in Workers \ {v} : wk'[u] = wk[u]
  /\ \/ ClaimLock(v)
     \/ ClaimCommit(v)
     \/ wk'[v].pc \in {"idle", "dead"} /\ wk'[v].req = 0
     \/ /\ wk[v].pc \notin {"idle", "claiming", "dead"}
        /\ wk'[v].pc \notin {"idle", "claiming", "submit", "dead"}
        /\ wk'[v].req = wk[v].req

LEMMA WorkerFrame ==
  TypeOK /\ [Next]_vars => UNCHANGED wk \/ \E v \in Workers : Moves(v)
<1> SUFFICES ASSUME TypeOK, [Next]_vars PROVE UNCHANGED wk \/ \E v \in Workers : Moves(v)
  OBVIOUS
<1>1. \A u \in Workers : wk[u] \in WorkerState
  BY DEF TypeOK
<1>2. ASSUME NEW v \in Workers, NEW status, NEW job, Update(v, status, job),
             wk[v].pc \notin {"idle", "claiming", "dead"}
      PROVE  Moves(v)
  BY <1>1, <1>2 DEF Update, Moves, Idle, TypeOK
<1>3. ASSUME NEW v \in Workers, WorkerStep(v) PROVE Moves(v)
  <2>1. CASE ClaimLock(v) \/ ClaimCommit(v)
    BY <2>1 DEF ClaimLock, ClaimCommit, Moves, TypeOK
  <2>2. CASE \/ SubmitAccepted(v) \/ SubmitRefused(v) \/ CheckTimeout(v) \/ CancelAccepted(v)
             \/ CancelRaises(v) \/ Poll(v) \/ PollRaises(v)
    BY <1>2, <2>2 DEF SubmitAccepted, SubmitRefused, CheckTimeout, CancelAccepted, CancelRaises,
                      Poll, PollRaises, Handler
  <2>3. CASE CheckCancel(v) \/ CheckPoll(v) \/ UpdateRead(v)
    BY <1>1, <2>3 DEF CheckCancel, CheckPoll, UpdateRead, Moves, TypeOK, WorkerState
  <2>4. CASE UpdateCommit(v)
    BY <1>1, <2>4 DEF UpdateCommit, Moves, TypeOK, WorkerState, Idle
  <2> QED
    BY <1>3, <2>1, <2>2, <2>3, <2>4 DEF WorkerStep
<1>4. ASSUME NEW v \in Workers, FaultStep(v) PROVE Moves(v)
  <2>1. CASE SubmitUnanswered(v) \/ DatabaseRaises(v) \/ RefreshRaises(v)
    BY <1>2, <2>1 DEF SubmitUnanswered, DatabaseRaises, RefreshRaises, Handler
  <2>2. CASE Crash(v) \/ Restart(v)
    BY <2>2 DEF Crash, Restart, Moves, Idle, TypeOK
  <2> QED
    BY <1>4, <2>1, <2>2 DEF FaultStep
<1> QED
  BY <1>3, <1>4
     DEF Next, vars, WebStep, CreateRequest, ApproveRead, ApproveCommit, CancelRead, CancelCommit,
         JobEnds

LEMMA NextExisting == TypeOK /\ Existing /\ [Next]_vars => Existing'
<1> SUFFICES ASSUME TypeOK, Existing, [Next]_vars PROVE Existing'
  OBVIOUS
<1>1. \A r \in Requests : row[r].status # "absent" => row'[r].status # "absent"
  BY RowsAreKept DEF Kept
<1>2. ASSUME NEW r \in Requests, row'[r].status # "absent"
      PROVE  row'[r].target \in Targets /\ row'[r].requested_by \in Actors
  <2>1. CASE Creation
    BY <1>2, <2>1 DEF Creation, CreateRequest, TypeOK, NoRow, Existing
  <2> QED
    BY <1>2, <2>1, RowStep DEF Change, Kept, Existing
<1>3. ASSUME NEW a \in Web, web'[a].op # "none"
      PROVE  web'[a].req \in Requests /\ row'[web'[a].req].status # "absent"
  <2>1. CASE web'[a] = web[a]
    BY <1>1, <1>3, <2>1 DEF Existing
  <2>2. ASSUME NEW b \in Web, NEW r \in Requests, NEW actor \in Actors,
               ApproveRead(b, r, actor)
        PROVE  web'[a].req \in Requests /\ row'[web'[a].req].status # "absent"
    BY <1>3, <2>2 DEF ApproveRead, Existing, TypeOK
  <2>3. ASSUME NEW b \in Web, ApproveCommit(b) \/ CancelCommit(b)
        PROVE  web'[a] = web[a]
    BY <1>3, <2>3 DEF ApproveCommit, CancelCommit, TypeOK, NoTransaction
  <2>4. UNCHANGED web \/ \E b \in Web : WebStep(b)
    BY DEF Next, vars, WorkerStep, FaultStep, ClaimLock, ClaimCommit, SubmitAccepted,
           SubmitRefused, SubmitUnanswered, CheckCancel, CheckTimeout, CheckPoll, CancelAccepted,
           CancelRaises, Poll, PollRaises, UpdateRead, UpdateCommit, Crash, Restart,
           DatabaseRaises, RefreshRaises, JobEnds
  <2>5. ASSUME NEW b \in Web, WebStep(b)
        PROVE  web'[a].req \in Requests /\ row'[web'[a].req].status # "absent"
    <3>1. \/ UNCHANGED web
          \/ ApproveCommit(b) \/ CancelCommit(b)
          \/ \E r \in Requests, actor \in Actors : ApproveRead(b, r, actor)
          \/ \E r \in Requests : CancelRead(b, r)
      BY <2>5 DEF WebStep, CreateRequest
    <3>2. ASSUME NEW r \in Requests, CancelRead(b, r)
          PROVE  web'[a].req \in Requests /\ row'[web'[a].req].status # "absent"
      BY <1>3, <3>2 DEF CancelRead, Existing, TypeOK, Active
    <3> QED
      BY <2>1, <2>2, <2>3, <3>1, <3>2
  <2> QED
    BY <2>1, <2>4, <2>5
<1>4. ASSUME NEW w \in Workers, wk'[w].pc \notin {"idle", "dead"}
      PROVE  wk'[w].req \in Requests /\ row'[wk'[w].req].status # "absent"
  <2>1. CASE wk'[w] = wk[w]
    BY <1>1, <1>4, <2>1 DEF Existing
  <2>2. CASE ClaimLock(w)
    BY <1>1, <1>4, <2>2 DEF ClaimLock, Claimable, TypeOK
  <2>3. CASE wk[w].pc \notin {"idle", "dead"} /\ wk'[w].req = wk[w].req
    BY <1>1, <1>4, <2>3 DEF Existing
  <2>4. CASE ClaimCommit(w)
    BY <2>3, <2>4 DEF ClaimCommit, TypeOK
  <2> QED
    BY <1>4, <2>1, <2>2, <2>3, <2>4, WorkerFrame DEF Moves
<1> QED
  BY <1>2, <1>3, <1>4 DEF Existing
LEMMA InitExisting == Init => Existing
  BY DEF Init, Existing, NoRow, NoTransaction, Idle

\* The rows, the audit trail, the cloud's jobs, the transactions and the
\* workers keep their types.
THEOREM TypeCorrect == Spec => []TypeOK
  BY InitType, NextType, InitExisting, NextExisting, PTL DEF Spec

LEMMA ExistingAlways == Spec => [](TypeOK /\ Existing)
  BY InitType, NextType, InitExisting, NextExisting, PTL DEF Spec
-----------------------------------------------------------------------------
(* Four eyes.  FourEyes speaks of jobs only: the approval they need is     *)
(* carried by the queue, by a worker about to commit its claim and by the  *)
(* audit trail, and an approval under way already names somebody else.     *)
Started(r) == "execution_started" \in audit[r]

ApprovalCarried ==
  /\ \A r \in Requests : Started(r) \/ row[r].status = "queued" =>
       row[r].status # "absent" /\ Approved(r)
  /\ \A a \in Web : web[a].op = "approve" =>
       web[a].actor \in Actors /\ web[a].actor # row[web[a].req].requested_by
  /\ \A w \in Workers : wk[w].pc = "claiming" => Approved(wk[w].req)
  /\ \A w \in Workers : wk[w].pc \notin {"idle", "claiming", "dead"} => Started(wk[w].req)
  /\ \A j \in DOMAIN jobs : Started(jobs[j].owner)

LEMMA InitApproval == Init => ApprovalCarried
  BY DEF Init, ApprovalCarried, Started, NoRow, NoTransaction, Idle

\* Only an approval writes approved_by or puts a row into the queue.
LEMMA ApprovalStep ==
  TypeOK /\ Existing /\ [Next]_vars =>
    \A r \in Requests : row[r].status # "absent" =>
      \/ \E a \in Web : ApproveCommit(a) /\ web[a].req = r
      \/ /\ row'[r].approved_by = row[r].approved_by
         /\ row'[r].status = "queued" => row[r].status = "queued"
<1> DEFINE Same(r) == /\ row'[r].approved_by = row[r].approved_by
                      /\ row'[r].status = "queued" => row[r].status = "queued"
<1> SUFFICES ASSUME TypeOK, Existing, [Next]_vars, NEW r \in Requests, row[r].status # "absent"
             PROVE  (\E a \in Web : ApproveCommit(a) /\ web[a].req = r) \/ Same(r)
  OBVIOUS
<1>1. \A q \in Requests : row[q] \in Row
  BY DEF TypeOK
<1>2. ASSUME Creation PROVE Same(r)
  BY <1>2 DEF Creation, CreateRequest, TypeOK
<1>3. ASSUME NEW a \in Web, ApproveCommit(a), web[a].req # r PROVE Same(r)
  BY <1>1, <1>3 DEF ApproveCommit, TypeOK
<1>4. ASSUME NEW a \in Web, CancelCommit(a) PROVE Same(r)
  BY <1>1, <1>4 DEF CancelCommit, TypeOK, Row
<1>5. ASSUME NEW w \in Workers, ClaimCommit(w) PROVE Same(r)
  BY <1>1, <1>5 DEF ClaimCommit, TypeOK, Row
<1>6. ASSUME NEW w \in Workers, WriteRow(w) PROVE Same(r)
  <2>1. wk[w].next # "queued"
    BY DEF TypeOK, WorkerState, Terminal
  <2> QED
    BY <1>1, <1>6, <2>1 DEF WriteRow, TypeOK, Row
<1> QED
  BY <1>2, <1>3, <1>4, <1>5, <1>6
     DEF Creation, Next, vars, WebStep, ApproveRead, CancelRead, WorkerStep, FaultStep, ClaimLock,
         SubmitAccepted, SubmitRefused, SubmitUnanswered, CheckCancel, CheckTimeout, CheckPoll,
         CancelAccepted, CancelRaises, Poll, PollRaises, UpdateRead, UpdateCommit, Crash, Restart,
         DatabaseRaises, RefreshRaises, JobEnds

\* The audit trail only grows, and only a claim enters a start.
LEMMA AuditStep ==
  TypeOK /\ Existing /\ [Next]_vars =>
    \A r \in Requests :
      /\ audit[r] \subseteq audit'[r]
      /\ Started(r)' => Started(r) \/ \E w \in Workers : ClaimCommit(w) /\ wk[w].req = r
<1> DEFINE Grows(r) == /\ audit[r] \subseteq audit'[r]
                       /\ Started(r)' => Started(r)
<1> SUFFICES ASSUME TypeOK, Existing, [Next]_vars, NEW r \in Requests
             PROVE  /\ audit[r] \subseteq audit'[r]
                    /\ Started(r)' => Started(r) \/ \E w \in Workers : ClaimCommit(w) /\ wk[w].req = r
  OBVIOUS
<1>1. ASSUME NEW q, NEW event, event # "execution_started", Recorded(q, event) PROVE Grows(r)
  BY <1>1 DEF Recorded, TypeOK, Started
<1>2. ASSUME NEW w \in Workers, ClaimCommit(w)
      PROVE  audit[r] \subseteq audit'[r] /\ (Started(r)' => Started(r) \/ wk[w].req = r)
  BY <1>2 DEF ClaimCommit, Recorded, TypeOK, Started
<1>3. ASSUME Creation PROVE Grows(r)
  BY <1>1, <1>3 DEF Creation, CreateRequest
<1>4. ASSUME NEW a \in Web, ApproveCommit(a) \/ CancelCommit(a) PROVE Grows(r)
  BY <1>1, <1>4 DEF ApproveCommit, CancelCommit
<1>5. CASE UNCHANGED audit
  BY <1>5 DEF Started
<1> QED
  BY <1>2, <1>3, <1>4, <1>5
     DEF Creation, Next, vars, WebStep, ApproveRead, CancelRead, WorkerStep, FaultStep, ClaimLock,
         SubmitAccepted, SubmitRefused, SubmitUnanswered, CheckCancel, CheckTimeout, CheckPoll,
         CancelAccepted, CancelRaises, Poll, PollRaises, UpdateRead, UpdateCommit, WriteRow, Crash,
         Restart, DatabaseRaises, RefreshRaises, JobEnds

\* A new job belongs to the request of the worker that submits it.
LEMMA JobStep ==
  TypeOK /\ [Next]_vars =>
    \/ DOMAIN jobs' = DOMAIN jobs /\ \A j \in DOMAIN jobs : jobs'[j].owner = jobs[j].owner
    \/ \E w \in Workers :
         /\ wk[w].pc = "submit" /\ wk'[w].pc # "submit"
         /\ DOMAIN jobs' = DOMAIN jobs \cup {Len(jobs) + 1}
         /\ \A j \in DOMAIN jobs : jobs'[j] = jobs[j]
         /\ jobs'[Len(jobs) + 1].owner = wk[w].req
<1> DEFINE Stay == DOMAIN jobs' = DOMAIN jobs /\ \A j \in DOMAIN jobs : jobs'[j].owner = jobs[j].owner
           Add(w) == /\ wk[w].pc = "submit" /\ wk'[w].pc # "submit"
                     /\ DOMAIN jobs' = DOMAIN jobs \cup {Len(jobs) + 1}
                     /\ \A j \in DOMAIN jobs : jobs'[j] = jobs[j]
                     /\ jobs'[Len(jobs) + 1].owner = wk[w].req
<1> SUFFICES ASSUME TypeOK, [Next]_vars PROVE Stay \/ \E w \in Workers : Add(w)
  OBVIOUS
<1>1. ASSUME NEW j \in DOMAIN jobs PROVE jobs[j] \in Job
  BY <1>1, ElementOfSeq DEF TypeOK
<1>2. ASSUME NEW w \in Workers, SubmitAccepted(w) \/ SubmitUnanswered(w) PROVE Add(w)
  <2> DEFINE job == [owner |-> wk[w].req, target |-> Target(w), status |-> Born(Target(w))]
  <2>1. wk[w].pc = "submit" /\ wk'[w].pc # "submit" /\ jobs' = Append(jobs, job)
    BY <1>2 DEF SubmitAccepted, SubmitUnanswered, Update, Handler, NewJob, Idle, TypeOK
  <2>2. /\ DOMAIN jobs = 1 .. Len(jobs) /\ Len(jobs) \in Nat
        /\ DOMAIN jobs' = 1 .. Len(jobs) + 1
        /\ \A j \in 1 .. Len(jobs) : jobs'[j] = jobs[j]
        /\ jobs'[Len(jobs) + 1] = job
    BY <2>1, LenProperties DEF TypeOK
  <2> QED
    BY <2>1, <2>2
<1>3. ASSUME NEW w \in Workers, CancelAccepted(w) PROVE Stay
  BY <1>1, <1>3 DEF CancelAccepted, Job
<1>4. ASSUME NEW j \in DOMAIN jobs, NEW status \in {"succeeded", "failed"}, JobEnds(j, status)
      PROVE  Stay
  BY <1>1, <1>4 DEF JobEnds, Job
<1>5. CASE UNCHANGED jobs
  BY <1>5
<1> QED
  BY <1>2, <1>3, <1>4, <1>5
     DEF Next, vars, WebStep, CreateRequest, ApproveRead, ApproveCommit, CancelRead, CancelCommit,
         WorkerStep, FaultStep, ClaimLock, ClaimCommit, SubmitRefused, CheckCancel, CheckTimeout,
         CheckPoll, CancelRaises, Poll, PollRaises, UpdateRead, UpdateCommit, Crash, Restart,
         DatabaseRaises, RefreshRaises
\* A transaction under way keeps what it loaded.
LEMMA WebStepFrame ==
  TypeOK /\ [Next]_vars =>
    \A a \in Web : \/ web'[a] = web[a]
                   \/ web'[a] = NoTransaction
                   \/ \E r \in Requests, actor \in Actors : ApproveRead(a, r, actor)
                   \/ \E r \in Requests : CancelRead(a, r)
<1> DEFINE Goal(a) == \/ web'[a] = web[a]
                      \/ web'[a] = NoTransaction
                      \/ \E r \in Requests, actor \in Actors : ApproveRead(a, r, actor)
                      \/ \E r \in Requests : CancelRead(a, r)
<1> SUFFICES ASSUME TypeOK, [Next]_vars, NEW a \in Web PROVE Goal(a)
  OBVIOUS
<1>1. ASSUME NEW b \in Web, WebStep(b) PROVE Goal(a)
  <2>1. CASE ApproveCommit(b) \/ CancelCommit(b)
    BY <2>1 DEF ApproveCommit, CancelCommit, TypeOK
  <2>2. ASSUME NEW r \in Requests, NEW actor \in Actors, ApproveRead(b, r, actor) PROVE Goal(a)
    BY <2>2 DEF ApproveRead, TypeOK
  <2>3. ASSUME NEW r \in Requests, CancelRead(b, r) PROVE Goal(a)
    BY <2>3 DEF CancelRead, TypeOK
  <2>4. CASE UNCHANGED web
    BY <2>4
  <2> QED
    BY <1>1, <2>1, <2>2, <2>3, <2>4 DEF WebStep, CreateRequest
<1>2. CASE UNCHANGED web
  BY <1>2
<1> QED
  BY <1>1, <1>2
     DEF Next, vars, WorkerStep, FaultStep, ClaimLock, ClaimCommit, SubmitAccepted, SubmitRefused,
         SubmitUnanswered, CheckCancel, CheckTimeout, CheckPoll, CancelAccepted, CancelRaises, Poll,
         PollRaises, UpdateRead, UpdateCommit, Crash, Restart, DatabaseRaises, RefreshRaises, JobEnds

LEMMA NextApproval == TypeOK /\ Existing /\ ApprovalCarried /\ [Next]_vars => ApprovalCarried'
<1> SUFFICES ASSUME TypeOK, Existing, ApprovalCarried, [Next]_vars PROVE ApprovalCarried'
  OBVIOUS
<1>1. ASSUME NEW r \in Requests, row[r].status # "absent" PROVE Kept(row[r], row'[r])
  BY <1>1, RowsAreKept
<1>2. ASSUME NEW r \in Requests, row[r].status # "absent", Approved(r) PROVE Approved(r)'
  <2>1. ASSUME NEW a \in Web, ApproveCommit(a), web[a].req = r PROVE Approved(r)'
    <3>1. web[a].actor \in Actors /\ web[a].actor # row[r].requested_by
      BY <2>1 DEF ApproveCommit, ApprovalCarried
    <3>2. row'[r].approved_by = web[a].actor
      BY <2>1 DEF ApproveCommit, TypeOK, Row
    <3> QED
      BY <1>1, <1>2, <3>1, <3>2 DEF Approved, Kept
  <2> QED
    BY <1>1, <1>2, <2>1, ApprovalStep DEF Approved, Kept
<1>3. ASSUME NEW r \in Requests, Started(r)' \/ row'[r].status = "queued"
      PROVE  row'[r].status # "absent" /\ Approved(r)'
  <2>1. CASE row[r].status # "absent" /\ Approved(r)
    BY <1>1, <1>2, <2>1 DEF Kept
  <2>2. ASSUME NEW w \in Workers, ClaimCommit(w), wk[w].req = r
        PROVE  row[r].status # "absent" /\ Approved(r)
    BY <2>2 DEF ClaimCommit, ApprovalCarried, Existing
  <2>3. ASSUME NEW a \in Web, ApproveCommit(a), web[a].req = r
        PROVE  row'[r].status # "absent" /\ Approved(r)'
    <3>1. row[r].status # "absent" /\ web[a].actor \in Actors /\ web[a].actor # row[r].requested_by
      BY <2>3 DEF ApproveCommit, ApprovalCarried, Existing
    <3>2. row'[r].approved_by = web[a].actor
      BY <2>3 DEF ApproveCommit, TypeOK, Row
    <3> QED
      BY <1>1, <3>1, <3>2 DEF Approved, Kept
  <2>4. CASE Started(r)'
    BY <2>1, <2>2, <2>4, AuditStep DEF ApprovalCarried
  <2>5. CASE row'[r].status = "queued" /\ row[r].status # "absent"
    BY <2>1, <2>3, <2>5, ApprovalStep DEF ApprovalCarried
  <2>6. row'[r].status = "queued" => row[r].status # "absent"
    BY RowStep DEF Creation, CreateRequest, Change, TypeOK, NoRow
  <2> QED
    BY <1>3, <2>4, <2>5, <2>6
<1>4. ASSUME NEW a \in Web, web'[a].op = "approve"
      PROVE  web'[a].actor \in Actors /\ web'[a].actor # row'[web'[a].req].requested_by
  <2>1. CASE web'[a] = web[a]
    BY <1>1, <1>4, <2>1 DEF ApprovalCarried, Existing, Kept
  <2>2. ASSUME NEW r \in Requests, NEW actor \in Actors, ApproveRead(a, r, actor)
        PROVE  web'[a].actor \in Actors /\ web'[a].actor # row'[web'[a].req].requested_by
    BY <2>2 DEF ApproveRead, TypeOK
  <2>3. ASSUME NEW r \in Requests, CancelRead(a, r) PROVE FALSE
    BY <1>4, <2>3 DEF CancelRead, TypeOK
  <2> QED
    BY <1>4, <2>1, <2>2, <2>3, WebStepFrame DEF NoTransaction
<1>5. ASSUME NEW w \in Workers, wk'[w].pc = "claiming" PROVE Approved(wk[w].req)'
  <2>1. CASE wk'[w] = wk[w]
    BY <1>2, <1>5, <2>1 DEF ApprovalCarried, Existing
  <2>2. CASE ClaimLock(w)
    BY <1>2, <2>2 DEF ClaimLock, Claimable, ApprovalCarried, TypeOK
  <2>3. CASE ClaimCommit(w)
    BY <1>5, <2>3 DEF ClaimCommit, TypeOK
  <2> QED
    BY <1>5, <2>1, <2>2, <2>3, WorkerFrame DEF Moves
<1>6. ASSUME NEW r \in Requests, Started(r) PROVE Started(r)'
  BY <1>6, AuditStep DEF Started
<1>7. ASSUME NEW w \in Workers, wk'[w].pc \notin {"idle", "claiming", "dead"}
      PROVE  Started(wk[w].req)'
  <2>1. CASE wk[w].pc \notin {"idle", "claiming", "dead"} /\ wk'[w].req = wk[w].req
    BY <1>6, <2>1 DEF ApprovalCarried, Existing
  <2>2. CASE ClaimLock(w)
    BY <1>7, <2>2 DEF ClaimLock, TypeOK
  <2>3. CASE ClaimCommit(w)
    BY <2>3 DEF ClaimCommit, Recorded, Existing, TypeOK, Started
  <2> QED
    BY <1>7, <2>1, <2>2, <2>3, WorkerFrame DEF Moves
<1>8. ASSUME NEW j \in DOMAIN jobs' PROVE Started(jobs[j].owner)'
  <2>1. ASSUME NEW i \in DOMAIN jobs PROVE jobs[i].owner \in Requests
    BY <2>1, JobType
  <2>2. CASE DOMAIN jobs' = DOMAIN jobs /\ \A i \in DOMAIN jobs : jobs'[i].owner = jobs[i].owner
    BY <1>6, <2>1, <2>2 DEF ApprovalCarried
  <2>3. ASSUME NEW w \in Workers, wk[w].pc = "submit", j = Len(jobs) + 1, jobs'[j].owner = wk[w].req
        PROVE  Started(jobs[j].owner)'
    BY <1>6, <2>3 DEF ApprovalCarried, Existing
  <2> QED
    BY <1>6, <2>1, <2>2, <2>3, JobStep DEF ApprovalCarried
<1> QED
  BY <1>3, <1>4, <1>5, <1>7, <1>8 DEF ApprovalCarried

\* Whatever runs in the cloud was approved by somebody other than the actor
\* who asked for it, whatever the web processes, the workers and the faults do.
THEOREM FourEyesHolds == Spec => []FourEyes
<1>1. TypeOK /\ ApprovalCarried => FourEyes
  <2> SUFFICES ASSUME TypeOK, ApprovalCarried, NEW j \in DOMAIN jobs
               PROVE  Started(jobs[j].owner) /\ Approved(jobs[j].owner)
    BY DEF FourEyes, Started
  <2>1. jobs[j].owner \in Requests
    BY JobType
  <2> QED
    BY <2>1 DEF ApprovalCarried
<1> QED
  BY <1>1, ExistingAlways, InitApproval, NextApproval, PTL DEF Spec
-----------------------------------------------------------------------------
(* One owner, one job.  With one web process an approval still finds the   *)
(* row as it read it, so that a claimed row never returns to the queue.    *)
Queueable == {"absent", "execution_requested", "queued"}

Exclusive ==
  /\ \A r \in Requests : row[r].status \in Queueable => ~Started(r)
  /\ \A a \in Web : web[a].op = "approve" => row[web[a].req].status = "execution_requested"
  /\ \A w \in Workers : wk[w].pc = "claiming" => row[wk[w].req].status = "queued"
  /\ \A w \in Workers : wk[w].pc \in {"idle", "dead"} => wk[w].req = 0
  /\ OneOwner

LEMMA InitExclusive == Init => Exclusive
  BY DEF Init, Exclusive, Started, OneOwner, NoTransaction, Idle

\* Who changes a status, and to what.
LEMMA StatusStep ==
  TypeOK /\ Existing /\ [Next]_vars =>
    \A r \in Requests :
      \/ row'[r].status = row[r].status
      \/ row[r].status = "absent" /\ row'[r].status = "execution_requested"
      \/ \E a \in Web : web[a].req = r /\ ApproveCommit(a)
      \/ \E a \in Web : /\ web[a].req = r /\ CancelCommit(a)
                       /\ row'[r].status \notin Queueable
      \/ \E w \in Workers : wk[w].req = r /\ ClaimCommit(w) /\ row'[r].status = "running"
      \/ \E w \in Workers : /\ wk[w].req = r /\ wk[w].pc = "write"
                           /\ row'[r].status \notin Queueable
<1> SUFFICES ASSUME TypeOK, Existing, [Next]_vars, NEW r \in Requests, row'[r].status # row[r].status
             PROVE  \/ row[r].status = "absent" /\ row'[r].status = "execution_requested"
                    \/ \E a \in Web : web[a].req = r /\ ApproveCommit(a)
                    \/ \E a \in Web : /\ web[a].req = r /\ CancelCommit(a)
                                     /\ row'[r].status \notin Queueable
                    \/ \E w \in Workers : wk[w].req = r /\ ClaimCommit(w) /\ row'[r].status = "running"
                    \/ \E w \in Workers : /\ wk[w].req = r /\ wk[w].pc = "write"
                                         /\ row'[r].status \notin Queueable
  OBVIOUS
<1>1. \A q \in Requests : row[q] \in Row
  BY DEF TypeOK
<1>2. ASSUME Creation PROVE row[r].status = "absent" /\ row'[r].status = "execution_requested"
  BY <1>2 DEF Creation, CreateRequest, TypeOK, NoRow
<1>3. ASSUME NEW a \in Web, ApproveCommit(a) PROVE web[a].req = r
  BY <1>1, <1>3 DEF ApproveCommit, TypeOK
<1>4. ASSUME NEW a \in Web, CancelCommit(a) PROVE web[a].req = r /\ row'[r].status \notin Queueable
  BY <1>1, <1>4 DEF CancelCommit, TypeOK, Row, Queueable
<1>5. ASSUME NEW w \in Workers, ClaimCommit(w) PROVE wk[w].req = r /\ row'[r].status = "running"
  BY <1>1, <1>5 DEF ClaimCommit, TypeOK, Row
<1>6. ASSUME NEW w \in Workers, WriteRow(w)
      PROVE  wk[w].req = r /\ row'[r].status \notin Queueable
  <2>1. wk[w].next \notin Queueable
    BY DEF TypeOK, WorkerState, Terminal, Queueable
  <2> QED
    BY <1>1, <1>6, <2>1 DEF WriteRow, TypeOK, Row
<1> QED
  BY <1>2, <1>3, <1>4, <1>5, <1>6
     DEF Creation, Next, vars, WebStep, ApproveRead, CancelRead, WorkerStep, FaultStep, ClaimLock,
         SubmitAccepted, SubmitRefused, SubmitUnanswered, CheckCancel, CheckTimeout, CheckPoll,
         CancelAccepted, CancelRaises, Poll, PollRaises, UpdateRead, UpdateCommit, Crash, Restart,
         DatabaseRaises, RefreshRaises, JobEnds

LEMMA NextExclusive ==
  ASSUME \A a, b \in Web : a = b
  PROVE  TypeOK /\ Existing /\ ApprovalCarried /\ Exclusive /\ [Next]_vars => Exclusive'
<1> SUFFICES ASSUME TypeOK, Existing, ApprovalCarried, Exclusive, [Next]_vars PROVE Exclusive'
  OBVIOUS
\* A worker that may write a row has started it, so its row left the queue.
<1>1. ASSUME NEW w \in Workers, wk[w].pc = "write"
      PROVE  wk[w].req \in Requests /\ row[wk[w].req].status \notin Queueable
  BY <1>1 DEF ApprovalCarried, Existing, Exclusive
<1>2. ASSUME NEW r \in Requests, row'[r].status \in Queueable PROVE ~Started(r)'
  <2>1. ASSUME NEW w \in Workers, ClaimCommit(w), wk[w].req = r PROVE FALSE
    BY <1>2, <2>1 DEF ClaimCommit, TypeOK, Row, Queueable
  <2>2. row[r].status \in Queueable
    <3>1. ASSUME NEW a \in Web, web[a].req = r, ApproveCommit(a) PROVE row[r].status \in Queueable
      BY <3>1 DEF ApproveCommit, Exclusive, Queueable
    <3>2. "absent" \in Queueable
      BY DEF Queueable
    <3> QED
      BY <1>2, <2>1, <3>1, <3>2, StatusStep
  <2> QED
    BY <2>1, <2>2, AuditStep DEF Exclusive
<1>3. ASSUME NEW a \in Web, web'[a].op = "approve"
      PROVE  row'[web'[a].req].status = "execution_requested"
  <2>1. ASSUME NEW r \in Requests, NEW actor \in Actors, ApproveRead(a, r, actor)
        PROVE  row'[web'[a].req].status = "execution_requested"
    BY <2>1 DEF ApproveRead, TypeOK
  <2>2. ASSUME NEW r \in Requests, CancelRead(a, r) PROVE FALSE
    BY <1>3, <2>2 DEF CancelRead, TypeOK
  <2>3. CASE web'[a] = web[a]
    <3> DEFINE r == web[a].req
    <3>1. web[a].op = "approve" /\ r \in Requests /\ row[r].status = "execution_requested"
      BY <1>3, <2>3 DEF Exclusive, Existing
    <3>2. ASSUME NEW b \in Web, ApproveCommit(b) \/ CancelCommit(b) PROVE FALSE
      <4>1. b = a /\ web'[a] = NoTransaction
        BY <3>2 DEF ApproveCommit, CancelCommit, TypeOK
      <4> QED
        BY <1>3, <4>1 DEF NoTransaction
    <3>3. ASSUME NEW w \in Workers, ClaimCommit(w) PROVE wk[w].req # r
      BY <3>1, <3>3 DEF ClaimCommit, Exclusive
    <3>4. row'[r].status = row[r].status
      BY <1>1, <3>1, <3>2, <3>3, StatusStep DEF Queueable
    <3> QED
      BY <2>3, <3>1, <3>4
  <2> QED
    BY <1>3, <2>1, <2>2, <2>3, WebStepFrame DEF NoTransaction
<1>4. ASSUME NEW w \in Workers, wk'[w].pc = "claiming" PROVE row'[wk'[w].req].status = "queued"
  <2>1. CASE ClaimLock(w)
    BY <2>1 DEF ClaimLock, Claimable, TypeOK
  <2>2. CASE ClaimCommit(w)
    BY <1>4, <2>2 DEF ClaimCommit, TypeOK
  <2>3. CASE wk'[w] = wk[w]
    <3> DEFINE r == wk[w].req
    <3>1. wk[w].pc = "claiming" /\ r \in Requests /\ row[r].status = "queued"
      BY <1>4, <2>3 DEF Exclusive, Existing
    <3>2. ASSUME NEW a \in Web, ApproveCommit(a) \/ CancelCommit(a) PROVE web[a].req # r
      BY <3>1, <3>2 DEF ApproveCommit, CancelCommit, Locked
    <3>3. ASSUME NEW v \in Workers, ClaimCommit(v) PROVE wk[v].req # r
      <4>1. wk'[v].pc = "submit"
        BY <3>3 DEF ClaimCommit, TypeOK
      <4>2. v # w /\ wk[w].req # 0
        BY <1>4, <3>1, <4>1
      <4> QED
        BY <3>1, <4>2 DEF Exclusive, OneOwner
    <3>4. row'[r].status = row[r].status
      BY <1>1, <3>1, <3>2, <3>3, StatusStep DEF Queueable
    <3> QED
      BY <2>3, <3>1, <3>4
  <2> QED
    BY <1>4, <2>1, <2>2, <2>3, WorkerFrame DEF Moves
<1>5. ASSUME NEW w \in Workers, wk'[w].pc \in {"idle", "dead"} PROVE wk'[w].req = 0
  <2>1. CASE ClaimLock(w)
    BY <1>5, <2>1 DEF ClaimLock, TypeOK
  <2>2. CASE ClaimCommit(w)
    BY <1>5, <2>2 DEF ClaimCommit, TypeOK
  <2> QED
    BY <1>5, <2>1, <2>2, WorkerFrame DEF Moves, Exclusive
\* A queued row that no claim has locked belongs to nobody.
<1>6. ASSUME NEW r \in Requests, Claimable(r), NEW w \in Workers PROVE wk[w].req # r
  <2>1. row[r].status = "queued" /\ ~Started(r) /\ ~Locked(r) /\ r # 0
    BY <1>6 DEF Claimable, Exclusive, Queueable
  <2> QED
    BY <2>1 DEF Locked, Exclusive, ApprovalCarried
<1>7. OneOwner'
  <2> SUFFICES ASSUME NEW v \in Workers, NEW w \in Workers, v # w, wk'[v].req # 0
               PROVE  wk'[v].req # wk'[w].req
    BY DEF OneOwner
  <2>1. ASSUME NEW u \in Workers, NEW x \in Workers, u # x, ClaimLock(u), wk'[x] = wk[x]
        PROVE  wk'[u].req # wk'[x].req
    BY <1>6, <2>1 DEF ClaimLock, TypeOK
  <2>2. ASSUME NEW u \in Workers, Moves(u), wk'[u].req = wk[u].req \/ wk'[u].req = 0
        PROVE  wk'[v].req # wk'[w].req
    BY <2>2 DEF Moves, Exclusive, OneOwner
  <2>3. ASSUME NEW u \in Workers, ClaimCommit(u) PROVE wk'[u].req = wk[u].req
    BY <2>3 DEF ClaimCommit, TypeOK
  <2>4. CASE UNCHANGED wk
    BY <2>4 DEF Exclusive, OneOwner
  <2>5. ASSUME NEW u \in Workers, Moves(u), ClaimLock(u) PROVE wk'[v].req # wk'[w].req
    <3>1. CASE u = v
      BY <2>1, <2>5, <3>1 DEF Moves
    <3>2. CASE u = w
      BY <2>1, <2>5, <3>2 DEF Moves
    <3>3. CASE u # v /\ u # w
      BY <2>5, <3>3 DEF Moves, Exclusive, OneOwner
    <3> QED
      BY <3>1, <3>2, <3>3
  <2> QED
    BY <2>2, <2>3, <2>4, <2>5, WorkerFrame DEF Moves
<1> QED
  BY <1>2, <1>3, <1>4, <1>5, <1>7 DEF Exclusive

LEMMA ExclusiveAlways ==
  ASSUME \A a, b \in Web : a = b
  PROVE  Spec => [](TypeOK /\ Existing /\ ApprovalCarried /\ Exclusive)
<1>1. TypeOK /\ Existing /\ ApprovalCarried /\ Exclusive /\ [Next]_vars => Exclusive'
  BY NextExclusive
<1> QED
  BY <1>1, ExistingAlways, InitApproval, NextApproval, InitExclusive, PTL DEF Spec

\* One web process and any number of workers: two workers never execute the
\* same request.
THEOREM OneOwnerHolds ==
  ASSUME \A a, b \in Web : a = b
  PROVE  Spec => []OneOwner
<1>1. Exclusive => OneOwner
  BY DEF Exclusive
<1> QED
  BY <1>1, ExclusiveAlways, PTL
\* The unique key, and one submission for each claim.
SubmittedOnce ==
  /\ \A q, r \in Requests : q # r /\ row[q].status # "absent" /\ row[r].status # "absent" =>
       row[q].idempotency_key # row[r].idempotency_key
  /\ \A i, j \in DOMAIN jobs : i # j => jobs[i].owner # jobs[j].owner
  /\ \A w \in Workers : wk[w].pc = "submit" =>
       \A j \in DOMAIN jobs : jobs[j].owner # wk[w].req

LEMMA InitSubmitted == Init => SubmittedOnce
  BY DEF Init, SubmittedOnce, NoRow, Idle

LEMMA NextSubmitted ==
  TypeOK /\ Existing /\ ApprovalCarried /\ Exclusive /\ SubmittedOnce /\ [Next]_vars => SubmittedOnce'
<1> SUFFICES ASSUME TypeOK, Existing, ApprovalCarried, Exclusive, SubmittedOnce, [Next]_vars
             PROVE  SubmittedOnce'
  OBVIOUS
<1>1. ASSUME NEW q \in Requests, NEW r \in Requests, q # r,
             row'[q].status # "absent", row'[r].status # "absent"
      PROVE  row'[q].idempotency_key # row'[r].idempotency_key
  <2>1. CASE row[q].status # "absent" /\ row[r].status # "absent"
    BY <1>1, <2>1, RowsAreKept DEF Kept, SubmittedOnce
  <2>2. CASE Creation
    BY <1>1, <2>1, <2>2 DEF Creation, CreateRequest, KeyIsFree, TypeOK, NoRow
  <2>3. CASE row[q].status = "absent" \/ row[r].status = "absent"
    BY <1>1, <2>2, <2>3, RowStep DEF Change
  <2> QED
    BY <2>1, <2>3
<1>2. ASSUME NEW i \in DOMAIN jobs', NEW j \in DOMAIN jobs', i # j
      PROVE  jobs'[i].owner # jobs'[j].owner
  <2>1. CASE DOMAIN jobs' = DOMAIN jobs /\ \A k \in DOMAIN jobs : jobs'[k].owner = jobs[k].owner
    BY <1>2, <2>1 DEF SubmittedOnce
  <2> QED
    BY <1>2, <2>1, JobStep DEF SubmittedOnce
<1>3. ASSUME NEW w \in Workers, wk'[w].pc = "submit", NEW j \in DOMAIN jobs'
      PROVE  jobs'[j].owner # wk'[w].req
  <2>1. CASE ClaimCommit(w)
    <3>1. wk'[w].req = wk[w].req /\ jobs' = jobs
      BY <2>1 DEF ClaimCommit, TypeOK
    <3>2. wk[w].pc = "claiming" /\ wk[w].req \in Requests
      BY <2>1 DEF ClaimCommit, Existing
    <3>3. ~Started(wk[w].req)
      BY <3>2 DEF Exclusive, Queueable
    <3> QED
      BY <1>3, <3>1, <3>3 DEF ApprovalCarried
  <2>2. CASE wk'[w] = wk[w]
    <3>1. ASSUME NEW v \in Workers, wk[v].pc = "submit", wk'[v].pc # "submit"
          PROVE  wk[v].req # wk[w].req
      <4>1. wk[v].req \in Requests /\ v # w
        BY <1>3, <3>1 DEF Existing
      <4> QED
        BY <4>1 DEF Exclusive, OneOwner
    <3>2. wk[w].pc = "submit"
      BY <1>3, <2>2
    <3> QED
      BY <1>3, <2>2, <3>1, <3>2, JobStep DEF SubmittedOnce
  <2>3. CASE ClaimLock(w)
    BY <1>3, <2>3 DEF ClaimLock, TypeOK
  <2> QED
    BY <1>3, <2>1, <2>2, <2>3, WorkerFrame DEF Moves
<1> QED
  BY <1>1, <1>2, <1>3 DEF SubmittedOnce

\* One web process and any number of workers: a key that a client retries
\* with buys at most one job.
THEOREM OneJobPerKeyHolds ==
  ASSUME \A a, b \in Web : a = b
  PROVE  Spec => []OneJobPerKey
<1>1. TypeOK /\ ApprovalCarried /\ SubmittedOnce => OneJobPerKey
  BY JobType DEF ApprovalCarried, SubmittedOnce, OneJobPerKey
<1> QED
  BY <1>1, ExclusiveAlways, InitSubmitted, NextSubmitted, PTL DEF Spec
=============================================================================
