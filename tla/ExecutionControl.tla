-------------------------- MODULE ExecutionControl --------------------------
(***************************************************************************)
(* The production control plane of the multi-agent demo: the execution     *)
(* request rows of the control database (production_control.py), the web   *)
(* handlers that create, approve and cancel requests (main.py), the worker *)
(* processes that claim, submit, poll and cancel (execution_worker.py) and *)
(* the two cloud job services they call (huawei_execution.py).             *)
(*                                                                         *)
(* A web handler and update_execution read the row in one statement and    *)
(* write it in a later one, under READ COMMITTED and without a version     *)
(* check, so each is two steps: ...Read keeps what was loaded, ...Commit   *)
(* writes the columns whose new value differs from the loaded one.         *)
(***************************************************************************)
EXTENDS Naturals, Sequences, FiniteSets

CONSTANTS
  MaxRequests,  \* bound: rows the clients create
  Keys,         \* idempotency keys the clients send
  Targets,      \* allowlisted execution targets, one server-managed profile each
  Actors,       \* authenticated subjects holding all the roles involved
  Web,          \* web processes; each runs one handler at a time
  Workers,      \* worker processes
  MaxFaults,    \* bound: crashes, database errors and lost answers
  None          \* SQL NULL

Requests == 1 .. MaxRequests

ASSUME ConstantsAssumption ==
  /\ MaxRequests \in Nat
  /\ MaxFaults \in Nat
  /\ Targets \subseteq {"mrs", "dataarts", "dry_run"}
  /\ None \notin Actors \cup Keys \cup Targets

VARIABLES
  row,     \* sat_execution_requests, in the order of requested_at
  audit,   \* sat_execution_events: what the web handlers and the claim recorded
  jobs,    \* jobs the cloud services accepted, oldest first
  web,     \* the open transaction of each web process
  wk,      \* the program state of each worker
  faults   \* faults so far

vars == <<row, audit, jobs, web, wk, faults>>
-----------------------------------------------------------------------------
Terminal == {"succeeded", "failed", "cancelled"}
Active   == {"execution_requested", "queued", "running", "cancel_requested"}
Status   == Terminal \cup Active

Row == [status          : Status \cup {"absent"},
        idempotency_key : Keys \cup {None},
        target          : Targets \cup {None},
        requested_by    : Actors \cup {None},
        approved_by     : Actors \cup {None},
        cloud_job_id    : Nat]

NoRow == [status |-> "absent", idempotency_key |-> None, target |-> None,
          requested_by |-> None, approved_by |-> None, cloud_job_id |-> 0]

\* "stopping": the service took a stop call and has not ended the job yet.
Job == [owner : Requests, target : Targets,
        status : {"running", "stopping", "succeeded", "failed"}]

Transaction == [op : {"none", "approve", "cancel"}, req : Requests \cup {0},
                actor : Actors \cup {None}, snap : Status \cup {"absent"}]

NoTransaction == [op |-> "none", req |-> 0, actor |-> None, snap |-> "absent"]

\* job: the cloud_job_id the next update_execution passes, 0 for none;
\* next: the status it asks for; snap: the status it loaded.
WorkerState ==
  [pc : {"idle", "claiming", "submit", "check", "cancel", "poll", "read", "write", "dead"},
   req : Requests \cup {0}, job : Nat, next : Terminal \cup {"running"},
   snap : Status \cup {"absent"}]

Idle == [pc |-> "idle", req |-> 0, job |-> 0, next |-> "running", snap |-> "absent"]

Init ==
  /\ row = [r \in Requests |-> NoRow]
  /\ audit = [r \in Requests |-> {}]
  /\ jobs = <<>>
  /\ web = [a \in Web |-> NoTransaction]
  /\ wk = [w \in Workers |-> Idle]
  /\ faults = 0

\* Definitions named Bug... are deliberate mistakes that the properties must
\* notice; the specification uses none of them.

\* BugSelectWithoutLock: the claim's SELECT takes no row lock.
BugSelectWithoutLock(r) == FALSE

\* Rows a claiming worker holds with SELECT ... FOR UPDATE; other writers wait.
Locked(r) == \E w \in Workers : wk[w].pc = "claiming" /\ wk[w].req = r

Recorded(r, event) == audit' = [audit EXCEPT ![r] = @ \cup {event}]
-----------------------------------------------------------------------------
(* Web handlers.                                                           *)

\* BugNoUniqueKey: idempotency_key is not unique.
BugNoUniqueKey(key) == TRUE

\* A second use of a key returns the existing row or is refused: no step.
KeyIsFree(key) == \A q \in Requests : row[q].idempotency_key # key

CreateRequest(a, r, key, target, actor) ==
  /\ web[a] = NoTransaction
  /\ row[r].status = "absent"
  /\ \A q \in Requests : q < r => row[q].status # "absent"
  /\ KeyIsFree(key)
  /\ row' = [row EXCEPT ![r] =
       [NoRow EXCEPT !.status = "execution_requested", !.idempotency_key = key,
                     !.target = target, !.requested_by = actor]]
  /\ Recorded(r, "execution_requested")
  /\ UNCHANGED <<jobs, web, wk, faults>>

\* BugSelfApproval: no comparison with requested_by.
BugSelfApproval(a, r, actor) ==
  /\ web[a] = NoTransaction
  /\ row[r].status = "execution_requested"
  /\ web' = [web EXCEPT ![a] = [op |-> "approve", req |-> r, actor |-> actor,
                                snap |-> row[r].status]]
  /\ UNCHANGED <<row, audit, jobs, wk, faults>>

\* BugApprovesAny: whatever has a row can be approved.
BugApprovesAny(a, r, actor) ==
  /\ web[a] = NoTransaction
  /\ row[r].status # "absent"
  /\ row[r].requested_by # actor
  /\ web' = [web EXCEPT ![a] = [op |-> "approve", req |-> r, actor |-> actor,
                                snap |-> row[r].status]]
  /\ UNCHANGED <<row, audit, jobs, wk, faults>>

ApproveRead(a, r, actor) ==
  /\ web[a] = NoTransaction
  /\ row[r].status = "execution_requested"
  /\ row[r].requested_by # actor
  /\ web' = [web EXCEPT ![a] = [op |-> "approve", req |-> r, actor |-> actor,
                                snap |-> row[r].status]]
  /\ UNCHANGED <<row, audit, jobs, wk, faults>>

ApproveCommit(a) ==
  LET r == web[a].req IN
  /\ web[a].op = "approve"
  /\ ~Locked(r)
  /\ row' = [row EXCEPT ![r].status = "queued", ![r].approved_by = web[a].actor]
  /\ Recorded(r, "approved_for_execution")
  /\ web' = [web EXCEPT ![a] = NoTransaction]
  /\ UNCHANGED <<jobs, wk, faults>>

\* BugCancelsEnded: a terminal row is cancelled like any other.
BugCancelsEnded(a, r) ==
  /\ web[a] = NoTransaction
  /\ row[r].status # "absent"
  /\ web' = [web EXCEPT ![a] = [op |-> "cancel", req |-> r, actor |-> None,
                                snap |-> row[r].status]]
  /\ UNCHANGED <<row, audit, jobs, wk, faults>>

CancelRead(a, r) ==
  /\ web[a] = NoTransaction
  /\ row[r].status \in Active
  /\ web' = [web EXCEPT ![a] = [op |-> "cancel", req |-> r, actor |-> None,
                                snap |-> row[r].status]]
  /\ UNCHANGED <<row, audit, jobs, wk, faults>>

\* The new status never equals the loaded one, so it is always written.
CancelCommit(a) ==
  LET r   == web[a].req
      new == IF web[a].snap = "running" THEN "cancel_requested" ELSE "cancelled"
  IN
  /\ web[a].op = "cancel"
  /\ ~Locked(r)
  /\ row' = [row EXCEPT ![r].status = new]
  /\ Recorded(r, new)
  /\ web' = [web EXCEPT ![a] = NoTransaction]
  /\ UNCHANGED <<jobs, wk, faults>>

WebStep(a) ==
  \/ \E r \in Requests, key \in Keys, target \in Targets, actor \in Actors :
       CreateRequest(a, r, key, target, actor)
  \/ \E r \in Requests, actor \in Actors : ApproveRead(a, r, actor)
  \/ \E r \in Requests : CancelRead(a, r)
  \/ ApproveCommit(a)
  \/ CancelCommit(a)
-----------------------------------------------------------------------------
(* The worker: claim_next_execution.                                       *)

\* BugNoSkipLocked: a row that another worker is claiming is selected too.
BugNoSkipLocked(r) == row[r].status = "queued"

Claimable(r) == row[r].status = "queued" /\ ~Locked(r)

\* FOR UPDATE SKIP LOCKED: the oldest queued row nobody has locked.
ClaimLock(w) ==
  /\ wk[w].pc = "idle"
  /\ \E r \in Requests :
       /\ Claimable(r)
       /\ \A q \in Requests : q < r => ~Claimable(q)
       /\ wk' = [wk EXCEPT ![w].pc = "claiming", ![w].req = r]
  /\ UNCHANGED <<row, audit, jobs, web, faults>>

ClaimCommit(w) ==
  LET r == wk[w].req IN
  /\ wk[w].pc = "claiming"
  /\ row' = [row EXCEPT ![r].status = "running"]
  /\ Recorded(r, "execution_started")
  /\ wk' = [wk EXCEPT ![w].pc = "submit"]
  /\ UNCHANGED <<jobs, web, faults>>
-----------------------------------------------------------------------------
(* The worker: one execution.                                              *)

\* The next update_execution call: its status and the job id it passes.
Update(w, status, job) ==
  wk' = [wk EXCEPT ![w] = [Idle EXCEPT !.pc = "read", !.req = wk[w].req,
                                       !.next = status, !.job = job]]

\* BugSwallow: the exception leaves run_once, no status is recorded.
BugSwallow(w) == wk' = [wk EXCEPT ![w] = Idle]

\* BugUnknownStatus: the handler records a status nobody declared.
BugUnknownStatus(w) == Update(w, "error", 0)

\* except Exception: record "failed", without a job id.
Handler(w) == Update(w, "failed", 0)

Target(w) == row[wk[w].req].target

Born(target) == IF target = "dry_run" THEN "succeeded" ELSE "running"

NewJob(w) == Append(jobs, [owner |-> wk[w].req, target |-> Target(w),
                           status |-> Born(Target(w))])

SubmitAccepted(w) ==
  /\ wk[w].pc = "submit"
  /\ jobs' = NewJob(w)
  /\ Update(w, "running", Len(jobs) + 1)
  /\ UNCHANGED <<row, audit, web, faults>>

\* An allowlist, a name check or the service refuses the job.
SubmitRefused(w) ==
  /\ wk[w].pc = "submit"
  /\ Target(w) # "dry_run"
  /\ Handler(w)
  /\ UNCHANGED <<row, audit, jobs, web, faults>>

\* The service accepts the job and the answer is lost.
SubmitUnanswered(w) ==
  /\ wk[w].pc = "submit"
  /\ Target(w) # "dry_run"
  /\ faults < MaxFaults
  /\ faults' = faults + 1
  /\ jobs' = NewJob(w)
  /\ Handler(w)
  /\ UNCHANGED <<row, audit, web>>

\* The loop's re-read of the row finds a cancellation.
CheckCancel(w) ==
  /\ wk[w].pc = "check"
  /\ row[wk[w].req].status = "cancel_requested"
  /\ wk' = [wk EXCEPT ![w].pc = "cancel"]
  /\ UNCHANGED <<row, audit, jobs, web, faults>>

\* BugNoTimeout: the start time is taken anew in every turn of the loop.
BugNoTimeout(w) == FALSE /\ UNCHANGED vars

\* SAT_EXECUTION_TIMEOUT_SECONDS may have passed at any check; Fairness says
\* that it has passed in the end.
CheckTimeout(w) ==
  /\ wk[w].pc = "check"
  /\ row[wk[w].req].status # "cancel_requested"
  /\ Update(w, "failed", wk[w].job)
  /\ UNCHANGED <<row, audit, jobs, web, faults>>

CheckPoll(w) ==
  /\ wk[w].pc = "check"
  /\ row[wk[w].req].status # "cancel_requested"
  /\ wk' = [wk EXCEPT ![w].pc = "poll"]
  /\ UNCHANGED <<row, audit, jobs, web, faults>>

\* stop_job on a job that is over changes nothing if the service accepts it.
CancelAccepted(w) ==
  /\ wk[w].pc = "cancel"
  /\ Target(w) # "dataarts"
  /\ jobs' = [jobs EXCEPT ![wk[w].job].status = IF @ = "running" THEN "stopping" ELSE @]
  /\ Update(w, "cancelled", wk[w].job)
  /\ UNCHANGED <<row, audit, web, faults>>

\* Not implemented for DataArts; any service error for MRS.
CancelRaises(w) ==
  /\ wk[w].pc = "cancel"
  /\ Target(w) # "dry_run"
  /\ Handler(w)
  /\ UNCHANGED <<row, audit, jobs, web, faults>>

\* poll_dataarts finds instances by job name, not by the id submit returned,
\* and takes the newest of those listed. An accepted job appears in the list
\* some time later, so that may be any of them, or none.
LaterInstances(j) == {i \in j .. Len(jobs) : jobs[i].target = "dataarts"}

Polled(w) ==
  IF Target(w) = "dataarts"
  THEN {"waiting"} \cup {jobs[i].status : i \in LaterInstances(wk[w].job)}
  ELSE {jobs[wk[w].job].status}

\* BugAnyEndSucceeds: a terminal answer is taken for a success.
BugAnyEndSucceeds(w) ==
  /\ wk[w].pc = "poll"
  /\ \E seen \in Polled(w) :
       Update(w, IF seen \in {"succeeded", "failed"} THEN "succeeded" ELSE "running",
              wk[w].job)
  /\ UNCHANGED <<row, audit, jobs, web, faults>>

Poll(w) ==
  /\ wk[w].pc = "poll"
  /\ \E seen \in Polled(w) :
       Update(w, IF seen \in {"succeeded", "failed"} THEN seen ELSE "running", wk[w].job)
  /\ UNCHANGED <<row, audit, jobs, web, faults>>

\* BugResubmit: a failed poll is retried from the submission.
BugResubmit(w) ==
  /\ wk[w].pc = "poll"
  /\ wk' = [wk EXCEPT ![w].pc = "submit"]
  /\ UNCHANGED <<row, audit, jobs, web, faults>>

PollRaises(w) ==
  /\ wk[w].pc = "poll"
  /\ Target(w) # "dry_run"
  /\ Handler(w)
  /\ UNCHANGED <<row, audit, jobs, web, faults>>

(* update_execution.                                                       *)

UpdateRead(w) ==
  /\ wk[w].pc = "read"
  /\ wk' = [wk EXCEPT ![w].pc = "write", ![w].snap = row[wk[w].req].status]
  /\ UNCHANGED <<row, audit, jobs, web, faults>>

\* BugLateJobId: only the final update records the job id.
BugLateJobId(w) ==
  LET r == wk[w].req IN
  /\ ~Locked(r)
  /\ row' = [row EXCEPT
       ![r].status = IF wk[w].next = wk[w].snap THEN @ ELSE wk[w].next,
       ![r].cloud_job_id = IF wk[w].next \in Terminal /\ wk[w].job # 0
                           THEN wk[w].job ELSE @]
  /\ UNCHANGED audit

\* Only the columns that differ from the loaded ones are in the UPDATE. The
\* event it appends says what the row says, and is left out of audit.
WriteRow(w) ==
  LET r == wk[w].req IN
  /\ ~Locked(r)
  /\ row' = [row EXCEPT
       ![r].status = IF wk[w].next = wk[w].snap THEN @ ELSE wk[w].next,
       ![r].cloud_job_id = IF wk[w].job = 0 THEN @ ELSE wk[w].job]
  /\ UNCHANGED audit

UpdateCommit(w) ==
  /\ wk[w].pc = "write"
  /\ WriteRow(w)
  /\ wk' = [wk EXCEPT ![w] = IF wk[w].next \in Terminal THEN Idle
                             ELSE [@ EXCEPT !.pc = "check", !.snap = "absent"]]
  /\ UNCHANGED <<jobs, web, faults>>

WorkerStep(w) ==
  \/ ClaimLock(w) \/ ClaimCommit(w)
  \/ SubmitAccepted(w) \/ SubmitRefused(w)
  \/ CheckCancel(w) \/ CheckTimeout(w) \/ CheckPoll(w)
  \/ CancelAccepted(w) \/ CancelRaises(w)
  \/ Poll(w) \/ PollRaises(w)
  \/ UpdateRead(w) \/ UpdateCommit(w)
-----------------------------------------------------------------------------
(* Faults and the cloud.                                                   *)

Fault == faults < MaxFaults /\ faults' = faults + 1

\* The process dies: its memory is lost and the database drops its lock.
Crash(w) ==
  /\ wk[w].pc # "dead"
  /\ Fault
  /\ wk' = [wk EXCEPT ![w] = [Idle EXCEPT !.pc = "dead"]]
  /\ UNCHANGED <<row, audit, jobs, web>>

Restart(w) ==
  /\ wk[w].pc = "dead"
  /\ wk' = [wk EXCEPT ![w] = Idle]
  /\ UNCHANGED <<row, audit, jobs, web, faults>>

\* A database error inside the try block. In the handler (job = 0) it leaves
\* run_once and ends the process: Crash.
DatabaseRaises(w) ==
  /\ wk[w].pc \in {"check", "read", "write"}
  /\ wk[w].job # 0
  /\ Fault
  /\ Handler(w)
  /\ UNCHANGED <<row, audit, jobs, web>>

\* The UPDATE commits and the refresh after it raises.
RefreshRaises(w) ==
  /\ wk[w].pc = "write"
  /\ wk[w].job # 0
  /\ Fault
  /\ WriteRow(w)
  /\ Handler(w)
  /\ UNCHANGED <<jobs, web>>

JobEnds(j, status) ==
  /\ jobs[j].status \in {"running", "stopping"}
  /\ jobs' = [jobs EXCEPT ![j].status = status]
  /\ UNCHANGED <<row, audit, web, wk, faults>>

FaultStep(w) ==
  \/ SubmitUnanswered(w) \/ Crash(w) \/ Restart(w)
  \/ DatabaseRaises(w) \/ RefreshRaises(w)

Next ==
  \/ \E a \in Web : WebStep(a)
  \/ \E w \in Workers : WorkerStep(w) \/ FaultStep(w)
  \/ \E j \in DOMAIN jobs, status \in {"succeeded", "failed"} : JobEnds(j, status)

Spec == Init /\ [][Next]_vars

(* A live worker keeps running, and its clock passes the deadline of an    *)
(* execution that goes on checking. Nothing is assumed of clients, of the  *)
(* cloud, of restarts or of faults.                                        *)
Fairness == \A w \in Workers : WF_vars(WorkerStep(w)) /\ SF_vars(CheckTimeout(w))

FairSpec == Spec /\ Fairness
=============================================================================
