------------------------ MODULE ExecutionProperties -------------------------
(* What the control plane of ExecutionControl is checked and proved for.   *)
EXTENDS ExecutionControl

\* Every variable keeps its type.
TypeOK ==
  /\ row \in [Requests -> Row]
  /\ audit \in [Requests -> SUBSET (Status \cup {"approved_for_execution", "execution_started"})]
  /\ jobs \in Seq(Job)
  /\ web \in [Web -> Transaction]
  /\ wk \in [Workers -> WorkerState]
  /\ faults \in 0 .. MaxFaults

Approved(r) ==
  /\ row[r].approved_by \in Actors
  /\ row[r].approved_by # row[r].requested_by

\* Four-eyes control: whatever runs in the cloud was started by a worker from
\* a request that somebody other than its creator approved
\* (approve_execution, claim_next_execution).
FourEyes ==
  \A j \in DOMAIN jobs : LET r == jobs[j].owner IN
    "execution_started" \in audit[r] /\ Approved(r)

\* Two workers never execute the same request: SKIP LOCKED claims, and
\* approvals that cannot put a claimed row back in the queue.
OneOwner ==
  \A v, w \in Workers : v # w /\ wk[v].req # 0 => wk[v].req # wk[w].req

\* A client that retries with its idempotency key, the approvals and the
\* workers together ask the cloud for at most one job per key.
OneJobPerKey ==
  \A i, j \in DOMAIN jobs :
    i # j => row[jobs[i].owner].idempotency_key # row[jobs[j].owner].idempotency_key

\* The recorded job is the one the request was submitted as, and it succeeded.
OwnJobSucceeded(r) ==
  LET j == row[r].cloud_job_id IN
    j \in DOMAIN jobs /\ jobs[j].owner = r /\ jobs[j].status = "succeeded"

\* A request shown as succeeded has a recorded cloud job that succeeded; for
\* DataArts, which is polled by job name, some job of that name did.
SucceededIsEarned ==
  \A r \in Requests : row[r].status = "succeeded" =>
    IF row[r].target = "dataarts"
    THEN \E j \in DOMAIN jobs : jobs[j].target = "dataarts" /\ jobs[j].status = "succeeded"
    ELSE OwnJobSucceeded(r)

\* SKILL.md: no success without a successful terminal state of the execution:
\* a request shown as succeeded ran a job of its own that succeeded.
SucceededIsOwn ==
  \A r \in Requests : row[r].status = "succeeded" => OwnJobSucceeded(r)

Unowned(r) == \A w \in Workers : wk[w].req # r

Stranded == {r \in Requests : row[r].status = "running" /\ Unowned(r)}

\* There is no lease and no recovery, so a worker that dies leaves its row at
\* "running" for good; nothing else does: at most one row per fault.
StrandedOnlyByFaults == Cardinality(Stranded) <= faults

\* A cloud job that neither its request's row nor a worker's memory names.
Untracked == {j \in DOMAIN jobs : /\ row[jobs[j].owner].cloud_job_id # j
                                  /\ \A w \in Workers : wk[w].job # j}

\* The exception path passes no job id, so a fault between the submission and
\* the first update loses the job; no other path does: at most one per fault.
UntrackedOnlyByFaults == Cardinality(Untracked) <= faults

Unstarted(r) == "execution_started" \notin audit[r]

\* A request cancelled before any worker claimed it stays cancelled and
\* unstarted, even if a worker selected it while the cancel was under way.
WithdrawnIsFinal ==
  [][\A r \in Requests : row[r].status = "cancelled" /\ Unstarted(r) =>
       (row[r].status = "cancelled" /\ Unstarted(r))']_vars

\* Nobody takes up a request again that a worker started and let go of, not even
\* when the worker died before it submitted anything: whatever is approved or
\* cancelled meanwhile, a started row never returns to the queue
\* (approve_execution, claim_next_execution).
ExecutedOnce ==
  [][\A r \in Requests : ~Unstarted(r) /\ Unowned(r) => Unowned(r)']_vars

\* A row that has ended, and that no worker holds, is left as it is by all but
\* a cancellation that had read it before it ended, and that one writes its
\* status alone (cancel_execution, update_execution).
EndedIsLeftAlone ==
  [][\A r \in Requests : row[r].status \in Terminal /\ Unowned(r) =>
       \/ row'[r] = row[r]
       \/ /\ \E a \in Web : web[a].op = "cancel" /\ web[a].req = r /\ web[a].snap \in Active
          /\ \E status \in Status : row'[r] = [row[r] EXCEPT !.status = status]]_vars

\* production_control.py declares succeeded, failed and cancelled terminal and
\* cancel_execution returns such a row as it is: a terminal status is final.
TerminalIsFinal ==
  [][\A r \in Requests : row[r].status \in Terminal => row'[r].status = row[r].status]_vars

\* production-deployment.md:93: "MRS cancellation is forwarded to the provider
\* when the job is already running": a cancellation recorded on a running row
\* of a recorded job stays there for the worker to see until the execution ends.
CancelIsKept ==
  [][\A r \in Requests :
       row[r].status = "cancel_requested" /\ row[r].cloud_job_id # 0 =>
         row'[r].status \in Terminal \cup {"cancel_requested"}]_vars
-----------------------------------------------------------------------------
Mapped(r) ==
  IF row[r].status = "absent" THEN "none"
  ELSE IF "execution_started" \in audit[r] THEN "started"
  ELSE IF "cancelled" \in audit[r] THEN "withdrawn"
  ELSE IF "approved_for_execution" \in audit[r] THEN "approved"
  ELSE "requested"

Ledger == INSTANCE AuthorizedOnce WITH
  stage     <- [r \in Requests |-> Mapped(r)],
  requester <- [r \in Requests |-> row[r].requested_by],
  approver  <- [r \in Requests |-> row[r].approved_by],
  launches  <- [r \in Requests |-> Cardinality({j \in DOMAIN jobs : jobs[j].owner = r})]

\* The rows, transactions and workers implement AuthorizedOnce.
Implements == Ledger!Spec
-----------------------------------------------------------------------------
\* An approved request reaches a terminal status, however long its cloud job
\* runs, unless the worker that claimed it dies: run_once polls with a timeout.
QueuedIsServed ==
  \A r \in Requests : row[r].status = "queued" ~>
    \/ row[r].status \in Terminal
    \/ row[r].status \in {"running", "cancel_requested"} /\ Unowned(r)

\* No job holds a worker for ever: a worker comes back to its main loop.
WorkerComesBack == \A w \in Workers : []<>(wk[w].pc \in {"idle", "dead"})
=============================================================================
