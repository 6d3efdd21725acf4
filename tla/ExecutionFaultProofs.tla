------------------------ MODULE ExecutionFaultProofs ------------------------
(* What is left of an execution when a worker, the database or an answer   *)
(* fails: theorems about ExecutionControl for one web process and any      *)
(* number of requests, keys, actors, workers and faults.                   *)
EXTENDS ExecutionProofs, FiniteSetTheorems

USE ConstantsAssumption DEF ConstantsAssumption, Requests

(* What a step may do to a worker's job, to a row's job and to the jobs.   *)

LEMMA JobsStay ==
  TypeOK /\ [Next]_vars =>
    \A j \in DOMAIN jobs : j \in DOMAIN jobs' /\ jobs'[j].owner = jobs[j].owner
  BY JobStep

LEMMA JobNumbers == TypeOK => DOMAIN jobs = 1 .. Len(jobs) /\ Len(jobs) \in Nat
  BY LenProperties DEF TypeOK

LEMMA Others ==
  ASSUME TypeOK, NEW v \in Workers, WorkerStep(v) \/ FaultStep(v)
  PROVE  \A w \in Workers \ {v} : wk'[w] = wk[w]
  BY DEF WorkerStep, FaultStep, ClaimLock, ClaimCommit, SubmitAccepted, SubmitRefused,
         SubmitUnanswered, CheckCancel, CheckTimeout, CheckPoll, CancelAccepted, CancelRaises,
         Poll, PollRaises, UpdateRead, UpdateCommit, Crash, Restart, DatabaseRaises,
         RefreshRaises, Update, Handler, TypeOK

LEMMA StepOfWorker ==
  TypeOK /\ [Next]_vars =>
    \A w \in Workers : wk'[w] = wk[w] \/ WorkerStep(w) \/ FaultStep(w)
<1> SUFFICES ASSUME TypeOK, [Next]_vars, NEW w \in Workers
             PROVE  wk'[w] = wk[w] \/ WorkerStep(w) \/ FaultStep(w)
  OBVIOUS
<1>1. CASE \E v \in Workers : WorkerStep(v) \/ FaultStep(v)
  BY <1>1, Others
<1> QED
  BY <1>1
     DEF Next, vars, WebStep, CreateRequest, ApproveRead, ApproveCommit, CancelRead, CancelCommit,
         JobEnds

\* Only the update of a worker that holds the request writes cloud_job_id.
LEMMA JobIdStep ==
  TypeOK /\ Existing /\ [Next]_vars =>
    \A r \in Requests :
      \/ row'[r].cloud_job_id = row[r].cloud_job_id
      \/ row[r].status = "absent" /\ row'[r].cloud_job_id = 0
      \/ \E w \in Workers : /\ wk[w].pc = "write" /\ wk[w].req = r /\ wk[w].job # 0
                            /\ row'[r].cloud_job_id = wk[w].job
<1> SUFFICES ASSUME TypeOK, Existing, [Next]_vars, NEW r \in Requests,
                    row'[r].cloud_job_id # row[r].cloud_job_id
             PROVE  \/ row[r].status = "absent" /\ row'[r].cloud_job_id = 0
                    \/ \E w \in Workers : /\ wk[w].pc = "write" /\ wk[w].req = r /\ wk[w].job # 0
                                          /\ row'[r].cloud_job_id = wk[w].job
  OBVIOUS
<1>1. \A q \in Requests : row[q] \in Row
  BY DEF TypeOK
<1>2. ASSUME Creation PROVE row[r].status = "absent" /\ row'[r].cloud_job_id = 0
  BY <1>1, <1>2 DEF Creation, CreateRequest, TypeOK, NoRow
<1>3. ASSUME NEW a \in Web, ApproveCommit(a) \/ CancelCommit(a) PROVE FALSE
  <2>1. web[a].req \in Requests
    BY <1>3 DEF ApproveCommit, CancelCommit, Existing
  <2>2. row[r] \in Row /\ row[web[a].req] \in Row
    BY <1>1, <2>1
  <2>3. CASE ApproveCommit(a)
    BY <2>1, <2>2, <2>3 DEF ApproveCommit, TypeOK, Row
  <2>4. CASE CancelCommit(a)
    BY <2>1, <2>2, <2>4 DEF CancelCommit, TypeOK, Row
  <2> QED
    BY <1>3, <2>3, <2>4
<1>4. ASSUME NEW w \in Workers, ClaimCommit(w) PROVE FALSE
  BY <1>1, <1>4 DEF ClaimCommit, TypeOK, Row
<1>5. ASSUME NEW w \in Workers, WriteRow(w)
      PROVE  wk[w].req = r /\ wk[w].job # 0 /\ row'[r].cloud_job_id = wk[w].job
  BY <1>1, <1>5 DEF WriteRow, TypeOK, Row
<1> QED
  BY <1>2, <1>3, <1>4, <1>5
     DEF Creation, Next, vars, WebStep, ApproveRead, CancelRead, WorkerStep, FaultStep, ClaimLock,
         SubmitAccepted, SubmitRefused, SubmitUnanswered, CheckCancel, CheckTimeout, CheckPoll,
         CancelAccepted, CancelRaises, Poll, PollRaises, UpdateRead, UpdateCommit, Crash, Restart,
         DatabaseRaises, RefreshRaises, JobEnds
-----------------------------------------------------------------------------
(* Bookkeeping.  A job that a worker or a row names is the request's own,  *)
(* it is in the row by the time the worker waits for it, and only the      *)
(* exception handler updates a row without naming a job.                   *)
Held ==
  /\ \A w \in Workers : wk[w].job # 0 =>
       wk[w].job \in DOMAIN jobs /\ jobs[wk[w].job].owner = wk[w].req
  /\ \A w \in Workers : wk[w].pc \in {"idle", "claiming", "submit", "dead"} => wk[w].job = 0
  /\ \A w \in Workers : wk[w].pc \in {"check", "cancel", "poll"} =>
       wk[w].job # 0 /\ row[wk[w].req].cloud_job_id = wk[w].job
  /\ \A w \in Workers : wk[w].pc \in {"read", "write"} /\ wk[w].job = 0 => wk[w].next = "failed"
  /\ \A r \in Requests : row[r].cloud_job_id # 0 =>
       row[r].cloud_job_id \in DOMAIN jobs /\ jobs[row[r].cloud_job_id].owner = r

LEMMA InitHeld == Init => Held
  BY DEF Init, Held, NoRow, Idle

\* One step of a worker, by what it does to the job the worker holds.
LEMMA HeldStep ==
  ASSUME TypeOK, Existing, Held, NEW w \in Workers, WorkerStep(w) \/ FaultStep(w)
  PROVE  /\ \/ wk'[w].job = 0
            \/ wk'[w].job = wk[w].job /\ wk'[w].req = wk[w].req
            \/ SubmitAccepted(w) /\ wk'[w].job = Len(jobs) + 1 /\ wk'[w].req = wk[w].req
         /\ wk'[w].pc \in {"idle", "claiming", "submit", "dead"} => wk'[w].job = 0
         /\ wk'[w].pc \in {"check", "cancel", "poll"} =>
              wk'[w].job # 0 /\ row'[wk'[w].req].cloud_job_id = wk'[w].job
         /\ wk'[w].pc \in {"read", "write"} /\ wk'[w].job = 0 => wk'[w].next = "failed"
<1> DEFINE Goal == /\ \/ wk'[w].job = 0
                      \/ wk'[w].job = wk[w].job /\ wk'[w].req = wk[w].req
                      \/ SubmitAccepted(w) /\ wk'[w].job = Len(jobs) + 1 /\ wk'[w].req = wk[w].req
                   /\ wk'[w].pc \in {"idle", "claiming", "submit", "dead"} => wk'[w].job = 0
                   /\ wk'[w].pc \in {"check", "cancel", "poll"} =>
                        wk'[w].job # 0 /\ row'[wk'[w].req].cloud_job_id = wk'[w].job
                   /\ wk'[w].pc \in {"read", "write"} /\ wk'[w].job = 0 => wk'[w].next = "failed"
<1>1. wk[w] \in WorkerState
  BY DEF TypeOK
<1>2. ASSUME NEW status, NEW job, Update(w, status, job)
      PROVE  /\ wk'[w].pc = "read" /\ wk'[w].req = wk[w].req
             /\ wk'[w].next = status /\ wk'[w].job = job
  BY <1>2 DEF Update, Idle, TypeOK
<1>3. CASE ClaimLock(w)
  BY <1>1, <1>3 DEF ClaimLock, Held, TypeOK, WorkerState
<1>4. CASE ClaimCommit(w)
  BY <1>1, <1>4 DEF ClaimCommit, Held, TypeOK, WorkerState
<1>5. CASE SubmitAccepted(w)
  BY <1>2, <1>5, JobNumbers DEF SubmitAccepted
<1>6. CASE SubmitRefused(w) \/ CancelRaises(w) \/ PollRaises(w) \/ SubmitUnanswered(w) \/ DatabaseRaises(w)
           \/ RefreshRaises(w)
  BY <1>2, <1>6
     DEF SubmitRefused, CancelRaises, PollRaises, SubmitUnanswered, DatabaseRaises, RefreshRaises, Handler
<1>7. CASE CheckCancel(w) \/ CheckPoll(w)
  BY <1>1, <1>7 DEF CheckCancel, CheckPoll, Held, TypeOK, WorkerState
<1>8. CASE CheckTimeout(w) \/ CancelAccepted(w) \/ Poll(w)
  <2>1. wk[w].job # 0
    BY <1>8 DEF CheckTimeout, CancelAccepted, Poll, Held
  <2> QED
    BY <1>2, <1>8, <2>1 DEF CheckTimeout, CancelAccepted, Poll
<1>9. CASE UpdateRead(w)
  BY <1>1, <1>9 DEF UpdateRead, Held, TypeOK, WorkerState
<1>10. CASE UpdateCommit(w)
  <2>1. CASE wk[w].next \in Terminal
    BY <1>10, <2>1 DEF UpdateCommit, Idle, TypeOK
  <2>2. CASE wk[w].next \notin Terminal
    <3>1. wk[w].pc = "write" /\ wk[w].job # 0 /\ wk[w].req \in Requests
      BY <1>10, <2>2 DEF UpdateCommit, Held, Terminal, Existing
    <3>2. wk'[w] = [wk[w] EXCEPT !.pc = "check", !.snap = "absent"]
      BY <1>10, <2>2 DEF UpdateCommit, TypeOK
    <3>3. wk'[w].pc = "check" /\ wk'[w].job = wk[w].job /\ wk'[w].req = wk[w].req
      BY <1>1, <3>2 DEF WorkerState
    <3>4. row[wk[w].req] \in Row
      BY <3>1 DEF TypeOK
    <3>5. row'[wk[w].req].cloud_job_id = wk[w].job
      BY <1>10, <3>1, <3>4 DEF UpdateCommit, WriteRow, Row, TypeOK
    <3> QED
      BY <3>1, <3>3, <3>5
  <2> QED
    BY <2>1, <2>2
<1>11. CASE Crash(w) \/ Restart(w)
  BY <1>11 DEF Crash, Restart, Idle, TypeOK
<1> QED
  BY <1>3, <1>4, <1>5, <1>6, <1>7, <1>8, <1>9, <1>10, <1>11 DEF WorkerStep, FaultStep

LEMMA NextHeld == TypeOK /\ Existing /\ Exclusive /\ Held /\ [Next]_vars => Held'
<1> SUFFICES ASSUME TypeOK, Existing, Exclusive, Held, [Next]_vars PROVE Held'
  OBVIOUS
<1>1. ASSUME NEW w \in Workers, wk'[w].job # 0
      PROVE  wk'[w].job \in DOMAIN jobs' /\ jobs'[wk'[w].job].owner = wk'[w].req
  <2>1. CASE wk'[w].job = wk[w].job /\ wk'[w].req = wk[w].req
    BY <1>1, <2>1, JobsStay DEF Held
  <2>2. CASE SubmitAccepted(w) /\ wk'[w].job = Len(jobs) + 1 /\ wk'[w].req = wk[w].req
    <3> DEFINE job == [owner |-> wk[w].req, target |-> Target(w), status |-> Born(Target(w))]
    <3>1. jobs' = Append(jobs, job)
      BY <2>2 DEF SubmitAccepted, NewJob
    <3>2. DOMAIN jobs' = 1 .. Len(jobs) + 1 /\ jobs'[Len(jobs) + 1] = job /\ Len(jobs) \in Nat
      BY <3>1, LenProperties DEF TypeOK
    <3> QED
      BY <2>2, <3>2
  <2> QED
    BY <1>1, <2>1, <2>2, StepOfWorker, HeldStep
<1>2. ASSUME NEW w \in Workers, wk'[w].pc \in {"idle", "claiming", "submit", "dead"}
      PROVE  wk'[w].job = 0
  BY <1>2, StepOfWorker, HeldStep DEF Held
<1>3. ASSUME NEW w \in Workers, wk'[w].pc \in {"check", "cancel", "poll"}
      PROVE  wk'[w].job # 0 /\ row'[wk'[w].req].cloud_job_id = wk'[w].job
  <2>1. CASE wk'[w] = wk[w]
    <3>1. wk[w].job # 0 /\ row[wk[w].req].cloud_job_id = wk[w].job /\ wk[w].req \in Requests
      BY <1>3, <2>1 DEF Held, Existing
    <3>2. ASSUME NEW v \in Workers, wk[v].pc = "write", wk[v].req = wk[w].req PROVE FALSE
      <4>1. wk[w].pc # "write" /\ wk[w].req # 0
        BY <1>3, <2>1, <3>1
      <4>2. v # w
        BY <3>2, <4>1
      <4> QED
        BY <3>2, <4>1, <4>2 DEF Exclusive, OneOwner
    <3>3. row[wk[w].req].status # "absent"
      BY <1>3, <2>1 DEF Existing
    <3> QED
      BY <2>1, <3>1, <3>2, <3>3, JobIdStep
  <2> QED
    BY <1>3, <2>1, StepOfWorker, HeldStep
<1>4. ASSUME NEW w \in Workers, wk'[w].pc \in {"read", "write"}, wk'[w].job = 0
      PROVE  wk'[w].next = "failed"
  BY <1>4, StepOfWorker, HeldStep DEF Held
<1>5. ASSUME NEW r \in Requests, row'[r].cloud_job_id # 0
      PROVE  row'[r].cloud_job_id \in DOMAIN jobs' /\ jobs'[row'[r].cloud_job_id].owner = r
  BY <1>5, JobIdStep, JobsStay DEF Held
<1> QED
  BY <1>1, <1>2, <1>3, <1>4, <1>5 DEF Held

LEMMA HeldAlways ==
  ASSUME \A a, b \in Web : a = b
  PROVE  Spec => [](TypeOK /\ Existing /\ Exclusive /\ Held)
<1>1. TypeOK /\ Existing /\ ApprovalCarried /\ Exclusive /\ Held /\ [Next]_vars => Held'
  BY NextHeld
<1> QED
  BY <1>1, ExclusiveAlways, InitHeld, PTL DEF Spec
-----------------------------------------------------------------------------
(* Success.  A worker about to record a success has seen it, and jobs that *)
(* succeeded stay so; once the row shows it, its worker knows no job and   *)
(* can only leave or record the failure of its own update.                 *)

Success(r, j) ==
  IF row[r].target = "dataarts"
  THEN \E k \in DOMAIN jobs : jobs[k].target = "dataarts" /\ jobs[k].status = "succeeded"
  ELSE j \in DOMAIN jobs /\ jobs[j].status = "succeeded"

Earned ==
  /\ \A w \in Workers : wk[w].next = "succeeded" =>
       wk[w].job # 0 /\ Success(wk[w].req, wk[w].job)
  /\ \A w \in Workers : wk[w].req # 0 /\ row[wk[w].req].status = "succeeded" =>
       wk[w].pc \in {"read", "write"} /\ wk[w].job = 0
  /\ \A r \in Requests : row[r].status = "succeeded" => Success(r, row[r].cloud_job_id)

LEMMA InitEarned == Init => Earned
  BY DEF Init, Earned, NoRow, Idle

\* Only a claim or a worker's update turns a status into one of these two.
LEMMA Gains ==
  TypeOK /\ Existing /\ [Next]_vars =>
    \A r \in Requests : row'[r].status \in {"running", "succeeded"} =>
      \/ row'[r].status = row[r].status
      \/ \E w \in Workers : /\ wk[w].req = r
                            /\ ClaimCommit(w) /\ row'[r].status = "running"
      \/ \E w \in Workers : /\ wk[w].req = r
                            /\ UpdateCommit(w) \/ RefreshRaises(w)
                            /\ row'[r].status = wk[w].next
<1> SUFFICES ASSUME TypeOK, Existing, [Next]_vars, NEW r \in Requests,
                    row'[r].status \in {"running", "succeeded"}, row'[r].status # row[r].status
             PROVE  \/ \E w \in Workers : /\ wk[w].req = r
                                          /\ ClaimCommit(w) /\ row'[r].status = "running"
                    \/ \E w \in Workers : /\ wk[w].req = r
                                          /\ UpdateCommit(w) \/ RefreshRaises(w)
                                          /\ row'[r].status = wk[w].next
  OBVIOUS
<1>1. \A q \in Requests : row[q] \in Row
  BY DEF TypeOK
<1>2. ASSUME Creation PROVE FALSE
  BY <1>1, <1>2 DEF Creation, CreateRequest, TypeOK, NoRow
<1>3. ASSUME NEW a \in Web, ApproveCommit(a) PROVE FALSE
  <2>1. web[a].req \in Requests
    BY <1>3 DEF ApproveCommit, Existing
  <2> QED
    BY <1>1, <1>3, <2>1 DEF ApproveCommit, TypeOK, Row
<1>4. ASSUME NEW a \in Web, CancelCommit(a) PROVE FALSE
  <2>1. web[a].req \in Requests
    BY <1>4 DEF CancelCommit, Existing
  <2> QED
    BY <1>1, <1>4, <2>1 DEF CancelCommit, TypeOK, Row
<1>5. ASSUME NEW w \in Workers, ClaimCommit(w) PROVE wk[w].req = r /\ row'[r].status = "running"
  BY <1>1, <1>5 DEF ClaimCommit, TypeOK, Row
<1>6. ASSUME NEW w \in Workers, WriteRow(w) PROVE wk[w].req = r /\ row'[r].status = wk[w].next
  BY <1>1, <1>6 DEF WriteRow, TypeOK, Row
<1> QED
  BY <1>2, <1>3, <1>4, <1>5, <1>6
     DEF Creation, Next, vars, WebStep, ApproveRead, CancelRead, WorkerStep, FaultStep, ClaimLock,
         SubmitAccepted, SubmitRefused, SubmitUnanswered, CheckCancel, CheckTimeout, CheckPoll,
         CancelAccepted, CancelRaises, Poll, PollRaises, UpdateRead, UpdateCommit, Crash, Restart,
         DatabaseRaises, RefreshRaises, JobEnds

LEMMA SucceededJobsStay ==
  TypeOK /\ [Next]_vars =>
    \A j \in DOMAIN jobs : jobs[j].status = "succeeded" => j \in DOMAIN jobs' /\ jobs'[j] = jobs[j]
<1> SUFFICES ASSUME TypeOK, [Next]_vars, NEW j \in DOMAIN jobs, jobs[j].status = "succeeded"
             PROVE  j \in DOMAIN jobs' /\ jobs'[j] = jobs[j]
  OBVIOUS
<1>1. ASSUME NEW k \in DOMAIN jobs PROVE jobs[k] \in Job
  BY <1>1, ElementOfSeq DEF TypeOK
<1>2. ASSUME NEW w \in Workers, jobs' = NewJob(w) PROVE j \in DOMAIN jobs' /\ jobs'[j] = jobs[j]
  <2> DEFINE job == [owner |-> wk[w].req, target |-> Target(w), status |-> Born(Target(w))]
  <2>1. jobs' = Append(jobs, job)
    BY <1>2 DEF NewJob
  <2>2. /\ DOMAIN jobs = 1 .. Len(jobs) /\ Len(jobs) \in Nat
        /\ DOMAIN jobs' = 1 .. Len(jobs) + 1
        /\ \A k \in 1 .. Len(jobs) : jobs'[k] = jobs[k]
    BY <2>1, LenProperties DEF TypeOK
  <2> QED
    BY <2>2
<1>3. ASSUME NEW w \in Workers, CancelAccepted(w) PROVE j \in DOMAIN jobs' /\ jobs'[j] = jobs[j]
  BY <1>1, <1>3 DEF CancelAccepted, Job
<1>4. ASSUME NEW k \in DOMAIN jobs, NEW status \in {"succeeded", "failed"}, JobEnds(k, status)
      PROVE  j \in DOMAIN jobs' /\ jobs'[j] = jobs[j]
  BY <1>1, <1>4 DEF JobEnds, Job
<1>5. CASE UNCHANGED jobs
  BY <1>5
<1> QED
  BY <1>2, <1>3, <1>4, <1>5
     DEF Next, vars, WebStep, CreateRequest, ApproveRead, ApproveCommit, CancelRead, CancelCommit,
         WorkerStep, FaultStep, ClaimLock, ClaimCommit, SubmitAccepted, SubmitUnanswered,
         SubmitRefused, CheckCancel, CheckTimeout, CheckPoll, CancelRaises, Poll, PollRaises,
         UpdateRead, UpdateCommit, Crash, Restart, DatabaseRaises, RefreshRaises

LEMMA SuccessStays ==
  ASSUME TypeOK, Existing, [Next]_vars, NEW r \in Requests, row[r].status # "absent", NEW j,
         Success(r, j)
  PROVE  Success(r, j)'
<1>1. row'[r].target = row[r].target
  BY RowsAreKept DEF Kept
<1> QED
  BY <1>1, SucceededJobsStay DEF Success

\* The one step by which a worker comes to ask for the status "succeeded".
LEMMA SuccessSeen ==
  ASSUME TypeOK, Existing, Held, Earned, NEW w \in Workers, WorkerStep(w) \/ FaultStep(w),
         wk'[w].next = "succeeded"
  PROVE  \/ /\ wk[w].next = "succeeded" /\ wk'[w].req = wk[w].req /\ wk'[w].job = wk[w].job
         \/ /\ wk'[w].req = wk[w].req /\ wk'[w].job = wk[w].job /\ wk[w].job # 0
            /\ Success(wk[w].req, wk[w].job)
<1> DEFINE Goal == \/ /\ wk[w].next = "succeeded" /\ wk'[w].req = wk[w].req /\ wk'[w].job = wk[w].job
                   \/ /\ wk'[w].req = wk[w].req /\ wk'[w].job = wk[w].job /\ wk[w].job # 0
                      /\ Success(wk[w].req, wk[w].job)
<1>1. wk[w] \in WorkerState
  BY DEF TypeOK
<1>2. ASSUME NEW status, NEW job, Update(w, status, job)
      PROVE  wk'[w].req = wk[w].req /\ wk'[w].next = status /\ wk'[w].job = job
  BY <1>2 DEF Update, Idle, TypeOK
<1>3. CASE ClaimLock(w)
  <2>1. wk[w].pc = "idle" /\ wk[w].next = "succeeded"
    BY <1>1, <1>3 DEF ClaimLock, TypeOK, WorkerState
  <2> QED
    BY <2>1 DEF Held, Earned
<1>4. CASE ClaimCommit(w) \/ CheckCancel(w) \/ CheckPoll(w) \/ UpdateRead(w)
  BY <1>1, <1>4 DEF ClaimCommit, CheckCancel, CheckPoll, UpdateRead, TypeOK, WorkerState
<1>5. CASE SubmitAccepted(w) \/ SubmitRefused(w) \/ SubmitUnanswered(w) \/ CheckTimeout(w)
           \/ CancelAccepted(w) \/ CancelRaises(w) \/ PollRaises(w) \/ DatabaseRaises(w)
           \/ RefreshRaises(w)
  BY <1>2, <1>5
     DEF SubmitAccepted, SubmitRefused, SubmitUnanswered, CheckTimeout, CancelAccepted, CancelRaises,
         PollRaises, DatabaseRaises, RefreshRaises, Handler
<1>6. CASE Poll(w)
  <2>1. PICK seen \in Polled(w) :
          Update(w, IF seen \in {"succeeded", "failed"} THEN seen ELSE "running", wk[w].job)
    BY <1>6 DEF Poll
  <2>2. seen = "succeeded" /\ wk'[w].req = wk[w].req /\ wk'[w].job = wk[w].job
    BY <1>2, <2>1
  <2>3. wk[w].job \in DOMAIN jobs /\ wk[w].job # 0
    BY <1>6 DEF Poll, Held
  <2>4. Success(wk[w].req, wk[w].job)
    <3>1. CASE Target(w) = "dataarts"
      <4>1. PICK i \in LaterInstances(wk[w].job) : jobs[i].status = "succeeded"
        BY <2>2, <3>1 DEF Polled
      <4>2. i \in DOMAIN jobs /\ jobs[i].target = "dataarts"
        BY <2>3, <4>1, JobNumbers DEF LaterInstances
      <4> QED
        BY <3>1, <4>1, <4>2 DEF Success, Target
    <3>2. CASE Target(w) # "dataarts"
      BY <2>2, <2>3, <3>2 DEF Polled, Success, Target
    <3> QED
      BY <3>1, <3>2
  <2> QED
    BY <2>2, <2>3, <2>4
<1>7. CASE UpdateCommit(w)
  <2>1. CASE wk[w].next \in Terminal
    BY <1>7, <2>1 DEF UpdateCommit, Idle, TypeOK
  <2>2. CASE wk[w].next \notin Terminal
    <3>1. wk'[w] = [wk[w] EXCEPT !.pc = "check", !.snap = "absent"]
      BY <1>7, <2>2 DEF UpdateCommit, TypeOK
    <3> QED
      BY <1>1, <3>1 DEF WorkerState
  <2> QED
    BY <2>1, <2>2
<1>8. CASE Crash(w) \/ Restart(w)
  BY <1>8 DEF Crash, Restart, Idle, TypeOK
<1> QED
  BY <1>3, <1>4, <1>5, <1>6, <1>7, <1>8 DEF WorkerStep, FaultStep

LEMMA NextEarned ==
  TypeOK /\ Existing /\ Exclusive /\ Held /\ Earned /\ [Next]_vars => Earned'
<1> SUFFICES ASSUME TypeOK, Existing, Exclusive, Held, Earned, [Next]_vars PROVE Earned'
  OBVIOUS
<1>1. ASSUME NEW w \in Workers, wk[w].job # 0
      PROVE  wk[w].req \in Requests /\ row[wk[w].req].status # "absent"
  BY <1>1 DEF Held, Existing
\* The worker whose update wrote "succeeded".
<1>2. ASSUME NEW r \in Requests, NEW v \in Workers, wk[v].req = r,
             UpdateCommit(v) \/ RefreshRaises(v), row'[r].status = "succeeded",
             row'[r].status = wk[v].next
      PROVE  /\ wk'[v].req = 0 \/ (wk'[v].pc = "read" /\ wk'[v].job = 0)
             /\ Success(r, wk[v].job) /\ row'[r].cloud_job_id = wk[v].job
  <2>1. wk[v].job # 0 /\ Success(r, wk[v].job)
    BY <1>2 DEF Earned
  <2>2. row[r] \in Row
    BY DEF TypeOK
  <2>3. row'[r].cloud_job_id = wk[v].job
    BY <1>2, <2>1, <2>2 DEF UpdateCommit, RefreshRaises, WriteRow, Row, TypeOK
  <2>4. CASE UpdateCommit(v)
    BY <1>2, <2>1, <2>3, <2>4 DEF UpdateCommit, Idle, Terminal, TypeOK
  <2>5. CASE RefreshRaises(v)
    BY <2>1, <2>3, <2>5 DEF RefreshRaises, Handler, Update, Idle, TypeOK
  <2> QED
    BY <1>2, <2>4, <2>5
<1>3. ASSUME NEW w \in Workers, wk'[w].next = "succeeded"
      PROVE  wk'[w].job # 0 /\ Success(wk[w].req, wk[w].job)'
  <2>1. /\ wk'[w].req = wk[w].req /\ wk'[w].job = wk[w].job /\ wk[w].job # 0
        /\ Success(wk[w].req, wk[w].job)
    BY <1>3, StepOfWorker, SuccessSeen DEF Earned
  <2>2. Success(wk[w].req, wk[w].job)'
    BY <1>1, <2>1, SuccessStays
  <2> QED
    BY <2>1, <2>2
<1>4. ASSUME NEW w \in Workers, wk'[w].req # 0, row'[wk'[w].req].status = "succeeded"
      PROVE  wk'[w].pc \in {"read", "write"} /\ wk'[w].job = 0
  <2> DEFINE r == wk'[w].req
  <2>1. ASSUME NEW v \in Workers, wk[v].req = r, v # w, wk'[w] = wk[w] PROVE FALSE
    BY <1>4, <2>1 DEF Exclusive, OneOwner
  <2>2. r \in Requests
    BY <1>4, NextType DEF TypeOK, WorkerState
  <2>3. CASE row[r].status = "succeeded"
    <3>1. ASSUME wk[w].req = r PROVE wk[w].pc \in {"read", "write"} /\ wk[w].job = 0
      BY <1>4, <2>3, <3>1 DEF Earned
    <3>2. CASE wk'[w] = wk[w]
      BY <3>1, <3>2
    <3>3. CASE ClaimLock(w)
      <4>1. row[r].status = "queued"
        BY <3>3 DEF ClaimLock, Claimable, TypeOK
      <4> QED
        BY <2>3, <4>1
    <3>4. CASE UpdateCommit(w)
      <4>1. wk[w].req = r /\ wk[w].next \notin Terminal /\ wk[w].pc = "write"
        BY <1>4, <3>4 DEF UpdateCommit, Idle, TypeOK
      <4> QED
        BY <3>1, <4>1 DEF Held, Terminal
    <3>5. CASE UpdateRead(w)
      BY <3>1, <3>5 DEF UpdateRead, TypeOK, WorkerState
    <3>6. CASE ClaimCommit(w)
      BY <3>1, <3>6 DEF ClaimCommit, TypeOK, WorkerState
    <3>7. CASE Crash(w) \/ Restart(w)
      BY <1>4, <3>7 DEF Crash, Restart, Idle, TypeOK
    <3>8. CASE \/ SubmitAccepted(w) \/ SubmitRefused(w) \/ SubmitUnanswered(w) \/ CheckCancel(w)
               \/ CheckTimeout(w) \/ CheckPoll(w) \/ CancelAccepted(w) \/ CancelRaises(w)
               \/ Poll(w) \/ PollRaises(w) \/ DatabaseRaises(w) \/ RefreshRaises(w)
      <4>1. wk[w].pc \notin {"read", "write"} \/ wk[w].job # 0
        BY <3>8
           DEF SubmitAccepted, SubmitRefused, SubmitUnanswered, CheckCancel, CheckTimeout, CheckPoll,
               CancelAccepted, CancelRaises, Poll, PollRaises, DatabaseRaises, RefreshRaises
      <4>2. wk[w] \in WorkerState
        BY DEF TypeOK
      <4>3. CASE CheckCancel(w) \/ CheckPoll(w)
        BY <3>1, <4>1, <4>2, <4>3 DEF CheckCancel, CheckPoll, TypeOK, WorkerState
      <4>4. ASSUME NEW status, NEW job, Update(w, status, job) PROVE wk[w].req = r
        BY <4>4 DEF Update, Idle, TypeOK
      <4>5. CASE ~CheckCancel(w) /\ ~CheckPoll(w)
        BY <3>1, <3>8, <4>1, <4>4, <4>5
           DEF SubmitAccepted, SubmitRefused, SubmitUnanswered, CheckTimeout, CancelAccepted,
               CancelRaises, Poll, PollRaises, DatabaseRaises, RefreshRaises, Handler
      <4> QED
        BY <4>3, <4>5
    <3> QED
      BY <3>2, <3>3, <3>4, <3>5, <3>6, <3>7, <3>8, StepOfWorker DEF WorkerStep, FaultStep
  <2>4. CASE row[r].status # "succeeded"
    <3>1. PICK v \in Workers : /\ wk[v].req = r
                               /\ UpdateCommit(v) \/ RefreshRaises(v)
                               /\ row'[r].status = wk[v].next
      BY <1>4, <2>2, <2>4, Gains
    <3>2. v = w
      BY <2>1, <3>1, Others DEF WorkerStep, FaultStep
    <3> QED
      BY <1>2, <1>4, <2>2, <3>1, <3>2
  <2> QED
    BY <2>3, <2>4
<1>5. ASSUME NEW r \in Requests, row'[r].status = "succeeded"
      PROVE  Success(r, row[r].cloud_job_id)'
  <2>1. CASE row[r].status = "succeeded"
    <3>1. ASSUME NEW v \in Workers, wk[v].pc = "write", wk[v].req = r, wk[v].job # 0 PROVE FALSE
      BY <2>1, <3>1 DEF Earned
    <3>2. row'[r].cloud_job_id = row[r].cloud_job_id
      BY <2>1, <3>1, JobIdStep
    <3>3. Success(r, row[r].cloud_job_id)
      BY <2>1 DEF Earned
    <3> HIDE DEF Success
    <3> QED
      BY <2>1, <3>2, <3>3, SuccessStays
  <2>2. CASE row[r].status # "succeeded"
    <3>1. PICK v \in Workers : /\ wk[v].req = r
                               /\ UpdateCommit(v) \/ RefreshRaises(v)
                               /\ row'[r].status = wk[v].next
      BY <1>5, <2>2, Gains
    <3>2. Success(r, wk[v].job) /\ row'[r].cloud_job_id = wk[v].job
      BY <1>2, <1>5, <3>1
    <3>3. wk[v].job # 0
      BY <1>5, <3>1 DEF Earned
    <3> QED
      BY <1>1, <3>1, <3>2, <3>3, SuccessStays
  <2> QED
    BY <2>1, <2>2
<1> QED
  BY <1>3, <1>4, <1>5 DEF Earned

\* One web process, any number of workers and of faults: a request is shown
\* as succeeded only on the strength of a cloud job that succeeded.
THEOREM SuccessIsEarned ==
  ASSUME \A a, b \in Web : a = b
  PROVE  Spec => []SucceededIsEarned
<1>1. TypeOK /\ Held /\ Earned => SucceededIsEarned
  <2> SUFFICES ASSUME TypeOK, Held, Earned, NEW r \in Requests, row[r].status = "succeeded"
               PROVE  IF row[r].target = "dataarts"
                      THEN \E j \in DOMAIN jobs :
                             jobs[j].target = "dataarts" /\ jobs[j].status = "succeeded"
                      ELSE OwnJobSucceeded(r)
    BY DEF SucceededIsEarned
  <2>1. Success(r, row[r].cloud_job_id)
    BY DEF Earned
  <2>2. CASE row[r].target = "dataarts"
    BY <2>1, <2>2 DEF Success
  <2>3. CASE row[r].target # "dataarts"
    <3>1. row[r].cloud_job_id \in DOMAIN jobs /\ jobs[row[r].cloud_job_id].status = "succeeded"
      BY <2>1, <2>3 DEF Success
    <3>2. row[r].cloud_job_id # 0
      BY <3>1, JobNumbers
    <3> QED
      BY <2>3, <3>1, <3>2 DEF Held, OwnJobSucceeded
  <2> QED
    BY <2>2, <2>3
<1>2. TypeOK /\ Existing /\ Exclusive /\ Held /\ Earned /\ [Next]_vars => Earned'
  BY NextEarned
<1> QED
  BY <1>1, <1>2, HeldAlways, InitEarned, PTL DEF Spec

\* Without DataArts, whose instances are polled by job name, a request shown as
\* succeeded ran a job of its own that succeeded: the attribution by name is all
\* that SucceededIsOwn fails for (poll_mrs, poll_dataarts).
THEOREM SuccessIsOwnBesideDataArts ==
  ASSUME \A a, b \in Web : a = b, "dataarts" \notin Targets
  PROVE  Spec => []SucceededIsOwn
<1>1. TypeOK /\ Existing /\ SucceededIsEarned => SucceededIsOwn
  <2> SUFFICES ASSUME TypeOK, Existing, SucceededIsEarned, NEW r \in Requests,
                      row[r].status = "succeeded"
               PROVE  OwnJobSucceeded(r)
    BY DEF SucceededIsOwn
  <2>1. row[r].target # "dataarts"
    BY DEF Existing
  <2> QED
    BY <2>1 DEF SucceededIsEarned
<1> QED
  BY <1>1, SuccessIsEarned, ExistingAlways, PTL
-----------------------------------------------------------------------------
(* What a fault can cost.  A set that grows by one element at most, and    *)
(* only in a step that counts a fault, never outnumbers the faults.        *)

GrowsByFaults(S, T) ==
  T \subseteq S \/ (faults' = faults + 1 /\ \E x : T \subseteq S \cup {x})

LEMMA StrandedIsFinite == IsFiniteSet(Stranded)
<1>1. IsFiniteSet(1 .. MaxRequests)
  BY FS_Interval
<1> QED
  BY <1>1, FS_Subset DEF Stranded

LEMMA UntrackedIsFinite == TypeOK => IsFiniteSet(Untracked)
<1> SUFFICES ASSUME TypeOK PROVE IsFiniteSet(Untracked)
  OBVIOUS
<1>1. IsFiniteSet(1 .. Len(jobs)) /\ Untracked \subseteq 1 .. Len(jobs)
  BY JobNumbers, FS_Interval DEF Untracked
<1> QED
  BY <1>1, FS_Subset

LEMMA FaultsBound ==
  ASSUME TypeOK, TypeOK', NEW S, NEW T, IsFiniteSet(S), Cardinality(S) <= faults,
         faults' \in {faults, faults + 1}, GrowsByFaults(S, T)
  PROVE  Cardinality(T) <= faults'
<1>1. faults \in Nat /\ faults' \in Nat /\ Cardinality(S) \in Nat
  BY FS_CardinalityType DEF TypeOK
<1>2. CASE T \subseteq S
  <2>1. IsFiniteSet(T) /\ Cardinality(T) <= Cardinality(S)
    BY <1>2, FS_Subset
  <2>2. Cardinality(T) \in Nat
    BY <2>1, FS_CardinalityType
  <2> QED
    BY <1>1, <2>1, <2>2
<1>3. ASSUME NEW x, T \subseteq S \cup {x}, faults' = faults + 1 PROVE Cardinality(T) <= faults'
  <2>1. IsFiniteSet(S \cup {x}) /\ Cardinality(S \cup {x}) \in {Cardinality(S), Cardinality(S) + 1}
    BY FS_AddElement
  <2>2. IsFiniteSet(T) /\ Cardinality(T) <= Cardinality(S \cup {x})
    BY <1>3, <2>1, FS_Subset
  <2>3. Cardinality(T) \in Nat
    BY <2>2, FS_CardinalityType
  <2> QED
    BY <1>1, <1>3, <2>1, <2>2, <2>3
<1> QED
  BY <1>2, <1>3 DEF GrowsByFaults

LEMMA FaultsStep == TypeOK /\ [Next]_vars => faults' \in {faults, faults + 1}
  BY DEF Next, vars, WebStep, CreateRequest, ApproveRead, ApproveCommit, CancelRead, CancelCommit,
         WorkerStep, FaultStep, ClaimLock, ClaimCommit, SubmitAccepted, SubmitRefused,
         SubmitUnanswered, CheckCancel, CheckTimeout, CheckPoll, CancelAccepted, CancelRaises, Poll,
         PollRaises, UpdateRead, UpdateCommit, Crash, Restart, DatabaseRaises, RefreshRaises, Fault,
         JobEnds
-----------------------------------------------------------------------------
(* Stranded rows.  What a worker's update loaded is still true as far as   *)
(* "running" goes, because nobody else writes that: so a final update      *)
(* takes the row out of "running".                                         *)
Loaded ==
  \A w \in Workers : wk[w].pc = "write" /\ row[wk[w].req].status = "running" =>
    wk[w].snap = "running"

LEMMA InitLoaded == Init => Loaded
  BY DEF Init, Loaded, Idle

LEMMA NextLoaded == TypeOK /\ Existing /\ Exclusive /\ Loaded /\ [Next]_vars => Loaded'
<1> SUFFICES ASSUME TypeOK, Existing, Exclusive, Loaded, [Next]_vars, NEW w \in Workers,
                    wk'[w].pc = "write", row'[wk'[w].req].status = "running"
             PROVE  wk'[w].snap = "running"
  BY DEF Loaded
<1>1. wk[w] \in WorkerState
  BY DEF TypeOK
<1>2. CASE wk'[w] = wk[w]
  <2> DEFINE r == wk[w].req
  <2>1. r \in Requests
    BY <1>2 DEF Existing
  <2>2. r # 0
    BY <2>1
  <2>3. ASSUME NEW v \in Workers, wk[v].req = r, ClaimCommit(v) \/ UpdateCommit(v) \/ RefreshRaises(v)
        PROVE  FALSE
    <3>1. v = w
      BY <2>2, <2>3 DEF Exclusive, OneOwner
    <3>2. CASE ClaimCommit(w)
      BY <1>1, <1>2, <3>2 DEF ClaimCommit, TypeOK, WorkerState
    <3>3. CASE RefreshRaises(w)
      <4>1. wk[w].pc = "write" /\ wk'[w].pc = "read"
        BY <3>3 DEF RefreshRaises, Handler, Update, Idle, TypeOK
      <4> QED
        BY <1>2, <4>1
    <3>4. CASE UpdateCommit(w)
      BY <1>1, <1>2, <3>4 DEF UpdateCommit, Idle, TypeOK, WorkerState
    <3> QED
      BY <2>3, <3>1, <3>2, <3>3, <3>4
  <2>4. row[r].status = "running"
    BY <1>2, <2>1, <2>3, Gains
  <2> QED
    BY <1>2, <2>4 DEF Loaded
<1>3. CASE UpdateRead(w)
  BY <1>1, <1>3 DEF UpdateRead, TypeOK, WorkerState
<1>4. CASE ~UpdateRead(w) /\ (WorkerStep(w) \/ FaultStep(w))
  <2>1. ASSUME NEW status, NEW job, Update(w, status, job) PROVE FALSE
    BY <2>1 DEF Update, Idle, TypeOK
  <2>2. CASE ClaimLock(w) \/ ClaimCommit(w) \/ CheckCancel(w) \/ CheckPoll(w) \/ Crash(w) \/ Restart(w)
    BY <1>1, <2>2 DEF ClaimLock, ClaimCommit, CheckCancel, CheckPoll, Crash, Restart, Idle, TypeOK,
                      WorkerState
  <2>3. CASE UpdateCommit(w)
    BY <1>1, <2>3 DEF UpdateCommit, Idle, TypeOK, WorkerState
  <2> QED
    BY <1>4, <2>1, <2>2, <2>3
       DEF WorkerStep, FaultStep, SubmitAccepted, SubmitRefused, SubmitUnanswered, CheckTimeout,
           CancelAccepted, CancelRaises, Poll, PollRaises, DatabaseRaises, RefreshRaises, Handler
<1> QED
  BY <1>2, <1>3, <1>4, StepOfWorker

\* Only a crash leaves a running row without a worker.
LEMMA StrandedByCrash ==
  TypeOK /\ Existing /\ Exclusive /\ Loaded /\ [Next]_vars =>
    \A r \in Stranded' \ Stranded : \E w \in Workers : Crash(w) /\ wk[w].req = r
<1> SUFFICES ASSUME TypeOK, Existing, Exclusive, Loaded, [Next]_vars,
                    NEW r \in Requests, row'[r].status = "running", \A w \in Workers : wk'[w].req # r,
                    ~(row[r].status = "running" /\ \A w \in Workers : wk[w].req # r)
             PROVE  \E w \in Workers : Crash(w) /\ wk[w].req = r
  BY DEF Stranded, Unowned
<1>1. \A w \in Workers : wk[w] \in WorkerState
  BY DEF TypeOK
<1>2. r # 0 /\ row[r] \in Row
  BY DEF TypeOK
<1>3. row[r].status = "running"
  <2>1. ASSUME NEW w \in Workers, ClaimCommit(w), wk[w].req = r PROVE FALSE
    BY <1>1, <2>1 DEF ClaimCommit, TypeOK, WorkerState
  <2>2. ASSUME NEW w \in Workers, UpdateCommit(w), wk[w].req = r, row'[r].status = wk[w].next
        PROVE  FALSE
    BY <1>1, <2>2 DEF UpdateCommit, Terminal, TypeOK, WorkerState
  <2>3. ASSUME NEW w \in Workers, RefreshRaises(w), wk[w].req = r PROVE FALSE
    BY <2>3 DEF RefreshRaises, Handler, Update, Idle, TypeOK
  <2> QED
    BY <2>1, <2>2, <2>3, Gains
<1>4. PICK w \in Workers : wk[w].req = r
  BY <1>3
<1>5. ASSUME UpdateCommit(w) PROVE FALSE
  <2>1. wk[w].next \in Terminal
    BY <1>1, <1>4, <1>5 DEF UpdateCommit, TypeOK, WorkerState
  <2>2. wk[w].snap = "running"
    BY <1>3, <1>4, <1>5 DEF UpdateCommit, Loaded
  <2>3. row'[r].status = wk[w].next
    BY <1>2, <1>4, <1>5, <2>1, <2>2 DEF UpdateCommit, WriteRow, Terminal, Row, TypeOK
  <2> QED
    BY <2>1, <2>3 DEF Terminal
<1>6. ASSUME NEW status, NEW job, Update(w, status, job) PROVE FALSE
  BY <1>4, <1>6 DEF Update, Idle, TypeOK
<1>7. ASSUME ClaimLock(w) \/ Restart(w) PROVE FALSE
  BY <1>2, <1>4, <1>7 DEF ClaimLock, Restart, Exclusive
<1>8. ASSUME ClaimCommit(w) \/ CheckCancel(w) \/ CheckPoll(w) \/ UpdateRead(w) PROVE FALSE
  BY <1>1, <1>4, <1>8 DEF ClaimCommit, CheckCancel, CheckPoll, UpdateRead, TypeOK, WorkerState
<1> QED
  BY <1>4, <1>5, <1>6, <1>7, <1>8, StepOfWorker
     DEF WorkerStep, FaultStep, SubmitAccepted, SubmitRefused, SubmitUnanswered, CheckTimeout,
         CancelAccepted, CancelRaises, Poll, PollRaises, DatabaseRaises, RefreshRaises, Handler

LEMMA NextStranded ==
  TypeOK /\ Existing /\ Exclusive /\ Loaded /\ StrandedOnlyByFaults /\ [Next]_vars =>
    StrandedOnlyByFaults'
<1> SUFFICES ASSUME TypeOK, Existing, Exclusive, Loaded, StrandedOnlyByFaults, [Next]_vars
             PROVE  StrandedOnlyByFaults'
  OBVIOUS
<1>1. IsFiniteSet(Stranded)
  BY StrandedIsFinite
<1>2. GrowsByFaults(Stranded, Stranded')
  <2>1. CASE \E w \in Workers : Crash(w)
    <3>1. PICK w \in Workers : Crash(w)
      BY <2>1
    <3>2. ASSUME NEW v \in Workers, Crash(v) PROVE v = w
      BY <3>1, <3>2 DEF Crash, Idle, TypeOK
    <3>3. Stranded' \subseteq Stranded \cup {wk[w].req}
      BY <3>2, StrandedByCrash
    <3>4. faults' = faults + 1
      BY <3>1 DEF Crash, Fault
    <3> QED
      BY <3>3, <3>4 DEF GrowsByFaults
  <2>2. CASE ~\E w \in Workers : Crash(w)
    BY <2>2, StrandedByCrash DEF GrowsByFaults
  <2> QED
    BY <2>1, <2>2
<1> QED
  BY <1>1, <1>2, FaultsBound, FaultsStep, NextType DEF StrandedOnlyByFaults

LEMMA InitStranded == Init => StrandedOnlyByFaults
<1> SUFFICES ASSUME Init PROVE StrandedOnlyByFaults
  OBVIOUS
<1>1. Stranded = {}
  BY DEF Init, Stranded, NoRow
<1> QED
  BY <1>1, FS_EmptySet DEF Init, StrandedOnlyByFaults

\* One web process: rows left at "running" without a worker never outnumber
\* the crashes and errors there were.
THEOREM StrandingNeedsFaults ==
  ASSUME \A a, b \in Web : a = b
  PROVE  Spec => []StrandedOnlyByFaults
<1>1. TypeOK /\ Existing /\ Exclusive /\ Loaded /\ [Next]_vars => Loaded'
  BY NextLoaded
<1>2. TypeOK /\ Existing /\ Exclusive /\ Loaded /\ StrandedOnlyByFaults /\ [Next]_vars =>
        StrandedOnlyByFaults'
  BY NextStranded
<1> QED
  BY <1>1, <1>2, HeldAlways, InitLoaded, InitStranded, PTL DEF Spec
-----------------------------------------------------------------------------
(* Untracked jobs.  A worker forgets the job it holds when its final       *)
(* update has stored the id, or when an exception passes none: the first   *)
(* update has stored it by then, unless the exception comes before.        *)


\* The recorded id of a request's job is never replaced.
LEMMA RecordedJobStays ==
  TypeOK /\ Existing /\ ApprovalCarried /\ Held /\ SubmittedOnce /\ [Next]_vars =>
    \A j \in DOMAIN jobs :
      row[jobs[j].owner].cloud_job_id = j => row'[jobs[j].owner].cloud_job_id = j
<1> SUFFICES ASSUME TypeOK, Existing, ApprovalCarried, Held, SubmittedOnce, [Next]_vars,
                    NEW j \in DOMAIN jobs, row[jobs[j].owner].cloud_job_id = j
             PROVE  row'[jobs[j].owner].cloud_job_id = j
  OBVIOUS
<1> DEFINE r == jobs[j].owner
<1>1. r \in Requests /\ row[r].status # "absent"
  BY JobType DEF ApprovalCarried
<1>2. ASSUME NEW w \in Workers, wk[w].req = r, wk[w].job # 0 PROVE wk[w].job = j
  BY <1>2 DEF Held, SubmittedOnce
<1> QED
  BY <1>1, <1>2, JobIdStep

\* A worker that lets go of its job has seen it recorded, or fails.
LEMMA LettingGo ==
  ASSUME TypeOK, Existing, ApprovalCarried, Exclusive, Held, SubmittedOnce, [Next]_vars,
         NEW w \in Workers, wk[w].job # 0, wk'[w].job # wk[w].job
  PROVE  \/ row'[wk[w].req].cloud_job_id = wk[w].job
         \/ Crash(w) \/ DatabaseRaises(w) \/ RefreshRaises(w)
<1> DEFINE Goal == \/ row'[wk[w].req].cloud_job_id = wk[w].job
                   \/ Crash(w) \/ DatabaseRaises(w) \/ RefreshRaises(w)
<1>1. wk[w] \in WorkerState /\ wk[w].pc \notin {"idle", "claiming", "submit", "dead"}
  BY DEF TypeOK, Held
<1>2. wk[w].req \in Requests /\ wk[w].job \in DOMAIN jobs /\ jobs[wk[w].job].owner = wk[w].req
  BY <1>1 DEF Held, Existing
<1>3. CASE CancelRaises(w) \/ PollRaises(w)
  <2>1. row[wk[w].req].cloud_job_id = wk[w].job
    BY <1>3 DEF CancelRaises, PollRaises, Held
  <2> QED
    BY <1>2, <2>1, RecordedJobStays
<1>4. CASE UpdateCommit(w)
  <2>1. row[wk[w].req] \in Row
    BY <1>2 DEF TypeOK
  <2> QED
    BY <1>2, <1>4, <2>1 DEF UpdateCommit, WriteRow, Row, TypeOK
<1>5. ASSUME NEW status, Update(w, status, wk[w].job) PROVE FALSE
  BY <1>5 DEF Update, Idle, TypeOK
<1>6. ASSUME CheckCancel(w) \/ CheckPoll(w) \/ UpdateRead(w) PROVE FALSE
  BY <1>1, <1>6 DEF CheckCancel, CheckPoll, UpdateRead, TypeOK, WorkerState
<1>7. ASSUME \/ ClaimLock(w) \/ ClaimCommit(w) \/ SubmitAccepted(w) \/ SubmitRefused(w)
             \/ SubmitUnanswered(w) \/ Restart(w)
      PROVE  FALSE
  BY <1>1, <1>7 DEF ClaimLock, ClaimCommit, SubmitAccepted, SubmitRefused, SubmitUnanswered, Restart
<1> QED
  BY <1>3, <1>4, <1>5, <1>6, <1>7, StepOfWorker
     DEF WorkerStep, FaultStep, CheckTimeout, CancelAccepted, Poll

\* The job a step can leave untracked, and the fault that step counts.
Lost(w) == IF SubmitUnanswered(w) THEN Len(jobs) + 1 ELSE wk[w].job

LEMMA Submission ==
  TypeOK /\ [Next]_vars =>
    DOMAIN jobs' = DOMAIN jobs \/ \E w \in Workers : SubmitAccepted(w) \/ SubmitUnanswered(w)
<1> SUFFICES ASSUME TypeOK, [Next]_vars, \A w \in Workers : ~SubmitAccepted(w) /\ ~SubmitUnanswered(w)
             PROVE  DOMAIN jobs' = DOMAIN jobs
  OBVIOUS
<1>1. ASSUME NEW w \in Workers, CancelAccepted(w) PROVE DOMAIN jobs' = DOMAIN jobs
  BY <1>1 DEF CancelAccepted
<1>2. ASSUME NEW j \in DOMAIN jobs, NEW status \in {"succeeded", "failed"}, JobEnds(j, status)
      PROVE  DOMAIN jobs' = DOMAIN jobs
  BY <1>2 DEF JobEnds
<1> QED
  BY <1>1, <1>2
     DEF Next, vars, WebStep, CreateRequest, ApproveRead, ApproveCommit, CancelRead, CancelCommit,
         WorkerStep, FaultStep, ClaimLock, ClaimCommit, SubmitRefused, CheckCancel, CheckTimeout,
         CheckPoll, CancelRaises, Poll, PollRaises, UpdateRead, UpdateCommit, Crash, Restart,
         DatabaseRaises, RefreshRaises

LEMMA UntrackedByFault ==
  TypeOK /\ Existing /\ ApprovalCarried /\ Exclusive /\ Held /\ SubmittedOnce /\ [Next]_vars =>
    \A j \in Untracked' \ Untracked : \E w \in Workers :
      /\ SubmitUnanswered(w) \/ Crash(w) \/ DatabaseRaises(w) \/ RefreshRaises(w)
      /\ j = Lost(w)
<1> SUFFICES ASSUME TypeOK, Existing, ApprovalCarried, Exclusive, Held, SubmittedOnce, [Next]_vars,
                    NEW j \in Untracked', j \notin Untracked
             PROVE  \E w \in Workers :
                      /\ SubmitUnanswered(w) \/ Crash(w) \/ DatabaseRaises(w) \/ RefreshRaises(w)
                      /\ j = Lost(w)
  OBVIOUS
<1>1. /\ j \in DOMAIN jobs' /\ row'[jobs'[j].owner].cloud_job_id # j
      /\ \A w \in Workers : wk'[w].job # j
  BY DEF Untracked
<1>2. CASE j \in DOMAIN jobs
  <2>1. jobs'[j].owner = jobs[j].owner
    BY <1>2, JobsStay
  <2>2. row[jobs[j].owner].cloud_job_id # j
    BY <1>1, <1>2, <2>1, RecordedJobStays
  <2>3. PICK w \in Workers : wk[w].job = j
    BY <1>2, <2>2 DEF Untracked
  <2>4. wk[w].job # 0 /\ jobs[j].owner = wk[w].req
    BY <1>2, <2>3, JobNumbers DEF Held
  <2>5. Crash(w) \/ DatabaseRaises(w) \/ RefreshRaises(w)
    BY <1>1, <2>1, <2>3, <2>4, LettingGo
  <2>6. ~SubmitUnanswered(w)
    BY <2>4 DEF SubmitUnanswered, Held
  <2> QED
    BY <2>3, <2>5, <2>6 DEF Lost
<1>3. CASE j \notin DOMAIN jobs
  <2>1. PICK w \in Workers : SubmitAccepted(w) \/ SubmitUnanswered(w)
    BY <1>1, <1>3, Submission
  <2>2. j = Len(jobs) + 1
    <3> DEFINE job == [owner |-> wk[w].req, target |-> Target(w), status |-> Born(Target(w))]
    <3>1. jobs' = Append(jobs, job)
      BY <2>1 DEF SubmitAccepted, SubmitUnanswered, NewJob
    <3>2. DOMAIN jobs' = 1 .. Len(jobs) + 1 /\ DOMAIN jobs = 1 .. Len(jobs) /\ Len(jobs) \in Nat
      BY <3>1, LenProperties DEF TypeOK
    <3> QED
      BY <1>1, <1>3, <3>2
  <2>3. ASSUME SubmitAccepted(w) PROVE FALSE
    BY <1>1, <2>2, <2>3 DEF SubmitAccepted, Update, Idle, TypeOK
  <2> QED
    BY <2>1, <2>2, <2>3 DEF Lost
<1> QED
  BY <1>2, <1>3

LEMMA NextUntracked ==
  TypeOK /\ Existing /\ ApprovalCarried /\ Exclusive /\ Held /\ SubmittedOnce
    /\ UntrackedOnlyByFaults /\ [Next]_vars => UntrackedOnlyByFaults'
<1> SUFFICES ASSUME TypeOK, Existing, ApprovalCarried, Exclusive, Held, SubmittedOnce,
                    UntrackedOnlyByFaults, [Next]_vars
             PROVE  UntrackedOnlyByFaults'
  OBVIOUS
<1> DEFINE Fails(w) == SubmitUnanswered(w) \/ Crash(w) \/ DatabaseRaises(w) \/ RefreshRaises(w)
<1>1. IsFiniteSet(Untracked)
  BY UntrackedIsFinite
<1>2. GrowsByFaults(Untracked, Untracked')
  <2>1. CASE \E w \in Workers : Fails(w)
    <3>1. PICK w \in Workers : Fails(w)
      BY <2>1
    <3>2. ASSUME NEW v \in Workers, Fails(v), v # w PROVE FALSE
      <4>1. wk'[v] = wk[v]
        BY <3>1, <3>2, Others DEF FaultStep
      <4>2. CASE SubmitUnanswered(v)
        BY <4>1, <4>2 DEF SubmitUnanswered, Handler, Update, Idle, TypeOK
      <4>3. CASE Crash(v)
        BY <4>1, <4>3 DEF Crash, Idle, TypeOK
      <4>4. CASE DatabaseRaises(v)
        BY <4>1, <4>4 DEF DatabaseRaises, Handler, Update, Idle, TypeOK
      <4>5. CASE RefreshRaises(v)
        BY <4>1, <4>5 DEF RefreshRaises, Handler, Update, Idle, TypeOK
      <4> QED
        BY <3>2, <4>2, <4>3, <4>4, <4>5
    <3>3. Untracked' \subseteq Untracked \cup {Lost(w)}
      BY <3>2, UntrackedByFault
    <3>4. faults' = faults + 1
      BY <3>1 DEF SubmitUnanswered, Crash, DatabaseRaises, RefreshRaises, Fault
    <3> QED
      BY <3>3, <3>4 DEF GrowsByFaults
  <2>2. CASE ~\E w \in Workers : Fails(w)
    BY <2>2, UntrackedByFault DEF GrowsByFaults
  <2> QED
    BY <2>1, <2>2
<1> QED
  BY <1>1, <1>2, FaultsBound, FaultsStep, NextType DEF UntrackedOnlyByFaults

LEMMA InitUntracked == Init => UntrackedOnlyByFaults
<1> SUFFICES ASSUME Init PROVE UntrackedOnlyByFaults
  OBVIOUS
<1>1. Untracked = {}
  BY DEF Init, Untracked
<1> QED
  BY <1>1, FS_EmptySet DEF Init, UntrackedOnlyByFaults

\* One web process: cloud jobs that neither a row nor a worker names never
\* outnumber the crashes, errors and lost answers there were.
THEOREM LosingJobsNeedsFaults ==
  ASSUME \A a, b \in Web : a = b
  PROVE  Spec => []UntrackedOnlyByFaults
<1>1. TypeOK /\ Existing /\ ApprovalCarried /\ Exclusive /\ Held /\ [Next]_vars => Held'
  BY NextHeld
<1>2. TypeOK /\ Existing /\ ApprovalCarried /\ Exclusive /\ Held /\ SubmittedOnce
        /\ UntrackedOnlyByFaults /\ [Next]_vars => UntrackedOnlyByFaults'
  BY NextUntracked
<1> QED
  BY <1>1, <1>2, ExclusiveAlways, InitHeld, InitSubmitted, NextSubmitted, InitUntracked, PTL DEF Spec
-----------------------------------------------------------------------------
\* One web process and no fault: every running row has its worker, and every
\* cloud job is named by its row or by a worker.
THEOREM NothingLostWithoutFaults ==
  ASSUME \A a, b \in Web : a = b, MaxFaults = 0
  PROVE  Spec => [](Stranded = {} /\ Untracked = {})
<1>1. TypeOK /\ StrandedOnlyByFaults /\ UntrackedOnlyByFaults => Stranded = {} /\ Untracked = {}
  <2> SUFFICES ASSUME TypeOK, StrandedOnlyByFaults, UntrackedOnlyByFaults
               PROVE  Stranded = {} /\ Untracked = {}
    OBVIOUS
  <2>1. faults = 0
    BY DEF TypeOK
  <2>2. IsFiniteSet(Stranded)
    BY StrandedIsFinite
  <2>3. IsFiniteSet(Untracked)
    BY UntrackedIsFinite
  <2>4. Cardinality(Stranded) = 0
    <3>1. Cardinality(Stranded) \in Nat
      BY ONLY <2>2, FS_CardinalityType
    <3> QED
      BY <2>1, <3>1 DEF StrandedOnlyByFaults
  <2>5. Cardinality(Untracked) = 0
    <3>1. Cardinality(Untracked) \in Nat
      BY ONLY <2>3, FS_CardinalityType
    <3> QED
      BY <2>1, <3>1 DEF UntrackedOnlyByFaults
  <2> QED
    BY <2>2, <2>3, <2>4, <2>5, FS_EmptySet
<1> QED
  BY <1>1, TypeCorrect, StrandingNeedsFaults, LosingJobsNeedsFaults, PTL
-----------------------------------------------------------------------------
(* Lost cancellations.  An update that loaded "running" does not write the *)
(* status; one that loaded anything else does.                             *)
LoadedStarted == \A w \in Workers : wk[w].pc = "write" => wk[w].snap \notin Queueable

LEMMA NextLoadedStarted ==
  TypeOK /\ Existing /\ ApprovalCarried /\ Exclusive /\ LoadedStarted /\ [Next]_vars => LoadedStarted'
<1> SUFFICES ASSUME TypeOK, Existing, ApprovalCarried, Exclusive, LoadedStarted, [Next]_vars,
                    NEW w \in Workers, wk'[w].pc = "write"
             PROVE  wk'[w].snap \notin Queueable
  BY DEF LoadedStarted
<1>1. wk[w] \in WorkerState
  BY DEF TypeOK
<1>2. CASE wk'[w] = wk[w]
  BY <1>2 DEF LoadedStarted
<1>3. CASE UpdateRead(w)
  <2>1. wk[w].req \in Requests /\ Started(wk[w].req)
    BY <1>3 DEF UpdateRead, Existing, ApprovalCarried
  <2>2. wk'[w].snap = row[wk[w].req].status
    BY <1>1, <1>3 DEF UpdateRead, TypeOK, WorkerState
  <2> QED
    BY <2>1, <2>2 DEF Exclusive
<1>4. CASE ~UpdateRead(w) /\ (WorkerStep(w) \/ FaultStep(w))
  <2>1. ASSUME NEW status, NEW job, Update(w, status, job) PROVE FALSE
    BY <2>1 DEF Update, Idle, TypeOK
  <2>2. CASE ClaimLock(w) \/ ClaimCommit(w) \/ CheckCancel(w) \/ CheckPoll(w) \/ Crash(w) \/ Restart(w)
    BY <1>1, <2>2 DEF ClaimLock, ClaimCommit, CheckCancel, CheckPoll, Crash, Restart, Idle, TypeOK,
                      WorkerState
  <2>3. CASE UpdateCommit(w)
    BY <1>1, <2>3 DEF UpdateCommit, Idle, TypeOK, WorkerState
  <2> QED
    BY <1>4, <2>1, <2>2, <2>3
       DEF WorkerStep, FaultStep, SubmitAccepted, SubmitRefused, SubmitUnanswered, CheckTimeout,
           CancelAccepted, CancelRaises, Poll, PollRaises, DatabaseRaises, RefreshRaises, Handler
<1> QED
  BY <1>2, <1>3, <1>4, StepOfWorker

\* The step that loses a cancellation of r.
Overwrites(w, r) ==
  wk[w].req = r /\ wk[w].pc = "write" /\ wk[w].next = "running"
    /\ wk[w].snap \in Terminal \cup {"cancel_requested"}

LEMMA CancelStep ==
  TypeOK /\ Existing /\ ApprovalCarried /\ Exclusive /\ LoadedStarted /\ [Next]_vars =>
    \A r \in Requests :
      row[r].status = "cancel_requested" /\ row'[r].status \notin Terminal \cup {"cancel_requested"}
        => \E w \in Workers : Overwrites(w, r)
<1> SUFFICES ASSUME TypeOK, Existing, ApprovalCarried, Exclusive, LoadedStarted, [Next]_vars,
                    NEW r \in Requests, row[r].status = "cancel_requested",
                    row'[r].status \notin Terminal \cup {"cancel_requested"}
             PROVE  \E w \in Workers : Overwrites(w, r)
  OBVIOUS
<1>1. \A q \in Requests : row[q] \in Row
  BY DEF TypeOK
<1>2. ASSUME NEW a \in Web, ApproveCommit(a) \/ CancelCommit(a) PROVE row'[r].status \in Terminal \cup {"cancel_requested"}
  <2>1. CASE ApproveCommit(a)
    BY <2>1 DEF ApproveCommit, Exclusive, TypeOK
  <2>2. CASE CancelCommit(a)
    BY <1>1, <2>2 DEF CancelCommit, TypeOK, Terminal, Row
  <2> QED
    BY <1>2, <2>1, <2>2
<1>3. ASSUME NEW w \in Workers, ClaimCommit(w) PROVE row'[r].status = row[r].status
  BY <1>3 DEF ClaimCommit, Exclusive, TypeOK
<1>4. ASSUME NEW w \in Workers, wk[w].pc = "write", WriteRow(w) PROVE Overwrites(w, r)
  <2>1. wk[w] \in WorkerState /\ wk[w].snap \notin Queueable
    BY <1>4 DEF TypeOK, LoadedStarted
  <2>2. wk[w].req = r /\ wk[w].next \notin Terminal /\ wk[w].next # wk[w].snap
    BY <1>1, <1>4 DEF WriteRow, TypeOK, Row
  <2> QED
    BY <1>4, <2>1, <2>2 DEF Overwrites, WorkerState, Queueable, Status, Active
<1>5. CASE Creation
  BY <1>1, <1>5 DEF Creation, CreateRequest, TypeOK
<1>6. CASE UNCHANGED row
  BY <1>6
<1> QED
  BY <1>2, <1>3, <1>4, <1>5, <1>6
     DEF Creation, Next, vars, WebStep, ApproveRead, CancelRead, WorkerStep, FaultStep, ClaimLock,
         SubmitAccepted, SubmitRefused, SubmitUnanswered, CheckCancel, CheckTimeout, CheckPoll,
         CancelAccepted, CancelRaises, Poll, PollRaises, UpdateRead, UpdateCommit, Crash, Restart,
         DatabaseRaises, RefreshRaises, JobEnds

\* One web process: a cancellation that waits for the worker is lost in one way
\* only, to a progress update that loaded the row after a cancellation and so
\* takes "running" for a change to write (cancel_execution, update_execution).
\* CancelIsKept fails in this way, and in no other.
THEOREM CancelsAreLostToProgress ==
  ASSUME \A a, b \in Web : a = b
  PROVE  Spec => [][\A r \in Requests :
                      row[r].status = "cancel_requested"
                      /\ row'[r].status \notin Terminal \cup {"cancel_requested"}
                        => \E w \in Workers : Overwrites(w, r)]_vars
<1>1. Init => LoadedStarted
  BY DEF Init, LoadedStarted, Idle
<1>2. TypeOK /\ Existing /\ ApprovalCarried /\ Exclusive /\ LoadedStarted /\ [Next]_vars => LoadedStarted'
  BY NextLoadedStarted
<1>3. TypeOK /\ Existing /\ ApprovalCarried /\ Exclusive /\ LoadedStarted /\ [Next]_vars =>
        [\A r \in Requests :
           row[r].status = "cancel_requested"
           /\ row'[r].status \notin Terminal \cup {"cancel_requested"}
             => \E w \in Workers : Overwrites(w, r)]_vars
  BY CancelStep
<1> QED
  BY <1>1, <1>2, <1>3, ExclusiveAlways, PTL DEF Spec
=============================================================================
