----------------------------- MODULE LogCollector -----------------------------
(***************************************************************************)
(* The DataArts log collector: a loop that lists the log objects of OBS,   *)
(* downloads those whose signature changed, pushes them to Loki in batches *)
(* and saves the signatures in a state file.  An object is a log that only *)
(* grows; its version is its length, and stands for its ETag and size.     *)
(***************************************************************************)
EXTENDS Naturals, FiniteSets

CONSTANTS
    NumObjects,   \* log objects, numbered in the order of their keys
    MaxVersion,   \* bound: the longest version of each object
    Ending,       \* bound: the objects whose instance ends
    Cap,          \* MAX_LOG_OBJECTS
    Limit,        \* the longest version within MAX_LOG_FILE_BYTES
    BatchSize,    \* objects per push (40 in the code)
    MaxFaults     \* bound: failed calls and crashes

ASSUME CollectorAssumption ==
    /\ {NumObjects, Cap, Limit, BatchSize, MaxFaults} \subseteq Nat
    /\ MaxVersion \in [1 .. NumObjects -> Nat]
    /\ BatchSize > 0
    /\ Ending \subseteq 1 .. NumObjects

Objects == 1 .. NumObjects
Statuses == {"running", "ended"}

VARIABLES
    version,   \* OBS: the length of each object, 0 before it exists
    status,    \* DataArts: the status of the instance that writes the object
    loki,      \* the longest content in the stream of each object and status
    pushes,    \* how often a content of the object was accepted by Loki
    file,      \* the state file: the version whose signature is saved
    sync,      \* sync_once: its step and its locals
    page,      \* LATEST: the metrics served
    error,     \* LAST_ERROR is not empty
    faults

vars == <<version, status, loki, pushes, file, sync, page, error, faults>>
cloud == <<version, status>>

Nothing == [o \in Objects |-> 0]

\* The locals of sync_once; "idle" is the sleep between two calls.
NoSync == [pc |-> "idle", roots |-> {}, label |-> [o \in Objects |-> "running"],
           listed |-> Nothing, changed |-> {}, todo |-> {}, got |-> Nothing,
           skipped |-> {}]
Starting == [ready |-> FALSE, catalog |-> Nothing, skipped |-> {}]

Init ==
    /\ version = Nothing
    /\ status = [o \in Objects |-> "running"]
    /\ loki = [o \in Objects |-> [s \in Statuses |-> 0]]
    /\ pushes = Nothing
    /\ file = Nothing
    /\ sync = NoSync
    /\ page = Starting
    /\ error = FALSE
    /\ faults = 0

Fault == faults < MaxFaults /\ faults' = faults + 1

-----------------------------------------------------------------------------
\* DataArts and OBS.

Grow(o) ==
    /\ version[o] < MaxVersion[o]
    /\ version' = [version EXCEPT ![o] = @ + 1]
    /\ UNCHANGED <<status, loki, pushes, file, sync, page, error, faults>>

Ends(o) ==
    /\ o \in Ending /\ version[o] > 0 /\ status[o] = "running"
    /\ status' = [status EXCEPT ![o] = "ended"]
    /\ UNCHANGED <<version, loki, pushes, file, sync, page, error, faults>>

-----------------------------------------------------------------------------
\* sync_once.  The signatures in memory are those of the file, which one
\* process writes: they are loaded at each call and saved after each change.

FirstOf(S, n) == {o \in S : Cardinality({p \in S : p < o}) < n}

\* An exception: collect_loop keeps the last page and notes the error.
Raise ==
    /\ sync' = NoSync
    /\ error' = TRUE
    /\ UNCHANGED page

\* Mutant: a job that cannot be read is kept, with no status.
BugUnknownLabel ==
    /\ sync.pc = "idle"
    /\ \E hidden \in SUBSET Objects :
         /\ IF hidden = {} THEN UNCHANGED faults ELSE Fault
         /\ sync' = [NoSync EXCEPT !.pc = "list", !.roots = Objects,
              !.label = [o \in Objects |-> IF o \in hidden THEN "unknown" ELSE status[o]]]
    /\ UNCHANGED <<version, status, loki, pushes, file, page, error>>

\* The jobs, their log roots and their instances.  The detail of a job that
\* cannot be read is passed over in silence, and its root with it.
StartSync ==
    /\ sync.pc = "idle"
    /\ \E hidden \in SUBSET Objects :
         /\ hidden # Objects
         /\ IF hidden = {} THEN UNCHANGED faults ELSE Fault
         /\ sync' = [NoSync EXCEPT !.pc = "list", !.roots = Objects \ hidden,
                                   !.label = status]
    /\ UNCHANGED <<version, status, loki, pushes, file, page, error>>

Listing(found, changed) ==
    sync' = [sync EXCEPT !.pc = "batch", !.changed = changed, !.todo = changed,
               !.listed = [o \in Objects |-> IF o \in found THEN version[o] ELSE 0]]

\* Mutants: the signatures are not compared; only new keys are changes.
BugNoSignature ==
    /\ sync.pc = "list"
    /\ LET found == FirstOf({o \in sync.roots : version[o] > 0}, Cap)
       IN Listing(found, found)
    /\ UNCHANGED <<version, status, loki, pushes, file, page, error, faults>>

BugOnlyNewKeys ==
    /\ sync.pc = "list"
    /\ LET found == FirstOf({o \in sync.roots : version[o] > 0}, Cap)
       IN Listing(found, {o \in found : file[o] = 0})
    /\ UNCHANGED <<version, status, loki, pushes, file, page, error, faults>>

\* list_log_objects stops at the cap, in the order of the keys.
ListLogObjects ==
    /\ sync.pc = "list"
    /\ LET found == FirstOf({o \in sync.roots : version[o] > 0}, Cap)
           changed == {o \in found : file[o] # version[o]}
       IN Listing(found, changed)
    /\ UNCHANGED <<version, status, loki, pushes, file, page, error, faults>>

Oversized(S) == {o \in S : sync.listed[o] > Limit}

Fetched(batch, read, skipped) ==
    sync' = [sync EXCEPT !.todo = @ \ batch, !.skipped = skipped,
               !.got = [o \in Objects |-> IF o \in read THEN version[o] ELSE 0],
               !.pc = IF read = {} THEN "batch" ELSE "push"]

\* Mutants: the count of skipped objects starts again with every batch; the
\* signatures are saved as soon as the contents are there.
BugSkippedOfLastBatch ==
    /\ sync.pc = "batch" /\ sync.todo # {}
    /\ LET batch == FirstOf(sync.todo, BatchSize)
           read == batch \ Oversized(batch)
       IN Fetched(batch, read, batch \ read)
    /\ UNCHANGED <<version, status, loki, pushes, file, page, error, faults>>

BugSaveAtDownload ==
    /\ sync.pc = "batch" /\ sync.todo # {}
    /\ LET batch == FirstOf(sync.todo, BatchSize)
           read == batch \ Oversized(batch)
       IN /\ Fetched(batch, read, sync.skipped \cup (batch \ read))
          /\ file' = [o \in Objects |-> IF o \in read THEN sync.listed[o] ELSE file[o]]
    /\ UNCHANGED <<version, status, loki, pushes, page, error, faults>>

\* download_log for a batch: an object above the limit, as it was listed, or
\* that cannot be read is skipped; the others come as they are now.
DownloadBatch ==
    /\ sync.pc = "batch" /\ sync.todo # {}
    /\ LET batch == FirstOf(sync.todo, BatchSize)
       IN \E unread \in SUBSET (batch \ Oversized(batch)) :
            LET read == (batch \ Oversized(batch)) \ unread IN
            /\ IF unread = {} THEN UNCHANGED faults ELSE Fault
            /\ Fetched(batch, read, sync.skipped \cup (batch \ read))
    /\ UNCHANGED <<version, status, loki, pushes, file, page, error>>

\* Loki keeps one copy of equal lines of one stream; the stream is named by
\* the status the instance had when the call began.
Accept ==
    /\ loki' = [o \in Objects |-> [s \in Statuses |->
                 IF s = sync.label[o] /\ sync.got[o] > loki[o][s] THEN sync.got[o] ELSE loki[o][s]]]
    /\ pushes' = [o \in Objects |-> IF sync.got[o] > 0 THEN pushes[o] + 1 ELSE pushes[o]]

PushLoki ==
    /\ sync.pc = "push"
    /\ Accept
    /\ sync' = [sync EXCEPT !.pc = "save"]
    /\ UNCHANGED <<version, status, file, page, error, faults>>

PushUnanswered ==
    /\ sync.pc = "push"
    /\ Fault
    /\ Accept
    /\ Raise
    /\ UNCHANGED <<version, status, file>>

\* Mutant: every changed object dealt with so far is recorded, read or not.
BugSaveSkipped ==
    /\ sync.pc = "save"
    /\ file' = [o \in Objects |-> IF o \in sync.changed \ sync.todo THEN sync.listed[o] ELSE file[o]]
    /\ sync' = [sync EXCEPT !.pc = "batch", !.got = Nothing]
    /\ UNCHANGED <<version, status, loki, pushes, page, error, faults>>

\* The signature saved is that of the listing.
SaveState ==
    /\ sync.pc = "save"
    /\ file' = [o \in Objects |-> IF sync.got[o] > 0 THEN sync.listed[o] ELSE file[o]]
    /\ sync' = [sync EXCEPT !.pc = "batch", !.got = Nothing]
    /\ UNCHANGED <<version, status, loki, pushes, page, error, faults>>

\* The list calls (or a list without roots), a refused push, the write of the
\* file and the flush may raise.
CallRaises ==
    /\ \/ sync.pc \in {"list", "push", "save"}
       \/ sync.pc = "batch" /\ sync.todo = {} /\ sync.changed # {}
    /\ Fault
    /\ Raise
    /\ UNCHANGED <<version, status, loki, pushes, file>>

\* flush_loki if something changed, build_metrics, and the new page.
Publish ==
    /\ sync.pc = "batch" /\ sync.todo = {}
    /\ page' = [ready |-> TRUE, catalog |-> sync.listed, skipped |-> sync.skipped]
    /\ error' = FALSE
    /\ sync' = NoSync
    /\ UNCHANGED <<version, status, loki, pushes, file, faults>>

Crash ==
    /\ sync.pc # "down"
    /\ Fault
    /\ sync' = [NoSync EXCEPT !.pc = "down"]
    /\ page' = Starting
    /\ error' = FALSE
    /\ UNCHANGED <<version, status, loki, pushes, file>>

\* load_state starts afresh when the file is missing or unreadable.
Restart ==
    /\ sync.pc = "down"
    /\ sync' = NoSync
    /\ \/ UNCHANGED <<file, faults>>
       \/ file' = Nothing /\ Fault
    /\ UNCHANGED <<version, status, loki, pushes, page, error>>

SyncStep ==
    \/ StartSync \/ ListLogObjects \/ DownloadBatch \/ PushLoki \/ SaveState \/ Publish

Next ==
    \/ \E o \in Objects : Grow(o) \/ Ends(o)
    \/ SyncStep
    \/ PushUnanswered \/ CallRaises
    \/ Crash \/ Restart

Spec == Init /\ [][Next]_vars

\* The loop runs on and the container is restarted; faults are bounded.
FairSpec == Spec /\ WF_vars(SyncStep) /\ WF_vars(Restart)

-----------------------------------------------------------------------------
\* Properties.

\* The longest content of the object that Loki holds, in any stream.
Stored(o) == IF loki[o]["running"] > loki[o]["ended"] THEN loki[o]["running"]
                                                      ELSE loki[o]["ended"]

Sync == [pc: {"idle", "list", "batch", "push", "save", "down"}, roots: SUBSET Objects,
         label: [Objects -> Statuses], listed: [Objects -> Nat],
         changed: SUBSET Objects, todo: SUBSET Objects, got: [Objects -> Nat],
         skipped: SUBSET Objects]
Page == [ready: BOOLEAN, catalog: [Objects -> Nat], skipped: SUBSET Objects]

\* The variables of app.py hold what their annotations say.
TypeOK ==
    /\ version \in [Objects -> Nat]
    /\ status \in [Objects -> Statuses]
    /\ loki \in [Objects -> [Statuses -> Nat]]
    /\ pushes \in [Objects -> Nat]
    /\ file \in [Objects -> Nat]
    /\ sync \in Sync
    /\ page \in Page
    /\ error \in BOOLEAN
    /\ faults \in 0 .. MaxFaults

\* A signature in the state file, which keeps the object from being pushed
\* again, is of content that Loki accepted: no line is lost (app.py:695-702).
RecordedWasPushed == \A o \in Objects : file[o] <= Stored(o)

\* What the served metrics list and do not count as skipped is in Loki in full,
\* whether it was pushed by this call or by an earlier one (app.py:710-719).
PageIsTruthful == \A o \in Objects \ page.skipped : page.catalog[o] <= Stored(o)

\* README.md:124 "so unchanged objects are not re-ingested": an object is pushed
\* at most once per change, and once more per crash or failed call.
OncePerChange == \A o \in Objects : pushes[o] <= version[o] + faults

\* Objects are delivered before they are recorded, and a record is only given
\* up when the state file is lost.
Delivery == INSTANCE AtLeastOnce WITH Items <- Objects, current <- version,
                delivered <- [o \in Objects |-> Stored(o)], recorded <- file
DeliversFirst == Delivery!Spec

\* An object within the cap and the size limit gets to Loki, unless it leaves
\* them first (app.py:300, 429).
Reachable(o) == version[o] \in 1 .. Limit /\ o \in FirstOf({p \in Objects : version[p] > 0}, Cap)
Ingested ==
    \A o \in Objects : \A v \in 1 .. MaxVersion[o] :
        (version[o] = v /\ Reachable(o)) ~> (Stored(o) >= v \/ ~Reachable(o))
=============================================================================
