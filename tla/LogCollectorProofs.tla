-------------------------- MODULE LogCollectorProofs --------------------------
(* Theorems about LogCollector, for any number of objects, limits, batch   *)
(* sizes and faults.                                                       *)
EXTENDS LogCollector, FiniteSetTheorems, WellFoundedInduction, TLAPS

LEMMA MaxFaultsType == MaxFaults \in Nat
  BY CollectorAssumption DEF CollectorAssumption

LEMMA StartType == Nothing \in [Objects -> Nat] /\ NoSync \in Sync /\ Starting \in Page
<1>1. Nothing \in [Objects -> Nat]
  BY DEF Nothing
<1>2. [o \in Objects |-> "running"] \in [Objects -> Statuses]
  BY DEF Statuses
<1>3. NoSync \in Sync
  BY <1>1, <1>2 DEF NoSync, Sync
<1> QED
  BY <1>1, <1>3 DEF Starting, Page

LEMMA InitType == Init => TypeOK
<1> SUFFICES ASSUME Init PROVE TypeOK
  OBVIOUS
<1>1. [o \in Objects |-> [s \in Statuses |-> 0]] \in [Objects -> [Statuses -> Nat]]
  OBVIOUS
<1>2. [o \in Objects |-> "running"] \in [Objects -> Statuses]
  BY DEF Statuses
<1>3. faults \in 0 .. MaxFaults
  BY MaxFaultsType DEF Init
<1>4. version \in [Objects -> Nat] /\ pushes \in [Objects -> Nat] /\ file \in [Objects -> Nat]
  BY StartType DEF Init
<1> QED
  BY <1>1, <1>2, <1>3, <1>4, StartType DEF Init, TypeOK

LEMMA NextType == TypeOK /\ [Next]_vars => TypeOK'
<1> SUFFICES ASSUME TypeOK, [Next]_vars PROVE TypeOK'
  OBVIOUS
<1> USE MaxFaultsType DEF TypeOK
<1>1. NoSync \in Sync /\ Starting \in Page
  BY StartType
<1>2. ASSUME NEW o \in Objects, Grow(o) \/ Ends(o) PROVE TypeOK'
  BY <1>2 DEF Grow, Ends, Statuses
<1>a. ASSUME Fault PROVE faults' \in 0 .. MaxFaults
  BY <1>a DEF Fault
<1>3. CASE StartSync
  <2>1. PICK hidden \in SUBSET Objects :
          /\ IF hidden = {} THEN UNCHANGED faults ELSE Fault
          /\ sync' = [NoSync EXCEPT !.pc = "list", !.roots = Objects \ hidden, !.label = status]
    BY <1>3 DEF StartSync
  <2>2. sync' \in Sync
    BY <1>1, <2>1 DEF Sync
  <2>3. faults' \in 0 .. MaxFaults
    BY <1>a, <2>1
  <2> QED
    BY <1>3, <2>2, <2>3 DEF StartSync
<1>4. CASE ListLogObjects
  BY <1>4 DEF ListLogObjects, Listing, FirstOf, Sync
<1>5. CASE DownloadBatch
  <2>1. PICK read \in SUBSET Objects, unread \in SUBSET FirstOf(sync.todo, BatchSize) :
          /\ Fetched(FirstOf(sync.todo, BatchSize), read,
                     sync.skipped \cup (FirstOf(sync.todo, BatchSize) \ read))
          /\ IF unread = {} THEN UNCHANGED faults ELSE Fault
    BY <1>5 DEF DownloadBatch, FirstOf, Sync
  <2>2. sync' \in Sync
    BY <2>1 DEF Fetched, FirstOf, Sync
  <2> QED
    BY <1>5, <2>1, <2>2 DEF DownloadBatch, Fault
<1>6. ASSUME Accept PROVE loki' \in [Objects -> [Statuses -> Nat]] /\ pushes' \in [Objects -> Nat]
  BY <1>6 DEF Accept, Sync
<1>7. CASE PushLoki
  BY <1>6, <1>7 DEF PushLoki, Sync
<1>8. CASE PushUnanswered
  BY <1>1, <1>6, <1>8 DEF PushUnanswered, Raise, Fault
<1>9. CASE SaveState
  BY <1>9 DEF SaveState, Sync, Nothing
<1>10. CASE CallRaises
  BY <1>1, <1>10 DEF CallRaises, Raise, Fault
<1>11. CASE Publish
  BY <1>1, <1>11 DEF Publish, Sync, Page
<1>12. CASE Crash
  <2>1. sync' \in Sync
    BY <1>1, <1>12 DEF Crash, Sync
  <2> QED
    BY <1>1, <1>12, <1>a, <2>1 DEF Crash
<1>13. CASE Restart
  BY <1>1, <1>13 DEF Restart, Fault, Nothing
<1>14. CASE UNCHANGED vars
  BY <1>14 DEF vars
<1> QED
  BY <1>2, <1>3, <1>4, <1>5, <1>7, <1>8, <1>9, <1>10, <1>11, <1>12, <1>13, <1>14
     DEF Next, SyncStep

\* Every variable of the collector keeps its type.
THEOREM TypeCorrect == Spec => []TypeOK
  BY InitType, NextType, PTL DEF Spec
-----------------------------------------------------------------------------
(* The invariant behind the safety properties follows a content from the   *)
(* listing to the state file: what was downloaded is at least what was     *)
(* listed, Loki has it before it is recorded, and what a call has finished *)
(* with is recorded or skipped.                                            *)
StoredIsReal == \A o \in Objects : Stored(o) <= version[o]

FetchedIsNewer ==
  /\ sync.pc = "list" => \A o \in Objects : sync.got[o] = 0
  /\ \A o \in Objects : sync.listed[o] <= version[o] /\ sync.got[o] <= version[o]
  /\ \A o \in Objects : sync.got[o] > 0 => file[o] <= sync.listed[o] /\ sync.listed[o] <= sync.got[o]
  /\ \A o \in sync.todo : sync.listed[o] > 0 /\ file[o] <= sync.listed[o]

SavedWasPushed == sync.pc = "save" => \A o \in Objects : sync.got[o] <= Stored(o)

DoneIsAccounted ==
  sync.pc \in {"batch", "push", "save"} =>
    \A o \in Objects : \/ sync.listed[o] <= file[o]
                       \/ sync.got[o] > 0 /\ sync.pc # "batch"
                       \/ o \in sync.todo \cup sync.skipped

CollectorInv ==
  /\ StoredIsReal /\ RecordedWasPushed /\ FetchedIsNewer /\ SavedWasPushed
  /\ DoneIsAccounted /\ PageIsTruthful

LEMMA InitCollector == Init => CollectorInv
  BY DEF Statuses, Init, CollectorInv, StoredIsReal, RecordedWasPushed, FetchedIsNewer, SavedWasPushed,
         DoneIsAccounted, PageIsTruthful, Stored, Nothing, NoSync, Starting

\* A push leaves nothing out: afterwards Loki holds what was downloaded.
LEMMA AcceptStores ==
  ASSUME TypeOK, Accept,
         \A o \in Objects : sync.got[o] <= version[o] /\ Stored(o) <= version[o]
  PROVE  \A o \in Objects : /\ Stored(o)' \in Nat /\ Stored(o) <= Stored(o)'
                            /\ sync.got[o] <= Stored(o)' /\ Stored(o)' <= version[o]
<1> SUFFICES ASSUME NEW o \in Objects
             PROVE  /\ Stored(o)' \in Nat /\ Stored(o) <= Stored(o)'
                    /\ sync.got[o] <= Stored(o)' /\ Stored(o)' <= version[o]
  OBVIOUS
<1>1. /\ sync.label[o] \in {"running", "ended"} /\ sync.got[o] \in Nat /\ version[o] \in Nat
      /\ loki[o]["running"] \in Nat /\ loki[o]["ended"] \in Nat
  BY DEF TypeOK, Sync, Statuses
<1>2. \A s \in Statuses : loki'[o][s] =
        IF s = sync.label[o] /\ sync.got[o] > loki[o][s] THEN sync.got[o] ELSE loki[o][s]
  BY DEF Accept
<1> QED
  BY <1>1, <1>2 DEF Stored, Statuses

LEMMA NextCollector == TypeOK /\ CollectorInv /\ [Next]_vars => CollectorInv'
<1> SUFFICES ASSUME TypeOK, CollectorInv, [Next]_vars PROVE CollectorInv'
  OBVIOUS
<1> DEFINE B == FirstOf(sync.todo, BatchSize)
<1>0. /\ \A o \in Objects : /\ version[o] \in Nat /\ file[o] \in Nat /\ Stored(o) \in Nat
                            /\ sync.listed[o] \in Nat /\ sync.got[o] \in Nat
      /\ sync \in Sync /\ page \in Page
  BY DEF TypeOK, Stored, Sync, Statuses
<1> USE DEF CollectorInv, StoredIsReal, RecordedWasPushed, FetchedIsNewer, SavedWasPushed,
            DoneIsAccounted, PageIsTruthful
<1>1. ASSUME NEW p \in Objects, Grow(p) PROVE CollectorInv'
  <2>1. \A o \in Objects : version[o] <= version'[o] /\ Stored(o)' = Stored(o)
    BY <1>0, <1>1 DEF Grow, TypeOK, Stored
  <2>2. \A o \in Objects : version'[o] \in Nat
    BY <1>1 DEF Grow, TypeOK
  <2> QED
    BY <1>0, <1>1, <2>1, <2>2 DEF Grow, Sync
<1>2. ASSUME NEW p \in Objects, Ends(p) PROVE CollectorInv'
  BY <1>2 DEF Ends, Stored
\* The steps that drop the locals of the call.
<1>3. ASSUME \A o \in Objects : sync'.listed[o] = 0 /\ sync'.got[o] = 0,
             sync'.todo = {}, sync'.pc \in {"idle", "list", "down"}
      PROVE  (FetchedIsNewer /\ SavedWasPushed /\ DoneIsAccounted)'
  <2>1. \A o \in Objects : version'[o] \in Nat
    BY NextType DEF TypeOK
  <2> QED
    BY <1>3, <2>1
<1>4. CASE StartSync
  <2>1. /\ \A o \in Objects : sync'.listed[o] = 0 /\ sync'.got[o] = 0
        /\ sync'.todo = {} /\ sync'.pc = "list"
    BY <1>4 DEF StartSync, NoSync, Nothing
  <2> QED
    BY <1>3, <1>4, <2>1 DEF StartSync, Stored
<1>5. CASE ListLogObjects
  <2> DEFINE found == FirstOf({o \in sync.roots : version[o] > 0}, Cap)
  <2>1. /\ found \subseteq Objects /\ \A o \in found : version[o] > 0
        /\ Listing(found, {o \in found : file[o] # version[o]})
    <3>1. found \subseteq Objects /\ \A o \in found : version[o] > 0
      BY <1>0 DEF FirstOf, Sync
    <3> QED
      BY <1>5, <3>1 DEF ListLogObjects
  <2> HIDE DEF found
  <2>2. /\ \A o \in Objects : sync'.listed[o] = IF o \in found THEN version[o] ELSE 0
        /\ sync'.got = sync.got /\ sync'.pc = "batch" /\ sync'.skipped = sync.skipped
        /\ \A o \in Objects : o \in sync'.todo <=> (o \in found /\ file[o] # version[o])
        /\ sync'.todo \subseteq Objects
    BY <1>0, <2>1 DEF Listing, Sync
  <2>3. \A o \in Objects : file[o] <= version[o]
    BY <1>0
  <2>4. UNCHANGED <<version, loki, file, page>>
    BY <1>5 DEF ListLogObjects
  <2>5. sync.pc = "list"
    BY <1>5 DEF ListLogObjects
  <2> QED
    BY <1>0, <2>1, <2>2, <2>3, <2>4, <2>5 DEF Stored
<1>6. CASE DownloadBatch
  <2>1. PICK read \in SUBSET B :
          /\ Fetched(B, read, sync.skipped \cup (B \ read))
          /\ sync.pc = "batch"
          /\ UNCHANGED <<version, loki, file, page>>
    BY <1>6 DEF DownloadBatch
  <2>2. B \subseteq sync.todo /\ B \subseteq Objects
    BY <1>0 DEF FirstOf, Sync
  <2> HIDE DEF B
  <2>3. /\ \A o \in Objects : sync'.got[o] = IF o \in read THEN version[o] ELSE 0
        /\ sync'.listed = sync.listed /\ sync'.todo = sync.todo \ B
        /\ sync'.skipped = sync.skipped \cup (B \ read)
        /\ sync'.pc = IF read = {} THEN "batch" ELSE "push"
    BY <1>0, <2>1 DEF Fetched, Sync
  <2>4. \A o \in read : sync.listed[o] > 0 /\ file[o] <= sync.listed[o] /\ sync.listed[o] <= version[o]
    BY <1>0, <2>1, <2>2
  <2>5. (StoredIsReal /\ RecordedWasPushed /\ FetchedIsNewer /\ SavedWasPushed /\ PageIsTruthful)'
    BY <1>0, <2>1, <2>2, <2>3, <2>4 DEF Stored
  <2>6. DoneIsAccounted'
    BY <1>0, <2>1, <2>2, <2>3, <2>4
  <2> QED
    BY <2>5, <2>6
<1>7. ASSUME Accept, UNCHANGED <<version, file>>
      PROVE  /\ (StoredIsReal /\ RecordedWasPushed)'
             /\ \A o \in Objects : Stored(o)' \in Nat /\ Stored(o) <= Stored(o)' /\ sync.got[o] <= Stored(o)'
  BY <1>0, <1>7, AcceptStores
<1>8. CASE PushLoki
  <2>1. /\ sync' = [sync EXCEPT !.pc = "save"] /\ sync.pc = "push"
        /\ UNCHANGED <<version, file, page>> /\ Accept
    BY <1>8 DEF PushLoki
  <2>2. /\ sync'.pc = "save" /\ sync'.got = sync.got /\ sync'.listed = sync.listed
        /\ sync'.todo = sync.todo /\ sync'.skipped = sync.skipped
    BY <1>0, <2>1 DEF Sync
  <2>3. PageIsTruthful'
    BY <1>0, <1>7, <2>1 DEF Page
  <2> QED
    BY <1>0, <1>7, <2>1, <2>2, <2>3
<1>9. CASE PushUnanswered
  <2>1. /\ sync' = NoSync /\ UNCHANGED <<version, file, page>> /\ Accept
    BY <1>9 DEF PushUnanswered, Raise
  <2>2. (FetchedIsNewer /\ SavedWasPushed /\ DoneIsAccounted)'
    BY <1>3, <2>1 DEF NoSync, Nothing
  <2>3. PageIsTruthful'
    BY <1>0, <1>7, <2>1 DEF Page
  <2> QED
    BY <1>7, <2>1, <2>2, <2>3
<1>10. CASE SaveState
  <2>1. /\ \A o \in Objects : file'[o] = IF sync.got[o] > 0 THEN sync.listed[o] ELSE file[o]
        /\ sync.pc = "save" /\ UNCHANGED <<version, loki, page>>
        /\ sync' = [sync EXCEPT !.pc = "batch", !.got = Nothing]
    BY <1>10 DEF SaveState
  <2>2. /\ sync'.pc = "batch" /\ sync'.listed = sync.listed
        /\ \A o \in Objects : sync'.got[o] = 0
        /\ sync'.todo = sync.todo /\ sync'.skipped = sync.skipped
    BY <1>0, <2>1 DEF Sync, Nothing
  <2>3. \A o \in Objects : Stored(o)' = Stored(o)
    BY <2>1 DEF Stored
  <2>4. \A o \in Objects : file'[o] <= Stored(o)
    BY <1>0, <2>1
  <2>5. \A o \in sync.todo : o \in Objects /\ file'[o] <= sync.listed[o]
    BY <1>0, <2>1 DEF Sync
  <2>6. FetchedIsNewer'
    BY <1>0, <2>1, <2>2, <2>5
  <2>7. DoneIsAccounted'
    BY <1>0, <2>1, <2>2
  <2>8. (StoredIsReal /\ RecordedWasPushed /\ SavedWasPushed /\ PageIsTruthful)'
    BY <1>0, <2>1, <2>2, <2>3, <2>4
  <2> QED
    BY <2>6, <2>7, <2>8
<1>11. CASE CallRaises
  <2>1. /\ sync' = NoSync /\ UNCHANGED <<version, loki, file, page>>
    BY <1>11 DEF CallRaises, Raise
  <2>2. (FetchedIsNewer /\ SavedWasPushed /\ DoneIsAccounted)'
    BY <1>3, <2>1 DEF NoSync, Nothing
  <2> QED
    BY <2>1, <2>2 DEF Stored
<1>12. CASE Publish
  <2>1. /\ sync' = NoSync /\ UNCHANGED <<version, loki, file>>
        /\ sync.pc = "batch" /\ sync.todo = {}
        /\ page'.catalog = sync.listed /\ page'.skipped = sync.skipped
    BY <1>12 DEF Publish
  <2>2. (FetchedIsNewer /\ SavedWasPushed /\ DoneIsAccounted)'
    BY <1>3, <2>1 DEF NoSync, Nothing
  <2>3. \A o \in Objects \ sync.skipped : sync.listed[o] <= Stored(o)
    BY <1>0, <2>1
  <2> QED
    BY <2>1, <2>2, <2>3 DEF Stored
<1>13. CASE Crash
  <2>1. /\ UNCHANGED <<version, loki, file>> /\ page' = Starting
        /\ sync' = [NoSync EXCEPT !.pc = "down"]
    BY <1>13 DEF Crash
  <2>2. (FetchedIsNewer /\ SavedWasPushed /\ DoneIsAccounted)'
    BY <1>3, <2>1 DEF NoSync, Nothing
  <2>3. \A o \in Objects : page'.catalog[o] = 0 /\ Stored(o)' = Stored(o)
    BY <2>1 DEF Starting, Nothing, Stored
  <2> QED
    BY <1>0, <2>1, <2>2, <2>3
<1>14. CASE Restart
  <2>1. /\ sync' = NoSync /\ UNCHANGED <<version, loki, page>>
        /\ file' = file \/ file' = Nothing
    BY <1>14 DEF Restart
  <2>2. (FetchedIsNewer /\ SavedWasPushed /\ DoneIsAccounted)'
    BY <1>3, <2>1 DEF NoSync, Nothing
  <2>3. \A o \in Objects : Stored(o)' = Stored(o) /\ file'[o] <= Stored(o)
    BY <1>0, <2>1 DEF Nothing, Stored
  <2> QED
    BY <2>1, <2>2, <2>3
<1>15. CASE UNCHANGED vars
  BY <1>15 DEF vars, Stored
<1> QED
  BY <1>1, <1>2, <1>4, <1>5, <1>6, <1>8, <1>9, <1>10, <1>11, <1>12, <1>13, <1>14, <1>15
     DEF Next, SyncStep

\* What the state file records was pushed, whatever fails in between.
THEOREM RecordsWerePushed == Spec => []RecordedWasPushed
<1>1. CollectorInv => RecordedWasPushed
  BY DEF CollectorInv
<1> QED
  BY <1>1, InitType, NextType, InitCollector, NextCollector, PTL DEF Spec

\* What the page lists and does not count as skipped is stored.
THEOREM PagesAreTruthful == Spec => []PageIsTruthful
<1>1. CollectorInv => PageIsTruthful
  BY DEF CollectorInv
<1> QED
  BY <1>1, InitType, NextType, InitCollector, NextCollector, PTL DEF Spec
-----------------------------------------------------------------------------
(* The refinement: a push is a delivery, a save is a record, the loss of   *)
(* the state file forgets the records; every other step stutters.          *)
LEMMA CollectorInit == Init => Delivery!Init
  BY DEF Init, Delivery!Init, Delivery!NothingYet, Nothing, Stored, Statuses

LEMMA CollectorStep ==
  TypeOK /\ CollectorInv /\ [Next]_vars => [Delivery!Next]_(Delivery!avars)
<1> SUFFICES ASSUME TypeOK, CollectorInv, [Next]_vars
             PROVE  Delivery!Next \/ UNCHANGED Delivery!avars
  OBVIOUS
<1>0. \A o \in Objects : /\ version[o] \in Nat /\ file[o] \in Nat /\ Stored(o) \in Nat
                         /\ sync.listed[o] \in Nat /\ sync.got[o] \in Nat
  BY DEF TypeOK, Stored, Sync, Statuses
<1>1. ASSUME UNCHANGED <<version, loki, file>> PROVE UNCHANGED Delivery!avars
  BY <1>1 DEF Delivery!avars, Stored
<1>2. ASSUME NEW o \in Objects, Grow(o) PROVE Delivery!Next
  BY <1>2 DEF Grow, Delivery!Next, Delivery!Grow, Stored
<1>3. ASSUME Accept, UNCHANGED <<version, file>> PROVE Delivery!Next
  <2>1. \A o \in Objects : /\ Stored(o)' \in Nat
                           /\ Stored(o) <= Stored(o)' /\ Stored(o)' <= version[o]
    BY <1>3, AcceptStores DEF CollectorInv, StoredIsReal, FetchedIsNewer
  <2>2. Delivery!Deliver
    BY <1>0, <1>3, <2>1 DEF Delivery!Deliver
  <2> QED
    BY <2>2 DEF Delivery!Next
<1>4. CASE SaveState
  <2>1. /\ file' = [o \in Objects |-> IF sync.got[o] > 0 THEN sync.listed[o] ELSE file[o]]
        /\ sync.pc = "save" /\ UNCHANGED <<version, loki>>
    BY <1>4 DEF SaveState
  <2>2. \A o \in Objects : file'[o] \in Nat /\ file[o] <= file'[o] /\ file'[o] <= Stored(o)
    BY <1>0, <2>1 DEF CollectorInv, FetchedIsNewer, SavedWasPushed, RecordedWasPushed
  <2>3. Delivery!Record
    BY <1>0, <2>1, <2>2 DEF Delivery!Record, Stored
  <2> QED
    BY <2>3 DEF Delivery!Next
<1>5. CASE Restart
  <2>1. /\ UNCHANGED <<version, loki>>
        /\ file' = file \/ file' = Nothing
    BY <1>5 DEF Restart
  <2>2. file' = Nothing => Delivery!Forget
    BY <2>1 DEF Delivery!Forget, Delivery!NothingYet, Nothing, Stored
  <2> QED
    BY <1>1, <2>1, <2>2 DEF Delivery!Next
<1>6. PushLoki \/ PushUnanswered => Delivery!Next
  BY <1>3 DEF PushLoki, PushUnanswered, Raise
<1> QED
  BY <1>1, <1>2, <1>4, <1>5, <1>6
     DEF Next, SyncStep, vars, Ends, StartSync, ListLogObjects, DownloadBatch, CallRaises, Publish, Crash

\* The collector implements AtLeastOnce: delivered first, recorded afterwards.
THEOREM CollectorDelivers == Spec => DeliversFirst
  BY InitType, NextType, InitCollector, NextCollector, CollectorInit, CollectorStep, PTL
     DEF Spec, DeliversFirst, Delivery!Spec
-----------------------------------------------------------------------------
(* The count of pushes.  An object that differs from its record has one    *)
(* push to its credit, which is kept with the listing until it is spent.   *)
PushCredit ==
  /\ \A o \in Objects :
       IF sync.pc = "save" /\ sync.got[o] > 0 THEN pushes[o] <= sync.listed[o] + faults
       ELSE /\ pushes[o] <= version[o] + faults
            /\ file[o] # version[o] => pushes[o] + 1 <= version[o] + faults
  /\ \A o \in Objects : o \in sync.todo \/ (sync.pc = "push" /\ sync.got[o] > 0) =>
       pushes[o] + 1 <= sync.listed[o] + faults
  /\ \A o \in sync.todo : sync.got[o] = 0

LEMMA InitCredit == Init => PushCredit
  BY DEF Init, PushCredit, Nothing, NoSync

LEMMA NextCredit == TypeOK /\ CollectorInv /\ PushCredit /\ [Next]_vars => PushCredit'
<1> SUFFICES ASSUME TypeOK, CollectorInv, PushCredit, [Next]_vars PROVE PushCredit'
  OBVIOUS
<1>0. /\ \A o \in Objects : /\ version[o] \in Nat /\ file[o] \in Nat /\ pushes[o] \in Nat
                            /\ sync.listed[o] \in Nat /\ sync.got[o] \in Nat
                            /\ sync.listed[o] <= version[o] /\ file[o] <= version[o]
      /\ sync \in Sync /\ faults \in Nat /\ sync.todo \subseteq Objects
  BY MaxFaultsType DEF TypeOK, Stored, Sync, Statuses, CollectorInv, StoredIsReal, FetchedIsNewer,
     RecordedWasPushed
<1> USE DEF PushCredit
<1>1. ASSUME NEW p \in Objects, Grow(p) PROVE PushCredit'
  <2>1. \A o \in Objects : version'[o] = IF o = p THEN version[o] + 1 ELSE version[o]
    BY <1>1 DEF Grow, TypeOK
  <2> QED
    BY <1>0, <1>1, <2>1 DEF Grow
<1>2. ASSUME NEW p \in Objects, Ends(p) PROVE PushCredit'
  BY <1>2 DEF Ends
\* A fault gives every object the credit that the locals of the call held.
<1>3. ASSUME Fault, version' = version, pushes' = pushes,
             sync'.todo = {}, sync'.pc \in {"idle", "down"}
      PROVE  PushCredit'
  <2>1. faults' = faults + 1
    BY <1>3 DEF Fault
  <2> QED
    BY <1>0, <1>3, <2>1
<1>4. CASE StartSync
  <2>1. /\ sync'.todo = {} /\ sync'.pc = "list" /\ sync.pc = "idle"
        /\ faults' = faults \/ faults' = faults + 1
        /\ UNCHANGED <<version, file, pushes>>
    BY <1>4 DEF StartSync, NoSync, Fault
  <2> QED
    BY <1>0, <2>1
<1>5. CASE ListLogObjects
  <2> DEFINE found == FirstOf({o \in sync.roots : version[o] > 0}, Cap)
  <2>1. /\ sync.pc = "list" /\ UNCHANGED <<version, file, pushes, faults>>
        /\ sync'.pc = "batch"
        /\ \A o \in Objects : o \in sync'.todo <=> o \in found /\ file[o] # version[o]
        /\ \A o \in Objects : o \in found => sync'.listed[o] = version[o]
        /\ \A o \in Objects : sync'.got[o] = 0
        /\ sync'.todo \subseteq Objects
    <3> DEFINE changed == {o \in found : file[o] # version[o]}
    <3>1. found \subseteq Objects /\ Listing(found, changed)
      BY <1>0, <1>5 DEF ListLogObjects, FirstOf, Sync
    <3>2. sync.pc = "list" /\ \A o \in Objects : sync.got[o] = 0
      BY <1>5 DEF ListLogObjects, CollectorInv, FetchedIsNewer
    <3>3. \A o \in Objects : o \in changed <=> o \in found /\ file[o] # version[o]
      BY <3>1
    <3>4. changed \subseteq Objects
      BY <3>1
    <3> HIDE DEF found, changed
    <3>5. /\ sync'.pc = "batch" /\ sync'.todo = changed /\ sync'.got = sync.got
          /\ \A o \in Objects : o \in found => sync'.listed[o] = version[o]
      BY <1>0, <3>1 DEF Listing, Sync
    <3> QED
      BY <1>5, <3>2, <3>3, <3>4, <3>5 DEF ListLogObjects
  <2> HIDE DEF found
  <2> QED
    BY <1>0, <2>1
<1>6. CASE DownloadBatch
  <2> DEFINE B == FirstOf(sync.todo, BatchSize)
  <2>a. PICK read \in SUBSET B :
          Fetched(B, read, sync.skipped \cup (B \ read)) /\ sync.pc = "batch"
    BY <1>6 DEF DownloadBatch
  <2>b. B \subseteq sync.todo /\ B \subseteq Objects
    BY <1>0 DEF FirstOf, Sync
  <2> HIDE DEF B
  <2>1. /\ \A o \in Objects : sync'.got[o] = IF o \in read THEN version[o] ELSE 0
        /\ sync'.listed = sync.listed /\ sync'.todo = sync.todo \ B
        /\ sync'.pc \in {"batch", "push"} /\ sync.pc = "batch"
        /\ read \subseteq sync.todo
    BY <1>0, <2>a, <2>b DEF Fetched, Sync
  <2>2. /\ faults' = faults \/ faults' = faults + 1
        /\ UNCHANGED <<version, file, pushes>>
    BY <1>6 DEF DownloadBatch, Fault
  <2> QED
    BY <1>0, <2>1, <2>2, <2>b
<1>7. ASSUME Accept
      PROVE  \A o \in Objects : pushes'[o] = IF sync.got[o] > 0 THEN pushes[o] + 1 ELSE pushes[o]
  BY <1>7 DEF Accept
<1>8. CASE PushLoki
  <2>1. /\ sync'.pc = "save" /\ sync'.got = sync.got /\ sync'.listed = sync.listed
        /\ sync'.todo = sync.todo /\ sync.pc = "push"
        /\ UNCHANGED <<version, file, faults>> /\ Accept
    BY <1>0, <1>8 DEF PushLoki, Sync
  <2> QED
    BY <1>0, <1>7, <2>1
<1>9. CASE PushUnanswered
  <2>1. /\ sync' = NoSync /\ UNCHANGED <<version, file>> /\ Accept
        /\ faults' = faults + 1 /\ sync.pc = "push"
    BY <1>9 DEF PushUnanswered, Raise, Fault
  <2>2. sync'.todo = {} /\ sync'.pc = "idle"
    BY <2>1 DEF NoSync
  <2> QED
    BY <1>0, <1>7, <2>1, <2>2
<1>10. CASE SaveState
  <2>1. /\ \A o \in Objects : file'[o] = IF sync.got[o] > 0 THEN sync.listed[o] ELSE file[o]
        /\ sync.pc = "save" /\ UNCHANGED <<version, pushes, faults>>
    BY <1>10 DEF SaveState
  <2>2. /\ sync'.pc = "batch" /\ sync'.listed = sync.listed /\ sync'.todo = sync.todo
        /\ \A o \in Objects : sync'.got[o] = 0
    BY <1>0, <1>10 DEF SaveState, Sync, Nothing
  <2> QED
    BY <1>0, <2>1, <2>2
<1>11. CASE CallRaises
  <2>1. sync' = NoSync /\ UNCHANGED <<version, file, pushes>> /\ Fault
    BY <1>11 DEF CallRaises, Raise
  <2>2. sync'.todo = {} /\ sync'.pc = "idle"
    BY <2>1 DEF NoSync
  <2> QED
    BY <1>3, <2>1, <2>2
<1>12. CASE Publish
  <2>1. /\ sync' = NoSync /\ UNCHANGED <<version, file, pushes, faults>> /\ sync.pc = "batch"
    BY <1>12 DEF Publish
  <2>2. sync'.todo = {} /\ sync'.pc = "idle"
    BY <2>1 DEF NoSync
  <2> QED
    BY <1>0, <2>1, <2>2
<1>13. CASE Crash
  <2>1. sync' = [NoSync EXCEPT !.pc = "down"] /\ UNCHANGED <<version, file, pushes>> /\ Fault
    BY <1>13 DEF Crash
  <2>2. sync'.todo = {} /\ sync'.pc = "down"
    BY <2>1 DEF NoSync
  <2> QED
    BY <1>3, <2>1, <2>2
<1>14. CASE Restart
  <2>1. /\ sync' = NoSync /\ sync.pc = "down" /\ UNCHANGED <<version, pushes>>
        /\ UNCHANGED <<file, faults>> \/ Fault
    BY <1>14 DEF Restart
  <2>2. sync'.todo = {} /\ sync'.pc = "idle"
    BY <2>1 DEF NoSync
  <2> QED
    BY <1>0, <1>3, <2>1, <2>2
<1>15. CASE UNCHANGED vars
  BY <1>15 DEF vars
<1> QED
  BY <1>1, <1>2, <1>4, <1>5, <1>6, <1>8, <1>9, <1>10, <1>11, <1>12, <1>13, <1>14, <1>15
     DEF Next, SyncStep

\* Without faults an object is pushed at most once per change of its content.
THEOREM PushedOncePerChange == Spec => []OncePerChange
<1>1. TypeOK /\ CollectorInv /\ PushCredit => OncePerChange
  <2> SUFFICES ASSUME TypeOK, CollectorInv, PushCredit, NEW o \in Objects
               PROVE  pushes[o] <= version[o] + faults
    BY DEF OncePerChange
  <2>1. /\ version[o] \in Nat /\ pushes[o] \in Nat /\ faults \in Nat
        /\ sync.listed[o] \in Nat /\ sync.listed[o] <= version[o]
    BY MaxFaultsType DEF TypeOK, Sync, CollectorInv, FetchedIsNewer
  <2> QED
    BY <2>1 DEF PushCredit
<1> QED
  BY <1>1, InitType, NextType, InitCollector, NextCollector, InitCredit, NextCredit, PTL DEF Spec
-----------------------------------------------------------------------------
(* A call counted: what it has before it.                                  *)
ToFetch == Cardinality(sync.todo)

CallLeft ==
  CASE sync.pc = "list" -> 2 + 3 * NumObjects
    [] sync.pc = "batch" -> 1 + 3 * ToFetch
    [] sync.pc = "push" -> 3 + 3 * ToFetch
    [] sync.pc = "save" -> 2 + 3 * ToFetch
    [] OTHER -> 0

LEMMA ObjectsCounted ==
  ASSUME NEW S \in SUBSET Objects
  PROVE  IsFiniteSet(S) /\ Cardinality(S) \in Nat /\ Cardinality(S) <= NumObjects
<1>1. NumObjects \in Nat /\ 1 \in Int /\ NumObjects \in Int
  BY CollectorAssumption DEF CollectorAssumption
<1>2. /\ IsFiniteSet(1 .. NumObjects)
      /\ Cardinality(1 .. NumObjects) = IF 1 > NumObjects THEN 0 ELSE NumObjects - 1 + 1
  BY ONLY <1>1, FS_Interval
<1>3. IsFiniteSet(Objects) /\ Cardinality(Objects) = NumObjects
  BY <1>1, <1>2 DEF Objects
<1>4. S \subseteq Objects
  OBVIOUS
<1>5. IsFiniteSet(S) /\ Cardinality(S) <= Cardinality(Objects)
  BY ONLY <1>3, <1>4, FS_Subset
<1>6. Cardinality(S) \in Nat
  BY ONLY <1>5, FS_CardinalityType
<1> QED
  BY <1>3, <1>5, <1>6

\* A batch of what is left is never empty: it has the first of it.
LEMMA BatchHasFirst ==
  ASSUME NEW S \in SUBSET Objects, S # {}
  PROVE  FirstOf(S, BatchSize) # {}
<1>1. S \in SUBSET Nat
  BY DEF Objects
<1> DEFINE Less == {pair \in Nat \X Nat : pair[1] < pair[2]}
<1>a. IsWellFoundedOn(Less, Nat)
  BY NatLessThanWellFounded DEF OpToRel
<1>b. PICK o \in S : \A p \in S : <<p, o>> \notin Less
  <2> HIDE DEF Less
  <2> QED
    BY ONLY <1>1, <1>a, S # {}, WFMin
<1>3. {p \in S : p < o} = {}
  <2>1. ASSUME NEW p \in S, p < o PROVE FALSE
    BY <1>1, <1>b, <2>1
  <2> QED
    BY <2>1
<1>4. Cardinality({}) = 0
  BY ONLY FS_EmptySet
<1>5. BatchSize \in Nat /\ BatchSize > 0
  BY CollectorAssumption DEF CollectorAssumption
<1>6. o \in FirstOf(S, BatchSize)
  BY <1>3, <1>4, <1>5 DEF FirstOf
<1> QED
  BY <1>6

LEMMA BatchShrinks ==
  ASSUME NEW S \in SUBSET Objects, S # {}
  PROVE  Cardinality(S \ FirstOf(S, BatchSize)) < Cardinality(S)
<1> DEFINE T == S \ FirstOf(S, BatchSize)
<1>1. T \subseteq S /\ T # S
  BY BatchHasFirst DEF FirstOf
<1>2. IsFiniteSet(S) /\ Cardinality(S) \in Nat
  BY ObjectsCounted
<1>3. /\ Cardinality(T) <= Cardinality(S)
      /\ Cardinality(S) = Cardinality(T) => S = T
  BY <1>1, <1>2, FS_Subset
<1>4. Cardinality(T) \in Nat
  BY <1>1, ObjectsCounted
<1> HIDE DEF T
<1>5. Cardinality(T) < Cardinality(S)
  BY <1>1, <1>2, <1>3, <1>4
<1> QED
  BY <1>5 DEF T

LEMMA CallTypes ==
  ASSUME TypeOK
  PROVE  /\ ToFetch \in Nat /\ ToFetch <= NumObjects /\ NumObjects \in Nat
         /\ CallLeft \in 0 .. 3 + 3 * NumObjects
<1>1. sync.todo \in SUBSET Objects
  BY DEF TypeOK, Sync
<1>2. ToFetch \in Nat /\ ToFetch <= NumObjects /\ NumObjects \in Nat
  BY <1>1, ObjectsCounted, CollectorAssumption DEF ToFetch, CollectorAssumption
<1> QED
  BY <1>2 DEF CallLeft

\* A step of the call at hand, in the terms of its count.
LEMMA CallMoves ==
  ASSUME TypeOK, TypeOK', [Next]_vars
  PROVE  \/ sync' = sync
         \/ sync'.pc \in {"idle", "down"}
         \/ StartSync /\ sync.pc = "idle"
         \/ sync.pc = "list" /\ sync'.pc = "batch"
         \/ sync.pc = "batch" /\ sync'.pc \in {"batch", "push"} /\ ToFetch' < ToFetch
         \/ sync.pc = "push" /\ sync'.pc = "save" /\ ToFetch' = ToFetch
         \/ sync.pc = "save" /\ sync'.pc = "batch" /\ ToFetch' = ToFetch
<1> USE DEF Sync
<1>0. sync \in Sync /\ sync' \in Sync
  BY DEF TypeOK
<1>1. CASE StartSync
  BY <1>1 DEF StartSync
<1>2. CASE ListLogObjects
  BY <1>0, <1>2 DEF ListLogObjects, Listing
<1>3. CASE DownloadBatch
  <2>1. /\ sync.pc = "batch" /\ sync.todo # {} /\ sync'.pc \in {"batch", "push"}
        /\ sync'.todo = sync.todo \ FirstOf(sync.todo, BatchSize)
    BY <1>0, <1>3 DEF DownloadBatch, Fetched
  <2>2. Cardinality(sync'.todo) < Cardinality(sync.todo)
    BY <1>0, <2>1, BatchShrinks
  <2> QED
    BY <2>1, <2>2 DEF ToFetch
<1>4. CASE PushLoki
  BY <1>0, <1>4 DEF PushLoki, ToFetch
<1>5. CASE SaveState
  BY <1>0, <1>5 DEF SaveState, ToFetch
<1>6. CASE Publish \/ CallRaises \/ PushUnanswered \/ Crash \/ Restart
  BY <1>6 DEF Publish, CallRaises, PushUnanswered, Raise, Crash, Restart, NoSync
<1>7. ASSUME NEW o \in Objects, Grow(o) \/ Ends(o) PROVE sync' = sync
  BY <1>7 DEF Grow, Ends
<1> QED
  BY <1>1, <1>2, <1>3, <1>4, <1>5, <1>6, <1>7 DEF Next, SyncStep, vars

\* What Ingested rests on: a call of sync_once is at most two steps and three
\* per object, whatever grows, ends, fails or dies meanwhile, because every
\* batch takes something from what is left (collect_loop, sync_once).
THEOREM CallsAdvance ==
  Spec => /\ [](CallLeft \in 0 .. 3 + 3 * NumObjects)
          /\ [][sync.pc \notin {"idle", "down"} => sync' = sync \/ CallLeft' < CallLeft]_vars
<1>1. TypeOK => CallLeft \in 0 .. 3 + 3 * NumObjects
  BY CallTypes
<1>2. ASSUME TypeOK, TypeOK', [Next]_vars, sync.pc \notin {"idle", "down"}, sync' # sync
      PROVE  CallLeft' < CallLeft
  <2>1. /\ ToFetch \in Nat /\ ToFetch <= NumObjects /\ NumObjects \in Nat
        /\ ToFetch' \in Nat /\ ToFetch' <= NumObjects
    <3>1. sync'.todo \in SUBSET Objects /\ ToFetch' = Cardinality(sync'.todo)
      BY <1>2 DEF TypeOK, Sync, ToFetch
    <3> QED
      BY <1>2, <3>1, ObjectsCounted, CallTypes
  <2>2. sync.pc \in {"list", "batch", "push", "save"}
    BY <1>2 DEF TypeOK, Sync
  <2>3. CASE sync'.pc \in {"idle", "down"}
    BY <2>1, <2>2, <2>3 DEF CallLeft
  <2>4. CASE sync.pc = "list" /\ sync'.pc = "batch"
    BY <2>1, <2>4 DEF CallLeft
  <2>5. CASE sync.pc = "batch" /\ sync'.pc \in {"batch", "push"} /\ ToFetch' < ToFetch
    BY <2>1, <2>5 DEF CallLeft
  <2>6. CASE sync.pc = "push" /\ sync'.pc = "save" /\ ToFetch' = ToFetch
    BY <2>1, <2>6 DEF CallLeft
  <2>7. CASE sync.pc = "save" /\ sync'.pc = "batch" /\ ToFetch' = ToFetch
    BY <2>1, <2>7 DEF CallLeft
  <2> QED
    BY <1>2, <2>2, <2>3, <2>4, <2>5, <2>6, <2>7, CallMoves
<1>3. TypeOK /\ TypeOK' /\ [Next]_vars =>
        [sync.pc \notin {"idle", "down"} => sync' = sync \/ CallLeft' < CallLeft]_vars
  BY <1>2
<1> QED
  BY <1>1, <1>3, InitType, NextType, PTL DEF Spec
=============================================================================
