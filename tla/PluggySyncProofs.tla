-------------------------- MODULE PluggySyncProofs --------------------------
(***************************************************************************)
(* Theorems about PluggySync, for any number of items, users, accounts,    *)
(* jobs and handlers, any retry limit and any number of faults.            *)
(*                                                                         *)
(* IInv is the inductive invariant behind them: types, the agreement of    *)
(* queue and handlers (QueueInv: without it, a retry could exceed the      *)
(* limit and a failure could be booked on the wrong item), and the consent *)
(* invariant (ConsentInv: a row is synced only once its consent exists).   *)
(* WorkInv rests on it: what is left undone on a row always has somebody   *)
(* who will do it, or a dropped or swallowed attempt on record.            *)
(*                                                                         *)
(* IInv does not speak of the DELETE route.  RemovalInv adds what the      *)
(* route's program counter stands for between its three statements; the    *)
(* refinement of ItemLifecycle needs it too, for a route that commits must *)
(* find a row.                                                             *)
(*                                                                         *)
(* UnsyncedInv, last, shows that what FirstConnectSyncs asks for happens   *)
(* in no behaviour.                                                        *)
(***************************************************************************)
EXTENDS PluggySync, TLAPS

\* Consent is on record for whatever can lead to an account being stored: a
\* syncable row and a handler that holds a row.
ConsentInv ==
    /\ ConsentBeforeIngest
    /\ \A i \in Items : isSyncableItemStatus(status[i]) => "GRANTED" \in consents[i]
    /\ \A s \in Slots : Busy(s) => "GRANTED" \in consents[slot[s].item]

\* The queue and its handlers agree: a job waits only while it has attempts
\* left, and an attempt that pg-boss has not given up is the work of one
\* handler, on the row the job names.
QueueInv ==
    /\ \A j \in Jobs :
           /\ job[j].state # "free" => job[j].item \in Items
           /\ Queued(j) => retriesLeft(j)
    /\ \A s \in Slots :
           /\ Busy(s) => slot[s].item \in Items
           /\ slot[s].attached =>
                  /\ Busy(s)
                  /\ slot[s].job \in Jobs
                  /\ job[slot[s].job].state = "active"
                  /\ job[slot[s].job].item = slot[s].item
    /\ \A s, t \in Slots :
           slot[s].attached /\ slot[t].attached /\ slot[s].job = slot[t].job => s = t

IInv == TypeOK /\ QueueInv /\ ConsentInv

\* Next without its grouping, so that a proof has one case per action.
LEMMA NextCases ==
    ASSUME Next
    PROVE  \/ \E i \in Items :
                \/ WidgetLink(i) \/ ConnectInsert(i) \/ ConnectConsent(i)
                \/ ConnectEnqueue(i) \/ ConnectAudit(i) \/ ConnectAbort(i)
                \/ ManualCheck(i) \/ ManualEnqueue(i) \/ ManualAudit(i) \/ ManualAbort(i)
                \/ RemoveRemote(i) \/ RemoveCommit(i) \/ RemoveAudit(i) \/ RemoveAbort(i)
                \/ WebhookEnqueue(i) \/ CooldownEnds(i) \/ GoesStale(i)
                \/ ReconcileEnqueue(i)
           \/ ReconcileSelect \/ ReconcileAbort
           \/ \E j \in Jobs : SkipSync(j) \/ LookupFails(j) \/ \E s \in Slots : StartSync(s, j)
           \/ \E s \in Slots :
                \/ AuditReconnect(s) \/ MarkUpdating(s) \/ FetchAccounts(s)
                \/ UpsertAccounts(s) \/ FetchPage(s) \/ UpsertPage(s)
                \/ Publish(s) \/ EnqueueTransferDetector(s) \/ EnqueueFaturaDetector(s)
                \/ FetchFails(s) \/ AttemptFails(s) \/ Expire(s)
  BY DEF Next, Request, ConnectStep, ManualStep, RemoveStep, Reconcile, Advance, TakeJob

\* The initial states, legacy rows included, satisfy IInv.
LEMMA InitIInv == Init => IInv
<1> SUFFICES ASSUME Init PROVE IInv
  OBVIOUS
<1> USE ConstantsAssumption DEF Init
<1>1. TypeOK
  <2>1. /\ status \in [Items -> ItemStatus \union {"none"}]
        /\ account \in [Accounts -> {"none", "ACTIVE", "DELETED"}]
    BY DEF ItemStatus
  <2>2. /\ lastSynced \in [Items -> {"never", "fresh", "stale"}]
        /\ lastManual \in [Items -> {"never", "recent", "past"}]
        /\ consents \in [Items -> SUBSET {"GRANTED", "REVOKED"}]
        /\ remote \in [Items -> {"absent", "linked", "deleted"}]
        /\ undetected \in [Items -> SUBSET Detectors]
        /\ lapses \in [Items -> SUBSET {"dropped", "swallowed"}]
    OBVIOUS
  <2>3. /\ connect \in [Items -> {"idle", "inserted", "consented", "enqueued"}]
        /\ manual \in [Items -> {"idle", "checked", "enqueued"}]
        /\ remove \in [Items -> {"idle", "remoteDeleted", "committed"}]
        /\ reconcileTodo \subseteq Items
        /\ raced \subseteq Items
        /\ faults \in 0..MaxFaults
    OBVIOUS
  <2>4. audit \subseteq {"item_connected", "manual_sync_triggered", "item_disconnected",
                         "cooldown_bypassed"} \X Items
    OBVIOUS
  <2>5. job \in [Jobs -> JobRecord]
    BY DEF FreeJob, JobRecord, Trigger
  <2>6. slot \in [Slots -> SlotRecord]
    BY DEF IdleSlot, SlotRecord, Trigger
  <2>7. QED
    BY <2>1, <2>2, <2>3, <2>4, <2>5, <2>6 DEF TypeOK
<1>2. QueueInv
  BY DEF QueueInv, FreeJob, IdleSlot, Busy, Queued
<1>3. ConsentInv
  BY DEF ConsentInv, ConsentBeforeIngest, isSyncableItemStatus, ItemStatus, Busy, IdleSlot
<1>4. QED
  BY <1>1, <1>2, <1>3 DEF IInv

-----------------------------------------------------------------------------
(* What the operators that touch the queue preserve *)

QueueTypeOK ==
    /\ job \in [Jobs -> JobRecord]
    /\ slot \in [Slots -> SlotRecord]
    /\ lapses \in [Items -> SUBSET {"dropped", "swallowed"}]

\* Free jobs and idle handlers are records of the right type.
LEMMA NullRecords == FreeJob \in JobRecord /\ IdleSlot \in SlotRecord
  BY ConstantsAssumption DEF FreeJob, IdleSlot, JobRecord, SlotRecord, Trigger

\* enqueue adds a job for a row and disturbs no attempt under way.
LEMMA EnqueuePreserves ==
    ASSUME QueueTypeOK, QueueInv, NEW i \in Items, NEW t \in Trigger, enqueue(i, t),
           UNCHANGED <<slot, lapses>>
    PROVE  QueueTypeOK' /\ QueueInv'
<1> USE ConstantsAssumption
<1>1. PICK j \in Jobs : /\ job[j].state = "free"
                        /\ job' = [job EXCEPT ![j] = [state |-> "created", item |-> i,
                                                      trigger |-> t, tries |-> 0]]
  BY DEF enqueue
<1>2. QueueTypeOK'
  BY <1>1 DEF QueueTypeOK, JobRecord
<1>3. QueueInv'
  BY <1>1 DEF QueueInv, QueueTypeOK, JobRecord, SlotRecord, Queued, retriesLeft, Busy
<1>4. QED
  BY <1>2, <1>3

\* What pg-boss does with a given-up attempt keeps the records well-typed.
LEMMA FailJobType ==
    ASSUME QueueTypeOK, NEW j \in Jobs, job[j].item \in Items, failJob(j)
    PROVE  /\ job' \in [Jobs -> JobRecord]
           /\ lapses' \in [Items -> SUBSET {"dropped", "swallowed"}]
<1>1. [job[j] EXCEPT !.state = "created"] \in JobRecord
  BY DEF QueueTypeOK, JobRecord
<1>2. job' \in [Jobs -> JobRecord]
  BY <1>1, NullRecords DEF failJob, QueueTypeOK
<1>3. lapses' \in [Items -> SUBSET {"dropped", "swallowed"}]
  BY DEF failJob, QueueTypeOK
<1>4. QED
  BY <1>2, <1>3

\* A failed attempt of a handler ends it, and settles or requeues its job.
LEMMA RethrowPreserves ==
    ASSUME QueueTypeOK, QueueInv, NEW s \in Slots, Busy(s), rethrow(s)
    PROVE  QueueTypeOK' /\ QueueInv'
<1> USE ConstantsAssumption
<1>0. slot' \in [Slots -> SlotRecord] /\ slot' = [slot EXCEPT ![s] = IdleSlot]
  BY NullRecords DEF rethrow, QueueTypeOK
<1>1. CASE slot[s].attached
  <2>0. slot[s].job \in Jobs /\ job[slot[s].job].item \in Items /\ failJob(slot[s].job)
    BY <1>1 DEF QueueInv, rethrow
  <2>1. QueueTypeOK'
    BY <1>0, <2>0, FailJobType DEF QueueTypeOK
  <2>2. QueueInv'
    BY <1>0, <1>1, <2>0 DEF failJob, retriesLeft, QueueTypeOK, QueueInv, JobRecord, SlotRecord,
                FreeJob, IdleSlot, Queued, Busy
  <2>3. QED
    BY <2>1, <2>2
<1>2. CASE ~slot[s].attached
  <2>0. /\ job' = job
        /\ slot[s].item \in Items
        /\ lapses' = [lapses EXCEPT ![slot[s].item] = @ \union {"dropped"}]
    BY <1>2 DEF rethrow, QueueInv
  <2>1. QueueTypeOK'
    BY <1>0, <2>0 DEF QueueTypeOK
  <2>2. QueueInv'
    BY <1>0, <1>2, <2>0 DEF retriesLeft, QueueTypeOK, QueueInv, SlotRecord, IdleSlot, Queued, Busy
  <2>3. QED
    BY <2>1, <2>2
<1>3. QED
  BY <1>1, <1>2

-----------------------------------------------------------------------------
(* Types and queue: one case per action *)

RestTypeOK ==
    /\ status \in [Items -> ItemStatus \union {"none"}]
    /\ lastSynced \in [Items -> {"never", "fresh", "stale"}]
    /\ lastManual \in [Items -> {"never", "recent", "past"}]
    /\ consents \in [Items -> SUBSET {"GRANTED", "REVOKED"}]
    /\ account \in [Accounts -> {"none", "ACTIVE", "DELETED"}]
    /\ remote \in [Items -> {"absent", "linked", "deleted"}]
    /\ undetected \in [Items -> SUBSET Detectors]
    /\ audit \subseteq {"item_connected", "manual_sync_triggered", "item_disconnected",
                        "cooldown_bypassed"} \X Items
    /\ connect \in [Items -> {"idle", "inserted", "consented", "enqueued"}]
    /\ manual \in [Items -> {"idle", "checked", "enqueued"}]
    /\ remove \in [Items -> {"idle", "remoteDeleted", "committed"}]
    /\ reconcileTodo \subseteq Items
    /\ raced \subseteq Items
    /\ faults \in 0..MaxFaults

\* TypeOK in two parts: the queue with its handlers, and the rest.
LEMMA TypeSplit == /\ TypeOK <=> RestTypeOK /\ QueueTypeOK
                   /\ TypeOK' <=> RestTypeOK' /\ QueueTypeOK'
  BY DEF TypeOK, RestTypeOK, QueueTypeOK

\* A step that leaves queue and handlers alone keeps their invariants.
LEMMA QueueFrame ==
    ASSUME QueueTypeOK, QueueInv, UNCHANGED <<job, slot, lapses>>
    PROVE  QueueTypeOK' /\ QueueInv'
  BY DEF QueueTypeOK, QueueInv, Queued, Busy, retriesLeft

\* The requests, the webhook receiver, the cron and the clock.
LEMMA RequestTypes ==
    ASSUME RestTypeOK, QueueTypeOK, QueueInv, NEW i \in Items,
           \/ WidgetLink(i) \/ ConnectInsert(i) \/ ConnectConsent(i)
           \/ ConnectEnqueue(i) \/ ConnectAudit(i) \/ ConnectAbort(i)
           \/ ManualCheck(i) \/ ManualEnqueue(i) \/ ManualAudit(i) \/ ManualAbort(i)
           \/ RemoveRemote(i) \/ RemoveCommit(i) \/ RemoveAudit(i) \/ RemoveAbort(i)
           \/ WebhookEnqueue(i) \/ CooldownEnds(i) \/ GoesStale(i)
           \/ ReconcileEnqueue(i)
    PROVE  RestTypeOK' /\ QueueTypeOK' /\ QueueInv'
<1> USE ConstantsAssumption DEF rowVars, ingestVars, requestVars, queueVars
<1>1. CASE WidgetLink(i)
  BY <1>1, QueueFrame DEF WidgetLink, RestTypeOK
<1>2. CASE ConnectInsert(i)
  BY <1>2, QueueFrame DEF ConnectInsert, RestTypeOK, ItemStatus
<1>3. CASE ConnectConsent(i)
  BY <1>3, QueueFrame DEF ConnectConsent, RestTypeOK
<1>4. CASE ConnectEnqueue(i)
  BY <1>4, EnqueuePreserves DEF ConnectEnqueue, RestTypeOK, Trigger
<1>5. CASE ConnectAudit(i)
  BY <1>5, QueueFrame DEF ConnectAudit, RestTypeOK
<1>6. CASE ConnectAbort(i)
  BY <1>6, QueueFrame DEF ConnectAbort, RestTypeOK
<1>7. CASE ManualCheck(i)
  BY <1>7, QueueFrame DEF ManualCheck, RestTypeOK
<1>8. CASE ManualEnqueue(i)
  BY <1>8, EnqueuePreserves DEF ManualEnqueue, RestTypeOK, Trigger
<1>9. CASE ManualAudit(i)
  BY <1>9, QueueFrame DEF ManualAudit, RestTypeOK
<1>10. CASE ManualAbort(i)
  BY <1>10, QueueFrame DEF ManualAbort, RestTypeOK
<1>11. CASE RemoveRemote(i)
  BY <1>11, QueueFrame DEF RemoveRemote, RestTypeOK
<1>12. CASE RemoveCommit(i)
  BY <1>12, QueueFrame DEF RemoveCommit, RestTypeOK, ItemStatus
<1>13. CASE RemoveAudit(i)
  BY <1>13, QueueFrame DEF RemoveAudit, RestTypeOK
<1>14. CASE RemoveAbort(i)
  BY <1>14, QueueFrame DEF RemoveAbort, RestTypeOK
<1>15. CASE WebhookEnqueue(i)
  <2>1. PICK t \in WebhookTriggers : enqueue(i, t)
    BY <1>15 DEF WebhookEnqueue
  <2>2. t \in Trigger
    BY DEF Trigger
  <2>3. QED
    BY <1>15, <2>1, <2>2, EnqueuePreserves DEF WebhookEnqueue, RestTypeOK
<1>16. CASE CooldownEnds(i)
  BY <1>16, QueueFrame DEF CooldownEnds, RestTypeOK
<1>17. CASE GoesStale(i)
  BY <1>17, QueueFrame DEF GoesStale, RestTypeOK
<1>18. CASE ReconcileEnqueue(i)
  BY <1>18, EnqueuePreserves DEF ReconcileEnqueue, RestTypeOK, Trigger
<1>19. QED
  BY <1>1, <1>2, <1>3, <1>4, <1>5, <1>6, <1>7, <1>8, <1>9, <1>10, <1>11, <1>12, <1>13,
     <1>14, <1>15, <1>16, <1>17, <1>18

\* The cron's SELECT and the steps of the queue and its handlers.
LEMMA WorkerTypes ==
    ASSUME RestTypeOK, QueueTypeOK, QueueInv,
           \/ ReconcileSelect \/ ReconcileAbort
           \/ \E j \in Jobs : SkipSync(j) \/ LookupFails(j) \/ \E s \in Slots : StartSync(s, j)
           \/ \E s \in Slots :
                \/ AuditReconnect(s) \/ MarkUpdating(s) \/ FetchAccounts(s)
                \/ UpsertAccounts(s) \/ FetchPage(s) \/ UpsertPage(s)
                \/ Publish(s) \/ EnqueueTransferDetector(s) \/ EnqueueFaturaDetector(s)
                \/ FetchFails(s) \/ AttemptFails(s) \/ Expire(s)
    PROVE  RestTypeOK' /\ QueueTypeOK' /\ QueueInv'
<1> USE ConstantsAssumption DEF rowVars, ingestVars, requestVars, queueVars
<1>1. CASE ReconcileSelect
  BY <1>1, QueueFrame DEF ReconcileSelect, RestTypeOK
<1>2. CASE ReconcileAbort
  BY <1>2, QueueFrame DEF ReconcileAbort, RestTypeOK
<1>3. ASSUME NEW j \in Jobs, SkipSync(j)
      PROVE  RestTypeOK' /\ QueueTypeOK' /\ QueueInv'
  <2>1. RestTypeOK'
    BY <1>3 DEF SkipSync, RestTypeOK
  <2>2. QueueTypeOK'
    <3>1. job[j].item \in Items
      BY <1>3 DEF SkipSync, Queued, QueueInv
    <3>2. job' \in [Jobs -> JobRecord]
      BY <1>3, NullRecords DEF SkipSync, QueueTypeOK
    <3>3. lapses' \in [Items -> SUBSET {"dropped", "swallowed"}]
      BY <1>3, <3>1 DEF SkipSync, QueueTypeOK
    <3>4. QED
      BY <1>3, <3>2, <3>3 DEF SkipSync, QueueTypeOK
  <2>3. QueueInv'
    BY <1>3 DEF SkipSync, QueueInv, QueueTypeOK, JobRecord, SlotRecord, FreeJob, Queued, Busy,
                retriesLeft
  <2>4. QED
    BY <2>1, <2>2, <2>3
<1>12. ASSUME NEW j \in Jobs, LookupFails(j)
       PROVE  RestTypeOK' /\ QueueTypeOK' /\ QueueInv'
  <2> DEFINE again == [job[j] EXCEPT !.tries = job[j].tries + 1]
  <2>1. RestTypeOK'
    BY <1>12 DEF LookupFails, RestTypeOK
  <2>2. job[j].item \in Items /\ job[j].tries \in 0..(RetryLimit + 1) /\ job[j] \in JobRecord
    BY <1>12 DEF LookupFails, Queued, QueueInv, QueueTypeOK, JobRecord
  <2>3. job[j].tries < RetryLimit =>
            /\ again \in JobRecord /\ again.tries = job[j].tries + 1
            /\ again.state = job[j].state /\ again.item = job[j].item
    BY <2>2 DEF JobRecord
  <2>4. job' = [job EXCEPT ![j] = IF job[j].tries < RetryLimit THEN again ELSE FreeJob]
    BY <1>12 DEF LookupFails
  <2> HIDE DEF again
  <2>5. QueueTypeOK'
    <3>1. job' \in [Jobs -> JobRecord]
      BY <2>3, <2>4, NullRecords DEF QueueTypeOK
    <3>2. lapses' \in [Items -> SUBSET {"dropped", "swallowed"}]
      BY <1>12, <2>2 DEF LookupFails, QueueTypeOK
    <3>3. QED
      BY <1>12, <3>1, <3>2 DEF LookupFails, QueueTypeOK
  <2>6. /\ \A k \in Jobs \ {j} : job'[k] = job[k]
        /\ job'[j].state # "free" => /\ job'[j].item = job[j].item
                                     /\ job'[j].tries = job[j].tries + 1
                                     /\ job[j].tries < RetryLimit
        /\ job[j].state = "created" /\ UNCHANGED slot
    <3>1. job \in [Jobs -> JobRecord] /\ job[j].state = "created" /\ UNCHANGED slot
      BY <1>12 DEF LookupFails, Queued, QueueTypeOK
    <3>2. /\ \A k \in Jobs \ {j} : job'[k] = job[k]
          /\ job'[j] = IF job[j].tries < RetryLimit THEN again ELSE FreeJob
      BY <2>4, <3>1
    <3>3. FreeJob.state = "free"
      BY DEF FreeJob
    <3>4. QED
      BY <2>3, <3>1, <3>2, <3>3
  <2>7. QueueInv'
    BY <2>2, <2>6 DEF QueueInv, Queued, Busy, retriesLeft
  <2>8. QED
    BY <2>1, <2>5, <2>7
<1>4. ASSUME NEW j \in Jobs, NEW s \in Slots, StartSync(s, j)
      PROVE  RestTypeOK' /\ QueueTypeOK' /\ QueueInv'
  <2>2. job[j].item \in Items /\ job[j].tries \in 0..RetryLimit
    BY <1>4 DEF StartSync, Queued, retriesLeft, QueueInv, QueueTypeOK, JobRecord
  <2>1. RestTypeOK'
    BY <1>4, <2>2 DEF StartSync, RestTypeOK
  <2>3. QueueTypeOK'
    BY <1>4, <2>2 DEF StartSync, QueueTypeOK, JobRecord, SlotRecord
  <2>4. QueueInv'
    BY <1>4, <2>2 DEF StartSync, QueueInv, QueueTypeOK, JobRecord, SlotRecord, Queued, Busy,
                      retriesLeft
  <2>5. QED
    BY <2>1, <2>3, <2>4
<1>5. ASSUME NEW s \in Slots, NEW pc \in {"audited", "marked", "listed", "ingesting",
                                          "fetched", "published", "transferQueued"},
             Busy(s), slot' = [slot EXCEPT ![s].pc = pc], UNCHANGED <<job, lapses>>
      PROVE  QueueTypeOK' /\ QueueInv'
  <2>1. QueueTypeOK'
    BY <1>5 DEF QueueTypeOK, SlotRecord
  <2>2. QueueInv'
    BY <1>5 DEF QueueInv, QueueTypeOK, SlotRecord, Queued, Busy, retriesLeft
  <2>3. QED
    BY <2>1, <2>2
<1>6. ASSUME NEW s \in Slots, Busy(s), slot[s].item \in Items,
             \/ AuditReconnect(s) \/ MarkUpdating(s) \/ FetchAccounts(s)
             \/ UpsertAccounts(s) \/ FetchPage(s) \/ UpsertPage(s)
             \/ Publish(s) \/ EnqueueTransferDetector(s)
      PROVE  RestTypeOK' /\ QueueTypeOK' /\ QueueInv'
  <2>1. CASE AuditReconnect(s)
    <3>1. RestTypeOK'
      BY <1>6, <2>1 DEF AuditReconnect, RestTypeOK
    <3>2. QueueTypeOK' /\ QueueInv'
      BY <1>5, <1>6, <2>1 DEF AuditReconnect
    <3>3. QED
      BY <3>1, <3>2
  <2>2. CASE MarkUpdating(s)
    <3>1. RestTypeOK'
      BY <1>6, <2>2 DEF MarkUpdating, RestTypeOK, ItemStatus
    <3>2. QueueTypeOK' /\ QueueInv'
      BY <1>5, <1>6, <2>2 DEF MarkUpdating
    <3>3. QED
      BY <3>1, <3>2
  <2>3. CASE UpsertAccounts(s)
    <3>1. RestTypeOK'
      BY <1>6, <2>3 DEF UpsertAccounts, RestTypeOK, upsertedStatus
    <3>2. QueueTypeOK' /\ QueueInv'
      BY <1>5, <1>6, <2>3 DEF UpsertAccounts
    <3>3. QED
      BY <3>1, <3>2
  <2>4. CASE FetchAccounts(s) \/ FetchPage(s) \/ UpsertPage(s)
    <3>1. RestTypeOK'
      BY <1>6, <2>4 DEF FetchAccounts, FetchPage, UpsertPage, RestTypeOK
    <3>2. QueueTypeOK' /\ QueueInv'
      BY <1>5, <1>6, <2>4 DEF FetchAccounts, FetchPage, UpsertPage
    <3>3. QED
      BY <3>1, <3>2
  <2>5. CASE Publish(s)
    <3>1. RestTypeOK'
      BY <1>6, <2>5 DEF Publish, RestTypeOK, ItemStatus
    <3>2. QueueTypeOK' /\ QueueInv'
      BY <1>5, <1>6, <2>5 DEF Publish
    <3>3. QED
      BY <3>1, <3>2
  <2>6. CASE EnqueueTransferDetector(s)
    <3>1. RestTypeOK'
      BY <1>6, <2>6 DEF EnqueueTransferDetector, RestTypeOK, detect
    <3>2. QueueTypeOK' /\ QueueInv'
      BY <1>5, <1>6, <2>6 DEF EnqueueTransferDetector
    <3>3. QED
      BY <3>1, <3>2
  <2>7. QED
    BY <1>6, <2>1, <2>2, <2>3, <2>4, <2>5, <2>6
<1>7. ASSUME NEW s \in Slots, EnqueueFaturaDetector(s)
      PROVE  RestTypeOK' /\ QueueTypeOK' /\ QueueInv'
  <2>1. RestTypeOK'
    BY <1>7 DEF EnqueueFaturaDetector, detect, RestTypeOK
  <2>2. slot' = [slot EXCEPT ![s] = IdleSlot] /\ lapses' = lapses
    BY <1>7 DEF EnqueueFaturaDetector
  <2>3. CASE slot[s].attached
    <3>1. slot[s].job \in Jobs /\ job' = [job EXCEPT ![slot[s].job] = FreeJob]
      BY <1>7, <2>3 DEF EnqueueFaturaDetector, QueueInv
    <3>2. QueueTypeOK'
      BY <2>2, <3>1, NullRecords DEF QueueTypeOK
    <3>3. QueueInv'
      BY <2>2, <2>3, <3>1 DEF QueueInv, QueueTypeOK, JobRecord, SlotRecord, FreeJob, IdleSlot,
                              Queued, Busy, retriesLeft
    <3>4. QED
      BY <2>1, <3>2, <3>3
  <2>4. CASE ~slot[s].attached
    <3>1. job' = job
      BY <1>7, <2>4 DEF EnqueueFaturaDetector
    <3>2. QueueTypeOK'
      BY <2>2, <3>1, NullRecords DEF QueueTypeOK
    <3>3. QueueInv'
      BY <2>2, <2>4, <3>1 DEF QueueInv, QueueTypeOK, SlotRecord, IdleSlot, Queued, Busy,
                              retriesLeft
    <3>4. QED
      BY <2>1, <3>2, <3>3
  <2>5. QED
    BY <2>3, <2>4
<1>8. ASSUME NEW s \in Slots, FetchFails(s) \/ AttemptFails(s)
      PROVE  RestTypeOK' /\ QueueTypeOK' /\ QueueInv'
  <2>1. RestTypeOK'
    BY <1>8 DEF FetchFails, AttemptFails, RestTypeOK
  <2>2. Busy(s) /\ rethrow(s)
    BY <1>8 DEF FetchFails, AttemptFails, Busy
  <2>3. QED
    BY <2>1, <2>2, RethrowPreserves
<1>9. ASSUME NEW s \in Slots, Expire(s)
      PROVE  RestTypeOK' /\ QueueTypeOK' /\ QueueInv'
  <2>1. RestTypeOK'
    BY <1>9 DEF Expire, RestTypeOK
  <2>2. /\ slot[s].attached /\ slot[s].job \in Jobs /\ job[slot[s].job].item \in Items
        /\ failJob(slot[s].job) /\ slot' = [slot EXCEPT ![s].attached = FALSE]
    BY <1>9 DEF Expire, QueueInv
  <2>3. slot' \in [Slots -> SlotRecord]
    <3>1. [slot[s] EXCEPT !.attached = FALSE] \in SlotRecord
      BY DEF QueueTypeOK, SlotRecord
    <3>2. slot' = [slot EXCEPT ![s] = [slot[s] EXCEPT !.attached = FALSE]]
      BY <2>2 DEF QueueTypeOK
    <3>3. QED
      BY <3>1, <3>2 DEF QueueTypeOK
  <2>4. QueueTypeOK'
    BY <2>2, <2>3, FailJobType DEF QueueTypeOK
  <2>5. QueueInv'
    BY <2>2 DEF failJob, retriesLeft, QueueTypeOK, QueueInv, JobRecord, SlotRecord, FreeJob,
                Queued, Busy
  <2>6. QED
    BY <2>1, <2>4, <2>5
<1>10. ASSUME NEW s \in Slots,
              \/ AuditReconnect(s) \/ MarkUpdating(s) \/ FetchAccounts(s)
              \/ UpsertAccounts(s) \/ FetchPage(s) \/ UpsertPage(s)
              \/ Publish(s) \/ EnqueueTransferDetector(s)
       PROVE  Busy(s) /\ slot[s].item \in Items
  BY <1>10 DEF AuditReconnect, MarkUpdating, readyToMark, FetchAccounts, UpsertAccounts,
               FetchPage, UpsertPage, Publish, EnqueueTransferDetector, Busy, QueueInv
<1>11. QED
  BY <1>1, <1>2, <1>3, <1>4, <1>6, <1>7, <1>8, <1>9, <1>10, <1>12

-----------------------------------------------------------------------------
(* Consent: one case per action that touches a row, an account or a handler *)

\* A step that adds no account, no syncable row and no busy handler, and
\* loses no consent row, keeps ConsentInv.
LEMMA ConsentFrame ==
    ASSUME ConsentInv,
           \A a \in Accounts : account'[a] # "none" => account[a] # "none",
           \A i \in Items : isSyncableItemStatus(status'[i]) => isSyncableItemStatus(status[i]),
           \A i \in Items : consents[i] \subseteq consents'[i],
           \A s \in Slots : slot'[s].pc # "idle" =>
                                Busy(s) /\ slot'[s].item = slot[s].item,
           \A s \in Slots : Busy(s) => slot[s].item \in Items
    PROVE  ConsentInv'
  BY ConstantsAssumption DEF ConsentInv, ConsentBeforeIngest, Busy, isSyncableItemStatus

\* The requests, the webhook receiver, the cron and the clock.
LEMMA RequestConsent ==
    ASSUME IInv, NEW i \in Items,
           \/ WidgetLink(i) \/ ConnectInsert(i) \/ ConnectConsent(i)
           \/ ConnectEnqueue(i) \/ ConnectAudit(i) \/ ConnectAbort(i)
           \/ ManualCheck(i) \/ ManualEnqueue(i) \/ ManualAudit(i) \/ ManualAbort(i)
           \/ RemoveRemote(i) \/ RemoveCommit(i) \/ RemoveAudit(i) \/ RemoveAbort(i)
           \/ WebhookEnqueue(i) \/ CooldownEnds(i) \/ GoesStale(i)
           \/ ReconcileEnqueue(i)
    PROVE  ConsentInv'
<1> USE ConstantsAssumption DEF IInv, rowVars, ingestVars, requestVars, queueVars
<1>1. CASE ConnectInsert(i)
  BY <1>1, ConsentFrame DEF ConnectInsert, isSyncableItemStatus, SYNC_BLOCKED, TypeOK,
                            QueueInv, Busy
<1>2. CASE ConnectConsent(i)
  BY <1>2, ConsentFrame DEF ConnectConsent, TypeOK, QueueInv, Busy
<1>3. CASE RemoveCommit(i)
  BY <1>3, ConsentFrame DEF RemoveCommit, isSyncableItemStatus, SYNC_BLOCKED, TypeOK,
                            QueueInv, Busy
<1>4. ASSUME UNCHANGED <<status, account, consents, slot>>
      PROVE  ConsentInv'
  BY <1>4, ConsentFrame DEF QueueInv, Busy
<1>5. CASE \/ WidgetLink(i) \/ ConnectEnqueue(i) \/ ConnectAudit(i) \/ ConnectAbort(i)
           \/ ManualCheck(i) \/ ManualEnqueue(i) \/ ManualAudit(i) \/ ManualAbort(i)
           \/ RemoveRemote(i) \/ RemoveAudit(i) \/ RemoveAbort(i)
           \/ WebhookEnqueue(i) \/ CooldownEnds(i) \/ GoesStale(i) \/ ReconcileEnqueue(i)
  BY <1>4, <1>5 DEF WidgetLink, ConnectEnqueue, ConnectAudit, ConnectAbort, ManualCheck,
                    ManualEnqueue, ManualAudit, ManualAbort, RemoveRemote, RemoveAudit,
                    RemoveAbort, WebhookEnqueue, CooldownEnds, GoesStale, ReconcileEnqueue
<1>6. QED
  BY <1>1, <1>2, <1>3, <1>5

\* The cron's SELECT and the steps of the queue and its handlers.
LEMMA WorkerConsent ==
    ASSUME IInv,
           \/ ReconcileSelect \/ ReconcileAbort
           \/ \E j \in Jobs : SkipSync(j) \/ LookupFails(j) \/ \E s \in Slots : StartSync(s, j)
           \/ \E s \in Slots :
                \/ AuditReconnect(s) \/ MarkUpdating(s) \/ FetchAccounts(s)
                \/ UpsertAccounts(s) \/ FetchPage(s) \/ UpsertPage(s)
                \/ Publish(s) \/ EnqueueTransferDetector(s) \/ EnqueueFaturaDetector(s)
                \/ FetchFails(s) \/ AttemptFails(s) \/ Expire(s)
    PROVE  ConsentInv'
<1> USE ConstantsAssumption DEF IInv, rowVars, ingestVars, requestVars, queueVars
<1>1. \A s \in Slots : Busy(s) => slot[s].item \in Items
  BY DEF QueueInv
<1>2. ASSUME UNCHANGED <<status, account, consents, slot>>
      PROVE  ConsentInv'
  BY <1>1, <1>2, ConsentFrame DEF Busy
<1>3. CASE ReconcileSelect \/ ReconcileAbort \/ \E j \in Jobs : SkipSync(j) \/ LookupFails(j)
  BY <1>2, <1>3 DEF ReconcileSelect, ReconcileAbort, SkipSync, LookupFails
<1>4. ASSUME NEW j \in Jobs, NEW s \in Slots, StartSync(s, j)
      PROVE  ConsentInv'
  <2>1. job[j].item \in Items /\ "GRANTED" \in consents[job[j].item]
    BY <1>4 DEF StartSync, Queued, QueueInv, ConsentInv
  <2>2. slot' = [slot EXCEPT ![s] = [pc |-> "resolved", item |-> job[j].item,
                                     trigger |-> job[j].trigger, job |-> j,
                                     attached |-> TRUE]]
        /\ UNCHANGED <<status, account, consents>>
    BY <1>4 DEF StartSync
  <2>3. \A t \in Slots : t # s => slot'[t] = slot[t]
    BY <2>2 DEF TypeOK
  <2>4. slot'[s].item = job[j].item
    BY <2>2 DEF TypeOK
  <2>5. \A t \in Slots : slot'[t].pc # "idle" => "GRANTED" \in consents'[slot'[t].item]
    BY <2>1, <2>2, <2>3, <2>4 DEF ConsentInv, Busy
  <2>6. QED
    BY <2>2, <2>5 DEF ConsentInv, ConsentBeforeIngest, Busy, isSyncableItemStatus
<1>5. ASSUME NEW s \in Slots, NEW pc, Busy(s), slot' = [slot EXCEPT ![s].pc = pc]
      PROVE  \A t \in Slots : slot'[t].pc # "idle" => Busy(t) /\ slot'[t].item = slot[t].item
  <2>1. \A t \in Slots : t # s => slot'[t] = slot[t]
    BY <1>5 DEF TypeOK
  <2>2. slot'[s].item = slot[s].item
    BY <1>5 DEF TypeOK, SlotRecord
  <2>3. QED
    BY <1>5, <2>1, <2>2 DEF Busy
<1>6. ASSUME NEW s \in Slots, slot' = [slot EXCEPT ![s] = IdleSlot],
             UNCHANGED <<status, account, consents>>
      PROVE  ConsentInv'
  <2>1. \A t \in Slots : slot'[t].pc # "idle" => Busy(t) /\ slot'[t].item = slot[t].item
    BY <1>6 DEF TypeOK, IdleSlot, Busy
  <2>2. QED
    BY <1>1, <1>6, <2>1, ConsentFrame
<1>7. ASSUME NEW s \in Slots,
             \/ AuditReconnect(s) \/ MarkUpdating(s) \/ FetchAccounts(s) \/ FetchPage(s)
             \/ UpsertPage(s) \/ EnqueueTransferDetector(s)
      PROVE  ConsentInv'
  <2>1. Busy(s) /\ \E pc : slot' = [slot EXCEPT ![s].pc = pc]
    BY <1>7 DEF AuditReconnect, MarkUpdating, readyToMark, FetchAccounts, FetchPage, UpsertPage,
                EnqueueTransferDetector, Busy
  <2>2. \A t \in Slots : slot'[t].pc # "idle" => Busy(t) /\ slot'[t].item = slot[t].item
    BY <1>5, <2>1
  <2>3. /\ UNCHANGED <<account, consents>>
        /\ \A i \in Items : isSyncableItemStatus(status'[i]) => isSyncableItemStatus(status[i])
    BY <1>7 DEF AuditReconnect, MarkUpdating, FetchAccounts, FetchPage, UpsertPage,
                EnqueueTransferDetector, TypeOK,
                isSyncableItemStatus, SYNC_BLOCKED
  <2>4. QED
    BY <1>1, <2>2, <2>3, ConsentFrame
<1>8. ASSUME NEW s \in Slots, UpsertAccounts(s)
      PROVE  ConsentInv'
  <2>1. /\ Busy(s) /\ UNCHANGED <<status, consents>>
        /\ \E pc \in {"listed", "ingesting"} : slot' = [slot EXCEPT ![s].pc = pc]
    BY <1>8 DEF UpsertAccounts, Busy
  <2>2. \A t \in Slots : slot'[t].pc # "idle" => Busy(t) /\ slot'[t].item = slot[t].item
    BY <1>5, <2>1
  <2>3. "GRANTED" \in consents[slot[s].item]
    BY <2>1 DEF ConsentInv
  <2>4. \A a \in Accounts : account'[a] # "none" => account[a] # "none" \/ ItemOf[a] = slot[s].item
    BY <1>8 DEF UpsertAccounts
  <2>5. \A a \in Accounts : account'[a] # "none" => "GRANTED" \in consents'[ItemOf[a]]
    BY <2>1, <2>3, <2>4 DEF ConsentInv, ConsentBeforeIngest
  <2>6. QED
    BY <2>1, <2>2, <2>5 DEF ConsentInv, ConsentBeforeIngest, Busy, isSyncableItemStatus
<1>9. ASSUME NEW s \in Slots, Publish(s)
       PROVE  ConsentInv'
  <2>1. /\ Busy(s)
        /\ slot' = [slot EXCEPT ![s].pc = "published"]
        /\ status' = [status EXCEPT ![slot[s].item] = "UPDATED"]
        /\ UNCHANGED <<account, consents>>
    BY <1>9 DEF Publish, Busy
  <2>2. \A t \in Slots : slot'[t].pc # "idle" => Busy(t) /\ slot'[t].item = slot[t].item
    BY <1>5, <2>1
  <2>3. "GRANTED" \in consents[slot[s].item]
    BY <2>1 DEF ConsentInv
  <2>4. \A i \in Items : isSyncableItemStatus(status'[i]) => "GRANTED" \in consents'[i]
    BY <2>1, <2>3 DEF ConsentInv, TypeOK, isSyncableItemStatus
  <2>5. QED
    BY <2>1, <2>2, <2>4 DEF ConsentInv, ConsentBeforeIngest, Busy
<1>10. ASSUME NEW s \in Slots, EnqueueFaturaDetector(s) \/ FetchFails(s) \/ AttemptFails(s)
       PROVE  ConsentInv'
  BY <1>6, <1>10 DEF EnqueueFaturaDetector, FetchFails, AttemptFails, rethrow
<1>11. ASSUME NEW s \in Slots, Expire(s)
       PROVE  ConsentInv'
  <2>1. \A t \in Slots : slot'[t].pc = slot[t].pc /\ slot'[t].item = slot[t].item
    BY <1>11 DEF Expire, TypeOK, SlotRecord
  <2>2. UNCHANGED <<status, account, consents>>
    BY <1>11 DEF Expire
  <2>3. QED
    BY <1>1, <2>1, <2>2, ConsentFrame DEF Busy
<1>12. QED
  BY <1>3, <1>4, <1>4, <1>7, <1>8, <1>9, <1>10, <1>11

-----------------------------------------------------------------------------
(* The inductive invariant and the theorems *)

\* Every step, and stuttering, preserves IInv.
LEMMA NextIInv == IInv /\ [Next]_vars => IInv'
<1> SUFFICES ASSUME IInv, [Next]_vars PROVE IInv'
  OBVIOUS
<1>1. RestTypeOK /\ QueueTypeOK /\ QueueInv
  BY TypeSplit DEF IInv
<1>2. CASE Next
  <2>1. RestTypeOK' /\ QueueTypeOK' /\ QueueInv'
    BY <1>1, <1>2, NextCases, RequestTypes, WorkerTypes
  <2>2. ConsentInv'
    BY <1>2, NextCases, RequestConsent, WorkerConsent
  <2>3. QED
    BY <2>1, <2>2, TypeSplit DEF IInv
<1>3. CASE UNCHANGED vars
  BY <1>3 DEF vars, rowVars, ingestVars, requestVars, queueVars, IInv, TypeOK, QueueInv,
              ConsentInv, ConsentBeforeIngest, Queued, retriesLeft, Busy
<1>4. QED
  BY <1>2, <1>3

\* IInv holds of every reachable state: what all theorems below rest on.
THEOREM Invariance == Spec => []IInv
  BY InitIInv, NextIInv, PTL DEF Spec

\* Type correctness, and with it the bound on attempts: pg-boss never starts
\* a job more than RetryLimit + 1 times, however many handlers fail or expire.
THEOREM TypeCorrect == Spec => []TypeOK
<1>1. IInv => TypeOK
  BY DEF IInv
<1>2. QED
  BY <1>1, Invariance, PTL

\* No account is stored for an item without its consent row.
THEOREM ConsentCorrect == Spec => []ConsentBeforeIngest
<1>1. IInv => ConsentBeforeIngest
  BY DEF IInv, ConsentInv
<1>2. QED
  BY <1>1, Invariance, PTL

-----------------------------------------------------------------------------
(* Exclusive syncs *)

Blocked == {"UPDATING", "DISCONNECTED"}

\* Item i has one handler at work at most, and once that has marked the row
\* nothing makes it syncable: a removal does not.
AloneAt(i) ==
    /\ \A s, t \in AtWork(i) : s = t
    /\ \A s \in AtWork(i) : slot[s].pc \in {"resolved", "audited"} \/ status[i] \in Blocked

RaceInv == \A i \in Items \ raced : AloneAt(i)

\* Handlers of i that go on, go or stay, and do not come, with the row left
\* as it was or blocked.
LEMMA AloneKept ==
    ASSUME NEW i \in Items, AloneAt(i),
           \A t \in Slots :
               t \in AtWork(i)' => /\ t \in AtWork(i)
                                   /\ \/ slot'[t].pc \in {"resolved", "audited"}
                                      \/ slot[t].pc \notin {"resolved", "audited"}
                                      \/ status'[i] \in Blocked,
           status'[i] = status[i] \/ status'[i] \in Blocked
    PROVE  AloneAt(i)'
<1>1. \A t \in AtWork(i)' : t \in Slots
  BY DEF AtWork
<1>2. QED
  BY <1>1 DEF AloneAt

\* The requests, the webhook receiver, the cron, the clock and the queue.
LEMMA StillRace ==
    ASSUME RaceInv, UNCHANGED <<slot, raced>>,
           \A i \in Items : status'[i] = status[i] \/ status'[i] \in Blocked
    PROVE  RaceInv'
<1>1. ASSUME NEW i \in Items, i \notin raced PROVE AloneAt(i)'
  <2>1. AloneAt(i) /\ AtWork(i)' = AtWork(i) /\ (status'[i] = status[i] \/ status'[i] \in Blocked)
    BY <1>1 DEF RaceInv, AtWork
  <2>2. QED
    BY <2>1, AloneKept
<1>2. QED
  BY <1>1 DEF RaceInv

LEMMA RequestRace ==
    ASSUME TypeOK, RaceInv, NEW i \in Items,
           \/ WidgetLink(i) \/ ConnectInsert(i) \/ ConnectConsent(i)
           \/ ConnectEnqueue(i) \/ ConnectAudit(i) \/ ConnectAbort(i)
           \/ ManualCheck(i) \/ ManualEnqueue(i) \/ ManualAudit(i) \/ ManualAbort(i)
           \/ RemoveRemote(i) \/ RemoveCommit(i) \/ RemoveAudit(i) \/ RemoveAbort(i)
           \/ WebhookEnqueue(i) \/ CooldownEnds(i) \/ GoesStale(i)
           \/ ReconcileEnqueue(i)
    PROVE  RaceInv'
<1> USE DEF rowVars, queueVars
<1>1. UNCHANGED <<slot, raced>>
  BY DEF WidgetLink, ConnectInsert, ConnectConsent, ConnectEnqueue, ConnectAudit, ConnectAbort,
         ManualCheck, ManualEnqueue, ManualAudit, ManualAbort, RemoveRemote, RemoveCommit,
         RemoveAudit, RemoveAbort, WebhookEnqueue, CooldownEnds, GoesStale, ReconcileEnqueue
<1>2. CASE ConnectInsert(i) \/ RemoveCommit(i)
  <2>1. \A k \in Items : status'[k] = status[k] \/ status'[k] \in Blocked
    BY <1>2 DEF ConnectInsert, RemoveCommit, Blocked, TypeOK
  <2>2. QED
    BY <1>1, <2>1, StillRace
<1>3. CASE ~ConnectInsert(i) /\ ~RemoveCommit(i)
  <2>1. UNCHANGED status
    BY <1>3 DEF WidgetLink, ConnectConsent, ConnectEnqueue, ConnectAudit, ConnectAbort,
         ManualCheck, ManualEnqueue, ManualAudit, ManualAbort, RemoveRemote,
         RemoveAudit, RemoveAbort, WebhookEnqueue, CooldownEnds, GoesStale, ReconcileEnqueue
  <2>2. QED
    BY <1>1, <2>1, StillRace
<1>4. QED
  BY <1>2, <1>3

\* A handler reads the row: it is alone, or a witness of the race.
LEMMA StartRace ==
    ASSUME TypeOK, QueueInv, RaceInv, NEW j \in Jobs, NEW s \in Slots, StartSync(s, j)
    PROVE  RaceInv'
<1>0. PICK i \in Items : job[j].item = i
  BY DEF StartSync, Queued, QueueInv
<1>1. i \in Items /\ isSyncableItemStatus(status[i])
  BY <1>0 DEF StartSync
<1>2. /\ UNCHANGED status /\ ~Busy(s)
      /\ slot'[s].item = i /\ slot'[s].pc = "resolved"
      /\ \A t \in Slots \ {s} : slot'[t] = slot[t]
  BY <1>0 DEF StartSync, TypeOK, rowVars
<1>3. ASSUME NEW k \in Items, k # i, k \notin raced' PROVE AloneAt(k)'
  <2>1. k \notin raced
    BY <1>0, <1>3 DEF StartSync
  <2>2. AtWork(k)' = AtWork(k) /\ \A t \in AtWork(k) : slot'[t] = slot[t]
    BY <1>2, <1>3 DEF AtWork, Busy
  <2>3. QED
    BY <1>2, <1>3, <2>1, <2>2 DEF RaceInv, AloneAt
<1>4. ASSUME i \notin raced' PROVE AloneAt(i)'
  <2>1. AtWork(i) = {}
    <3>1. i \in raced \/ AtWork(i) = {} \/ Unmarked(i) = {}
      BY <1>0, <1>1, <1>4 DEF StartSync
    <3>2. i \in raced => AtWork(i) = {}
      BY <1>0, <1>1, <1>4 DEF StartSync
    <3>3. ASSUME i \notin raced, Unmarked(i) = {}, NEW t \in AtWork(i) PROVE FALSE
      <4>1. slot[t].pc \notin {"resolved", "audited"}
        BY <3>3 DEF Unmarked
      <4>2. status[i] \in Blocked
        BY <1>1, <3>3, <4>1 DEF RaceInv, AloneAt
      <4>3. QED
        BY <1>1, <4>2 DEF Blocked, isSyncableItemStatus, SYNC_BLOCKED
    <3>4. QED
      BY <3>1, <3>2, <3>3
  <2>2. \A t \in AtWork(i)' : t = s
    BY <1>2, <2>1 DEF AtWork
  <2>3. QED
    BY <1>2, <2>2 DEF AloneAt
<1>5. QED
  BY <1>3, <1>4 DEF RaceInv

\* A handler's own statements.
LEMMA HandlerRace ==
    ASSUME TypeOK, QueueInv, RaceInv, NEW s \in Slots,
           \/ AuditReconnect(s) \/ MarkUpdating(s) \/ FetchAccounts(s)
           \/ UpsertAccounts(s) \/ FetchPage(s) \/ UpsertPage(s)
           \/ Publish(s) \/ EnqueueTransferDetector(s) \/ EnqueueFaturaDetector(s)
           \/ FetchFails(s) \/ AttemptFails(s) \/ Expire(s)
    PROVE  RaceInv'
<1> USE DEF rowVars
<1>1. raced' = raced
  BY DEF AuditReconnect, MarkUpdating, FetchAccounts, UpsertAccounts, FetchPage, UpsertPage,
         Publish, EnqueueTransferDetector, EnqueueFaturaDetector, FetchFails, AttemptFails, Expire
<1>2. ASSUME \A i \in Items : AloneAt(i) => AloneAt(i)' PROVE RaceInv'
  BY <1>1, <1>2 DEF RaceInv
<1>3. CASE AuditReconnect(s)
  <2>1. /\ slot[s].pc = "resolved" /\ slot'[s].pc = "audited" /\ slot'[s].item = slot[s].item
        /\ UNCHANGED status /\ \A t \in Slots \ {s} : slot'[t] = slot[t]
    BY <1>3 DEF AuditReconnect, TypeOK, SlotRecord
  <2>2. ASSUME NEW i \in Items, AloneAt(i) PROVE AloneAt(i)'
    <3>1. \A t \in Slots : t \in AtWork(i)' =>
              t \in AtWork(i) /\ (slot'[t] = slot[t] \/ slot'[t].pc = "audited")
      BY <2>1 DEF AtWork
    <3>2. QED
      BY <2>1, <2>2, <3>1, AloneKept
  <2>3. QED
    BY <1>2, <2>2
<1>4. CASE MarkUpdating(s)
  <2>1. /\ slot[s].pc \in {"resolved", "audited"} /\ slot'[s].item = slot[s].item
        /\ \A t \in Slots \ {s} : slot'[t] = slot[t]
        /\ status' = [status EXCEPT ![slot[s].item] = "UPDATING"]
    BY <1>4 DEF MarkUpdating, readyToMark, TypeOK, SlotRecord
  <2>2. ASSUME NEW i \in Items, AloneAt(i) PROVE AloneAt(i)'
    <3>1. \A t \in Slots : t \in AtWork(i)' =>
              t \in AtWork(i) /\ (slot'[t] = slot[t] \/ i = slot[s].item)
      BY <2>1 DEF AtWork
    <3>2. /\ i = slot[s].item => status'[i] \in Blocked
          /\ i # slot[s].item => status'[i] = status[i]
      BY <2>1 DEF TypeOK, Blocked
    <3>3. QED
      BY <2>2, <3>1, <3>2, AloneKept
  <2>3. QED
    BY <1>2, <2>2
<1>5. CASE Publish(s)
  <2>1. /\ slot[s].pc = "ingesting" /\ slot'[s].pc = "published"
        /\ \A t \in Slots \ {s} : slot'[t] = slot[t]
        /\ \A i \in Items : i # slot[s].item => status'[i] = status[i]
    BY <1>5 DEF Publish, TypeOK, SlotRecord
  <2>2. ASSUME NEW i \in Items, AloneAt(i) PROVE AloneAt(i)'
    <3>1. \A t \in Slots : t \in AtWork(i)' => t \in AtWork(i) /\ t # s /\ slot'[t] = slot[t]
      BY <2>1 DEF AtWork
    <3>2. CASE i # slot[s].item
      BY <2>1, <2>2, <3>1, <3>2, AloneKept
    <3>3. CASE i = slot[s].item
      <4>1. s \in AtWork(i)
        BY <2>1, <3>3 DEF AtWork
      <4>2. AtWork(i)' = {}
        BY <2>2, <3>1, <4>1 DEF AloneAt, AtWork
      <4>3. QED
        BY <4>2 DEF AloneAt
    <3>4. QED
      BY <3>2, <3>3
  <2>3. QED
    BY <1>2, <2>2
<1>6. CASE FetchAccounts(s) \/ UpsertAccounts(s) \/ FetchPage(s) \/ UpsertPage(s)
           \/ EnqueueTransferDetector(s)
  <2>1. /\ slot[s].pc \notin {"resolved", "audited", "idle"} /\ UNCHANGED status
        /\ slot'[s].item = slot[s].item /\ \A t \in Slots \ {s} : slot'[t] = slot[t]
        /\ \/ slot[s].pc = "published" /\ slot'[s].pc = "transferQueued"
           \/ slot[s].pc \in {"marked", "listed", "ingesting", "fetched"}
    BY <1>6 DEF FetchAccounts, UpsertAccounts, FetchPage, UpsertPage, EnqueueTransferDetector,
                TypeOK, SlotRecord
  <2>2. ASSUME NEW i \in Items, AloneAt(i) PROVE AloneAt(i)'
    <3>1. \A t \in Slots : t \in AtWork(i)' =>
              t \in AtWork(i) /\ (slot'[t] = slot[t] \/ slot[t].pc \notin {"resolved", "audited"})
      BY <2>1 DEF AtWork
    <3>2. QED
      BY <2>1, <2>2, <3>1, AloneKept
  <2>3. QED
    BY <1>2, <2>2
<1>7. CASE EnqueueFaturaDetector(s) \/ FetchFails(s) \/ AttemptFails(s) \/ Expire(s)
  <2>1. /\ UNCHANGED status /\ \A t \in Slots \ {s} : slot'[t] = slot[t]
        /\ \/ slot'[s].pc = "idle"
           \/ slot'[s].pc = slot[s].pc /\ slot'[s].item = slot[s].item
    BY <1>7 DEF EnqueueFaturaDetector, FetchFails, AttemptFails, rethrow, Expire, IdleSlot,
                TypeOK, SlotRecord
  <2>2. ASSUME NEW i \in Items, AloneAt(i) PROVE AloneAt(i)'
    <3>1. \A t \in Slots : t \in AtWork(i)' => t \in AtWork(i) /\ slot'[t].pc = slot[t].pc
      BY <2>1 DEF AtWork
    <3>2. QED
      BY <2>1, <2>2, <3>1, AloneKept
  <2>3. QED
    BY <1>2, <2>2
<1>8. QED
  BY <1>3, <1>4, <1>5, <1>6, <1>7

\* Nobody is at work at first, and every step keeps the handlers apart.
LEMMA RaceInvariance == Spec => []RaceInv
<1>1. Init => RaceInv
  BY DEF Init, RaceInv, AloneAt, AtWork, IdleSlot
<1>2. IInv /\ RaceInv /\ [Next]_vars => RaceInv'
  <2> SUFFICES ASSUME TypeOK, QueueInv, RaceInv, [Next]_vars PROVE RaceInv'
    BY DEF IInv
  <2>1. CASE UNCHANGED vars
    BY <2>1, StillRace DEF vars, rowVars, queueVars
  <2>2. CASE ReconcileSelect \/ ReconcileAbort \/ \E j \in Jobs : SkipSync(j) \/ LookupFails(j)
    <3>1. UNCHANGED <<slot, raced, status>>
      BY <2>2 DEF ReconcileSelect, ReconcileAbort, SkipSync, LookupFails, rowVars, queueVars
    <3>2. QED
      BY <3>1, StillRace
  <2>3. CASE Next
    BY <2>2, <2>3, NextCases, RequestRace, StartRace, HandlerRace
  <2>4. QED
    BY <2>1, <2>3
<1>3. QED
  BY <1>1, <1>2, Invariance, PTL DEF Spec

\* Two syncs of one item overlap only if both read the row before either marked
\* it, for any number of handlers, jobs, retries and abandoned attempts.
THEOREM ExclusiveUnlessRaced == Spec => []SyncsAreExclusiveUnlessRaced
<1>1. RaceInv => SyncsAreExclusiveUnlessRaced
  BY DEF RaceInv, AloneAt, SyncsAreExclusiveUnlessRaced
<1>2. QED
  BY <1>1, RaceInvariance, PTL

-----------------------------------------------------------------------------
(* What is left undone always has somebody who will do it *)

\* A handler that has marked the row of i and not yet published.
unpublished(i) ==
    \E s \in Slots : /\ slot[s].item = i
                     /\ slot[s].pc \in {"marked", "listed", "ingesting", "fetched"}

\* A handler on i that will still enqueue detector d, unless it fails.
willDetect(i, d) ==
    \E s \in Slots : /\ slot[s].item = i
                     /\ slot[s].pc # "idle"
                     /\ d = "transfer" => slot[s].pc # "transferQueued"

\* A job is active from its first attempt on; a row is born unsynced.
BirthInv ==
    /\ \A j \in Jobs : job[j].state = "active" => job[j].tries > 0
    /\ \A i \in Items : status[i] = "none" => lastSynced[i] = "never"

\* InFlight is too weak: a handler past its last write of status explains nothing.
MarkedInv ==
    \A i \in Items : status[i] = "UPDATING" =>
        lastSynced[i] = "never" \/ unpublished(i) \/ Retrying(i) \/ lapses[i] # {}

\* A skipped retry does no harm: the row is blocked, and only a handler that will
\* enqueue the detectors makes it syncable again.
DetectInv ==
    \A i \in Items : \A d \in undetected[i] :
        \/ willDetect(i, d) \/ Retrying(i) \/ "dropped" \in lapses[i]
        \/ ~isSyncableItemStatus(status[i])

WorkInv == BirthInv /\ MarkedInv /\ DetectInv

\* Nothing is left undone at first.
LEMMA InitWorkInv == Init => WorkInv
  BY ConstantsAssumption DEF Init, WorkInv, BirthInv, MarkedInv, DetectInv, FreeJob

\* Steps of neither the queue nor its handlers, which mark no synced row.
LEMMA WorkFrame ==
    ASSUME WorkInv, UNCHANGED <<job, slot, lapses, undetected>>,
           \A i \in Items :
             \/ status'[i] = status[i] /\ (lastSynced[i] = "never" => lastSynced'[i] = "never")
             \/ status'[i] \in {"UPDATING", "DISCONNECTED"} /\ lastSynced'[i] = "never"
             \/ status'[i] = "DISCONNECTED"
    PROVE  WorkInv'
<1>1. \A i \in Items : /\ Retrying(i)' <=> Retrying(i)
                       /\ unpublished(i)' <=> unpublished(i)
                       /\ \A d : willDetect(i, d)' <=> willDetect(i, d)
  BY DEF Retrying, Queued, unpublished, willDetect
<1>2. BirthInv'
  BY DEF WorkInv, BirthInv
<1>3. MarkedInv'
  BY <1>1 DEF WorkInv, MarkedInv
<1>4. DetectInv'
  BY <1>1 DEF WorkInv, DetectInv, isSyncableItemStatus, SYNC_BLOCKED
<1>5. QED
  BY <1>2, <1>3, <1>4 DEF WorkInv

\* A new job is no retry.
LEMMA EnqueueWork ==
    ASSUME TypeOK, WorkInv, NEW i \in Items, NEW t, enqueue(i, t),
           UNCHANGED <<slot, lapses, undetected, status, lastSynced>>
    PROVE  WorkInv'
<1>1. PICK j \in Jobs : /\ job[j].state = "free"
                        /\ job' = [job EXCEPT ![j] = [state |-> "created", item |-> i,
                                                      trigger |-> t, tries |-> 0]]
  BY DEF enqueue
<1>2. /\ \A k \in Jobs \ {j} : job'[k] = job[k]
      /\ job'[j].state = "created"
  BY <1>1 DEF TypeOK
<1>3. \A k \in Items : /\ Retrying(k) => Retrying(k)'
                       /\ unpublished(k)' <=> unpublished(k)
                       /\ \A d : willDetect(k, d)' <=> willDetect(k, d)
  BY <1>1, <1>2 DEF Retrying, Queued, unpublished, willDetect
<1>4. BirthInv'
  BY <1>2 DEF WorkInv, BirthInv
<1>5. MarkedInv' /\ DetectInv'
  BY <1>3 DEF WorkInv, MarkedInv, DetectInv
<1>6. QED
  BY <1>4, <1>5 DEF WorkInv

\* The requests, the webhook receiver, the cron and the clock.
LEMMA RequestWork ==
    ASSUME TypeOK, WorkInv, NEW i \in Items,
           \/ WidgetLink(i) \/ ConnectInsert(i) \/ ConnectConsent(i)
           \/ ConnectEnqueue(i) \/ ConnectAudit(i) \/ ConnectAbort(i)
           \/ ManualCheck(i) \/ ManualEnqueue(i) \/ ManualAudit(i) \/ ManualAbort(i)
           \/ RemoveRemote(i) \/ RemoveCommit(i) \/ RemoveAudit(i) \/ RemoveAbort(i)
           \/ WebhookEnqueue(i) \/ CooldownEnds(i) \/ GoesStale(i)
           \/ ReconcileEnqueue(i)
    PROVE  WorkInv'
<1> USE DEF rowVars, ingestVars, requestVars, queueVars
<1>1. CASE ConnectEnqueue(i) \/ ManualEnqueue(i) \/ WebhookEnqueue(i) \/ ReconcileEnqueue(i)
  <2>1. /\ \E t : enqueue(i, t)
        /\ UNCHANGED <<slot, lapses, undetected, status, lastSynced>>
    BY <1>1 DEF ConnectEnqueue, ManualEnqueue, WebhookEnqueue, ReconcileEnqueue
  <2>2. QED
    BY <2>1, EnqueueWork
<1>2. CASE ConnectInsert(i)
  <2>1. UNCHANGED <<job, slot, lapses, undetected, lastSynced>>
    BY <1>2 DEF ConnectInsert
  <2>2. \A k \in Items : \/ status'[k] = status[k]
                         \/ status'[k] = "UPDATING" /\ status[k] = "none"
    BY <1>2 DEF ConnectInsert, TypeOK
  <2>3. QED
    BY <2>1, <2>2, WorkFrame DEF WorkInv, BirthInv
<1>3. CASE RemoveCommit(i)
  <2>1. UNCHANGED <<job, slot, lapses, undetected, lastSynced>>
    BY <1>3 DEF RemoveCommit
  <2>2. \A k \in Items : status'[k] = status[k] \/ status'[k] = "DISCONNECTED"
    BY <1>3 DEF RemoveCommit, TypeOK
  <2>3. QED
    BY <2>1, <2>2, WorkFrame
<1>4. CASE GoesStale(i)
  <2>1. UNCHANGED <<job, slot, lapses, undetected, status>>
    BY <1>4 DEF GoesStale
  <2>2. \A k \in Items : lastSynced[k] = "never" => lastSynced'[k] = "never"
    BY <1>4 DEF GoesStale, TypeOK
  <2>3. QED
    BY <2>1, <2>2, WorkFrame
<1>5. CASE \/ WidgetLink(i) \/ ConnectConsent(i) \/ ConnectAudit(i) \/ ConnectAbort(i)
           \/ ManualCheck(i) \/ ManualAudit(i) \/ ManualAbort(i)
           \/ RemoveRemote(i) \/ RemoveAudit(i) \/ RemoveAbort(i) \/ CooldownEnds(i)
  <2>1. UNCHANGED <<job, slot, lapses, undetected, status, lastSynced>>
    BY <1>5 DEF WidgetLink, ConnectConsent, ConnectAudit, ConnectAbort, ManualCheck,
                ManualAudit, ManualAbort, RemoveRemote, RemoveAudit, RemoveAbort, CooldownEnds
  <2>2. QED
    BY <2>1, WorkFrame
<1>6. QED
  BY <1>1, <1>2, <1>3, <1>4, <1>5

\* The statements between marking the row and publishing it.
Unpublished == {"marked", "listed", "ingesting", "fetched"}

\* A handler goes on to its next statement.
LEMMA HandlerMove ==
    ASSUME NEW s \in Slots, job' = job, slot'[s].item = slot[s].item,
           \A t \in Slots \ {s} : slot'[t] = slot[t],
           slot'[s].pc # "idle",
           slot[s].pc \in Unpublished => slot'[s].pc \in Unpublished \union {"published"}
    PROVE  /\ \A i \in Items : Retrying(i) => Retrying(i)'
           /\ \A i \in Items, d \in Detectors :
                 willDetect(i, d) => \/ willDetect(i, d)'
                                     \/ slot[s].item = i /\ d = "transfer"
                                        /\ slot'[s].pc = "transferQueued"
           /\ \A i \in Items : unpublished(i) => \/ unpublished(i)'
                                                 \/ slot[s].item = i /\ slot'[s].pc = "published"
<1>1. \A i \in Items : Retrying(i) => Retrying(i)'
  BY DEF Retrying, Queued
<1>2. ASSUME NEW i \in Items, NEW d \in Detectors, willDetect(i, d)
      PROVE  \/ willDetect(i, d)'
             \/ slot[s].item = i /\ d = "transfer" /\ slot'[s].pc = "transferQueued"
  <2>1. PICK t \in Slots : /\ slot[t].item = i /\ slot[t].pc # "idle"
                           /\ d = "transfer" => slot[t].pc # "transferQueued"
    BY <1>2 DEF willDetect
  <2>2. CASE t = s
    BY <2>1, <2>2 DEF willDetect
  <2>3. CASE t # s
    BY <2>1, <2>3 DEF willDetect
  <2>4. QED
    BY <2>2, <2>3
<1>3. \A i \in Items : unpublished(i) => \/ unpublished(i)'
                                         \/ slot[s].item = i /\ slot'[s].pc = "published"
  BY DEF unpublished, Unpublished
<1>4. QED
  BY <1>1, <1>2, <1>3

\* A handler's own statements, but for its end.
LEMMA AdvanceWork ==
    ASSUME IInv, WorkInv, NEW s \in Slots,
           \/ AuditReconnect(s) \/ MarkUpdating(s) \/ FetchAccounts(s) \/ UpsertAccounts(s)
           \/ FetchPage(s) \/ UpsertPage(s) \/ Publish(s) \/ EnqueueTransferDetector(s)
    PROVE  WorkInv'
<1> DEFINE i == slot[s].item
<1> USE DEF rowVars, ingestVars
<1>1. TypeOK /\ i \in Items
  BY DEF IInv, QueueInv, Busy, AuditReconnect, MarkUpdating, readyToMark, FetchAccounts,
         UpsertAccounts, FetchPage, UpsertPage, Publish, EnqueueTransferDetector
<1>2. UNCHANGED <<job, lapses>>
  BY DEF AuditReconnect, MarkUpdating, FetchAccounts, UpsertAccounts, FetchPage, UpsertPage,
         Publish, EnqueueTransferDetector
<1>3. BirthInv' <=> \A k \in Items : status'[k] = "none" => lastSynced'[k] = "never"
  BY <1>2 DEF WorkInv, BirthInv
<1>4. CASE AuditReconnect(s) \/ FetchAccounts(s) \/ UpsertAccounts(s) \/ FetchPage(s)
  <2>1. /\ UNCHANGED <<status, lastSynced, undetected>>
        /\ slot'[s].item = i /\ \A t \in Slots \ {s} : slot'[t] = slot[t]
        /\ slot'[s].pc \in {"audited", "listed", "ingesting", "fetched"}
        /\ slot[s].pc \in Unpublished => slot'[s].pc \in Unpublished
    BY <1>1, <1>4 DEF AuditReconnect, FetchAccounts, UpsertAccounts, FetchPage, Unpublished,
                      TypeOK, SlotRecord
  <2>2. /\ \A k \in Items : Retrying(k) => Retrying(k)'
        /\ \A k \in Items, d \in Detectors : willDetect(k, d) => willDetect(k, d)'
        /\ \A k \in Items : unpublished(k) => unpublished(k)'
    BY <1>2, <2>1, HandlerMove
  <2>3. BirthInv' /\ MarkedInv'
    BY <1>2, <1>3, <2>1, <2>2 DEF WorkInv, BirthInv, MarkedInv
  <2>4. DetectInv'
    BY <1>1, <1>2, <2>1, <2>2 DEF WorkInv, DetectInv, TypeOK
  <2>5. QED
    BY <2>3, <2>4 DEF WorkInv
<1>5. CASE MarkUpdating(s)
  <2>1. /\ UNCHANGED <<lastSynced, undetected>>
        /\ slot'[s].item = i /\ \A t \in Slots \ {s} : slot'[t] = slot[t]
        /\ slot'[s].pc = "marked" /\ slot[s].pc \notin Unpublished
        /\ \A k \in Items : status'[k] = IF k = i THEN "UPDATING" ELSE status[k]
    BY <1>1, <1>5 DEF MarkUpdating, readyToMark, Unpublished, TypeOK, SlotRecord
  <2>2. /\ \A k \in Items : Retrying(k) => Retrying(k)'
        /\ \A k \in Items, d \in Detectors : willDetect(k, d) => willDetect(k, d)'
        /\ \A k \in Items : unpublished(k) => unpublished(k)'
    BY <1>2, <2>1, HandlerMove
  <2>3. unpublished(i)'
    BY <2>1 DEF unpublished
  <2>4. \A d \in Detectors : willDetect(i, d)'
    BY <2>1 DEF willDetect
  <2>5. BirthInv' /\ MarkedInv'
    BY <1>2, <1>3, <2>1, <2>2, <2>3 DEF WorkInv, BirthInv, MarkedInv
  <2>6. DetectInv'
    BY <1>1, <1>2, <2>1, <2>2, <2>4 DEF WorkInv, DetectInv, TypeOK
  <2>7. QED
    BY <2>5, <2>6 DEF WorkInv
<1>6. CASE UpsertPage(s)
  <2>1. /\ UNCHANGED <<status, lastSynced>>
        /\ slot'[s].item = i /\ \A t \in Slots \ {s} : slot'[t] = slot[t]
        /\ slot'[s].pc = "ingesting"
        /\ \A k \in Items : undetected'[k] = IF k = i THEN Detectors ELSE undetected[k]
    BY <1>1, <1>6 DEF UpsertPage, TypeOK, SlotRecord
  <2>2. /\ \A k \in Items : Retrying(k) => Retrying(k)'
        /\ \A k \in Items, d \in Detectors : willDetect(k, d) => willDetect(k, d)'
        /\ \A k \in Items : unpublished(k) => unpublished(k)'
    BY <1>2, <2>1, HandlerMove DEF Unpublished
  <2>3. \A d \in Detectors : willDetect(i, d)'
    BY <2>1 DEF willDetect
  <2>4. BirthInv' /\ MarkedInv'
    BY <1>2, <1>3, <2>1, <2>2 DEF WorkInv, BirthInv, MarkedInv
  <2>5. DetectInv'
    BY <1>1, <1>2, <2>1, <2>2, <2>3 DEF WorkInv, DetectInv, TypeOK
  <2>6. QED
    BY <2>4, <2>5 DEF WorkInv
<1>7. CASE Publish(s)
  <2>1. /\ UNCHANGED undetected
        /\ slot'[s].item = i /\ \A t \in Slots \ {s} : slot'[t] = slot[t]
        /\ slot'[s].pc = "published"
        /\ status'[i] = "UPDATED"
        /\ \A k \in Items : k # i => status'[k] = status[k] /\ lastSynced'[k] = lastSynced[k]
    BY <1>1, <1>7 DEF Publish, TypeOK, SlotRecord
  <2>2. /\ \A k \in Items : Retrying(k) => Retrying(k)'
        /\ \A k \in Items, d \in Detectors : willDetect(k, d) => willDetect(k, d)'
        /\ \A k \in Items : unpublished(k) => unpublished(k)' \/ i = k
    BY <1>2, <2>1, HandlerMove
  <2>3. \A d \in Detectors : willDetect(i, d)'
    BY <2>1 DEF willDetect
  <2>4. BirthInv' /\ MarkedInv'
    BY <1>2, <1>3, <2>1, <2>2 DEF WorkInv, BirthInv, MarkedInv
  <2>5. DetectInv'
    BY <1>1, <1>2, <2>1, <2>2, <2>3 DEF WorkInv, DetectInv, TypeOK
  <2>6. QED
    BY <2>4, <2>5 DEF WorkInv
<1>8. CASE EnqueueTransferDetector(s)
  <2>1. /\ UNCHANGED <<status, lastSynced>>
        /\ slot'[s].item = i /\ \A t \in Slots \ {s} : slot'[t] = slot[t]
        /\ slot'[s].pc = "transferQueued" /\ slot[s].pc = "published"
    BY <1>1, <1>8 DEF EnqueueTransferDetector, TypeOK, SlotRecord
  <2>2. undetected' = [k \in Items |-> IF Owner[k] = Owner[i]
                                       THEN undetected[k] \ {"transfer"} ELSE undetected[k]]
    BY <1>8 DEF EnqueueTransferDetector, detect
  <2>3. /\ \A k \in Items : Retrying(k) => Retrying(k)'
        /\ \A k \in Items, d \in Detectors :
              willDetect(k, d) => willDetect(k, d)' \/ (k = i /\ d = "transfer")
        /\ \A k \in Items : unpublished(k) => unpublished(k)'
    BY <1>2, <2>1, HandlerMove DEF Unpublished
  <2>4. /\ \A k \in Items : undetected'[k] \subseteq undetected[k]
        /\ "transfer" \notin undetected'[i]
    BY <1>1, <2>2
  <2>5. BirthInv' /\ MarkedInv'
    BY <1>2, <1>3, <2>1, <2>3 DEF WorkInv, BirthInv, MarkedInv
  <2>6. DetectInv'
    BY <1>1, <1>2, <2>1, <2>3, <2>4 DEF WorkInv, DetectInv, TypeOK
  <2>7. QED
    BY <2>5, <2>6 DEF WorkInv
<1>9. QED
  BY <1>4, <1>5, <1>6, <1>7, <1>8

\* What the end of an attempt makes of its item, its job and the handlers.
LEMMA FailedAttempt ==
    ASSUME TypeOK, BirthInv, NEW j \in Jobs, job[j].state = "active",
           NEW i \in Items, job[j].item = i, failJob(j),
           UNCHANGED <<status, lastSynced>>
    PROVE  /\ BirthInv'
           /\ \A k \in Items : Retrying(k) => Retrying(k)'
           /\ \A k \in Items : "dropped" \in lapses[k] => "dropped" \in lapses'[k]
           /\ \A k \in Items : lapses[k] # {} => lapses'[k] # {}
           /\ Retrying(i)' \/ "dropped" \in lapses'[i]
<1>1. /\ \A k \in Jobs \ {j} : job'[k] = job[k]
      /\ job'[j] = IF retriesLeft(j) THEN [job[j] EXCEPT !.state = "created"] ELSE FreeJob
      /\ job[j] \in JobRecord
  BY DEF failJob, TypeOK
<1>2. job'[j].state # "active"
        /\ (retriesLeft(j) => /\ job'[j].state = "created" /\ job'[j].item = i
                              /\ job'[j].tries = job[j].tries)
  BY <1>1 DEF JobRecord, FreeJob
<1>3. BirthInv'
  BY <1>1, <1>2 DEF BirthInv
<1>4. \A k \in Items : Retrying(k) => Retrying(k)'
  BY <1>1 DEF Retrying, Queued
<1>5. /\ \A k \in Items : "dropped" \in lapses[k] => "dropped" \in lapses'[k]
      /\ \A k \in Items : lapses[k] # {} => lapses'[k] # {}
  <2>1. \A k \in Items : lapses[k] \subseteq lapses'[k]
    BY DEF failJob, TypeOK
  <2>2. QED
    BY <2>1
<1>6. CASE retriesLeft(j)
  BY <1>1, <1>2, <1>4, <1>5, <1>6, <1>3 DEF Retrying, Queued, BirthInv
<1>7. CASE ~retriesLeft(j)
  BY <1>3, <1>4, <1>5, <1>7 DEF failJob, TypeOK
<1>8. QED
  BY <1>6, <1>7

\* A handler that fails leaves a retry or a lapse behind.
LEMMA RethrowWork ==
    ASSUME IInv, WorkInv, NEW s \in Slots, Busy(s), rethrow(s),
           UNCHANGED <<status, lastSynced, undetected>>
    PROVE  WorkInv'
<1>0. PICK i \in Items : slot[s].item = i
  BY DEF IInv, QueueInv
<1>1. TypeOK /\ slot' = [slot EXCEPT ![s] = IdleSlot]
  BY DEF IInv, QueueInv, rethrow
<1>2. /\ BirthInv'
      /\ \A k \in Items : Retrying(k) => Retrying(k)'
      /\ \A k \in Items : "dropped" \in lapses[k] => "dropped" \in lapses'[k]
      /\ \A k \in Items : lapses[k] # {} => lapses'[k] # {}
      /\ Retrying(i)' \/ "dropped" \in lapses'[i]
  <2>1. CASE slot[s].attached
    <3>1. /\ slot[s].job \in Jobs /\ job[slot[s].job].state = "active"
          /\ job[slot[s].job].item = i /\ failJob(slot[s].job)
      BY <1>0, <2>1 DEF IInv, QueueInv, rethrow
    <3>2. QED
      BY <1>1, <3>1, FailedAttempt DEF WorkInv
  <2>2. CASE ~slot[s].attached
    <3>1. job' = job /\ lapses' = [lapses EXCEPT ![i] = @ \union {"dropped"}]
      BY <1>0, <2>2 DEF rethrow
    <3>2. QED
      BY <1>1, <3>1 DEF WorkInv, BirthInv, Retrying, Queued, TypeOK
  <2>3. QED
    BY <2>1, <2>2
<1>3. \A t \in Slots \ {s} : slot'[t] = slot[t]
  BY <1>1 DEF TypeOK
<1>4. \A k \in Items : k # i => /\ unpublished(k) => unpublished(k)'
                                /\ \A d \in Detectors : willDetect(k, d) => willDetect(k, d)'
  BY <1>0, <1>3 DEF unpublished, willDetect
<1>5. MarkedInv'
  <2>1. SUFFICES ASSUME NEW k \in Items, status'[k] = "UPDATING"
                 PROVE  (lastSynced[k] = "never" \/ unpublished(k) \/ Retrying(k) \/ lapses[k] # {})'
    BY DEF MarkedInv
  <2>2. CASE k = i
    BY <1>2, <2>2
  <2>3. CASE k # i
    BY <1>2, <1>4, <2>1, <2>3 DEF WorkInv, MarkedInv
  <2>4. QED
    BY <2>2, <2>3
<1>6. DetectInv'
  <2>1. SUFFICES ASSUME NEW k \in Items, NEW d \in undetected'[k]
                 PROVE  (\/ willDetect(k, d) \/ Retrying(k) \/ "dropped" \in lapses[k]
                         \/ ~isSyncableItemStatus(status[k]))'
    BY DEF DetectInv
  <2>2. CASE k = i
    BY <1>2, <2>2
  <2>3. CASE k # i
    BY <1>1, <1>2, <1>4, <2>3 DEF WorkInv, DetectInv, TypeOK
  <2>4. QED
    BY <2>2, <2>3
<1>7. QED
  BY <1>2, <1>5, <1>6 DEF WorkInv

\* The last statement of a handler: its row is published by then.
LEMMA EndWork ==
    ASSUME IInv, WorkInv, NEW s \in Slots, EnqueueFaturaDetector(s)
    PROVE  WorkInv'
<1> DEFINE i == slot[s].item
<1> USE DEF rowVars
<1>1. /\ TypeOK /\ i \in Items /\ slot[s].pc = "transferQueued"
      /\ slot' = [slot EXCEPT ![s] = IdleSlot]
      /\ UNCHANGED <<status, lastSynced, lapses>>
      /\ undetected' = [k \in Items |-> IF Owner[k] = Owner[i]
                                        THEN undetected[k] \ {"fatura"} ELSE undetected[k]]
  BY DEF EnqueueFaturaDetector, detect, IInv, QueueInv, Busy
<1>2. \A j \in Jobs : job'[j] = job[j] \/ (job[j].state = "active" /\ job'[j] = FreeJob)
  BY <1>1 DEF EnqueueFaturaDetector, IInv, QueueInv, TypeOK
<1>3. BirthInv'
  BY <1>1, <1>2 DEF WorkInv, BirthInv, FreeJob
<1>4. \A k \in Items : Retrying(k) => Retrying(k)'
  BY <1>2 DEF Retrying, Queued
<1>5. \A t \in Slots \ {s} : slot'[t] = slot[t]
  BY <1>1 DEF TypeOK
<1>6. \A k \in Items : unpublished(k) => unpublished(k)'
  BY <1>1, <1>5 DEF unpublished
<1>7. \A k \in Items, d \in Detectors : willDetect(k, d) => willDetect(k, d)' \/ (k = i /\ d # "transfer")
  BY <1>1, <1>5 DEF willDetect
<1>8. /\ \A k \in Items : undetected'[k] \subseteq undetected[k]
      /\ undetected'[i] \subseteq {"transfer"}
  BY <1>1 DEF TypeOK, Detectors
<1>9. MarkedInv'
  BY <1>1, <1>4, <1>6 DEF WorkInv, MarkedInv
<1>10. DetectInv'
  BY <1>1, <1>4, <1>7, <1>8 DEF WorkInv, DetectInv, TypeOK
<1>11. QED
  BY <1>3, <1>9, <1>10 DEF WorkInv

\* An attempt that is given up is retried or dropped; its handler goes on.
LEMMA ExpireWork ==
    ASSUME IInv, WorkInv, NEW s \in Slots, Expire(s)
    PROVE  WorkInv'
<1> USE DEF rowVars, ingestVars
<1>1. /\ TypeOK /\ slot' = [slot EXCEPT ![s].attached = FALSE]
      /\ slot[s].job \in Jobs /\ job[slot[s].job].state = "active"
      /\ job[slot[s].job].item \in Items /\ failJob(slot[s].job)
      /\ UNCHANGED <<status, lastSynced, undetected>>
  BY DEF Expire, IInv, QueueInv
<1>2. /\ BirthInv'
      /\ \A k \in Items : Retrying(k) => Retrying(k)'
      /\ \A k \in Items : "dropped" \in lapses[k] => "dropped" \in lapses'[k]
      /\ \A k \in Items : lapses[k] # {} => lapses'[k] # {}
  BY <1>1, FailedAttempt DEF WorkInv
<1>3. \A t \in Slots : slot'[t].pc = slot[t].pc /\ slot'[t].item = slot[t].item
  BY <1>1 DEF TypeOK, SlotRecord
<1>4. \A k \in Items : /\ unpublished(k) => unpublished(k)'
                       /\ \A d \in Detectors : willDetect(k, d) => willDetect(k, d)'
  BY <1>3 DEF unpublished, willDetect
<1>5. MarkedInv'
  BY <1>1, <1>2, <1>4 DEF WorkInv, MarkedInv
<1>6. DetectInv'
  BY <1>1, <1>2, <1>4 DEF WorkInv, DetectInv, TypeOK
<1>7. QED
  BY <1>2, <1>5, <1>6 DEF WorkInv

\* A job is taken: its handler will detect.
LEMMA StartWork ==
    ASSUME IInv, WorkInv, NEW j \in Jobs, NEW s \in Slots, StartSync(s, j)
    PROVE  WorkInv'
<1>0. PICK i \in Items : job[j].item = i
  BY DEF IInv, QueueInv, StartSync, Queued
<1> USE DEF rowVars, ingestVars
<1>1. /\ TypeOK /\ isSyncableItemStatus(status[i]) /\ ~Busy(s)
      /\ slot' = [slot EXCEPT ![s] = [pc |-> "resolved", item |-> i, trigger |-> job[j].trigger,
                                      job |-> j, attached |-> TRUE]]
      /\ job' = [job EXCEPT ![j].state = "active", ![j].tries = @ + 1]
      /\ UNCHANGED <<status, lastSynced, undetected, lapses>>
  BY <1>0 DEF StartSync, Queued, IInv, QueueInv
<1>2. /\ \A k \in Jobs \ {j} : job'[k] = job[k]
      /\ job'[j].state = "active" /\ job'[j].tries > 0
  <2>1. job[j].tries \in Nat /\ job[j] \in JobRecord
    BY <1>1, ConstantsAssumption DEF TypeOK, JobRecord
  <2>2. job'[j].tries = job[j].tries + 1
    BY <1>1, <2>1 DEF TypeOK, JobRecord
  <2>3. QED
    BY <1>1, <2>1, <2>2 DEF TypeOK, JobRecord
<1>3. /\ \A t \in Slots \ {s} : slot'[t] = slot[t]
      /\ slot'[s].pc = "resolved" /\ slot'[s].item = i
  BY <1>1 DEF TypeOK
<1>4. /\ \A k \in Items : unpublished(k) => unpublished(k)'
      /\ \A k \in Items, d \in Detectors : willDetect(k, d) => willDetect(k, d)'
      /\ \A d \in Detectors : willDetect(i, d)'
  <2>1. \A k \in Items : unpublished(k) => unpublished(k)'
    BY <1>1, <1>3 DEF unpublished, Busy
  <2>2. \A k \in Items, d \in Detectors : willDetect(k, d) => willDetect(k, d)'
    BY <1>1, <1>3 DEF willDetect, Busy
  <2>3. \A d \in Detectors : willDetect(i, d)'
    BY <1>3 DEF willDetect
  <2>4. QED
    BY <2>1, <2>2, <2>3
<1>5. \A k \in Items : Retrying(k) => Retrying(k)' \/ k = i
  BY <1>0, <1>2 DEF Retrying, Queued
<1>6. status[i] # "UPDATING"
  BY <1>1 DEF isSyncableItemStatus, SYNC_BLOCKED
<1>7. BirthInv'
  BY <1>1, <1>2 DEF WorkInv, BirthInv
<1>8. MarkedInv'
  BY <1>1, <1>4, <1>5, <1>6 DEF WorkInv, MarkedInv
<1>9. DetectInv'
  BY <1>1, <1>4, <1>5 DEF WorkInv, DetectInv, TypeOK
<1>10. QED
  BY <1>7, <1>8, <1>9 DEF WorkInv

\* A retry that is skipped is on record, and the row blocked.
LEMMA SkipWork ==
    ASSUME IInv, WorkInv, NEW j \in Jobs, SkipSync(j)
    PROVE  WorkInv'
<1>0. PICK i \in Items : job[j].item = i
  BY DEF IInv, QueueInv, SkipSync, Queued
<1> USE DEF rowVars, ingestVars
<1>1. /\ TypeOK /\ ~isSyncableItemStatus(status[i])
      /\ job' = [job EXCEPT ![j] = FreeJob]
      /\ lapses' = IF job[j].tries = 0 THEN lapses
                   ELSE [lapses EXCEPT ![i] = @ \union {"swallowed"}]
      /\ UNCHANGED <<status, lastSynced, undetected, slot>>
  BY <1>0 DEF SkipSync, Queued, IInv, QueueInv
<1>2. /\ \A k \in Jobs \ {j} : job'[k] = job[k]
      /\ job'[j].state = "free"
  BY <1>1 DEF TypeOK, FreeJob
<1>3. /\ \A k \in Items : "dropped" \in lapses[k] => "dropped" \in lapses'[k]
      /\ \A k \in Items : lapses[k] # {} => lapses'[k] # {}
      /\ job[j].tries > 0 => lapses'[i] # {}
  <2>1. \A k \in Items : lapses[k] \subseteq lapses'[k]
    BY <1>1 DEF TypeOK
  <2>2. job[j].tries > 0 => "swallowed" \in lapses'[i]
    BY <1>1 DEF TypeOK
  <2>3. QED
    BY <2>1, <2>2, <1>1
<1>4. \A k \in Items : Retrying(k) => Retrying(k)' \/ (k = i /\ job[j].tries > 0)
  BY <1>0, <1>2 DEF Retrying, Queued
<1>5. /\ \A k \in Items : unpublished(k) => unpublished(k)'
      /\ \A k \in Items, d \in Detectors : willDetect(k, d) => willDetect(k, d)'
  BY <1>1 DEF unpublished, willDetect
<1>6. BirthInv'
  BY <1>1, <1>2 DEF WorkInv, BirthInv
<1>7. MarkedInv'
  BY <1>1, <1>3, <1>4, <1>5 DEF WorkInv, MarkedInv
<1>8. DetectInv'
  BY <1>1, <1>3, <1>4, <1>5 DEF WorkInv, DetectInv, TypeOK
<1>9. QED
  BY <1>6, <1>7, <1>8 DEF WorkInv

\* A failed read of the row is retried or dropped.
LEMMA LookupWork ==
    ASSUME IInv, WorkInv, NEW j \in Jobs, LookupFails(j)
    PROVE  WorkInv'
<1>0. PICK i \in Items : job[j].item = i
  BY DEF IInv, QueueInv, LookupFails, Queued
<1> USE DEF rowVars, ingestVars
<1>1. /\ TypeOK /\ job[j].state = "created" /\ job[j].tries \in Nat
      /\ UNCHANGED <<status, lastSynced, undetected, slot>>
      /\ lapses' = IF job[j].tries < RetryLimit THEN lapses
                   ELSE [lapses EXCEPT ![i] = @ \union {"dropped"}]
  BY <1>0, ConstantsAssumption DEF LookupFails, Queued, IInv, TypeOK, JobRecord
<1>2. /\ \A k \in Jobs \ {j} : job'[k] = job[k]
      /\ job'[j].state # "active"
      /\ job[j].tries < RetryLimit => /\ job'[j].state = "created" /\ job'[j].item = i
                                      /\ job'[j].tries = job[j].tries + 1
  <2> DEFINE again == [job[j] EXCEPT !.tries = job[j].tries + 1]
  <2>1. job \in [Jobs -> JobRecord] /\ job[j] \in JobRecord
    BY <1>1 DEF TypeOK
  <2>2. /\ again.tries = job[j].tries + 1
        /\ again.state = job[j].state /\ again.item = job[j].item
    BY <2>1 DEF JobRecord
  <2>3. job' = [job EXCEPT ![j] = IF job[j].tries < RetryLimit THEN again ELSE FreeJob]
    BY DEF LookupFails
  <2> HIDE DEF again
  <2>4. /\ \A k \in Jobs \ {j} : job'[k] = job[k]
        /\ job'[j] = IF job[j].tries < RetryLimit THEN again ELSE FreeJob
    BY <2>1, <2>3
  <2>5. FreeJob.state = "free"
    BY DEF FreeJob
  <2>6. QED
    BY <1>0, <1>1, <2>2, <2>4, <2>5
<1>3. \A k \in Items : lapses[k] \subseteq lapses'[k]
  BY <1>1 DEF TypeOK
<1>4. job[j].tries >= RetryLimit => "dropped" \in lapses'[i]
  BY <1>1, ConstantsAssumption DEF TypeOK
<1>5. \A k \in Items : Retrying(k) => Retrying(k)' \/ (k = i /\ "dropped" \in lapses'[k])
  <2>1. CASE job[j].tries < RetryLimit
    BY <1>0, <1>1, <1>2, <2>1 DEF Retrying, Queued
  <2>2. CASE job[j].tries >= RetryLimit
    BY <1>0, <1>2, <1>4, <2>2 DEF Retrying, Queued
  <2>3. QED
    BY <1>1, <2>1, <2>2, ConstantsAssumption
<1>6. /\ \A k \in Items : unpublished(k) => unpublished(k)'
      /\ \A k \in Items, d \in Detectors : willDetect(k, d) => willDetect(k, d)'
  BY <1>1 DEF unpublished, willDetect
<1>7. BirthInv'
  BY <1>1, <1>2 DEF WorkInv, BirthInv
<1>8. MarkedInv'
  BY <1>1, <1>3, <1>5, <1>6 DEF WorkInv, MarkedInv
<1>9. DetectInv'
  BY <1>1, <1>3, <1>5, <1>6 DEF WorkInv, DetectInv, TypeOK
<1>10. QED
  BY <1>7, <1>8, <1>9 DEF WorkInv

\* Every step keeps WorkInv.
LEMMA NextWorkInv == IInv /\ WorkInv /\ [Next]_vars => WorkInv'
<1> SUFFICES ASSUME IInv, WorkInv, [Next]_vars PROVE WorkInv'
  OBVIOUS
<1>1. CASE UNCHANGED vars
  BY <1>1, WorkFrame DEF vars, rowVars, ingestVars, queueVars
<1>2. CASE ReconcileSelect \/ ReconcileAbort
  <2>1. UNCHANGED <<job, slot, lapses, undetected, status, lastSynced>>
    BY <1>2 DEF ReconcileSelect, ReconcileAbort, rowVars, ingestVars, queueVars
  <2>2. QED
    BY <2>1, WorkFrame
<1>3. ASSUME NEW s \in Slots, FetchFails(s) \/ AttemptFails(s) PROVE WorkInv'
  <2>1. Busy(s) /\ rethrow(s) /\ UNCHANGED <<status, lastSynced, undetected>>
    BY <1>3 DEF FetchFails, AttemptFails, Busy, rowVars, ingestVars
  <2>2. QED
    BY <2>1, RethrowWork
<1>4. ASSUME NEW s \in Slots,
             \/ AuditReconnect(s) \/ MarkUpdating(s) \/ FetchAccounts(s) \/ UpsertAccounts(s)
             \/ FetchPage(s) \/ UpsertPage(s) \/ Publish(s) \/ EnqueueTransferDetector(s)
             \/ EnqueueFaturaDetector(s) \/ Expire(s)
      PROVE  WorkInv'
  BY <1>4, AdvanceWork, EndWork, ExpireWork
<1>5. ASSUME NEW j \in Jobs, SkipSync(j) \/ LookupFails(j) \/ \E s \in Slots : StartSync(s, j)
      PROVE  WorkInv'
  BY <1>5, SkipWork, LookupWork, StartWork
<1>6. CASE Next
  BY <1>2, <1>3, <1>4, <1>5, <1>6, NextCases, RequestWork DEF IInv
<1>7. QED
  BY <1>1, <1>6

\* WorkInv holds in every reachable state.
LEMMA WorkInvariance == Spec => []WorkInv
  BY InitWorkInv, NextWorkInv, Invariance, PTL DEF Spec

\* No row is left UPDATING without a first sync to come, a handler at work, a
\* retry, or an attempt that came to nothing on record.
THEOREM UpdatingExplained == Spec => []UpdatingIsExplained
<1>1. WorkInv => UpdatingIsExplained
  <2> SUFFICES ASSUME WorkInv, NEW i \in Items, status[i] = "UPDATING"
               PROVE  \/ lastSynced[i] = "never" \/ InFlight(i) # {} \/ Retrying(i)
                      \/ lapses[i] # {}
    BY DEF UpdatingIsExplained
  <2>1. unpublished(i) => InFlight(i) # {}
    BY DEF unpublished, InFlight, Busy
  <2>2. QED
    BY <2>1 DEF WorkInv, MarkedInv
<1>2. QED
  BY <1>1, WorkInvariance, PTL

\* No page of a row at rest is left without its detectors, unless an attempt was
\* dropped for good.
THEOREM DetectorsFollow == Spec => []DetectorsFollowIngest
<1>1. WorkInv => DetectorsFollowIngest
  <2> SUFFICES ASSUME WorkInv, NEW i \in Items, status[i] = "UPDATED", InFlight(i) = {},
                      ~Retrying(i), "dropped" \notin lapses[i]
               PROVE  undetected[i] = {}
    BY DEF DetectorsFollowIngest
  <2>1. \A d : ~willDetect(i, d)
    BY DEF willDetect, InFlight, Busy
  <2>2. isSyncableItemStatus(status[i])
    BY DEF isSyncableItemStatus, SYNC_BLOCKED, ItemStatus
  <2>3. QED
    BY <2>1, <2>2 DEF WorkInv, DetectInv, TypeOK
<1>2. QED
  BY <1>1, WorkInvariance, PTL

-----------------------------------------------------------------------------
(* Disconnecting, and the refinement of ItemLifecycle *)

RemovalInv ==
    /\ DisconnectIsBacked
    /\ \A i \in Items :
           /\ remove[i] = "remoteDeleted" => remote[i] = "deleted" /\ status[i] # "none"
           /\ remove[i] = "committed" => "REVOKED" \in consents[i]

\* At first no row is DISCONNECTED and no DELETE is under way.
LEMMA InitRemovalInv == Init => RemovalInv
  BY ConstantsAssumption DEF Init, RemovalInv, DisconnectIsBacked

\* A step away from the DELETE route: no row enters DISCONNECTED or leaves the
\* table, no removal is audited.
LEMMA RemovalFrame ==
    ASSUME RemovalInv, UNCHANGED remove,
           \A i \in Items : /\ status'[i] = "DISCONNECTED" => status[i] = "DISCONNECTED"
                            /\ status'[i] = "none" => status[i] = "none"
                            /\ remote[i] = "deleted" => remote'[i] = "deleted"
                            /\ consents[i] \subseteq consents'[i]
                            /\ <<"item_disconnected", i>> \in audit'
                                   => <<"item_disconnected", i>> \in audit
    PROVE  RemovalInv'
  BY DEF RemovalInv, DisconnectIsBacked

\* One case per action of the routes, the receiver, the cron and the clock.
LEMMA RequestRemoval ==
    ASSUME TypeOK, RemovalInv, NEW i \in Items,
           \/ WidgetLink(i) \/ ConnectInsert(i) \/ ConnectConsent(i)
           \/ ConnectEnqueue(i) \/ ConnectAudit(i) \/ ConnectAbort(i)
           \/ ManualCheck(i) \/ ManualEnqueue(i) \/ ManualAudit(i) \/ ManualAbort(i)
           \/ RemoveRemote(i) \/ RemoveCommit(i) \/ RemoveAudit(i) \/ RemoveAbort(i)
           \/ WebhookEnqueue(i) \/ CooldownEnds(i) \/ GoesStale(i)
           \/ ReconcileEnqueue(i)
    PROVE  RemovalInv'
<1> USE DEF rowVars, ingestVars, requestVars, queueVars
<1>1. CASE WidgetLink(i)
  BY <1>1, RemovalFrame DEF WidgetLink, TypeOK
<1>2. CASE ConnectInsert(i)
  BY <1>2, RemovalFrame DEF ConnectInsert, TypeOK
<1>3. CASE ConnectConsent(i)
  BY <1>3, RemovalFrame DEF ConnectConsent, TypeOK
<1>4. CASE ConnectAudit(i)
  BY <1>4, RemovalFrame DEF ConnectAudit
<1>5. CASE ManualAudit(i)
  BY <1>5, RemovalFrame DEF ManualAudit
<1>6. CASE RemoveRemote(i)
  BY <1>6 DEF RemoveRemote, RemovalInv, DisconnectIsBacked, TypeOK
<1>7. CASE RemoveCommit(i)
  BY <1>7 DEF RemoveCommit, mayCommitRemoval, RemovalInv, DisconnectIsBacked, TypeOK
<1>8. CASE RemoveAudit(i)
  BY <1>8 DEF RemoveAudit, RemovalInv, DisconnectIsBacked, TypeOK
<1>9. CASE RemoveAbort(i)
  BY <1>9 DEF RemoveAbort, RemovalInv, DisconnectIsBacked, TypeOK
<1>10. CASE \/ ConnectEnqueue(i) \/ ConnectAbort(i) \/ ManualCheck(i) \/ ManualEnqueue(i)
            \/ ManualAbort(i) \/ WebhookEnqueue(i) \/ CooldownEnds(i) \/ GoesStale(i)
            \/ ReconcileEnqueue(i)
  <2>1. UNCHANGED <<status, remote, consents, audit, remove>>
    BY <1>10 DEF ConnectEnqueue, ConnectAbort, ManualCheck, ManualEnqueue, ManualAbort,
                 WebhookEnqueue, CooldownEnds, GoesStale, ReconcileEnqueue
  <2>2. QED
    BY <2>1, RemovalFrame
<1>11. QED
  BY <1>1, <1>2, <1>3, <1>4, <1>5, <1>6, <1>7, <1>8, <1>9, <1>10

\* One case per kind of worker step: those that write status, the one that
\* writes audit, and the rest.
LEMMA WorkerRemoval ==
    ASSUME TypeOK, RemovalInv,
           \/ ReconcileSelect \/ ReconcileAbort
           \/ \E j \in Jobs : SkipSync(j) \/ LookupFails(j) \/ \E s \in Slots : StartSync(s, j)
           \/ \E s \in Slots :
                \/ AuditReconnect(s) \/ MarkUpdating(s) \/ FetchAccounts(s)
                \/ UpsertAccounts(s) \/ FetchPage(s) \/ UpsertPage(s)
                \/ Publish(s) \/ EnqueueTransferDetector(s) \/ EnqueueFaturaDetector(s)
                \/ FetchFails(s) \/ AttemptFails(s) \/ Expire(s)
    PROVE  RemovalInv'
<1> USE DEF rowVars, ingestVars, requestVars, queueVars
<1>1. ASSUME NEW s \in Slots, MarkUpdating(s) \/ Publish(s)
      PROVE  RemovalInv'
  BY <1>1, RemovalFrame DEF MarkUpdating, Publish, TypeOK
<1>2. ASSUME NEW s \in Slots, AuditReconnect(s)
      PROVE  RemovalInv'
  BY <1>2, RemovalFrame DEF AuditReconnect
<1>3. ASSUME UNCHANGED <<status, remote, consents, audit, remove>>
      PROVE  RemovalInv'
  BY <1>3, RemovalFrame
<1>4. CASE \/ ReconcileSelect \/ ReconcileAbort
           \/ \E j \in Jobs : SkipSync(j) \/ LookupFails(j) \/ \E s \in Slots : StartSync(s, j)
  BY <1>3, <1>4 DEF ReconcileSelect, ReconcileAbort, SkipSync, LookupFails, StartSync
<1>5. ASSUME NEW s \in Slots,
             \/ FetchAccounts(s) \/ UpsertAccounts(s) \/ FetchPage(s) \/ UpsertPage(s)
             \/ EnqueueTransferDetector(s) \/ EnqueueFaturaDetector(s) \/ FetchFails(s) \/ AttemptFails(s) \/ Expire(s)
      PROVE  RemovalInv'
  BY <1>3, <1>5 DEF FetchAccounts, UpsertAccounts, FetchPage, UpsertPage,
                    EnqueueTransferDetector, EnqueueFaturaDetector, FetchFails, AttemptFails, Expire
<1>6. QED
  BY <1>1, <1>2, <1>4, <1>5

\* Every step, of the DELETE route or not, keeps the route, the row, Pluggy and
\* the consent rows in agreement.
LEMMA NextRemovalInv == TypeOK /\ RemovalInv /\ [Next]_vars => RemovalInv'
<1> SUFFICES ASSUME TypeOK, RemovalInv, [Next]_vars PROVE RemovalInv'
  OBVIOUS
<1>1. CASE Next
  BY <1>1, NextCases, RequestRemoval, WorkerRemoval
<1>2. CASE UNCHANGED vars
  BY <1>2, RemovalFrame DEF vars, rowVars, requestVars
<1>3. QED
  BY <1>1, <1>2

\* The DELETE route, the row, Pluggy and the consent rows always agree.
LEMMA RemovalInvariance == Spec => []RemovalInv
  BY InitRemovalInv, NextRemovalInv, TypeCorrect, PTL DEF Spec

\* A row reads DISCONNECTED, and its removal is audited, only with Pluggy's
\* item gone and the revocation recorded: in every interleaving of the DELETE
\* route with syncs, webhooks and other requests, and across its crashes.
THEOREM DisconnectBacked == Spec => []DisconnectIsBacked
<1>1. RemovalInv => DisconnectIsBacked
  BY DEF RemovalInv
<1>2. QED
  BY <1>1, RemovalInvariance, PTL

-----------------------------------------------------------------------------
(* Deleted accounts *)

\* Of all steps, only the upsert and the DELETE write accounts; neither writes
\* over a DELETED row.
LEMMA NextDeleted ==
    ASSUME TypeOK, [Next]_vars, NEW a \in Accounts, account[a] = "DELETED"
    PROVE  account'[a] = "DELETED"
<1> USE DEF ingestVars
<1>1. ASSUME NEW s \in Slots, UpsertAccounts(s)
      PROVE  account'[a] = "DELETED"
  BY <1>1 DEF UpsertAccounts, upsertedStatus
<1>2. ASSUME NEW i \in Items, RemoveCommit(i)
      PROVE  account'[a] = "DELETED"
  BY <1>2 DEF RemoveCommit
<1>3. ASSUME NEW i \in Items,
             \/ WidgetLink(i) \/ ConnectInsert(i) \/ ConnectConsent(i)
             \/ ConnectEnqueue(i) \/ ConnectAudit(i) \/ ConnectAbort(i)
             \/ ManualCheck(i) \/ ManualEnqueue(i) \/ ManualAudit(i) \/ ManualAbort(i)
             \/ RemoveRemote(i) \/ RemoveAudit(i) \/ RemoveAbort(i)
             \/ WebhookEnqueue(i) \/ CooldownEnds(i) \/ GoesStale(i) \/ ReconcileEnqueue(i)
      PROVE  UNCHANGED account
  BY <1>3 DEF WidgetLink, ConnectInsert, ConnectConsent, ConnectEnqueue, ConnectAudit,
              ConnectAbort, ManualCheck, ManualEnqueue, ManualAudit, ManualAbort, RemoveRemote,
              RemoveAudit, RemoveAbort, WebhookEnqueue, CooldownEnds, GoesStale,
              ReconcileEnqueue
<1>4. ASSUME NEW s \in Slots,
             \/ AuditReconnect(s) \/ MarkUpdating(s) \/ FetchAccounts(s) \/ FetchPage(s)
             \/ UpsertPage(s) \/ Publish(s) \/ EnqueueTransferDetector(s) \/ EnqueueFaturaDetector(s)
             \/ FetchFails(s) \/ AttemptFails(s) \/ Expire(s)
      PROVE  UNCHANGED account
  BY <1>4 DEF AuditReconnect, MarkUpdating, FetchAccounts, FetchPage, UpsertPage, Publish, EnqueueTransferDetector,
              EnqueueFaturaDetector, FetchFails, AttemptFails, Expire
<1>5. ASSUME \/ ReconcileSelect \/ ReconcileAbort
             \/ \E j \in Jobs : SkipSync(j) \/ LookupFails(j) \/ \E s \in Slots : StartSync(s, j)
      PROVE  UNCHANGED account
  BY <1>5 DEF ReconcileSelect, ReconcileAbort, SkipSync, LookupFails, StartSync
<1>6. CASE Next
  BY <1>1, <1>2, <1>3, <1>4, <1>5, <1>6, NextCases
<1>7. CASE UNCHANGED vars
  BY <1>7 DEF vars
<1>8. QED
  BY <1>6, <1>7

\* No handler, however late, brings a soft-deleted account back.
THEOREM DeletedStayDeleted == Spec => DeletedAccountsStayDeleted
<1>1. TypeOK /\ [Next]_vars =>
          [\A a \in Accounts : account[a] = "DELETED" => account'[a] = "DELETED"]_vars
  BY NextDeleted
<1>2. QED
  BY <1>1, TypeCorrect, PTL DEF Spec, DeletedAccountsStayDeleted

-----------------------------------------------------------------------------
(* The refinement: PluggySync implements ItemLifecycle *)

Holders == [i \in Items |-> InFlight(i)]

\* A table of rows with no handler at work is an initial state of the policy.
LEMMA InitRefines == Init => Lifecycle!Init
<1> SUFFICES ASSUME Init PROVE Lifecycle!Init
  OBVIOUS
<1>1. \A i \in Items : InFlight(i) = {}
  BY DEF Init, InFlight, Busy, IdleSlot
<1>2. status \in [Items -> Lifecycle!ItemStatus \union {"none"}]
  BY ConstantsAssumption DEF Init, Lifecycle!ItemStatus
<1>3. QED
  BY <1>1, <1>2 DEF Lifecycle!Init

\* Handlers that keep busy on the row they hold keep it held.
LEMMA HoldersFrame ==
    ASSUME \A s \in Slots : /\ (slot'[s].pc # "idle") = (slot[s].pc # "idle")
                            /\ slot'[s].item = slot[s].item
    PROVE  Holders' = Holders
  BY DEF Holders, InFlight, Busy

\* An idle handler that takes a row joins its holders, and only those.
LEMMA HoldersAcquire ==
    ASSUME TypeOK, NEW s \in Slots, ~Busy(s), NEW i \in Items, NEW r \in SlotRecord,
           r.pc # "idle", r.item = i, slot' = [slot EXCEPT ![s] = r]
    PROVE  Holders' = [Holders EXCEPT ![i] = @ \union {s}]
<1>1. \A t \in Slots : slot'[t] = IF t = s THEN r ELSE slot[t]
  BY DEF TypeOK
<1>2. \A k \in Items : InFlight(k)' = IF k = i THEN InFlight(k) \union {s} ELSE InFlight(k)
  BY <1>1 DEF InFlight, Busy
<1>3. QED
  BY <1>2 DEF Holders

\* A busy handler that ends leaves the holders of its row.
LEMMA HoldersRelease ==
    ASSUME TypeOK, NEW s \in Slots, Busy(s), slot' = [slot EXCEPT ![s] = IdleSlot]
    PROVE  Holders' = [Holders EXCEPT ![slot[s].item] = @ \ {s}]
<1>1. \A t \in Slots : slot'[t] = IF t = s THEN IdleSlot ELSE slot[t]
  BY DEF TypeOK
<1>2. \A k \in Items : InFlight(k)' = IF k = slot[s].item THEN InFlight(k) \ {s} ELSE InFlight(k)
  BY <1>1 DEF InFlight, Busy, IdleSlot
<1>3. QED
  BY <1>2 DEF Holders

\* What leaves the status column and the handlers' items alone is invisible to
\* the policy.
LEMMA Stutters ==
    ASSUME UNCHANGED status, Holders' = Holders
    PROVE  UNCHANGED Lifecycle!vars
  BY DEF Holders, Lifecycle!vars

\* The requests, the receiver, the cron and the clock: the connect insert and
\* the disconnect transaction are steps of the lifecycle, the rest stutter.
LEMMA RequestRefines ==
    ASSUME TypeOK, RemovalInv, NEW i \in Items,
           \/ WidgetLink(i) \/ ConnectInsert(i) \/ ConnectConsent(i)
           \/ ConnectEnqueue(i) \/ ConnectAudit(i) \/ ConnectAbort(i)
           \/ ManualCheck(i) \/ ManualEnqueue(i) \/ ManualAudit(i) \/ ManualAbort(i)
           \/ RemoveRemote(i) \/ RemoveCommit(i) \/ RemoveAudit(i) \/ RemoveAbort(i)
           \/ WebhookEnqueue(i) \/ CooldownEnds(i) \/ GoesStale(i)
           \/ ReconcileEnqueue(i)
    PROVE  [Lifecycle!Next]_(Lifecycle!vars)
<1> USE DEF rowVars, ingestVars, requestVars, queueVars
<1>1. UNCHANGED slot => Holders' = Holders
  BY HoldersFrame
<1>2. CASE ConnectInsert(i)
  <2>1. Lifecycle!Connect(i)
    BY <1>1, <1>2 DEF ConnectInsert, Lifecycle!Connect, Holders
  <2>2. QED
    BY <2>1 DEF Lifecycle!Next
<1>3. CASE RemoveCommit(i)
  <2>1. Lifecycle!Disconnect(i)
    BY <1>1, <1>3 DEF RemoveCommit, mayCommitRemoval, RemovalInv, Lifecycle!Disconnect, Holders
  <2>2. QED
    BY <2>1 DEF Lifecycle!Next
<1>4. CASE \/ WidgetLink(i) \/ ConnectConsent(i)
           \/ ConnectEnqueue(i) \/ ConnectAudit(i) \/ ConnectAbort(i)
           \/ ManualCheck(i) \/ ManualEnqueue(i) \/ ManualAudit(i) \/ ManualAbort(i)
           \/ RemoveRemote(i) \/ RemoveAudit(i) \/ RemoveAbort(i)
           \/ WebhookEnqueue(i) \/ CooldownEnds(i) \/ GoesStale(i) \/ ReconcileEnqueue(i)
  <2>1. UNCHANGED <<status, slot>>
    BY <1>4 DEF WidgetLink, ConnectConsent, ConnectEnqueue, ConnectAudit,
                ConnectAbort, ManualCheck, ManualEnqueue, ManualAudit, ManualAbort, RemoveRemote,
                RemoveAudit, RemoveAbort, WebhookEnqueue, CooldownEnds, GoesStale,
                ReconcileEnqueue
  <2>2. QED
    BY <1>1, <2>1, Stutters
<1>5. QED
  BY <1>2, <1>3, <1>4

\* The handlers: taking a job acquires the row, marking and publishing write
\* it, ending releases it, the statements in between stutter.
LEMMA WorkerRefines ==
    ASSUME IInv,
           \/ ReconcileSelect \/ ReconcileAbort
           \/ \E j \in Jobs : SkipSync(j) \/ LookupFails(j) \/ \E s \in Slots : StartSync(s, j)
           \/ \E s \in Slots :
                \/ AuditReconnect(s) \/ MarkUpdating(s) \/ FetchAccounts(s)
                \/ UpsertAccounts(s) \/ FetchPage(s) \/ UpsertPage(s)
                \/ Publish(s) \/ EnqueueTransferDetector(s) \/ EnqueueFaturaDetector(s)
                \/ FetchFails(s) \/ AttemptFails(s) \/ Expire(s)
    PROVE  [Lifecycle!Next]_(Lifecycle!vars)
<1> USE DEF IInv, rowVars, ingestVars, requestVars, queueVars
<1>1. \A s \in Slots : Busy(s) => slot[s].item \in Items
  BY DEF QueueInv
<1>2. ASSUME NEW s \in Slots, Busy(s), NEW pc, pc # "idle", slot' = [slot EXCEPT ![s].pc = pc]
      PROVE  Holders' = Holders
  <2>1. \A t \in Slots : /\ (slot'[t].pc # "idle") = (slot[t].pc # "idle")
                         /\ slot'[t].item = slot[t].item
    BY <1>2 DEF TypeOK, SlotRecord, Busy
  <2>2. QED
    BY <2>1, HoldersFrame
<1>3. CASE ReconcileSelect \/ ReconcileAbort \/ \E j \in Jobs : SkipSync(j) \/ LookupFails(j)
  <2>1. UNCHANGED <<status, slot>>
    BY <1>3 DEF ReconcileSelect, ReconcileAbort, SkipSync, LookupFails
  <2>2. QED
    BY <2>1, HoldersFrame, Stutters
<1>4. ASSUME NEW j \in Jobs, NEW s \in Slots, StartSync(s, j)
      PROVE  [Lifecycle!Next]_(Lifecycle!vars)
  <2> DEFINE i == job[j].item
             r == [pc |-> "resolved", item |-> i, trigger |-> job[j].trigger, job |-> j,
                   attached |-> TRUE]
  <2>1. i \in Items /\ status[i] \in Lifecycle!Syncable
    BY <1>4 DEF StartSync, Queued, QueueInv, isSyncableItemStatus, ItemStatus, SYNC_BLOCKED,
                Lifecycle!Syncable, Lifecycle!ItemStatus, Lifecycle!SYNC_BLOCKED
  <2>2. r \in SlotRecord /\ r.pc # "idle" /\ r.item = i
    BY <2>1 DEF TypeOK, JobRecord, SlotRecord
  <2>3. slot' = [slot EXCEPT ![s] = r] /\ ~Busy(s) /\ UNCHANGED status
    BY <1>4 DEF StartSync
  <2> HIDE DEF i, r
  <2>4. Holders' = [Holders EXCEPT ![i] = @ \union {s}]
    BY <2>1, <2>2, <2>3, HoldersAcquire
  <2>5. Lifecycle!Acquire(i, s)
    BY <2>1, <2>3, <2>4 DEF Lifecycle!Acquire, Holders
  <2>6. QED
    BY <2>1, <2>5 DEF Lifecycle!Next
<1>5. ASSUME NEW s \in Slots,
             \/ AuditReconnect(s) \/ FetchAccounts(s) \/ UpsertAccounts(s) \/ FetchPage(s)
             \/ UpsertPage(s) \/ EnqueueTransferDetector(s)
      PROVE  [Lifecycle!Next]_(Lifecycle!vars)
  <2>1. /\ Busy(s) /\ UNCHANGED status
        /\ \E pc : pc # "idle" /\ slot' = [slot EXCEPT ![s].pc = pc]
    BY <1>5 DEF AuditReconnect, FetchAccounts, UpsertAccounts, FetchPage, UpsertPage,
                EnqueueTransferDetector, Busy
  <2>2. QED
    BY <1>2, <2>1, Stutters
<1>6. ASSUME NEW s \in Slots, MarkUpdating(s) \/ Publish(s)
      PROVE  [Lifecycle!Next]_(Lifecycle!vars)
  <2>1. Busy(s) /\ \E pc : pc # "idle" /\ slot' = [slot EXCEPT ![s].pc = pc]
    BY <1>6 DEF MarkUpdating, readyToMark, Publish, Busy
  <2>2. Holders' = Holders
    BY <1>2, <2>1
  <2>3. \E new \in {"UPDATING", "UPDATED"} : status' = [status EXCEPT ![slot[s].item] = new]
    BY <1>6 DEF MarkUpdating, Publish
  <2>4. slot[s].item \in Items /\ s \in Holders[slot[s].item]
    BY <1>1, <2>1 DEF Holders, InFlight
  <2>5. Lifecycle!Write(slot[s].item, s)
    BY <2>2, <2>3, <2>4 DEF Lifecycle!Write, Holders
  <2>6. QED
    BY <2>4, <2>5 DEF Lifecycle!Next
<1>7. ASSUME NEW s \in Slots, EnqueueFaturaDetector(s) \/ FetchFails(s) \/ AttemptFails(s)
      PROVE  [Lifecycle!Next]_(Lifecycle!vars)
  <2>1. Busy(s) /\ UNCHANGED status /\ slot' = [slot EXCEPT ![s] = IdleSlot]
    BY <1>7 DEF EnqueueFaturaDetector, FetchFails, AttemptFails, rethrow, Busy
  <2>2. Holders' = [Holders EXCEPT ![slot[s].item] = @ \ {s}]
    BY <2>1, HoldersRelease
  <2>3. slot[s].item \in Items /\ s \in Holders[slot[s].item]
    BY <1>1, <2>1 DEF Holders, InFlight
  <2>4. Lifecycle!Release(slot[s].item, s)
    BY <2>1, <2>2, <2>3 DEF Lifecycle!Release, Holders
  <2>5. QED
    BY <2>3, <2>4 DEF Lifecycle!Next
<1>8. ASSUME NEW s \in Slots, Expire(s)
      PROVE  [Lifecycle!Next]_(Lifecycle!vars)
  <2>1. UNCHANGED status /\ slot' = [slot EXCEPT ![s].attached = FALSE]
    BY <1>8 DEF Expire
  <2>2. \A t \in Slots : slot'[t].pc = slot[t].pc /\ slot'[t].item = slot[t].item
    BY <2>1 DEF TypeOK, SlotRecord
  <2>3. QED
    BY <2>1, <2>2, HoldersFrame, Stutters
<1>9. QED
  BY <1>3, <1>4, <1>4, <1>5, <1>6, <1>7, <1>8

\* Every step of the mechanism is a step of the policy, or invisible to it.
LEMMA NextRefines ==
    IInv /\ RemovalInv /\ [Next]_vars => [Lifecycle!Next]_(Lifecycle!vars)
<1> SUFFICES ASSUME IInv, RemovalInv, [Next]_vars
             PROVE  [Lifecycle!Next]_(Lifecycle!vars)
  OBVIOUS
<1>1. CASE Next
  BY <1>1, NextCases, RequestRefines, WorkerRefines DEF IInv
<1>2. CASE UNCHANGED vars
  <2>1. UNCHANGED <<status, slot>>
    BY <1>2 DEF vars, rowVars, queueVars
  <2>2. QED
    BY <2>1, HoldersFrame, Stutters
<1>3. QED
  BY <1>1, <1>2

\* PluggySync implements ItemLifecycle: with any number of handlers, jobs,
\* retries and crashes, a row's status moves only as the lifecycle allows.
THEOREM Refinement == Spec => ImplementsLifecycle
  BY InitRefines, NextRefines, Invariance, RemovalInvariance, PTL
     DEF Spec, ImplementsLifecycle, Lifecycle!Spec

\* A consequence of the lifecycle alone: what no handler holds and is
\* disconnected can only be disconnected again.
LEMMA LifecycleQuiet ==
    ASSUME [Lifecycle!Next]_(Lifecycle!vars), Lifecycle!TypeOK, NEW i \in Items,
           Lifecycle!Quiet(i)
    PROVE  Lifecycle!Quiet(i)'
<1>1. CASE Lifecycle!Next
  BY <1>1 DEF Lifecycle!Next, Lifecycle!Connect, Lifecycle!Disconnect, Lifecycle!Acquire,
              Lifecycle!Write, Lifecycle!Release, Lifecycle!Quiet, Lifecycle!TypeOK,
              Lifecycle!Syncable, Lifecycle!SYNC_BLOCKED
<1>2. CASE UNCHANGED Lifecycle!vars
  BY <1>2 DEF Lifecycle!vars, Lifecycle!Quiet
<1>3. QED
  BY <1>1, <1>2

\* A disconnected item with no sync in flight stays disconnected for good:
\* no webhook, cron run, retry or request starts a sync on it.
THEOREM QuietTerminal == Spec => QuietDisconnectIsTerminal
<1>1. TypeOK => Lifecycle!TypeOK
  BY DEF TypeOK, Lifecycle!TypeOK, ItemStatus, Lifecycle!ItemStatus, InFlight
<1>2. IInv /\ RemovalInv /\ [Next]_vars =>
          [\A i \in Items : Lifecycle!Quiet(i) => Lifecycle!Quiet(i)']_(Lifecycle!vars)
  BY <1>1, NextRefines, LifecycleQuiet DEF IInv
<1>3. QED
  BY <1>2, Invariance, RemovalInvariance, PTL
     DEF Spec, QuietDisconnectIsTerminal, Lifecycle!QuietDisconnectIsTerminal

-----------------------------------------------------------------------------
(* What FirstConnectSyncs hopes for cannot happen *)

\* A row that was never synced is not syncable, nobody works on it, and
\* nothing is stored for it.
UnsyncedInv ==
    \A i \in Items : lastSynced[i] = "never" =>
        /\ ~isSyncableItemStatus(status[i])
        /\ \A s \in Slots : Busy(s) => slot[s].item # i
        /\ \A a \in Accounts : ItemOf[a] = i => account[a] = "none"

\* An item that comes in through the connect route is never synced and none
\* of its accounts is ever stored, whatever webhooks, manual refreshes, cron
\* runs and retries ask for: every one of them ends in the worker, which
\* refuses the UPDATING the row is born with, and only the worker writes
\* another syncable status.
NeverSyncedStaysSo ==
    [][\A i \in Items : lastSynced[i] = "never" => lastSynced'[i] = "never"]_vars

NothingIngestedUnsynced ==
    \A a \in Accounts : lastSynced[ItemOf[a]] = "never" => account[a] = "none"

\* Absent rows are unsynced; rows an earlier release left behind are not.
LEMMA InitUnsynced == Init => UnsyncedInv
  BY ConstantsAssumption DEF Init, UnsyncedInv, isSyncableItemStatus, ItemStatus, Busy, IdleSlot

\* Steps that leave the handlers on their rows and make no row syncable.
LEMMA UnsyncedFrame ==
    ASSUME UnsyncedInv,
           \A i \in Items :
             /\ lastSynced[i] = "never" <=> lastSynced'[i] = "never"
             /\ status'[i] = status[i] \/ status'[i] \in {"UPDATING", "DISCONNECTED"},
           \A s \in Slots : Busy(s)' => Busy(s) /\ slot'[s].item = slot[s].item,
           \A a \in Accounts : account[a] = "none" => account'[a] = "none"
    PROVE  UnsyncedInv'
  BY DEF UnsyncedInv, isSyncableItemStatus, SYNC_BLOCKED

\* The routes and the cron write no syncable status and no new account.
LEMMA RequestUnsynced ==
    ASSUME TypeOK, UnsyncedInv, NEW i \in Items,
           \/ WidgetLink(i) \/ ConnectInsert(i) \/ ConnectConsent(i)
           \/ ConnectEnqueue(i) \/ ConnectAudit(i) \/ ConnectAbort(i)
           \/ ManualCheck(i) \/ ManualEnqueue(i) \/ ManualAudit(i) \/ ManualAbort(i)
           \/ RemoveRemote(i) \/ RemoveCommit(i) \/ RemoveAudit(i) \/ RemoveAbort(i)
           \/ WebhookEnqueue(i) \/ CooldownEnds(i) \/ GoesStale(i)
           \/ ReconcileEnqueue(i)
    PROVE  /\ UnsyncedInv'
           /\ \A k \in Items : lastSynced[k] = "never" => lastSynced'[k] = "never"
<1> USE DEF rowVars, ingestVars, queueVars
<1>1. CASE ConnectInsert(i)
  <2>1. /\ UNCHANGED <<lastSynced, account, slot>>
        /\ \A k \in Items : status'[k] = status[k] \/ status'[k] = "UPDATING"
    BY <1>1 DEF ConnectInsert, TypeOK
  <2>2. QED
    BY <2>1, UnsyncedFrame DEF Busy
<1>2. CASE RemoveCommit(i)
  <2>1. /\ UNCHANGED <<lastSynced, slot>> /\ UNCHANGED <<queueVars>>
        /\ \A k \in Items : status'[k] = status[k] \/ status'[k] = "DISCONNECTED"
        /\ \A a \in Accounts : account[a] = "none" => account'[a] = "none"
    BY <1>2 DEF RemoveCommit, TypeOK
  <2>2. QED
    BY <2>1, UnsyncedFrame DEF Busy
<1>3. CASE GoesStale(i)
  <2>1. /\ UNCHANGED <<status, account, slot>>
        /\ \A k \in Items : lastSynced[k] = "never" <=> lastSynced'[k] = "never"
    BY <1>3 DEF GoesStale, TypeOK
  <2>2. QED
    BY <2>1, UnsyncedFrame DEF Busy
<1>4. CASE \/ WidgetLink(i) \/ ConnectConsent(i) \/ ConnectEnqueue(i) \/ ConnectAudit(i)
           \/ ConnectAbort(i) \/ ManualCheck(i) \/ ManualEnqueue(i) \/ ManualAudit(i)
           \/ ManualAbort(i) \/ RemoveRemote(i) \/ RemoveAudit(i) \/ RemoveAbort(i)
           \/ WebhookEnqueue(i) \/ CooldownEnds(i) \/ ReconcileEnqueue(i)
  <2>1. UNCHANGED <<status, lastSynced, account, slot>>
    BY <1>4 DEF WidgetLink, ConnectConsent, ConnectEnqueue, ConnectAudit, ConnectAbort,
                ManualCheck, ManualEnqueue, ManualAudit, ManualAbort, RemoveRemote,
                RemoveAudit, RemoveAbort, WebhookEnqueue, CooldownEnds, ReconcileEnqueue
  <2>2. QED
    BY <2>1, UnsyncedFrame DEF Busy
<1>5. QED
  BY <1>1, <1>2, <1>3, <1>4

\* What a handler does to the row it holds: that row has been synced before.
LEMMA HandlerUnsynced ==
    ASSUME QueueInv, UnsyncedInv, NEW s \in Slots, Busy(s),
           \A t \in Slots : Busy(t)' => Busy(t) /\ slot'[t].item = slot[t].item,
           \A k \in Items \ {slot[s].item} :
               lastSynced'[k] = lastSynced[k] /\ status'[k] = status[k],
           lastSynced'[slot[s].item] \in {lastSynced[slot[s].item], "fresh"},
           \A a \in Accounts : ItemOf[a] # slot[s].item => account'[a] = account[a]
    PROVE  /\ UnsyncedInv'
           /\ \A k \in Items : lastSynced[k] = "never" => lastSynced'[k] = "never"
<1> DEFINE i == slot[s].item
<1>1. i \in Items /\ lastSynced[i] # "never" /\ lastSynced'[i] # "never"
  BY DEF QueueInv, UnsyncedInv
<1>2. \A k \in Items : lastSynced'[k] = "never" =>
          k # i /\ lastSynced[k] = "never" /\ status'[k] = status[k]
  BY <1>1
<1>3. QED
  BY <1>1, <1>2 DEF UnsyncedInv

\* A handler starts on a syncable row alone, and so on one synced before.
LEMMA WorkerUnsynced ==
    ASSUME TypeOK, QueueInv, UnsyncedInv,
           \/ ReconcileSelect \/ ReconcileAbort
           \/ \E j \in Jobs : SkipSync(j) \/ LookupFails(j) \/ \E s \in Slots : StartSync(s, j)
           \/ \E s \in Slots :
                \/ AuditReconnect(s) \/ MarkUpdating(s) \/ FetchAccounts(s)
                \/ UpsertAccounts(s) \/ FetchPage(s) \/ UpsertPage(s)
                \/ Publish(s) \/ EnqueueTransferDetector(s) \/ EnqueueFaturaDetector(s)
                \/ FetchFails(s) \/ AttemptFails(s) \/ Expire(s)
    PROVE  /\ UnsyncedInv'
           /\ \A k \in Items : lastSynced[k] = "never" => lastSynced'[k] = "never"
<1> USE DEF rowVars, ingestVars, requestVars, queueVars
<1>1. CASE ReconcileSelect \/ ReconcileAbort \/ \E j \in Jobs : SkipSync(j) \/ LookupFails(j)
  <2>1. UNCHANGED <<status, lastSynced, account, slot>>
    BY <1>1 DEF ReconcileSelect, ReconcileAbort, SkipSync, LookupFails
  <2>2. QED
    BY <2>1, UnsyncedFrame DEF Busy
<1>2. ASSUME NEW j \in Jobs, NEW s \in Slots, StartSync(s, j)
      PROVE  UnsyncedInv' /\ UNCHANGED lastSynced
  <2>1. job[j].item \in Items /\ isSyncableItemStatus(status[job[j].item])
    BY <1>2 DEF StartSync, Queued, QueueInv
  <2>2. lastSynced[job[j].item] # "never"
    BY <2>1 DEF UnsyncedInv
  <2>3. \A t \in Slots : slot'[t] = slot[t] \/ slot'[t].item = job[j].item
    BY <1>2 DEF StartSync, TypeOK
  <2>4. UNCHANGED <<status, lastSynced, account>>
    BY <1>2 DEF StartSync
  <2>5. QED
    BY <2>2, <2>3, <2>4 DEF UnsyncedInv, Busy
<1>3. ASSUME NEW s \in Slots, NEW pc, Busy(s), slot' = [slot EXCEPT ![s].pc = pc]
      PROVE  \A t \in Slots : Busy(t)' => Busy(t) /\ slot'[t].item = slot[t].item
  BY <1>3 DEF TypeOK, SlotRecord, Busy
<1>4. ASSUME NEW s \in Slots,
             \/ AuditReconnect(s) \/ FetchAccounts(s) \/ FetchPage(s) \/ UpsertPage(s)
             \/ EnqueueTransferDetector(s)
      PROVE  UnsyncedInv' /\ UNCHANGED lastSynced
  <2>1. /\ Busy(s) /\ UNCHANGED <<status, lastSynced, account>>
        /\ \E pc : slot' = [slot EXCEPT ![s].pc = pc]
    BY <1>4 DEF AuditReconnect, FetchAccounts, FetchPage, UpsertPage,
                EnqueueTransferDetector, Busy
  <2>2. QED
    BY <1>3, <2>1, UnsyncedFrame
<1>5. ASSUME NEW s \in Slots, MarkUpdating(s) \/ UpsertAccounts(s) \/ Publish(s)
      PROVE  /\ UnsyncedInv'
             /\ \A k \in Items : lastSynced[k] = "never" => lastSynced'[k] = "never"
  <2>1. Busy(s) /\ \E pc : slot' = [slot EXCEPT ![s].pc = pc]
    BY <1>5 DEF MarkUpdating, readyToMark, UpsertAccounts, Publish, Busy
  <2>2. /\ \A k \in Items \ {slot[s].item} :
               lastSynced'[k] = lastSynced[k] /\ status'[k] = status[k]
        /\ lastSynced'[slot[s].item] \in {lastSynced[slot[s].item], "fresh"}
    <3>1. slot[s].item \in Items
      BY <2>1 DEF QueueInv
    <3>2. QED
      BY <1>5, <3>1 DEF MarkUpdating, UpsertAccounts, Publish, TypeOK
  <2>3. \A a \in Accounts : ItemOf[a] # slot[s].item => account'[a] = account[a]
    BY <1>5 DEF MarkUpdating, UpsertAccounts, Publish
  <2>4. QED
    BY <1>3, <2>1, <2>2, <2>3, HandlerUnsynced
<1>6. ASSUME NEW s \in Slots, EnqueueFaturaDetector(s) \/ FetchFails(s) \/ AttemptFails(s)
      PROVE  UnsyncedInv' /\ UNCHANGED lastSynced
  <2>1. slot' = [slot EXCEPT ![s] = IdleSlot] /\ UNCHANGED <<status, lastSynced, account>>
    BY <1>6 DEF EnqueueFaturaDetector, FetchFails, AttemptFails, rethrow
  <2>2. \A t \in Slots : Busy(t)' => Busy(t) /\ slot'[t].item = slot[t].item
    BY <2>1 DEF TypeOK, Busy, IdleSlot
  <2>3. QED
    BY <2>1, <2>2, UnsyncedFrame
<1>7. ASSUME NEW s \in Slots, Expire(s)
      PROVE  UnsyncedInv' /\ UNCHANGED lastSynced
  <2>1. slot' = [slot EXCEPT ![s].attached = FALSE] /\ UNCHANGED <<status, lastSynced, account>>
    BY <1>7 DEF Expire
  <2>2. \A t \in Slots : slot'[t].pc = slot[t].pc /\ slot'[t].item = slot[t].item
    BY <2>1 DEF TypeOK, SlotRecord
  <2>3. QED
    BY <2>1, <2>2, UnsyncedFrame DEF Busy
<1>8. QED
  BY <1>1, <1>2, <1>4, <1>5, <1>6, <1>7

\* Every step keeps UnsyncedInv, and leaves an unsynced row unsynced.
LEMMA NextUnsynced ==
    ASSUME TypeOK, QueueInv, UnsyncedInv, [Next]_vars
    PROVE  /\ UnsyncedInv'
           /\ \A k \in Items : lastSynced[k] = "never" => lastSynced'[k] = "never"
<1>1. CASE Next
  BY <1>1, NextCases, RequestUnsynced, WorkerUnsynced
<1>2. CASE UNCHANGED vars
  <2>1. UNCHANGED <<status, lastSynced, account, slot>>
    BY <1>2 DEF vars, rowVars, ingestVars, queueVars
  <2>2. QED
    BY <2>1, UnsyncedFrame DEF Busy
<1>3. QED
  BY <1>1, <1>2

\* UnsyncedInv holds in every reachable state.
LEMMA UnsyncedInvariance == Spec => []UnsyncedInv
  BY InitUnsynced, NextUnsynced, Invariance, PTL DEF Spec, IInv

\* The counterexample to FirstConnectSyncs is no accident of one schedule: no
\* behaviour of the code syncs an item that came in through the connect route.
THEOREM NeverSynced == Spec => NeverSyncedStaysSo
<1>1. IInv /\ UnsyncedInv /\ [Next]_vars =>
          [\A i \in Items : lastSynced[i] = "never" => lastSynced'[i] = "never"]_vars
  BY NextUnsynced DEF IInv
<1>2. QED
  BY <1>1, Invariance, UnsyncedInvariance, PTL DEF Spec, NeverSyncedStaysSo

\* Nor does any behaviour store an account of such an item.
THEOREM NothingIngested == Spec => []NothingIngestedUnsynced
<1>1. UnsyncedInv => NothingIngestedUnsynced
  BY ConstantsAssumption DEF UnsyncedInv, NothingIngestedUnsynced
<1>2. QED
  BY <1>1, UnsyncedInvariance, PTL

=============================================================================
