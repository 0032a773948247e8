----------------------------- MODULE PluggySync -----------------------------
(***************************************************************************)
(* The ingestion core of Portal Finance: the life of a pluggy_items row    *)
(* between the routes that create, refresh and disconnect it               *)
(* (src/app/api/pluggy/items/...), the hourly reconcile cron, the Pluggy   *)
(* webhooks, the pg-boss queue pluggy.sync and the handlers that drain it  *)
(* (src/jobs/workers/pluggySyncWorker.ts).                                 *)
(*                                                                         *)
(* Grain: one action per awaited statement that changes shared state, so   *)
(* every interleaving of two handlers, of a handler and a request, and     *)
(* every crash between two statements is a behaviour.  The row a handler   *)
(* read at its start is not read again: what it writes afterwards is       *)
(* unconditional, exactly as in the code.                                  *)
(*                                                                         *)
(* Left out here: transaction rows and sync windows, last_error_at (the    *)
(* catch block writes it and no statement of this component reads it), the *)
(* webhook receiver's own steps (WebhookDispatch), HTTP sessions.          *)
(***************************************************************************)
EXTENDS Naturals, FiniteSets

CONSTANTS
    Items,           \* rows of pluggy_items: one per Pluggy item
    Users,
    Owner,           \* Owner[i]: user_id of row i
    PaidUsers,       \* users whose subscription_tier is not 'free'
    Accounts,        \* Pluggy accounts
    ItemOf,          \* ItemOf[a]: the item Pluggy lists account a under
    Jobs,            \* pluggy.sync jobs alive at one time (bound)
    Slots,           \* sync handlers running at one time (bound)
    RetryLimit,      \* pg-boss retryLimit: attempts after the first
    MaxFaults,       \* attempts that may fail or expire by chance (bound)
    WebhookTriggers, \* triggers of the sync jobs the webhooks of this instance ask for
    LegacyStatuses,  \* statuses of rows an earlier release left behind
    None             \* "no row" and "no job", for idle slots and free jobs

ASSUME ConstantsAssumption ==
    /\ Owner \in [Items -> Users]
    /\ PaidUsers \subseteq Users
    /\ ItemOf \in [Accounts -> Items]
    /\ RetryLimit \in Nat
    /\ MaxFaults \in Nat
    /\ WebhookTriggers \subseteq {"webhook", "reconnect"}
    /\ LegacyStatuses \subseteq {"UPDATED", "OUTDATED"}
    /\ None \notin Items \union Jobs

VARIABLES
    status,        \* pluggy_items.status, "none" before the row exists
    lastSynced,    \* last_synced_at: "never", "fresh", or "stale" (> 12 h)
    lastManual,    \* last_manual_sync_at: "never", "recent" (< 30 min), "past"
    consents,      \* consents[i]: actions of the user_consents rows of item i
    account,       \* account[a]: status of the accounts row, "none" before it
    remote,        \* what Pluggy holds: "absent", "linked", "deleted"
    undetected,    \* undetected[i]: detectors not enqueued since the last ingest
    audit,         \* audit_log rows, as <<action, item>>
    connect,       \* POST /api/pluggy/items: last statement done
    manual,        \* POST /api/pluggy/items/:id/sync: last statement done
    remove,        \* DELETE /api/pluggy/items/:id: last statement done
    reconcileTodo, \* rows the cron SELECTed and has not enqueued yet
    job,           \* the pluggy.sync queue
    slot,          \* the running sync handlers
    lapses,        \* history: how attempts on an item came to nothing
    raced,         \* history: items two handlers read before either marked them
    faults         \* chance failures so far

requestVars == <<connect, manual, remove, reconcileTodo>>
ingestVars == <<account, undetected>>
rowVars == <<status, lastSynced, lastManual>>
queueVars == <<job, slot, lapses, raced, faults>>
vars == <<rowVars, consents, ingestVars, remote, audit, requestVars, queueVars>>

-----------------------------------------------------------------------------
(* Item-status policy: src/lib/pluggyItemStatus.ts *)

ItemStatus == {"UPDATING", "LOGIN_ERROR", "OUTDATED", "WAITING_USER_INPUT",
               "UPDATED", "DISCONNECTED"}

SYNC_BLOCKED == {"UPDATING", "LOGIN_ERROR", "WAITING_USER_INPUT", "DISCONNECTED"}

\* mutants: a status forgotten in the blocked set
SyncsUpdating(st) == st \in ItemStatus \ (SYNC_BLOCKED \ {"UPDATING"})
SyncsDisconnected(st) == st \in ItemStatus \ (SYNC_BLOCKED \ {"DISCONNECTED"})

isSyncableItemStatus(st) == st \in ItemStatus \ SYNC_BLOCKED

Detectors == {"transfer", "fatura"}

Trigger == {"first_connect", "webhook", "manual", "reconcile", "reconnect"}

-----------------------------------------------------------------------------
(* The queue: src/jobs/boss.ts over pg-boss *)

FreeJob == [state |-> "free", item |-> None, trigger |-> "webhook", tries |-> 0]

\* enqueue(PLUGGY_SYNC, {item, trigger}).  The queue has pg-boss's standard
\* policy, under which a singletonKey alone suppresses nothing: the
\* repository's own measurement accepted five sends with one key.
enqueue(i, t) ==
    \E j \in Jobs :
        /\ job[j].state = "free"
        /\ job' = [job EXCEPT ![j] = [state |-> "created", item |-> i,
                                      trigger |-> t, tries |-> 0]]

IdleSlot == [pc |-> "idle", item |-> None, trigger |-> "webhook",
             job |-> None, attached |-> FALSE]

Busy(s) == slot[s].pc # "idle"

InFlight(i) == {s \in Slots : Busy(s) /\ slot[s].item = i}

\* The handlers on item i from their read of the row to the end of the sync,
\* and those of them that have not written UPDATING yet.
AtWork(i) ==
    {s \in Slots : /\ slot[s].item = i
                   /\ slot[s].pc \in {"resolved", "audited", "marked", "listed",
                                      "ingesting", "fetched"}}

Unmarked(i) == {s \in AtWork(i) : slot[s].pc \in {"resolved", "audited"}}

retriesLeft(j) == job[j].tries <= RetryLimit

\* pg-boss after a failed or expired attempt: back to the queue, or failed.
failJob(j) ==
    /\ job' = [job EXCEPT ![j] =
                  IF retriesLeft(j) THEN [@ EXCEPT !.state = "created"] ELSE FreeJob]
    /\ lapses' = IF retriesLeft(j) THEN lapses
                 ELSE [lapses EXCEPT ![job[j].item] = @ \union {"dropped"}]

-----------------------------------------------------------------------------
Init ==
    /\ status \in [Items -> {"none"} \union LegacyStatuses]
    /\ lastSynced = [i \in Items |-> IF status[i] = "none" THEN "never" ELSE "fresh"]
    /\ lastManual = [i \in Items |-> "never"]
    /\ consents = [i \in Items |-> IF status[i] = "none" THEN {} ELSE {"GRANTED"}]
    /\ account \in [Accounts -> {"none", "ACTIVE"}]
    /\ \A a \in Accounts : status[ItemOf[a]] = "none" => account[a] = "none"
    /\ remote = [i \in Items |-> IF status[i] = "none" THEN "absent" ELSE "linked"]
    /\ undetected = [i \in Items |-> {}]
    /\ audit = {}
    /\ connect = [i \in Items |-> "idle"]
    /\ manual = [i \in Items |-> "idle"]
    /\ remove = [i \in Items |-> "idle"]
    /\ reconcileTodo = {}
    /\ job = [j \in Jobs |-> FreeJob]
    /\ slot = [s \in Slots |-> IdleSlot]
    /\ lapses = [i \in Items |-> {}]
    /\ raced = {}
    /\ faults = 0

-----------------------------------------------------------------------------
(* Connecting a bank: the Pluggy widget, then POST /api/pluggy/items *)

\* The user completes the widget: Pluggy now holds the item.
WidgetLink(i) ==
    /\ remote[i] = "absent"
    /\ remote' = [remote EXCEPT ![i] = "linked"]
    /\ UNCHANGED <<rowVars, consents, ingestVars, audit, requestVars, queueVars>>

\* A second POST meets UNIQUE(user_id, pluggy_item_id_hash) and gets a 409.
ConnectInsert(i) ==
    /\ remote[i] # "absent"
    /\ status[i] = "none"
    /\ status' = [status EXCEPT ![i] = "UPDATING"]
    /\ connect' = [connect EXCEPT ![i] = "inserted"]
    /\ UNCHANGED <<lastSynced, lastManual, consents, ingestVars, remote, audit,
                   manual, remove, reconcileTodo, queueVars>>

ConnectConsent(i) ==
    /\ connect[i] = "inserted"
    /\ consents' = [consents EXCEPT ![i] = @ \union {"GRANTED"}]
    /\ connect' = [connect EXCEPT ![i] = "consented"]
    /\ UNCHANGED <<rowVars, ingestVars, remote, audit, manual, remove,
                   reconcileTodo, queueVars>>

ConnectEnqueue(i) ==
    /\ connect[i] = "consented"
    /\ enqueue(i, "first_connect")
    /\ connect' = [connect EXCEPT ![i] = "enqueued"]
    /\ UNCHANGED <<rowVars, consents, ingestVars, remote, audit, manual, remove,
                   reconcileTodo, slot, lapses, raced, faults>>

ConnectAudit(i) ==
    /\ connect[i] = "enqueued"
    /\ audit' = audit \union {<<"item_connected", i>>}
    /\ connect' = [connect EXCEPT ![i] = "idle"]
    /\ UNCHANGED <<rowVars, consents, ingestVars, remote, manual, remove,
                   reconcileTodo, queueVars>>

\* A statement fails or the web process dies; what was written stays.
ConnectAbort(i) ==
    /\ connect[i] # "idle"
    /\ connect' = [connect EXCEPT ![i] = "idle"]
    /\ UNCHANGED <<rowVars, consents, ingestVars, remote, audit, manual, remove,
                   reconcileTodo, queueVars>>

-----------------------------------------------------------------------------
(* Manual refresh: POST /api/pluggy/items/:id/sync *)

cooldownPassed(i) == lastManual[i] # "recent"

\* 404, paywall and cooldown, all on one read of the row.
ManualCheck(i) ==
    /\ manual[i] = "idle"
    /\ status[i] # "none"
    /\ Owner[i] \in PaidUsers
    /\ cooldownPassed(i)
    /\ manual' = [manual EXCEPT ![i] = "checked"]
    /\ UNCHANGED <<rowVars, consents, ingestVars, remote, audit, connect, remove,
                   reconcileTodo, queueVars>>

ManualEnqueue(i) ==
    /\ manual[i] = "checked"
    /\ enqueue(i, "manual")
    /\ manual' = [manual EXCEPT ![i] = "enqueued"]
    /\ UNCHANGED <<rowVars, consents, ingestVars, remote, audit, connect, remove,
                   reconcileTodo, slot, lapses, raced, faults>>

ManualAudit(i) ==
    /\ manual[i] = "enqueued"
    /\ audit' = audit \union {<<"manual_sync_triggered", i>>}
    /\ manual' = [manual EXCEPT ![i] = "idle"]
    /\ UNCHANGED <<rowVars, consents, ingestVars, remote, connect, remove,
                   reconcileTodo, queueVars>>

ManualAbort(i) ==
    /\ manual[i] # "idle"
    /\ manual' = [manual EXCEPT ![i] = "idle"]
    /\ UNCHANGED <<rowVars, consents, ingestVars, remote, audit, connect, remove,
                   reconcileTodo, queueVars>>

-----------------------------------------------------------------------------
(* Disconnecting: DELETE /api/pluggy/items/:id *)

\* Pluggy is called first.  An item it no longer has makes the SDK throw:
\* the route answers 502 and changes nothing, so that is not a step.
RemoveRemote(i) ==
    /\ remove[i] = "idle"
    /\ status[i] # "none"
    /\ remote[i] = "linked"
    /\ remote' = [remote EXCEPT ![i] = "deleted"]
    /\ remove' = [remove EXCEPT ![i] = "remoteDeleted"]
    /\ UNCHANGED <<rowVars, consents, ingestVars, audit, connect, manual,
                   reconcileTodo, queueVars>>

\* mutant: the 502 return is missing, so the transaction runs regardless
CommitsRegardless(i) == remove[i] \in {"idle", "remoteDeleted"} /\ status[i] # "none"

mayCommitRemoval(i) == remove[i] = "remoteDeleted"

\* One transaction: row, accounts, consent revocation.
RemoveCommit(i) ==
    /\ mayCommitRemoval(i)
    /\ status' = [status EXCEPT ![i] = "DISCONNECTED"]
    /\ account' = [a \in Accounts |-> IF ItemOf[a] = i /\ account[a] # "none"
                                      THEN "DELETED" ELSE account[a]]
    /\ consents' = [consents EXCEPT ![i] = @ \union {"REVOKED"}]
    /\ remove' = [remove EXCEPT ![i] = "committed"]
    /\ UNCHANGED <<lastSynced, lastManual, undetected, remote, audit, connect,
                   manual, reconcileTodo, queueVars>>

RemoveAudit(i) ==
    /\ remove[i] = "committed"
    /\ audit' = audit \union {<<"item_disconnected", i>>}
    /\ remove' = [remove EXCEPT ![i] = "idle"]
    /\ UNCHANGED <<rowVars, consents, ingestVars, remote, connect, manual,
                   reconcileTodo, queueVars>>

\* A crash, or a Pluggy call that deleted the item and then timed out.
RemoveAbort(i) ==
    /\ remove[i] # "idle"
    /\ remove' = [remove EXCEPT ![i] = "idle"]
    /\ UNCHANGED <<rowVars, consents, ingestVars, remote, audit, connect, manual,
                   reconcileTodo, queueVars>>

-----------------------------------------------------------------------------
(* What else enqueues: the webhook receiver and the hourly cron *)

\* The receiver's enqueue for a mapped event; item/login_succeeded asks for
\* trigger 'reconnect'.  Pluggy may deliver late: before the row exists and
\* after it is gone.
WebhookEnqueue(i) ==
    /\ remote[i] # "absent"
    /\ \E t \in WebhookTriggers : enqueue(i, t)
    /\ UNCHANGED <<rowVars, consents, ingestVars, remote, audit, requestVars,
                   slot, lapses, raced, faults>>

\* mutant: the age comparison of the cron's WHERE clause reversed
FreshIsStale(i) == lastSynced[i] = "fresh"

isStale(i) == lastSynced[i] \in {"never", "stale"}

\* The SELECT, with its own literal list of excluded statuses.
ReconcileSelect ==
    /\ reconcileTodo = {}
    /\ reconcileTodo' =
         {i \in Items : /\ isStale(i)
                        /\ status[i] \notin {"none", "LOGIN_ERROR", "WAITING_USER_INPUT",
                                             "DISCONNECTED", "UPDATING"}}
    /\ UNCHANGED <<rowVars, consents, ingestVars, remote, audit, connect, manual,
                   remove, queueVars>>

ReconcileEnqueue(i) ==
    /\ i \in reconcileTodo
    /\ enqueue(i, "reconcile")
    /\ reconcileTodo' = reconcileTodo \ {i}
    /\ UNCHANGED <<rowVars, consents, ingestVars, remote, audit, connect, manual,
                   remove, slot, lapses, raced, faults>>

\* An error in the loop: the cron job is retried and SELECTs again.
ReconcileAbort ==
    /\ reconcileTodo # {}
    /\ faults < MaxFaults
    /\ faults' = faults + 1
    /\ reconcileTodo' = {}
    /\ UNCHANGED <<rowVars, consents, ingestVars, remote, audit, connect, manual,
                   remove, job, slot, lapses, raced>>

-----------------------------------------------------------------------------
(* The sync worker: pluggySyncWorker *)

Queued(j) == job[j].state = "created"

\* pg-boss hands the job over, the worker reads the row -- and keeps it.
StartSync(s, j) ==
    /\ ~Busy(s)
    /\ Queued(j)
    /\ isSyncableItemStatus(status[job[j].item])
    /\ slot' = [slot EXCEPT ![s] = [pc |-> "resolved", item |-> job[j].item,
                                    trigger |-> job[j].trigger, job |-> j,
                                    attached |-> TRUE]]
    /\ job' = [job EXCEPT ![j].state = "active", ![j].tries = @ + 1]
    /\ raced' = LET i == job[j].item
                IN CASE AtWork(i) = {}   -> raced \ {i}
                     [] Unmarked(i) # {} -> raced \union {i}
                     [] OTHER            -> raced
    /\ UNCHANGED <<rowVars, consents, ingestVars, remote, audit, requestVars,
                   lapses, faults>>

\* No row, or a blocked status: the handler returns and the job completes,
\* whether this was a first attempt or the retry of a failed one.
SkipSync(j) ==
    /\ Queued(j)
    /\ ~isSyncableItemStatus(status[job[j].item])
    /\ job' = [job EXCEPT ![j] = FreeJob]
    /\ lapses' = IF job[j].tries = 0 THEN lapses
                 ELSE [lapses EXCEPT ![job[j].item] = @ \union {"swallowed"}]
    /\ UNCHANGED <<rowVars, consents, ingestVars, remote, audit, requestVars,
                   slot, raced, faults>>

\* The read of the row itself fails: the attempt is spent.
LookupFails(j) ==
    /\ Queued(j)
    /\ faults < MaxFaults
    /\ faults' = faults + 1
    /\ job' = [job EXCEPT ![j] = IF job[j].tries < RetryLimit
                                 THEN [job[j] EXCEPT !.tries = job[j].tries + 1]
                                 ELSE FreeJob]
    /\ lapses' = IF job[j].tries < RetryLimit THEN lapses
                 ELSE [lapses EXCEPT ![job[j].item] = @ \union {"dropped"}]
    /\ UNCHANGED <<rowVars, consents, ingestVars, remote, audit, requestVars,
                   slot, raced>>

\* D-30: the cooldown bypass is audited before anything else happens.
AuditReconnect(s) ==
    /\ slot[s].pc = "resolved"
    /\ slot[s].trigger = "reconnect"
    /\ audit' = audit \union {<<"cooldown_bypassed", slot[s].item>>}
    /\ slot' = [slot EXCEPT ![s].pc = "audited"]
    /\ UNCHANGED <<rowVars, consents, ingestVars, remote, requestVars, job,
                   lapses, raced, faults>>

readyToMark(s) ==
    \/ slot[s].pc = "audited"
    \/ slot[s].pc = "resolved" /\ slot[s].trigger # "reconnect"

MarkUpdating(s) ==
    /\ readyToMark(s)
    /\ status' = [status EXCEPT ![slot[s].item] = "UPDATING"]
    /\ slot' = [slot EXCEPT ![s].pc = "marked"]
    /\ UNCHANGED <<lastSynced, lastManual, consents, ingestVars, remote, audit,
                   requestVars, job, lapses, raced, faults>>

\* mutant: the upsert also resets status
UpsertReactivates(st) == "ACTIVE"

\* accounts.status is not in the upsert's SET list; a new row defaults ACTIVE.
upsertedStatus(st) == IF st = "none" THEN "ACTIVE" ELSE st

\* fetchAccounts: Pluggy still has the item, and answers with its accounts.
FetchAccounts(s) ==
    /\ slot[s].pc = "marked"
    /\ remote[slot[s].item] = "linked"
    /\ slot' = [slot EXCEPT ![s].pc = "listed"]
    /\ UNCHANGED <<rowVars, consents, ingestVars, remote, audit, requestVars, job,
                   lapses, raced, faults>>

\* The upserts, for whichever accounts Pluggy listed, one by one or several at
\* a time; between two of them the user may disconnect the item.
UpsertAccounts(s) ==
    /\ slot[s].pc = "listed"
    /\ \E listed \in SUBSET {a \in Accounts : ItemOf[a] = slot[s].item} :
           account' = [a \in Accounts |-> IF a \in listed THEN upsertedStatus(account[a])
                                                          ELSE account[a]]
    /\ \E pc \in {"listed", "ingesting"} : slot' = [slot EXCEPT ![s].pc = pc]
    /\ UNCHANGED <<rowVars, consents, undetected, remote, audit, requestVars, job,
                   lapses, raced, faults>>

\* fetchTransactions for an account that has a local row.
FetchPage(s) ==
    /\ slot[s].pc = "ingesting"
    /\ remote[slot[s].item] = "linked"
    /\ \E a \in Accounts : ItemOf[a] = slot[s].item /\ account[a] # "none"
    /\ slot' = [slot EXCEPT ![s].pc = "fetched"]
    /\ UNCHANGED <<rowVars, consents, ingestVars, remote, audit, requestVars, job,
                   lapses, raced, faults>>

UpsertPage(s) ==
    /\ slot[s].pc = "fetched"
    /\ undetected' = [undetected EXCEPT ![slot[s].item] = Detectors]
    /\ slot' = [slot EXCEPT ![s].pc = "ingesting"]
    /\ UNCHANGED <<rowVars, consents, account, remote, audit, requestVars, job,
                   lapses, raced, faults>>

\* The cursor is exhausted: status, last_synced_at and, for a manual run,
\* last_manual_sync_at, whatever the row says by now.
Publish(s) ==
    /\ slot[s].pc = "ingesting"
    /\ status' = [status EXCEPT ![slot[s].item] = "UPDATED"]
    /\ lastSynced' = [lastSynced EXCEPT ![slot[s].item] = "fresh"]
    /\ lastManual' = [lastManual EXCEPT ![slot[s].item] =
                          IF slot[s].trigger = "manual" THEN "recent" ELSE @]
    /\ slot' = [slot EXCEPT ![s].pc = "published"]
    /\ UNCHANGED <<consents, ingestVars, remote, audit, requestVars, job, lapses, raced,
                   faults>>

\* The detectors take a user_id: one job covers all items of the owner.
detect(s, d) ==
    undetected' = [i \in Items |-> IF Owner[i] = Owner[slot[s].item]
                                   THEN undetected[i] \ {d} ELSE undetected[i]]

EnqueueTransferDetector(s) ==
    /\ slot[s].pc = "published"
    /\ detect(s, "transfer")
    /\ slot' = [slot EXCEPT ![s].pc = "transferQueued"]
    /\ UNCHANGED <<rowVars, consents, account, remote, audit, requestVars, job,
                   lapses, raced, faults>>

\* The last statement: the handler returns and, unless pg-boss has given the
\* attempt up, the job completes.
EnqueueFaturaDetector(s) ==
    /\ slot[s].pc = "transferQueued"
    /\ detect(s, "fatura")
    /\ slot' = [slot EXCEPT ![s] = IdleSlot]
    /\ job' = IF slot[s].attached THEN [job EXCEPT ![slot[s].job] = FreeJob] ELSE job
    /\ UNCHANGED <<rowVars, consents, account, remote, audit, requestVars, lapses, raced,
                   faults>>

\* mutant: the catch block logs and forgets to rethrow
Swallow(s) ==
    /\ slot' = [slot EXCEPT ![s] = IdleSlot]
    /\ job' = IF slot[s].attached THEN [job EXCEPT ![slot[s].job] = FreeJob] ELSE job
    /\ lapses' = lapses

\* The catch block rethrows: pg-boss retries the job, if it still waits for
\* this attempt.
rethrow(s) ==
    /\ slot' = [slot EXCEPT ![s] = IdleSlot]
    /\ IF slot[s].attached THEN failJob(slot[s].job)
       ELSE /\ job' = job
            /\ lapses' = [lapses EXCEPT ![slot[s].item] = @ \union {"dropped"}]

\* Any statement of the handler throws, or its process dies and the job's
\* expiry reports it.
AttemptFails(s) ==
    /\ Busy(s)
    /\ faults < MaxFaults
    /\ faults' = faults + 1
    /\ rethrow(s)
    /\ UNCHANGED <<rowVars, consents, ingestVars, remote, audit, requestVars, raced>>

\* mutant: a call about a deleted item hangs instead of throwing
FetchHangs(s) ==
    /\ slot[s].pc \in {"marked", "ingesting"}
    /\ remote[slot[s].item] = "deleted"
    /\ UNCHANGED vars

\* Pluggy no longer has the item: PluggyError.
FetchFails(s) ==
    /\ slot[s].pc \in {"marked", "ingesting"}
    /\ remote[slot[s].item] = "deleted"
    /\ rethrow(s)
    /\ UNCHANGED <<rowVars, consents, ingestVars, remote, audit, requestVars,
                   raced, faults>>

\* pg-boss gives an attempt up while its handler is still running; the
\* handler is not cancelled and goes on writing.
Expire(s) ==
    /\ Busy(s)
    /\ slot[s].attached
    /\ faults < MaxFaults
    /\ faults' = faults + 1
    /\ slot' = [slot EXCEPT ![s].attached = FALSE]
    /\ failJob(slot[s].job)
    /\ UNCHANGED <<rowVars, consents, ingestVars, remote, audit, requestVars, raced>>

-----------------------------------------------------------------------------
(* Time *)

CooldownEnds(i) ==
    /\ lastManual[i] = "recent"
    /\ lastManual' = [lastManual EXCEPT ![i] = "past"]
    /\ UNCHANGED <<status, lastSynced, consents, ingestVars, remote, audit,
                   requestVars, queueVars>>

\* Twelve hours are longer than the thirty minutes of the cooldown.
GoesStale(i) ==
    /\ lastSynced[i] = "fresh"
    /\ lastManual[i] # "recent"
    /\ lastSynced' = [lastSynced EXCEPT ![i] = "stale"]
    /\ UNCHANGED <<status, lastManual, consents, ingestVars, remote, audit,
                   requestVars, queueVars>>

-----------------------------------------------------------------------------
ConnectStep(i) == ConnectConsent(i) \/ ConnectEnqueue(i) \/ ConnectAudit(i)
ManualStep(i) == ManualEnqueue(i) \/ ManualAudit(i)
RemoveStep(i) == RemoveCommit(i) \/ RemoveAudit(i)

Request(i) ==
    \/ WidgetLink(i) \/ ConnectInsert(i) \/ ConnectStep(i) \/ ConnectAbort(i)
    \/ ManualCheck(i) \/ ManualStep(i) \/ ManualAbort(i)
    \/ RemoveRemote(i) \/ RemoveStep(i) \/ RemoveAbort(i)
    \/ WebhookEnqueue(i) \/ CooldownEnds(i) \/ GoesStale(i)

Reconcile == ReconcileSelect \/ ReconcileAbort \/ \E i \in Items : ReconcileEnqueue(i)

Advance(s) ==
    \/ AuditReconnect(s) \/ MarkUpdating(s) \/ FetchAccounts(s) \/ UpsertAccounts(s)
    \/ UpsertPage(s) \/ Publish(s)
    \/ EnqueueTransferDetector(s) \/ EnqueueFaturaDetector(s) \/ FetchFails(s)

TakeJob(j) == SkipSync(j) \/ \E s \in Slots : StartSync(s, j)

Next ==
    \/ \E i \in Items : Request(i)
    \/ Reconcile
    \/ \E j \in Jobs : TakeJob(j) \/ LookupFails(j)
    \/ \E s \in Slots : Advance(s) \/ FetchPage(s) \/ AttemptFails(s) \/ Expire(s)

Spec == Init /\ [][Next]_vars

\* The worker process runs, pg-boss serves its queue in order (so no job is
\* passed over forever), the cron fires every hour and a paginated listing
\* ends.  Nothing else is assumed of Pluggy, and nothing of users and requests.
Fairness ==
    /\ \A s \in Slots : WF_vars(Advance(s)) /\ SF_vars(Publish(s))
    /\ \A j \in Jobs : SF_vars(TakeJob(j))
    /\ WF_vars(ReconcileSelect)
    /\ \A i \in Items : SF_vars(ReconcileEnqueue(i))

FairSpec == Spec /\ Fairness

-----------------------------------------------------------------------------
(* Properties *)

JobRecord == [state: {"free", "created", "active"}, item: Items \union {None},
              trigger: Trigger, tries: 0..(RetryLimit + 1)]

SlotRecord == [pc: {"idle", "resolved", "audited", "marked", "listed", "ingesting",
                    "fetched", "published", "transferQueued"},
               item: Items \union {None}, trigger: Trigger,
               job: Jobs \union {None}, attached: BOOLEAN]

\* Types of the state; that no job is attempted more than RetryLimit + 1
\* times is the one bound the code (pg-boss's retryLimit) has to keep.
TypeOK ==
    /\ status \in [Items -> ItemStatus \union {"none"}]
    /\ lastSynced \in [Items -> {"never", "fresh", "stale"}]
    /\ lastManual \in [Items -> {"never", "recent", "past"}]
    /\ consents \in [Items -> SUBSET {"GRANTED", "REVOKED"}]
    /\ account \in [Accounts -> {"none", "ACTIVE", "DELETED"}]
    /\ remote \in [Items -> {"absent", "linked", "deleted"}]
    /\ undetected \in [Items -> SUBSET Detectors]
    /\ audit \subseteq {"item_connected", "manual_sync_triggered", "item_disconnected",
                        "cooldown_bypassed"} \X Items
    /\ connect \in [Items -> {"idle", "inserted", "consented", "enqueued"}]
    /\ manual \in [Items -> {"idle", "checked", "enqueued"}]
    /\ remove \in [Items -> {"idle", "remoteDeleted", "committed"}]
    /\ reconcileTodo \subseteq Items
    /\ job \in [Jobs -> JobRecord]
    /\ slot \in [Slots -> SlotRecord]
    /\ lapses \in [Items -> SUBSET {"dropped", "swallowed"}]
    /\ raced \subseteq Items
    /\ faults \in 0..MaxFaults

\* What the UPDATING mark is good for: two syncs of an item overlap only if
\* both read the row before either had marked it.  The queue does not keep
\* them apart (worker.ts:52 says it does), the mark does, except for its test
\* and its write being two statements: an attempt that expires, a webhook, the
\* cron and a user's click in any order add no other way.
SyncsAreExclusiveUnlessRaced ==
    \A i \in Items \ raced : \A s, t \in AtWork(i) : s = t

\* LGPD: no account of an item is stored unless the consent row for it was
\* written, although the connect route writes the item row, the consent row
\* and the sync job in three separate statements, may die between any two,
\* and a webhook for the item may be processed in between.
ConsentBeforeIngest ==
    \A a \in Accounts : account[a] # "none" => "GRANTED" \in consents[ItemOf[a]]

\* A row says DISCONNECTED only when Pluggy has really given the item up and
\* the revocation is on record: the route calls Pluggy first and stops on an
\* error, and writes the rest in one transaction.
DisconnectIsBacked ==
    \A i \in Items :
        /\ status[i] = "DISCONNECTED" =>
               remote[i] = "deleted" /\ "REVOKED" \in consents[i]
        /\ <<"item_disconnected", i>> \in audit => "REVOKED" \in consents[i]

\* No sync in flight -- a handler that read the row before the DELETE, or
\* one that expired and runs on -- brings a soft-deleted account back.
DeletedAccountsStayDeleted ==
    [][\A a \in Accounts : account[a] = "DELETED" => account'[a] = "DELETED"]_vars

Retrying(i) == \E j \in Jobs : Queued(j) /\ job[j].item = i /\ job[j].tries > 0

\* No transaction page is left without its transfer and fatura detectors: an
\* item that reads UPDATED, with no handler on it and no retry waiting, had
\* both enqueued after its last page, whatever failed and however handlers
\* overlapped -- unless an attempt on it was dropped for good (the retries
\* are used up, or an expired handler died).
DetectorsFollowIngest ==
    \A i \in Items :
        (/\ status[i] = "UPDATED"
         /\ InFlight(i) = {}
         /\ ~Retrying(i)
         /\ "dropped" \notin lapses[i]) => undetected[i] = {}

\* The only ways an item can be left in UPDATING: it never completed a first
\* sync, a handler is at work, or an attempt on it failed -- the retry is
\* still to come, was dropped, or found the row UPDATING and did nothing.
UpdatingIsExplained ==
    \A i \in Items :
        status[i] = "UPDATING" =>
            \/ lastSynced[i] = "never"
            \/ InFlight(i) # {}
            \/ Retrying(i)
            \/ lapses[i] # {}

\* The item-status policy with the guarantee the code really gives:
\* ItemLifecycle, with the running handlers as the holders of a row.
Lifecycle == INSTANCE ItemLifecycle WITH Handlers <- Slots,
                 holders <- [i \in Items |-> InFlight(i)]

ImplementsLifecycle == Lifecycle!Spec

\* A disconnected item with no sync in flight stays so for good.
QuietDisconnectIsTerminal == Lifecycle!QuietDisconnectIsTerminal

\* Every job that enters the queue is settled and every handler ends.
WorkDrains ==
    /\ \A j \in Jobs : job[j].state # "free" ~> job[j].state = "free"
    /\ \A s \in Slots : Busy(s) ~> ~Busy(s)

\* The reconcile cron repairs missed webhooks: an item that went stale is
\* refreshed, unless it is disconnected or an attempt on it came to nothing.
StaleIsRefreshed ==
    \A i \in Items :
        lastSynced[i] = "stale" ~>
            \/ lastSynced[i] = "fresh"
            \/ status[i] = "DISCONNECTED"
            \/ lapses[i] # {}

-----------------------------------------------------------------------------
(* What a comment says of the code, and it does not do *)

\* UPDATING -> UPDATED "(sync success)": the first sync of a newly connected
\* item happens.
FirstConnectSyncs ==
    \A i \in Items :
        (\E j \in Jobs : Queued(j) /\ job[j].item = i /\ job[j].trigger = "first_connect")
            ~> lastSynced[i] # "never" \/ remote[i] = "deleted"

=============================================================================
