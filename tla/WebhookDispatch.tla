--------------------------- MODULE WebhookDispatch ---------------------------
(***************************************************************************)
(* Pluggy's webhooks, from delivery to effect: the receiver                *)
(* (src/app/api/webhooks/pluggy/route.ts), which stores the event once and *)
(* enqueues a job for it, and the two workers that only webhooks feed:     *)
(* reAuthNotifierWorker (the "reconnect your bank" e-mail, debounced for   *)
(* 24 hours) and itemReauthSucceededAuditWorker.  The sync jobs it         *)
(* enqueues are PluggySync's: here they only enter the queue.              *)
(*                                                                         *)
(* Pluggy redelivers an event until it sees a 200, possibly while an       *)
(* earlier delivery is still being handled or although its 200 was lost.   *)
(* Grain: one action per awaited statement.  The model covers one debounce *)
(* window: the 24 hours after a stamp do not pass.                         *)
(*                                                                         *)
(* Left out: requests without the secret or with a bad body, which are     *)
(* answered before anything is stored.                                     *)
(***************************************************************************)
EXTENDS Naturals, FiniteSets

CONSTANTS
    Items,       \* rows of pluggy_items, by the hash the events carry
    Events,      \* Pluggy event ids
    Kind,        \* Kind[e]: what mapEventToQueue tells apart
    ItemOf,      \* ItemOf[e]: the item event e is about
    Requests,    \* deliveries being handled at one time (bound)
    Notifiers,   \* executions of the re-auth notifier alive at one time (bound)
    Auditors,    \* executions of the re-auth auditor alive at one time (bound)
    Concurrency, \* localConcurrency of both queues
    RetryLimit,  \* pg-boss retryLimit
    MaxFaults,   \* requests that die and attempts that fail (bound)
    MaxExpiries, \* attempts pg-boss gives up while they run (bound)
    None

ASSUME ConstantsAssumption ==
    /\ Kind \in [Events -> {"sync", "login_succeeded", "error", "unmapped"}]
    /\ ItemOf \in [Events -> Items]
    /\ Notifiers \intersect Auditors = {}
    /\ IsFiniteSet(Notifiers) /\ IsFiniteSet(Auditors)
    /\ Concurrency \in Nat \ {0}
    /\ RetryLimit \in Nat
    /\ MaxFaults \in Nat
    /\ MaxExpiries \in Nat
    /\ None \notin Events

VARIABLES
    rows,       \* items whose pluggy_items row exists
    suppressed, \* items whose owner's address is on the suppression list
    stored,     \* events with a webhook_events row
    acked,      \* events Pluggy has seen a 200 for
    req,        \* the deliveries being handled
    sends,      \* sends[q][e]: boss.send calls into queue q for event e
    job,        \* job[q][e]: the job they made
    run,        \* the running handlers of the two queues
    recent,     \* items with last_reauth_email_at in this window
    emails,     \* emails[i]: re-auth e-mails handed to SES in this window
    reauthRows, \* reauthRows[e]: item_reauth_succeeded audit rows for e
    orphaned,   \* history: events whose first request died before its enqueues
    unstamped,  \* history: unstamped[i], attempts that ended before i's stamp
    faults,
    expiries

external == <<rows, suppressed>>
inbox == <<stored, acked, req, orphaned>>
effects == <<recent, emails, reauthRows, unstamped>>
vars == <<external, inbox, sends, job, run, effects, faults, expiries>>

-----------------------------------------------------------------------------
Queue == {"sync", "notifier", "reauthAudit"}

\* The queue of an event and, for item/login_succeeded, the audit queue too.
queuesOf(e) ==
    CASE Kind[e] = "sync" -> {"sync"}
      [] Kind[e] = "login_succeeded" -> {"sync", "reauthAudit"}
      [] Kind[e] = "error" -> {"notifier"}
      [] Kind[e] = "unmapped" -> {}

NoJob == [state |-> "none", tries |-> 0]
IdleRequest == [pc |-> "idle", event |-> None]
IdleRun == [pc |-> "idle", event |-> None, attached |-> FALSE]

Handlers == Notifiers \union Auditors
queueOf(h) == IF h \in Notifiers THEN "notifier" ELSE "reauthAudit"

Busy(h) == run[h].pc # "idle"

InFlight(i) == {h \in Notifiers : Busy(h) /\ ItemOf[run[h].event] = i}

Init ==
    /\ rows \in SUBSET Items
    /\ suppressed \in SUBSET Items
    /\ stored = {}
    /\ acked = {}
    /\ req = [r \in Requests |-> IdleRequest]
    /\ sends = [q \in Queue |-> [e \in Events |-> 0]]
    /\ job = [q \in Queue |-> [e \in Events |-> NoJob]]
    /\ run = [h \in Handlers |-> IdleRun]
    /\ recent = {}
    /\ emails = [i \in Items |-> 0]
    /\ reauthRows = [e \in Events |-> 0]
    /\ orphaned = {}
    /\ unstamped = [i \in Items |-> 0]
    /\ faults = 0
    /\ expiries = 0

-----------------------------------------------------------------------------
(* The receiver: POST /api/webhooks/pluggy *)

\* Pluggy delivers, again while it has seen no 200.
Deliver(r, e) ==
    /\ req[r].pc = "idle"
    /\ e \notin acked
    /\ req' = [req EXCEPT ![r] = [pc |-> "received", event |-> e]]
    /\ UNCHANGED <<external, stored, acked, orphaned, sends, job, run, effects,
                   faults, expiries>>

\* mutant: RETURNING is not looked at, so a duplicate is dispatched again
DispatchesDuplicates(r) == "stored"

\* INSERT ... ON CONFLICT DO NOTHING RETURNING id tells new from duplicate.
afterInsert(r) == IF req[r].event \in stored THEN "answering" ELSE "stored"

InsertEvent(r) ==
    /\ req[r].pc = "received"
    /\ stored' = stored \union {req[r].event}
    /\ req' = [req EXCEPT ![r].pc = afterInsert(r)]
    /\ UNCHANGED <<external, acked, orphaned, sends, job, run, effects, faults, expiries>>

enqueue(q, e) ==
    /\ sends' = [sends EXCEPT ![q][e] = @ + 1]
    /\ job' = [job EXCEPT ![q][e].state = "created"]

\* mutant: the audit enqueue returns early for every event
SkipsReauthAudit(r) == "answering"

afterDispatch(r) ==
    IF Kind[req[r].event] = "login_succeeded" THEN "dispatched" ELSE "answering"

\* A new event goes to its queue; an unmapped one is only stored.
Dispatch(r) ==
    /\ req[r].pc = "stored"
    /\ LET e == req[r].event
           q == queuesOf(e) \ {"reauthAudit"}
       IN IF q = {} THEN UNCHANGED <<sends, job>>
                    ELSE \E queue \in q : enqueue(queue, e)
    /\ req' = [req EXCEPT ![r].pc = afterDispatch(r)]
    /\ UNCHANGED <<external, stored, acked, orphaned, run, effects, faults, expiries>>

DispatchReauthAudit(r) ==
    /\ req[r].pc = "dispatched"
    /\ enqueue("reauthAudit", req[r].event)
    /\ req' = [req EXCEPT ![r].pc = "answering"]
    /\ UNCHANGED <<external, stored, acked, orphaned, run, effects, faults, expiries>>

\* The 200, which Pluggy may not get to see.
Answer(r) ==
    /\ req[r].pc = "answering"
    /\ \/ acked' = acked \union {req[r].event}
       \/ UNCHANGED acked
    /\ req' = [req EXCEPT ![r] = IdleRequest]
    /\ UNCHANGED <<external, stored, orphaned, sends, job, run, effects, faults, expiries>>

\* A statement throws (500) or the web process dies: nothing is rolled back.
RequestDies(r) ==
    /\ req[r].pc # "idle"
    /\ faults < MaxFaults
    /\ faults' = faults + 1
    /\ orphaned' = IF req[r].pc \in {"stored", "dispatched"}
                   THEN orphaned \union {req[r].event} ELSE orphaned
    /\ req' = [req EXCEPT ![r] = IdleRequest]
    /\ UNCHANGED <<external, stored, acked, sends, job, run, effects, expiries>>

-----------------------------------------------------------------------------
(* pg-boss, as both workers meet it *)

\* A worker that gives its attempt up fetches again, although the handler is
\* not cancelled: only attached handlers count against localConcurrency.
Attached(q) == {h \in Handlers : queueOf(h) = q /\ run[h].attached}

mayFetch(h) == ~Busy(h) /\ Cardinality(Attached(queueOf(h))) < Concurrency

take(h, e, pc) ==
    /\ mayFetch(h)
    /\ job[queueOf(h)][e].state = "created"
    /\ job' = [job EXCEPT ![queueOf(h)][e] = [state |-> "active", tries |-> @.tries + 1]]
    /\ run' = [run EXCEPT ![h] = [pc |-> pc, event |-> e, attached |-> TRUE]]

settled(h, outcome) ==
    IF run[h].attached THEN [job EXCEPT ![queueOf(h)][run[h].event].state = outcome] ELSE job

\* The handler returns: the job completes, unless the attempt was given up.
return(h) ==
    /\ job' = settled(h, "done")
    /\ run' = [run EXCEPT ![h] = IdleRun]

\* mutant: the catch block does not rethrow
Swallowed(q, e) == "done"

retryState(q, e) == IF job[q][e].tries <= RetryLimit THEN "created" ELSE "failed"

\* History: an attempt ends at one of the given statements, short of the stamp.
missed(h, pcs) ==
    IF run[h].attached /\ run[h].pc \in pcs
    THEN [unstamped EXCEPT ![ItemOf[run[h].event]] = @ + 1]
    ELSE unstamped

AttemptFails(h) ==
    /\ Busy(h)
    /\ faults < MaxFaults
    /\ faults' = faults + 1
    /\ job' = settled(h, retryState(queueOf(h), run[h].event))
    /\ run' = [run EXCEPT ![h] = IdleRun]
    /\ unstamped' = missed(h, {"sent"})
    /\ UNCHANGED <<external, inbox, sends, recent, emails, reauthRows, expiries>>

\* expireInSeconds runs out; the handler is not cancelled and goes on.
Expire(h) ==
    /\ run[h].attached
    /\ expiries < MaxExpiries
    /\ expiries' = expiries + 1
    /\ job' = settled(h, retryState(queueOf(h), run[h].event))
    /\ run' = [run EXCEPT ![h].attached = FALSE]
    /\ unstamped' = missed(h, {"resolved", "sent"})
    /\ UNCHANGED <<external, inbox, sends, recent, emails, reauthRows, faults>>

-----------------------------------------------------------------------------
(* reAuthNotifierWorker *)

\* mutant: the debounce guard dropped
NeverDebounced(i) == FALSE

debounced(i) == i \in recent

\* One read serves the lookup and the debounce guard.
NotifyStart(h, e) ==
    /\ ItemOf[e] \in rows
    /\ ~debounced(ItemOf[e])
    /\ take(h, e, "resolved")
    /\ UNCHANGED <<external, inbox, sends, effects, faults, expiries>>

\* No row yet, or an e-mail within the window: the job completes.
NotifySkip(h, e) ==
    /\ mayFetch(h)
    /\ job["notifier"][e].state = "created"
    /\ ItemOf[e] \notin rows \/ debounced(ItemOf[e])
    /\ job' = [job EXCEPT !["notifier"][e].state = "done"]
    /\ UNCHANGED <<external, inbox, sends, run, effects, faults, expiries>>

\* sendEmail: a suppressed address gets nothing, and no error says so.
SendEmail(h) ==
    /\ run[h].pc = "resolved"
    /\ emails' = [emails EXCEPT ![ItemOf[run[h].event]] =
                      IF ItemOf[run[h].event] \in suppressed THEN @ ELSE @ + 1]
    /\ run' = [run EXCEPT ![h].pc = "sent"]
    /\ UNCHANGED <<external, inbox, sends, job, recent, reauthRows, unstamped, faults, expiries>>

readyToStamp(h) == run[h].pc = "sent"

Stamp(h) ==
    /\ readyToStamp(h)
    /\ recent' = recent \union {ItemOf[run[h].event]}
    /\ run' = [run EXCEPT ![h].pc = "stamped"]
    /\ UNCHANGED <<external, inbox, sends, job, emails, reauthRows, unstamped, faults, expiries>>

\* The item_reauth_started audit row, the handler's last statement.
NotifyEnd(h) ==
    /\ run[h].pc = "stamped"
    /\ return(h)
    /\ UNCHANGED <<external, inbox, sends, effects, faults, expiries>>

-----------------------------------------------------------------------------
(* itemReauthSucceededAuditWorker *)

\* mutant: the idempotency query looks for nothing
NeverWritten(e) == FALSE

alreadyWritten(e) == reauthRows[e] > 0

AuditStart(g, e) ==
    /\ ~alreadyWritten(e)
    /\ take(g, e, "checked")
    /\ UNCHANGED <<external, inbox, sends, effects, faults, expiries>>

AuditSkip(g, e) ==
    /\ mayFetch(g)
    /\ job["reauthAudit"][e].state = "created"
    /\ alreadyWritten(e)
    /\ job' = [job EXCEPT !["reauthAudit"][e].state = "done"]
    /\ UNCHANGED <<external, inbox, sends, run, effects, faults, expiries>>

\* The lookup by hash and the insert; without a row there is nothing to log.
AuditInsert(g) ==
    /\ run[g].pc = "checked"
    /\ LET e == run[g].event
       IN reauthRows' = [reauthRows EXCEPT ![e] = IF ItemOf[e] \in rows THEN @ + 1 ELSE @]
    /\ run' = [run EXCEPT ![g].pc = "inserted"]
    /\ UNCHANGED <<external, inbox, sends, job, recent, emails, unstamped, faults, expiries>>

AuditEnd(g) ==
    /\ run[g].pc = "inserted"
    /\ return(g)
    /\ UNCHANGED <<external, inbox, sends, effects, faults, expiries>>

-----------------------------------------------------------------------------
\* POST /api/pluggy/items inserts the row; its webhooks may come first.
RowInserted(i) ==
    /\ rows' = rows \union {i}
    /\ rows' # rows
    /\ UNCHANGED <<suppressed, inbox, sends, job, run, effects, faults, expiries>>

Handle(r) == InsertEvent(r) \/ Dispatch(r) \/ DispatchReauthAudit(r) \/ Answer(r)

NotifyTake(e) == \E h \in Notifiers : NotifyStart(h, e) \/ NotifySkip(h, e)
AuditTake(e) == \E g \in Auditors : AuditStart(g, e) \/ AuditSkip(g, e)

Advance(h) == SendEmail(h) \/ Stamp(h) \/ NotifyEnd(h) \/ AuditInsert(h) \/ AuditEnd(h)

Next ==
    \/ \E r \in Requests : Handle(r) \/ RequestDies(r) \/ \E e \in Events : Deliver(r, e)
    \/ \E e \in Events : NotifyTake(e) \/ AuditTake(e)
    \/ \E h \in Handlers : Advance(h) \/ AttemptFails(h) \/ Expire(h)
    \/ \E i \in Items : RowInserted(i)

Spec == Init /\ [][Next]_vars

\* The events that call for a job on a queue.
eventsOf(q) == {e \in Events : q \in queuesOf(e)}

\* A request that arrived is handled, the worker process runs and pg-boss
\* hands out every job.  Pluggy may deliver or not.
Fairness ==
    /\ \A r \in Requests : WF_vars(Handle(r))
    /\ \A e \in eventsOf("notifier") : SF_vars(NotifyTake(e))
    /\ \A e \in eventsOf("reauthAudit") : SF_vars(AuditTake(e))
    /\ \A h \in Handlers : WF_vars(Advance(h))

FairSpec == Spec /\ Fairness

-----------------------------------------------------------------------------
(* Properties *)

\* Types; an attempt that pg-boss has not given up is one of an active job,
\* and no job is tried more often than the retry limit allows.
TypeOK ==
    /\ rows \subseteq Items /\ suppressed \subseteq Items
    /\ stored \subseteq Events /\ acked \subseteq Events /\ orphaned \subseteq Events
    /\ req \in [Requests -> [pc: {"idle", "received", "stored", "dispatched", "answering"},
                             event: Events \union {None}]]
    /\ sends \in [Queue -> [Events -> Nat]]
    /\ job \in [Queue -> [Events -> [state: {"none", "created", "active", "done", "failed"},
                                     tries: 0..(RetryLimit + 1)]]]
    /\ run \in [Handlers -> [pc: {"idle", "resolved", "sent", "stamped", "checked", "inserted"},
                             event: Events \union {None}, attached: BOOLEAN]]
    /\ recent \subseteq Items
    /\ emails \in [Items -> Nat]
    /\ reauthRows \in [Events -> Nat]
    /\ unstamped \in [Items -> Nat]
    /\ faults \in 0..MaxFaults
    /\ expiries \in 0..MaxExpiries
    /\ \A h \in Handlers : run[h].attached =>
           Busy(h) /\ job[queueOf(h)][run[h].event].state = "active"

\* However often and however concurrently an event is delivered, it makes at
\* most one job per queue.
DispatchedOnce == \A q \in Queue, e \in Events : sends[q][e] <= 1

\* The request that stored an event and has still to enqueue for it.
Dispatching(e) ==
    \E r \in Requests : req[r].event = e /\ req[r].pc \in {"stored", "dispatched"}

\* An event can be stored -- and from then on be answered with 200 -- without
\* the jobs it calls for only while its first request is at work, or because
\* that request died: there is no other way to lose it.
UndispatchedIsExplained ==
    \A e \in stored : \/ \A q \in queuesOf(e) : sends[q][e] > 0
                      \/ Dispatching(e)
                      \/ e \in orphaned

\* Where the receiver's requests and sends leave an event.
placeOf(e) ==
    IF e \notin stored THEN "new"
    ELSE IF Dispatching(e) THEN "stored"
    ELSE IF \A q \in queuesOf(e) : sends[q][e] > 0 THEN "dispatched"
    ELSE "lost"

Inbox == INSTANCE EventInbox WITH place <- [e \in Events |-> placeOf(e)]

\* Whatever is delivered again, and however deliveries overlap, an event is
\* answered only once it is stored, dispatched only by the request that stored
\* it, and one that is lost stays lost (api/webhooks/pluggy/route.ts).
ImplementsInbox == Inbox!Spec

\* How far the e-mail storm can go that the 24-hour debounce is there to stop:
\* one e-mail for each of the attempts the queue runs at one time, since they
\* read the stamp before any of them writes it, and one more for each attempt
\* on the item that failed between its e-mail and its stamp, or was given up
\* before its stamp.  (reAuthNotifierWorker.ts:18 says one e-mail per day:
\* that needs one attempt at a time, and none that ends this way.)
EmailStormBounded == \A i \in Items : emails[i] <= Concurrency + unstamped[i]

\* A stamp that silences the notifier for 24 hours was preceded by an e-mail,
\* unless the address is on the suppression list.
NoSilentDebounce == recent \subseteq {i \in Items : emails[i] > 0} \union suppressed

\* From the stamp on, once no handler is at work on the item, no further
\* e-mail goes out, whatever retries and redeliveries are still to come.
QuietDebounce ==
    [][\A i \in Items : i \in recent /\ InFlight(i) = {} =>
                           emails'[i] = emails[i] /\ InFlight(i)' = {}]_vars

\* A retried audit job writes its row once, whatever statement the attempts
\* before it failed at; only an attempt that was given up while it still ran
\* can add another.
ReauthRowsBounded == \A e \in Events : reauthRows[e] <= 1 + expiries

\* Every stored event reaches its queues, unless its first request died.
StoredIsDispatched ==
    \A e \in Events : e \in stored ~> e \in orphaned \/ \A q \in queuesOf(e) : sends[q][e] > 0

\* A broken connection the notifier knows the row of gets as far as the stamp,
\* and before it the mailer, unless the job used up its retries (a suppressed
\* address is stamped too, and gets nothing).
UserIsTold ==
    \A e \in eventsOf("notifier") :
        job["notifier"][e].state = "created" /\ ItemOf[e] \in rows
            ~> ItemOf[e] \in recent \/ job["notifier"][e].state = "failed"

=============================================================================
