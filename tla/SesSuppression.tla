---------------------------- MODULE SesSuppression ----------------------------
(***************************************************************************)
(* Bounces and complaints: SNS notifications, the route that stores them,  *)
(* the sesBounce worker and the suppression list the mailer consults.      *)
(*                                                                         *)
(* SNS delivers a notification until it is answered with a 2xx.  The route *)
(* inserts the event and enqueues its job in two statements; the worker    *)
(* writes one suppression row per recipient, in order, then processed_at.  *)
(* When an attempt expires its handler is not cancelled: it goes on beside  *)
(* the next attempt (one per notice at a time: bound).                     *)
(*                                                                         *)
(* Left out: bodies that do not parse or whose signature is refused (4xx,  *)
(* nothing stored) and the one-time subscription handshake.                *)
(***************************************************************************)
EXTENDS Naturals, Sequences

CONSTANTS
    Addresses,  \* mail addresses, in lower case
    Notices,    \* MessageIds of SNS notifications
    Malformed   \* the notices whose inner message is not JSON

\* The addresses a notice names: bounced or complained recipients.
CONSTANT RecipientsOf

ASSUME SesAssumption ==
    /\ RecipientsOf \in [Notices -> Seq(Addresses)]
    /\ Malformed \subseteq Notices

VARIABLES
    sns,      \* SNS's side of a notice: pending, or acked by a 2xx
    event,    \* webhook_events rows: none, stored or processed
    storing,  \* the notices whose request is between insert and enqueue
    bounce,   \* per notice, its sesBounce job
    stray,    \* the recipient a handler that outlived its attempt writes next; 0: none
    ids       \* ids[a][n]: times n is in notification_ids of the row of a

sesVars == <<sns, event, storing, bounce, stray, ids>>

-----------------------------------------------------------------------------
\* next: the recipient the running attempt writes next; 0: it has not read
\* the event; failed: attempts that ended before processed_at was written.
NoJob == [state |-> "none", next |-> 0, failed |-> 0]

hasRow(a) == \E n \in Notices : ids[a][n] > 0

SesInit ==
    /\ sns = [n \in Notices |-> "pending"]
    /\ event = [n \in Notices |-> "none"]
    /\ storing = {}
    /\ bounce = [n \in Notices |-> NoJob]
    /\ stray = [n \in Notices |-> 0]
    /\ ids = [a \in Addresses |-> [n \in Notices |-> 0]]

-----------------------------------------------------------------------------
(* POST /api/webhooks/ses/bounces *)

\* mutant: a conflict counts as new until the event is processed
UntilProcessed(n) == event[n] # "processed"

isNew(n) == event[n] = "none"

\* A new event is inserted.
StoreNotice(n) ==
    /\ sns[n] = "pending"
    /\ isNew(n)
    /\ event' = [event EXCEPT ![n] = "stored"]
    /\ storing' = storing \union {n}
    /\ UNCHANGED <<sns, bounce, stray, ids>>

EnqueueBounce(n) ==
    /\ n \in storing
    /\ storing' = storing \ {n}
    /\ bounce' = [bounce EXCEPT ![n].state = "queued"]
    /\ UNCHANGED <<sns, event, stray, ids>>

\* The enqueue fails or the process dies: SNS will deliver again.
StoreFails(n) ==
    /\ n \in storing
    /\ storing' = storing \ {n}
    /\ UNCHANGED <<sns, event, bounce, stray, ids>>

\* The 200: to the request that has enqueued the job, or to a delivery that finds
\* the event and enqueues nothing, at whatever point the other is.
AnswerNotice(n) ==
    /\ sns[n] = "pending"
    /\ ~isNew(n)
    /\ sns' = [sns EXCEPT ![n] = "acked"]
    /\ UNCHANGED <<event, storing, bounce, stray, ids>>

-----------------------------------------------------------------------------
(* sesBounceWorker *)

finish(n) == bounce' = [bounce EXCEPT ![n].state = "finishing", ![n].next = 0]

\* mutant: the double-delivery guard is dropped
NeverSkips(n) == n \in Malformed

\* Nothing to do: processed by an earlier delivery of the job, or malformed.
isSkipped(n) == event[n] = "processed" \/ n \in Malformed

ReadEvent(n) ==
    /\ bounce[n].state = "queued"
    /\ IF isSkipped(n)
       THEN finish(n)
       ELSE bounce' = [bounce EXCEPT ![n].state = "running", ![n].next = 1]
    /\ UNCHANGED <<sns, event, storing, stray, ids>>

\* Insert the row of the recipient, or append the notice to it.
suppress(n, i) ==
    /\ i \in 1..Len(RecipientsOf[n])
    /\ ids' = [ids EXCEPT ![RecipientsOf[n][i]][n] = @ + 1]

SuppressNext(n) ==
    /\ bounce[n].state = "running"
    /\ suppress(n, bounce[n].next)
    /\ bounce' = [bounce EXCEPT ![n].next = @ + 1]
    /\ UNCHANGED <<sns, event, storing, stray>>

\* mutant: processed_at is written before the recipients
AnyTime(n, i) == TRUE

allWritten(n, i) == i > Len(RecipientsOf[n])

MarkProcessed(n) ==
    /\ bounce[n].state = "running"
    /\ allWritten(n, bounce[n].next)
    /\ event' = [event EXCEPT ![n] = "processed"]
    /\ finish(n)
    /\ UNCHANGED <<sns, storing, stray, ids>>

\* pg-boss notes that the job has completed.
CompleteBounce(n) ==
    /\ bounce[n].state = "finishing"
    /\ bounce' = [bounce EXCEPT ![n].state = "done"]
    /\ UNCHANGED <<sns, event, storing, stray, ids>>

\* The attempt is over: the job is delivered again, or given up.
retry(n) ==
    \E s \in {"queued", "failed"} :
      bounce' = [bounce EXCEPT ![n] =
        [state |-> s, next |-> 0,
         failed |-> @.failed + IF @.state = "running" THEN 1 ELSE 0]]

\* A statement fails, or the worker dies before the job is noted as completed.
BounceFails(n) ==
    /\ bounce[n].state \in {"running", "finishing"}
    /\ retry(n)
    /\ UNCHANGED <<sns, event, storing, stray, ids>>

\* The attempt expires; its handler goes on.
BounceExpires(n) ==
    /\ bounce[n].state = "running"
    /\ stray[n] = 0
    /\ retry(n)
    /\ stray' = [stray EXCEPT ![n] = bounce[n].next]
    /\ UNCHANGED <<sns, event, storing, ids>>

StraySuppresses(n) ==
    /\ suppress(n, stray[n])
    /\ stray' = [stray EXCEPT ![n] = @ + 1]
    /\ UNCHANGED <<sns, event, storing, bounce>>

StrayMarks(n) ==
    /\ stray[n] # 0
    /\ allWritten(n, stray[n])
    /\ event' = [event EXCEPT ![n] = "processed"]
    /\ stray' = [stray EXCEPT ![n] = 0]
    /\ UNCHANGED <<sns, storing, bounce, ids>>

StrayFails(n) ==
    /\ stray[n] # 0
    /\ stray' = [stray EXCEPT ![n] = 0]
    /\ UNCHANGED <<sns, event, storing, bounce, ids>>

-----------------------------------------------------------------------------
SesStep == \E n \in Notices :
    \/ StoreNotice(n) \/ EnqueueBounce(n) \/ AnswerNotice(n)
    \/ ReadEvent(n) \/ SuppressNext(n) \/ MarkProcessed(n) \/ CompleteBounce(n)
    \/ StraySuppresses(n) \/ StrayMarks(n)

SesFault == \E n \in Notices :
    StoreFails(n) \/ BounceFails(n) \/ BounceExpires(n) \/ StrayFails(n)

SesTypeOK ==
    /\ sns \in [Notices -> {"pending", "acked"}]
    /\ event \in [Notices -> {"none", "stored", "processed"}]
    /\ storing \in SUBSET Notices
    /\ bounce \in [Notices -> [state : {"none", "queued", "running", "finishing",
                                        "done", "failed"},
                               next : Nat, failed : Nat]]
    /\ stray \in [Notices -> Nat]
    /\ ids \in [Addresses -> [Notices -> Nat]]

\* Where the route and the queue leave a notice.
placeOf(n) ==
    IF event[n] = "none" THEN "new"
    ELSE IF n \in storing THEN "stored"
    ELSE IF bounce[n].state # "none" THEN "dispatched"
    ELSE "lost"

Inbox == INSTANCE EventInbox WITH Events <- Notices,
             place <- [n \in Notices |-> placeOf(n)],
             acked <- {n \in Notices : sns[n] = "acked"}

\* A notice is answered only once its event is stored, enqueued only by the request
\* that stored it, and one lost between the two statements stays lost, however often
\* SNS delivers it (api/webhooks/ses/bounces/route.ts).
ImplementsInbox == Inbox!Spec

\* An event marked processed has put every address it names on the list, whichever
\* of its handlers marked it (sesBounceWorker: recipients, then processed_at).
ProcessedIsSuppressed ==
    \A n \in Notices : event[n] = "processed" =>
      \A i \in 1..Len(RecipientsOf[n]) : ids[RecipientsOf[n][i]][n] > 0

\* notification_ids lists a notice once per attempt that reached the address: only
\* an attempt that failed or expired before processed_at makes a second entry, and
\* a job delivered after that adds none.  Stated for notices that name an address
\* once (sesBounceWorker, array_append, the double-delivery guard).
namesOnce(n) ==
    \A i, j \in 1..Len(RecipientsOf[n]) : RecipientsOf[n][i] = RecipientsOf[n][j] => i = j

RepeatsAreFailures ==
    \A n \in Notices, a \in Addresses :
      namesOnce(n) => ids[a][n] <= 1 + bounce[n].failed
=============================================================================
