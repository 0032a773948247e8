------------------------------ MODULE DsrRequests ------------------------------
(***************************************************************************)
(* Data subject requests of one user: the card in /settings/privacy, the   *)
(* routes POST /api/privacy/export and /delete, the dsrAcknowledge worker, *)
(* and sendEmail with the suppression list of SesSuppression.              *)
(*                                                                         *)
(* A request is inserted and its acknowledgment enqueued in two            *)
(* statements.  The worker reads the request, sendEmail looks the address  *)
(* up in the list, renders, calls SES, and only then is the audit row      *)
(* written: bounces may be processed at any point in between.              *)
(*                                                                         *)
(* What runs on a server is apart from what started it: a request handler  *)
(* goes on when its card has lost the connection and shows an error, and   *)
(* a worker's handler when its attempt has expired and the job is retried. *)
(*                                                                         *)
(* Left out: the rows' status, which nothing changes yet, the words of an  *)
(* error, and the development build of the mailer, which sends nothing.    *)
(***************************************************************************)
EXTENDS SesSuppression

CONSTANTS
    Cards,      \* open pages with the card
    Requests,   \* POSTs, and the ids of the dsr_requests rows they insert (bound)
    Workers,    \* handlers of the worker that run at one time (bound)
    User,       \* the address of the user
    MaxFaults,  \* failed statements, jobs and requests (bound)
    None

ASSUME DsrAssumption ==
    /\ User \in Addresses
    /\ MaxFaults \in Nat
    /\ None \notin Requests \union Cards

Types == {"EXPORT", "DELETE"}

VARIABLES
    production, \* is NODE_ENV production in this build
    card,    \* per card, what it shows
    post,    \* per POST, its handler
    dsr,     \* dsr_requests rows: the type, or none
    ack,     \* per row, its dsrAcknowledge job
    work,    \* the handlers of the jobs
    mails,   \* per row, acknowledgments SES accepted
    audits,  \* per row, audit rows "acknowledgment: sent"
    inflight, \* history: handlers past the guard when the address was first listed
    late,    \* history: per handler, mails SES accepted from it after that
    faults

requestVars == <<card, post, dsr>>
workerVars == <<work, mails, audits, late>>
vars == <<sesVars, production, requestVars, ack, workerVars, inflight, faults>>

-----------------------------------------------------------------------------
\* modal: the confirmation dialog that is open; loading: the request it waits
\* for; protocol: the rows shown as received.
NewCard ==
    [modal |-> "none", typed |-> FALSE, loading |-> "none",
     protocol |-> [ty \in Types |-> None]]

\* tab: the card that waits for the answer.
NoPost == [pc |-> "none", tab |-> None, type |-> "none"]

\* attached: the attempt is still the job's.
Idle == [pc |-> "idle", req |-> None, attached |-> FALSE]

suppressed == hasRow(User)

Init ==
    /\ SesInit
    /\ production \in BOOLEAN
    /\ card = [c \in Cards |-> NewCard]
    /\ post = [r \in Requests |-> NoPost]
    /\ dsr = [r \in Requests |-> "none"]
    /\ ack = [r \in Requests |-> "none"]
    /\ work = [w \in Workers |-> Idle]
    /\ mails = [r \in Requests |-> 0]
    /\ audits = [r \in Requests |-> 0]
    /\ inflight = {}
    /\ late = [w \in Workers |-> 0]
    /\ faults = 0

quiet == UNCHANGED <<sesVars, production, inflight>>
atCard == quiet /\ UNCHANGED <<dsr, ack, workerVars, faults>>

-----------------------------------------------------------------------------
(* The card and its confirmation dialogs *)

\* A type with a protocol shows the pending state instead of its button; the
\* buttons are disabled while a request is under way.
OpenModal(c, ty) ==
    /\ card[c].protocol[ty] = None
    /\ card[c].loading = "none"
    /\ card[c].modal = "none"
    /\ card' = [card EXCEPT ![c].modal = ty, ![c].typed = FALSE]
    /\ atCard /\ UNCHANGED post

\* The Cancel button is disabled while it waits, but Escape and the overlay close
\* the dialog at any time.
CloseModal(c) ==
    /\ card[c].modal # "none"
    /\ card' = [card EXCEPT ![c].modal = "none", ![c].typed = FALSE]
    /\ atCard /\ UNCHANGED post

\* EXCLUIR, letter by letter.
TypePhrase(c) ==
    /\ card[c].modal = "DELETE"
    /\ card' = [card EXCEPT ![c].typed = TRUE]
    /\ atCard /\ UNCHANGED post

canConfirm(c) ==
    /\ card[c].loading = "none"
    /\ card[c].modal = "DELETE" => card[c].typed

\* submitExport and submitDelete, up to the request.  The card has only a placeholder
\* of a Turnstile token to send: in production the deletion stops here.
Confirm(c, r) ==
    /\ card[c].modal # "none"
    /\ canConfirm(c)
    /\ card[c].modal = "EXPORT" \/ ~production
    /\ post[r].pc = "none"
    /\ post' = [post EXCEPT ![r] = [pc |-> "inserting", tab |-> c, type |-> card[c].modal]]
    /\ card' = [card EXCEPT ![c].loading = card[c].modal]
    /\ atCard

\* No answer arrives: the user sees an error and may confirm again.
AnswerLost(c) ==
    /\ card[c].loading # "none"
    /\ card' = [card EXCEPT ![c].loading = "none"]
    /\ post' = [r \in Requests |-> IF post[r].tab = c THEN [post[r] EXCEPT !.tab = None]
                                                     ELSE post[r]]
    /\ atCard

-----------------------------------------------------------------------------
(* POST /api/privacy/export and /delete *)

InsertRequest(r) ==
    /\ post[r].pc = "inserting"
    /\ dsr' = [dsr EXCEPT ![r] = post[r].type]
    /\ post' = [post EXCEPT ![r].pc = "enqueueing"]
    /\ quiet /\ UNCHANGED <<card, ack, workerVars, faults>>

\* The handler ends; the card that still waits shows the answer.
answer(r, shown) ==
    /\ post' = [post EXCEPT ![r].pc = "ended", ![r].tab = None]
    /\ card' = [c \in Cards |-> IF post[r].tab = c THEN shown ELSE card[c]]

\* 201: the card shows the protocol and closes the dialog of this type.
received(k, r) ==
    [k EXCEPT !.protocol[post[r].type] = r,
              !.modal = IF @ = post[r].type THEN "none" ELSE @,
              !.loading = "none"]

EnqueueAck(r) ==
    /\ post[r].pc = "enqueueing"
    /\ ack' = [ack EXCEPT ![r] = "queued"]
    /\ answer(r, received(card[post[r].tab], r))
    /\ quiet /\ UNCHANGED <<dsr, workerVars, faults>>

\* 401, 400 or 500, the job perhaps enqueued before.
PostFails(r) ==
    /\ post[r].pc \in {"inserting", "enqueueing"}
    /\ faults < MaxFaults
    /\ faults' = faults + 1
    /\ \/ UNCHANGED ack
       \/ post[r].pc = "enqueueing" /\ ack' = [ack EXCEPT ![r] = "queued"]
    /\ answer(r, [card[post[r].tab] EXCEPT !.loading = "none"])
    /\ quiet /\ UNCHANGED <<dsr, workerVars>>

-----------------------------------------------------------------------------
(* dsrAcknowledgeWorker *)

\* pg-boss hears only of a handler whose attempt has not expired.
settled(w, s) == IF work[w].attached THEN [ack EXCEPT ![work[w].req] = s] ELSE ack

\* A job is taken; its row is looked up by its id and its user.
ReadRequest(w) ==
    /\ work[w].pc = "idle"
    /\ \E r \in Requests :
         /\ ack[r] = "queued"
         /\ ack' = [ack EXCEPT ![r] = "active"]
         /\ work' = [work EXCEPT ![w] = [pc |-> "read", req |-> r, attached |-> TRUE]]
    /\ quiet /\ UNCHANGED <<requestVars, mails, audits, late, faults>>

\* mutant: the guard looks at the worker's first attempt only
ChecksOnce(r) == suppressed /\ mails[r] = 0

isSuppressed(r) == suppressed

\* sendEmail returns without sending, and the worker does not look at the result.
GuardSend(w) ==
    /\ work[w].pc = "read"
    /\ work' = [work EXCEPT ![w].pc =
         IF isSuppressed(work[w].req) THEN "auditing" ELSE "sending"]
    /\ quiet /\ UNCHANGED <<requestVars, ack, mails, audits, late, faults>>

Send(w) ==
    /\ work[w].pc = "sending"
    /\ work' = [work EXCEPT ![w].pc = "auditing"]
    /\ mails' = [mails EXCEPT ![work[w].req] = @ + 1]
    /\ late' = [late EXCEPT ![w] = @ + IF suppressed THEN 1 ELSE 0]
    /\ quiet /\ UNCHANGED <<requestVars, ack, audits, faults>>

AuditAck(w) ==
    /\ work[w].pc = "auditing"
    /\ audits' = [audits EXCEPT ![work[w].req] = @ + 1]
    /\ ack' = settled(w, "done")
    /\ work' = [work EXCEPT ![w] = Idle]
    /\ quiet /\ UNCHANGED <<requestVars, mails, late, faults>>

\* mutant: the worker logs the error and returns
Swallowed == {"done"}

\* What becomes of a job whose attempt failed.
retried == {"queued", "failed"}

\* The worker throws the error on.
afterError == retried

AckFails(w) ==
    /\ work[w].pc # "idle"
    /\ faults < MaxFaults
    /\ faults' = faults + 1
    /\ \E s \in afterError : ack' = settled(w, s)
    /\ work' = [work EXCEPT ![w] = Idle]
    /\ quiet /\ UNCHANGED <<requestVars, mails, audits, late>>

\* The attempt runs out of time; its handler is not cancelled and goes on.
Expire(w) ==
    /\ work[w].attached
    /\ faults < MaxFaults
    /\ faults' = faults + 1
    /\ \E s \in retried : ack' = settled(w, s)
    /\ work' = [work EXCEPT ![w].attached = FALSE]
    /\ quiet /\ UNCHANGED <<requestVars, mails, audits, late>>

-----------------------------------------------------------------------------
(* Bounces meanwhile *)

sending == {w \in Workers : work[w].pc = "sending"}

\* What was past the guard when the first row for the user appeared.
Bounce ==
    /\ SesStep
    /\ inflight' = IF ~suppressed /\ hasRow(User)' THEN sending ELSE inflight
    /\ UNCHANGED <<production, requestVars, ack, workerVars, faults>>

BounceFault ==
    /\ faults < MaxFaults
    /\ faults' = faults + 1
    /\ SesFault
    /\ UNCHANGED <<production, requestVars, ack, workerVars, inflight>>

-----------------------------------------------------------------------------
Card(c) ==
    \/ \E ty \in Types : OpenModal(c, ty)
    \/ \E r \in Requests : Confirm(c, r)
    \/ CloseModal(c) \/ TypePhrase(c) \/ AnswerLost(c)

Handler(r) == InsertRequest(r) \/ EnqueueAck(r) \/ PostFails(r)

Worker(w) == ReadRequest(w) \/ GuardSend(w) \/ Send(w) \/ AuditAck(w)

Next ==
    \/ \E c \in Cards : Card(c)
    \/ \E r \in Requests : Handler(r)
    \/ \E w \in Workers : Worker(w) \/ AckFails(w) \/ Expire(w)
    \/ Bounce \/ BounceFault

\* The worker process polls its queue; users and SNS owe nothing.
Spec == Init /\ [][Next]_vars /\ \A w \in Workers : WF_vars(Worker(w))

-----------------------------------------------------------------------------
\* Types of the variables.
TypeOK ==
    /\ SesTypeOK
    /\ production \in BOOLEAN
    /\ card \in [Cards -> [modal : Types \union {"none"}, typed : BOOLEAN,
                           loading : Types \union {"none"},
                           protocol : [Types -> Requests \union {None}]]]
    /\ post \in [Requests -> [pc : {"none", "inserting", "enqueueing", "ended"},
                              tab : Cards \union {None}, type : Types \union {"none"}]]
    /\ dsr \in [Requests -> Types \union {"none"}]
    /\ ack \in [Requests -> {"none", "queued", "active", "done", "failed"}]
    /\ work \in [Workers -> [pc : {"idle", "read", "sending", "auditing"},
                              req : Requests \union {None}, attached : BOOLEAN]]
    /\ mails \in [Requests -> Nat]
    /\ audits \in [Requests -> Nat]
    /\ inflight \in SUBSET Workers
    /\ late \in [Workers -> Nat]
    /\ faults \in Nat

\* Once the address of the user is on the list no handler sends to it, except one
\* that had passed the guard already, and that one sends once: every retry looks
\* again.  With an attempt that expired one job may have two such handlers, and
\* so send twice (sendEmail: the list is read before the SES call, never after it).
LateMailWasInFlight ==
    \A w \in Workers : late[w] <= IF w \in inflight THEN 1 ELSE 0

\* An audit row "acknowledgment: sent" stands for a mail SES accepted or for an
\* address on the list; a suppressed one is recorded as sent all the same
\* (dsrAcknowledgeWorker ignores the result of sendEmail).
AuditedIsMailedOrSuppressed ==
    \A r \in Requests : audits[r] > 0 => mails[r] > 0 \/ suppressed

\* "Voce recebera um e-mail de confirmacao em breve": a protocol the card shows is
\* mailed, unless its job was given up or the address is on the list; to a listed
\* address no mail goes, whatever the card says and whatever the audit row says
\* (RequestPendingState, dsrAcknowledgeWorker, sendEmail).
ShownIsMailed ==
    \A c \in Cards, ty \in Types, r \in Requests :
      card[c].protocol[ty] = r ~> mails[r] > 0 \/ suppressed \/ ack[r] = "failed"
=============================================================================
