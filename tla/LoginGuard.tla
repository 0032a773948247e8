----------------------------- MODULE LoginGuard -----------------------------
(***************************************************************************)
(* Logging in to one account: POST /api/auth/login with its limiter, the   *)
(* account lock and its unlock e-mail, GET /api/auth/unlock, and the login *)
(* form of each browser tab.                                               *)
(*                                                                         *)
(* Grain: one action per awaited statement that reads or writes shared     *)
(* state.  A tab waits for at most one answer, but what runs on the server *)
(* is not the tab's: when the connection is lost or the page is left, the  *)
(* handler goes on to its end and the form can be submitted again.  The    *)
(* pg-boss client of the web process is part of the model, since an unlock *)
(* e-mail may be the first thing it enqueues.                              *)
(*                                                                         *)
(* Left out: requests whose body does not parse, audit rows, IP addresses, *)
(* the suppression list (a mail to a listed address is not sent, as in     *)
(* SesSuppression).  The session itself is PasswordReset's.                *)
(***************************************************************************)
EXTENDS RateLimit

CONSTANTS
    Tabs,           \* browser tabs on the login page
    Requests,       \* handlers that run at one time (bound)
    Locks,          \* ids of account_locks rows (bound)
    LoginLimit,     \* LOGIN_FAIL_LIMIT
    TurnstileAfter, \* TURNSTILE_AFTER
    UnlockTtl,      \* UNLOCK_TOKEN_TTL_MS, in ticks
    RetryLimit,     \* pg-boss retryLimit: attempts after the first
    MaxPosts,       \* requests in all (bound)
    MaxTime,        \* ticks in all (bound)
    MaxFaults,      \* failed statements, jobs and start-ups (bound)
    None

ASSUME GuardAssumption ==
    /\ LoginLimit \in Nat
    /\ TurnstileAfter \in Nat
    /\ UnlockTtl \in Nat
    /\ RetryLimit \in Nat
    /\ MaxPosts \in Nat
    /\ MaxTime \in Nat
    /\ MaxFaults \in Nat
    /\ None \notin Locks \union Tabs

VARIABLES
    now,
    registered, \* is there a user with this address
    hits,       \* auth_rate_limits rows of (address, LOGIN)
    req,        \* the handlers on the server, each with the tab that waits
    form,       \* per tab, what LoginForm shows
    lock,       \* account_locks rows and their unlock e-mail
    unlock,     \* what /unlock shows, until the user logs in: none, ok or expired
    boss,       \* the pg-boss client of the web process
    posts,
    past,       \* history: requests the counter let past
    racers,     \* history: requests about to insert when the user got locked
    orphaned,   \* history: locks whose request failed before the e-mail's job
    faults

clock == <<now, registered>>
history == <<past, racers, orphaned>>
vars == <<clock, hits, req, form, lock, unlock, boss, posts, history, faults>>

-----------------------------------------------------------------------------
\* tab: whose form waits for the answer, None once nobody does.
IdleRequest ==
    [pc |-> "idle", id |-> 0, tab |-> None, at |-> 0, right |-> FALSE,
     token |-> FALSE, count |-> 0, lock |-> None]

\* The form as the page mounts it; token: a solved Turnstile challenge.
BlankForm == [screen |-> "form", turnstile |-> FALSE, token |-> FALSE]

\* unlocked_at, locked_at, the request, and the job of the e-mail.
NoLock == [state |-> "none", at |-> 0, by |-> 0, mail |-> "none", tries |-> 0]

isOpen(l) == lock[l].state = "open"

Init ==
    /\ now = 0
    /\ registered \in BOOLEAN
    /\ hits = {}
    /\ req = [r \in Requests |-> IdleRequest]
    /\ form = [t \in Tabs |-> BlankForm]
    /\ lock = [l \in Locks |-> NoLock]
    /\ unlock = "none"
    /\ boss = "none"
    /\ posts = 0
    /\ past = {}
    /\ racers = {}
    /\ orphaned = {}
    /\ faults = 0

at(r, pc) == req[r].pc = pc

waits(t) == \E r \in Requests : req[r].tab = t

-----------------------------------------------------------------------------
(* The login form *)

\* The user solves the challenge; the token is kept for all later submits.  One
\* that is solved while a request is under way is of no use to that request.
SolveTurnstile(t) ==
    /\ ~waits(t)
    /\ form[t].screen = "form"
    /\ form[t].turnstile
    /\ form' = [form EXCEPT ![t].token = TRUE]
    /\ UNCHANGED <<clock, hits, req, lock, unlock, boss, posts, history, faults>>

\* The handlers of a tab that no longer waits run on.
abandoned(t) == [r \in Requests |-> IF req[r].tab = t THEN [req[r] EXCEPT !.tab = None]
                                                     ELSE req[r]]

\* The tab is opened anew on /login.
Reload(t) ==
    /\ req' = abandoned(t)
    /\ form' = [form EXCEPT ![t] = BlankForm]
    /\ UNCHANGED <<clock, hits, lock, unlock, boss, posts, history, faults>>

\* The answer is lost: "Sem conexao", and the button is enabled again.
LoseAnswer(t) ==
    /\ waits(t)
    /\ req' = abandoned(t)
    /\ UNCHANGED <<clock, hits, form, lock, unlock, boss, posts, history, faults>>

\* What onSubmit makes of an answer, if it still waits for one.
refusedForm(r, require) ==
    [t \in Tabs |-> IF req[r].tab = t
                    THEN [form[t] EXCEPT !.turnstile = @ \/ require] ELSE form[t]]

\* router.push unmounts the form.
leavesFor(r, screen) ==
    [t \in Tabs |-> IF req[r].tab = t
                    THEN [BlankForm EXCEPT !.screen = screen] ELSE form[t]]

answer(r, f) ==
    /\ req' = [req EXCEPT ![r] = IdleRequest]
    /\ form' = f

-----------------------------------------------------------------------------
(* POST /api/auth/login *)

\* checkAndIncrement reads the clock and counts the attempt.
Submit(t, right) ==
    /\ ~waits(t)
    /\ form[t].screen = "form"
    /\ posts < MaxPosts
    /\ posts' = posts + 1
    /\ hits' = hits \union {hit(posts + 1, now)}
    /\ \E r \in Requests :
         /\ at(r, "idle")
         /\ req' = [req EXCEPT ![r] =
                      [pc |-> "counted", id |-> posts + 1, tab |-> t, at |-> now,
                       right |-> right, token |-> form[t].token, count |-> 0,
                       lock |-> None]]
    /\ unlock' = "none"
    /\ UNCHANGED <<clock, form, lock, boss, history, faults>>

\* mutant: the sum as it was before the request counted itself
CountsOthers(r) == counted({h \in hits : h.id # req[r].id}, req[r].at)

attempts(r) == counted(hits, req[r].at)

\* ... and sums, in a statement of its own.
ReadCount(r) ==
    /\ at(r, "counted")
    /\ LET n == attempts(r) IN
       IF n <= LoginLimit
       THEN /\ req' = [req EXCEPT ![r].pc = "checking", ![r].count = n]
            /\ past' = past \union {req[r].id}
       ELSE /\ req' = [req EXCEPT ![r].pc = "locking", ![r].count = n]
            /\ UNCHANGED past
    /\ UNCHANGED <<clock, hits, form, lock, unlock, boss, posts, racers, orphaned, faults>>

needsTurnstile(r) == req[r].count > TurnstileAfter

\* No token, or one Cloudflare does not vouch for.
RefuseTurnstile(r) ==
    /\ at(r, "checking")
    /\ needsTurnstile(r)
    /\ answer(r, refusedForm(r, TRUE))
    /\ UNCHANGED <<clock, hits, lock, unlock, boss, posts, history, faults>>

passesTurnstile(r) == needsTurnstile(r) => req[r].token

RefusePassword(r) ==
    /\ at(r, "checking")
    /\ passesTurnstile(r)
    /\ ~(registered /\ req[r].right)
    /\ answer(r, refusedForm(r, req[r].count >= TurnstileAfter))
    /\ UNCHANGED <<clock, hits, lock, unlock, boss, posts, history, faults>>

AcceptPassword(r) ==
    /\ at(r, "checking")
    /\ passesTurnstile(r)
    /\ registered /\ req[r].right
    /\ hits' = {}
    /\ req' = [req EXCEPT ![r].pc = "accepted"]
    /\ UNCHANGED <<clock, form, lock, unlock, boss, posts, history, faults>>

\* The session row and the cookie.
InsertSession(r) ==
    /\ at(r, "accepted")
    /\ answer(r, leavesFor(r, "dashboard"))
    /\ UNCHANGED <<clock, hits, lock, unlock, boss, posts, history, faults>>

-----------------------------------------------------------------------------
(* ensureAccountLock, for a request over the limit *)

answerLocked(r) == answer(r, leavesFor(r, "locked"))

\* mutant: the query for an active lock is dropped
NoLockCounts == FALSE

\* The lock that makes a second one unnecessary: unresolved, expired or not.
hasActiveLock == \E l \in Locks : isOpen(l)

SkipLock(r) ==
    /\ at(r, "locking")
    /\ ~registered \/ hasActiveLock
    /\ answerLocked(r)
    /\ UNCHANGED <<clock, hits, lock, unlock, boss, posts, history, faults>>

\* No lock: the clock is read, the token is made and hashed.
PrepareLock(r) ==
    /\ at(r, "locking")
    /\ registered
    /\ ~hasActiveLock
    /\ req' = [req EXCEPT ![r].pc = "inserting", ![r].at = now]
    /\ UNCHANGED <<clock, hits, form, lock, unlock, boss, posts, history, faults>>

\* The requests between the query and the insert.
inserting == {req[r].id : r \in {q \in Requests : at(q, "inserting")}}

InsertLock(r) ==
    /\ at(r, "inserting")
    /\ \E l \in Locks :
         /\ lock[l] = NoLock
         /\ lock' = [lock EXCEPT ![l] = [NoLock EXCEPT !.state = "open", !.at = req[r].at,
                                                       !.by = req[r].id]]
         /\ req' = [req EXCEPT ![r].pc = "mailing", ![r].lock = l]
    /\ racers' = IF \E l \in Locks : isOpen(l) THEN racers ELSE inserting
    /\ UNCHANGED <<clock, hits, form, unlock, boss, posts, past, orphaned, faults>>

\* getBoss: the first caller creates the client, starts it and creates the
\* queues; the client is handed to other callers as soon as it is created.
CreateBoss(r) ==
    /\ at(r, "mailing")
    /\ boss = "none"
    /\ boss' = "starting"
    /\ req' = [req EXCEPT ![r].pc = "starting"]
    /\ UNCHANGED <<clock, hits, form, lock, unlock, posts, history, faults>>

StartBoss(r) ==
    /\ at(r, "starting")
    /\ boss' = "ready"
    /\ req' = [req EXCEPT ![r].pc = "mailing"]
    /\ UNCHANGED <<clock, hits, form, lock, unlock, posts, history, faults>>

\* boss.send: a client that is not ready may or may not have the queue yet.
EnqueueUnlock(r) ==
    /\ at(r, "mailing")
    /\ boss # "none"
    /\ lock' = [lock EXCEPT ![req[r].lock].mail = "queued"]
    /\ answerLocked(r)
    /\ UNCHANGED <<clock, hits, unlock, boss, posts, history, faults>>

\* A 500, whose body does not parse: the form says "Sem conexao".
failed(r) ==
    /\ answer(r, form)
    /\ orphaned' = orphaned \union ({req[r].lock} \ {None})
    /\ UNCHANGED <<clock, hits, lock, unlock, posts, past, racers>>

SendFails(r) ==
    /\ at(r, "mailing")
    /\ boss = "starting"
    /\ failed(r)
    /\ UNCHANGED <<boss, faults>>

\* A statement of the handler throws.
RequestFails(r) ==
    /\ ~at(r, "idle")
    /\ faults < MaxFaults
    /\ faults' = faults + 1
    /\ failed(r)
    /\ UNCHANGED boss

\* The web process restarts: every handler is gone, and the client.
Restart ==
    /\ faults < MaxFaults
    /\ faults' = faults + 1
    /\ req' = [r \in Requests |-> IdleRequest]
    /\ orphaned' = orphaned \union ({req[r].lock : r \in Requests} \ {None})
    /\ boss' = "none"
    /\ UNCHANGED <<clock, hits, form, lock, unlock, posts, past, racers>>

-----------------------------------------------------------------------------
(* The unlock e-mail and GET /api/auth/unlock *)

SendUnlock(l) ==
    /\ lock[l].mail = "queued"
    /\ lock' = [lock EXCEPT ![l].mail = "sent"]
    /\ UNCHANGED <<clock, hits, req, form, unlock, boss, posts, history, faults>>

\* mutant: the worker logs the error and does not throw it on
Swallowed(l) == "ended"

\* The worker throws the error on: pg-boss retries the job, RetryLimit times.
afterMailError(l) == IF lock[l].tries < RetryLimit THEN "queued" ELSE "ended"

SendUnlockFails(l) ==
    /\ lock[l].mail = "queued"
    /\ faults < MaxFaults
    /\ faults' = faults + 1
    /\ lock' = [lock EXCEPT ![l].mail = afterMailError(l), ![l].tries = @ + 1]
    /\ UNCHANGED <<clock, hits, req, form, unlock, boss, posts, history>>

\* Rows whose token has neither expired nor been used.
unlockable(l) == isOpen(l) /\ now < lock[l].at + UnlockTtl

\* The user follows the link; the row is updated by its id.
Unlock(l) ==
    /\ lock[l].mail = "sent"
    /\ unlockable(l)
    /\ lock' = [lock EXCEPT ![l].state = "unlocked"]
    /\ unlock' = "ok"
    /\ UNCHANGED <<clock, hits, req, form, boss, posts, history, faults>>

UnlockRefused(l) ==
    /\ lock[l].mail = "sent"
    /\ ~unlockable(l)
    /\ unlock' = "expired"
    /\ UNCHANGED <<clock, hits, req, form, lock, boss, posts, history, faults>>

Tick ==
    /\ now < MaxTime
    /\ now' = now + 1
    /\ UNCHANGED <<registered, hits, req, form, lock, unlock, boss, posts, history, faults>>

-----------------------------------------------------------------------------
Form(t) ==
    \/ SolveTurnstile(t) \/ Reload(t) \/ LoseAnswer(t)
    \/ \E right \in BOOLEAN : Submit(t, right)

Handle(r) ==
    \/ ReadCount(r)
    \/ RefuseTurnstile(r) \/ RefusePassword(r)
    \/ AcceptPassword(r) \/ InsertSession(r)
    \/ SkipLock(r) \/ PrepareLock(r) \/ InsertLock(r)
    \/ CreateBoss(r) \/ StartBoss(r) \/ EnqueueUnlock(r) \/ SendFails(r)
    \/ RequestFails(r)

Next ==
    \/ \E t \in Tabs : Form(t)
    \/ \E r \in Requests : Handle(r)
    \/ \E l \in Locks :
         SendUnlock(l) \/ SendUnlockFails(l) \/ Unlock(l) \/ UnlockRefused(l)
    \/ Restart \/ Tick

Spec == Init /\ [][Next]_vars

-----------------------------------------------------------------------------
RequestRecord ==
    [pc : {"idle", "counted", "checking", "accepted", "locking", "inserting",
           "mailing", "starting"},
     id : Nat, tab : Tabs \union {None}, at : Nat, right : BOOLEAN,
     token : BOOLEAN, count : Nat, lock : Locks \union {None}]

LockRecord ==
    [state : {"none", "open", "unlocked"}, at : Nat, by : Nat,
     mail : {"none", "queued", "sent", "ended"}, tries : Nat]

FormRecord == [screen : {"form", "locked", "dashboard"}, turnstile : BOOLEAN, token : BOOLEAN]

\* Types of the variables.
TypeOK ==
    /\ now \in Nat
    /\ registered \in BOOLEAN
    /\ posts \in Nat
    /\ hits \in SUBSET [id : 1..posts, window : Nat]
    /\ req \in [Requests -> RequestRecord]
    /\ form \in [Tabs -> FormRecord]
    /\ lock \in [Locks -> LockRecord]
    /\ unlock \in {"none", "ok", "expired"}
    /\ boss \in {"none", "starting", "ready"}
    /\ past \in SUBSET Nat
    /\ racers \in SUBSET Nat
    /\ orphaned \in SUBSET Locks
    /\ faults \in Nat

\* The attempts counted in one window that the limiter let past.
letPast(w) == {h \in hits : h.window = w /\ h.id \in past}

\* However requests interleave between counting themselves and reading the sum,
\* at most LoginLimit of those counted in one FIXED window since the last
\* successful login reach the password check.  That is all checkAndIncrement
\* gives: rateLimit.ts:8-11 and 36-37 speak of a trailing window, but the sum
\* takes rows whose window STARTED within window_ms, which leaves out the
\* earlier part of the window before; over a trailing window twice the limit
\* may pass.
AttemptsBounded == \A h \in hits : Cardinality(letPast(h.window)) <= LoginLimit

\* Locks are inserted without a unique index.  All locks open at one time come
\* of one race: each of a request of its own that stood between the query for
\* an active lock and the insert when the first of them was inserted, whether
\* or not a tab still waits for it (ensureAccountLock in login/route.ts).
OpenLocksRaced ==
    \A l, m \in Locks :
      isOpen(l) /\ isOpen(m) =>
        lock[l].by \in racers /\ (lock[l].by = lock[m].by => l = m)

\* An open lock, expired ones included, keeps later lockouts from making an
\* e-mail.  So its own is the only one: it was sent or is on its way, unless
\* its request is still at work or failed between the insert and the enqueue
\* (two statements), or the job failed on every one of its attempts.
UnmailedLockIsExplained ==
    \A l \in Locks :
      isOpen(l) /\ lock[l].mail \in {"none", "ended"} =>
        \/ l \in orphaned
        \/ \E r \in Requests : req[r].lock = l
        \/ lock[l].tries > RetryLimit
=============================================================================
