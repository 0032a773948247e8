---------------------------- MODULE PasswordReset ----------------------------
(***************************************************************************)
(* The sessions of one user and the reset of the password: the routes      *)
(* under api/auth/reset, the second half of POST /api/auth/login, logout,  *)
(* and the forms behind them.                                              *)
(*                                                                         *)
(* Passwords are numbered in the order they were set.  A login reads the   *)
(* user's row, verifies, and inserts the session row some statements       *)
(* later; a confirmation reads the token, hashes the new password, and     *)
(* then commits three writes in one transaction.  Nothing orders the two.  *)
(* Handlers are apart from the tabs that posted them: when the connection  *)
(* is lost, or the page is left, the form may be sent off again while the  *)
(* first handler runs on.  The tabs of one browser share its cookie.       *)
(*                                                                         *)
(* Left out: bodies that do not parse, addresses without a user (the same  *)
(* answers, nothing stored), audit rows, the 30-day expiry of sessions.    *)
(***************************************************************************)
EXTENDS RateLimit

CONSTANTS
    Browsers,      \* browsers of the user
    Logins,        \* login handlers that run at one time (bound)
    Askers,        \* tabs with the form that asks for a link
    Asks,          \* handlers of it that run at one time (bound)
    Forms,         \* tabs a link is opened in
    Confirms,      \* confirmation handlers that run at one time (bound)
    Tokens,        \* ids of password_reset_tokens rows (bound)
    PerEmailLimit, \* RESET_PER_EMAIL_LIMIT
    MaxLogins,     \* logins in all (bound)
    MaxAsks,       \* requests for a link in all (bound)
    MaxConfirms,   \* confirmations in all (bound)
    MaxTime,       \* ticks in all (bound)
    MaxFaults,     \* failed statements and jobs (bound)
    None

ASSUME ResetAssumption ==
    /\ PerEmailLimit \in Nat
    /\ MaxLogins \in Nat
    /\ MaxAsks \in Nat
    /\ MaxConfirms \in Nat
    /\ MaxTime \in Nat
    /\ MaxFaults \in Nat
    /\ None \notin Tokens \union Browsers \union Askers \union Forms

VARIABLES
    now,
    password, \* users.password_hash, by number
    token,    \* password_reset_tokens rows and the job of their e-mail
    hits,     \* auth_rate_limits rows of (address, PASSWORD_RESET)
    sessions, \* sessions rows: id, the password that was verified
    login,    \* the login handlers
    cookie,   \* per browser, the id in the session cookie; 0: none
    ask,      \* the handlers of requests for a link
    asker,    \* per asking tab, what the form shows
    confirm,  \* the confirmation handlers
    page,     \* per tab with a link, what it shows
    logins,   \* logins so far
    asks,     \* requests for a link so far
    posts,    \* confirmations so far
    overtaken, \* history: logins under way when the password last changed
    uses,     \* history: uses[k], the confirmations that committed token k
    racers,   \* history: racers[k], those that had read k when it was first used
    faults

signing == <<sessions, login, cookie, logins, overtaken>>
asking == <<hits, ask, asker, asks>>
confirming == <<confirm, page, posts, uses, racers>>
vars == <<now, password, token, signing, asking, confirming, faults>>

-----------------------------------------------------------------------------
NoToken == [state |-> "none", at |-> 0, mail |-> "none"]
IdleLogin == [pc |-> "idle", id |-> 0, by |-> None, seen |-> 0]
IdleAsk == [pc |-> "idle", id |-> 0, tab |-> None, at |-> 0, token |-> None]
IdleConfirm == [pc |-> "idle", id |-> 0, tab |-> None, token |-> None]
ClosedPage == [screen |-> "closed", token |-> None]

\* mutant: used_at is not tested
UnexpiredToken(k) == token[k].state # "none" /\ now < token[k].at + Window

\* Tokens live for an hour, the window of the limiter.
isLive(k) == token[k].state = "live" /\ now < token[k].at + Window

\* readSession: the cookie names a row.
authorized(b) == \E s \in sessions : s.id = cookie[b]

Init ==
    /\ now = 0
    /\ password = 0
    /\ token = [k \in Tokens |-> NoToken]
    /\ hits = {}
    /\ sessions = {}
    /\ login = [x \in Logins |-> IdleLogin]
    /\ cookie = [b \in Browsers |-> 0]
    /\ ask = [q \in Asks |-> IdleAsk]
    /\ asker = [a \in Askers |-> "form"]
    /\ confirm = [c \in Confirms |-> IdleConfirm]
    /\ page = [f \in Forms |-> ClosedPage]
    /\ logins = 0
    /\ asks = 0
    /\ posts = 0
    /\ overtaken = {}
    /\ uses = [k \in Tokens |-> {}]
    /\ racers = [k \in Tokens |-> {}]
    /\ faults = 0

Tick ==
    /\ now < MaxTime
    /\ now' = now + 1
    /\ UNCHANGED <<password, token, signing, asking, confirming, faults>>

-----------------------------------------------------------------------------
(* POST /api/auth/login from the password check on, and logout *)

\* The user's row is read and the password verified against it.
LoginVerify(x, b) ==
    /\ login[x].pc = "idle"
    /\ logins < MaxLogins
    /\ logins' = logins + 1
    /\ login' = [login EXCEPT ![x] = [pc |-> "verified", id |-> logins + 1, by |-> b,
                                      seen |-> password]]
    /\ UNCHANGED <<now, password, token, sessions, cookie, overtaken, asking, confirming,
                   faults>>

\* The limiter is reset and the audit row written in between.
LoginInsert(x) ==
    /\ login[x].pc = "verified"
    /\ sessions' = sessions \union {[id |-> login[x].id, seen |-> login[x].seen]}
    /\ login' = [login EXCEPT ![x].pc = "inserted"]
    /\ UNCHANGED <<now, password, token, cookie, logins, overtaken, asking, confirming,
                   faults>>

\* The answer sets the cookie, whatever it was; or it is lost.
LoginAnswer(x) ==
    /\ login[x].pc = "inserted"
    /\ cookie' \in {cookie, [cookie EXCEPT ![login[x].by] = login[x].id]}
    /\ login' = [login EXCEPT ![x] = IdleLogin]
    /\ UNCHANGED <<now, password, token, sessions, logins, overtaken, asking, confirming,
                   faults>>

\* A statement before the insert fails.
LoginFails(x) ==
    /\ login[x].pc = "verified"
    /\ faults < MaxFaults
    /\ faults' = faults + 1
    /\ login' = [login EXCEPT ![x] = IdleLogin]
    /\ UNCHANGED <<now, password, token, sessions, cookie, logins, overtaken, asking,
                   confirming>>

\* mutant: logout deletes by user instead of by token
AllRows(b) == sessions

rowsOf(b) == {s \in sessions : s.id = cookie[b]}

\* The row of the cookie is deleted, whether or not it is still there.  If the
\* answer is lost the browser keeps a cookie that names no row: as good as none.
Logout(b) ==
    /\ cookie[b] # 0
    /\ sessions' = sessions \ rowsOf(b)
    /\ cookie' = [cookie EXCEPT ![b] = 0]
    /\ UNCHANGED <<now, password, token, login, logins, overtaken, asking, confirming,
                   faults>>

-----------------------------------------------------------------------------
(* POST /api/auth/reset/request *)

\* The button is disabled while the form waits for an answer.
asksNothing(a) == asker[a] # "done" /\ \A q \in Asks : ask[q].tab # a

\* The form is sent off; addresses share the limit per IP, which may be used up.
AskRefusedByIp(a) ==
    /\ asksNothing(a)
    /\ asker' = [asker EXCEPT ![a] = "limited"]
    /\ UNCHANGED <<now, password, token, signing, hits, ask, asks, confirming, faults>>

Ask(a, q) ==
    /\ asksNothing(a)
    /\ ask[q].pc = "idle"
    /\ asks < MaxAsks
    /\ asks' = asks + 1
    /\ hits' = hits \union {hit(asks + 1, now)}
    /\ ask' = [ask EXCEPT ![q] = [IdleAsk EXCEPT !.pc = "counted", !.id = asks + 1,
                                                !.tab = a, !.at = now]]
    /\ UNCHANGED <<now, password, token, signing, asker, confirming, faults>>

\* The handler ends; the form that still waits shows the screen.
finishAsk(q, screen) ==
    /\ ask' = [ask EXCEPT ![q] = IdleAsk]
    /\ asker' = [a \in Askers |-> IF ask[q].tab = a THEN screen ELSE asker[a]]

AskCount(q) ==
    /\ ask[q].pc = "counted"
    /\ IF allowed(hits, ask[q].at, PerEmailLimit)
       THEN ask' = [ask EXCEPT ![q].pc = "issuing"] /\ UNCHANGED asker
       ELSE finishAsk(q, "limited")
    /\ UNCHANGED <<now, password, token, signing, hits, asks, confirming, faults>>

IssueToken(q) ==
    /\ ask[q].pc = "issuing"
    /\ \E k \in Tokens :
         /\ token[k] = NoToken
         /\ token' = [token EXCEPT ![k] = [state |-> "live", at |-> now, mail |-> "none"]]
         /\ ask' = [ask EXCEPT ![q].pc = "mailing", ![q].token = k]
    /\ UNCHANGED <<now, password, signing, hits, asker, asks, confirming, faults>>

EnqueueReset(q) ==
    /\ ask[q].pc = "mailing"
    /\ token' = [token EXCEPT ![ask[q].token].mail = "queued"]
    /\ finishAsk(q, "done")
    /\ UNCHANGED <<now, password, signing, hits, asks, confirming, faults>>

\* A 500 shows the same message as success.
AskFails(q) ==
    /\ ask[q].pc # "idle"
    /\ faults < MaxFaults
    /\ faults' = faults + 1
    /\ finishAsk(q, "done")
    /\ UNCHANGED <<now, password, token, signing, hits, asks, confirming>>

\* A lost connection does not; the handler runs on.
AskLost(q) ==
    /\ ask[q].tab # None
    /\ asker' = [asker EXCEPT ![ask[q].tab] = "offline"]
    /\ ask' = [ask EXCEPT ![q].tab = None]
    /\ UNCHANGED <<now, password, token, signing, hits, asks, confirming, faults>>

AskAgain(a) ==
    /\ asker[a] = "done"
    /\ asker' = [asker EXCEPT ![a] = "form"]
    /\ UNCHANGED <<now, password, token, signing, hits, ask, asks, confirming, faults>>

SendReset(k) ==
    /\ token[k].mail = "queued"
    /\ token' = [token EXCEPT ![k].mail = "sent"]
    /\ UNCHANGED <<now, password, signing, asking, confirming, faults>>

\* The worker throws the error on: the job is retried, or given up.
SendResetFails(k) ==
    /\ token[k].mail = "queued"
    /\ faults < MaxFaults
    /\ faults' = faults + 1
    /\ \E m \in {"queued", "failed"} : token' = [token EXCEPT ![k].mail = m]
    /\ UNCHANGED <<now, password, signing, asking, confirming>>

-----------------------------------------------------------------------------
(* The link: GET /api/auth/reset/validate and POST /api/auth/reset/confirm *)

\* The handlers of a tab that no longer waits run on.
abandoned(f) ==
    [c \in Confirms |-> IF confirm[c].tab = f THEN [confirm[c] EXCEPT !.tab = None]
                                              ELSE confirm[c]]

\* The link is opened, in a new tab or over what the tab showed.
OpenLink(f, k) ==
    /\ token[k].mail = "sent"
    /\ page' = [page EXCEPT ![f] = [screen |-> "validating", token |-> k]]
    /\ confirm' = abandoned(f)
    /\ UNCHANGED <<now, password, token, signing, asking, posts, uses, racers, faults>>

\* The answer, or no answer, decides what the form shows from then on.
Validate(f) ==
    /\ page[f].screen = "validating"
    /\ page' = [page EXCEPT ![f].screen = IF isLive(page[f].token) THEN "form" ELSE "invalid"]
    /\ UNCHANGED <<now, password, token, signing, asking, confirm, posts, uses, racers,
                   faults>>

\* The candidates a confirmation compares its link with.
isCandidate(k) == isLive(k)

\* The new password is posted, and the link found among the candidates.
ConfirmRead(f, c) ==
    /\ page[f].screen = "form"
    /\ \A d \in Confirms : confirm[d].tab # f
    /\ confirm[c].pc = "idle"
    /\ posts < MaxConfirms
    /\ posts' = posts + 1
    /\ isCandidate(page[f].token)
    /\ confirm' = [confirm EXCEPT ![c] = [pc |-> "hashing", id |-> posts + 1, tab |-> f,
                                          token |-> page[f].token]]
    /\ UNCHANGED <<now, password, token, signing, asking, page, uses, racers, faults>>

\* "Sem conexao": the form can be sent off again, and the handler runs on.
ConfirmLost(f) ==
    /\ \E c \in Confirms : confirm[c].tab = f
    /\ confirm' = abandoned(f)
    /\ UNCHANGED <<now, password, token, signing, asking, page, posts, uses, racers, faults>>

\* mutant: the sessions of the user are left alone
KeepsSessions == sessions

\* SEC-02: invalidate every existing session.
sessionsAfterReset == {}

\* The confirmations that have read token k and not committed yet.
hashing(k) == {confirm[c].id : c \in {d \in Confirms : confirm[d].pc = "hashing"
                                                       /\ confirm[d].token = k}}

\* One transaction: the token by its id, the password, the sessions.
ConfirmCommit(c) ==
    /\ confirm[c].pc = "hashing"
    /\ LET k == confirm[c].token IN
       /\ token' = [token EXCEPT ![k].state = "used"]
       /\ uses' = [uses EXCEPT ![k] = @ \union {confirm[c].id}]
       /\ racers' = [racers EXCEPT ![k] = IF uses[k] = {} THEN hashing(k) ELSE @]
    /\ password' = password + 1
    /\ sessions' = sessionsAfterReset
    /\ overtaken' = {login[x].id : x \in {y \in Logins : login[y].pc # "idle"}}
    /\ page' = [f \in Forms |-> IF confirm[c].tab = f THEN ClosedPage ELSE page[f]]
    /\ confirm' = [confirm EXCEPT ![c] = IdleConfirm]
    /\ UNCHANGED <<now, login, cookie, logins, posts, asking, faults>>

\* The transaction fails; the form that waits can be sent off again.
ConfirmFails(c) ==
    /\ confirm[c].pc = "hashing"
    /\ faults < MaxFaults
    /\ faults' = faults + 1
    /\ confirm' = [confirm EXCEPT ![c] = IdleConfirm]
    /\ UNCHANGED <<now, password, token, signing, asking, page, posts, uses, racers>>

-----------------------------------------------------------------------------
Sign ==
    \/ \E x \in Logins :
         \/ \E b \in Browsers : LoginVerify(x, b)
         \/ LoginInsert(x) \/ LoginAnswer(x) \/ LoginFails(x)
    \/ \E b \in Browsers : Logout(b)

AskLink ==
    \/ \E a \in Askers :
         AskRefusedByIp(a) \/ AskAgain(a) \/ \E q \in Asks : Ask(a, q)
    \/ \E q \in Asks :
         AskCount(q) \/ IssueToken(q) \/ EnqueueReset(q) \/ AskFails(q) \/ AskLost(q)

FollowLink ==
    \/ \E f \in Forms :
         \/ \E k \in Tokens : OpenLink(f, k)
         \/ \E c \in Confirms : ConfirmRead(f, c)
         \/ Validate(f) \/ ConfirmLost(f)
    \/ \E c \in Confirms : ConfirmCommit(c) \/ ConfirmFails(c)

Next ==
    \/ Tick \/ Sign \/ AskLink \/ FollowLink
    \/ \E k \in Tokens : SendReset(k) \/ SendResetFails(k)

Spec == Init /\ [][Next]_vars

-----------------------------------------------------------------------------
TokenRecord == [state : {"none", "live", "used"}, at : Nat,
                mail : {"none", "queued", "sent", "failed"}]

LoginRecord == [pc : {"idle", "verified", "inserted"}, id : Nat,
                by : Browsers \union {None}, seen : Nat]

AskRecord == [pc : {"idle", "counted", "issuing", "mailing"}, id : Nat,
              tab : Askers \union {None}, at : Nat, token : Tokens \union {None}]

ConfirmRecord == [pc : {"idle", "hashing"}, id : Nat, tab : Forms \union {None},
                  token : Tokens \union {None}]

PageRecord == [screen : {"closed", "validating", "form", "invalid"},
               token : Tokens \union {None}]

\* Types of the variables.
TypeOK ==
    /\ now \in Nat
    /\ password \in Nat
    /\ token \in [Tokens -> TokenRecord]
    /\ hits \in SUBSET [id : Nat, window : Nat]
    /\ sessions \in SUBSET [id : Nat, seen : Nat]
    /\ login \in [Logins -> LoginRecord]
    /\ cookie \in [Browsers -> Nat]
    /\ ask \in [Asks -> AskRecord]
    /\ asker \in [Askers -> {"form", "limited", "done", "offline"}]
    /\ confirm \in [Confirms -> ConfirmRecord]
    /\ page \in [Forms -> PageRecord]
    /\ logins \in Nat
    /\ asks \in Nat
    /\ posts \in Nat
    /\ overtaken \in SUBSET Nat
    /\ uses \in [Tokens -> SUBSET Nat]
    /\ racers \in [Tokens -> SUBSET Nat]
    /\ faults \in Nat

isStale(s) == s.seen # password

\* A reset ends every session but those of logins it overtook: a session of an
\* older password is that of a login which, when the password last changed, had
\* verified the old one and not inserted its row.  There are as many as logins
\* were under way then, from several tabs of one browser too, and no reset but
\* the next ends them (transaction of reset/confirm, SEC-02; login inserts last).
StaleSessionsWereOvertaken == \A s \in sessions : isStale(s) => s.id \in overtaken

\* A browser that is signed in is signed out only by its own logout, by a reset,
\* or by the late answer of a login that a reset has overtaken, whose cookie
\* replaces the good one of another tab; whatever other browsers and late logins
\* do (logout/route.ts, lib/session.ts).
SignedOutBySelfOrReset ==
    [][\A b \in Browsers :
         authorized(b) /\ ~authorized(b)' =>
           \/ cookie'[b] = 0
           \/ password' # password
           \/ cookie'[b] # cookie[b] /\ cookie'[b] \in overtaken]_vars

\* used_at is read before the password is hashed and not tested when it is set,
\* so a link can change the password more than once: but only by confirmations
\* that had read it when it was first used (reset/confirm/route.ts).
ReuseWasRaced == \A k \in Tokens : uses[k] \subseteq racers[k]
=============================================================================
