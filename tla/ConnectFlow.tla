------------------------------ MODULE ConnectFlow ------------------------------
(***************************************************************************)
(* From signing up to a connected bank: SignupForm and signup, the page    *)
(* /connect with its paywall, ConsentScreen, POST /api/connect/init, the   *)
(* Pluggy Connect widget and the request ConnectIsland makes of its        *)
(* result, and the progress card of /connect/success.                      *)
(*                                                                         *)
(* One person with several tabs.  A page is rendered from one look at the  *)
(* database and acted upon much later; the requests behind it do not look  *)
(* again at what it was rendered from, except for the CPF.  A page that    *)
(* loses its answer is used again while its request runs on by itself.     *)
(*                                                                         *)
(* No statement of the program writes LOGIN_ERROR or WAITING_USER_INPUT,   *)
(* and the sync worker skips a row in UPDATING, which is how the connect   *)
(* route inserts it.  So only items of an earlier release are ever synced. *)
(*                                                                         *)
(* Left out: bodies that do not parse, legal texts, the queue (PluggySync),*)
(* reconnecting an item of somebody else.                                  *)
(***************************************************************************)
EXTENDS Naturals, FiniteSets

CONSTANTS
    Tabs,      \* tabs of the person, and places for requests without one
    Abandoned, \* those places (bound)
    Items,     \* items Pluggy will create
    Cpfs,      \* valid CPFs the person may type
    TakenCpfs, \* those another account has stored
    MaxConsents, \* rows of scope PLUGGY_CONNECT_PENDING in all (bound)
    MaxFaults, \* failed requests (bound)
    None

ASSUME ConnectAssumption ==
    /\ IsFiniteSet(Tabs) /\ IsFiniteSet(Items)
    /\ Abandoned \subseteq Tabs
    /\ TakenCpfs \subseteq Cpfs
    /\ MaxConsents \in Nat
    /\ MaxFaults \in Nat
    /\ None \notin Items \union Cpfs

VARIABLES
    tier,     \* users.subscription_tier: free or paid
    user,     \* is there a users row with the address
    session,  \* is the browser signed in
    cpf,      \* the CPF of the users row; None: the signup placeholder
    pending,  \* rows of user_consents of scope PLUGGY_CONNECT_PENDING
    item,     \* per item: Pluggy's side and the pluggy_items row
    tab,      \* per tab, the page it shows or the request under way
    signups,  \* history: tabs a signup has signed in
    faults

vars == <<tier, user, session, cpf, pending, item, tab, signups, faults>>

-----------------------------------------------------------------------------
Pages == {"signup", "dashboard", "paywall", "consent", "widget", "success",
          "transactions", "partial", "closed"}

\* The statement the handler is about to execute.
Requests == {"checking", "hashing", "opening", "reading", "writing", "consenting",
             "issuing", "posting", "finishing"}

\* hasCpf and reconnect: what the page was rendered with; ticked: the consent box;
\* cpf: what was sent; linked: the item the widget returned; seen: history, the
\* items that used the free plan when the page was rendered.
SignupPage ==
    [at |-> "signup", hasCpf |-> FALSE, reconnect |-> None, ticked |-> FALSE,
     cpf |-> None, linked |-> None, seen |-> {}]

\* Where nobody waits for a request, and none is under way.
NoTab == [SignupPage EXCEPT !.at = "closed"]

\* account: its accounts row, if any; synced: it has transactions; held: a sync
\* handler is at work; dropped: history, the user has disconnected it; over:
\* history, seen of the page the item was connected from.
NoItem ==
    [linked |-> FALSE, status |-> "none", account |-> "none", synced |-> FALSE,
     held |-> FALSE, dropped |-> FALSE, over |-> {}]

\* An item an earlier release has connected and synced.
OldItem ==
    [NoItem EXCEPT !.linked = TRUE, !.status = "UPDATED", !.account = "active",
                   !.synced = TRUE]

hasItem(i) == item[i].status # "none"

Init ==
    /\ tier \in {"free", "paid"}
    /\ user \in BOOLEAN
    /\ item \in [Items -> {NoItem} \union IF user THEN {OldItem} ELSE {}]
    /\ cpf \in {None} \union IF user THEN Cpfs \ TakenCpfs ELSE {}
    /\ session = FALSE
    /\ pending = Cardinality({i \in Items : hasItem(i)})
    /\ tab = [t \in Tabs |-> IF t \in Abandoned THEN NoTab ELSE SignupPage]
    /\ signups = {}
    /\ faults = 0

goes(t, at) == tab' = [tab EXCEPT ![t].at = at]

\* The page an answer leads to, if anybody waits for it.
shown(t, page) == IF t \in Abandoned THEN "closed" ELSE page

-----------------------------------------------------------------------------
(* Signing up *)

SubmitSignup(t) ==
    /\ tab[t].at = "signup"
    /\ goes(t, "checking")
    /\ UNCHANGED <<tier, user, session, cpf, pending, item, signups, faults>>

\* The address is looked up; a known one is refused with a message.
CheckEmail(t) ==
    /\ tab[t].at = "checking"
    /\ goes(t, IF user THEN shown(t, "signup") ELSE "hashing")
    /\ UNCHANGED <<tier, user, session, cpf, pending, item, signups, faults>>

\* mutant: the insert is an upsert
Upserts == TRUE

\* users_email_unique.
isNewEmail == ~user

\* One transaction: the row with a placeholder for the CPF, consent, audit.
CreateUser(t) ==
    /\ tab[t].at = "hashing"
    /\ IF isNewEmail
       THEN user' = TRUE /\ goes(t, "opening")
       ELSE user' = user /\ goes(t, shown(t, "signup"))
    /\ UNCHANGED <<tier, session, cpf, pending, item, signups, faults>>

\* The cookie comes with the answer.
OpenSession(t) ==
    /\ tab[t].at = "opening"
    /\ session' = (session \/ t \notin Abandoned)
    /\ signups' = signups \union ({t} \ Abandoned)
    /\ goes(t, shown(t, "dashboard"))
    /\ UNCHANGED <<tier, user, cpf, pending, item, faults>>

signingUp(t) == tab[t].at \in {"checking", "hashing", "opening"}

\* The handler stops: the form says so, also when the account is there already.
SignupFails(t) ==
    /\ signingUp(t)
    /\ faults < MaxFaults
    /\ faults' = faults + 1
    /\ goes(t, shown(t, "signup"))
    /\ UNCHANGED <<tier, user, session, cpf, pending, item, signups>>

\* Any other way in: the login page.
SignIn(t) ==
    /\ tab[t].at = "signup"
    /\ user
    /\ session' = TRUE
    /\ goes(t, "dashboard")
    /\ UNCHANGED <<tier, user, cpf, pending, item, signups, faults>>

-----------------------------------------------------------------------------
(* The page /connect *)

\* mutant: an item without accounts is not active
WithAccounts(i) == item[i].account = "active"

\* The accounts of an item the count looks at: none at all, or an active one.
countsByAccounts(i) == item[i].account # "deleted"

\* getActiveItemCount.
activeItems == {i \in Items : hasItem(i) /\ countsByAccounts(i)}

\* What the free plan allows one of: connected, and not disconnected by the user.
usesPlan == {i \in Items : hasItem(i) /\ ~item[i].dropped}

atRest(t) == tab[t].at \in {"dashboard", "paywall", "consent", "transactions", "partial"}

OpenConnect(t) ==
    /\ session
    /\ atRest(t)
    /\ tab' = [tab EXCEPT ![t] =
         [SignupPage EXCEPT
            !.at = IF tier = "free" /\ activeItems # {} THEN "paywall" ELSE "consent",
            !.hasCpf = cpf # None, !.seen = usesPlan]]
    /\ UNCHANGED <<tier, user, session, cpf, pending, item, signups, faults>>

\* /connect?reconnect=, from the re-auth e-mail or the banner.
OpenReconnect(t, i) ==
    /\ session
    /\ atRest(t)
    /\ hasItem(i)
    /\ tab' = [tab EXCEPT ![t] =
         [SignupPage EXCEPT !.at = "consent", !.hasCpf = cpf # None, !.reconnect = i]]
    /\ UNCHANGED <<tier, user, session, cpf, pending, item, signups, faults>>

\* "Voltar para o dashboard" and "Nao conectar agora".
Decline(t) ==
    /\ tab[t].at \in {"paywall", "consent"}
    /\ goes(t, "dashboard")
    /\ UNCHANGED <<tier, user, session, cpf, pending, item, signups, faults>>

\* The button below the box is disabled until it is ticked.
Tick(t) ==
    /\ tab[t].at = "consent"
    /\ tab' = [tab EXCEPT ![t].ticked = ~@]
    /\ UNCHANGED <<tier, user, session, cpf, pending, item, signups, faults>>

\* Where the field is shown, nothing is sent before the CPF in it is valid.
Agree(t) ==
    /\ tab[t].at = "consent"
    /\ tab[t].ticked
    /\ \E c \in IF tab[t].hasCpf THEN {None} ELSE Cpfs :
         tab' = [tab EXCEPT ![t].at = "reading", ![t].cpf = c]
    /\ UNCHANGED <<tier, user, session, cpf, pending, item, signups, faults>>

-----------------------------------------------------------------------------
(* POST /api/connect/init *)

\* mutant: the length of the placeholder is taken for no CPF and so is a real one
NeverReal == FALSE

userHasRealCpf == cpf # None

\* mutant: the consent row is written after the widget
TokenFirst == "issuing"

afterCpf == "consenting"

ReadCpf(t) ==
    /\ tab[t].at = "reading"
    /\ goes(t, IF userHasRealCpf \/ tab[t].cpf = None THEN afterCpf ELSE "writing")
    /\ UNCHANGED <<tier, user, session, cpf, pending, item, signups, faults>>

\* users_cpf_hash_unique refuses a CPF of another account: 500, a toast.
WriteCpf(t) ==
    /\ tab[t].at = "writing"
    /\ IF tab[t].cpf \in TakenCpfs
       THEN goes(t, shown(t, "consent")) /\ UNCHANGED cpf
       ELSE goes(t, afterCpf) /\ cpf' = tab[t].cpf
    /\ UNCHANGED <<tier, user, session, pending, item, signups, faults>>

\* Also when the item to reconnect has been read.
RecordConsent(t) ==
    /\ tab[t].at = "consenting"
    /\ pending < MaxConsents
    /\ pending' = pending + 1
    /\ goes(t, "issuing")
    /\ UNCHANGED <<tier, user, session, cpf, item, signups, faults>>

IssueToken(t) ==
    /\ tab[t].at = "issuing"
    /\ goes(t, shown(t, "widget"))
    /\ UNCHANGED <<tier, user, session, cpf, pending, item, signups, faults>>

InitFails(t) ==
    /\ tab[t].at \in {"reading", "writing", "consenting", "issuing"}
    /\ faults < MaxFaults
    /\ faults' = faults + 1
    /\ goes(t, shown(t, "consent"))
    /\ UNCHANGED <<tier, user, session, cpf, pending, item, signups>>

-----------------------------------------------------------------------------
(* The widget and POST /api/pluggy/items *)

\* The consent screen is shown anew.
backToConsent(t) ==
    tab' = [tab EXCEPT ![t].at = shown(t, "consent"), ![t].ticked = FALSE]

\* Pluggy has created the item, or updated the one to reconnect.
Link(t) ==
    /\ tab[t].at = "widget"
    /\ \E i \in Items :
         /\ IF tab[t].reconnect = None THEN ~item[i].linked ELSE i = tab[t].reconnect
         /\ item' = [item EXCEPT ![i].linked = TRUE]
         /\ tab' = [tab EXCEPT ![t].at = "posting", ![t].linked = i]
    /\ UNCHANGED <<tier, user, session, cpf, pending, signups, faults>>

\* Closed or failed: a toast, and the consent screen is shown again.
CloseWidget(t) ==
    /\ tab[t].at = "widget"
    /\ backToConsent(t)
    /\ UNCHANGED <<tier, user, session, cpf, pending, item, signups, faults>>

InsertItem(t) ==
    /\ tab[t].at = "posting"
    /\ LET i == tab[t].linked IN
       /\ ~hasItem(i)
       /\ item' = [item EXCEPT ![i].status = "UPDATING", ![i].over = tab[t].seen]
    /\ goes(t, "finishing")
    /\ UNCHANGED <<tier, user, session, cpf, pending, signups, faults>>

\* 409 ALREADY_CONNECTED, which is how every reconnect ends.
AlreadyConnected(t) ==
    /\ tab[t].at = "posting"
    /\ hasItem(tab[t].linked)
    /\ backToConsent(t)
    /\ UNCHANGED <<tier, user, session, cpf, pending, item, signups, faults>>

\* Consent, job and audit row; then the page is left.
FinishPost(t) ==
    /\ tab[t].at = "finishing"
    /\ goes(t, shown(t, "success"))
    /\ UNCHANGED <<tier, user, session, cpf, pending, item, signups, faults>>

isPosting(t) == tab[t].at \in {"posting", "finishing"}

\* A toast says it could not connect: the item stays at Pluggy, and so does the row.
PostFails(t) ==
    /\ isPosting(t)
    /\ faults < MaxFaults
    /\ faults' = faults + 1
    /\ backToConsent(t)
    /\ UNCHANGED <<tier, user, session, cpf, pending, item, signups>>

\* The connection is lost: the page takes it for a failure, the request goes on.
LoseAnswer(t, u) ==
    /\ t \notin Abandoned
    /\ tab[t].at \in Requests
    /\ u \in Abandoned
    /\ tab[u].at = "closed"
    /\ faults < MaxFaults
    /\ faults' = faults + 1
    /\ tab' = [tab EXCEPT ![u] = tab[t],
                          ![t].at = IF signingUp(t) THEN "signup" ELSE "consent",
                          ![t].ticked = @ /\ ~isPosting(t)]
    /\ UNCHANGED <<tier, user, session, cpf, pending, item, signups>>

-----------------------------------------------------------------------------
(* What becomes of an item, and the progress card *)

\* The worker skips UPDATING and DISCONNECTED.
StartSync(i) ==
    /\ item[i].status = "UPDATED"
    /\ ~item[i].held
    /\ item' = [item EXCEPT ![i].status = "UPDATING", ![i].held = TRUE]
    /\ UNCHANGED <<tier, user, session, cpf, pending, tab, signups, faults>>

\* Unconditionally; accounts that are there keep their status.
EndSync(i) ==
    /\ item[i].held
    /\ item' = [item EXCEPT ![i].status = "UPDATED", ![i].held = FALSE]
    /\ UNCHANGED <<tier, user, session, cpf, pending, tab, signups, faults>>

Disconnect(i) ==
    /\ hasItem(i)
    /\ item[i].status # "DISCONNECTED"
    /\ item' = [item EXCEPT ![i].status = "DISCONNECTED", ![i].dropped = TRUE,
                            ![i].account = IF @ = "none" THEN @ ELSE "deleted"]
    /\ UNCHANGED <<tier, user, session, cpf, pending, tab, signups, faults>>

\* GET /api/sync-status: the transactions of the user, not of the newest item.
isCompleted == \E i \in Items : item[i].synced

\* The card polls, and leaves once: when the phase is completed ...
LeaveCompleted(t) ==
    /\ tab[t].at = "success"
    /\ isCompleted
    /\ goes(t, "transactions")
    /\ UNCHANGED <<tier, user, session, cpf, pending, item, signups, faults>>

\* ... after a minute, or by its link.
LeaveEarly(t) ==
    /\ tab[t].at = "success"
    /\ goes(t, "partial")
    /\ UNCHANGED <<tier, user, session, cpf, pending, item, signups, faults>>

-----------------------------------------------------------------------------
Next ==
    \/ \E t \in Tabs :
         \/ SubmitSignup(t) \/ CheckEmail(t) \/ CreateUser(t) \/ OpenSession(t)
         \/ SignupFails(t) \/ SignIn(t)
         \/ OpenConnect(t) \/ (\E i \in Items : OpenReconnect(t, i))
         \/ Decline(t) \/ Tick(t) \/ Agree(t)
         \/ ReadCpf(t) \/ WriteCpf(t) \/ RecordConsent(t) \/ IssueToken(t) \/ InitFails(t)
         \/ Link(t) \/ CloseWidget(t) \/ InsertItem(t) \/ AlreadyConnected(t)
         \/ FinishPost(t) \/ PostFails(t) \/ (\E u \in Tabs : LoseAnswer(t, u))
         \/ LeaveCompleted(t) \/ LeaveEarly(t)
    \/ \E i \in Items : StartSync(i) \/ EndSync(i) \/ Disconnect(i)

Spec == Init /\ [][Next]_vars
-----------------------------------------------------------------------------
\* Types of the variables.
TypeOK ==
    /\ tier \in {"free", "paid"}
    /\ user \in BOOLEAN
    /\ session \in BOOLEAN
    /\ cpf \in Cpfs \union {None}
    /\ pending \in Nat
    /\ item \in [Items -> [linked : BOOLEAN,
                           status : {"none", "UPDATING", "UPDATED", "DISCONNECTED"},
                           account : {"none", "active", "deleted"},
                           synced : BOOLEAN, held : BOOLEAN, dropped : BOOLEAN,
                           over : SUBSET Items]]
    /\ tab \in [Tabs -> [at : Pages \union Requests, hasCpf : BOOLEAN,
                         reconnect : Items \union {None}, ticked : BOOLEAN,
                         cpf : Cpfs \union {None}, linked : Items \union {None},
                         seen : SUBSET Items]]
    /\ signups \in SUBSET Tabs
    /\ faults \in Nat

\* However many tabs sign up with one address, one at most is signed in by it: the
\* others look it up too late or fail on the unique index (signupCore.ts).
OneSignupWins == Cardinality(signups) <= 1

\* Once a real CPF is stored and no request that had read the placeholder is left,
\* it is final: no request writes one again, whatever stale consent screens send.
\* A request whose page has given it up counts as well (userHasRealCpf, connect/init).
settledCpf == cpf # None /\ \A t \in Tabs : tab[t].at # "writing"

QuietCpfIsFinal == [][settledCpf => settledCpf' /\ cpf' = cpf]_vars

linking(t) == tab[t].at = "widget" /\ tab[t].reconnect = None

\* Each item linked at Pluggy, and each widget that may still link one, has a
\* consent row of its own from before the widget opened (connect/init, D-08 step 1).
LinkedAfterConsent ==
    Cardinality({i \in Items : item[i].linked}) + Cardinality({t \in Tabs : linking(t)})
      <= pending

\* On the free plan a second item is connected only from a page rendered before
\* the first was, or after the user disconnected that one: POST /api/pluggy/items
\* does not count again (getActiveItemCount in connect/page.tsx, D-49).
FreeTierIsRaced ==
    tier = "free" =>
      \A i, j \in Items : hasItem(i) /\ hasItem(j) => i \notin item[j].over
=============================================================================
