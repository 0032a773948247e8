------------------------- MODULE PasswordResetProofs -------------------------
(***************************************************************************)
(* Sessions and reset links, for any number of browsers, tabs, handlers,   *)
(* tokens and resets: what survives a change of the password, which        *)
(* confirmations may use a link again, and who may sign a browser out.     *)
(*                                                                         *)
(* StaleInv says that a login about to insert a session of an old password *)
(* was overtaken by the last reset; UseInv that the confirmations still    *)
(* hashing for a used link had read it before its first use; IdInv and     *)
(* RowInv that a session id has one owner: a handler or a cookie.          *)
(***************************************************************************)
EXTENDS PasswordReset, TLAPS

\* A page with a link, and a confirmation, hold a token.
LinkInv ==
    /\ \A f \in Forms : page[f].screen # "closed" => page[f].token \in Tokens
    /\ \A c \in Confirms : confirm[c].pc = "hashing" => confirm[c].token \in Tokens

UseInv ==
    \A k \in Tokens : uses[k] # {} =>
      /\ token[k].state = "used"
      /\ \A c \in Confirms : confirm[c].pc = "hashing" /\ confirm[c].token = k =>
           confirm[c].id \in racers[k]

StaleInv ==
    \A x \in Logins :
      login[x].pc = "verified" /\ login[x].seen # password => login[x].id \in overtaken

\* Ids are given once: to one login, then to one cookie.
IdInv ==
    /\ \A x \in Logins : login[x].pc # "idle" =>
         /\ login[x].id \in 1..logins /\ login[x].by \in Browsers
         /\ \A b \in Browsers : cookie[b] # login[x].id
         /\ \A y \in Logins : login[y].pc # "idle" /\ login[y].id = login[x].id => x = y
    /\ \A b \in Browsers : cookie[b] <= logins
    /\ \A b, c \in Browsers : cookie[b] = cookie[c] /\ cookie[b] # 0 => b = c
    /\ \A s \in sessions : s.id # 0

\* A session that waits for its cookie is there, or a reset has ended it.
RowInv ==
    \A x \in Logins : login[x].pc = "inserted" =>
      login[x].id \in overtaken \/ \E s \in sessions : s.id = login[x].id

IInv ==
    /\ TypeOK
    /\ LinkInv
    /\ UseInv
    /\ StaleInv
    /\ IdInv
    /\ RowInv
    /\ StaleSessionsWereOvertaken
    /\ ReuseWasRaced

SessionInv == StaleInv /\ IdInv /\ RowInv /\ StaleSessionsWereOvertaken
TokenInv == LinkInv /\ UseInv /\ ReuseWasRaced

\* No login, link or session to begin with.
LEMMA InitIInv == Init => IInv
<1> SUFFICES ASSUME Init PROVE IInv
  OBVIOUS
<1>1. TypeOK
  <2>1. /\ NoToken \in TokenRecord /\ IdleLogin \in LoginRecord /\ IdleAsk \in AskRecord
        /\ IdleConfirm \in ConfirmRecord /\ ClosedPage \in PageRecord
    BY DEF NoToken, TokenRecord, IdleLogin, LoginRecord, IdleAsk, AskRecord, IdleConfirm,
       ConfirmRecord, ClosedPage, PageRecord
  <2>2. QED
    BY <2>1 DEF Init, TypeOK
<1>2. LinkInv /\ UseInv /\ ReuseWasRaced
  BY DEF Init, LinkInv, UseInv, ReuseWasRaced, IdleConfirm, ClosedPage
<1>3. StaleInv /\ IdInv /\ RowInv /\ StaleSessionsWereOvertaken
  BY DEF Init, StaleInv, IdInv, RowInv, StaleSessionsWereOvertaken, IdleLogin
<1>4. QED
  BY <1>1, <1>2, <1>3 DEF IInv

LoginStep(x) == LoginInsert(x) \/ LoginAnswer(x) \/ LoginFails(x)

-----------------------------------------------------------------------------
(* Types *)

LEMMA SignType ==
    ASSUME TypeOK, LinkInv, IdInv, Sign
    PROVE  TypeOK'
<1>1. ASSUME NEW x \in Logins, NEW b \in Browsers, LoginVerify(x, b) PROVE TypeOK'
  <2>1. [pc |-> "verified", id |-> logins + 1, by |-> b, seen |-> password] \in LoginRecord
    BY DEF TypeOK, LoginRecord
  <2>2. login' \in [Logins -> LoginRecord] /\ logins' \in Nat
    BY <1>1, <2>1 DEF LoginVerify, TypeOK
  <2>3. QED
    BY <1>1, <2>2 DEF LoginVerify, TypeOK, asking, confirming
<1>2. ASSUME NEW x \in Logins, LoginStep(x) PROVE TypeOK'
  <2>1. login[x] \in LoginRecord /\ login \in [Logins -> LoginRecord]
        /\ IdleLogin \in LoginRecord
    BY DEF TypeOK, IdleLogin, LoginRecord
  <2>2. login' \in [Logins -> LoginRecord]
    BY <1>2, <2>1 DEF LoginStep, LoginInsert, LoginAnswer, LoginFails, LoginRecord
  <2>3. sessions' \in SUBSET [id : Nat, seen : Nat]
    <3>1. [id |-> login[x].id, seen |-> login[x].seen] \in [id : Nat, seen : Nat]
      BY <2>1 DEF LoginRecord
    <3>2. QED
      BY <1>2, <3>1 DEF LoginStep, LoginInsert, LoginAnswer, LoginFails, TypeOK
  <2>4. cookie' \in [Browsers -> Nat] /\ faults' \in Nat
    BY <1>2, <2>1 DEF LoginStep, LoginInsert, LoginAnswer, LoginFails, TypeOK, LoginRecord
  <2>5. UNCHANGED <<now, password, token, logins, overtaken, asking, confirming>>
    BY <1>2 DEF LoginStep, LoginInsert, LoginAnswer, LoginFails
  <2>6. QED
    BY <2>2, <2>3, <2>4, <2>5 DEF TypeOK, asking, confirming
<1>3. ASSUME NEW b \in Browsers, Logout(b) PROVE TypeOK'
  BY <1>3 DEF Logout, TypeOK, rowsOf, asking, confirming
<1>4. QED
  BY <1>1, <1>2, <1>3 DEF Sign, LoginStep

\* Windows start at natural instants.
LEMMA FloorWindow ==
    ASSUME NEW t \in Nat
    PROVE  floor_window(t) \in Nat
<1>1. t % Window \in Nat /\ t % Window <= t
  BY WindowAssumption
<1>2. QED
  BY <1>1 DEF floor_window

\* What asking for a link may change of the tokens.
LEMMA AskType ==
    ASSUME TypeOK, AskLink
    PROVE  TypeOK' /\ \A k \in Tokens : token[k].state = "used" => token'[k].state = "used"
<1>1. UNCHANGED <<now, password, signing, confirming>>
  BY DEF AskLink, AskRefusedByIp, Ask, AskCount, IssueToken, EnqueueReset, AskFails, AskLost,
     AskAgain
<1>2. asks' \in Nat /\ faults' \in Nat
  <2>1. asks' \in {asks, asks + 1} /\ faults' \in {faults, faults + 1}
    <3>1. ASSUME NEW a \in Askers, AskRefusedByIp(a) \/ AskAgain(a) \/ \E q \in Asks : Ask(a, q)
          PROVE  asks' \in {asks, asks + 1} /\ faults' \in {faults, faults + 1}
      BY <3>1 DEF AskRefusedByIp, AskAgain, Ask
    <3>2. ASSUME NEW q \in Asks,
                 AskCount(q) \/ IssueToken(q) \/ EnqueueReset(q) \/ AskFails(q) \/ AskLost(q)
          PROVE  asks' \in {asks, asks + 1} /\ faults' \in {faults, faults + 1}
      BY <3>2 DEF AskCount, IssueToken, EnqueueReset, AskFails, AskLost
    <3>3. QED
      BY <3>1, <3>2 DEF AskLink
  <2>2. QED
    BY <2>1 DEF TypeOK
<1>3. hits' \in SUBSET [id : Nat, window : Nat]
  <2>1. hit(asks + 1, now) \in [id : Nat, window : Nat]
    BY FloorWindow DEF TypeOK, hit
  <2>2. hits' = hits \/ hits' = hits \union {hit(asks + 1, now)}
    BY DEF AskLink, AskRefusedByIp, Ask, AskCount, IssueToken, EnqueueReset, AskFails, AskLost,
       AskAgain
  <2>3. QED
    BY <2>1, <2>2 DEF TypeOK
<1>4. /\ token' \in [Tokens -> TokenRecord]
      /\ \A k \in Tokens : token[k].state = "used" => token'[k].state = "used"
  <2>1. token \in [Tokens -> TokenRecord] /\ now \in Nat
    BY DEF TypeOK
  <2>2. ASSUME NEW q \in Asks, IssueToken(q)
        PROVE  /\ token' \in [Tokens -> TokenRecord]
               /\ \A k \in Tokens : token[k].state = "used" => token'[k].state = "used"
    BY <2>1, <2>2 DEF IssueToken, TokenRecord, NoToken
  <2>3. ASSUME NEW q \in Asks, EnqueueReset(q)
        PROVE  /\ token' \in [Tokens -> TokenRecord]
               /\ \A k \in Tokens : token[k].state = "used" => token'[k].state = "used"
    BY <2>1, <2>3 DEF EnqueueReset, TokenRecord
  <2>4. QED
    BY <2>1, <2>2, <2>3 DEF AskLink, AskRefusedByIp, Ask, AskCount, AskFails, AskLost, AskAgain
<1>5. ask' \in [Asks -> AskRecord]
  <2>1. ask \in [Asks -> AskRecord] /\ now \in Nat /\ asks + 1 \in Nat /\ IdleAsk \in AskRecord
    BY DEF TypeOK, IdleAsk, AskRecord
  <2>2. ASSUME NEW a \in Askers, NEW q \in Asks, Ask(a, q) PROVE ask' \in [Asks -> AskRecord]
    <3>1. [IdleAsk EXCEPT !.pc = "counted", !.id = asks + 1, !.tab = a, !.at = now] \in AskRecord
      BY <2>1 DEF IdleAsk, AskRecord
    <3>2. QED
      BY <2>1, <2>2, <3>1 DEF Ask
  <2>3. ASSUME NEW q \in Asks, NEW k \in Tokens,
               ask' = [ask EXCEPT ![q].pc = "mailing", ![q].token = k]
        PROVE  ask' \in [Asks -> AskRecord]
    BY <2>1, <2>3 DEF AskRecord
  <2>4. ASSUME NEW q \in Asks, ask' = [ask EXCEPT ![q].tab = None]
        PROVE  ask' \in [Asks -> AskRecord]
    BY <2>1, <2>4 DEF AskRecord
  <2>5. ASSUME NEW q \in Asks, ask' = [ask EXCEPT ![q].pc = "issuing"]
        PROVE  ask' \in [Asks -> AskRecord]
    BY <2>1, <2>5 DEF AskRecord
  <2>6. QED
    BY <2>1, <2>2, <2>3, <2>4, <2>5 DEF AskLink, AskRefusedByIp, AskCount, IssueToken,
       EnqueueReset, AskFails, AskLost, AskAgain, finishAsk
<1>6. asker' \in [Askers -> {"form", "limited", "done", "offline"}]
  <2>1. asker \in [Askers -> {"form", "limited", "done", "offline"}]
    BY DEF TypeOK
  <2>2. ASSUME NEW q \in Asks, NEW screen \in {"limited", "done"}, finishAsk(q, screen)
        PROVE  asker' \in [Askers -> {"form", "limited", "done", "offline"}]
    BY <2>1, <2>2 DEF finishAsk
  <2>3. ASSUME NEW a, NEW screen \in {"form", "limited", "offline"},
               asker' = [asker EXCEPT ![a] = screen]
        PROVE  asker' \in [Askers -> {"form", "limited", "done", "offline"}]
    BY <2>1, <2>3
  <2>4. QED
    BY <2>1, <2>2, <2>3 DEF AskLink, AskRefusedByIp, Ask, AskCount, IssueToken,
       EnqueueReset, AskFails, AskLost, AskAgain
<1>7. QED
  BY <1>1, <1>2, <1>3, <1>4, <1>5, <1>6 DEF TypeOK, signing, confirming

\* Everything about links but the commit.
LinkStep ==
    \/ \E f \in Forms :
         \/ \E k \in Tokens : OpenLink(f, k)
         \/ \E c \in Confirms : ConfirmRead(f, c)
         \/ Validate(f) \/ ConfirmLost(f)
    \/ \E c \in Confirms : ConfirmFails(c)

\* A handler that is not begun in a step keeps its request, or ends.
LEMMA LinkType ==
    ASSUME IInv, LinkStep
    PROVE  TypeOK' /\ TokenInv'
<1> USE DEF IInv, TokenInv
<1>1. UNCHANGED <<now, password, token, signing, asking, uses, racers>>
  BY DEF LinkStep, OpenLink, Validate, ConfirmRead, ConfirmLost, ConfirmFails
<1>2. posts' \in Nat /\ faults' \in Nat
  BY DEF LinkStep, OpenLink, Validate, ConfirmRead, ConfirmLost, ConfirmFails, TypeOK
<1>3. /\ page \in [Forms -> PageRecord] /\ confirm \in [Confirms -> ConfirmRecord]
      /\ posts + 1 \in Nat /\ IdleConfirm \in ConfirmRecord
  BY DEF TypeOK, IdleConfirm, ConfirmRecord
<1>4. /\ page' \in [Forms -> PageRecord]
      /\ \A f \in Forms : page'[f].screen # "closed" => page'[f].token \in Tokens
  <2>1. ASSUME NEW f \in Forms, NEW k \in Tokens, OpenLink(f, k) PROVE <1>4!:
    BY <1>3, <2>1 DEF OpenLink, PageRecord, LinkInv
  <2>2. ASSUME NEW f \in Forms, Validate(f) PROVE <1>4!:
    <3>1. PICK screen \in {"form", "invalid"} : page' = [page EXCEPT ![f].screen = screen]
      BY <2>2 DEF Validate
    <3>2. page[f].token \in Tokens
      BY <2>2 DEF Validate, LinkInv
    <3>3. QED
      BY <1>3, <3>1, <3>2 DEF PageRecord, LinkInv
  <2>3. CASE UNCHANGED page
    BY <1>3, <2>3 DEF LinkInv
  <2>4. QED
    BY <2>1, <2>2, <2>3 DEF LinkStep, ConfirmRead, ConfirmLost, ConfirmFails
<1>5. /\ confirm' \in [Confirms -> ConfirmRecord]
      /\ \A c \in Confirms : confirm'[c].pc = "hashing" =>
           \/ /\ confirm[c].pc = "hashing"
              /\ confirm'[c].token = confirm[c].token /\ confirm'[c].id = confirm[c].id
           \/ confirm'[c].token \in Tokens /\ token[confirm'[c].token].state = "live"
  <2>1. ASSUME NEW f \in Forms, confirm' = abandoned(f) PROVE <1>5!:
    BY <1>3, <2>1 DEF abandoned, ConfirmRecord
  <2>2. ASSUME NEW f \in Forms, NEW c \in Confirms, ConfirmRead(f, c) PROVE <1>5!:
    <3>1. page[f].token \in Tokens /\ token[page[f].token].state = "live"
      BY <2>2 DEF ConfirmRead, isCandidate, isLive, LinkInv
    <3>2. [pc |-> "hashing", id |-> posts + 1, tab |-> f, token |-> page[f].token]
             \in ConfirmRecord
      BY <1>3, <3>1 DEF ConfirmRecord
    <3>3. QED
      BY <1>3, <2>2, <3>1, <3>2 DEF ConfirmRead
  <2>3. ASSUME NEW c \in Confirms, ConfirmFails(c) PROVE <1>5!:
    BY <1>3, <2>3 DEF ConfirmFails, IdleConfirm
  <2>4. CASE UNCHANGED confirm
    BY <1>3, <2>4
  <2>5. QED
    BY <2>1, <2>2, <2>3, <2>4 DEF LinkStep, OpenLink, Validate, ConfirmLost
<1>6. TypeOK'
  BY <1>1, <1>2, <1>4, <1>5 DEF TypeOK, signing, asking
<1>7. LinkInv'
  BY <1>4, <1>5 DEF LinkInv
<1>8. UseInv' /\ ReuseWasRaced'
  BY <1>1, <1>5 DEF UseInv, ReuseWasRaced
<1>9. QED
  BY <1>6, <1>7, <1>8

-----------------------------------------------------------------------------
(* The commit *)

LEMMA CommitKeeps ==
    ASSUME IInv, NEW c \in Confirms, ConfirmCommit(c)
    PROVE  IInv'
<1> USE DEF IInv
<1>1. PICK k \in Tokens : k = confirm[c].token
  BY DEF ConfirmCommit, LinkInv
<1>2. /\ confirm[c].pc = "hashing" /\ sessions' = {} /\ password' = password + 1
      /\ token' = [token EXCEPT ![k].state = "used"]
      /\ uses' = [uses EXCEPT ![k] = @ \union {confirm[c].id}]
      /\ racers' = [racers EXCEPT ![k] = IF uses[k] = {} THEN hashing(k) ELSE @]
      /\ overtaken' = {login[x].id : x \in {y \in Logins : login[y].pc # "idle"}}
      /\ page' = [f \in Forms |-> IF confirm[c].tab = f THEN ClosedPage ELSE page[f]]
      /\ confirm' = [confirm EXCEPT ![c] = IdleConfirm]
      /\ UNCHANGED <<now, login, cookie, logins, posts, asking, faults>>
  BY <1>1 DEF ConfirmCommit, sessionsAfterReset
<1>3. /\ confirm \in [Confirms -> ConfirmRecord] /\ token \in [Tokens -> TokenRecord]
      /\ uses \in [Tokens -> SUBSET Nat] /\ racers \in [Tokens -> SUBSET Nat]
      /\ page \in [Forms -> PageRecord] /\ login \in [Logins -> LoginRecord]
  BY DEF TypeOK
<1>4. hashing(k) \in SUBSET Nat /\ confirm[c].id \in hashing(k) /\ confirm[c].id \in Nat
  BY <1>1, <1>2, <1>3 DEF hashing, ConfirmRecord
<1>5. /\ token' \in [Tokens -> TokenRecord] /\ token'[k].state = "used"
      /\ \A j \in Tokens \ {k} : token'[j] = token[j]
  BY <1>2, <1>3 DEF TokenRecord
<1>6. /\ confirm' \in [Confirms -> ConfirmRecord] /\ confirm'[c].pc = "idle"
      /\ \A d \in Confirms \ {c} : confirm'[d] = confirm[d]
  BY <1>2, <1>3 DEF IdleConfirm, ConfirmRecord
<1>7. /\ page' \in [Forms -> PageRecord]
      /\ \A f \in Forms : page'[f] = page[f] \/ page'[f].screen = "closed"
  BY <1>2, <1>3 DEF ClosedPage, PageRecord
<1>8. overtaken' \in SUBSET Nat
  BY <1>2, <1>3 DEF LoginRecord
<1>9. /\ uses' \in [Tokens -> SUBSET Nat] /\ racers' \in [Tokens -> SUBSET Nat]
  BY <1>2, <1>3, <1>4
<1>10. TypeOK'
  BY <1>2, <1>5, <1>6, <1>7, <1>8, <1>9 DEF TypeOK, asking
<1>11. LinkInv'
  BY <1>6, <1>7 DEF LinkInv
<1>12. \A d \in Confirms : confirm[d].pc = "hashing" /\ confirm[d].token = k =>
         confirm[d].id \in racers'[k]
  BY <1>2, <1>3 DEF hashing, UseInv
<1>13. UseInv'
  BY <1>2, <1>3, <1>5, <1>6, <1>12 DEF UseInv
<1>14. ReuseWasRaced'
  <2>1. uses'[k] \subseteq racers'[k]
    BY <1>1, <1>2, <1>3, <1>12 DEF ReuseWasRaced
  <2>2. QED
    BY <1>2, <1>3, <2>1 DEF ReuseWasRaced
<1>15. StaleInv' /\ RowInv' /\ StaleSessionsWereOvertaken'
  BY <1>2 DEF StaleInv, RowInv, StaleSessionsWereOvertaken
<1>16. IdInv'
  BY <1>2 DEF IdInv
<1>17. QED
  BY <1>10, <1>11, <1>13, <1>14, <1>15, <1>16

-----------------------------------------------------------------------------
(* Logins and logouts *)

LEMMA VerifyKeeps ==
    ASSUME IInv, NEW x \in Logins, NEW b \in Browsers, LoginVerify(x, b)
    PROVE  SessionInv'
<1> USE DEF IInv
<1>1. /\ login[x].pc = "idle" /\ logins' = logins + 1 /\ logins \in Nat
      /\ login'[x] = [pc |-> "verified", id |-> logins + 1, by |-> b, seen |-> password]
      /\ \A y \in Logins \ {x} : login'[y] = login[y]
      /\ UNCHANGED <<password, sessions, cookie, overtaken>>
  BY DEF LoginVerify, TypeOK
<1>2. StaleInv' /\ RowInv' /\ StaleSessionsWereOvertaken'
  BY <1>1 DEF StaleInv, RowInv, StaleSessionsWereOvertaken, isStale
<1>3. IdInv'
  <2>1. \A y \in Logins \ {x} : login[y].pc # "idle" => login[y].id \in 1..logins
    BY DEF IdInv
  <2>2. \A c \in Browsers : cookie[c] <= logins /\ cookie[c] \in Nat
    BY DEF IdInv, TypeOK
  <2>3. QED
    BY <1>1, <2>1, <2>2 DEF IdInv
<1>4. QED
  BY <1>2, <1>3 DEF SessionInv

LEMMA LoginKeeps ==
    ASSUME IInv, NEW x \in Logins, LoginStep(x)
    PROVE  SessionInv'
<1> USE DEF IInv
<1>1. /\ \A y \in Logins \ {x} : login'[y] = login[y]
      /\ UNCHANGED <<password, logins, overtaken>>
  BY DEF LoginStep, LoginInsert, LoginAnswer, LoginFails, TypeOK
<1>2. CASE LoginInsert(x)
  <2> DEFINE new == [id |-> login[x].id, seen |-> login[x].seen]
  <2>1. /\ login[x].pc = "verified" /\ sessions' = sessions \union {new}
        /\ login'[x].pc = "inserted" /\ login'[x].id = login[x].id
        /\ login'[x].by = login[x].by /\ UNCHANGED cookie
    BY <1>2 DEF LoginInsert, TypeOK, LoginRecord
  <2>2. login[x].id # 0
    BY <2>1 DEF IdInv
  <2>3. StaleInv'
    BY <1>1, <2>1 DEF StaleInv
  <2>4. RowInv'
    <3>1. new \in sessions' /\ new.id = login'[x].id /\ sessions \subseteq sessions'
      BY <2>1
    <3> HIDE DEF new
    <3>2. ASSUME NEW y \in Logins \ {x}, login'[y].pc = "inserted"
          PROVE  login'[y].id \in overtaken' \/ \E s \in sessions' : s.id = login'[y].id
      BY <1>1, <3>1, <3>2 DEF RowInv
    <3>3. QED
      BY <3>1, <3>2 DEF RowInv
  <2>45. IdInv'
    BY <1>1, <2>1, <2>2 DEF IdInv
  <2>5. StaleSessionsWereOvertaken'
    BY <1>1, <2>1 DEF StaleSessionsWereOvertaken, StaleInv, isStale
  <2>6. QED
    BY <2>3, <2>4, <2>45, <2>5 DEF SessionInv
<1>3. CASE LoginAnswer(x)
  <2>1. /\ login[x].pc = "inserted" /\ login'[x].pc = "idle" /\ UNCHANGED sessions
        /\ cookie' \in {cookie, [cookie EXCEPT ![login[x].by] = login[x].id]}
    BY <1>3 DEF LoginAnswer, TypeOK, IdleLogin
  <2>2. \A b \in Browsers : cookie'[b] = cookie[b] \/ (cookie'[b] = login[x].id /\ b = login[x].by)
    BY <2>1 DEF TypeOK
  <2>3. StaleInv' /\ RowInv' /\ StaleSessionsWereOvertaken'
    BY <1>1, <2>1 DEF StaleInv, RowInv, StaleSessionsWereOvertaken, isStale
  <2>4. IdInv'
    BY <1>1, <2>1, <2>2 DEF IdInv
  <2>5. QED
    BY <2>3, <2>4 DEF SessionInv
<1>4. CASE LoginFails(x)
  <2>1. login'[x].pc = "idle" /\ UNCHANGED <<sessions, cookie>>
    BY <1>4 DEF LoginFails, TypeOK, IdleLogin
  <2>2. QED
    BY <1>1, <2>1 DEF SessionInv, StaleInv, RowInv, IdInv, StaleSessionsWereOvertaken, isStale
<1>5. QED
  BY <1>2, <1>3, <1>4 DEF LoginStep

LEMMA LogoutKeeps ==
    ASSUME IInv, NEW b \in Browsers, Logout(b)
    PROVE  SessionInv'
<1> USE DEF IInv
<1>1. /\ sessions' = {s \in sessions : s.id # cookie[b]}
      /\ cookie[b] # 0 /\ cookie'[b] = 0
      /\ \A c \in Browsers \ {b} : cookie'[c] = cookie[c]
      /\ UNCHANGED <<login, logins, overtaken, password>>
  BY DEF Logout, rowsOf, TypeOK
<1>2. StaleInv' /\ StaleSessionsWereOvertaken'
  BY <1>1 DEF StaleInv, StaleSessionsWereOvertaken, isStale
<1>3. IdInv'
  BY <1>1 DEF IdInv, TypeOK
<1>4. RowInv'
  BY <1>1 DEF RowInv, IdInv
<1>5. QED
  BY <1>2, <1>3, <1>4 DEF SessionInv

-----------------------------------------------------------------------------
LEMMA SessionFrame ==
    ASSUME IInv, UNCHANGED <<password, signing>>
    PROVE  SessionInv'
  BY DEF IInv, SessionInv, StaleInv, IdInv, RowInv, StaleSessionsWereOvertaken, isStale, signing

LEMMA TokenFrame ==
    ASSUME IInv, UNCHANGED confirming,
           \A k \in Tokens : token[k].state = "used" => token'[k].state = "used"
    PROVE  TokenInv'
  BY DEF IInv, TokenInv, LinkInv, UseInv, ReuseWasRaced, confirming

\* Every step keeps the invariant.
LEMMA NextIInv == IInv /\ [Next]_vars => IInv'
<1> SUFFICES ASSUME IInv, [Next]_vars PROVE IInv'
  OBVIOUS
<1> USE DEF IInv
<1>0. ASSUME TypeOK', SessionInv', TokenInv' PROVE IInv'
  BY <1>0 DEF SessionInv, TokenInv
<1>1. CASE Tick
  <2>1. TypeOK'
    BY <1>1 DEF Tick, TypeOK, signing, asking, confirming
  <2>2. QED
    BY <1>0, <1>1, <2>1, SessionFrame, TokenFrame DEF Tick
<1>2. CASE Sign
  <2>1. UNCHANGED <<token, confirming>>
    BY <1>2 DEF Sign, LoginVerify, LoginInsert, LoginAnswer, LoginFails, Logout
  <2>2. SessionInv'
    BY <1>2, VerifyKeeps, LoginKeeps, LogoutKeeps DEF Sign, LoginStep
  <2>3. QED
    BY <1>0, <1>2, <2>1, <2>2, SignType, TokenFrame
<1>3. CASE AskLink
  <2>1. UNCHANGED <<password, signing, confirming>>
    BY <1>3 DEF AskLink, AskRefusedByIp, Ask, AskCount, IssueToken, EnqueueReset, AskFails,
       AskLost, AskAgain
  <2>2. QED
    BY <1>0, <1>3, <2>1, AskType, SessionFrame, TokenFrame
<1>4. ASSUME NEW k \in Tokens, SendReset(k) \/ SendResetFails(k) PROVE IInv'
  <2>1. UNCHANGED <<password, signing, asking, confirming, now>> /\ faults' \in Nat
    BY <1>4 DEF SendReset, SendResetFails, TypeOK
  <2>2. /\ token' \in [Tokens -> TokenRecord]
        /\ \A j \in Tokens : token'[j].state = token[j].state
    <3>1. token \in [Tokens -> TokenRecord]
      BY DEF TypeOK
    <3>2. QED
      BY <1>4, <3>1 DEF SendReset, SendResetFails, TokenRecord
  <2>3. TypeOK'
    BY <2>1, <2>2 DEF TypeOK, signing, asking, confirming
  <2>4. QED
    BY <1>0, <2>1, <2>2, <2>3, SessionFrame, TokenFrame
<1>5. CASE LinkStep
  <2>1. UNCHANGED <<password, signing>>
    BY <1>5 DEF LinkStep, OpenLink, Validate, ConfirmRead, ConfirmLost, ConfirmFails
  <2>2. QED
    BY <1>0, <1>5, <2>1, LinkType, SessionFrame
<1>6. CASE UNCHANGED vars
  <2>1. TypeOK'
    BY <1>6 DEF vars, signing, asking, confirming, TypeOK
  <2>2. QED
    BY <1>0, <1>6, <2>1, SessionFrame, TokenFrame DEF vars
<1>7. QED
  BY <1>1, <1>2, <1>3, <1>4, <1>5, <1>6, CommitKeeps DEF Next, FollowLink, LinkStep

\* The inductive invariant holds in every reachable state.
THEOREM Invariance == Spec => []IInv
  BY InitIInv, NextIInv, PTL DEF Spec

\* Types.
THEOREM TypeCorrect == Spec => []TypeOK
<1>1. IInv => TypeOK
  BY DEF IInv
<1>2. QED
  BY <1>1, Invariance, PTL

\* A session of an older password is of a login that was under way at the last
\* reset.
THEOREM StaleSessions == Spec => []StaleSessionsWereOvertaken
<1>1. IInv => StaleSessionsWereOvertaken
  BY DEF IInv
<1>2. QED
  BY <1>1, Invariance, PTL

\* A link is used again only by confirmations that read it before its first use.
THEOREM LinkReuseRaced == Spec => []ReuseWasRaced
<1>1. IInv => ReuseWasRaced
  BY DEF IInv
<1>2. QED
  BY <1>1, Invariance, PTL

SignedOutStep ==
    \A b \in Browsers :
      authorized(b) /\ ~authorized(b)' =>
        \/ cookie'[b] = 0
        \/ password' # password
        \/ cookie'[b] # cookie[b] /\ cookie'[b] \in overtaken

\* A logout deletes the row of its own cookie, and no other browser has it.
LEMMA SignedOutNext == IInv /\ [Next]_vars => SignedOutStep
<1> SUFFICES ASSUME IInv, [Next]_vars, NEW b \in Browsers, authorized(b)
             PROVE  \/ authorized(b)' \/ cookie'[b] = 0 \/ password' # password
                    \/ cookie'[b] # cookie[b] /\ cookie'[b] \in overtaken
  BY DEF SignedOutStep
<1>1. PICK s \in sessions : s.id = cookie[b]
  BY DEF authorized
<1>2. cookie[b] # 0
  BY <1>1 DEF IInv, IdInv
<1>3. CASE sessions \subseteq sessions' /\ cookie'[b] = cookie[b]
  BY <1>1, <1>3 DEF authorized
<1>4. ASSUME NEW x \in Logins, LoginAnswer(x), cookie'[b] # cookie[b]
      PROVE  authorized(b)' \/ cookie'[b] \in overtaken
  <2>1. login[x].pc = "inserted" /\ cookie'[b] = login[x].id /\ UNCHANGED sessions
    BY <1>4 DEF LoginAnswer, IInv, TypeOK
  <2>2. QED
    BY <2>1 DEF authorized, IInv, RowInv
<1>5. ASSUME NEW c \in Browsers, Logout(c) PROVE authorized(b)' \/ cookie'[b] = 0
  <2>1. CASE b = c
    BY <1>5, <2>1 DEF Logout, IInv, TypeOK
  <2>2. CASE b # c
    <3>1. cookie[c] # cookie[b] /\ cookie'[b] = cookie[b]
      BY <1>2, <1>5, <2>2 DEF Logout, IInv, TypeOK, IdInv
    <3>2. s \in sessions'
      BY <1>1, <1>5, <3>1 DEF Logout, rowsOf
    <3>3. QED
      BY <1>1, <3>1, <3>2 DEF authorized
  <2>3. QED
    BY <2>1, <2>2
<1>6. ASSUME NEW c \in Confirms, ConfirmCommit(c) PROVE password' # password
  BY <1>6 DEF ConfirmCommit, IInv, TypeOK
<1>7. ASSUME NEW x \in Logins,
             LoginInsert(x) \/ LoginFails(x) \/ (\E c \in Browsers : LoginVerify(x, c))
      PROVE  sessions \subseteq sessions' /\ UNCHANGED cookie
  BY <1>7 DEF LoginInsert, LoginVerify, LoginFails
<1>8. ASSUME NEW x \in Logins, LoginAnswer(x) PROVE UNCHANGED sessions
  BY <1>8 DEF LoginAnswer
<1>9. CASE AskLink
  BY <1>3, <1>9 DEF AskLink, AskRefusedByIp, Ask, AskCount, IssueToken, EnqueueReset, AskFails,
     AskLost, AskAgain, signing
<1>10. CASE LinkStep
  BY <1>3, <1>10 DEF LinkStep, OpenLink, Validate, ConfirmRead, ConfirmLost, ConfirmFails, signing
<1>11. CASE Tick \/ UNCHANGED vars \/ \E k \in Tokens : SendReset(k) \/ SendResetFails(k)
  BY <1>3, <1>11 DEF Tick, vars, SendReset, SendResetFails, signing
<1>12. CASE Sign
  BY <1>3, <1>4, <1>5, <1>7, <1>8, <1>12 DEF Sign
<1>13. QED
  BY <1>6, <1>9, <1>10, <1>11, <1>12 DEF Next, FollowLink, LinkStep

\* Only its own logout, a reset, or a login a reset overtook, signs a browser out.
THEOREM SignedOut == Spec => SignedOutBySelfOrReset
<1>1. IInv /\ [Next]_vars => [SignedOutStep]_vars
  BY SignedOutNext
<1>2. Spec => [][SignedOutStep]_vars
  BY <1>1, Invariance, PTL DEF Spec
<1>3. QED
  BY <1>2 DEF SignedOutBySelfOrReset, SignedOutStep
=============================================================================
