-------------------------- MODULE ConnectFlowProofs --------------------------
(***************************************************************************)
(* Signing up and connecting, for any number of tabs, items, CPFs and      *)
(* failed requests.                                                        *)
(*                                                                         *)
(* Each property is inductive with one more conjunct: who is inside a      *)
(* signup (SignupInv), which tab holds a consent row it has not linked an  *)
(* item with (ConsentInv), and what a page of the free plan was rendered   *)
(* from (FreeInv).                                                         *)
(***************************************************************************)
EXTENDS ConnectFlow, FiniteSetTheorems, TLAPS

ItemRow == [linked : BOOLEAN, status : {"none", "UPDATING", "UPDATED", "DISCONNECTED"},
            account : {"none", "active", "deleted"}, synced : BOOLEAN, held : BOOLEAN,
            dropped : BOOLEAN, over : SUBSET Items]

TabState == [at : Pages \union Requests, hasCpf : BOOLEAN,
             reconnect : Items \union {None}, ticked : BOOLEAN,
             cpf : Cpfs \union {None}, linked : Items \union {None}, seen : SUBSET Items]

\* The variables a page move may change besides tab.
RestOK ==
    /\ user \in BOOLEAN /\ session \in BOOLEAN
    /\ cpf \in Cpfs \union {None}
    /\ signups \in SUBSET Tabs
    /\ faults \in Nat

\* A tab that has the account, signed in by it or about to be.
inside(t) == t \in signups \/ tab[t].at = "opening"

\* Only one tab gets inside, and the account is there before.
SignupInv ==
    /\ \A t \in Tabs : inside(t) => user
    /\ \A s, t \in Tabs : inside(s) /\ inside(t) => s = t
    /\ \A t \in signups : tab[t].at # "opening"

linkedItems == {i \in Items : item[i].linked}

\* From its consent row to the item, a tab has a row no item is linked with.
holdsRow(t) == tab[t].at \in {"issuing", "widget"} /\ tab[t].reconnect = None

rowHolders == {t \in Tabs : holdsRow(t)}

\* Rows in the table are of linked items, and so is what a tab reconnects or posts;
\* a sync handler holds such a row.
ConsentInv ==
    /\ Cardinality(linkedItems) + Cardinality(rowHolders) <= pending
    /\ \A i \in Items : hasItem(i) => item[i].linked
    /\ \A i \in Items : item[i].held => hasItem(i)
    /\ \A t \in Tabs : tab[t].reconnect # None => hasItem(tab[t].reconnect)
    /\ \A t \in Tabs : tab[t].at \in {"posting", "finishing"} =>
         tab[t].linked \in Items /\ item[tab[t].linked].linked

\* The states between a consent screen and the answer of its last request.
Connecting == {"consent", "reading", "writing", "consenting", "issuing", "widget",
               "posting", "finishing"}

\* On the free plan a consent screen was rendered with no item that uses it.
FreeInv ==
    /\ \A i \in Items : item[i].account = "deleted" => item[i].dropped
    /\ tier = "free" =>
         /\ \A i \in Items : item[i].over = {}
         /\ \A t \in Tabs : tab[t].at \in Connecting => tab[t].seen = {}

IInv == TypeOK /\ SignupInv /\ ConsentInv /\ FreeInv

-----------------------------------------------------------------------------
(* Moves of one tab *)

\* A page tab t may turn into without a new row, item or link.
LegalPage(t, r) ==
    /\ r \in TabState
    /\ r.at \in {"issuing", "widget"} /\ r.reconnect = None => holdsRow(t)
    /\ r.reconnect # None => hasItem(r.reconnect)
    /\ r.at \in {"posting", "finishing"} => r.linked \in Items /\ item[r.linked].linked
    /\ tier = "free" /\ r.at \in Connecting => r.seen = {}

LEMMA PageMove ==
    ASSUME IInv, NEW t \in Tabs, NEW r, LegalPage(t, r), tab' = [tab EXCEPT ![t] = r],
           UNCHANGED <<tier, pending, item>>, RestOK'
    PROVE  TypeOK' /\ ConsentInv' /\ FreeInv'
<1>1. /\ tab \in [Tabs -> TabState] /\ r \in TabState
      /\ tab' \in [Tabs -> TabState] /\ tab'[t] = r
      /\ \A s \in Tabs \ {t} : tab'[s] = tab[s]
  BY DEF IInv, TypeOK, TabState, LegalPage
<1>2. TypeOK'
  BY <1>1 DEF IInv, TypeOK, TabState, RestOK
<1>3. ConsentInv'
  <2>1. rowHolders' \subseteq rowHolders
    BY <1>1 DEF rowHolders, holdsRow, LegalPage
  <2>2. IsFiniteSet(rowHolders) /\ IsFiniteSet(linkedItems)
    BY FS_Subset, ConnectAssumption DEF rowHolders, linkedItems
  <2>3. /\ Cardinality(rowHolders') <= Cardinality(rowHolders)
        /\ Cardinality(rowHolders') \in Nat /\ Cardinality(rowHolders) \in Nat
        /\ Cardinality(linkedItems) \in Nat /\ linkedItems' = linkedItems
    BY <2>1, <2>2, FS_Subset, FS_CardinalityType DEF linkedItems
  <2>4. Cardinality(linkedItems') + Cardinality(rowHolders') <= pending'
    BY <2>3 DEF IInv, ConsentInv, TypeOK
  <2>5. QED
    BY <1>1, <2>4 DEF IInv, ConsentInv, LegalPage, hasItem
<1>4. FreeInv'
  BY <1>1 DEF IInv, FreeInv, LegalPage
<1>5. QED
  BY <1>2, <1>3, <1>4

\* No tab comes nearer to being signed in by a signup.
LEMMA SignupFrame ==
    ASSUME IInv, UNCHANGED <<user, signups>>,
           \A s \in Tabs : tab'[s].at = "opening" => tab[s].at = "opening"
    PROVE  SignupInv'
  BY DEF IInv, TypeOK, SignupInv, inside

LEMMA GoesMove ==
    ASSUME IInv, NEW t \in Tabs, NEW x \in Pages \union Requests, goes(t, x),
           x \in {"issuing", "widget"} => tab[t].at \in {"issuing", "widget"},
           x \in {"posting", "finishing"} => tab[t].at \in {"posting", "finishing"},
           x \in Connecting => tab[t].at \in Connecting,
           UNCHANGED <<tier, pending, item>>, RestOK'
    PROVE  /\ TypeOK' /\ ConsentInv' /\ FreeInv'
           /\ tab'[t].at = x /\ \A s \in Tabs \ {t} : tab'[s] = tab[s]
<1> DEFINE r == [tab[t] EXCEPT !.at = x]
<1>1. tab \in [Tabs -> TabState] /\ tab[t] \in TabState
  BY DEF IInv, TypeOK, TabState
<1>2. /\ r \in TabState /\ r.at = x /\ r.reconnect = tab[t].reconnect
      /\ r.linked = tab[t].linked /\ r.seen = tab[t].seen
  BY <1>1 DEF TabState
<1>3. tab' = [tab EXCEPT ![t] = r]
  BY <1>1 DEF goes
<1> HIDE DEF r
<1>4. LegalPage(t, r)
  BY <1>2 DEF LegalPage, holdsRow, IInv, ConsentInv, FreeInv
<1>5. QED
  BY <1>1, <1>2, <1>3, <1>4, PageMove

\* Leaving the request for the consent screen, with the box empty again.
LEMMA BackMove ==
    ASSUME IInv, NEW t \in Tabs, backToConsent(t), tab[t].at \in Connecting,
           UNCHANGED <<tier, pending, item>>, RestOK'
    PROVE  /\ TypeOK' /\ ConsentInv' /\ FreeInv'
           /\ tab'[t].at \in {"consent", "closed"}
           /\ \A s \in Tabs \ {t} : tab'[s] = tab[s]
<1> DEFINE r == [tab[t] EXCEPT !.at = shown(t, "consent"), !.ticked = FALSE]
<1>1. tab \in [Tabs -> TabState] /\ tab[t] \in TabState
  BY DEF IInv, TypeOK, TabState
<1>2. /\ r \in TabState /\ r.at \in {"consent", "closed"}
      /\ r.reconnect = tab[t].reconnect /\ r.seen = tab[t].seen
  BY <1>1 DEF TabState, Pages, shown
<1>3. tab' = [tab EXCEPT ![t] = r]
  BY <1>1 DEF backToConsent
<1> HIDE DEF r
<1>4. LegalPage(t, r)
  BY <1>2 DEF LegalPage, IInv, ConsentInv, FreeInv
<1>5. QED
  BY <1>1, <1>2, <1>3, <1>4, PageMove

-----------------------------------------------------------------------------
(* Signing up *)

SignupStep(t) ==
    \/ SubmitSignup(t) \/ CheckEmail(t) \/ CreateUser(t) \/ OpenSession(t)
    \/ SignupFails(t) \/ SignIn(t)

LEMMA SignupKeeps ==
    ASSUME IInv, NEW t \in Tabs, SignupStep(t)
    PROVE  IInv'
<1>1. UNCHANGED <<tier, cpf, pending, item>> /\ RestOK'
  <2>1. RestOK
    BY DEF IInv, TypeOK, RestOK
  <2>2. /\ UNCHANGED <<tier, cpf, pending, item>>
        /\ user' = user \/ user' = TRUE
        /\ session' = session \/ session' = TRUE
        /\ signups' = signups \/ signups' = signups \union ({t} \ Abandoned)
        /\ faults' = faults \/ faults' = faults + 1
    BY <2>1 DEF RestOK, SignupStep, SubmitSignup, CheckEmail, CreateUser, OpenSession, SignupFails, SignIn
  <2>3. user' \in BOOLEAN /\ session' \in BOOLEAN
    BY <2>1, <2>2, Zenon DEF RestOK
  <2>4. cpf' \in Cpfs \union {None} /\ signups' \in SUBSET Tabs /\ faults' \in Nat
    BY <2>1, <2>2 DEF RestOK
  <2>5. QED
    BY <2>2, <2>3, <2>4 DEF RestOK
<1>2. PICK x \in {"signup", "checking", "hashing", "opening", "dashboard", "closed"} :
        /\ goes(t, x)
        /\ x = "opening" => ~user
  BY DEF SignupStep, SubmitSignup, CheckEmail, CreateUser, OpenSession, SignupFails, SignIn,
     isNewEmail, shown
<1>3. x \in Pages \union Requests /\ x \notin Connecting
      /\ x \notin {"issuing", "widget", "posting", "finishing"}
  BY DEF Pages, Requests, Connecting
<1>4. /\ TypeOK' /\ ConsentInv' /\ FreeInv'
      /\ tab'[t].at = x /\ \A s \in Tabs \ {t} : tab'[s] = tab[s]
  BY <1>1, <1>2, <1>3, GoesMove
<1>5. SignupInv'
  <2>1. CASE CreateUser(t)
    <3>1. CASE isNewEmail
      <4>1. ~user /\ user' = TRUE /\ signups' = signups
        BY <2>1, <3>1 DEF CreateUser, isNewEmail
      <4>2. signups = {} /\ \A s \in Tabs : tab[s].at # "opening"
        BY <4>1 DEF IInv, TypeOK, SignupInv, inside
      <4>3. \A s \in Tabs : (inside(s))' => s = t
        BY <1>4, <4>1, <4>2 DEF inside
      <4>4. QED
        BY <4>1, <4>2, <4>3 DEF SignupInv
    <3>2. CASE ~isNewEmail
      <4>1. goes(t, shown(t, "signup")) /\ UNCHANGED <<user, signups>>
        BY <2>1, <3>2 DEF CreateUser
      <4>2. tab'[t].at # "opening"
        BY <4>1 DEF goes, shown, IInv, TypeOK
      <4>3. QED
        BY <1>4, <4>1, <4>2, SignupFrame
    <3>3. QED
      BY <3>1, <3>2
  <2>2. CASE OpenSession(t)
    <3>1. tab[t].at = "opening" /\ user' = user /\ signups' \in {signups, signups \union {t}}
      BY <2>2 DEF OpenSession
    <3>2. tab'[t].at # "opening"
      BY <2>2 DEF OpenSession, goes, shown, IInv, TypeOK
    <3>3. \A s \in Tabs : (inside(s))' => inside(s)
      BY <1>4, <3>1, <3>2 DEF inside
    <3>4. QED
      BY <1>4, <3>1, <3>2, <3>3 DEF IInv, TypeOK, SignupInv
  <2>3. CASE SubmitSignup(t) \/ CheckEmail(t) \/ SignupFails(t) \/ SignIn(t)
    <3>1. /\ UNCHANGED <<user, signups>>
          /\ \E y \in {"signup", "checking", "hashing", "dashboard", "closed"} : goes(t, y)
      BY <2>3 DEF SubmitSignup, CheckEmail, SignupFails, SignIn, shown
    <3>2. tab'[t].at # "opening"
      BY <3>1 DEF goes, IInv, TypeOK
    <3>3. QED
      BY <1>4, <3>1, <3>2, SignupFrame
  <2>4. QED
    BY <2>1, <2>2, <2>3 DEF SignupStep
<1>6. QED
  BY <1>4, <1>5 DEF IInv

-----------------------------------------------------------------------------
(* The page /connect and POST /api/connect/init *)

PageStep(t) ==
    \/ OpenConnect(t) \/ (\E i \in Items : OpenReconnect(t, i))
    \/ Decline(t) \/ Tick(t) \/ Agree(t)

LEMMA PageKeeps ==
    ASSUME IInv, NEW t \in Tabs, PageStep(t)
    PROVE  IInv'
<1>1. UNCHANGED <<tier, user, session, cpf, pending, item, signups, faults>>
  BY DEF PageStep, OpenConnect, OpenReconnect, Decline, Tick, Agree
<1>2. RestOK'
  BY <1>1 DEF IInv, TypeOK, RestOK
<1>3. tab \in [Tabs -> TabState] /\ tab[t] \in TabState
  BY DEF IInv, TypeOK, TabState
<1>4. \E r : LegalPage(t, r) /\ r.at # "opening" /\ tab' = [tab EXCEPT ![t] = r]
  <2>1. CASE OpenConnect(t)
    <3> DEFINE r == [SignupPage EXCEPT
                       !.at = IF tier = "free" /\ activeItems # {} THEN "paywall" ELSE "consent",
                       !.hasCpf = cpf # None, !.seen = usesPlan]
    <3>1. tab' = [tab EXCEPT ![t] = r]
      BY <2>1 DEF OpenConnect
    <3>2. /\ r \in TabState /\ r.at \in {"paywall", "consent"} /\ r.reconnect = None
          /\ r.seen = usesPlan /\ (tier = "free" /\ r.at = "consent" => activeItems = {})
      BY DEF SignupPage, TabState, Pages, usesPlan
    <3> HIDE DEF r
    <3>3. activeItems = {} => usesPlan = {}
      BY DEF activeItems, usesPlan, countsByAccounts, IInv, FreeInv
    <3>4. LegalPage(t, r)
      BY <3>2, <3>3 DEF LegalPage, Connecting
    <3>5. QED
      BY <3>1, <3>2, <3>4
  <2>2. CASE \E i \in Items : OpenReconnect(t, i)
    <3>1. PICK i \in Items : OpenReconnect(t, i)
      BY <2>2
    <3> DEFINE r == [SignupPage EXCEPT !.at = "consent", !.hasCpf = cpf # None,
                                       !.reconnect = i]
    <3>2. tab' = [tab EXCEPT ![t] = r] /\ hasItem(i)
      BY <3>1 DEF OpenReconnect
    <3>3. /\ r \in TabState /\ r.at = "consent" /\ r.reconnect = i /\ r.seen = {}
      BY DEF SignupPage, TabState, Pages
    <3> HIDE DEF r
    <3>4. QED
      BY <3>2, <3>3 DEF LegalPage
  <2>3. CASE Decline(t)
    <3> DEFINE r == [tab[t] EXCEPT !.at = "dashboard"]
    <3>1. tab' = [tab EXCEPT ![t] = r]
      BY <1>3, <2>3 DEF Decline, goes
    <3>2. r \in TabState /\ r.at = "dashboard" /\ r.reconnect = tab[t].reconnect
      BY <1>3 DEF TabState, Pages
    <3> HIDE DEF r
    <3>3. QED
      BY <3>1, <3>2 DEF LegalPage, IInv, ConsentInv, Connecting
  <2>4. CASE Tick(t)
    <3> DEFINE r == [tab[t] EXCEPT !.ticked = ~@]
    <3>1. tab' = [tab EXCEPT ![t] = r] /\ tab[t].at = "consent"
      BY <1>3, <2>4 DEF Tick
    <3>2. /\ r \in TabState /\ r.at = tab[t].at /\ r.reconnect = tab[t].reconnect
          /\ r.seen = tab[t].seen
      BY <1>3 DEF TabState
    <3> HIDE DEF r
    <3>3. QED
      BY <3>1, <3>2 DEF LegalPage, IInv, ConsentInv, FreeInv, Connecting
  <2>5. CASE Agree(t)
    <3>1. PICK c \in Cpfs \union {None} :
            tab' = [tab EXCEPT ![t].at = "reading", ![t].cpf = c]
      BY <2>5 DEF Agree
    <3> DEFINE r == [tab[t] EXCEPT !.at = "reading", !.cpf = c]
    <3>2. tab' = [tab EXCEPT ![t] = r] /\ tab[t].at = "consent"
      BY <1>3, <2>5, <3>1 DEF Agree
    <3>3. /\ r \in TabState /\ r.at = "reading" /\ r.reconnect = tab[t].reconnect
          /\ r.seen = tab[t].seen
      BY <1>3 DEF TabState, Requests
    <3> HIDE DEF r
    <3>4. QED
      BY <3>2, <3>3 DEF LegalPage, IInv, ConsentInv, FreeInv, Connecting
  <2>6. QED
    BY <2>1, <2>2, <2>3, <2>4, <2>5 DEF PageStep
<1>5. PICK r : LegalPage(t, r) /\ r.at # "opening" /\ tab' = [tab EXCEPT ![t] = r]
  BY <1>4
<1>6. TypeOK' /\ ConsentInv' /\ FreeInv'
  BY <1>1, <1>2, <1>5, PageMove
<1>7. \A s \in Tabs : tab'[s].at = "opening" => tab[s].at = "opening"
  BY <1>3, <1>5
<1>8. QED
  BY <1>1, <1>6, <1>7, SignupFrame DEF IInv

InitStep(t) == ReadCpf(t) \/ WriteCpf(t) \/ IssueToken(t) \/ InitFails(t)

LEMMA InitStepKeeps ==
    ASSUME IInv, NEW t \in Tabs, InitStep(t)
    PROVE  IInv'
<1>1. UNCHANGED <<tier, user, session, pending, item, signups>>
  BY DEF InitStep, ReadCpf, WriteCpf, IssueToken, InitFails
<1>2. RestOK'
  <2>1. /\ RestOK /\ tab[t].cpf \in Cpfs \union {None}
    BY DEF IInv, TypeOK, RestOK
  <2>2. cpf' \in {cpf, tab[t].cpf} /\ faults' \in {faults, faults + 1}
    BY DEF InitStep, ReadCpf, WriteCpf, IssueToken, InitFails
  <2>3. QED
    BY <1>1, <2>1, <2>2 DEF RestOK
<1>3. PICK x \in {"consent", "writing", "consenting", "widget", "closed"} :
        /\ goes(t, x)
        /\ tab[t].at \in {"reading", "writing", "consenting", "issuing"}
        /\ x = "widget" => tab[t].at = "issuing"
  BY DEF InitStep, ReadCpf, WriteCpf, IssueToken, InitFails, afterCpf, shown
<1>4. /\ x \in Pages \union Requests /\ tab[t].at \in Connecting
      /\ x \notin {"posting", "finishing"} /\ x # "opening"
      /\ x \in {"issuing", "widget"} => tab[t].at \in {"issuing", "widget"}
  BY <1>3 DEF Pages, Requests, Connecting
<1>5. /\ TypeOK' /\ ConsentInv' /\ FreeInv'
      /\ tab'[t].at = x /\ \A s \in Tabs \ {t} : tab'[s] = tab[s]
  BY <1>1, <1>2, <1>3, <1>4, GoesMove
<1>6. QED
  BY <1>1, <1>4, <1>5, SignupFrame DEF IInv

\* The consent row is written before the tab can link anything.
LEMMA RecordConsentKeeps ==
    ASSUME IInv, NEW t \in Tabs, RecordConsent(t)
    PROVE  IInv'
<1> DEFINE r == [tab[t] EXCEPT !.at = "issuing"]
<1>1. /\ tab[t].at = "consenting" /\ pending' = pending + 1 /\ goes(t, "issuing")
      /\ UNCHANGED <<tier, user, session, cpf, item, signups, faults>>
  BY DEF RecordConsent
<1>2. tab \in [Tabs -> TabState] /\ tab[t] \in TabState /\ pending \in Nat
  BY DEF IInv, TypeOK, TabState
<1>3. /\ r \in TabState /\ r.at = "issuing" /\ r.reconnect = tab[t].reconnect
      /\ r.seen = tab[t].seen
  BY <1>2 DEF TabState, Requests
<1>4. tab' = [tab EXCEPT ![t] = r]
  BY <1>1, <1>2 DEF goes
<1> HIDE DEF r
<1>5. /\ tab' \in [Tabs -> TabState] /\ tab'[t] = r
      /\ \A s \in Tabs \ {t} : tab'[s] = tab[s]
  BY <1>2, <1>3, <1>4
<1>6. TypeOK'
  BY <1>1, <1>2, <1>5 DEF IInv, TypeOK, TabState
<1>7. ConsentInv'
  <2>1. rowHolders' \subseteq rowHolders \union {t}
    BY <1>5 DEF rowHolders, holdsRow
  <2>2. IsFiniteSet(rowHolders) /\ IsFiniteSet(linkedItems)
    BY FS_Subset, ConnectAssumption DEF rowHolders, linkedItems
  <2>3. IsFiniteSet(rowHolders \union {t})
        /\ Cardinality(rowHolders \union {t}) <= Cardinality(rowHolders) + 1
        /\ Cardinality(rowHolders) \in Nat /\ Cardinality(linkedItems) \in Nat
        /\ Cardinality(rowHolders \union {t}) \in Nat
    <3>1. Cardinality(rowHolders) \in Nat /\ Cardinality(linkedItems) \in Nat
      BY <2>2, FS_CardinalityType
    <3>2. /\ IsFiniteSet(rowHolders \union {t})
          /\ \/ Cardinality(rowHolders \union {t}) = Cardinality(rowHolders)
             \/ Cardinality(rowHolders \union {t}) = Cardinality(rowHolders) + 1
      BY <2>2, FS_AddElement, Zenon
    <3>3. QED
      BY <3>1, <3>2
  <2>4. Cardinality(rowHolders') <= Cardinality(rowHolders \union {t})
        /\ Cardinality(rowHolders') \in Nat
    BY <2>1, <2>3, FS_Subset, FS_CardinalityType
  <2>5. linkedItems' = linkedItems
    BY <1>1 DEF linkedItems
  <2>6. Cardinality(linkedItems') + Cardinality(rowHolders') <= pending'
    BY <1>1, <1>2, <2>3, <2>4, <2>5 DEF IInv, ConsentInv
  <2>7. QED
    BY <1>1, <1>3, <1>5, <2>6 DEF IInv, ConsentInv, hasItem
<1>8. FreeInv'
  BY <1>1, <1>3, <1>5 DEF IInv, FreeInv, Connecting
<1>9. SignupInv'
  BY <1>1, <1>3, <1>5, SignupFrame
<1>10. QED
  BY <1>6, <1>7, <1>8, <1>9 DEF IInv

-----------------------------------------------------------------------------
(* The widget, the insert, and what becomes of an item *)

\* The widget links a new item with the tab's consent row, or an item that has one.
LEMMA LinkKeeps ==
    ASSUME IInv, NEW t \in Tabs, Link(t)
    PROVE  IInv'
<1>1. PICK i \in Items :
        /\ IF tab[t].reconnect = None THEN ~item[i].linked ELSE i = tab[t].reconnect
        /\ item' = [item EXCEPT ![i].linked = TRUE]
        /\ tab' = [tab EXCEPT ![t].at = "posting", ![t].linked = i]
  BY DEF Link
<1>2. tab[t].at = "widget" /\ UNCHANGED <<tier, user, session, cpf, pending, signups, faults>>
  BY DEF Link
<1> DEFINE r == [tab[t] EXCEPT !.at = "posting", !.linked = i]
<1>3. /\ tab \in [Tabs -> TabState] /\ tab[t] \in TabState /\ pending \in Nat
      /\ item \in [Items -> ItemRow] /\ item[i] \in ItemRow
  BY DEF IInv, TypeOK, TabState, ItemRow
<1>4. /\ r \in TabState /\ r.at = "posting" /\ r.reconnect = tab[t].reconnect
      /\ r.seen = tab[t].seen /\ r.linked = i
  BY <1>3 DEF TabState, Requests
<1>5. tab' = [tab EXCEPT ![t] = r]
  BY <1>1, <1>3
<1> HIDE DEF r
<1>6. /\ tab' \in [Tabs -> TabState] /\ tab'[t] = r
      /\ \A s \in Tabs \ {t} : tab'[s] = tab[s]
  BY <1>3, <1>4, <1>5
<1>7. /\ item' \in [Items -> ItemRow] /\ item'[i].linked
      /\ \A j \in Items : /\ item'[j].status = item[j].status
                           /\ item'[j].account = item[j].account
                           /\ item'[j].dropped = item[j].dropped
                           /\ item'[j].over = item[j].over
                           /\ item'[j].held = item[j].held
      /\ \A j \in Items \ {i} : item'[j] = item[j]
  BY <1>1, <1>3 DEF ItemRow
<1>8. TypeOK'
  BY <1>2, <1>6, <1>7 DEF IInv, TypeOK, TabState, ItemRow
<1>9. Cardinality(linkedItems') + Cardinality(rowHolders') <= pending
  <2>1. IsFiniteSet(rowHolders) /\ IsFiniteSet(linkedItems)
        /\ Cardinality(rowHolders) \in Nat /\ Cardinality(linkedItems) \in Nat
    BY FS_Subset, FS_CardinalityType, ConnectAssumption DEF rowHolders, linkedItems
  <2>2. linkedItems' = linkedItems \union {i}
    BY <1>7 DEF linkedItems
  <2>3. rowHolders' = rowHolders \ {t}
    BY <1>4, <1>6 DEF rowHolders, holdsRow
  <2>4. CASE tab[t].reconnect = None
    <3>1. i \notin linkedItems /\ t \in rowHolders
      BY <1>1, <1>2, <2>4 DEF linkedItems, rowHolders, holdsRow
    <3>2. /\ Cardinality(linkedItems \union {i}) = Cardinality(linkedItems) + 1
          /\ Cardinality(rowHolders \ {t}) = Cardinality(rowHolders) - 1
      BY <2>1, <3>1, FS_AddElement, FS_RemoveElement
    <3>3. QED
      BY <1>3, <2>1, <2>2, <2>3, <3>2 DEF IInv, ConsentInv
  <2>5. CASE tab[t].reconnect # None
    <3>1. i \in linkedItems /\ t \notin rowHolders
      BY <1>1, <2>5 DEF linkedItems, rowHolders, holdsRow, IInv, ConsentInv
    <3>2. linkedItems' = linkedItems /\ rowHolders' = rowHolders
      BY <2>2, <2>3, <3>1
    <3>3. QED
      BY <3>2 DEF IInv, ConsentInv
  <2>6. QED
    BY <2>4, <2>5
<1>10. ConsentInv'
  <2>1. \A s \in Tabs : tab[s].reconnect \in Items \union {None}
    BY <1>3 DEF TabState
  <2>2. \A s \in Tabs : tab'[s].reconnect = tab[s].reconnect
    BY <1>4, <1>6
  <2>3. \A j \in Items : (hasItem(j))' <=> hasItem(j)
    BY <1>7 DEF hasItem
  <2>4. \A j \in Items : (hasItem(j))' => item'[j].linked
    BY <1>7, <2>3 DEF IInv, ConsentInv
  <2>5. \A j \in Items : item'[j].held => (hasItem(j))'
    BY <1>7, <2>3 DEF IInv, ConsentInv
  <2>6. \A s \in Tabs : tab'[s].reconnect # None => (hasItem(tab[s].reconnect))'
    BY <2>1, <2>2, <2>3 DEF IInv, ConsentInv
  <2>7. \A s \in Tabs : tab'[s].at \in {"posting", "finishing"} =>
          tab'[s].linked \in Items /\ item'[tab'[s].linked].linked
    BY <1>4, <1>6, <1>7 DEF IInv, ConsentInv
  <2>8. QED
    BY <1>2, <1>9, <2>2, <2>4, <2>5, <2>6, <2>7 DEF ConsentInv, hasItem
<1>11. FreeInv'
  BY <1>2, <1>4, <1>6, <1>7 DEF IInv, FreeInv, Connecting
<1>12. SignupInv'
  BY <1>2, <1>4, <1>6, SignupFrame
<1>13. QED
  BY <1>8, <1>10, <1>11, <1>12 DEF IInv

\* The other steps of items: no link is made, no row of the table disappears.
LEMMA ItemFrame ==
    ASSUME IInv, UNCHANGED <<tier, user, session, cpf, pending, signups, faults>>,
           tab' \in [Tabs -> TabState], item' \in [Items -> ItemRow],
           \A s \in Tabs : /\ tab'[s].reconnect = tab[s].reconnect
                           /\ tab'[s].linked = tab[s].linked
                           /\ tab'[s].seen = tab[s].seen
                           /\ \/ tab'[s].at = tab[s].at
                              \/ tab[s].at = "posting" /\ tab'[s].at = "finishing",
           \A i \in Items : /\ item'[i].linked = item[i].linked
                            /\ hasItem(i) => item'[i].status # "none"
                            /\ item'[i].status # "none" => item[i].linked
                            /\ item'[i].held => item'[i].status # "none"
                            /\ item'[i].account = "deleted" => item'[i].dropped
                            /\ tier = "free" => item'[i].over = {}
    PROVE  IInv'
<1>1. TypeOK'
  BY DEF IInv, TypeOK, TabState, ItemRow
<1>2. linkedItems' = linkedItems /\ rowHolders' = rowHolders
  BY DEF linkedItems, rowHolders, holdsRow
<1>3. tab \in [Tabs -> TabState] /\ None \notin Items
  BY ConnectAssumption DEF IInv, TypeOK, TabState
<1>4. \A s \in Tabs : tab[s].reconnect \in Items \union {None}
  BY <1>3 DEF TabState
<1>5. ConsentInv'
  BY <1>2, <1>4 DEF IInv, ConsentInv, hasItem
<1>6. FreeInv'
  BY DEF IInv, FreeInv, Connecting
<1>7. SignupInv'
  BY SignupFrame
<1>8. QED
  BY <1>1, <1>5, <1>6, <1>7 DEF IInv

LEMMA InsertItemKeeps ==
    ASSUME IInv, NEW t \in Tabs, InsertItem(t)
    PROVE  IInv'
<1> DEFINE i == tab[t].linked
<1>1. /\ tab[t].at = "posting"
      /\ item' = [item EXCEPT ![i].status = "UPDATING", ![i].over = tab[t].seen]
      /\ tab' = [tab EXCEPT ![t].at = "finishing"]
      /\ UNCHANGED <<tier, user, session, cpf, pending, signups, faults>>
  BY DEF InsertItem, goes
<1>2. /\ tab \in [Tabs -> TabState] /\ tab[t] \in TabState
      /\ item \in [Items -> ItemRow] /\ i \in Items /\ item[i].linked
      /\ tab[t].seen \subseteq Items
  BY <1>1 DEF IInv, TypeOK, TabState, ItemRow, ConsentInv
<1>3. tier = "free" => tab[t].seen = {}
  BY <1>1 DEF IInv, FreeInv, Connecting
<1> HIDE DEF i
<1>4. /\ tab' \in [Tabs -> TabState]
      /\ \A s \in Tabs : /\ tab'[s].reconnect = tab[s].reconnect
                          /\ tab'[s].linked = tab[s].linked
                          /\ tab'[s].seen = tab[s].seen
                          /\ \/ tab'[s].at = tab[s].at
                             \/ tab[s].at = "posting" /\ tab'[s].at = "finishing"
  BY <1>1, <1>2 DEF TabState, Requests
<1>5. /\ item' \in [Items -> ItemRow]
      /\ \A j \in Items \ {i} : item'[j] = item[j]
      /\ item'[i].linked = item[i].linked /\ item'[i].status = "UPDATING"
      /\ item'[i].account = item[i].account /\ item'[i].dropped = item[i].dropped
      /\ item'[i].over = tab[t].seen /\ item'[i].held = item[i].held
  BY <1>1, <1>2 DEF ItemRow
<1>6. \A j \in Items : /\ item'[j].linked = item[j].linked
                       /\ hasItem(j) => item'[j].status # "none"
                       /\ item'[j].status # "none" => item[j].linked
                       /\ item'[j].held => item'[j].status # "none"
                       /\ item'[j].account = "deleted" => item'[j].dropped
                       /\ tier = "free" => item'[j].over = {}
  BY <1>2, <1>3, <1>5 DEF IInv, ConsentInv, FreeInv, hasItem
<1>7. QED
  BY <1>1, <1>4, <1>5, <1>6, ItemFrame

ItemStep(i) == StartSync(i) \/ EndSync(i) \/ Disconnect(i)

LEMMA ItemStepKeeps ==
    ASSUME IInv, NEW i \in Items, ItemStep(i)
    PROVE  IInv'
<1>1. UNCHANGED <<tier, user, session, cpf, pending, tab, signups, faults>>
  BY DEF ItemStep, StartSync, EndSync, Disconnect
<1>2. item \in [Items -> ItemRow] /\ tab \in [Tabs -> TabState]
  BY DEF IInv, TypeOK, ItemRow, TabState
<1>3. /\ item' \in [Items -> ItemRow]
      /\ \A j \in Items \ {i} : item'[j] = item[j]
      /\ item'[i].linked = item[i].linked /\ item'[i].over = item[i].over
      /\ item'[i].status # "none"
      /\ \/ item'[i].account = item[i].account /\ item'[i].dropped = item[i].dropped
         \/ item'[i].dropped
  <2>1. CASE StartSync(i)
    BY <1>2, <2>1 DEF StartSync, ItemRow
  <2>2. CASE EndSync(i)
    BY <1>2, <2>2 DEF EndSync, ItemRow
  <2>3. CASE Disconnect(i)
    <3> DEFINE a == IF item[i].account = "none" THEN item[i].account ELSE "deleted"
    <3>1. a \in {"none", "deleted"}
      OBVIOUS
    <3>2. item' = [item EXCEPT ![i] =
                     [item[i] EXCEPT !.status = "DISCONNECTED", !.dropped = TRUE, !.account = a]]
      BY <1>2, <2>3 DEF Disconnect, ItemRow
    <3> HIDE DEF a
    <3>3. QED
      BY <1>2, <3>1, <3>2 DEF ItemRow
  <2>4. QED
    BY <2>1, <2>2, <2>3 DEF ItemStep
<1>4. hasItem(i) /\ item[i].linked
  BY DEF ItemStep, StartSync, EndSync, Disconnect, hasItem, IInv, ConsentInv
<1>5. \A j \in Items : /\ item'[j].linked = item[j].linked
                       /\ hasItem(j) => item'[j].status # "none"
                       /\ item'[j].status # "none" => item[j].linked
                       /\ item'[j].held => item'[j].status # "none"
                       /\ item'[j].account = "deleted" => item'[j].dropped
                       /\ tier = "free" => item'[j].over = {}
  BY <1>3, <1>4 DEF IInv, ConsentInv, FreeInv, hasItem
<1>6. QED
  BY <1>1, <1>2, <1>3, <1>5, ItemFrame

BackStep(t) == CloseWidget(t) \/ AlreadyConnected(t) \/ PostFails(t)

LeaveStep(t) == FinishPost(t) \/ LeaveCompleted(t) \/ LeaveEarly(t)

LEMMA AnswerKeeps ==
    ASSUME IInv, NEW t \in Tabs, BackStep(t) \/ LeaveStep(t)
    PROVE  IInv'
<1>1. UNCHANGED <<tier, user, session, cpf, pending, item, signups>>
      /\ faults' \in {faults, faults + 1}
  BY DEF BackStep, LeaveStep, CloseWidget, AlreadyConnected, PostFails, FinishPost,
     LeaveCompleted, LeaveEarly
<1>2. RestOK'
  BY <1>1 DEF IInv, TypeOK, RestOK
<1>3. /\ TypeOK' /\ ConsentInv' /\ FreeInv' /\ tab'[t].at # "opening"
      /\ \A s \in Tabs \ {t} : tab'[s] = tab[s]
  <2>1. CASE BackStep(t)
    <3>1. backToConsent(t) /\ tab[t].at \in Connecting
      BY <2>1 DEF BackStep, CloseWidget, AlreadyConnected, PostFails, isPosting, Connecting
    <3>2. QED
      BY <1>1, <1>2, <3>1, BackMove
  <2>2. CASE LeaveStep(t)
    <3>1. PICK x \in {"success", "transactions", "partial", "closed"} : goes(t, x)
      BY <2>2 DEF LeaveStep, FinishPost, LeaveCompleted, LeaveEarly, shown
    <3>2. x \in Pages \union Requests /\ x \notin Connecting /\ x # "opening"
          /\ x \notin {"issuing", "widget", "posting", "finishing"}
      BY DEF Pages, Requests, Connecting
    <3>3. QED
      BY <1>1, <1>2, <3>1, <3>2, GoesMove
  <2>3. QED
    BY <2>1, <2>2
<1>4. QED
  BY <1>1, <1>3, SignupFrame DEF IInv

\* A request whose page gives it up moves to a place of its own.
LEMMA LoseKeeps ==
    ASSUME IInv, NEW t \in Tabs, NEW u \in Tabs, LoseAnswer(t, u)
    PROVE  IInv'
<1> DEFINE a == IF signingUp(t) THEN "signup" ELSE "consent"
           b == tab[t].ticked /\ ~isPosting(t)
           r == [tab[t] EXCEPT !.at = a, !.ticked = b]
<1>1. /\ tab[u].at = "closed" /\ tab[t].at \in Requests /\ t # u
      /\ tab' = [tab EXCEPT ![u] = tab[t],
                            ![t].at = a, ![t].ticked = @ /\ ~isPosting(t)]
      /\ faults' = faults + 1
      /\ UNCHANGED <<tier, user, session, cpf, pending, item, signups>>
  BY DEF LoseAnswer
<1>2. tab \in [Tabs -> TabState] /\ tab[t] \in TabState /\ tab[u] \in TabState
  BY DEF IInv, TypeOK, TabState
<1>3. /\ r \in TabState /\ r.at \in {"signup", "consent"}
      /\ r.at = "consent" => tab[t].at \in Connecting
      /\ r.reconnect = tab[t].reconnect /\ r.seen = tab[t].seen
  <2>1. a \in {"signup", "consent"} /\ (a = "consent" => tab[t].at \in Connecting)
    BY <1>1 DEF signingUp, Requests, Connecting
  <2>2. b \in BOOLEAN
    OBVIOUS
  <2> HIDE DEF a, b
  <2>3. QED
    BY <1>2, <2>1, <2>2 DEF TabState, Pages
<1>4. tab' = [tab EXCEPT ![u] = tab[t], ![t] = r]
  BY <1>1, <1>2
<1> HIDE DEF r
<1>5. /\ tab' \in [Tabs -> TabState] /\ tab'[t] = r /\ tab'[u] = tab[t]
      /\ \A s \in Tabs \ {t, u} : tab'[s] = tab[s]
  BY <1>1, <1>2, <1>3, <1>4
<1>6. TypeOK'
  <2>1. faults' \in Nat
    BY <1>1 DEF IInv, TypeOK
  <2>2. QED
    BY <1>1, <1>5, <2>1 DEF IInv, TypeOK, TabState
<1>7. SignupInv'
  <2>1. tab[t].at = "opening" => t \notin signups
    BY DEF IInv, SignupInv
  <2>2. u \in signups => tab[t].at # "opening"
    BY <1>1 DEF IInv, SignupInv, inside
  <2>3. r.at # "opening"
    BY <1>3
  <2>4. \A s \in Tabs \ {t, u} : (inside(s))' <=> inside(s)
    BY <1>1, <1>5 DEF inside
  <2>5. (inside(t))' <=> t \in signups
    BY <1>1, <1>5, <2>3 DEF inside
  <2>6. (inside(u))' <=> u \in signups \/ tab[t].at = "opening"
    BY <1>1, <1>5 DEF inside
  <2>7. \A s \in Tabs : (inside(s))' => user'
    BY <1>1, <2>4, <2>5, <2>6 DEF IInv, SignupInv, inside
  <2>8. \A s, v \in Tabs : (inside(s))' /\ (inside(v))' => s = v
    BY <1>1, <2>1, <2>4, <2>5, <2>6 DEF IInv, SignupInv, inside
  <2>9. \A s \in signups' : tab'[s].at # "opening"
    BY <1>1, <1>5, <2>2, <2>3 DEF IInv, TypeOK, SignupInv
  <2>10. QED
    BY <2>7, <2>8, <2>9 DEF SignupInv
<1>8. ConsentInv'
  <2>1. rowHolders' = IF t \in rowHolders THEN (rowHolders \ {t}) \union {u} ELSE rowHolders
    BY <1>1, <1>3, <1>5 DEF rowHolders, holdsRow
  <2>2. IsFiniteSet(rowHolders) /\ u \notin rowHolders
    BY <1>1, FS_Subset, ConnectAssumption DEF rowHolders, holdsRow
  <2>3. Cardinality(rowHolders') = Cardinality(rowHolders)
    <3>1. CASE t \in rowHolders
      <4>1. /\ IsFiniteSet(rowHolders \ {t})
            /\ Cardinality(rowHolders \ {t}) = Cardinality(rowHolders) - 1
        BY <2>2, <3>1, FS_RemoveElement
      <4>2. Cardinality((rowHolders \ {t}) \union {u}) = Cardinality(rowHolders \ {t}) + 1
        BY <2>2, <4>1, FS_AddElement
      <4>3. Cardinality(rowHolders) \in Nat
        BY <2>2, FS_CardinalityType
      <4>4. QED
        BY <2>1, <3>1, <4>1, <4>2, <4>3
    <3>2. QED
      BY <2>1, <3>1
  <2>4. linkedItems' = linkedItems
    BY <1>1 DEF linkedItems
  <2>5. Cardinality(linkedItems') + Cardinality(rowHolders') <= pending'
    BY <1>1, <2>3, <2>4 DEF IInv, ConsentInv
  <2>6. \A s \in Tabs : tab'[s].reconnect # None => hasItem(tab'[s].reconnect)
    BY <1>3, <1>5 DEF IInv, ConsentInv
  <2>7. \A s \in Tabs : tab'[s].at \in {"posting", "finishing"} =>
          tab'[s].linked \in Items /\ item[tab'[s].linked].linked
    BY <1>3, <1>5 DEF IInv, ConsentInv
  <2>8. QED
    BY <1>1, <2>5, <2>6, <2>7 DEF IInv, ConsentInv, hasItem
<1>9. FreeInv'
  BY <1>1, <1>3, <1>5 DEF IInv, FreeInv, Connecting
<1>10. QED
  BY <1>6, <1>7, <1>8, <1>9 DEF IInv

-----------------------------------------------------------------------------
(* All steps *)

LEMMA InitIInv == Init => IInv
<1> SUFFICES ASSUME Init PROVE IInv
  OBVIOUS
<1>1. \A i \in Items : item[i] \in {NoItem, OldItem}
  BY DEF Init
<1>2. NoItem \in ItemRow /\ OldItem \in ItemRow
  BY DEF NoItem, OldItem, ItemRow
<1>3. SignupPage \in TabState /\ SignupPage.at = "signup" /\ SignupPage.reconnect = None
      /\ SignupPage.seen = {}
  BY DEF SignupPage, TabState, Pages
<1>31. NoTab \in TabState /\ NoTab.at = "closed" /\ NoTab.reconnect = None /\ NoTab.seen = {}
  BY DEF NoTab, SignupPage, TabState, Pages
<1>32. \A t \in Tabs : tab[t] \in {NoTab, SignupPage}
  BY DEF Init
<1>4. item \in [Items -> ItemRow] /\ tab \in [Tabs -> TabState]
  BY <1>1, <1>2, <1>3, <1>31 DEF Init
<1>5. \A i \in Items : /\ hasItem(i) <=> item[i].linked
                       /\ item[i].account # "deleted" /\ item[i].over = {} /\ ~item[i].held
  <2>1. /\ NoItem.status = "none" /\ ~NoItem.linked /\ NoItem.account # "deleted"
        /\ NoItem.over = {} /\ ~NoItem.held
    BY DEF NoItem
  <2>2. /\ OldItem.status # "none" /\ OldItem.linked /\ OldItem.account # "deleted"
        /\ OldItem.over = {} /\ ~OldItem.held
    BY DEF NoItem, OldItem
  <2>3. QED
    BY <1>1, <2>1, <2>2, Zenon DEF hasItem
<1>6. Cardinality({i \in Items : hasItem(i)}) \in Nat
  BY FS_Subset, FS_CardinalityType, ConnectAssumption
<1>7. TypeOK
  BY <1>4, <1>6 DEF Init, TypeOK, ItemRow, TabState
<1>8. SignupInv
  BY <1>3, <1>31, <1>32 DEF Init, SignupInv, inside
<1>9. ConsentInv
  <2>1. rowHolders = {} /\ linkedItems = {i \in Items : hasItem(i)}
    BY <1>3, <1>31, <1>32, <1>5 DEF rowHolders, holdsRow, linkedItems
  <2>2. Cardinality(linkedItems) + Cardinality(rowHolders) <= pending
    BY <1>6, <2>1, FS_EmptySet DEF Init
  <2>3. QED
    BY <1>3, <1>31, <1>32, <1>5, <2>2 DEF ConsentInv
<1>10. FreeInv
  BY <1>3, <1>31, <1>32, <1>5 DEF FreeInv, Connecting
<1>11. QED
  BY <1>7, <1>8, <1>9, <1>10 DEF IInv

LEMMA NextIInv == IInv /\ [Next]_vars => IInv'
<1> SUFFICES ASSUME IInv, [Next]_vars PROVE IInv'
  OBVIOUS
<1>1. CASE UNCHANGED vars
  BY <1>1 DEF vars, IInv, TypeOK, SignupInv, inside, ConsentInv, linkedItems, rowHolders,
     holdsRow, hasItem, FreeInv
<1>2. ASSUME NEW t \in Tabs,
             \/ SignupStep(t) \/ PageStep(t) \/ InitStep(t) \/ RecordConsent(t)
             \/ Link(t) \/ InsertItem(t) \/ BackStep(t) \/ LeaveStep(t)
      PROVE  IInv'
  BY <1>2, SignupKeeps, PageKeeps, InitStepKeeps, RecordConsentKeeps, LinkKeeps,
     InsertItemKeeps, AnswerKeeps
<1>3. ASSUME NEW i \in Items, ItemStep(i) PROVE IInv'
  BY <1>3, ItemStepKeeps
<1>5. ASSUME NEW t \in Tabs, NEW u \in Tabs, LoseAnswer(t, u) PROVE IInv'
  BY <1>5, LoseKeeps
<1>4. QED
  BY <1>1, <1>2, <1>3, <1>5
     DEF Next, SignupStep, PageStep, InitStep, BackStep, LeaveStep, ItemStep

\* Every reachable state satisfies the inductive invariant.
THEOREM Invariance == Spec => []IInv
  BY InitIInv, NextIInv, PTL DEF Spec

\* Types of the variables of the sign-up and connect flow.
THEOREM TypeCorrect == Spec => []TypeOK
<1>1. IInv => TypeOK
  BY DEF IInv
<1>2. QED
  BY <1>1, Invariance, PTL

\* One address is signed in by at most one signup, for any number of tabs.
THEOREM OneWins == Spec => []OneSignupWins
<1>1. IInv => OneSignupWins
  <2> SUFFICES ASSUME IInv PROVE Cardinality(signups) <= 1
    BY DEF OneSignupWins
  <2>1. CASE signups = {}
    BY <2>1, FS_EmptySet
  <2>2. CASE signups # {}
    <3>1. PICK t : t \in signups
      BY <2>2
    <3>2. \A s \in signups : s = t
      BY <3>1 DEF IInv, TypeOK, SignupInv, inside
    <3>3. signups = {t}
      BY <3>1, <3>2
    <3>4. Cardinality(signups) = 1
      BY <3>3, FS_Singleton
    <3>5. QED
      BY <3>4
  <2>3. QED
    BY <2>1, <2>2
<1>2. QED
  BY <1>1, Invariance, PTL

\* Items linked at Pluggy and widgets about to link one never outnumber the
\* consent rows.
THEOREM ConsentFirst == Spec => []LinkedAfterConsent
<1>1. IInv => LinkedAfterConsent
  <2> SUFFICES ASSUME IInv PROVE LinkedAfterConsent
    OBVIOUS
  <2> DEFINE opened == {t \in Tabs : linking(t)}
  <2>1. opened \subseteq rowHolders
    BY DEF linking, rowHolders, holdsRow
  <2>2. IsFiniteSet(rowHolders) /\ IsFiniteSet(linkedItems)
    BY FS_Subset, ConnectAssumption DEF rowHolders, linkedItems
  <2>3. /\ Cardinality(opened) <= Cardinality(rowHolders)
        /\ Cardinality(opened) \in Nat /\ Cardinality(rowHolders) \in Nat
        /\ Cardinality(linkedItems) \in Nat
    BY <2>1, <2>2, FS_Subset, FS_CardinalityType
  <2>4. QED
    BY <2>3 DEF LinkedAfterConsent, linkedItems, IInv, TypeOK, ConsentInv
<1>2. QED
  BY <1>1, Invariance, PTL

\* On the free plan no page that led to an item was rendered while another item
\* used the plan.
THEOREM FreeTierRaced == Spec => []FreeTierIsRaced
<1>1. IInv => FreeTierIsRaced
  BY DEF IInv, FreeInv, FreeTierIsRaced
<1>2. QED
  BY <1>1, Invariance, PTL

\* A settled CPF stays as it is: a request that is about to write one has read
\* the placeholder.
THEOREM CpfFinal == Spec => QuietCpfIsFinal
<1>1. TypeOK /\ [Next]_vars => (settledCpf => settledCpf' /\ cpf' = cpf)
  <2> SUFFICES ASSUME TypeOK, [Next]_vars, settledCpf PROVE settledCpf' /\ cpf' = cpf
    OBVIOUS
  <2>1. tab \in [Tabs -> TabState] /\ cpf # None /\ \A t \in Tabs : tab[t].at # "writing"
    BY DEF TypeOK, TabState, settledCpf
  <2>2. SUFFICES cpf' = cpf /\ \A t \in Tabs : tab'[t].at # "writing"
    BY <2>1 DEF settledCpf
  <2>3. ASSUME NEW t \in Tabs,
               \/ SignupStep(t) \/ InitStep(t) \/ RecordConsent(t)
               \/ InsertItem(t) \/ LeaveStep(t) \/ Decline(t)
        PROVE  cpf' = cpf /\ \A s \in Tabs : tab'[s].at # "writing"
    <3>1. cpf' = cpf /\ \E x \in (Pages \union Requests) \ {"writing"} : goes(t, x)
      BY <2>1, <2>3 DEF SignupStep, InitStep, RecordConsent, InsertItem, LeaveStep, Decline,
         SubmitSignup, CheckEmail, CreateUser, OpenSession, SignupFails, SignIn,
         ReadCpf, WriteCpf, IssueToken, InitFails, userHasRealCpf, afterCpf, shown,
         FinishPost, LeaveCompleted, LeaveEarly, Pages, Requests
    <3>2. QED
      BY <2>1, <3>1 DEF goes, TabState
  <2>4. ASSUME NEW t \in Tabs,
               \/ OpenConnect(t) \/ (\E i \in Items : OpenReconnect(t, i)) \/ Tick(t)
               \/ Agree(t) \/ Link(t) \/ BackStep(t)
        PROVE  cpf' = cpf /\ \A s \in Tabs : tab'[s].at # "writing"
    <3>1. cpf' = cpf
      BY <2>4 DEF OpenConnect, OpenReconnect, Tick, Agree, Link, BackStep, CloseWidget,
         AlreadyConnected, PostFails
    <3>2. CASE OpenConnect(t)
      <4> DEFINE r == [SignupPage EXCEPT
                         !.at = IF tier = "free" /\ activeItems # {} THEN "paywall" ELSE "consent",
                         !.hasCpf = cpf # None, !.seen = usesPlan]
      <4>1. tab' = [tab EXCEPT ![t] = r]
        BY <3>2 DEF OpenConnect
      <4>2. r.at \in {"paywall", "consent"}
        BY DEF SignupPage
      <4> HIDE DEF r
      <4>3. QED
        BY <2>1, <3>1, <4>1, <4>2
    <3>3. CASE \E i \in Items : OpenReconnect(t, i)
      <4>1. PICK i \in Items : OpenReconnect(t, i)
        BY <3>3
      <4> DEFINE r == [SignupPage EXCEPT !.at = "consent", !.hasCpf = cpf # None,
                                         !.reconnect = i]
      <4>2. tab' = [tab EXCEPT ![t] = r] /\ r.at = "consent"
        BY <4>1 DEF OpenReconnect, SignupPage
      <4> HIDE DEF r
      <4>3. QED
        BY <2>1, <3>1, <4>2
    <3>4. CASE Tick(t)
      BY <2>1, <3>4 DEF Tick, TabState
    <3>5. CASE Agree(t) \/ Link(t)
      BY <2>1, <3>1, <3>5 DEF Agree, Link, TabState
    <3>6. CASE BackStep(t)
      BY <2>1, <3>1, <3>6 DEF BackStep, CloseWidget, AlreadyConnected, PostFails,
         backToConsent, shown, TabState
    <3>7. QED
      BY <2>4, <3>2, <3>3, <3>4, <3>5, <3>6
  <2>5. ASSUME UNCHANGED vars \/ \E i \in Items : ItemStep(i)
        PROVE  cpf' = cpf /\ \A s \in Tabs : tab'[s].at # "writing"
    BY <2>1, <2>5 DEF vars, ItemStep, StartSync, EndSync, Disconnect
  <2>6. ASSUME NEW t \in Tabs, NEW u \in Tabs, LoseAnswer(t, u)
        PROVE  cpf' = cpf /\ \A s \in Tabs : tab'[s].at # "writing"
    <3>1. /\ cpf' = cpf
          /\ tab' = [tab EXCEPT ![u] = tab[t],
                                ![t].at = IF signingUp(t) THEN "signup" ELSE "consent",
                                ![t].ticked = @ /\ ~isPosting(t)]
      BY <2>6 DEF LoseAnswer
    <3>2. QED
      BY <2>1, <3>1 DEF TabState
  <2>7. QED
    BY <2>3, <2>4, <2>5, <2>6 DEF Next, SignupStep, InitStep, BackStep, LeaveStep, ItemStep
<1>2. QED
  BY <1>1, TypeCorrect, PTL DEF Spec, QuietCpfIsFinal
=============================================================================
