---------------------------- MODULE TransactionsPage ----------------------------
(***************************************************************************)
(* The page /transactions: the months a tier may choose from, the paywall  *)
(* before older ones, the empty states, and "Carregar mais", which asks    *)
(* for the next rows by their offset in a query sorted by posted_at alone. *)
(*                                                                         *)
(* Each page is one query.  Between two, the sync worker inserts rows and  *)
(* corrects dates, so what is at an offset is not what was there before;   *)
(* rows of one date may come in another order each time.                   *)
(*                                                                         *)
(* A date is a number, Days of them to a month, of which the last stands   *)
(* for its last millisecond.  Left out: amounts, chips, the grouping by    *)
(* day, cursors that are not numbers.                                      *)
(***************************************************************************)
EXTENDS Subscriber, Naturals, FiniteSets

CONSTANTS
    Txs,        \* transactions that Pluggy reports
    Accounts,
    AccountOf,  \* AccountOf[x]: the account of x
    Days,       \* dates in a month, the last of which no query selects
    MaxMonth,   \* last month (bound)
    FreeMonths, \* FREE_TIER_MONTHS
    PaidMonths, \* PAID_TIER_MONTHS
    PageSize,   \* PAGE_SIZE
    MaxUpserts  \* rows written while somebody reads (bound)

ASSUME TransactionsAssumption ==
    /\ IsFiniteSet(Txs)
    /\ AccountOf \in [Txs -> Accounts]
    /\ Days \in Nat \ {0}
    /\ MaxMonth \in Nat
    /\ FreeMonths \in Nat \ {0}
    /\ PaidMonths \in Nat \ {0}
    /\ PageSize \in Nat \ {0}
    /\ MaxUpserts \in Nat
    /\ None \notin Accounts \union Nat

VARIABLES
    month,   \* the current month
    item,    \* pluggy_items.status of the one item; none: no row
    date,    \* transactions.posted_at; None: no row
    page,    \* what the browser shows
    told,    \* history of the pages read since the last choice of month and account
    upserts

vars == <<tier, month, item, date, page, told, upserts>>

-----------------------------------------------------------------------------
\* From startOfMonth to before endOfMonth, which is the last millisecond.
inMonth(d, m) == d \div Days = m /\ d % Days # Days - 1

Dates == 0..(Days * (MaxMonth + 1) - 1)

\* The rows the query selects for a month and, unless None, an account.
matching(m, a) ==
    {x \in Txs : /\ date[x] # None
                 /\ inMonth(date[x], m)
                 /\ a \in {None, AccountOf[x]}}

tiesAmong(S) == \E x, y \in S : x # y /\ date[x] = date[y]

smaller(m, n) == IF m < n THEN m ELSE n

newerFirst(S, T) == \A x \in S, y \in T : date[x] >= date[y]

\* What OFFSET c LIMIT n of S, newest first, may return.
windows(S, c, n) ==
    {P \in SUBSET S :
       \E A \in SUBSET (S \ P) :
         /\ Cardinality(A) = smaller(c, Cardinality(S))
         /\ Cardinality(P) = smaller(n, Cardinality(S \ A))
         /\ newerFirst(A, S \ A)
         /\ newerFirst(P, S \ (A \union P))}

Init ==
    /\ tier \in Tiers
    /\ month \in 0..MaxMonth
    /\ item \in {"none", "UPDATING", "UPDATED"}
    /\ date \in [Txs -> {None} \union IF item = "none" THEN {} ELSE Dates]
    /\ page = [view |-> "closed", month |-> month, account |-> None, cursor |-> 0,
               more |-> FALSE, options |-> {}, at |-> month, offered |-> FALSE]
    /\ told = [kept |-> {}, seen |-> {}, tied |-> FALSE, shrunk |-> FALSE]
    /\ upserts = 0

-----------------------------------------------------------------------------
(* Rendering *)

monthsAllowed == IF tier = "free" THEN FreeMonths ELSE PaidMonths

\* mutant: one month more
OneMonthMore == {m \in 0..month : m + monthsAllowed >= month}

\* buildMonthOptions: the current month and those before it.
monthOptions == {m \in 0..month : m + monthsAllowed > month}

isPaywalled(m) == tier = "free" /\ m + FreeMonths <= month

\* Behind the paywall there is no query.
selected(m, a) == IF isPaywalled(m) THEN {} ELSE matching(m, a)

view(m, P) ==
    CASE isPaywalled(m) -> "paywall"
      [] item = "none" -> "noItems"
      [] item = "UPDATING" /\ P = {} -> "syncing"
      [] item # "UPDATING" /\ P = {} -> "noTransactions"
      [] OTHER -> "list"

shownRows == PageSize

hasMore(S, c) == Cardinality(S) > c + PageSize

show(m, a, c, P, offered) ==
    page' = [view |-> view(m, P), month |-> m, account |-> a, cursor |-> c,
             more |-> P # {} /\ hasMore(selected(m, a), c),
             options |-> IF isPaywalled(m) THEN {} ELSE monthOptions,
             at |-> month, offered |-> offered]

\* The first page of a month and an account.
choose(m, a, offered) ==
    LET S == selected(m, a) IN
    \E P \in windows(S, 0, shownRows) :
      /\ show(m, a, 0, P, offered)
      /\ told' = [kept |-> S, seen |-> P, tied |-> tiesAmong(S), shrunk |-> FALSE]
      /\ UNCHANGED <<tier, month, item, date, upserts>>

\* From the menu, or an address somebody kept.
Open == choose(month, None, FALSE)

OpenOld(m) == choose(m, None, FALSE)

\* The form of FilterRow submits itself.
Filter(m, a) ==
    /\ m \in page.options
    /\ choose(m, a, month = page.at)

\* mutant: the row that tells whether there are more is counted
CountsLookahead == page.cursor + PageSize + 1

nextCursor == page.cursor + PageSize

\* "Carregar mais": the next page in place of this one.
LoadMore ==
    /\ page.view = "list"
    /\ page.more
    /\ LET S == selected(page.month, page.account) IN
       \E P \in windows(S, nextCursor, shownRows) :
         /\ show(page.month, page.account, nextCursor, P, FALSE)
         /\ told' = [told EXCEPT !.seen = @ \union P,
                                 !.tied = @ \/ tiesAmong(S)]
    /\ UNCHANGED <<tier, month, item, date, upserts>>

-----------------------------------------------------------------------------
(* Meanwhile *)

\* The worker upserts a row: a new one, or one whose date Pluggy has corrected.
\* Also when another handler has set the row of the item in the meantime.
\* One that moves down, or out of the month, leaves a place before the rows below it.
Upsert(x, d) ==
    LET m == page.month
        was == date[x] # None /\ inMonth(date[x], m)
        is  == inMonth(d, m)
    IN
    /\ item # "none"
    /\ upserts < MaxUpserts
    /\ d # date[x]
    /\ date' = [date EXCEPT ![x] = d]
    /\ told' = [told EXCEPT
         !.kept = @ \ {x},
         !.shrunk = @ \/ (was /\ (~is \/ d < date[x]))]
    /\ upserts' = upserts + 1
    /\ UNCHANGED <<tier, month, item, page>>

\* A row is born UPDATING.
Connect ==
    /\ item = "none"
    /\ item' = "UPDATING"
    /\ UNCHANGED <<tier, month, date, page, told, upserts>>

\* A sync begins or ends.
Sync ==
    /\ \/ item = "UPDATED" /\ item' = "UPDATING"
       \/ item = "UPDATING" /\ item' = "UPDATED"
    /\ UNCHANGED <<tier, month, date, page, told, upserts>>

\* The transactions stay, and so does the row.
Disconnect ==
    /\ item \in {"UPDATING", "UPDATED"}
    /\ item' = "DISCONNECTED"
    /\ UNCHANGED <<tier, month, date, page, told, upserts>>

MonthTurns ==
    /\ month < MaxMonth
    /\ month' = month + 1
    /\ UNCHANGED <<tier, item, date, page, told, upserts>>

-----------------------------------------------------------------------------
Next ==
    \/ Open
    \/ \E m \in 0..month : OpenOld(m)
    \/ \E m \in 0..month, a \in Accounts \union {None} : Filter(m, a)
    \/ LoadMore
    \/ \E x \in Txs, d \in Dates : Upsert(x, d)
    \/ Connect \/ Sync \/ Disconnect \/ MonthTurns

Spec == Init /\ [][Next]_vars
-----------------------------------------------------------------------------
\* Types of the variables.
TypeOK ==
    /\ tier \in Tiers
    /\ month \in Nat
    /\ item \in {"none", "UPDATING", "UPDATED", "DISCONNECTED"}
    /\ date \in [Txs -> Nat \union {None}]
    /\ page \in [view : {"closed", "paywall", "noItems", "syncing", "noTransactions",
                         "list"},
                 month : Nat, account : Accounts \union {None}, cursor : Nat,
                 more : BOOLEAN, options : SUBSET Nat, at : Nat, offered : BOOLEAN]
    /\ told \in [kept : SUBSET Txs, seen : SUBSET Txs, tied : BOOLEAN, shrunk : BOOLEAN]
    /\ upserts \in Nat

isOver == page.view = "list" /\ ~page.more

\* Whoever reads a month to its end is shown every row that was in it all the time,
\* if no two rows of a page's query had one date and no row left its place for a
\* lower one or another month: new rows on top hide nothing (transactions/page.tsx).
NothingMissed == isOver /\ ~told.tied /\ ~told.shrunk => told.kept \subseteq told.seen

\* A month the page offers is not behind the paywall, unless the month has turned
\* since: the list and the cutoff count the same months (buildMonthOptions, D-27).
OfferedIsOpen == page.offered => page.view # "paywall"
=============================================================================
