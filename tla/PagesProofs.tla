---------------------------- MODULE PagesProofs ----------------------------
(***************************************************************************)
(* What the two pages of a connected user promise, for any number of       *)
(* items, tabs, transactions and rows, any page size and any cooldown.     *)
(*                                                                         *)
(* TransactionsPage.  Without ties a row not yet shown has at least as     *)
(* many rows above it as the pages so far have passed over (ReadInv); the  *)
(* WindowLemma is the step from one page to the next.                      *)
(*                                                                         *)
(* ConnectionsPage.  Page and route look at different columns at different *)
(* times; CardsInv relates what a card, a request and a job remember to    *)
(* the row and the clock: no manual sync ends after the last sync, nothing *)
(* remembered is of the future, and a disabled button counts down at least *)
(* to the end of the cooldown that was running when it was rendered.       *)
(***************************************************************************)
EXTENDS ConnectionsPage, TransactionsPage, FiniteSetTheorems, TLAPS

-----------------------------------------------------------------------------
(* OFFSET and LIMIT *)

\* The rows of S before y in a query that lists the newest first.
above(S, y) == {x \in S : date[x] > date[y]}

\* A proper part of a finite set has fewer elements.
LEMMA ProperPart ==
    ASSUME NEW S, IsFiniteSet(S), NEW T \in SUBSET S, T # S
    PROVE  Cardinality(T) < Cardinality(S)
<1>1. IsFiniteSet(T) /\ Cardinality(T) <= Cardinality(S) /\ Cardinality(T) # Cardinality(S)
  BY FS_Subset
<1>2. Cardinality(S) \in Nat /\ Cardinality(T) \in Nat
  BY <1>1, FS_CardinalityType
<1>3. QED
  BY <1>1, <1>2

\* Without ties a window leaves out only rows that have the rows it skips or
\* shows above them: a row at offset c or below, and not shown, is at c + n.
LEMMA WindowLemma ==
    ASSUME NEW S, IsFiniteSet(S), \A x \in S : date[x] \in Nat, ~tiesAmong(S),
           NEW c \in Nat, NEW n \in Nat, NEW P \in windows(S, c, n), NEW y \in S \ P,
           Cardinality(above(S, y)) >= c
    PROVE  Cardinality(above(S, y)) >= c + n
<1>1. PICK A \in SUBSET (S \ P) :
          /\ Cardinality(A) = smaller(c, Cardinality(S))
          /\ Cardinality(P) = smaller(n, Cardinality(S \ A))
          /\ newerFirst(A, S \ A)
          /\ newerFirst(P, S \ (A \union P))
  BY DEF windows
<1>2. /\ P \subseteq S /\ A \subseteq S /\ above(S, y) \subseteq S
      /\ IsFiniteSet(A) /\ IsFiniteSet(P) /\ IsFiniteSet(S \ A) /\ IsFiniteSet(above(S, y))
  <2>1. P \subseteq S /\ A \subseteq S /\ above(S, y) \subseteq S
    BY <1>1 DEF windows, above
  <2>2. QED
    BY <2>1, FS_Subset
<1>3. /\ Cardinality(S) \in Nat /\ Cardinality(A) \in Nat /\ Cardinality(P) \in Nat
      /\ Cardinality(S \ A) \in Nat /\ Cardinality(above(S, y)) \in Nat
  BY <1>2, FS_CardinalityType
<1>4. Cardinality(A) = c
  <2>1. y \notin above(S, y)
    BY DEF above
  <2>2. above(S, y) # S
    BY <2>1
  <2>3. Cardinality(above(S, y)) < Cardinality(S)
    BY <1>2, <2>2, ProperPart
  <2>4. QED
    BY <1>1, <1>3, <2>3 DEF smaller
<1>5. y \notin A
  <2> SUFFICES ASSUME y \in A PROVE FALSE
    OBVIOUS
  <2>1. above(S, y) \subseteq A
    <3> SUFFICES ASSUME NEW x \in S, date[x] > date[y], x \notin A PROVE FALSE
      BY DEF above
    <3>1. date[y] >= date[x]
      BY <1>1 DEF newerFirst
    <3>2. QED
      BY <3>1
  <2>2. y \notin above(S, y)
    BY DEF above
  <2>3. above(S, y) # A
    BY <2>2
  <2>4. Cardinality(above(S, y)) < Cardinality(A)
    BY <1>2, <2>1, <2>3, ProperPart
  <2>5. QED
    BY <1>3, <1>4, <2>4
<1>6. A \union P \subseteq above(S, y)
  <2> SUFFICES ASSUME NEW x \in A \union P PROVE x \in above(S, y)
    OBVIOUS
  <2>1. date[x] >= date[y]
    BY <1>1, <1>5 DEF newerFirst
  <2>2. x \in S /\ x # y
    BY <1>2, <1>5
  <2>3. date[x] # date[y]
    BY <2>2 DEF tiesAmong
  <2>4. QED
    BY <2>1, <2>2, <2>3 DEF above
<1>7. Cardinality(P) = n
  <2>1. P \subseteq S \ A /\ P # S \ A
    BY <1>1, <1>2, <1>5
  <2>2. Cardinality(P) < Cardinality(S \ A)
    BY <1>2, <2>1, ProperPart
  <2>3. QED
    BY <1>1, <1>3, <2>2 DEF smaller
<1>8. Cardinality(A \union P) = c + n
  <2>1. A \intersect P = {}
    BY <1>1
  <2>2. Cardinality(A \intersect P) = 0
    BY <2>1, FS_EmptySet
  <2>3. Cardinality(A \union P)
            = Cardinality(A) + Cardinality(P) - Cardinality(A \intersect P)
    BY <1>2, FS_Union
  <2>4. QED
    BY <1>3, <1>4, <1>7, <2>2, <2>3
<1>9. Cardinality(A \union P) <= Cardinality(above(S, y))
  BY <1>2, <1>6, FS_Subset
<1>10. QED
  BY <1>8, <1>9

-----------------------------------------------------------------------------
(* The transactions page *)

\* Options are of the time and the tier of the page; without a tie or a row that
\* moved down, an old row not yet shown has all the rows passed over above it.
ReadInv ==
    /\ \A m \in page.options : m + monthsAllowed > page.at
    /\ page.view = "list" =>
           /\ told.kept \subseteq matching(page.month, page.account)
           /\ ~told.tied /\ ~told.shrunk => \A y \in told.kept \ told.seen :
                  Cardinality(above(matching(page.month, page.account), y))
                      >= page.cursor + PageSize
    /\ OfferedIsOpen
    /\ NothingMissed

PageInv == TypeOK /\ ReadInv

\* The rows of a query are finitely many and have dates.
LEMMA MatchingDates ==
    ASSUME TypeOK, NEW m, NEW a
    PROVE  /\ matching(m, a) \in SUBSET Txs /\ IsFiniteSet(matching(m, a))
           /\ \A x \in matching(m, a) : date[x] \in Nat
           /\ \A y : /\ above(matching(m, a), y) \subseteq matching(m, a)
                     /\ IsFiniteSet(above(matching(m, a), y))
<1>1. matching(m, a) \subseteq Txs /\ \A x \in matching(m, a) : date[x] \in Nat
  BY DEF matching, TypeOK
<1>2. IsFiniteSet(matching(m, a))
  BY <1>1, TransactionsAssumption, FS_Subset
<1>3. \A y : above(matching(m, a), y) \subseteq matching(m, a)
  BY DEF above
<1>4. QED
  BY <1>1, <1>2, <1>3, FS_Subset

\* The closed page shows and keeps nothing.
LEMMA InitPageInv == Init => PageInv
<1> SUFFICES ASSUME Init PROVE PageInv
  OBVIOUS
<1>1. TypeOK
  <2>1. Dates \subseteq Nat /\ month \in Nat
    BY TransactionsAssumption DEF Dates, Init
  <2>2. date \in [Txs -> Nat \union {None}]
    BY <2>1 DEF Init
  <2>3. QED
    BY <2>1, <2>2 DEF Init, TypeOK
<1>2. ReadInv
  BY DEF Init, ReadInv, OfferedIsOpen, NothingMissed, isOver
<1>3. QED
  BY <1>1, <1>2 DEF PageInv

\* A page with rows on it is not behind the paywall.
LEMMA ListIsOpen ==
    ASSUME NEW m, NEW P, view(m, P) = "list"
    PROVE  ~isPaywalled(m) /\ P # {}
  BY DEF view

\* What is shown has its type.
LEMMA ShowTypes ==
    ASSUME TypeOK, NEW m \in Nat, NEW a \in Accounts \union {None}, NEW c \in Nat, NEW P,
           NEW offered \in BOOLEAN, show(m, a, c, P, offered)
    PROVE  page' \in [view : {"closed", "paywall", "noItems", "syncing", "noTransactions",
                              "list"},
                      month : Nat, account : Accounts \union {None}, cursor : Nat,
                      more : BOOLEAN, options : SUBSET Nat, at : Nat, offered : BOOLEAN]
<1>1. view(m, P) \in {"closed", "paywall", "noItems", "syncing", "noTransactions", "list"}
  BY DEF view, TypeOK
<1>2. monthOptions \in SUBSET Nat
  BY DEF monthOptions, TypeOK
<1>3. QED
  BY <1>1, <1>2 DEF show, TypeOK

\* Reading a page: what is told of its rows carries on from the page before,
\* whose places end where this one's begin.
LEMMA ShowPreserves ==
    ASSUME TypeOK, NEW m \in Nat, NEW a \in Accounts \union {None}, NEW c \in Nat,
           NEW P \in windows(selected(m, a), c, shownRows), NEW offered \in BOOLEAN,
           show(m, a, c, P, offered), UNCHANGED <<tier, date>>,
           P \subseteq told'.seen, ~told'.tied => ~tiesAmong(selected(m, a)),
           ~isPaywalled(m) => told'.kept \subseteq matching(m, a),
           ~isPaywalled(m) /\ ~told'.tied /\ ~told'.shrunk =>
               \A y \in told'.kept \ told'.seen : Cardinality(above(matching(m, a), y)) >= c,
           offered => ~isPaywalled(m)
    PROVE  ReadInv'
<1> DEFINE S == matching(m, a)
<1>1. /\ page'.month = m /\ page'.account = a /\ page'.cursor = c /\ page'.at = month
      /\ page'.view = view(m, P) /\ page'.offered = offered
      /\ page'.more = (P # {} /\ hasMore(selected(m, a), c))
      /\ page'.options \subseteq monthOptions
  BY DEF show
<1>2. \A x \in page'.options : x + monthsAllowed' > page'.at
  BY <1>1 DEF monthOptions, monthsAllowed
<1>3. OfferedIsOpen'
  <2>1. view(m, P) = "paywall" => isPaywalled(m)
    BY DEF view
  <2>2. QED
    BY <1>1, <2>1 DEF OfferedIsOpen
<1>4. page'.view = "list" => ~isPaywalled(m) /\ P # {} /\ selected(m, a) = S
  BY <1>1, ListIsOpen DEF selected
<1>5. matching(m, a)' = S /\ \A y : above(S, y)' = above(S, y)
  BY DEF matching, above
<1>6. ASSUME page'.view = "list", ~told'.tied, ~told'.shrunk, NEW y \in told'.kept \ told'.seen
      PROVE  Cardinality(above(S, y)) >= c + PageSize
  <2>1. /\ S \in SUBSET Txs /\ IsFiniteSet(S) /\ \A x \in S : date[x] \in Nat
    BY MatchingDates
  <2>2. ~tiesAmong(S) /\ P \in windows(S, c, PageSize) /\ PageSize \in Nat
    BY <1>4, <1>6, TransactionsAssumption DEF shownRows
  <2>3. y \in S \ P /\ Cardinality(above(S, y)) >= c
    BY <1>4, <1>6
  <2>4. QED
    BY <2>1, <2>2, <2>3, WindowLemma
<1>7. NothingMissed'
  <2> SUFFICES ASSUME isOver', ~told'.tied, ~told'.shrunk, NEW y \in told'.kept \ told'.seen
               PROVE  FALSE
    BY DEF NothingMissed
  <2>1. page'.view = "list" /\ ~page'.more
    BY DEF isOver
  <2>2. Cardinality(above(S, y)) >= c + PageSize
    BY <1>6, <2>1
  <2>3. Cardinality(S) <= c + PageSize
    <3>1. ~(Cardinality(S) > c + PageSize)
      BY <1>1, <1>4, <2>1 DEF hasMore
    <3>2. Cardinality(S) \in Nat /\ PageSize \in Nat
      BY MatchingDates, FS_CardinalityType, TransactionsAssumption
    <3>3. QED
      BY <3>1, <3>2
  <2>4. Cardinality(above(S, y)) < Cardinality(S)
    <3>1. y \in S /\ y \notin above(S, y)
      BY <1>4, <2>1, MatchingDates DEF above
    <3>2. QED
      BY <3>1, MatchingDates, ProperPart
  <2>5. /\ Cardinality(S) \in Nat /\ Cardinality(above(S, y)) \in Nat /\ PageSize \in Nat
    BY MatchingDates, FS_CardinalityType, TransactionsAssumption
  <2>6. QED
    BY <2>2, <2>3, <2>4, <2>5
<1>8. QED
  BY <1>1, <1>2, <1>3, <1>4, <1>5, <1>6, <1>7 DEF ReadInv

\* The first page of a month and an account.
LEMMA ChoosePreserves ==
    ASSUME PageInv, NEW m \in Nat, NEW a \in Accounts \union {None}, NEW offered \in BOOLEAN,
           choose(m, a, offered), offered => ~isPaywalled(m)
    PROVE  PageInv'
<1> DEFINE S == selected(m, a)
<1>1. PICK P \in windows(S, 0, shownRows) :
          /\ show(m, a, 0, P, offered)
          /\ told' = [kept |-> S, seen |-> P, tied |-> tiesAmong(S), shrunk |-> FALSE]
          /\ UNCHANGED <<tier, month, item, date, upserts>>
  BY DEF choose
<1>2. TypeOK /\ S \in SUBSET Txs /\ P \in SUBSET Txs /\ tiesAmong(S) \in BOOLEAN
  BY <1>1 DEF PageInv, selected, matching, windows, tiesAmong
<1>3. TypeOK'
  <2>1. told' \in [kept : SUBSET Txs, seen : SUBSET Txs, tied : BOOLEAN, shrunk : BOOLEAN]
    BY <1>1, <1>2
  <2>2. 0 \in Nat
    OBVIOUS
  <2>3. QED
    BY <1>1, <1>2, <2>1, <2>2, ShowTypes DEF TypeOK
<1>4. \A y : Cardinality(above(matching(m, a), y)) >= 0
  BY <1>2, MatchingDates, FS_CardinalityType
<1>5. ~isPaywalled(m) => S = matching(m, a)
  BY DEF selected
<1>6. told'.kept = S /\ P \subseteq told'.seen /\ told'.tied = tiesAmong(S)
  BY <1>1
<1>7. ReadInv'
  BY <1>1, <1>2, <1>4, <1>5, <1>6, ShowPreserves
<1>8. QED
  BY <1>3, <1>7 DEF PageInv

\* The next page.
LEMMA LoadMorePreserves ==
    ASSUME PageInv, LoadMore
    PROVE  PageInv'
<1> DEFINE m == page.month
           a == page.account
           S == selected(m, a)
<1>1. PICK P \in windows(S, nextCursor, shownRows) :
          /\ show(m, a, nextCursor, P, FALSE)
          /\ told' = [told EXCEPT !.seen = @ \union P, !.tied = @ \/ tiesAmong(S)]
  BY DEF LoadMore
<1>2. /\ TypeOK /\ P \in SUBSET Txs /\ tiesAmong(S) \in BOOLEAN
      /\ m \in Nat /\ a \in Accounts \union {None} /\ nextCursor \in Nat
      /\ UNCHANGED <<tier, month, item, date, upserts>> /\ page.view = "list"
  BY <1>1, TransactionsAssumption
     DEF PageInv, TypeOK, selected, matching, windows, tiesAmong, LoadMore, nextCursor
<1>3. /\ told' = [kept |-> told.kept, seen |-> told.seen \union P,
                  tied |-> told.tied \/ tiesAmong(S), shrunk |-> told.shrunk]
      /\ told'.kept = told.kept /\ told'.seen = told.seen \union P
      /\ told'.tied = (told.tied \/ tiesAmong(S)) /\ told'.shrunk = told.shrunk
  BY <1>1, <1>2 DEF TypeOK
<1>4. /\ told.kept \in SUBSET Txs /\ told.seen \in SUBSET Txs
      /\ told.tied \in BOOLEAN /\ told.shrunk \in BOOLEAN
  BY <1>2 DEF TypeOK
<1>5. TypeOK'
  <2>1. told' \in [kept : SUBSET Txs, seen : SUBSET Txs, tied : BOOLEAN, shrunk : BOOLEAN]
    BY <1>2, <1>3, <1>4
  <2>2. QED
    BY <1>1, <1>2, <2>1, ShowTypes DEF TypeOK
<1>6. /\ told.kept \subseteq matching(m, a)
      /\ ~told.tied /\ ~told.shrunk => \A y \in told.kept \ told.seen :
             Cardinality(above(matching(m, a), y)) >= nextCursor
  BY <1>2 DEF PageInv, ReadInv, nextCursor
<1>7. ReadInv'
  BY <1>1, <1>2, <1>3, <1>4, <1>6, ShowPreserves
<1>8. QED
  BY <1>5, <1>7 DEF PageInv

\* A month the form offers is open.
LEMMA FilterPreserves ==
    ASSUME PageInv, NEW m \in Nat, NEW a \in Accounts \union {None}, Filter(m, a)
    PROVE  PageInv'
<1>1. /\ m \in page.options /\ choose(m, a, month = page.at)
      /\ m + monthsAllowed > page.at
  BY DEF Filter, PageInv, ReadInv
<1>2. month = page.at => ~isPaywalled(m)
  BY <1>1, TransactionsAssumption DEF isPaywalled, monthsAllowed, PageInv, TypeOK
<1>3. (month = page.at) \in BOOLEAN
  OBVIOUS
<1>4. QED
  BY <1>1, <1>2, <1>3, ChoosePreserves

\* A row that is written: unless it leaves its place downwards, no row loses one
\* that was above it.
LEMMA UpsertPreserves ==
    ASSUME PageInv, NEW x \in Txs, NEW d \in Dates, Upsert(x, d)
    PROVE  PageInv'
<1> DEFINE m == page.month
           a == page.account
           was == date[x] # None /\ inMonth(date[x], m)
           down == was /\ (~inMonth(d, m) \/ d < date[x])
<1>1. TypeOK /\ d \in Nat /\ None \notin Nat
  BY TransactionsAssumption DEF PageInv, Dates
<1>2. /\ date' = [date EXCEPT ![x] = d]
      /\ told'.kept = told.kept \ {x} /\ told'.seen = told.seen /\ told'.tied = told.tied
      /\ told'.shrunk = (told.shrunk \/ down)
      /\ told' \in [kept : SUBSET Txs, seen : SUBSET Txs, tied : BOOLEAN, shrunk : BOOLEAN]
      /\ UNCHANGED <<tier, month, item, page>> /\ upserts' \in Nat
  <2>1. /\ date' = [date EXCEPT ![x] = d] /\ UNCHANGED <<tier, month, item, page>>
        /\ told' = [told EXCEPT !.kept = told.kept \ {x}, !.shrunk = told.shrunk \/ down]
        /\ upserts' = upserts + 1
    BY DEF Upsert
  <2>2. /\ told \in [kept : SUBSET Txs, seen : SUBSET Txs, tied : BOOLEAN, shrunk : BOOLEAN]
        /\ upserts \in Nat /\ (told.shrunk \/ down) \in BOOLEAN
    BY <1>1 DEF TypeOK
  <2>3. told' = [kept |-> told.kept \ {x}, seen |-> told.seen, tied |-> told.tied,
                 shrunk |-> told.shrunk \/ down]
    BY <2>1, <2>2
  <2>4. told' \in [kept : SUBSET Txs, seen : SUBSET Txs, tied : BOOLEAN, shrunk : BOOLEAN]
    BY <2>2, <2>3
  <2>5. upserts' \in Nat
    BY <2>1, <2>2
  <2>6. QED
    BY <2>1, <2>3, <2>4, <2>5
<1>3. TypeOK'
  BY <1>1, <1>2 DEF TypeOK
<1>4. \A z \in Txs \ {x} : date'[z] = date[z]
  BY <1>1, <1>2 DEF TypeOK
<1>5. date'[x] = d
  BY <1>1, <1>2 DEF TypeOK
<1>6. \A z \in Txs \ {x} : z \in matching(m, a) => z \in matching(m, a)'
  BY <1>2, <1>4 DEF matching
<1>7. ASSUME page.view = "list", ~told'.tied, ~told'.shrunk, NEW y \in told'.kept \ told'.seen
      PROVE  Cardinality(above(matching(m, a), y)') >= page.cursor + PageSize
  <2>1. Cardinality(above(matching(m, a), y)) >= page.cursor + PageSize
    BY <1>2, <1>7 DEF PageInv, ReadInv
  <2>2. y \in matching(m, a) /\ y \in Txs \ {x} /\ date[y] \in Nat
    BY <1>1, <1>2, <1>7, MatchingDates DEF PageInv, ReadInv
  <2>3. above(matching(m, a), y) \subseteq above(matching(m, a), y)'
    <3> SUFFICES ASSUME NEW z \in matching(m, a), date[z] > date[y]
                 PROVE  z \in matching(m, a)' /\ date'[z] > date'[y]
      BY DEF above
    <3>1. z \in Txs /\ date[z] \in Nat /\ date'[y] = date[y]
      BY <1>1, <1>4, <2>2, MatchingDates
    <3>2. CASE z # x
      BY <1>4, <1>6, <3>1, <3>2
    <3>3. CASE z = x
      <4>1. was /\ a \in {None, AccountOf[x]}
        BY <3>3 DEF matching
      <4>2. inMonth(d, m) /\ d >= date[x]
        BY <1>1, <1>2, <1>7, <3>1, <3>3, <4>1
      <4>3. x \in matching(m, a)'
        BY <1>1, <1>2, <1>5, <4>1, <4>2 DEF matching
      <4>4. QED
        BY <1>1, <1>5, <2>2, <3>1, <3>3, <4>2, <4>3
    <3>4. QED
      BY <3>2, <3>3
  <2>4. IsFiniteSet(above(matching(m, a), y)') /\ IsFiniteSet(above(matching(m, a), y))
    <3>1. above(matching(m, a), y)' \subseteq Txs
      BY DEF above, matching
    <3>2. above(matching(m, a), y) \subseteq Txs
      BY DEF above, matching
    <3>3. QED
      BY <3>1, <3>2, TransactionsAssumption, FS_Subset
  <2>5. /\ Cardinality(above(matching(m, a), y)) <= Cardinality(above(matching(m, a), y)')
        /\ Cardinality(above(matching(m, a), y)) \in Nat
        /\ Cardinality(above(matching(m, a), y)') \in Nat
    BY <2>3, <2>4, FS_Subset, FS_CardinalityType
  <2>6. page.cursor + PageSize \in Nat
    BY <1>1, TransactionsAssumption DEF TypeOK
  <2>7. QED
    BY <2>1, <2>5, <2>6
<1>8. page.view = "list" => told'.kept \subseteq matching(m, a)'
  <2>1. page.view = "list" => told.kept \subseteq matching(m, a)
    BY DEF PageInv, ReadInv
  <2>2. matching(m, a) \subseteq Txs
    BY DEF matching
  <2>3. QED
    BY <1>2, <1>6, <2>1, <2>2
<1>9. OfferedIsOpen' /\ NothingMissed'
  BY <1>1, <1>2 DEF PageInv, ReadInv, OfferedIsOpen, NothingMissed, isOver, TypeOK
<1>10. \A k \in page'.options : k + monthsAllowed' > page'.at
  BY <1>2 DEF PageInv, ReadInv, monthsAllowed
<1>11. ReadInv'
  BY <1>2, <1>7, <1>8, <1>9, <1>10 DEF ReadInv
<1>12. QED
  BY <1>3, <1>11 DEF PageInv

\* Steps that neither write a row nor show a page.
LEMMA ElsewherePreserves ==
    ASSUME PageInv, Connect \/ Sync \/ Disconnect \/ MonthTurns \/ UNCHANGED vars
    PROVE  PageInv'
<1>1. UNCHANGED <<tier, date, page, told, upserts>>
  BY DEF Connect, Sync, Disconnect, MonthTurns, vars
<1>2. TypeOK'
  BY <1>1 DEF PageInv, TypeOK, Connect, Sync, Disconnect, MonthTurns, vars
<1>3. \A m, a : matching(m, a)' = matching(m, a)
  BY <1>1 DEF matching
<1>4. ReadInv'
  BY <1>1, <1>3
     DEF PageInv, ReadInv, above, OfferedIsOpen, NothingMissed, isOver, monthsAllowed
<1>5. QED
  BY <1>2, <1>4 DEF PageInv

\* Every step keeps what was read and what is still to be read in agreement.
LEMMA NextPageInv == PageInv /\ [Next]_vars => PageInv'
<1> SUFFICES ASSUME PageInv, [Next]_vars PROVE PageInv'
  OBVIOUS
<1>1. 0..month \subseteq Nat /\ month \in Nat
  BY DEF PageInv, TypeOK
<1>2. CASE Open
  BY <1>1, <1>2, ChoosePreserves DEF Open
<1>3. ASSUME NEW m \in 0..month, OpenOld(m) PROVE PageInv'
  BY <1>1, <1>3, ChoosePreserves DEF OpenOld
<1>4. ASSUME NEW m \in 0..month, NEW a \in Accounts \union {None}, Filter(m, a) PROVE PageInv'
  BY <1>1, <1>4, FilterPreserves
<1>5. QED
  BY <1>2, <1>3, <1>4, LoadMorePreserves, UpsertPreserves, ElsewherePreserves DEF Next

LEMMA PageInvariance == Spec => []PageInv
  BY InitPageInv, NextPageInv, PTL DEF Spec

\* Reading on misses no row that was there all the time, but for ties and rows
\* that moved down: for any number of rows and any page size.
THEOREM NoneMissed == Spec => []NothingMissed
<1>1. PageInv => NothingMissed
  BY DEF PageInv, ReadInv
<1>2. QED
  BY <1>1, PageInvariance, PTL

\* The menu of months and the paywall count the same months.
THEOREM OfferedOpen == Spec => []OfferedIsOpen
<1>1. PageInv => OfferedIsOpen
  BY DEF PageInv, ReadInv
<1>2. QED
  BY <1>1, PageInvariance, PTL

\* Type correctness of the transactions page.
THEOREM TypeCorrect == Spec => []TypeOK
<1>1. PageInv => TypeOK
  BY DEF PageInv
<1>2. QED
  BY <1>1, PageInvariance, PTL

-----------------------------------------------------------------------------
(* The connections page *)

RowRecord == [status : {"UPDATED", "UPDATING", "DISCONNECTED"}, synced : Nat, manual : Nat]
TabRecord ==
    [shown : SUBSET Items, disabled : SUBSET Items, until : [Items -> Nat], rendered : Nat,
     dialog : {"none", "paywall", "disconnect"}, target : Items \union {None},
     typed : BOOLEAN, remove : {"no", "sent", "done"}, removed : Items \union {None},
     own : BOOLEAN]
RequestRecord ==
    [at : {"idle", "asked", "accepted"}, item : Items \union {None}, read : Nat]
JobRecord ==
    [at : {"free", "queued", "taken", "running"}, item : Items \union {None},
     trigger : {"auto", "manual"}, read : Nat]

\* An item is at rest, or is by the time its button counts down to, unless a
\* manual sync has ended since the page was rendered.
rests(p, i) ==
    \/ row[i].manual >= p.rendered
    \/ IF i \in p.disabled THEN row[i].manual + Cooldown <= p.until[i] ELSE ~isCooling(i)

\* What may be found in a tab, in a request and in a job: nothing of the future,
\* and nothing accepted while its item cools but what was read before it did.
fineTab(p) ==
    /\ p \in TabRecord /\ p.rendered <= now
    /\ p.dialog = "disconnect" => p.target \in Items
    /\ p.remove # "no" => p.removed \in Items
    /\ \A i \in p.shown : rests(p, i)
fineRequest(q) ==
    /\ q \in RequestRecord /\ q.read <= now
    /\ q.at # "idle" => q.item \in Items
    /\ q.at = "accepted" /\ isCooling(q.item) => q.read <= row[q.item].manual
fineJob(k) ==
    /\ k \in JobRecord /\ k.read <= now
    /\ k.at # "free" => k.item \in Items
    /\ k.at # "free" /\ k.trigger = "manual" /\ isCooling(k.item) =>
           k.read <= row[k.item].manual

RowsInv ==
    /\ tier \in Tiers /\ now \in Nat /\ row \in [Items -> RowRecord]
    /\ \A i \in Items : row[i].manual <= row[i].synced /\ row[i].synced <= now

CardsInv ==
    /\ RowsInv
    /\ tab \in [Tabs -> TabRecord] /\ \A t \in Tabs : fineTab(tab[t])
    /\ req \in [Requests -> RequestRecord] /\ \A r \in Requests : fineRequest(req[r])
    /\ job \in [Jobs -> JobRecord] /\ \A j \in Jobs : fineJob(job[j])

\* Nothing has been rendered or asked for.
LEMMA InitCardsInv == ConnectionsInit => CardsInv
<1> SUFFICES ASSUME ConnectionsInit PROVE CardsInv
  OBVIOUS
<1>1. Cooldown \in Nat /\ now = Cooldown + 1
  BY PageAssumption DEF ConnectionsInit
<1>2. RowsInv
  BY <1>1 DEF ConnectionsInit, RowsInv, RowRecord
<1>3. fineTab(NoPage) /\ fineRequest(IdleRequest) /\ fineJob(FreeJob)
  BY <1>1
     DEF fineTab, fineRequest, fineJob, TabRecord, RequestRecord, JobRecord, NoPage,
         IdleRequest, FreeJob
<1>4. /\ tab = [t \in Tabs |-> NoPage] /\ req = [r \in Requests |-> IdleRequest]
      /\ job = [j \in Jobs |-> FreeJob]
  BY DEF ConnectionsInit
<1>5. NoPage \in TabRecord /\ IdleRequest \in RequestRecord /\ FreeJob \in JobRecord
  BY <1>3 DEF fineTab, fineRequest, fineJob
<1>6. QED
  BY <1>2, <1>3, <1>4, <1>5 DEF CardsInv

\* A page as it is rendered: whatever can be clicked is at rest.
LEMMA RenderedRests ==
    ASSUME CardsInv
    PROVE  fineTab(render)
<1> DEFINE shown == {i \in Items : row[i].status # "DISCONNECTED"}
           disabled == {i \in shown : now < coolsUntil(i)}
           until == [i \in Items |-> IF i \in shown /\ now < coolsUntil(i)
                                     THEN coolsUntil(i) ELSE 0]
<1>1. /\ now \in Nat /\ Cooldown \in Nat /\ row \in [Items -> RowRecord]
      /\ \A i \in Items : /\ row[i].manual \in Nat /\ row[i].synced \in Nat
                          /\ row[i].manual <= row[i].synced
  BY PageAssumption DEF CardsInv, RowsInv, RowRecord
<1>2. render = [shown |-> shown, disabled |-> disabled, until |-> until, rendered |-> now,
                dialog |-> "none", target |-> None, typed |-> FALSE,
                remove |-> "no", removed |-> None, own |-> FALSE]
  <2>1. render = [NoPage EXCEPT !.shown = shown, !.disabled = disabled, !.until = until,
                                !.rendered = now]
    BY DEF render
  <2>2. QED
    BY <2>1 DEF NoPage
<1>3. \A i \in Items : coolsUntil(i) \in Nat
  BY <1>1 DEF coolsUntil
<1>4. until \in [Items -> Nat] /\ shown \in SUBSET Items /\ disabled \in SUBSET Items
  BY <1>3
<1>5. render \in TabRecord
  BY <1>1, <1>2, <1>4 DEF TabRecord
<1>6. ASSUME NEW i \in shown
      PROVE  IF i \in disabled THEN row[i].manual + Cooldown <= until[i] ELSE ~isCooling(i)
  BY <1>1, <1>3 DEF coolsUntil, isCooling
<1>7. QED
  BY <1>1, <1>2, <1>5, <1>6 DEF fineTab, rests

\* A step that changes one tab only.
LEMMA TabStep ==
    ASSUME CardsInv, NEW t \in Tabs, NEW p, fineTab(p), tab' = [tab EXCEPT ![t] = p],
           UNCHANGED <<tier, now, row, req, job>>
    PROVE  CardsInv'
<1>1. RowsInv'
  BY DEF CardsInv, RowsInv
<1>2. tab' \in [Tabs -> TabRecord] /\ \A s \in Tabs : fineTab(tab'[s])
  BY DEF CardsInv, fineTab
<1>3. QED
  BY <1>1, <1>2 DEF CardsInv, fineTab, fineRequest, fineJob, rests, isCooling

\* The page's own steps.
LEMMA PageSteps ==
    ASSUME CardsInv, NEW t \in Tabs,
           \/ OpenConnections(t) \/ TypePhrase(t) \/ CloseDialog(t) \/ Confirm(t)
           \/ RemoveAnswered(t) \/ RemoveFails(t)
           \/ \E i \in Items : OpenModal(t, i) \/ CountDown(t, i)
    PROVE  CardsInv'
<1>1. tab[t] \in TabRecord /\ fineTab(tab[t]) /\ tab \in [Tabs -> TabRecord]
  BY DEF CardsInv
<1>2. CASE OpenConnections(t) \/ RemoveAnswered(t)
  BY <1>2, RenderedRests, TabStep DEF OpenConnections, RemoveAnswered
<1>3. CASE TypePhrase(t)
  <2>1. tab' = [tab EXCEPT ![t] = [tab[t] EXCEPT !.typed = TRUE]]
    BY <1>3 DEF TypePhrase
  <2>2. fineTab([tab[t] EXCEPT !.typed = TRUE])
    BY <1>1 DEF fineTab, rests, TabRecord
  <2>3. QED
    BY <1>3, <2>1, <2>2, TabStep DEF TypePhrase
<1>4. CASE CloseDialog(t)
  <2> DEFINE p == [tab[t] EXCEPT !.dialog = "none", !.target = None, !.own = FALSE,
                                 !.typed = FALSE]
  <2>1. tab' = [tab EXCEPT ![t] = p]
    BY <1>1, <1>4 DEF CloseDialog
  <2>2. fineTab(p)
    BY <1>1 DEF fineTab, rests, TabRecord
  <2>3. QED
    BY <1>4, <2>1, <2>2, TabStep DEF CloseDialog
<1>5. CASE Confirm(t)
  <2> DEFINE p == [tab[t] EXCEPT !.remove = "sent", !.removed = tab[t].target, !.own = TRUE]
  <2>1. tab' = [tab EXCEPT ![t] = p]
    BY <1>1, <1>5 DEF Confirm
  <2>2. fineTab(p)
    BY <1>1, <1>5 DEF fineTab, rests, TabRecord, Confirm
  <2>3. QED
    BY <1>5, <2>1, <2>2, TabStep DEF Confirm
<1>6. CASE RemoveFails(t)
  <2> DEFINE p == [tab[t] EXCEPT !.remove = "no", !.removed = None, !.own = FALSE,
                                 !.typed = tab[t].typed /\ ~tab[t].own]
  <2>1. tab' = [tab EXCEPT ![t] = p]
    BY <1>1, <1>6 DEF RemoveFails
  <2>2. fineTab(p)
    BY <1>1 DEF fineTab, rests, TabRecord
  <2>3. QED
    BY <1>6, <2>1, <2>2, TabStep DEF RemoveFails
<1>7. ASSUME NEW i \in Items, OpenModal(t, i) PROVE CardsInv'
  <2> DEFINE p == [tab[t] EXCEPT !.dialog = "disconnect", !.target = i]
  <2>1. tab' = [tab EXCEPT ![t] = p]
    BY <1>1, <1>7 DEF OpenModal
  <2>2. fineTab(p)
    BY <1>1 DEF fineTab, rests, TabRecord
  <2>3. QED
    BY <1>7, <2>1, <2>2, TabStep DEF OpenModal
<1>8. ASSUME NEW i \in Items, CountDown(t, i) PROVE CardsInv'
  <2> DEFINE p == [tab[t] EXCEPT !.disabled = tab[t].disabled \ {i},
                                 !.until = [tab[t].until EXCEPT ![i] = 0]]
  <2>1. tab' = [tab EXCEPT ![t] = p]
    <3> DEFINE u == [tab[t] EXCEPT !.disabled = tab[t].disabled \ {i}]
               tabs == [tab EXCEPT ![t] = u]
    <3>1. tab' = [tabs EXCEPT ![t] = [tabs[t] EXCEPT !.until = [tabs[t].until EXCEPT ![i] = 0]]]
      BY <1>1, <1>8, Zenon DEF CountDown
    <3>2. tabs[t] = u /\ u.until = tab[t].until
      BY <1>1 DEF TabRecord
    <3>3. p = [u EXCEPT !.until = [tab[t].until EXCEPT ![i] = 0]]
      BY <1>1 DEF TabRecord
    <3>4. [tabs EXCEPT ![t] = p] = [tab EXCEPT ![t] = p]
      BY <1>1
    <3>5. QED
      BY <3>1, <3>2, <3>3, <3>4
  <2>2. /\ i \in tab[t].disabled /\ now >= tab[t].until[i] /\ tab[t].until \in [Items -> Nat]
        /\ tab[t].shown \subseteq Items /\ tab[t].rendered \in Nat
        /\ now \in Nat /\ Cooldown \in Nat /\ \A k \in Items : row[k].manual \in Nat
    BY <1>1, <1>8, PageAssumption DEF CountDown, TabRecord, CardsInv, RowsInv, RowRecord
  <2>3. /\ p \in TabRecord /\ p.shown = tab[t].shown /\ p.disabled = tab[t].disabled \ {i}
        /\ p.until = [tab[t].until EXCEPT ![i] = 0] /\ p.rendered = tab[t].rendered
        /\ p.dialog = tab[t].dialog /\ p.target = tab[t].target /\ p.remove = tab[t].remove
        /\ p.removed = tab[t].removed
    BY <1>1, <2>2 DEF TabRecord
  <2>4. ASSUME NEW k \in tab[t].shown PROVE rests(p, k)
    <3>1. rests(tab[t], k) /\ k \in Items
      BY <1>1, <2>2 DEF fineTab
    <3>2. CASE k # i
      <4>1. p.until[k] = tab[t].until[k] /\ (k \in p.disabled <=> k \in tab[t].disabled)
        BY <2>2, <2>3, <3>1, <3>2
      <4>2. QED
        BY <2>3, <3>1, <4>1 DEF rests
    <3>3. CASE k = i
      BY <2>2, <2>3, <3>1, <3>3 DEF rests, isCooling
    <3>4. QED
      BY <3>2, <3>3
  <2>5. fineTab(p)
    BY <1>1, <2>3, <2>4 DEF fineTab
  <2>6. QED
    BY <1>8, <2>1, <2>5, TabStep DEF CountDown
<1>9. QED
  BY <1>2, <1>3, <1>4, <1>5, <1>6, <1>7, <1>8

\* A click: the paywall or a request.
LEMMA ClickStep ==
    ASSUME CardsInv, NEW t \in Tabs, NEW i \in Items, SyncClick(t, i)
    PROVE  CardsInv'
<1>1. CASE tier = "free"
  <2>1. tab' = [tab EXCEPT ![t] = [tab[t] EXCEPT !.dialog = "paywall"]]
    BY <1>1 DEF SyncClick
  <2>2. fineTab([tab[t] EXCEPT !.dialog = "paywall"])
    BY DEF CardsInv, fineTab, rests, TabRecord
  <2>3. UNCHANGED <<tier, now, row, req, job>>
    BY <1>1 DEF SyncClick
  <2>4. QED
    BY <2>1, <2>2, <2>3, TabStep
<1>2. CASE tier # "free"
  <2> DEFINE q == [at |-> "asked", item |-> i, read |-> 0]
  <2>1. PICK r \in Requests : req' = [req EXCEPT ![r] = q]
    BY <1>2 DEF SyncClick
  <2>2. UNCHANGED <<tier, now, row, tab, job>>
    BY <1>2 DEF SyncClick
  <2>3. fineRequest(q) /\ q \in RequestRecord
    BY DEF fineRequest, RequestRecord, CardsInv, RowsInv
  <2>4. req' \in [Requests -> RequestRecord] /\ \A s \in Requests : fineRequest(req'[s])
    BY <2>1, <2>3 DEF CardsInv
  <2>5. QED
    BY <2>2, <2>4
       DEF CardsInv, RowsInv, fineTab, fineRequest, fineJob, rests, isCooling
<1>3. QED
  BY <1>1, <1>2

\* A step that changes one request or one job, or both.
LEMMA RequestStep ==
    ASSUME CardsInv, NEW r \in Requests, NEW q, fineRequest(q),
           req' = [req EXCEPT ![r] = q],
           \/ UNCHANGED job
           \/ \E j \in Jobs : \E k \in JobRecord : fineJob(k) /\ job' = [job EXCEPT ![j] = k],
           UNCHANGED <<tier, now, row, tab>>
    PROVE  CardsInv'
<1>1. req' \in [Requests -> RequestRecord] /\ \A s \in Requests : fineRequest(req'[s])
  BY DEF CardsInv, fineRequest
<1>2. job' \in [Jobs -> JobRecord] /\ \A j \in Jobs : fineJob(job'[j])
  BY DEF CardsInv
<1>3. QED
  BY <1>1, <1>2 DEF CardsInv, RowsInv, fineTab, fineRequest, fineJob, rests, isCooling

LEMMA JobStep ==
    ASSUME CardsInv, NEW j \in Jobs, NEW k, fineJob(k), job' = [job EXCEPT ![j] = k],
           UNCHANGED <<tier, now, row, tab, req>>
    PROVE  CardsInv'
<1>1. job' \in [Jobs -> JobRecord] /\ \A i \in Jobs : fineJob(job'[i])
  BY DEF CardsInv, fineJob
<1>2. QED
  BY <1>1 DEF CardsInv, RowsInv, fineTab, fineRequest, fineJob, rests, isCooling

\* The route.
LEMMA RouteSteps ==
    ASSUME CardsInv, NEW r \in Requests, ReadRow(r) \/ EnqueueManual(r) \/ SyncFails(r)
    PROVE  CardsInv'
<1>1. /\ req[r] \in RequestRecord /\ fineRequest(req[r]) /\ now \in Nat
      /\ fineRequest(IdleRequest) /\ IdleRequest \in RequestRecord
  BY DEF CardsInv, RowsInv, fineRequest, RequestRecord, IdleRequest
<1>2. CASE SyncFails(r)
  BY <1>1, <1>2, RequestStep DEF SyncFails
<1>3. CASE ReadRow(r) /\ ~isAccepted(req[r].item)
  BY <1>1, <1>3, RequestStep DEF ReadRow
<1>4. CASE ReadRow(r) /\ isAccepted(req[r].item)
  <2> DEFINE q == [req[r] EXCEPT !.at = "accepted", !.read = now]
  <2>1. req' = [req EXCEPT ![r] = q]
    BY <1>4 DEF ReadRow
  <2>2. q \in RequestRecord /\ q.item = req[r].item /\ q.read = now
    BY <1>1 DEF RequestRecord
  <2>3. req[r].item \in Items /\ ~isCooling(req[r].item)
    BY <1>1, <1>4 DEF fineRequest, ReadRow, isAccepted
  <2>4. fineRequest(q)
    BY <1>1, <2>2, <2>3 DEF fineRequest
  <2>5. QED
    BY <1>4, <2>1, <2>4, RequestStep DEF ReadRow
<1>5. CASE EnqueueManual(r)
  <2> DEFINE k == [at |-> "queued", item |-> req[r].item, trigger |-> "manual",
                   read |-> req[r].read]
  <2>1. PICK j \in Jobs : job' = [job EXCEPT ![j] = k]
    BY <1>5 DEF EnqueueManual, enqueue
  <2>2. fineJob(k) /\ k \in JobRecord
    BY <1>1, <1>5 DEF EnqueueManual, fineRequest, fineJob, RequestRecord, JobRecord
  <2>3. QED
    BY <1>1, <1>5, <2>1, <2>2, RequestStep DEF EnqueueManual
<1>6. QED
  BY <1>2, <1>3, <1>4, <1>5

\* The queue.
LEMMA QueueSteps ==
    ASSUME CardsInv,
           \/ \E i \in Items : EnqueueAuto(i)
           \/ \E j \in Jobs : TakeJob(j) \/ JobFails(j)
    PROVE  CardsInv'
<1>1. fineJob(FreeJob) /\ now \in Nat
  BY DEF CardsInv, RowsInv, fineJob, FreeJob, JobRecord
<1>2. ASSUME NEW i \in Items, EnqueueAuto(i) PROVE CardsInv'
  <2> DEFINE k == [at |-> "queued", item |-> i, trigger |-> "auto", read |-> 0]
  <2>1. PICK j \in Jobs : job' = [job EXCEPT ![j] = k]
    BY <1>2 DEF EnqueueAuto, enqueue
  <2>2. fineJob(k)
    BY <1>1 DEF fineJob, JobRecord
  <2>3. QED
    BY <1>2, <2>1, <2>2, JobStep DEF EnqueueAuto
<1>3. ASSUME NEW j \in Jobs, TakeJob(j) \/ JobFails(j) PROVE CardsInv'
  <2>1. fineJob(job[j]) /\ job[j] \in JobRecord
    BY DEF CardsInv
  <2>2. CASE TakeJob(j) /\ row[job[j].item].status = "UPDATED"
    <3>1. job' = [job EXCEPT ![j] = [job[j] EXCEPT !.at = "taken"]]
      BY <2>2 DEF TakeJob
    <3>2. fineJob([job[j] EXCEPT !.at = "taken"])
      BY <2>1, <2>2 DEF fineJob, JobRecord, TakeJob
    <3>3. QED
      BY <2>2, <3>1, <3>2, JobStep DEF TakeJob
  <2>3. CASE (TakeJob(j) /\ row[job[j].item].status # "UPDATED") \/ JobFails(j)
    <3>1. job' = [job EXCEPT ![j] = FreeJob] /\ UNCHANGED <<tier, now, row, tab, req>>
      BY <2>3 DEF TakeJob, JobFails
    <3>2. QED
      BY <1>1, <3>1, JobStep
  <2>4. QED
    BY <1>3, <2>2, <2>3
<1>4. QED
  BY <1>2, <1>3

\* A write to the row that leaves its times alone, or stamps them with the clock,
\* and a tick: what was fine stays fine.
LEMMA ClockStep ==
    ASSUME CardsInv, RowsInv', now <= now',
           \A i \in Items : \/ row'[i].manual = row[i].manual
                            \/ row'[i].manual = now
    PROVE  /\ \A p \in TabRecord : fineTab(p) => fineTab(p)'
           /\ \A q \in RequestRecord : fineRequest(q) => fineRequest(q)'
           /\ \A k \in JobRecord : fineJob(k) => fineJob(k)'
<1>1. /\ now \in Nat /\ now' \in Nat /\ Cooldown \in Nat
      /\ \A i \in Items : row[i].manual \in Nat /\ row'[i].manual \in Nat
  BY PageAssumption DEF CardsInv, RowsInv, RowRecord
<1>2. ASSUME NEW i \in Items, isCooling(i)', row'[i].manual # now PROVE isCooling(i)
  BY <1>1, <1>2 DEF isCooling
<1>3. ASSUME NEW p \in TabRecord, fineTab(p) PROVE fineTab(p)'
  <2>1. /\ p.rendered \in Nat /\ p.shown \subseteq Items /\ p.until \in [Items -> Nat]
        /\ p.rendered <= now
    BY <1>3 DEF TabRecord, fineTab
  <2>2. ASSUME NEW i \in p.shown PROVE rests(p, i)'
    <3>1. rests(p, i) /\ i \in Items
      BY <1>3, <2>1 DEF fineTab
    <3>2. CASE row'[i].manual = now
      BY <1>1, <2>1, <3>1, <3>2 DEF rests
    <3>3. CASE row'[i].manual = row[i].manual /\ row'[i].manual # now
      BY <1>1, <1>2, <3>1, <3>3 DEF rests
    <3>4. QED
      BY <3>1, <3>2, <3>3
  <2>3. p.rendered <= now'
    BY <1>1, <2>1
  <2>4. QED
    BY <1>3, <2>2, <2>3 DEF fineTab
<1>4. ASSUME NEW q \in RequestRecord, fineRequest(q) PROVE fineRequest(q)'
  <2>1. q.read \in Nat /\ q.read <= now /\ q.read <= now'
    BY <1>1, <1>4 DEF fineRequest, RequestRecord
  <2>2. q.at = "accepted" /\ isCooling(q.item)' => q.read <= row'[q.item].manual
    BY <1>1, <1>2, <1>4, <2>1 DEF fineRequest
  <2>3. QED
    BY <1>4, <2>1, <2>2 DEF fineRequest
<1>5. ASSUME NEW k \in JobRecord, fineJob(k) PROVE fineJob(k)'
  <2>1. k.read \in Nat /\ k.read <= now /\ k.read <= now'
    BY <1>1, <1>5 DEF fineJob, JobRecord
  <2>2. k.at # "free" /\ k.trigger = "manual" /\ isCooling(k.item)' =>
            k.read <= row'[k.item].manual
    BY <1>1, <1>2, <1>5, <2>1 DEF fineJob
  <2>3. QED
    BY <1>5, <2>1, <2>2 DEF fineJob
<1>6. QED
  BY <1>3, <1>4, <1>5

\* Disconnecting, syncing, and time.
LEMMA RowSteps ==
    ASSUME CardsInv,
           \/ \E t \in Tabs : Remove(t)
           \/ \E j \in Jobs : MarkUpdating(j) \/ EndSync(j)
           \/ Tick
    PROVE  CardsInv'
<1>1. now \in Nat /\ row \in [Items -> RowRecord]
  BY DEF CardsInv, RowsInv
<1>2. ASSUME NEW t \in Tabs, Remove(t) PROVE CardsInv'
  <2>1. tab[t] \in TabRecord /\ fineTab(tab[t]) /\ tab[t].removed \in Items
    BY <1>2 DEF CardsInv, fineTab, Remove
  <2>2. row' = [row EXCEPT ![tab[t].removed] =
                    [row[tab[t].removed] EXCEPT !.status = "DISCONNECTED"]]
    BY <1>2 DEF Remove
  <2>3. RowsInv' /\ \A i \in Items : row'[i].manual = row[i].manual
    BY <1>2, <2>1, <2>2 DEF Remove, CardsInv, RowsInv, RowRecord
  <2>4. tab' = [tab EXCEPT ![t] = [tab[t] EXCEPT !.remove = "done"]]
    BY <1>2 DEF Remove
  <2>5. /\ fineTab([tab[t] EXCEPT !.remove = "done"])
        /\ [tab[t] EXCEPT !.remove = "done"] \in TabRecord
    BY <2>1 DEF fineTab, rests, TabRecord
  <2>6. tab' \in [Tabs -> TabRecord] /\ \A s \in Tabs : fineTab(tab'[s])
    BY <2>4, <2>5 DEF CardsInv
  <2>7. now <= now' /\ UNCHANGED <<req, job>>
    BY <1>1, <1>2 DEF Remove
  <2>8. QED
    BY <2>3, <2>6, <2>7, ClockStep DEF CardsInv
<1>3. ASSUME NEW j \in Jobs, MarkUpdating(j) \/ EndSync(j) PROVE CardsInv'
  <2>1. PICK i \in Items : i = job[j].item
    BY <1>3 DEF CardsInv, fineJob, MarkUpdating, EndSync
  <2>2. job[j] \in JobRecord /\ fineJob(job[j])
    BY DEF CardsInv
  <2>3. PICK x \in RowRecord : /\ row' = [row EXCEPT ![i] = x]
                               /\ x.manual = row[i].manual \/ x.manual = now
                               /\ x.manual <= x.synced /\ x.synced <= now
    <3>1. CASE MarkUpdating(j)
      <4>1. row' = [row EXCEPT ![i] = [row[i] EXCEPT !.status = "UPDATING"]]
        BY <2>1, <3>1 DEF MarkUpdating
      <4>2. /\ [row[i] EXCEPT !.status = "UPDATING"] \in RowRecord
            /\ [row[i] EXCEPT !.status = "UPDATING"].manual = row[i].manual
            /\ [row[i] EXCEPT !.status = "UPDATING"].synced = row[i].synced
        BY <1>1 DEF RowRecord
      <4>3. row[i].manual <= row[i].synced /\ row[i].synced <= now
        BY DEF CardsInv, RowsInv
      <4>4. QED
        BY <4>1, <4>2, <4>3
    <3>2. CASE EndSync(j)
      <4> DEFINE x == [status |-> "UPDATED", synced |-> now,
                       manual |-> IF job[j].trigger = "manual" THEN now ELSE row[i].manual]
      <4>1. row' = [row EXCEPT ![i] = x]
        BY <2>1, <3>2 DEF EndSync
      <4>2. row[i].manual \in Nat /\ row[i].manual <= now
        BY <1>1 DEF CardsInv, RowsInv, RowRecord
      <4>3. /\ x \in RowRecord /\ x.manual <= x.synced /\ x.synced <= now
            /\ x.manual = row[i].manual \/ x.manual = now
        BY <1>1, <4>2 DEF RowRecord
      <4>4. QED
        BY <4>1, <4>3
    <3>3. QED
      BY <1>3, <3>1, <3>2
  <2>4. UNCHANGED <<tier, now, tab, req>>
    BY <1>3 DEF MarkUpdating, EndSync
  <2>5. /\ RowsInv' /\ now <= now'
        /\ \A k \in Items : row'[k].manual = row[k].manual \/ row'[k].manual = now
    BY <1>1, <2>3, <2>4 DEF CardsInv, RowsInv
  <2>6. job' \in [Jobs -> JobRecord] /\ \A k \in Jobs : fineJob(job'[k])
    <3>1. CASE MarkUpdating(j)
      <4>1. job' = [job EXCEPT ![j] = [job[j] EXCEPT !.at = "running"]]
        BY <3>1 DEF MarkUpdating
      <4>2. /\ [job[j] EXCEPT !.at = "running"] \in JobRecord
            /\ fineJob([job[j] EXCEPT !.at = "running"])
        BY <2>2, <3>1 DEF fineJob, JobRecord, MarkUpdating
      <4>3. QED
        BY <4>1, <4>2 DEF CardsInv
    <3>2. CASE EndSync(j)
      <4>1. fineJob(FreeJob) /\ FreeJob \in JobRecord
        BY <1>1 DEF fineJob, FreeJob, JobRecord
      <4>2. QED
        BY <3>2, <4>1 DEF EndSync, CardsInv
    <3>3. QED
      BY <1>3, <3>1, <3>2
  <2>7. QED
    BY <2>4, <2>5, <2>6, ClockStep DEF CardsInv
<1>4. CASE Tick
  <2>1. now' \in Nat /\ now <= now' /\ UNCHANGED <<tier, row, tab, req, job>>
    BY <1>1, <1>4 DEF Tick
  <2>2. RowsInv'
    BY <1>1, <2>1 DEF CardsInv, RowsInv, RowRecord
  <2>3. QED
    BY <2>1, <2>2, ClockStep DEF CardsInv
<1>5. QED
  BY <1>2, <1>3, <1>4

\* Every step keeps the cards honest.
LEMMA NextCardsInv == CardsInv /\ [ConnectionsNext]_connectionsVars => CardsInv'
<1> SUFFICES ASSUME CardsInv, [ConnectionsNext]_connectionsVars PROVE CardsInv'
  OBVIOUS
<1>1. CASE UNCHANGED connectionsVars
  BY <1>1
     DEF connectionsVars, CardsInv, RowsInv, fineTab, fineRequest, fineJob, rests, isCooling
<1>2. CASE ConnectionsNext
  BY <1>2, PageSteps, ClickStep, RouteSteps, QueueSteps, RowSteps DEF ConnectionsNext
<1>3. QED
  BY <1>1, <1>2

LEMMA CardsInvariance == ConnectionsSpec => []CardsInv
  BY InitCardsInv, NextCardsInv, PTL DEF ConnectionsSpec

\* Type correctness of the connections page.
THEOREM ConnectionsTypeCorrect == ConnectionsSpec => []ConnectionsTypeOK
<1>1. CardsInv => ConnectionsTypeOK
  BY DEF CardsInv, RowsInv, ConnectionsTypeOK, RowRecord, TabRecord, RequestRecord, JobRecord
<1>2. QED
  BY <1>1, CardsInvariance, PTL

\* A button that can be clicked is refused only after a later manual sync.
THEOREM EnabledHonest == ConnectionsSpec => []EnabledIsHonest
<1>1. CardsInv => EnabledIsHonest
  BY DEF CardsInv, fineTab, rests, EnabledIsHonest, isEnabled
<1>2. QED
  BY <1>1, CardsInvariance, PTL

\* What passes the cooldown while the item cools read the row before it did.
THEOREM CooldownRaced == ConnectionsSpec => []CooldownIsRaced
<1>1. CardsInv => CooldownIsRaced
  BY DEF CardsInv, fineRequest, fineJob, CooldownIsRaced
<1>2. QED
  BY <1>1, CardsInvariance, PTL

=============================================================================
