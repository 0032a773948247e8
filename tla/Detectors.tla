------------------------------ MODULE Detectors ------------------------------
(***************************************************************************)
(* How the transactions of one user get their two flags: is_transfer, with *)
(* transfer_pair_id, from transferDetectorWorker, and                      *)
(* is_credit_card_payment from faturaDetectorWorker, while the sync worker *)
(* goes on writing transactions and accounts.                              *)
(*                                                                         *)
(* Each detector is one SQL statement, then an audit row.  Under READ      *)
(* COMMITTED the statement decides on the rows it finds when it starts and *)
(* writes later: its UPDATE waits for the row locks of others and then     *)
(* tests no more than the row's id.  So a run has three steps: it matches, *)
(* updates and audits.  Two deadlocked statements are a run that fails.    *)
(*                                                                         *)
(* A detector job is made by every sync and again by every retry, so a run *)
(* may start at any time; both queues have localConcurrency 2.             *)
(***************************************************************************)
EXTENDS Integers, FiniteSets

CONSTANTS
    Txs,         \* transactions, by the order of id::text
    Type,        \* Type[t]: DEBIT or CREDIT; no upsert changes it
    Accounts,    \* checking and savings accounts of the user
    AccountOf,   \* AccountOf[t]: the account of transaction t
    Cards,       \* credit-card accounts of the user
    Amounts,     \* amounts and balances
    Days,        \* posted_at, due dates and sync times, in days
    Corrections, \* amounts or dates Pluggy changes after the fact (bound)
    TransferRuns,  \* handlers of the transfer queue
    FaturaRuns,    \* handlers of the fatura queue
    None

ASSUME ConstantsAssumption ==
    /\ Txs \subseteq Nat
    /\ Type \in [Txs -> {"DEBIT", "CREDIT"}]
    /\ AccountOf \in [Txs -> Accounts \union Cards]
    /\ Accounts \intersect Cards = {}
    /\ Amounts \subseteq Nat
    /\ Days \subseteq Nat
    /\ Corrections \in Nat
    /\ TransferRuns \intersect FaturaRuns = {}
    /\ None \notin Txs

VARIABLES
    posting,   \* posting[t]: amount and day of row t, or NoRow
    card,      \* card[c]: balance, anchor day and status, or NoRow
    transfer,  \* rows with is_transfer
    pair,      \* pair[t]: transfer_pair_id
    payment,   \* rows with is_credit_card_payment
    run,       \* the running detectors
    audited,   \* rows the count of a detector's audit row included
    lost,      \* history: rows flagged by a run that failed before its audit
    broken,    \* history: a run that another had overtaken wrote pairs
    corrected  \* corrections so far

tables == <<posting, card, corrected>>
flags == <<transfer, pair, payment>>
history == <<audited, lost, broken>>
vars == <<tables, flags, run, history>>

-----------------------------------------------------------------------------
NoRow == [amount |-> 0, day |-> 0, status |-> "none"]

Posting == {NoRow} \union [amount: Amounts, day: Days, status: {"stored"}]
Card == {NoRow} \union [amount: Amounts, day: Days, status: {"ACTIVE", "DELETED"}]

Runs == TransferRuns \union FaturaRuns

\* A run holds the pairs, or the rows, it matched; overtaken says that a
\* transfer run has committed since.
IdleRun == [pc |-> "idle", pairs |-> {}, rows |-> {}, overtaken |-> FALSE]
MatchedRun(pairs, rows) ==
    [pc |-> "matched", pairs |-> pairs, rows |-> rows, overtaken |-> FALSE]

legs(pairs) == {p[1] : p \in pairs} \union {p[2] : p \in pairs}

distance(m, n) == IF m <= n THEN n - m ELSE m - n

Init ==
    /\ posting = [t \in Txs |-> NoRow]
    /\ card = [c \in Cards |-> NoRow]
    /\ transfer = {}
    /\ pair = [t \in Txs |-> None]
    /\ payment = {}
    /\ run = [r \in Runs |-> IdleRun]
    /\ audited = {}
    /\ lost = {}
    /\ broken = FALSE
    /\ corrected = 0

-----------------------------------------------------------------------------
(* What the sync worker and the DELETE route do meanwhile *)

keepFlags(t) == UNCHANGED flags

\* A page brings a new transaction, or a correction of a stored one: amount
\* and posted_at are in the upsert's SET list, the flags are not.
UpsertTransaction(t) ==
    /\ \E amount \in Amounts, day \in Days :
           posting' = [posting EXCEPT ![t] = [amount |-> amount, day |-> day,
                                              status |-> "stored"]]
    /\ posting' # posting
    /\ corrected' = IF posting[t] = NoRow THEN corrected ELSE corrected + 1
    /\ corrected' <= Corrections
    /\ keepFlags(t)
    /\ UNCHANGED <<card, run, history>>

\* The account upsert sets balance, bill_due_date and updated_at: whichever
\* of the two dates is the anchor, it is a new one.
UpsertCard(c) ==
    /\ \E balance \in Amounts, anchor \in Days :
           card' = [card EXCEPT ![c] =
                       [amount |-> balance, day |-> anchor,
                        status |-> IF @ = NoRow THEN "ACTIVE" ELSE @.status]]
    /\ card' # card
    /\ corrected' = IF card[c] = NoRow THEN corrected ELSE corrected + 1
    /\ corrected' <= Corrections
    /\ UNCHANGED <<posting, flags, run, history>>

\* The bank is disconnected: its accounts are soft-deleted.
CloseCard(c) ==
    /\ card[c].status = "ACTIVE"
    /\ card' = [card EXCEPT ![c].status = "DELETED"]
    /\ UNCHANGED <<posting, corrected, flags, run, history>>

-----------------------------------------------------------------------------
(* transferDetectorWorker *)

TransferWindow == 3

delta(p) == distance(posting[p[1]].day, posting[p[2]].day)

\* D-33: opposite types, different accounts, equal amounts, at most three
\* days apart.
pairsAmong(rows) ==
    {p \in rows \X rows :
        /\ Type[p[1]] = "DEBIT" /\ Type[p[2]] = "CREDIT"
        /\ posting[p[1]] # NoRow /\ posting[p[2]] # NoRow
        /\ AccountOf[p[1]] # AccountOf[p[2]]
        /\ posting[p[1]].amount = posting[p[2]].amount
        /\ delta(p) <= TransferWindow}

\* mutant: rows already flagged are candidates again
PairsOfAll == pairsAmong(Txs)

sameUserPairs == pairsAmong(Txs \ transfer)

\* mutant: RANK() in place of ROW_NUMBER(), and no order by id
BestsWithTies(side) ==
    {p \in sameUserPairs : \A q \in sameUserPairs : q[side] = p[side] => delta(p) <= delta(q)}

\* ROW_NUMBER() = 1: the closest partner of the leg on one side, the smaller
\* id of equally close ones.
best(side) ==
    {p \in sameUserPairs : \A q \in sameUserPairs :
        q[side] = p[side] /\ q # p =>
            \/ delta(p) < delta(q)
            \/ delta(p) = delta(q) /\ p[3 - side] < q[3 - side]}

mutual == best(1) \intersect best(2)

MatchTransfers(r) ==
    /\ run[r].pc = "idle"
    /\ run' = [run EXCEPT ![r] = MatchedRun(mutual, {})]
    /\ UNCHANGED <<tables, flags, history>>

\* mutant: no audit row
EndsUnaudited(r, rows) == IdleRun

\* Flagged some rows: an audit row is to follow.  Flagged none: the run ends.
afterUpdate(r, rows) == IF rows = {} THEN IdleRun ELSE [run[r] EXCEPT !.pc = "updated", !.rows = rows]

\* The others that have matched and not written yet are overtaken.
overtake(r) ==
    [s \in Runs |->
        IF s = r THEN afterUpdate(r, legs(run[r].pairs))
        ELSE IF run[s].pc = "matched" /\ run[r].pairs # {} THEN [run[s] EXCEPT !.overtaken = TRUE]
        ELSE run[s]]

UpdateTransfers(r) ==
    /\ run[r].pc = "matched"
    /\ transfer' = transfer \union legs(run[r].pairs)
    /\ pair' = [t \in Txs |->
                   IF \E p \in run[r].pairs : t \in {p[1], p[2]}
                   THEN LET p == CHOOSE p \in run[r].pairs : t \in {p[1], p[2]}
                        IN IF t = p[1] THEN p[2] ELSE p[1]
                   ELSE pair[t]]
    /\ run' = overtake(r)
    /\ broken' = (broken \/ (run[r].overtaken /\ run[r].pairs # {}))
    /\ UNCHANGED <<tables, payment, audited, lost>>

-----------------------------------------------------------------------------
(* faturaDetectorWorker *)

FaturaWindow == 7

matchingCards(t) ==
    {c \in Cards : /\ card[c].status = "ACTIVE"
                   /\ card[c].amount = posting[t].amount
                   /\ distance(posting[t].day, card[c].day) <= FaturaWindow}

\* Debits of a checking or savings account that match exactly one card.
unambiguousAmong(rows) ==
    {t \in rows :
        /\ posting[t] # NoRow
        /\ Type[t] = "DEBIT"
        /\ AccountOf[t] \in Accounts
        /\ Cardinality(matchingCards(t)) = 1}

\* mutant: t.is_transfer = false dropped
TransfersToo == unambiguousAmong(Txs \ payment)

unambiguous == unambiguousAmong(Txs \ (payment \union transfer))

MatchPayments(r) ==
    /\ run[r].pc = "idle"
    /\ run' = [run EXCEPT ![r] = MatchedRun({}, unambiguous)]
    /\ UNCHANGED <<tables, flags, history>>

UpdatePayments(r) ==
    /\ run[r].pc = "matched"
    /\ payment' = payment \union run[r].rows
    /\ run' = [run EXCEPT ![r] = afterUpdate(r, run[r].rows)]
    /\ UNCHANGED <<tables, transfer, pair, history>>

-----------------------------------------------------------------------------
(* Both workers *)

kindOf(r) == IF r \in TransferRuns THEN "transfer" ELSE "payment"

counted(r) == {kindOf(r)} \X run[r].rows

\* The audit row with the count, and the end of the job.
Audit(r) ==
    /\ run[r].pc = "updated"
    /\ audited' = audited \union counted(r)
    /\ run' = [run EXCEPT ![r] = IdleRun]
    /\ UNCHANGED <<tables, flags, lost, broken>>

\* The statement or the audit insert throws, or the process dies; the retry
\* is a run like any other.
Fail(r) ==
    /\ run[r].pc # "idle"
    /\ lost' = IF run[r].pc = "updated" THEN lost \union counted(r) ELSE lost
    /\ run' = [run EXCEPT ![r] = IdleRun]
    /\ UNCHANGED <<tables, flags, audited, broken>>

Next ==
    \/ \E t \in Txs : UpsertTransaction(t)
    \/ \E c \in Cards : UpsertCard(c) \/ CloseCard(c)
    \/ \E r \in TransferRuns : MatchTransfers(r) \/ UpdateTransfers(r)
    \/ \E r \in FaturaRuns : MatchPayments(r) \/ UpdatePayments(r)
    \/ \E r \in Runs : Audit(r) \/ Fail(r)

Spec == Init /\ [][Next]_vars

-----------------------------------------------------------------------------
(* Properties *)

RunRecord == [pc: {"idle", "matched", "updated"}, pairs: SUBSET (Txs \X Txs),
              rows: SUBSET Txs, overtaken: BOOLEAN]

\* Types; and a row has a transfer_pair_id if and only if it is a transfer.
TypeOK ==
    /\ posting \in [Txs -> Posting]
    /\ card \in [Cards -> Card]
    /\ transfer \subseteq Txs
    /\ pair \in [Txs -> Txs \union {None}]
    /\ \A t \in Txs : t \in transfer <=> pair[t] # None
    /\ payment \subseteq Txs
    /\ run \in [Runs -> RunRecord]
    /\ audited \subseteq {"transfer", "payment"} \X Txs
    /\ lost \subseteq {"transfer", "payment"} \X Txs
    /\ broken \in BOOLEAN
    /\ corrected \in 0..Corrections

Plausible(d, c) ==
    Type[d] = "DEBIT" /\ Type[c] = "CREDIT" /\ AccountOf[d] # AccountOf[c]

\* "Each transaction appears in AT MOST ONE pair" of a run: whatever the
\* table, and however many equal amounts at equal distances are in it, the
\* pairs a run holds have no leg in common, and each is a debit and a credit
\* of two accounts.
RunsAreOneToOne ==
    \A r \in TransferRuns : \A p, q \in run[r].pairs :
        /\ Plausible(p[1], p[2])
        /\ p # q => {p[1], p[2]} \intersect {q[1], q[2]} = {}

\* A transfer's partner is itself a transfer, of opposite type and another
\* account -- also when runs overlap and when Pluggy corrects one leg.
PairsArePossible ==
    \A t \in transfer :
        /\ pair[t] \in transfer
        /\ Plausible(t, pair[t]) \/ Plausible(pair[t], t)

\* The two legs of a transfer name each other, as long as no run wrote pairs
\* it had matched before another run's commit.
MutualUnlessOvertaken == broken \/ \A t \in transfer : pair[pair[t]] = t

\* A row that is a transfer becomes a fatura payment only by a run that
\* matched before the transfer was committed.
TransfersAreNoPayments ==
    [][\A t \in transfer :
           t \in payment' \ payment => \E r \in FaturaRuns : t \in run[r].rows /\ run[r].overtaken]_vars

\* Every flagged row is in the count of an audit row, unless the run that
\* flagged it is still to write one, or failed first: its retry finds nothing
\* to flag and writes none.
UnauditedIsExplained ==
    \A f \in ({"transfer"} \X transfer) \union ({"payment"} \X payment) :
        \/ f \in audited
        \/ f \in lost
        \/ \E r \in Runs : run[r].pc = "updated" /\ f \in counted(r)

\* A fatura run on the rows another has just decided on is a no-op.
PaymentsSettle ==
    [][\A r \in FaturaRuns :
           UpdatePayments(r) /\ run[r].rows = unambiguous => unambiguous' = {}]_vars

=============================================================================
