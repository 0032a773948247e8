--------------------------- MODULE DetectorsProofs ---------------------------
(***************************************************************************)
(* Theorems about Detectors, for any transactions, accounts and cards, any *)
(* number of runs of each detector and any number of corrections.          *)
(*                                                                         *)
(* MutualIsOneToOne is the heart of it: the two rankings of a run are      *)
(* total, so the pairs best for both legs share none.  IInv adds to the    *)
(* properties what a run that nobody has overtaken knows: the legs it      *)
(* matched are still free.                                                 *)
(***************************************************************************)
EXTENDS Detectors, TLAPS

\* Distances compare like numbers.
LEMMA DistanceNat == \A m, n \in Nat : distance(m, n) \in Nat
  BY DEF distance

\* Every row of the tables has an amount and a day, 0 before it is stored.
LEMMA PostingDays ==
    ASSUME TypeOK, NEW t \in Txs
    PROVE  posting[t].day \in Nat
<1>1. posting[t] \in Posting
  BY DEF TypeOK
<1>2. CASE posting[t] = NoRow
  BY <1>2 DEF NoRow
<1>3. CASE posting[t] \in [amount: Amounts, day: Days, status: {"stored"}]
  BY <1>3, ConstantsAssumption
<1>4. QED
  BY <1>1, <1>2, <1>3 DEF Posting

\* What a run matches, whatever the table: a debit and a credit of two
\* accounts, both rows of the table, neither a transfer.
LEMMA MatchedPairs ==
    ASSUME TypeOK, NEW p \in mutual
    PROVE  /\ p \in Txs \X Txs
           /\ p[1] \notin transfer /\ p[2] \notin transfer
           /\ Plausible(p[1], p[2])
  BY DEF mutual, best, sameUserPairs, pairsAmong, Plausible

\* No two pairs of a run share a leg: of two with the same debit, each would
\* have to be the closer one, or the one of the smaller id, and likewise for
\* the same credit; and no row is both a debit and a credit.
LEMMA MutualIsOneToOne ==
    ASSUME TypeOK, NEW p \in mutual, NEW q \in mutual, p # q
    PROVE  {p[1], p[2]} \intersect {q[1], q[2]} = {}
<1> USE ConstantsAssumption
<1>1. p \in Txs \X Txs /\ q \in Txs \X Txs
  BY MatchedPairs
<1>2. /\ p \in sameUserPairs /\ q \in sameUserPairs
      /\ p \in best(1) /\ q \in best(1) /\ p \in best(2) /\ q \in best(2)
  BY DEF mutual, best
<1>3. delta(p) \in Nat /\ delta(q) \in Nat
  BY <1>1, PostingDays, DistanceNat DEF delta
<1>4. p[1] \in Nat /\ p[2] \in Nat /\ q[1] \in Nat /\ q[2] \in Nat
  BY <1>1
<1>5. p[1] # q[1]
  <2>1. q[1] = p[1] => /\ delta(p) < delta(q) \/ (delta(p) = delta(q) /\ p[2] < q[2])
                       /\ delta(q) < delta(p) \/ (delta(q) = delta(p) /\ q[2] < p[2])
    BY <1>2 DEF best
  <2>2. QED
    BY <1>3, <1>4, <2>1
<1>6. p[2] # q[2]
  <2>1. q[2] = p[2] => /\ delta(p) < delta(q) \/ (delta(p) = delta(q) /\ p[1] < q[1])
                       /\ delta(q) < delta(p) \/ (delta(q) = delta(p) /\ q[1] < p[1])
    BY <1>2 DEF best
  <2>2. QED
    BY <1>3, <1>4, <2>1
<1>7. p[1] # q[2] /\ p[2] # q[1]
  BY MatchedPairs DEF Plausible
<1>8. QED
  BY <1>5, <1>6, <1>7

-----------------------------------------------------------------------------
\* What a run holds between matching and writing: its legs are free unless
\* another transfer run has overtaken it.
FreshLegsAreFree ==
    \A r \in Runs :
        run[r].pc = "matched" /\ ~run[r].overtaken =>
            legs(run[r].pairs) \intersect transfer = {} /\ run[r].rows \intersect transfer = {}

IInv == TypeOK /\ RunsAreOneToOne /\ PairsArePossible /\ MutualUnlessOvertaken /\ FreshLegsAreFree

\* The empty tables satisfy IInv.
LEMMA InitIInv == Init => IInv
<1> SUFFICES ASSUME Init PROVE IInv
  OBVIOUS
<1>1. posting \in [Txs -> Posting] /\ card \in [Cards -> Card]
  <2>1. NoRow \in Posting /\ NoRow \in Card
    BY DEF Posting, Card
  <2>2. QED
    BY <2>1 DEF Init
<1>2. IdleRun \in RunRecord
  BY DEF IdleRun, RunRecord
<1>3. TypeOK
  <2>1. pair \in [Txs -> Txs \union {None}] /\ \A t \in Txs : t \in transfer <=> pair[t] # None
    BY DEF Init
  <2>2. run \in [Runs -> RunRecord]
    BY <1>2 DEF Init
  <2>3. corrected \in 0..Corrections
    BY ConstantsAssumption DEF Init
  <2>4. QED
    BY <1>1, <2>1, <2>2, <2>3 DEF Init, TypeOK
<1>4. RunsAreOneToOne
  BY DEF Init, RunsAreOneToOne, Runs, IdleRun
<1>5. FreshLegsAreFree
  BY DEF Init, FreshLegsAreFree
<1>6. QED
  BY <1>3, <1>4, <1>5 DEF Init, IInv, PairsArePossible, MutualUnlessOvertaken

-----------------------------------------------------------------------------
(* Preservation, action by action *)

\* The sync worker and the DELETE route leave the flags and the runs alone.
LEMMA TablesKeepIInv ==
    ASSUME IInv,
           \/ \E t \in Txs : UpsertTransaction(t)
           \/ \E c \in Cards : UpsertCard(c) \/ CloseCard(c)
    PROVE  IInv'
<1>1. UNCHANGED <<transfer, pair, payment, run, audited, lost, broken>>
  BY DEF UpsertTransaction, UpsertCard, CloseCard, keepFlags, flags, history
<1>2. corrected' \in 0..Corrections
  BY ConstantsAssumption DEF IInv, TypeOK, UpsertTransaction, UpsertCard, CloseCard
<1>3. posting' \in [Txs -> Posting]
  <2>1. CASE \E t \in Txs : UpsertTransaction(t)
    BY <2>1 DEF IInv, TypeOK, Posting, UpsertTransaction
  <2>2. CASE \E c \in Cards : UpsertCard(c) \/ CloseCard(c)
    BY <2>2 DEF IInv, TypeOK, UpsertCard, CloseCard
  <2>3. QED
    BY <2>1, <2>2
<1>4. card' \in [Cards -> Card]
  <2>1. CASE \E t \in Txs : UpsertTransaction(t)
    BY <2>1 DEF IInv, TypeOK, UpsertTransaction
  <2>2. ASSUME NEW c \in Cards, UpsertCard(c)
        PROVE  card' \in [Cards -> Card]
    <3>1. PICK balance \in Amounts, anchor \in Days :
              card' = [card EXCEPT ![c] =
                          [amount |-> balance, day |-> anchor,
                           status |-> IF @ = NoRow THEN "ACTIVE" ELSE @.status]]
      BY <2>2 DEF UpsertCard
    <3>2. card[c] # NoRow => card[c].status \in {"ACTIVE", "DELETED"}
      BY DEF IInv, TypeOK, Card
    <3>3. QED
      BY <3>1, <3>2 DEF IInv, TypeOK, Card
  <2>3. ASSUME NEW c \in Cards, CloseCard(c)
        PROVE  card' \in [Cards -> Card]
    <3>1. card[c] \in [amount: Amounts, day: Days, status: {"ACTIVE", "DELETED"}]
      BY <2>3 DEF CloseCard, IInv, TypeOK, Card, NoRow
    <3>2. QED
      BY <2>3, <3>1 DEF CloseCard, IInv, TypeOK, Card
  <2>4. QED
    BY <2>1, <2>2, <2>3
<1>5. QED
  BY <1>1, <1>2, <1>3, <1>4
     DEF IInv, TypeOK, RunsAreOneToOne, PairsArePossible, MutualUnlessOvertaken,
         FreshLegsAreFree

\* A run holds what it matched: free legs, no two pairs with a common one.
LEMMA MatchTransfersKeepsIInv ==
    ASSUME IInv, NEW r \in TransferRuns, MatchTransfers(r)
    PROVE  IInv'
<1>1. UNCHANGED <<posting, card, corrected, transfer, pair, payment, audited, lost, broken>>
  BY DEF MatchTransfers, tables, flags, history
<1>2. run' = [run EXCEPT ![r] = [pc |-> "matched", pairs |-> mutual, rows |-> {},
                                 overtaken |-> FALSE]]
  BY DEF MatchTransfers, MatchedRun
<1>3. mutual \subseteq Txs \X Txs /\ r \in Runs
  BY MatchedPairs DEF IInv, Runs
<1>4. TypeOK'
  BY <1>1, <1>2, <1>3 DEF IInv, TypeOK, RunRecord
<1>5. RunsAreOneToOne'
  <2>1. \A p, q \in mutual : /\ Plausible(p[1], p[2])
                             /\ p # q => {p[1], p[2]} \intersect {q[1], q[2]} = {}
    BY MatchedPairs, MutualIsOneToOne DEF IInv
  <2>2. SUFFICES ASSUME NEW s \in TransferRuns, NEW p \in run'[s].pairs, NEW q \in run'[s].pairs
                 PROVE  /\ Plausible(p[1], p[2])
                        /\ p # q => {p[1], p[2]} \intersect {q[1], q[2]} = {}
    BY DEF RunsAreOneToOne, Plausible
  <2>3. s \in Runs /\ run \in [Runs -> RunRecord]
    BY DEF Runs, IInv, TypeOK
  <2>4. CASE s = r
    BY <1>2, <2>1, <2>3, <2>4
  <2>5. CASE s # r
    BY <1>2, <2>3, <2>5 DEF IInv, RunsAreOneToOne
  <2>6. QED
    BY <2>4, <2>5
<1>6. FreshLegsAreFree'
  <2>1. legs(mutual) \intersect transfer = {}
    BY MatchedPairs DEF legs, IInv
  <2>2. QED
    BY <1>1, <1>2, <1>3, <2>1 DEF IInv, TypeOK, FreshLegsAreFree
<1>7. QED
  BY <1>1, <1>4, <1>5, <1>6 DEF IInv, PairsArePossible, MutualUnlessOvertaken

\* A fatura run matches rows that are not transfers.
LEMMA MatchPaymentsKeepsIInv ==
    ASSUME IInv, NEW r \in FaturaRuns, MatchPayments(r)
    PROVE  IInv'
<1>1. UNCHANGED <<posting, card, corrected, transfer, pair, payment, audited, lost, broken>>
  BY DEF MatchPayments, tables, flags, history
<1>2. run' = [run EXCEPT ![r] = [pc |-> "matched", pairs |-> {}, rows |-> unambiguous,
                                 overtaken |-> FALSE]]
  BY DEF MatchPayments, MatchedRun
<1>3. unambiguous \subseteq Txs \ transfer /\ r \in Runs /\ r \notin TransferRuns
  BY ConstantsAssumption DEF unambiguous, unambiguousAmong, Runs
<1>4. TypeOK'
  BY <1>1, <1>2, <1>3 DEF IInv, TypeOK, RunRecord
<1>5. \A s \in TransferRuns : run'[s] = run[s]
  BY <1>2, <1>3 DEF IInv, TypeOK, Runs
<1>6. FreshLegsAreFree'
  BY <1>1, <1>2, <1>3 DEF IInv, TypeOK, FreshLegsAreFree, legs
<1>7. QED
  BY <1>1, <1>4, <1>5, <1>6
     DEF IInv, RunsAreOneToOne, PairsArePossible, MutualUnlessOvertaken

\* A fatura run flags rows and touches no pair.
LEMMA UpdatePaymentsKeepsIInv ==
    ASSUME IInv, NEW r \in FaturaRuns, UpdatePayments(r)
    PROVE  IInv'
<1>1. UNCHANGED <<posting, card, corrected, transfer, pair, audited, lost, broken>>
  BY DEF UpdatePayments, tables, history
<1>2. r \in Runs /\ r \notin TransferRuns /\ run[r] \in RunRecord
  BY ConstantsAssumption DEF Runs, IInv, TypeOK
<1>3. /\ afterUpdate(r, run[r].rows) \in RunRecord
      /\ afterUpdate(r, run[r].rows).pc # "matched"
  BY <1>2 DEF afterUpdate, RunRecord, IdleRun
<1>4. /\ payment' = payment \union run[r].rows
      /\ run' = [run EXCEPT ![r] = afterUpdate(r, run[r].rows)]
  BY DEF UpdatePayments
<1>5. TypeOK'
  BY <1>1, <1>2, <1>3, <1>4 DEF IInv, TypeOK, RunRecord
<1>6. \A s \in Runs : s # r => run'[s] = run[s]
  BY <1>4 DEF IInv, TypeOK
<1>7. run'[r].pc # "matched"
  BY <1>2, <1>3, <1>4 DEF IInv, TypeOK
<1>8. FreshLegsAreFree'
  BY <1>1, <1>6, <1>7 DEF IInv, FreshLegsAreFree
<1>9. RunsAreOneToOne'
  BY <1>2, <1>6 DEF IInv, RunsAreOneToOne, Runs, Plausible
<1>10. QED
  BY <1>1, <1>5, <1>8, <1>9 DEF IInv, PairsArePossible, MutualUnlessOvertaken

\* The end of a run: it holds nothing any more.
LEMMA EndKeepsIInv ==
    ASSUME IInv, NEW r \in Runs, Audit(r) \/ Fail(r)
    PROVE  IInv'
<1>1. UNCHANGED <<posting, card, corrected, transfer, pair, payment, broken>>
  BY DEF Audit, Fail, tables, flags
<1>2. run' = [run EXCEPT ![r] = [pc |-> "idle", pairs |-> {}, rows |-> {},
                                 overtaken |-> FALSE]]
  BY DEF Audit, Fail, IdleRun
<1>3. counted(r) \subseteq {"transfer", "payment"} \X Txs
  BY DEF IInv, TypeOK, RunRecord, counted, kindOf
<1>4. TypeOK'
  <2>1. /\ audited' \subseteq {"transfer", "payment"} \X Txs
        /\ lost' \subseteq {"transfer", "payment"} \X Txs
    BY <1>3 DEF IInv, TypeOK, Audit, Fail
  <2>2. QED
    BY <1>1, <1>2, <2>1 DEF IInv, TypeOK, RunRecord
<1>5. FreshLegsAreFree' /\ RunsAreOneToOne'
  BY <1>1, <1>2 DEF IInv, TypeOK, FreshLegsAreFree, RunsAreOneToOne, Runs, Plausible
<1>6. QED
  BY <1>1, <1>4, <1>5 DEF IInv, PairsArePossible, MutualUnlessOvertaken

\* What the UPDATE of a transfer run does to the pairs: a row of its pairs is
\* now with the other leg, the rest is as it was.
LEMMA WrittenPairs ==
    ASSUME IInv, NEW r \in TransferRuns, UpdateTransfers(r)
    PROVE  /\ \A t \in Txs \ legs(run[r].pairs) : pair'[t] = pair[t]
           /\ \A t \in legs(run[r].pairs) :
                  \E p \in run[r].pairs : \/ t = p[1] /\ pair'[t] = p[2]
                                          \/ t = p[2] /\ pair'[t] = p[1]
           /\ run[r].pairs \subseteq Txs \X Txs
           /\ legs(run[r].pairs) \subseteq Txs
<1>1. r \in Runs /\ run[r].pairs \subseteq Txs \X Txs
  BY DEF Runs, IInv, TypeOK, RunRecord
<1>2. pair' = [t \in Txs |->
                  IF \E p \in run[r].pairs : t \in {p[1], p[2]}
                  THEN LET p == CHOOSE p \in run[r].pairs : t \in {p[1], p[2]}
                       IN IF t = p[1] THEN p[2] ELSE p[1]
                  ELSE pair[t]]
  BY DEF UpdateTransfers
<1>3. legs(run[r].pairs) \subseteq Txs
  BY <1>1 DEF legs
<1>4. \A t \in Txs \ legs(run[r].pairs) : pair'[t] = pair[t]
  BY <1>2 DEF legs
<1>5. ASSUME NEW t \in legs(run[r].pairs)
      PROVE  \E p \in run[r].pairs : \/ t = p[1] /\ pair'[t] = p[2]
                                     \/ t = p[2] /\ pair'[t] = p[1]
  <2> DEFINE p == CHOOSE p \in run[r].pairs : t \in {p[1], p[2]}
  <2>1. \E q \in run[r].pairs : t \in {q[1], q[2]}
    BY DEF legs
  <2>2. p \in run[r].pairs /\ t \in {p[1], p[2]}
    BY <2>1
  <2>3. pair'[t] = IF t = p[1] THEN p[2] ELSE p[1]
    BY <1>2, <1>3, <2>1
  <2> HIDE DEF p
  <2>4. QED
    BY <2>2, <2>3
<1>6. QED
  BY <1>1, <1>3, <1>4, <1>5

\* No run matched before this UPDATE still passes for fresh, unless the UPDATE
\* had nothing to write.
LEMMA OvertakenRuns ==
    ASSUME IInv, NEW r \in TransferRuns, UpdateTransfers(r)
    PROVE  /\ run' \in [Runs -> RunRecord]
           /\ run'[r].pc # "matched" /\ run'[r].pairs \in {{}, run[r].pairs}
           /\ \A s \in Runs \ {r} :
                  /\ run'[s].pc = run[s].pc /\ run'[s].pairs = run[s].pairs
                  /\ run'[s].rows = run[s].rows
                  /\ run[s].overtaken => run'[s].overtaken
                  /\ run[s].pc = "matched" /\ run[r].pairs # {} => run'[s].overtaken
<1>1. run' = [s \in Runs |->
                 IF s = r THEN afterUpdate(r, legs(run[r].pairs))
                 ELSE IF run[s].pc = "matched" /\ run[r].pairs # {}
                      THEN [run[s] EXCEPT !.overtaken = TRUE]
                 ELSE run[s]]
  BY DEF UpdateTransfers, overtake
<1>2. r \in Runs /\ \A s \in Runs : run[s] \in RunRecord
  BY DEF Runs, IInv, TypeOK
<1>3. legs(run[r].pairs) \subseteq Txs
  BY WrittenPairs
<1>4. /\ afterUpdate(r, legs(run[r].pairs)) \in RunRecord
      /\ afterUpdate(r, legs(run[r].pairs)).pc # "matched"
      /\ afterUpdate(r, legs(run[r].pairs)).pairs \in {{}, run[r].pairs}
  BY <1>2, <1>3 DEF afterUpdate, RunRecord, IdleRun
<1>5. ASSUME NEW s \in Runs \ {r}
      PROVE  /\ run'[s] \in RunRecord
             /\ run'[s].pc = run[s].pc /\ run'[s].pairs = run[s].pairs
             /\ run'[s].rows = run[s].rows
             /\ run[s].overtaken => run'[s].overtaken
             /\ run[s].pc = "matched" /\ run[r].pairs # {} => run'[s].overtaken
  BY <1>1, <1>2 DEF RunRecord
<1>6. QED
  BY <1>1, <1>2, <1>4, <1>5

\* The UPDATE of a transfer run.  A leg it writes is free unless the run was
\* overtaken, so no old partner is left behind; and its pairs have no common
\* leg, so what a pair's two rows are told agrees.
LEMMA UpdateTransfersKeepsIInv ==
    ASSUME IInv, NEW r \in TransferRuns, UpdateTransfers(r)
    PROVE  IInv'
<1> DEFINE L == legs(run[r].pairs)
<1>1. UNCHANGED <<posting, card, corrected, payment, audited, lost>>
  BY DEF UpdateTransfers, tables
<1>2. transfer' = transfer \union L
  BY DEF UpdateTransfers
<1>3. r \in Runs /\ L \subseteq Txs /\ run[r].pairs \subseteq Txs \X Txs
  BY WrittenPairs DEF Runs
<1>4. \A t \in L : \E p \in run[r].pairs : \/ t = p[1] /\ pair'[t] = p[2]
                                           \/ t = p[2] /\ pair'[t] = p[1]
  BY WrittenPairs
<1>5. \A t \in Txs \ L : pair'[t] = pair[t]
  BY WrittenPairs
<1>6. \A p \in run[r].pairs : p[1] \in L /\ p[2] \in L /\ Plausible(p[1], p[2])
  BY DEF legs, IInv, RunsAreOneToOne
<1>7. pair' = [t \in Txs |-> pair'[t]]
  BY DEF UpdateTransfers
<1> HIDE DEF L
<1>8. TypeOK'
  <2>1. \A t \in L : pair'[t] \in Txs
    BY <1>3, <1>4
  <2>2. pair' \in [Txs -> Txs \union {None}]
    BY <1>5, <1>7, <2>1 DEF IInv, TypeOK
  <2>3. \A t \in Txs : t \in transfer' <=> pair'[t] # None
    BY ConstantsAssumption, <1>2, <1>5, <2>1 DEF IInv, TypeOK
  <2>4. broken' \in BOOLEAN
    BY <1>3 DEF UpdateTransfers, IInv, TypeOK, RunRecord
  <2>5. run' \in [Runs -> RunRecord]
    BY OvertakenRuns
  <2>6. QED
    BY <1>1, <1>2, <1>3, <2>2, <2>3, <2>4, <2>5 DEF IInv, TypeOK
<1>9. RunsAreOneToOne'
  <2>1. \A s \in TransferRuns : run'[s].pairs \in {{}, run[s].pairs}
    BY OvertakenRuns DEF Runs
  <2>2. QED
    BY <2>1 DEF IInv, RunsAreOneToOne, Plausible
<1>10. PairsArePossible'
  <2>1. ASSUME NEW t \in L
        PROVE  /\ pair'[t] \in transfer'
               /\ Plausible(t, pair'[t]) \/ Plausible(pair'[t], t)
    BY <1>2, <1>4, <1>6
  <2>2. ASSUME NEW t \in transfer \ L
        PROVE  /\ pair'[t] \in transfer'
               /\ Plausible(t, pair'[t]) \/ Plausible(pair'[t], t)
    BY <1>2, <1>5 DEF IInv, TypeOK, PairsArePossible
  <2>3. QED
    BY <1>2, <2>1, <2>2 DEF PairsArePossible, Plausible
<1>11. MutualUnlessOvertaken'
  <2>1. SUFFICES ASSUME ~broken', NEW t \in transfer'
                 PROVE  pair'[pair'[t]] = t
    BY DEF MutualUnlessOvertaken
  <2>2. ~broken /\ (run[r].overtaken => run[r].pairs = {})
    BY <2>1 DEF UpdateTransfers
  <2>3. L \intersect transfer = {}
    <3>1. run[r].pairs = {} => L = {}
      BY DEF L, legs
    <3>2. run[r].pc = "matched"
      BY DEF UpdateTransfers
    <3>3. QED
      BY <1>3, <2>2, <3>1, <3>2 DEF IInv, FreshLegsAreFree, L
  <2>4. CASE t \in L
    <3>1. PICK p \in run[r].pairs : \/ t = p[1] /\ pair'[t] = p[2]
                                    \/ t = p[2] /\ pair'[t] = p[1]
      BY <1>4, <2>4
    <3>2. PICK q \in run[r].pairs :
              \/ pair'[t] = q[1] /\ pair'[pair'[t]] = q[2]
              \/ pair'[t] = q[2] /\ pair'[pair'[t]] = q[1]
      BY <1>4, <1>6, <3>1
    <3>3. p = q
      BY <3>1, <3>2 DEF IInv, RunsAreOneToOne
    <3>4. p[1] # p[2]
      BY <1>6 DEF Plausible
    <3>5. QED
      BY <3>1, <3>2, <3>3, <3>4
  <2>5. CASE t \in transfer \ L
    <3>1. pair[t] \in transfer /\ pair[pair[t]] = t
      BY <2>2, <2>5 DEF IInv, PairsArePossible, MutualUnlessOvertaken
    <3>2. pair'[t] = pair[t] /\ pair'[pair[t]] = pair[pair[t]]
      BY <1>5, <2>3, <2>5, <3>1 DEF IInv, TypeOK
    <3>3. QED
      BY <3>1, <3>2
  <2>6. QED
    BY <1>2, <2>1, <2>4, <2>5
<1>12. FreshLegsAreFree'
  <2>1. SUFFICES ASSUME NEW s \in Runs, run'[s].pc = "matched", ~run'[s].overtaken
                 PROVE  /\ legs(run'[s].pairs) \intersect transfer' = {}
                        /\ run'[s].rows \intersect transfer' = {}
    BY DEF FreshLegsAreFree, legs
  <2>2. s # r /\ run[r].pairs = {}
    BY <2>1, OvertakenRuns
  <2>3. transfer' = transfer
    BY <1>2, <2>2 DEF L, legs
  <2>4. /\ run[s].pc = "matched" /\ ~run[s].overtaken
        /\ run'[s].pairs = run[s].pairs /\ run'[s].rows = run[s].rows
    BY <2>1, <2>2, OvertakenRuns
  <2>5. QED
    BY <2>3, <2>4 DEF IInv, FreshLegsAreFree
<1>13. QED
  BY <1>8, <1>9, <1>10, <1>11, <1>12 DEF IInv

-----------------------------------------------------------------------------
\* IInv is inductive.
LEMMA NextIInv == IInv /\ [Next]_vars => IInv'
<1> SUFFICES ASSUME IInv, [Next]_vars PROVE IInv'
  OBVIOUS
<1>1. CASE UNCHANGED vars
  BY <1>1 DEF vars, tables, flags, history, IInv, TypeOK, RunsAreOneToOne,
              PairsArePossible, MutualUnlessOvertaken, FreshLegsAreFree
<1>2. CASE \/ \E t \in Txs : UpsertTransaction(t)
           \/ \E c \in Cards : UpsertCard(c) \/ CloseCard(c)
  BY <1>2, TablesKeepIInv
<1>3. CASE \E r \in TransferRuns : MatchTransfers(r) \/ UpdateTransfers(r)
  BY <1>3, MatchTransfersKeepsIInv, UpdateTransfersKeepsIInv
<1>4. CASE \E r \in FaturaRuns : MatchPayments(r) \/ UpdatePayments(r)
  BY <1>4, MatchPaymentsKeepsIInv, UpdatePaymentsKeepsIInv
<1>5. CASE \E r \in Runs : Audit(r) \/ Fail(r)
  BY <1>5, EndKeepsIInv
<1>6. QED
  BY <1>1, <1>2, <1>3, <1>4, <1>5 DEF Next

\* Every reachable state satisfies the inductive invariant.
THEOREM Inductive == Spec => []IInv
  BY InitIInv, NextIInv, PTL DEF Spec

\* TypeOK: a row has a transfer_pair_id if and only if it is a transfer.
THEOREM TypeCorrect == Spec => []TypeOK
<1>1. IInv => TypeOK
  BY DEF IInv
<1>2. QED
  BY <1>1, Inductive, PTL

\* RunsAreOneToOne: no run of transferDetectorWorker pairs a row twice.
THEOREM OneToOne == Spec => []RunsAreOneToOne
<1>1. IInv => RunsAreOneToOne
  BY DEF IInv
<1>2. QED
  BY <1>1, Inductive, PTL

\* PairsArePossible: a transfer's partner is a transfer, a debit for a credit
\* of another account.
THEOREM PairsPossible == Spec => []PairsArePossible
<1>1. IInv => PairsArePossible
  BY DEF IInv
<1>2. QED
  BY <1>1, Inductive, PTL

\* MutualUnlessOvertaken: while no overtaken run has written, partners name
\* each other.
THEOREM MutualPairs == Spec => []MutualUnlessOvertaken
<1>1. IInv => MutualUnlessOvertaken
  BY DEF IInv
<1>2. QED
  BY <1>1, Inductive, PTL

\* TransfersAreNoPayments: faturaDetectorWorker flags a transfer only from a
\* match older than the transfer's commit.
THEOREM NoPayments == Spec => TransfersAreNoPayments
<1>1. IInv /\ [Next]_vars =>
        [\A t \in transfer :
            t \in payment' \ payment => \E r \in FaturaRuns : t \in run[r].rows /\ run[r].overtaken]_vars
  <2> SUFFICES ASSUME IInv, Next, NEW t \in transfer, t \in payment' \ payment
               PROVE  \E r \in FaturaRuns : t \in run[r].rows /\ run[r].overtaken
    BY DEF vars
  <2>1. PICK r \in FaturaRuns : UpdatePayments(r)
    BY DEF Next, UpsertTransaction, UpsertCard, CloseCard, keepFlags, MatchTransfers,
           UpdateTransfers, MatchPayments, Audit, Fail, flags
  <2>2. t \in run[r].rows /\ run[r].pc = "matched" /\ r \in Runs
    BY <2>1 DEF UpdatePayments, Runs
  <2>3. run[r].overtaken
    BY <2>2 DEF IInv, FreshLegsAreFree
  <2>4. QED
    BY <2>2, <2>3
<1>2. QED
  BY <1>1, Inductive, PTL DEF Spec, TransfersAreNoPayments

-----------------------------------------------------------------------------
\* A step that flags no row keeps the explanation of every flagged one: what a
\* run has counted stays with it, or goes to audited or lost.
LEMMA StillExplained ==
    ASSUME TypeOK, UnauditedIsExplained,
           transfer' = transfer, payment' = payment,
           audited \subseteq audited', lost \subseteq lost',
           \A r \in Runs : run[r].pc = "updated" =>
               \/ run'[r].pc = "updated" /\ run'[r].rows = run[r].rows
               \/ counted(r) \subseteq audited' \union lost'
    PROVE  UnauditedIsExplained'
<1>1. SUFFICES ASSUME NEW f \in ({"transfer"} \X transfer) \union ({"payment"} \X payment)
               PROVE  \/ f \in audited' \/ f \in lost'
                      \/ \E r \in Runs : run'[r].pc = "updated" /\ f \in {kindOf(r)} \X run'[r].rows
  BY DEF UnauditedIsExplained, counted, kindOf
<1>2. f \in audited \/ f \in lost \/ \E r \in Runs : run[r].pc = "updated" /\ f \in counted(r)
  BY <1>1 DEF UnauditedIsExplained
<1>3. QED
  BY <1>2 DEF counted

\* Both UPDATEs leave a run that is to write the audit row of what it flagged,
\* and take from no other run what it is still to count.
LEMMA UpdatesKeepExplained ==
    ASSUME IInv, UnauditedIsExplained,
           \/ \E r \in TransferRuns : UpdateTransfers(r)
           \/ \E r \in FaturaRuns : UpdatePayments(r)
    PROVE  UnauditedIsExplained'
<1>1. PICK r \in Runs, rows \in SUBSET Txs :
          /\ run[r].pc = "matched"
          /\ run'[r] = afterUpdate(r, rows)
          /\ \A s \in Runs : s # r /\ run[s].pc = "updated" => run'[s] = run[s]
          /\ \/ kindOf(r) = "transfer" /\ transfer' = transfer \union rows /\ payment' = payment
             \/ kindOf(r) = "payment" /\ payment' = payment \union rows /\ transfer' = transfer
          /\ audited' = audited /\ lost' = lost
  <2>1. ASSUME NEW r \in TransferRuns, UpdateTransfers(r)
        PROVE  /\ r \in Runs /\ legs(run[r].pairs) \in SUBSET Txs
               /\ run[r].pc = "matched"
               /\ run'[r] = afterUpdate(r, legs(run[r].pairs))
               /\ \A s \in Runs : s # r /\ run[s].pc = "updated" => run'[s] = run[s]
               /\ kindOf(r) = "transfer" /\ payment' = payment
               /\ transfer' = transfer \union legs(run[r].pairs)
               /\ audited' = audited /\ lost' = lost
    BY <2>1, WrittenPairs DEF UpdateTransfers, overtake, Runs, kindOf
  <2>2. ASSUME NEW r \in FaturaRuns, UpdatePayments(r)
        PROVE  /\ r \in Runs /\ run[r].rows \in SUBSET Txs
               /\ run[r].pc = "matched"
               /\ run'[r] = afterUpdate(r, run[r].rows)
               /\ \A s \in Runs : s # r /\ run[s].pc = "updated" => run'[s] = run[s]
               /\ kindOf(r) = "payment" /\ payment' = payment \union run[r].rows
               /\ transfer' = transfer
               /\ audited' = audited /\ lost' = lost
    <3>1. r \in Runs /\ r \notin TransferRuns
      BY ConstantsAssumption DEF Runs
    <3>2. run[r].rows \in SUBSET Txs
      BY <3>1 DEF IInv, TypeOK, RunRecord
    <3>3. QED
      BY <2>2, <3>1, <3>2 DEF UpdatePayments, IInv, TypeOK, kindOf, history
  <2>3. QED
    BY <2>1, <2>2
<1>2. rows # {} => run'[r].pc = "updated" /\ run'[r].rows = rows
  BY <1>1 DEF afterUpdate, IInv, TypeOK, RunRecord
<1>3. SUFFICES ASSUME NEW f \in ({"transfer"} \X transfer') \union ({"payment"} \X payment')
               PROVE  \/ f \in audited \/ f \in lost
                      \/ \E s \in Runs : run'[s].pc = "updated" /\ f \in {kindOf(s)} \X run'[s].rows
  BY <1>1 DEF UnauditedIsExplained, counted, kindOf
<1>4. CASE f \in {kindOf(r)} \X rows
  BY <1>2, <1>4
<1>5. CASE f \in ({"transfer"} \X transfer) \union ({"payment"} \X payment)
  <2>1. f \in audited \/ f \in lost \/ \E s \in Runs : run[s].pc = "updated" /\ f \in counted(s)
    BY <1>5 DEF UnauditedIsExplained
  <2>2. QED
    BY <1>1, <2>1 DEF counted
<1>6. QED
  BY <1>1, <1>3, <1>4, <1>5

\* UnauditedIsExplained: a flagged row is in an audit row's count, or a run is
\* still to write that row, or failed before it could.
THEOREM UnauditedExplained == Spec => []UnauditedIsExplained
<1>1. Init => UnauditedIsExplained
  BY DEF Init, UnauditedIsExplained
<1>2. IInv /\ UnauditedIsExplained /\ [Next]_vars => UnauditedIsExplained'
  <2> SUFFICES ASSUME IInv, UnauditedIsExplained, [Next]_vars
               PROVE  UnauditedIsExplained'
    OBVIOUS
  <2>1. CASE \/ UNCHANGED vars
             \/ \E t \in Txs : UpsertTransaction(t)
             \/ \E c \in Cards : UpsertCard(c) \/ CloseCard(c)
    <3>1. UNCHANGED <<transfer, payment, run, audited, lost>>
      BY <2>1 DEF vars, flags, history, UpsertTransaction, UpsertCard, CloseCard, keepFlags
    <3>2. QED
      BY <3>1, StillExplained DEF IInv
  <2>2. CASE \/ \E r \in TransferRuns : UpdateTransfers(r)
             \/ \E r \in FaturaRuns : UpdatePayments(r)
    BY <2>2, UpdatesKeepExplained
  <2>3. ASSUME NEW r \in Runs, \/ r \in TransferRuns /\ MatchTransfers(r)
                               \/ r \in FaturaRuns /\ MatchPayments(r)
        PROVE  UnauditedIsExplained'
    <3>1. UNCHANGED <<transfer, payment, audited, lost>> /\ run[r].pc = "idle"
      BY <2>3 DEF MatchTransfers, MatchPayments, flags, history
    <3>2. \A s \in Runs : s # r => run'[s] = run[s]
      BY <2>3 DEF MatchTransfers, MatchPayments, IInv, TypeOK
    <3>3. QED
      BY <3>1, <3>2, StillExplained DEF IInv
  <2>4. ASSUME NEW r \in Runs, Audit(r) \/ Fail(r)
        PROVE  UnauditedIsExplained'
    <3>1. /\ UNCHANGED <<transfer, payment>>
          /\ audited \subseteq audited' /\ lost \subseteq lost'
          /\ run[r].pc = "updated" => counted(r) \subseteq audited' \union lost'
      BY <2>4 DEF Audit, Fail, flags
    <3>2. \A s \in Runs : s # r => run'[s] = run[s]
      BY <2>4 DEF Audit, Fail, IInv, TypeOK
    <3>3. QED
      BY <3>1, <3>2, StillExplained DEF IInv
  <2>5. QED
    BY <2>1, <2>2, <2>3, <2>4 DEF Next, Runs
<1>3. QED
  BY <1>1, <1>2, Inductive, PTL DEF Spec

\* What is unambiguous depends on the tables alone, and no row a run flags stays
\* a candidate: a second run over the same rows flags nothing.
THEOREM Settle == Spec => PaymentsSettle
<1>1. \A r \in FaturaRuns :
          UpdatePayments(r) /\ run[r].rows = unambiguous => unambiguous' = {}
  <2> SUFFICES ASSUME NEW r \in FaturaRuns, UpdatePayments(r), run[r].rows = unambiguous
               PROVE  unambiguous' = {}
    OBVIOUS
  <2>1. UNCHANGED <<posting, card, transfer>> /\ payment' = payment \union unambiguous
    BY DEF UpdatePayments, tables
  <2>2. \A t : matchingCards(t)' = matchingCards(t)
    BY <2>1 DEF matchingCards
  <2>3. \A t \in Txs \ (payment \union transfer) :
            t \in unambiguous' => t \in unambiguous
    BY <2>1, <2>2 DEF unambiguous, unambiguousAmong
  <2>4. \A t \in unambiguous' : t \in Txs /\ t \notin payment' /\ t \notin transfer'
    BY DEF unambiguous, unambiguousAmong
  <2>5. QED
    BY <2>1, <2>3, <2>4
<1>2. QED
  BY <1>1, PTL DEF PaymentsSettle, Spec

=============================================================================
