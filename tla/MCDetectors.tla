----------------------------- MODULE MCDetectors -----------------------------
(* Instances of Detectors for TLC. *)
EXTENDS Detectors, TLC

CONSTANTS checking, savings, k1, k2, r1, r2, f1, f2

Txs123 == 1..3

\* The debit of the checking account is 2, the credits of the savings account are 1 and 3.
OneDebit == (1 :> "CREDIT") @@ (2 :> "DEBIT") @@ (3 :> "CREDIT")
OneDebitAccounts == (1 :> savings) @@ (2 :> checking) @@ (3 :> savings)

\* The handlers of a queue, and the cards, are interchangeable.
Symmetry == Permutations({r1, r2}) \union Permutations({f1, f2}) \union Permutations({k1, k2})

=============================================================================
