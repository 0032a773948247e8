-------------------------- MODULE MCTransactionsPage --------------------------
(* Instances of TransactionsPage for TLC. *)
EXTENDS TransactionsPage, TLC

CONSTANTS x1, x2, x3, a1, a2

\* Two transactions of one account, one of another.
TwoAndOne == (x1 :> a1) @@ (x2 :> a1) @@ (x3 :> a2)

Symmetry == Permutations({x1, x2})
=============================================================================
