-------------------------- MODULE MCPasswordReset --------------------------
EXTENDS PasswordReset, TLC

CONSTANTS b1, b2, x1, x2, a1, q1, q2, f1, c1, c2, k1, k2

Symmetry == Permutations({b1, b2}) \union Permutations({x1, x2})
            \union Permutations({q1, q2}) \union Permutations({c1, c2})
            \union Permutations({k1, k2})
=============================================================================
