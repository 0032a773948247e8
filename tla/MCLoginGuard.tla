---------------------------- MODULE MCLoginGuard ----------------------------
EXTENDS LoginGuard, TLC

CONSTANTS t1, r1, r2, l1, l2

Symmetry == Permutations({r1, r2}) \union Permutations({l1, l2})
=============================================================================
