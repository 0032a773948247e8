---------------------------- MODULE MCConnectFlow ----------------------------
EXTENDS ConnectFlow, TLC

CONSTANTS t1, t2, gone, i1, i2, c1, c2

Symmetry == Permutations({t1, t2}) \union Permutations({i1, i2})
=============================================================================
