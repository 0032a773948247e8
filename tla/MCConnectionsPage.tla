-------------------------- MODULE MCConnectionsPage --------------------------
(* Instances of ConnectionsPage for TLC. *)
EXTENDS ConnectionsPage, TLC

CONSTANTS i1, i2, t1, t2, r1, r2, j1, j2

Symmetry == Permutations({t1, t2}) \union Permutations({r1, r2})
              \union Permutations({j1, j2}) \union Permutations({i1, i2})
=============================================================================
