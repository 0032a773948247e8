---------------------------- MODULE MCPluggySync ----------------------------
(* Instances of PluggySync for TLC. *)
EXTENDS PluggySync, TLC

CONSTANTS i1, i2, u1, a1, a2, j1, j2, s1, s2

\* One item with one account.
OneItem == {i1}
OneOwner == [i \in OneItem |-> u1]
OneAccount == (a1 :> i1)
NoAccount == [a \in {} |-> i1]

\* Every item is a row of an earlier release, already synced once.
LegacyInit == Init /\ \A i \in Items : status[i] # "none"
LegacySpec == LegacyInit /\ [][Next]_vars
FairLegacySpec == LegacySpec /\ Fairness

\* Jobs are, and handlers are, interchangeable.
Symmetry == Permutations({j1, j2}) \union Permutations({s1, s2})

=============================================================================
