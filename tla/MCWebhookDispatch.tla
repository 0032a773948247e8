------------------------- MODULE MCWebhookDispatch -------------------------
(* Instances of WebhookDispatch for TLC. *)
EXTENDS WebhookDispatch, TLC

CONSTANTS i1, e1, e2, e3, r1, r2, n1, n2, n3, g1, g2

OneItem == {i1}
AboutOneItem == [e \in Events |-> i1]

\* A login that succeeded and an error of one item.
LoginAndError == (e1 :> "login_succeeded") @@ (e2 :> "error")

\* Errors of one item.
ThreeErrors == (e1 :> "error") @@ (e2 :> "error") @@ (e3 :> "error")

\* Deliveries, and the handlers of a queue, are interchangeable.
Symmetry == Permutations({r1, r2}) \union Permutations({n1, n2, n3}) \union Permutations({g1, g2})

=============================================================================
