------------------------------ MODULE Subscriber ------------------------------
(***************************************************************************)
(* The user who looks at the pages: users.subscription_tier, which each    *)
(* page reads when it is rendered and no step of theirs writes.            *)
(***************************************************************************)
CONSTANT None

VARIABLE tier

Tiers == {"free", "paid"}
=============================================================================
