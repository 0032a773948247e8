---------------------------- MODULE MCDsrRequests ----------------------------
EXTENDS DsrRequests, TLC

CONSTANTS a1, a2, n1, n2, c1, r1, r2, w1, w2

\* One notice for two addresses, the user's last, and one that does not parse.
MCRecipients == (n1 :> <<a2, a1>>) @@ (n2 :> <<a1>>)
=============================================================================
