------------------------------ MODULE RateLimit ------------------------------
(***************************************************************************)
(* The counter of src/lib/rateLimit.ts for one identifier and bucket.      *)
(*                                                                         *)
(* A row of auth_rate_limits is an identifier, a bucket, a window start    *)
(* and a count.  Here the rows are the set of the hits they count, each    *)
(* with the window it was counted in: the INSERT .. ON CONFLICT DO UPDATE  *)
(* adds a hit, SUM(count) is a cardinality, DELETE empties the set.  Time  *)
(* is in ticks.                                                            *)
(***************************************************************************)
EXTENDS Naturals, FiniteSets

CONSTANT Window  \* window_ms, in ticks

ASSUME WindowAssumption == Window \in Nat \ {0}

\* The start of the fixed window an instant lies in.
floor_window(t) == t - (t % Window)

hit(id, t) == [id |-> id, window |-> floor_window(t)]

\* SUM over the rows whose window started no earlier than window_ms before the
\* instant at which the request read its clock.
counted(hits, at) == Cardinality({h \in hits : h.window + Window >= at})

allowed(hits, at, limit) == counted(hits, at) <= limit
=============================================================================
