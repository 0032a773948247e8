----------------------------- MODULE EventInbox -----------------------------
(***************************************************************************)
(* What a row of webhook_events does for its event, in both receivers      *)
(* (src/app/api/webhooks/pluggy and ses/bounces): the sender delivers it   *)
(* until it sees a 200, and UNIQUE (source, event_id) lets one delivery    *)
(* alone go on to the queues.  WebhookDispatch and DsrRequests are shown   *)
(* to implement this module.                                               *)
(*                                                                         *)
(* The row says that the event has arrived, not that it is in its queues:  *)
(* an event whose first request ends in between is lost, and no later      *)
(* delivery brings it back, although each is answered with a 200.          *)
(***************************************************************************)
CONSTANT Events

VARIABLES
    place,  \* new; stored, with its request at work; dispatched to its queues; or lost
    acked   \* events the sender has seen a 200 for

vars == <<place, acked>>

Init ==
    /\ place = [e \in Events |-> "new"]
    /\ acked = {}

moves(e, from, to) ==
    /\ place[e] = from
    /\ place' = [place EXCEPT ![e] = to]

Store(e) == moves(e, "new", "stored") /\ UNCHANGED acked

\* The last enqueue the event calls for, perhaps answered at once.
Dispatch(e) ==
    /\ moves(e, "stored", "dispatched")
    /\ acked' \in {acked, acked \union {e}}

Lose(e) == moves(e, "stored", "lost") /\ UNCHANGED acked

\* A duplicate is answered wherever the event is by then.
Acknowledge(e) ==
    /\ place[e] # "new"
    /\ acked' = acked \union {e}
    /\ UNCHANGED place

Next == \E e \in Events : Store(e) \/ Dispatch(e) \/ Lose(e) \/ Acknowledge(e)

Spec == Init /\ [][Next]_vars
=============================================================================
