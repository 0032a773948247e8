---------------------------- MODULE ItemLifecycle ----------------------------
(***************************************************************************)
(* What the item-status policy of src/lib/pluggyItemStatus.ts promises, as *)
(* far as the code keeps it: the life of the status column of one          *)
(* pluggy_items row and of the sync handlers that have read the row and    *)
(* may still write it.  No queue, no webhook, no consent: those are the    *)
(* mechanism (PluggySync), which is shown to implement this module.        *)
(*                                                                         *)
(* The writes of a handler carry no condition on the status they replace,  *)
(* so DISCONNECTED is terminal only from the moment no handler holds the   *)
(* row: that is QuietDisconnectIsTerminal below.                           *)
(***************************************************************************)
CONSTANTS
    Items,     \* rows of pluggy_items
    Handlers   \* running invocations of the sync worker

VARIABLES
    status,    \* status[i]: the status column, "none" before the row exists
    holders    \* holders[i]: handlers that resolved row i and have not ended

vars == <<status, holders>>

\* The six values of item_status_enum.
ItemStatus == {"UPDATING", "LOGIN_ERROR", "OUTDATED", "WAITING_USER_INPUT",
               "UPDATED", "DISCONNECTED"}

SYNC_BLOCKED == {"UPDATING", "LOGIN_ERROR", "WAITING_USER_INPUT", "DISCONNECTED"}

Syncable == ItemStatus \ SYNC_BLOCKED

TypeOK ==
    /\ status \in [Items -> ItemStatus \union {"none"}]
    /\ holders \in [Items -> SUBSET Handlers]

Init ==
    /\ status \in [Items -> ItemStatus \union {"none"}]
    /\ holders = [i \in Items |-> {}]

\* A row is created in UPDATING, whatever becomes of the first sync.
Connect(i) ==
    /\ status[i] = "none"
    /\ status' = [status EXCEPT ![i] = "UPDATING"]
    /\ UNCHANGED holders

\* A handler may take hold of a row only while its status is syncable.
Acquire(i, h) ==
    /\ status[i] \in Syncable
    /\ holders' = [holders EXCEPT ![i] = @ \union {h}]
    /\ UNCHANGED status

\* A holder writes UPDATING or UPDATED over whatever the row says by then.
Write(i, h) ==
    /\ h \in holders[i]
    /\ \E new \in {"UPDATING", "UPDATED"} : status' = [status EXCEPT ![i] = new]
    /\ UNCHANGED holders

Release(i, h) ==
    /\ h \in holders[i]
    /\ holders' = [holders EXCEPT ![i] = @ \ {h}]
    /\ UNCHANGED status

Disconnect(i) ==
    /\ status[i] # "none"
    /\ status' = [status EXCEPT ![i] = "DISCONNECTED"]
    /\ UNCHANGED holders

Next ==
    \E i \in Items :
        \/ Connect(i)
        \/ Disconnect(i)
        \/ \E h \in Handlers : Acquire(i, h) \/ Write(i, h) \/ Release(i, h)

Spec == Init /\ [][Next]_vars

-----------------------------------------------------------------------------
\* A disconnected row no handler holds.
Quiet(i) == status[i] = "DISCONNECTED" /\ holders[i] = {}

\* Once a disconnected item has no sync in flight, nothing -- webhook, cron,
\* retry or user -- starts one on it or changes its status again.
QuietDisconnectIsTerminal ==
    [][\A i \in Items : Quiet(i) => Quiet(i)']_vars

=============================================================================
