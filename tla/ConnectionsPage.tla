---------------------------- MODULE ConnectionsPage ----------------------------
(***************************************************************************)
(* The page /settings/connections: the cards with their button             *)
(* "Sincronizar agora", the dialog that disconnects an item, and behind    *)
(* the button POST /api/pluggy/items/:id/sync and the worker that stamps   *)
(* the row when the sync is over.                                          *)
(*                                                                         *)
(* The cooldown of thirty minutes is looked at twice: by the page when it  *)
(* is rendered, from last_synced_at, and by the route, from                *)
(* last_manual_sync_at.  A card never looks again; it only counts down.    *)
(*                                                                         *)
(* A tick is minutes: the worker reads the clock for its stamps and writes *)
(* them with the next statement, which is one step here.                   *)
(*                                                                         *)
(* Left out: balances and wording; "Reconectar", which no row asks for, as *)
(* no statement of the program writes LOGIN_ERROR or WAITING_USER_INPUT;   *)
(* leaving a page while its DELETE is under way; the audit row of the      *)
(* route and the retries of a job (PluggySync).                            *)
(***************************************************************************)
EXTENDS Subscriber, Naturals

CONSTANTS
    Items,
    Tabs,
    Requests, \* POSTs under way at one time (bound)
    Jobs,     \* sync jobs alive at one time (bound)
    Cooldown, \* COOLDOWN_MS, in ticks
    MaxTime   \* ticks of the clock (bound)

ASSUME PageAssumption ==
    /\ Cooldown \in Nat \ {0}
    /\ MaxTime \in Nat
    /\ None \notin Items

VARIABLES
    now,   \* the clock
    row,   \* pluggy_items: status, last_synced_at, last_manual_sync_at; 0: never
    tab,   \* what each tab shows
    req,   \* POST /api/pluggy/items/:id/sync under way
    job    \* pluggy.sync jobs

connectionsVars == <<tier, now, row, tab, req, job>>

-----------------------------------------------------------------------------
\* shown, disabled: cards, and those whose button counts down to until;
\* rendered: history, when the page was; dialog: paywall or disconnect, of target;
\* typed: the phrase is in its field; remove: DELETE of removed, asked for by the
\* dialog that is open if own.
NoPage ==
    [shown |-> {}, disabled |-> {}, until |-> [i \in Items |-> 0], rendered |-> 0,
     dialog |-> "none", target |-> None, typed |-> FALSE,
     remove |-> "no", removed |-> None, own |-> FALSE]

IdleRequest == [at |-> "idle", item |-> None, read |-> 0]

\* read: history, when the request behind a manual job looked at the cooldown.
FreeJob == [at |-> "free", item |-> None, trigger |-> "auto", read |-> 0]

\* A row is born UPDATING; those of an earlier release may be at rest.
ConnectionsInit ==
    /\ tier \in Tiers
    /\ now = Cooldown + 1
    /\ row \in [Items -> [status : {"UPDATED", "UPDATING"}, synced : {0}, manual : {0}]]
    /\ tab = [t \in Tabs |-> NoPage]
    /\ req = [r \in Requests |-> IdleRequest]
    /\ job = [j \in Jobs |-> FreeJob]

-----------------------------------------------------------------------------
(* The page *)

\* mutant: the page takes every item as rested
NeverSynced(i) == 0

\* cooldown_remaining_seconds, as the time it ends.
coolsUntil(i) == IF row[i].synced = 0 THEN 0 ELSE row[i].synced + Cooldown

render ==
    LET shown == {i \in Items : row[i].status # "DISCONNECTED"} IN
    [NoPage EXCEPT
       !.shown = shown,
       !.disabled = {i \in shown : now < coolsUntil(i)},
       !.until = [i \in Items |-> IF i \in shown /\ now < coolsUntil(i)
                                  THEN coolsUntil(i) ELSE 0],
       !.rendered = now]

OpenConnections(t) ==
    /\ tab[t].remove = "no"
    /\ tab' = [tab EXCEPT ![t] = render]
    /\ UNCHANGED <<tier, now, row, req, job>>

\* The interval of a card, which ticks no faster than the clock.
CountDown(t, i) ==
    /\ i \in tab[t].disabled
    /\ now >= tab[t].until[i]
    /\ tab' = [tab EXCEPT ![t].disabled = @ \ {i}, ![t].until[i] = 0]
    /\ UNCHANGED <<tier, now, row, req, job>>

\* An open dialog covers the cards.
mayClick(t, i) == i \in tab[t].shown /\ tab[t].dialog = "none"

isEnabled(t, i) == i \in tab[t].shown /\ i \notin tab[t].disabled

\* Nothing tells a card that its request is under way, so it may be clicked again.
SyncClick(t, i) ==
    /\ mayClick(t, i)
    /\ isEnabled(t, i)
    /\ IF tier = "free"
       THEN tab' = [tab EXCEPT ![t].dialog = "paywall"] /\ UNCHANGED req
       ELSE /\ \E r \in Requests :
                 /\ req[r].at = "idle"
                 /\ req' = [req EXCEPT ![r] = [at |-> "asked", item |-> i, read |-> 0]]
            /\ UNCHANGED tab
    /\ UNCHANGED <<tier, now, row, job>>

-----------------------------------------------------------------------------
(* Disconnecting *)

OpenModal(t, i) ==
    /\ mayClick(t, i)
    /\ tab' = [tab EXCEPT ![t].dialog = "disconnect", ![t].target = i]
    /\ UNCHANGED <<tier, now, row, req, job>>

TypePhrase(t) ==
    /\ tab[t].dialog = "disconnect"
    /\ ~tab[t].typed
    /\ tab' = [tab EXCEPT ![t].typed = TRUE]
    /\ UNCHANGED <<tier, now, row, req, job>>

\* Escape closes it too while the DELETE is under way; the field is emptied.
CloseDialog(t) ==
    /\ tab[t].dialog # "none"
    /\ tab' = [tab EXCEPT ![t].dialog = "none", ![t].target = None, ![t].own = FALSE,
                          ![t].typed = FALSE]
    /\ UNCHANGED <<tier, now, row, req, job>>

Confirm(t) ==
    /\ tab[t].dialog = "disconnect"
    /\ tab[t].typed
    /\ tab[t].remove = "no"
    /\ tab' = [tab EXCEPT ![t].remove = "sent", ![t].removed = tab[t].target,
                          ![t].own = TRUE]
    /\ UNCHANGED <<tier, now, row, req, job>>

Remove(t) ==
    /\ tab[t].remove = "sent"
    /\ row' = [row EXCEPT ![tab[t].removed].status = "DISCONNECTED"]
    /\ tab' = [tab EXCEPT ![t].remove = "done"]
    /\ UNCHANGED <<tier, now, req, job>>

\* The dialog, whichever is open by now, is closed and the page loaded anew.
RemoveAnswered(t) ==
    /\ tab[t].remove = "done"
    /\ tab' = [tab EXCEPT ![t] = render]
    /\ UNCHANGED <<tier, now, row, req, job>>

\* The dialog that asked, if it is still open, empties its field.
RemoveFails(t) ==
    /\ tab[t].remove # "no"
    /\ tab' = [tab EXCEPT
         ![t].remove = "no", ![t].removed = None, ![t].own = FALSE,
         ![t].typed = @ /\ ~tab[t].own]
    /\ UNCHANGED <<tier, now, row, req, job>>

-----------------------------------------------------------------------------
(* POST /api/pluggy/items/:id/sync *)

\* The anchor is the end of the last manual sync.
isCooling(i) == row[i].manual > 0 /\ now < row[i].manual + Cooldown

\* mutant: off by one at the end of the cooldown
EndsEarly(i) == now + 1 >= row[i].manual + Cooldown

isAccepted(i) == ~isCooling(i)

ReadRow(r) ==
    /\ req[r].at = "asked"
    /\ req' = [req EXCEPT ![r] = IF isAccepted(@.item)
                                 THEN [@ EXCEPT !.at = "accepted", !.read = now]
                                 ELSE IdleRequest]
    /\ UNCHANGED <<tier, now, row, tab, job>>

enqueue(i, trigger, read) ==
    \E j \in Jobs :
      /\ job[j].at = "free"
      /\ job' = [job EXCEPT ![j] = [at |-> "queued", item |-> i, trigger |-> trigger,
                                    read |-> read]]

\* 202, whatever the status of the row.
EnqueueManual(r) ==
    /\ req[r].at = "accepted"
    /\ enqueue(req[r].item, "manual", req[r].read)
    /\ req' = [req EXCEPT ![r] = IdleRequest]
    /\ UNCHANGED <<tier, now, row, tab>>

SyncFails(r) ==
    /\ req[r].at # "idle"
    /\ req' = [req EXCEPT ![r] = IdleRequest]
    /\ UNCHANGED <<tier, now, row, tab, job>>

-----------------------------------------------------------------------------
(* The worker *)

\* A webhook or the cron asks for a sync.
EnqueueAuto(i) ==
    /\ enqueue(i, "auto", 0)
    /\ UNCHANGED <<tier, now, row, tab, req>>

TakeJob(j) ==
    /\ job[j].at = "queued"
    /\ job' = [job EXCEPT ![j] = IF row[job[j].item].status = "UPDATED"
                                 THEN [@ EXCEPT !.at = "taken"] ELSE FreeJob]
    /\ UNCHANGED <<tier, now, row, tab, req>>

MarkUpdating(j) ==
    /\ job[j].at = "taken"
    /\ row' = [row EXCEPT ![job[j].item].status = "UPDATING"]
    /\ job' = [job EXCEPT ![j].at = "running"]
    /\ UNCHANGED <<tier, now, tab, req>>

EndSync(j) ==
    /\ job[j].at = "running"
    /\ row' = [row EXCEPT ![job[j].item] =
         [status |-> "UPDATED", synced |-> now,
          manual |-> IF job[j].trigger = "manual" THEN now ELSE @.manual]]
    /\ job' = [job EXCEPT ![j] = FreeJob]
    /\ UNCHANGED <<tier, now, tab, req>>

\* The row stays UPDATING, and nothing is stamped.
JobFails(j) ==
    /\ job[j].at \in {"taken", "running"}
    /\ job' = [job EXCEPT ![j] = FreeJob]
    /\ UNCHANGED <<tier, now, row, tab, req>>

Tick ==
    /\ now < MaxTime
    /\ now' = now + 1
    /\ UNCHANGED <<tier, row, tab, req, job>>

-----------------------------------------------------------------------------
ConnectionsNext ==
    \/ \E t \in Tabs :
         \/ OpenConnections(t) \/ TypePhrase(t) \/ CloseDialog(t) \/ Confirm(t)
         \/ Remove(t) \/ RemoveAnswered(t) \/ RemoveFails(t)
         \/ \E i \in Items : CountDown(t, i) \/ SyncClick(t, i) \/ OpenModal(t, i)
    \/ \E r \in Requests : ReadRow(r) \/ EnqueueManual(r) \/ SyncFails(r)
    \/ \E i \in Items : EnqueueAuto(i)
    \/ \E j \in Jobs : TakeJob(j) \/ MarkUpdating(j) \/ EndSync(j) \/ JobFails(j)
    \/ Tick

ConnectionsSpec == ConnectionsInit /\ [][ConnectionsNext]_connectionsVars
-----------------------------------------------------------------------------
\* Types of the variables.
ConnectionsTypeOK ==
    /\ tier \in Tiers
    /\ now \in Nat
    /\ row \in [Items -> [status : {"UPDATED", "UPDATING", "DISCONNECTED"},
                          synced : Nat, manual : Nat]]
    /\ tab \in [Tabs -> [shown : SUBSET Items, disabled : SUBSET Items,
                         until : [Items -> Nat], rendered : Nat,
                         dialog : {"none", "paywall", "disconnect"},
                         target : Items \union {None}, typed : BOOLEAN,
                         remove : {"no", "sent", "done"},
                         removed : Items \union {None}, own : BOOLEAN]]
    /\ req \in [Requests -> [at : {"idle", "asked", "accepted"},
                             item : Items \union {None}, read : Nat]]
    /\ job \in [Jobs -> [at : {"free", "queued", "taken", "running"},
                         item : Items \union {None}, trigger : {"auto", "manual"},
                         read : Nat]]

\* Though page and route use different columns, a button that can be clicked is
\* refused for the cooldown only if a manual sync ended after its page was rendered:
\* every sync that stamps the one column stamps the other (page.tsx, sync/route.ts).
EnabledIsHonest ==
    \A t \in Tabs, i \in Items :
      isEnabled(t, i) /\ isCooling(i) => row[i].manual >= tab[t].rendered

\* Two manual syncs of an item end within one cooldown only if the request for the
\* second looked at the row before the first had stamped it (sync/route.ts, D-28):
\* what is accepted or queued while the item cools was read earlier.
CooldownIsRaced ==
    /\ \A j \in Jobs :
         job[j].at # "free" /\ job[j].trigger = "manual" /\ isCooling(job[j].item) =>
           job[j].read <= row[job[j].item].manual
    /\ \A r \in Requests :
         req[r].at = "accepted" /\ isCooling(req[r].item) =>
           req[r].read <= row[req[r].item].manual
=============================================================================
