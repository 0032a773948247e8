------------------------ MODULE WebhookDispatchProofs ------------------------
(***************************************************************************)
(* The receiver's idempotence and the workers' bounds, for any number of   *)
(* events, redeliveries, requests, executions, crashes and retries: an     *)
(* event makes at most one job per queue and is lost only with its first   *)
(* request; an item gets only so many e-mails and an event only so many    *)
(* audit rows; a stamped item at rest stays silent.                        *)
(*                                                                         *)
(* DispatchInv says which request owns the dispatch of an event and what   *)
(* it has sent.  JobInv says which handler holds a job.  The bounds count  *)
(* handlers: PoolInv those that occupy a queue and those given up, RowsInv *)
(* and EmailInv what was done together with what is still to come.         *)
(* OwnerMoves is the step from ownership to EventInbox.                    *)
(***************************************************************************)
EXTENDS WebhookDispatch, FiniteSetTheorems, TLAPS

Owns(r) == req[r].pc \in {"stored", "dispatched"}

ReceiverTypeOK ==
    /\ stored \subseteq Events
    /\ req \in [Requests -> [pc: {"idle", "received", "stored", "dispatched", "answering"},
                             event: Events \union {None}]]
    /\ \A r \in Requests : req[r].pc # "idle" => req[r].event \in Events
    /\ sends \in [Queue -> [Events -> Nat]]

DispatchInv ==
    /\ \A e \in Events \ stored : \A q \in Queue : sends[q][e] = 0
    /\ \A r \in Requests :
           /\ Owns(r) => req[r].event \in stored
           /\ req[r].pc = "stored" => \A q \in Queue : sends[q][req[r].event] = 0
           /\ req[r].pc = "dispatched" =>
                  /\ sends["reauthAudit"][req[r].event] = 0
                  /\ \A q \in queuesOf(req[r].event) \ {"reauthAudit"} :
                         sends[q][req[r].event] > 0
    /\ \A r, s \in Requests :
           Owns(r) /\ Owns(s) /\ req[r].event = req[s].event => r = s
    /\ DispatchedOnce
    /\ UndispatchedIsExplained

IInv == ReceiverTypeOK /\ DispatchInv

\* The queues of an event: one for the first enqueue, and the audit queue only
\* for item/login_succeeded.
LEMMA QueuesOf ==
    ASSUME NEW e \in Events
    PROVE  /\ queuesOf(e) \subseteq Queue
           /\ "reauthAudit" \in queuesOf(e) => Kind[e] = "login_succeeded"
           /\ \A p, q \in queuesOf(e) \ {"reauthAudit"} : p = q
  BY ConstantsAssumption DEF queuesOf, Queue

\* Before the first delivery nothing is stored, sent or under way.
LEMMA InitIInv == Init => IInv
<1> SUFFICES ASSUME Init PROVE IInv
  OBVIOUS
<1>1. sends \in [Queue -> [Events -> Nat]] /\ \A q \in Queue, e \in Events : sends[q][e] = 0
  BY DEF Init
<1>2. ReceiverTypeOK
  BY <1>1 DEF Init, ReceiverTypeOK, IdleRequest
<1>3. DispatchInv
  BY <1>1 DEF Init, DispatchInv, Owns, IdleRequest, DispatchedOnce, UndispatchedIsExplained
<1>4. QED
  BY <1>2, <1>3 DEF IInv

\* Steps of the workers and of rows touch nothing the receiver depends on.
LEMMA ReceiverFrame ==
    ASSUME IInv, UNCHANGED <<stored, req, sends, orphaned>>
    PROVE  IInv'
  BY DEF IInv, ReceiverTypeOK, DispatchInv, Owns, DispatchedOnce, UndispatchedIsExplained,
         Dispatching

\* Next without its grouping.
LEMMA NextCases ==
    ASSUME Next
    PROVE  \/ \E r \in Requests :
                \/ InsertEvent(r) \/ Dispatch(r) \/ DispatchReauthAudit(r) \/ Answer(r)
                \/ RequestDies(r) \/ \E e \in Events : Deliver(r, e)
           \/ UNCHANGED <<stored, acked, req, sends, orphaned>>
<1> USE DEF inbox
<1>1. ASSUME NEW e \in Events, NotifyTake(e) \/ AuditTake(e)
      PROVE  UNCHANGED <<stored, acked, req, sends, orphaned>>
  BY <1>1 DEF NotifyTake, AuditTake, NotifyStart, NotifySkip, AuditStart, AuditSkip
<1>2. ASSUME NEW h \in Handlers, Advance(h) \/ AttemptFails(h) \/ Expire(h)
      PROVE  UNCHANGED <<stored, acked, req, sends, orphaned>>
  BY <1>2 DEF Advance, SendEmail, Stamp, NotifyEnd, AuditInsert, AuditEnd, AttemptFails, Expire
<1>3. ASSUME NEW i \in Items, RowInserted(i)
      PROVE  UNCHANGED <<stored, acked, req, sends, orphaned>>
  BY <1>3 DEF RowInserted
<1>4. QED
  BY <1>1, <1>2, <1>3 DEF Next, Handle

\* What a send does to the counters.
LEMMA EnqueueSends ==
    ASSUME ReceiverTypeOK, NEW q \in Queue, NEW e \in Events, enqueue(q, e)
    PROVE  /\ sends' \in [Queue -> [Events -> Nat]]
           /\ \A p \in Queue, d \in Events :
                  sends'[p][d] = IF p = q /\ d = e THEN sends[p][d] + 1 ELSE sends[p][d]
  BY DEF ReceiverTypeOK, enqueue

\* Storing the event makes this request the owner of its dispatch; a
\* duplicate owns nothing.
LEMMA InsertPreserves ==
    ASSUME IInv, NEW r \in Requests, InsertEvent(r)
    PROVE  IInv'
<1> DEFINE e == req[r].event
<1>1. /\ e \in Events /\ req[r].pc = "received" /\ stored' = stored \union {e}
      /\ UNCHANGED <<sends, orphaned>>
  BY DEF IInv, ReceiverTypeOK, InsertEvent
<1>2. /\ req'[r].event = e
      /\ req'[r].pc = IF e \in stored THEN "answering" ELSE "stored"
      /\ \A s \in Requests \ {r} : req'[s] = req[s]
  BY DEF IInv, ReceiverTypeOK, InsertEvent, afterInsert
<1>3. ReceiverTypeOK'
  BY <1>1 DEF IInv, ReceiverTypeOK, InsertEvent, afterInsert
<1>4. \A s \in Requests : Owns(s)' => (s = r /\ e \notin stored) \/ (s # r /\ Owns(s))
  BY <1>2 DEF Owns
<1>5. \A d \in Events : Dispatching(d) => Dispatching(d)'
  BY <1>1, <1>2 DEF Dispatching
<1>6. \A d \in Events : d = e /\ d \notin stored => Dispatching(d)'
  BY <1>2 DEF Dispatching
<1>7. UndispatchedIsExplained'
  <2>1. ASSUME NEW d \in stored
        PROVE  (\A q \in queuesOf(d) : sends'[q][d] > 0) \/ Dispatching(d)' \/ d \in orphaned'
    BY <1>1, <1>5 DEF IInv, DispatchInv, UndispatchedIsExplained, ReceiverTypeOK
  <2>2. \A d \in stored' : d \in stored \/ Dispatching(d)'
    BY <1>1, <1>6
  <2>3. QED
    BY <2>1, <2>2 DEF UndispatchedIsExplained
<1>8. DispatchInv'
  BY <1>1, <1>2, <1>4, <1>7 DEF IInv, DispatchInv, Owns, DispatchedOnce, ReceiverTypeOK
<1>9. QED
  BY <1>3, <1>8 DEF IInv

\* The owner's first send; for all but item/login_succeeded also its last.
LEMMA DispatchPreserves ==
    ASSUME IInv, NEW r \in Requests, Dispatch(r)
    PROVE  IInv'
<1> DEFINE e == req[r].event
<1>1. e \in Events /\ req[r].pc = "stored" /\ Owns(r) /\ UNCHANGED <<stored, orphaned>>
  BY DEF IInv, ReceiverTypeOK, Dispatch, Owns
<1>2. /\ req'[r].event = e
      /\ req'[r].pc = IF Kind[e] = "login_succeeded" THEN "dispatched" ELSE "answering"
      /\ \A s \in Requests \ {r} : req'[s] = req[s]
  BY DEF IInv, ReceiverTypeOK, Dispatch, afterDispatch
<1>3. /\ sends' \in [Queue -> [Events -> Nat]]
      /\ \A d \in Events \ {e} : \A p \in Queue : sends'[p][d] = sends[p][d]
      /\ \A p \in Queue : sends'[p][e] =
             IF p \in queuesOf(e) \ {"reauthAudit"} THEN 1 ELSE 0
  <2>1. \A p \in Queue : sends[p][e] = 0
    BY <1>1 DEF IInv, DispatchInv
  <2>2. CASE queuesOf(e) \ {"reauthAudit"} = {}
    BY <1>1, <2>1, <2>2 DEF Dispatch, IInv, ReceiverTypeOK
  <2>3. ASSUME NEW q \in queuesOf(e) \ {"reauthAudit"}, enqueue(q, e)
        PROVE  <1>3!1 /\ <1>3!2 /\ <1>3!3
    BY <1>1, <2>1, <2>3, QueuesOf, EnqueueSends DEF IInv
  <2>4. QED
    BY <2>2, <2>3 DEF Dispatch
<1>4. ReceiverTypeOK'
  BY <1>1, <1>3 DEF IInv, ReceiverTypeOK, Dispatch, afterDispatch
<1>5. \A s \in Requests : Owns(s)' => Owns(s)
  BY <1>1, <1>2 DEF Owns
<1>6. \A s \in Requests \ {r} : Owns(s) => req[s].event # e
  BY <1>1 DEF IInv, DispatchInv
<1>7. \A d \in Events \ {e} : Dispatching(d) => Dispatching(d)'
  BY <1>1, <1>2 DEF Dispatching
<1>8. \A d \in Events : d = e =>
          (\A q \in queuesOf(d) : sends'[q][d] > 0) \/ Dispatching(d)'
  BY <1>1, <1>2, <1>3, QueuesOf DEF Dispatching
<1>9. UndispatchedIsExplained'
  <2>1. ASSUME NEW d \in stored, d # e
        PROVE  (\A q \in queuesOf(d) : sends'[q][d] > 0) \/ Dispatching(d)' \/ d \in orphaned'
    BY <1>1, <1>3, <1>7, <2>1, QueuesOf
       DEF IInv, DispatchInv, UndispatchedIsExplained, ReceiverTypeOK
  <2>2. \A d \in stored : (\A q \in queuesOf(d) : sends'[q][d] > 0)
                          \/ Dispatching(d)' \/ d \in orphaned'
    BY <1>1, <1>8, <2>1 DEF IInv, ReceiverTypeOK
  <2>3. stored' = stored
    BY <1>1
  <2>4. QED
    BY <2>2, <2>3 DEF UndispatchedIsExplained
<1>10. DispatchedOnce'
  BY <1>3 DEF IInv, DispatchInv, DispatchedOnce
<1>11. DispatchInv'
  BY <1>1, <1>2, <1>3, <1>5, <1>6, <1>9, <1>10, QueuesOf DEF IInv, DispatchInv, Owns, ReceiverTypeOK, Queue
<1>12. QED
  BY <1>4, <1>11 DEF IInv

\* The second send of item/login_succeeded.
LEMMA ReauthAuditPreserves ==
    ASSUME IInv, NEW r \in Requests, DispatchReauthAudit(r)
    PROVE  IInv'
<1> DEFINE e == req[r].event
<1>1. e \in Events /\ req[r].pc = "dispatched" /\ Owns(r) /\ UNCHANGED <<stored, orphaned>>
  BY DEF IInv, ReceiverTypeOK, DispatchReauthAudit, Owns
<1>2. /\ req'[r].pc = "answering"
      /\ \A s \in Requests \ {r} : req'[s] = req[s]
  BY DEF IInv, ReceiverTypeOK, DispatchReauthAudit
<1>3. /\ sends' \in [Queue -> [Events -> Nat]]
      /\ \A p \in Queue, d \in Events :
             sends'[p][d] = IF p = "reauthAudit" /\ d = e THEN sends[p][d] + 1 ELSE sends[p][d]
  BY <1>1, EnqueueSends DEF DispatchReauthAudit, IInv, Queue
<1>4. ReceiverTypeOK'
  BY <1>1, <1>3 DEF IInv, ReceiverTypeOK, DispatchReauthAudit
<1>5. \A s \in Requests : Owns(s)' => s # r /\ Owns(s)
  BY <1>2 DEF Owns
<1>6. \A s \in Requests \ {r} : Owns(s) => req[s].event # e
  BY <1>1 DEF IInv, DispatchInv
<1>7. \A d \in Events \ {e} : Dispatching(d) => Dispatching(d)'
  BY <1>1, <1>2 DEF Dispatching
<1>8. \A d \in Events : d = e => \A q \in queuesOf(d) : sends'[q][d] > 0
  <2>1. sends["reauthAudit"][e] = 0 /\ \A q \in queuesOf(e) \ {"reauthAudit"} : sends[q][e] > 0
    BY <1>1 DEF IInv, DispatchInv
  <2>2. QED
    BY <1>1, <1>3, <2>1, QueuesOf DEF Queue
<1>9. UndispatchedIsExplained'
  <2>1. ASSUME NEW d \in stored, d # e
        PROVE  (\A q \in queuesOf(d) : sends'[q][d] > 0) \/ Dispatching(d)' \/ d \in orphaned'
    BY <1>1, <1>3, <1>7, <2>1, QueuesOf
       DEF IInv, DispatchInv, UndispatchedIsExplained, ReceiverTypeOK
  <2>2. \A d \in stored : (\A q \in queuesOf(d) : sends'[q][d] > 0)
                          \/ Dispatching(d)' \/ d \in orphaned'
    BY <1>1, <1>8, <2>1 DEF IInv, ReceiverTypeOK
  <2>3. stored' = stored
    BY <1>1
  <2>4. QED
    BY <2>2, <2>3 DEF UndispatchedIsExplained
<1>10. DispatchedOnce'
  <2>1. sends["reauthAudit"][e] = 0
    BY <1>1 DEF IInv, DispatchInv
  <2>2. QED
    BY <1>1, <1>3, <2>1 DEF IInv, DispatchInv, DispatchedOnce
<1>11. DispatchInv'
  BY <1>1, <1>2, <1>3, <1>5, <1>6, <1>9, <1>10, QueuesOf DEF IInv, DispatchInv, Owns, ReceiverTypeOK, Queue
<1>12. QED
  BY <1>4, <1>11 DEF IInv

\* Deliveries, answers and deaths: no counter moves, no request becomes the
\* owner of a dispatch, and one that dies leaves its event on record.
LEMMA RequestPreserves ==
    ASSUME IInv, NEW r \in Requests,
           Answer(r) \/ RequestDies(r) \/ \E e \in Events : Deliver(r, e)
    PROVE  IInv'
<1>1. UNCHANGED <<stored, sends>> /\ orphaned \subseteq orphaned'
  BY DEF Answer, RequestDies, Deliver
<1>2. /\ ReceiverTypeOK'
      /\ \A s \in Requests \ {r} : req'[s] = req[s]
      /\ ~Owns(r)'
  BY <1>1 DEF IInv, ReceiverTypeOK, Answer, RequestDies, Deliver, IdleRequest, Owns
<1>3. Owns(r) => req[r].event \in orphaned'
  BY DEF Answer, RequestDies, Deliver, Owns
<1>4. \A e \in Events : Dispatching(e) => Dispatching(e)' \/ e \in orphaned'
  BY <1>2, <1>3 DEF Dispatching, Owns
<1>5. UndispatchedIsExplained'
  BY <1>1, <1>4 DEF IInv, DispatchInv, UndispatchedIsExplained, ReceiverTypeOK
<1>6. DispatchInv'
  BY <1>1, <1>2, <1>5 DEF IInv, DispatchInv, Owns, DispatchedOnce
<1>7. QED
  BY <1>2, <1>6 DEF IInv

\* Every step, of the receiver or of the workers, keeps the ownership of each
\* event's dispatch and what was sent for it in agreement.
LEMMA NextIInv == IInv /\ [Next]_vars => IInv'
<1> SUFFICES ASSUME IInv, [Next]_vars PROVE IInv'
  OBVIOUS
<1>1. CASE UNCHANGED vars
  BY <1>1, ReceiverFrame DEF vars, inbox
<1>2. CASE Next
  BY <1>2, NextCases, ReceiverFrame, InsertPreserves, DispatchPreserves, ReauthAuditPreserves,
     RequestPreserves
<1>3. QED
  BY <1>1, <1>2

\* The inductive invariant of the receiver holds in every reachable state.
THEOREM Invariance == Spec => []IInv
  BY InitIInv, NextIInv, PTL DEF Spec

\* At most one job per event and queue, however Pluggy redelivers.
THEOREM DispatchOnce == Spec => []DispatchedOnce
<1>1. IInv => DispatchedOnce
  BY DEF IInv, DispatchInv
<1>2. QED
  BY <1>1, Invariance, PTL

\* A stored event without its jobs is being dispatched, or its request died.
THEOREM UndispatchedExplained == Spec => []UndispatchedIsExplained
<1>1. IInv => UndispatchedIsExplained
  BY DEF IInv, DispatchInv
<1>2. QED
  BY <1>1, Invariance, PTL

-----------------------------------------------------------------------------
(* The receiver implements EventInbox *)

\* What is answered, or about to be, is stored.
AckInv ==
    /\ acked \subseteq stored
    /\ \A r \in Requests : req[r].pc = "answering" => req[r].event \in stored

LEMMA AckInvariance == Spec => []AckInv
<1>1. Init => AckInv
  BY DEF Init, AckInv, IdleRequest
<1>2. ASSUME IInv, AckInv, [Next]_vars
      PROVE  AckInv'
  <2>1. CASE UNCHANGED <<stored, acked, req>>
    BY <1>2, <2>1 DEF AckInv
  <2>2. ASSUME NEW r \in Requests, InsertEvent(r)
        PROVE  AckInv'
    BY <1>2, <2>2 DEF IInv, ReceiverTypeOK, AckInv, InsertEvent, afterInsert
  <2>3. ASSUME NEW r \in Requests, Dispatch(r) \/ DispatchReauthAudit(r)
        PROVE  AckInv'
    <3>1. Owns(r) /\ req[r].event \in stored
      BY <1>2, <2>3 DEF Dispatch, DispatchReauthAudit, Owns, IInv, DispatchInv
    <3>2. /\ UNCHANGED <<stored, acked>> /\ req'[r].event = req[r].event
          /\ \A s \in Requests \ {r} : req'[s] = req[s]
      BY <1>2, <2>3 DEF Dispatch, DispatchReauthAudit, IInv, ReceiverTypeOK
    <3>3. QED
      BY <1>2, <3>1, <3>2 DEF AckInv
  <2>4. ASSUME NEW r \in Requests, Answer(r) \/ RequestDies(r) \/ \E e \in Events : Deliver(r, e)
        PROVE  AckInv'
    BY <1>2, <2>4
       DEF IInv, ReceiverTypeOK, AckInv, Answer, RequestDies, Deliver, IdleRequest
  <2>5. QED
    BY <1>2, <2>1, <2>2, <2>3, <2>4, NextCases DEF vars, inbox
<1>3. QED
  BY <1>1, <1>2, Invariance, PTL DEF Spec

Place == [e \in Events |-> placeOf(e)]

\* When one event moves, or none.
LEMMA OneEventMoves ==
    ASSUME NEW e \in Events, \A d \in Events \ {e} : placeOf(d)' = placeOf(d)
    PROVE  Place' = [Place EXCEPT ![e] = placeOf(e)']
  BY DEF Place

LEMMA Unseen ==
    ASSUME \A d \in Events : placeOf(d)' = placeOf(d)
    PROVE  Place' = Place
  BY DEF Place

\* Where an event is depends on its owner and its sends alone.
LEMMA PlaceFrame ==
    ASSUME NEW d \in Events, d \in stored' <=> d \in stored,
           Dispatching(d)' <=> Dispatching(d),
           \A q \in Queue : sends'[q][d] = sends[q][d]
    PROVE  placeOf(d)' = placeOf(d)
<1>1. \A q \in queuesOf(d) : sends'[q][d] = sends[q][d]
  BY QueuesOf
<1>2. QED
  BY <1>1 DEF placeOf

\* A request that comes or goes without owning a dispatch is not seen.
LEMMA NoOwner ==
    ASSUME NEW r \in Requests, \A s \in Requests \ {r} : req'[s] = req[s],
           ~Owns(r), ~Owns(r)', NEW d \in Events
    PROVE  Dispatching(d)' <=> Dispatching(d)
  BY DEF Dispatching, Owns

\* The owner of e at work on its dispatch, and no more: only e may move.
LEMMA OwnerMoves ==
    ASSUME IInv, NEW r \in Requests, Owns(r), \A s \in Requests \ {r} : req'[s] = req[s],
           NEW e \in Events, req[r].event = e, Owns(r)' => req'[r].event = e
    PROVE  /\ placeOf(e) = "stored"
           /\ Dispatching(e)' <=> Owns(r)'
           /\ \A d \in Events \ {e} : Dispatching(d)' <=> Dispatching(d)
<1>1. e \in stored
  BY DEF IInv, ReceiverTypeOK, DispatchInv, Owns
<1>2. placeOf(e) = "stored"
  BY <1>1 DEF placeOf, Dispatching, Owns
<1>3. \A s \in Requests \ {r} : Owns(s) => req[s].event # e
  BY DEF IInv, DispatchInv
<1>4. Dispatching(e)' <=> Owns(r)'
  <2>1. Dispatching(e)' <=>
            \E s \in Requests : req'[s].event = e /\ Owns(s)'
    BY DEF Dispatching, Owns
  <2>2. \A s \in Requests \ {r} : ~(req'[s].event = e /\ Owns(s)')
    BY <1>3 DEF Owns
  <2>3. QED
    BY <2>1, <2>2
<1>5. ASSUME NEW d \in Events \ {e}
      PROVE  Dispatching(d)' <=> Dispatching(d)
  <2>1. Dispatching(d) <=> \E s \in Requests : req[s].event = d /\ Owns(s)
    BY DEF Dispatching, Owns
  <2>2. Dispatching(d)' <=> \E s \in Requests : req'[s].event = d /\ Owns(s)'
    BY DEF Dispatching, Owns
  <2>3. \A s \in Requests : req'[s].event = d /\ Owns(s)' <=> req[s].event = d /\ Owns(s)
    BY <1>5 DEF Owns
  <2>4. QED
    BY <2>1, <2>2, <2>3
<1>6. QED
  BY <1>1, <1>2, <1>4, <1>5

\* A new event is stored; of a duplicate nothing is seen.
LEMMA InsertRefines ==
    ASSUME IInv, NEW r \in Requests, InsertEvent(r),
           NEW e \in Events, e = req[r].event
    PROVE  [Inbox!Next]_(Inbox!vars)
<1>1. /\ e \in Events /\ stored' = stored \union {e} /\ UNCHANGED <<acked, sends>>
      /\ req'[r] = [req[r] EXCEPT !.pc = afterInsert(r)]
      /\ \A s \in Requests \ {r} : req'[s] = req[s]
      /\ ~Owns(r)
  BY DEF IInv, ReceiverTypeOK, InsertEvent, Owns
<1>2. CASE e \in stored
  <2>1. ~Owns(r)'
    BY <1>1, <1>2 DEF Owns, afterInsert, IInv, ReceiverTypeOK
  <2>2. \A d \in Events : placeOf(d)' = placeOf(d)
    BY <1>1, <1>2, <2>1, NoOwner, PlaceFrame
  <2>3. QED
    BY <1>1, <2>2, Unseen DEF Inbox!vars, Place
<1>3. CASE e \notin stored
  <2>1. req'[r].pc = "stored" /\ req'[r].event = e
    BY <1>1, <1>3 DEF afterInsert, IInv, ReceiverTypeOK
  <2>2. ASSUME NEW d \in Events \ {e}
        PROVE  placeOf(d)' = placeOf(d)
    <3>1. Dispatching(d)' <=> Dispatching(d)
      BY <1>1, <2>1, <2>2 DEF Dispatching, Owns
    <3>2. QED
      BY <1>1, <2>2, <3>1, PlaceFrame
  <2>3. placeOf(e) = "new"
    BY <1>3 DEF placeOf
  <2>4. placeOf(e)' = "stored"
    BY <1>1, <2>1 DEF placeOf, Dispatching
  <2>5. Place' = [Place EXCEPT ![e] = "stored"] /\ Place[e] = "new"
    BY <1>1, <2>2, <2>3, <2>4, OneEventMoves DEF Place
  <2>6. Inbox!Store(e)
    BY <1>1, <2>5 DEF Inbox!Store, Inbox!moves, Place
  <2>7. QED
    BY <1>1, <2>6 DEF Inbox!Next
<1>4. QED
  BY <1>2, <1>3

\* Once the owner is through, every queue the event calls for has its job.
LEMMA DispatchedAll ==
    ASSUME IInv, NEW r \in Requests, Dispatch(r) \/ DispatchReauthAudit(r), ~Owns(r)',
           NEW e \in Events, e = req[r].event
    PROVE  \A q \in queuesOf(e) : sends'[q][e] > 0
<1>1. e \in Events /\ Owns(r)
  BY DEF IInv, ReceiverTypeOK, Dispatch, DispatchReauthAudit, Owns
<1>2. CASE Dispatch(r)
  <2>1. \A q \in Queue : sends[q][e] = 0
    BY <1>1, <1>2 DEF Dispatch, IInv, DispatchInv
  <2>2. Kind[e] # "login_succeeded"
    BY <1>1, <1>2 DEF Dispatch, afterDispatch, Owns, IInv, ReceiverTypeOK
  <2>3. ASSUME NEW q \in queuesOf(e)
        PROVE  sends'[q][e] > 0
    <3>1. q \in queuesOf(e) \ {"reauthAudit"}
      BY <1>1, <2>2, QueuesOf
    <3>2. PICK p \in queuesOf(e) \ {"reauthAudit"} : enqueue(p, e)
      BY <1>2, <3>1 DEF Dispatch
    <3>3. p = q /\ q \in Queue
      BY <1>1, <3>1, <3>2, QueuesOf
    <3>4. QED
      BY <1>1, <2>1, <3>2, <3>3, EnqueueSends DEF IInv
  <2>4. QED
    BY <2>3
<1>3. CASE DispatchReauthAudit(r)
  <2>1. enqueue("reauthAudit", e) /\ sends["reauthAudit"][e] = 0
        /\ \A q \in queuesOf(e) \ {"reauthAudit"} : sends[q][e] > 0
    BY <1>1, <1>3 DEF DispatchReauthAudit, IInv, DispatchInv
  <2>2. \A q \in queuesOf(e) : sends'[q][e] =
            IF q = "reauthAudit" THEN sends[q][e] + 1 ELSE sends[q][e]
    BY <1>1, <2>1, QueuesOf, EnqueueSends DEF IInv, Queue
  <2>3. QED
    BY <2>1, <2>2
<1>4. QED
  BY <1>2, <1>3

\* The owner's last send dispatches its event; one before it is not seen.
LEMMA DispatchRefines ==
    ASSUME IInv, NEW r \in Requests, Dispatch(r) \/ DispatchReauthAudit(r),
           NEW e \in Events, e = req[r].event
    PROVE  [Inbox!Next]_(Inbox!vars)
<1>1. /\ Owns(r) /\ UNCHANGED <<stored, acked>> /\ req'[r].event = e
      /\ \A s \in Requests \ {r} : req'[s] = req[s]
  BY DEF Dispatch, DispatchReauthAudit, Owns, IInv, ReceiverTypeOK
<1>2. /\ e \in Events /\ placeOf(e) = "stored" /\ e \in stored
      /\ Dispatching(e)' <=> Owns(r)'
      /\ \A d \in Events \ {e} : Dispatching(d)' <=> Dispatching(d)
  BY <1>1, OwnerMoves DEF IInv, DispatchInv
<1>3. ASSUME NEW d \in Events \ {e}, NEW q \in Queue
      PROVE  sends'[q][d] = sends[q][d]
  <2>1. CASE UNCHANGED sends
    BY <2>1
  <2>2. ASSUME NEW p \in Queue, enqueue(p, e)
        PROVE  sends'[q][d] = sends[q][d]
    BY <1>2, <1>3, <2>2, EnqueueSends DEF IInv
  <2>3. QED
    BY <1>2, <2>1, <2>2, QueuesOf DEF Dispatch, DispatchReauthAudit, Queue
<1>4. \A d \in Events \ {e} : placeOf(d)' = placeOf(d)
  BY <1>1, <1>2, <1>3, PlaceFrame
<1>5. CASE Owns(r)'
  <2>1. placeOf(e)' = "stored"
    BY <1>1, <1>2, <1>5 DEF placeOf
  <2>2. QED
    BY <1>1, <1>2, <1>4, <2>1, Unseen DEF Inbox!vars, Place
<1>6. CASE ~Owns(r)'
  <2>1. placeOf(e)' = "dispatched"
    BY <1>1, <1>2, <1>6, DispatchedAll DEF placeOf
  <2>2. Place' = [Place EXCEPT ![e] = "dispatched"] /\ Place[e] = "stored"
    BY <1>2, <1>4, <2>1, OneEventMoves DEF Place
  <2>3. Inbox!Dispatch(e)
    BY <1>1, <2>2 DEF Inbox!Dispatch, Inbox!moves, Place
  <2>4. QED
    BY <1>2, <2>3 DEF Inbox!Next
<1>7. QED
  BY <1>5, <1>6

\* A delivery is seen when it is answered, not when it arrives.
LEMMA AnswerRefines ==
    ASSUME IInv, AckInv, NEW r \in Requests, Answer(r) \/ \E e \in Events : Deliver(r, e)
    PROVE  [Inbox!Next]_(Inbox!vars)
<1>1. /\ UNCHANGED <<stored, sends>> /\ ~Owns(r) /\ ~Owns(r)'
      /\ \A s \in Requests \ {r} : req'[s] = req[s]
  BY DEF Answer, Deliver, Owns, IdleRequest, IInv, ReceiverTypeOK
<1>2. \A d \in Events : placeOf(d)' = placeOf(d)
  BY <1>1, NoOwner, PlaceFrame
<1>3. Place' = Place
  BY <1>2, Unseen
<1>4. CASE UNCHANGED acked
  BY <1>3, <1>4 DEF Inbox!vars, Place
<1>5. CASE Answer(r) /\ acked' = acked \union {req[r].event}
  <2>1. req[r].event \in Events /\ req[r].event \in stored
    BY <1>5 DEF Answer, IInv, ReceiverTypeOK, AckInv
  <2>2. Place[req[r].event] # "new"
    BY <2>1 DEF Place, placeOf
  <2>3. Inbox!Acknowledge(req[r].event)
    BY <1>3, <1>5, <2>2 DEF Inbox!Acknowledge, Place
  <2>4. QED
    BY <2>1, <2>3 DEF Inbox!Next
<1>6. QED
  BY <1>4, <1>5 DEF Answer, Deliver

\* The owner that dies loses its event, unless there was nothing left to send.
LEMMA DeathRefines ==
    ASSUME IInv, NEW r \in Requests, RequestDies(r)
    PROVE  [Inbox!Next]_(Inbox!vars)
<1>1. /\ UNCHANGED <<stored, sends, acked>> /\ ~Owns(r)'
      /\ \A s \in Requests \ {r} : req'[s] = req[s]
  BY DEF RequestDies, Owns, IdleRequest, IInv, ReceiverTypeOK
<1>2. CASE ~Owns(r)
  <2>1. \A d \in Events : placeOf(d)' = placeOf(d)
    BY <1>1, <1>2, NoOwner, PlaceFrame
  <2>2. QED
    BY <1>1, <2>1, Unseen DEF Inbox!vars, Place
<1>3. CASE Owns(r)
  <2>1. PICK e \in Events : req[r].event = e
    BY <1>3 DEF IInv, ReceiverTypeOK, Owns
  <2>2. /\ placeOf(e) = "stored" /\ e \in stored /\ ~Dispatching(e)'
        /\ \A d \in Events \ {e} : Dispatching(d)' <=> Dispatching(d)
    <3>1. e \in stored
      BY <1>3, <2>1 DEF IInv, DispatchInv
    <3>2. QED
      BY <1>1, <1>3, <2>1, <3>1, OwnerMoves
  <2>3. \A d \in Events \ {e} : placeOf(d)' = placeOf(d)
    BY <1>1, <2>2, PlaceFrame
  <2>4. placeOf(e)' \in {"dispatched", "lost"}
    BY <1>1, <2>2 DEF placeOf
  <2>5. Place' = [Place EXCEPT ![e] = placeOf(e)'] /\ Place[e] = "stored"
    BY <2>2, <2>3, OneEventMoves DEF Place
  <2>6. Inbox!Dispatch(e) \/ Inbox!Lose(e)
    BY <1>1, <2>4, <2>5 DEF Inbox!Dispatch, Inbox!Lose, Inbox!moves, Place
  <2>7. QED
    BY <2>6 DEF Inbox!Next
<1>4. QED
  BY <1>2, <1>3

\* The receiver implements EventInbox: only the request that stored an event
\* dispatches it, only what is stored is answered, and what is lost stays lost.
THEOREM InboxRefinement == Spec => ImplementsInbox
<1>1. Init => Inbox!Init
  <2> SUFFICES ASSUME Init PROVE Inbox!Init
    OBVIOUS
  <2>1. \A e \in Events : placeOf(e) = "new"
    BY DEF Init, placeOf
  <2>2. QED
    BY <2>1 DEF Init, Inbox!Init
<1>2. ASSUME IInv, AckInv, [Next]_vars
      PROVE  [Inbox!Next]_(Inbox!vars)
  <2>1. CASE UNCHANGED <<stored, acked, req, sends>>
    <3>1. \A d \in Events : Dispatching(d)' <=> Dispatching(d)
      BY <2>1 DEF Dispatching
    <3>2. \A d \in Events : placeOf(d)' = placeOf(d)
      BY <2>1, <3>1, PlaceFrame
    <3>3. QED
      BY <2>1, <3>2, Unseen DEF Inbox!vars, Place
  <2>2. ASSUME NEW r \in Requests, InsertEvent(r) \/ Dispatch(r) \/ DispatchReauthAudit(r)
        PROVE  [Inbox!Next]_(Inbox!vars)
    <3>1. req[r].event \in Events
      BY <1>2, <2>2 DEF IInv, ReceiverTypeOK, InsertEvent, Dispatch, DispatchReauthAudit
    <3>2. QED
      BY <1>2, <2>2, <3>1, InsertRefines, DispatchRefines
  <2>3. QED
    BY <1>2, <2>1, <2>2, NextCases, AnswerRefines, DeathRefines DEF vars, inbox
<1>3. QED
  BY <1>1, <1>2, Invariance, AckInvariance, PTL DEF Spec, ImplementsInbox, Inbox!Spec

-----------------------------------------------------------------------------
(* The workers: types, and who holds a job *)

JobRecord == [state: {"none", "created", "active", "done", "failed"}, tries: 0..(RetryLimit + 1)]
RunRecord == [pc: {"idle", "resolved", "sent", "stamped", "checked", "inserted"},
              event: Events \union {None}, attached: BOOLEAN]

\* The handlers are of their queue, no two hold one job, a job exists only
\* once it is sent, and it waits only while it has attempts left.
JobInv ==
    /\ \A h \in Handlers :
           /\ Busy(h) => run[h].event \in Events
           /\ run[h].pc \in {"resolved", "sent", "stamped"} => h \in Notifiers
           /\ run[h].pc \in {"checked", "inserted"} => h \in Auditors
    /\ \A g, h \in Handlers :
           run[g].attached /\ run[h].attached /\ queueOf(g) = queueOf(h)
             /\ run[g].event = run[h].event => g = h
    /\ \A q \in Queue, e \in Events :
           /\ sends[q][e] = 0 => job[q][e] = NoJob
           /\ job[q][e].state = "created" => job[q][e].tries <= RetryLimit

WorkerInv == TypeOK /\ JobInv

\* Each handler serves one of the two queues.
LEMMA QueueOfHandler ==
    ASSUME NEW h \in Handlers
    PROVE  /\ queueOf(h) \in {"notifier", "reauthAudit"} /\ queueOf(h) \in Queue
           /\ h \in Notifiers => queueOf(h) = "notifier"
           /\ h \in Auditors => queueOf(h) = "reauthAudit"
  BY ConstantsAssumption DEF queueOf, Handlers, Queue

\* Nothing runs at first.
LEMMA InitWorkerInv == Init => WorkerInv
<1> SUFFICES ASSUME Init PROVE WorkerInv
  OBVIOUS
<1>1. /\ sends \in [Queue -> [Events -> Nat]]
      /\ job \in [Queue -> [Events -> JobRecord]]
      /\ \A q \in Queue, e \in Events : job[q][e] = NoJob
      /\ run \in [Handlers -> RunRecord] /\ \A h \in Handlers : run[h] = IdleRun
  BY ConstantsAssumption DEF Init, NoJob, IdleRun, JobRecord, RunRecord
<1>2. TypeOK
  BY <1>1, ConstantsAssumption
     DEF Init, TypeOK, JobRecord, RunRecord, IdleRequest, IdleRun
<1>3. JobInv
  BY <1>1 DEF JobInv, Busy, NoJob, IdleRun
<1>4. QED
  BY <1>2, <1>3 DEF WorkerInv

\* What an attempt that ends or is given up makes of its job.
LEMMA SettledJob ==
    ASSUME WorkerInv, NEW h \in Handlers, Busy(h),
           NEW outcome \in {"created", "done", "failed"}, job' = settled(h, outcome)
    PROVE  /\ job' \in [Queue -> [Events -> JobRecord]]
           /\ \A q \in Queue, e \in Events :
                  /\ job'[q][e].tries = job[q][e].tries
                  /\ job'[q][e].state =
                         IF run[h].attached /\ q = queueOf(h) /\ e = run[h].event
                         THEN outcome ELSE job[q][e].state
<1>1. /\ job \in [Queue -> [Events -> JobRecord]] /\ run[h].event \in Events
      /\ queueOf(h) \in Queue
  BY QueueOfHandler DEF WorkerInv, TypeOK, JobInv, JobRecord
<1>2. CASE run[h].attached
  <2>1. job' = [job EXCEPT ![queueOf(h)] = [job[queueOf(h)] EXCEPT
                   ![run[h].event] = [job[queueOf(h)][run[h].event] EXCEPT !.state = outcome]]]
    BY <1>2 DEF settled
  <2>2. [job[queueOf(h)][run[h].event] EXCEPT !.state = outcome] \in JobRecord
    BY <1>1 DEF JobRecord
  <2>3. QED
    BY <1>1, <1>2, <2>1, <2>2 DEF JobRecord
<1>3. CASE ~run[h].attached
  BY <1>1, <1>3 DEF settled
<1>4. QED
  BY <1>2, <1>3

\* Steps of the receiver that send nothing.
LEMMA QuietWorker ==
    ASSUME IInv, WorkerInv, NEW r \in Requests,
           InsertEvent(r) \/ Answer(r) \/ RequestDies(r) \/ \E e \in Events : Deliver(r, e)
    PROVE  WorkerInv'
<1>1. /\ UNCHANGED <<rows, suppressed, sends, job, run, effects, expiries>>
      /\ \E x \in [pc: {"idle", "received", "stored", "dispatched", "answering"},
                   event: Events \union {None}] : req' = [req EXCEPT ![r] = x]
  <2>1. req[r] \in [pc: {"idle", "received", "stored", "dispatched", "answering"},
                    event: Events \union {None}]
    BY DEF WorkerInv, TypeOK
  <2>2. CASE InsertEvent(r)
    <3>1. [req[r] EXCEPT !.pc = afterInsert(r)]
              \in [pc: {"idle", "received", "stored", "dispatched", "answering"},
                   event: Events \union {None}]
      BY <2>1 DEF afterInsert
    <3>2. QED
      BY <2>2, <3>1 DEF InsertEvent, external, effects
  <2>3. CASE Answer(r) \/ RequestDies(r) \/ \E e \in Events : Deliver(r, e)
    BY <2>3 DEF Answer, RequestDies, Deliver, external, effects, IdleRequest
  <2>4. QED
    BY <2>2, <2>3
<1>2. /\ stored' \subseteq Events /\ acked' \subseteq Events /\ orphaned' \subseteq Events
      /\ faults' \in 0..MaxFaults
  <2>1. req[r].pc # "idle" => req[r].event \in Events
    BY DEF IInv, ReceiverTypeOK
  <2>2. faults \in Nat /\ MaxFaults \in Nat /\ (faults < MaxFaults => faults + 1 \in 0..MaxFaults)
    BY ConstantsAssumption DEF WorkerInv, TypeOK
  <2>3. QED
    BY <2>1, <2>2 DEF InsertEvent, Answer, RequestDies, Deliver, WorkerInv, TypeOK
<1>3. TypeOK'
  BY <1>1, <1>2 DEF WorkerInv, TypeOK, Busy, effects
<1>4. JobInv'
  BY <1>1 DEF WorkerInv, JobInv, Busy
<1>5. QED
  BY <1>3, <1>4 DEF WorkerInv

\* The connect route inserts a row.
LEMMA RowWorker ==
    ASSUME WorkerInv, NEW i \in Items, RowInserted(i)
    PROVE  WorkerInv'
<1>1. TypeOK'
  BY DEF RowInserted, WorkerInv, TypeOK, inbox, effects, Busy
<1>2. JobInv'
  BY DEF RowInserted, WorkerInv, JobInv, Busy
<1>3. QED
  BY <1>1, <1>2 DEF WorkerInv

\* A first send makes a job nobody holds.
LEMMA EnqueueWorker ==
    ASSUME IInv, WorkerInv, NEW q \in Queue, NEW e \in Events, sends[q][e] = 0, enqueue(q, e),
           UNCHANGED <<external, stored, acked, orphaned, run, effects, faults, expiries>>,
           ReceiverTypeOK'
    PROVE  WorkerInv'
<1>1. /\ job \in [Queue -> [Events -> JobRecord]] /\ job[q][e] = NoJob
      /\ sends \in [Queue -> [Events -> Nat]]
  BY DEF WorkerInv, TypeOK, JobInv, JobRecord
<1>2. job' = [job EXCEPT ![q] = [job[q] EXCEPT ![e] = [state |-> "created", tries |-> 0]]]
  <2>1. job' = [job EXCEPT ![q] = [job[q] EXCEPT ![e] = [job[q][e] EXCEPT !.state = "created"]]]
    BY DEF enqueue
  <2>2. [job[q][e] EXCEPT !.state = "created"] = [state |-> "created", tries |-> 0]
    BY <1>1 DEF NoJob
  <2>3. QED
    BY <2>1, <2>2
<1>3. /\ job' \in [Queue -> [Events -> JobRecord]]
      /\ job'[q][e].state = "created" /\ job'[q][e].tries = 0
      /\ \A p \in Queue, d \in Events : p # q \/ d # e => job'[p][d] = job[p][d]
  BY <1>1, <1>2, ConstantsAssumption DEF JobRecord
<1>4. \A p \in Queue, d \in Events :
          sends'[p][d] = IF p = q /\ d = e THEN sends[p][d] + 1 ELSE sends[p][d]
  BY EnqueueSends DEF IInv
<1>5. \A h \in Handlers : run[h].attached => queueOf(h) # q \/ run[h].event # e
  BY <1>1 DEF WorkerInv, TypeOK, NoJob
<1>6. TypeOK'
  <2>1. \A h \in Handlers : run[h].attached =>
            Busy(h)' /\ job'[queueOf(h)][run[h].event].state = "active"
    <3>1. \A h \in Handlers : run[h].attached =>
              /\ Busy(h) /\ run[h].event \in Events /\ queueOf(h) \in Queue
              /\ job[queueOf(h)][run[h].event].state = "active"
      BY QueueOfHandler DEF WorkerInv, TypeOK, JobInv
    <3>2. QED
      BY <1>3, <1>5, <3>1 DEF Busy
  <2>2. QED
    BY <1>3, <2>1 DEF WorkerInv, TypeOK, JobRecord, ReceiverTypeOK, external, effects
<1>7. JobInv'
  BY <1>1, <1>3, <1>4, ConstantsAssumption DEF WorkerInv, JobInv, Busy
<1>8. QED
  BY <1>6, <1>7 DEF WorkerInv

\* A worker takes a waiting job.
LEMMA TakeWorker ==
    ASSUME WorkerInv, NEW h \in Handlers, NEW e \in Events, NEW pc, take(h, e, pc),
           \/ pc = "resolved" /\ h \in Notifiers
           \/ pc = "checked" /\ h \in Auditors,
           UNCHANGED <<external, inbox, sends, effects, faults, expiries>>
    PROVE  WorkerInv'
<1> DEFINE q == queueOf(h)
<1>1. /\ job \in [Queue -> [Events -> JobRecord]] /\ job[q][e].state = "created"
      /\ q \in Queue /\ run \in [Handlers -> RunRecord] /\ ~Busy(h)
  BY QueueOfHandler DEF WorkerInv, TypeOK, JobRecord, RunRecord, take, mayFetch
<1>2. job[q][e].tries \in Nat /\ job[q][e].tries <= RetryLimit
  BY <1>1, ConstantsAssumption DEF WorkerInv, JobInv, JobRecord
<1>3. job' = [job EXCEPT ![q] = [job[q] EXCEPT
                 ![e] = [state |-> "active", tries |-> job[q][e].tries + 1]]]
  BY DEF take
<1>4. [state |-> "active", tries |-> job[q][e].tries + 1] \in JobRecord
  BY <1>2, ConstantsAssumption DEF JobRecord
<1>5. /\ job' \in [Queue -> [Events -> JobRecord]]
      /\ job'[q][e].state = "active"
      /\ \A p \in Queue, d \in Events : p # q \/ d # e => job'[p][d] = job[p][d]
  BY <1>1, <1>3, <1>4
<1>6. /\ run' \in [Handlers -> RunRecord]
      /\ run'[h] = [pc |-> pc, event |-> e, attached |-> TRUE]
      /\ \A g \in Handlers \ {h} : run'[g] = run[g]
  BY <1>1 DEF take, RunRecord
<1>7. \A g \in Handlers : run[g].attached => queueOf(g) # q \/ run[g].event # e
  BY <1>1 DEF WorkerInv, TypeOK
<1>8. TypeOK'
  <2>1. \A g \in Handlers : run'[g].attached =>
            Busy(g)' /\ job'[queueOf(g)][run'[g].event].state = "active"
    <3>1. \A g \in Handlers : run[g].attached =>
              /\ Busy(g) /\ run[g].event \in Events /\ queueOf(g) \in Queue
              /\ job[queueOf(g)][run[g].event].state = "active"
      BY QueueOfHandler DEF WorkerInv, TypeOK, JobInv
    <3>2. CASE pc # "idle"
      BY <1>5, <1>6, <1>7, <3>1, <3>2 DEF Busy
    <3>3. QED
      BY <3>2
  <2>2. QED
    BY <1>5, <1>6, <2>1 DEF WorkerInv, TypeOK, JobRecord, RunRecord, external, inbox, effects
<1>9. JobInv'
  <2>1. \A g \in Handlers :
           /\ Busy(g)' => run'[g].event \in Events
           /\ run'[g].pc \in {"resolved", "sent", "stamped"} => g \in Notifiers
           /\ run'[g].pc \in {"checked", "inserted"} => g \in Auditors
    BY <1>6 DEF WorkerInv, JobInv, Busy
  <2>2. \A g, k \in Handlers :
           run'[g].attached /\ run'[k].attached /\ queueOf(g) = queueOf(k)
             /\ run'[g].event = run'[k].event => g = k
    BY <1>6, <1>7 DEF WorkerInv, JobInv
  <2>3. sends[q][e] # 0
    BY <1>1 DEF WorkerInv, JobInv, NoJob
  <2>4. \A p \in Queue, d \in Events :
           /\ sends'[p][d] = 0 => job'[p][d] = NoJob
           /\ job'[p][d].state = "created" => job'[p][d].tries <= RetryLimit
    BY <1>5, <2>3 DEF WorkerInv, JobInv
  <2>5. QED
    BY <2>1, <2>2, <2>4 DEF JobInv
<1>10. QED
  BY <1>8, <1>9 DEF WorkerInv

\* A job is completed without a handler being started.
LEMMA SkipWorker ==
    ASSUME WorkerInv, NEW q \in Queue, NEW e \in Events, job[q][e].state = "created",
           job' = [job EXCEPT ![q][e].state = "done"],
           UNCHANGED <<external, inbox, sends, run, effects, faults, expiries>>
    PROVE  WorkerInv'
<1>1. job \in [Queue -> [Events -> JobRecord]]
  BY DEF WorkerInv, TypeOK, JobRecord
<1>2. job' = [job EXCEPT ![q] = [job[q] EXCEPT ![e] = [job[q][e] EXCEPT !.state = "done"]]]
  OBVIOUS
<1>3. [job[q][e] EXCEPT !.state = "done"] \in JobRecord
  BY <1>1 DEF JobRecord
<1>4. /\ job' \in [Queue -> [Events -> JobRecord]]
      /\ job'[q][e].state = "done"
      /\ \A p \in Queue, d \in Events : p # q \/ d # e => job'[p][d] = job[p][d]
  BY <1>1, <1>2, <1>3 DEF JobRecord
<1>5. sends[q][e] # 0
  BY DEF WorkerInv, JobInv, NoJob
<1>6. \A h \in Handlers : run[h].attached => queueOf(h) # q \/ run[h].event # e
  BY DEF WorkerInv, TypeOK
<1>7. TypeOK'
  <2>1. \A h \in Handlers : run[h].attached =>
            Busy(h)' /\ job'[queueOf(h)][run[h].event].state = "active"
    BY <1>4, <1>6, QueueOfHandler DEF WorkerInv, TypeOK, JobInv, Busy
  <2>2. QED
    BY <1>4, <2>1 DEF WorkerInv, TypeOK, JobRecord, external, inbox, effects
<1>8. JobInv'
  BY <1>4, <1>5 DEF WorkerInv, JobInv, Busy
<1>9. QED
  BY <1>7, <1>8 DEF WorkerInv

\* A handler fails, returns or outlives its attempt.
LEMMA SettleWorker ==
    ASSUME WorkerInv, NEW h \in Handlers, Busy(h),
           NEW outcome \in {"created", "done", "failed"}, job' = settled(h, outcome),
           outcome = "created" => job[queueOf(h)][run[h].event].tries <= RetryLimit,
           NEW after \in RunRecord, run' = [run EXCEPT ![h] = after], ~after.attached,
           \/ after = IdleRun
           \/ after.pc = run[h].pc /\ after.event = run[h].event,
           UNCHANGED <<external, inbox, sends, recent, emails, reauthRows>>,
           unstamped' \in [Items -> Nat],
           faults' \in 0..MaxFaults, expiries' \in 0..MaxExpiries
    PROVE  WorkerInv'
<1>1. /\ run \in [Handlers -> RunRecord] /\ run[h].event \in Events /\ queueOf(h) \in Queue
      /\ \A g \in Handlers : run[g].attached =>
              /\ Busy(g) /\ run[g].event \in Events /\ queueOf(g) \in Queue
              /\ job[queueOf(g)][run[g].event].state = "active"
  BY QueueOfHandler DEF WorkerInv, TypeOK, JobInv, RunRecord
<1>2. /\ job' \in [Queue -> [Events -> JobRecord]]
      /\ \A q \in Queue, e \in Events :
             /\ job'[q][e].tries = job[q][e].tries
             /\ job'[q][e].state =
                    IF run[h].attached /\ q = queueOf(h) /\ e = run[h].event
                    THEN outcome ELSE job[q][e].state
  BY SettledJob
<1>3. /\ run' \in [Handlers -> RunRecord] /\ run'[h] = after
      /\ \A g \in Handlers \ {h} : run'[g] = run[g]
  BY <1>1
<1>4. \A g \in Handlers : run'[g].attached =>
          g # h /\ run[g].attached /\ run'[g] = run[g]
  BY <1>3
<1>5. \A g \in Handlers : run'[g].attached =>
          Busy(g)' /\ job'[queueOf(g)][run'[g].event].state = "active"
  <2>1. ASSUME NEW g \in Handlers, run'[g].attached
        PROVE  Busy(g)' /\ job'[queueOf(g)][run'[g].event].state = "active"
    <3>1. g # h /\ run[g].attached /\ run'[g] = run[g]
      BY <1>4, <2>1
    <3>2. ~(run[h].attached /\ queueOf(g) = queueOf(h) /\ run[g].event = run[h].event)
      BY <3>1 DEF WorkerInv, JobInv
    <3>3. QED
      BY <1>1, <1>2, <3>1, <3>2 DEF Busy
  <2>2. QED
    BY <2>1
<1>6. TypeOK'
  BY <1>2, <1>3, <1>5 DEF WorkerInv, TypeOK, JobRecord, RunRecord, external, inbox, effects
<1>7. JobInv'
  <2>1. \A g \in Handlers :
           /\ Busy(g)' => run'[g].event \in Events
           /\ run'[g].pc \in {"resolved", "sent", "stamped"} => g \in Notifiers
           /\ run'[g].pc \in {"checked", "inserted"} => g \in Auditors
    BY <1>1, <1>3 DEF WorkerInv, JobInv, Busy, IdleRun
  <2>2. \A g, k \in Handlers :
           run'[g].attached /\ run'[k].attached /\ queueOf(g) = queueOf(k)
             /\ run'[g].event = run'[k].event => g = k
    BY <1>4 DEF WorkerInv, JobInv
  <2>3. ASSUME NEW q \in Queue, NEW e \in Events
        PROVE  /\ sends'[q][e] = 0 => job'[q][e] = NoJob
               /\ job'[q][e].state = "created" => job'[q][e].tries <= RetryLimit
    <3>1. CASE run[h].attached /\ q = queueOf(h) /\ e = run[h].event
      <4>1. job[q][e].state = "active"
        BY <1>1, <3>1
      <4>2. sends[q][e] # 0
        BY <4>1 DEF WorkerInv, JobInv, NoJob
      <4>3. QED
        BY <1>2, <3>1, <4>2
    <3>2. CASE ~(run[h].attached /\ q = queueOf(h) /\ e = run[h].event)
      <4>1. job'[q][e] = job[q][e]
        <5>1. job[q][e] \in JobRecord /\ job'[q][e] \in JobRecord
          BY <1>2 DEF WorkerInv, TypeOK, JobRecord
        <5>2. job'[q][e].state = job[q][e].state /\ job'[q][e].tries = job[q][e].tries
          BY <1>2, <3>2
        <5>3. QED
          BY <5>1, <5>2 DEF JobRecord
      <4>2. QED
        BY <4>1 DEF WorkerInv, JobInv
    <3>3. QED
      BY <3>1, <3>2
  <2>4. QED
    BY <2>1, <2>2, <2>3 DEF JobInv
<1>8. QED
  BY <1>6, <1>7 DEF WorkerInv

\* A handler goes on to its next statement.
LEMMA MoveWorker ==
    ASSUME WorkerInv, NEW h \in Handlers, NEW pc, run' = [run EXCEPT ![h].pc = pc], Busy(h),
           \/ pc \in {"sent", "stamped"} /\ h \in Notifiers
           \/ pc = "inserted" /\ h \in Auditors,
           recent' \subseteq Items, emails' \in [Items -> Nat], reauthRows' \in [Events -> Nat],
           UNCHANGED <<external, inbox, sends, job, unstamped, faults, expiries>>
    PROVE  WorkerInv'
<1>1. /\ run' \in [Handlers -> RunRecord] /\ run'[h] = [run[h] EXCEPT !.pc = pc]
      /\ run'[h].pc = pc /\ run'[h].event = run[h].event /\ run'[h].attached = run[h].attached
      /\ \A g \in Handlers \ {h} : run'[g] = run[g]
  BY DEF WorkerInv, TypeOK, RunRecord
<1>2. \A g \in Handlers : /\ run'[g].event = run[g].event /\ run'[g].attached = run[g].attached
                          /\ Busy(g)' => Busy(g)
  BY <1>1 DEF Busy
<1>3. TypeOK'
  <2>1. \A g \in Handlers : run'[g].attached =>
            Busy(g)' /\ job'[queueOf(g)][run'[g].event].state = "active"
    BY <1>1, <1>2 DEF WorkerInv, TypeOK, Busy
  <2>2. QED
    BY <1>1, <2>1 DEF WorkerInv, TypeOK, RunRecord, external, inbox
<1>4. JobInv'
  <2>1. \A g \in Handlers :
           /\ Busy(g)' => run'[g].event \in Events
           /\ run'[g].pc \in {"resolved", "sent", "stamped"} => g \in Notifiers
           /\ run'[g].pc \in {"checked", "inserted"} => g \in Auditors
    BY <1>1, <1>2 DEF WorkerInv, JobInv
  <2>2. QED
    BY <1>2, <2>1 DEF WorkerInv, JobInv
<1>5. QED
  BY <1>3, <1>4 DEF WorkerInv

\* The statements that send a job.
LEMMA DispatchWorker ==
    ASSUME IInv, IInv', WorkerInv, NEW r \in Requests, Dispatch(r) \/ DispatchReauthAudit(r)
    PROVE  WorkerInv'
<1> DEFINE e == req[r].event
<1>1. /\ e \in Events /\ ReceiverTypeOK'
      /\ UNCHANGED <<external, stored, acked, orphaned, run, effects, faults, expiries>>
  BY DEF IInv, ReceiverTypeOK, Dispatch, DispatchReauthAudit
<1>2. CASE DispatchReauthAudit(r)
  <2>1. sends["reauthAudit"][e] = 0 /\ enqueue("reauthAudit", e)
    BY <1>2 DEF DispatchReauthAudit, IInv, DispatchInv
  <2>2. QED
    BY <1>1, <2>1, EnqueueWorker DEF Queue
<1>3. CASE Dispatch(r) /\ queuesOf(e) \ {"reauthAudit"} # {}
  <2>1. PICK q \in queuesOf(e) \ {"reauthAudit"} : enqueue(q, e)
    BY <1>3 DEF Dispatch
  <2>2. q \in Queue /\ sends[q][e] = 0
    BY <1>1, <1>3, <2>1, QueuesOf DEF Dispatch, IInv, DispatchInv
  <2>3. QED
    BY <1>1, <2>1, <2>2, EnqueueWorker
<1>4. CASE Dispatch(r) /\ queuesOf(e) \ {"reauthAudit"} = {}
  <2>1. UNCHANGED <<sends, job>>
    BY <1>4 DEF Dispatch
  <2>2. TypeOK'
    BY <1>1, <2>1 DEF WorkerInv, TypeOK, ReceiverTypeOK, external, effects, Busy
  <2>3. JobInv'
    BY <1>1, <2>1 DEF WorkerInv, JobInv, Busy
  <2>4. QED
    BY <2>2, <2>3 DEF WorkerInv
<1>5. QED
  BY <1>2, <1>3, <1>4

\* The three ways an attempt ends, for the queue or for its handler.
LEMMA EndWorker ==
    ASSUME WorkerInv, NEW h \in Handlers,
           AttemptFails(h) \/ Expire(h) \/ NotifyEnd(h) \/ AuditEnd(h)
    PROVE  WorkerInv'
<1>1. /\ Busy(h) /\ run[h] \in RunRecord /\ run[h].event \in Events
      /\ faults \in 0..MaxFaults /\ expiries \in 0..MaxExpiries
  BY DEF WorkerInv, TypeOK, JobInv, RunRecord, AttemptFails, Expire, NotifyEnd, AuditEnd, Busy
<1>2. /\ retryState(queueOf(h), run[h].event) \in {"created", "failed"}
      /\ retryState(queueOf(h), run[h].event) = "created" =>
             job[queueOf(h)][run[h].event].tries <= RetryLimit
  BY DEF retryState
<1>3. IdleRun \in RunRecord /\ IdleRun.attached = FALSE
  BY DEF IdleRun, RunRecord
<1>0. \A pcs : missed(h, pcs) \in [Items -> Nat]
  BY <1>1, ConstantsAssumption DEF missed, WorkerInv, TypeOK
<1>4. CASE AttemptFails(h)
  <2>1. faults' \in 0..MaxFaults /\ unstamped' \in [Items -> Nat]
    BY <1>0, <1>1, <1>4, ConstantsAssumption DEF AttemptFails
  <2>2. QED
    BY <1>1, <1>2, <1>3, <1>4, <2>1, SettleWorker DEF AttemptFails
<1>5. CASE Expire(h)
  <2>1. expiries' \in 0..MaxExpiries /\ unstamped' \in [Items -> Nat]
    BY <1>0, <1>1, <1>5, ConstantsAssumption DEF Expire
  <2>2. PICK after \in RunRecord :
           /\ run' = [run EXCEPT ![h] = after] /\ ~after.attached
           /\ after.pc = run[h].pc /\ after.event = run[h].event
    <3>1. run' = [run EXCEPT ![h] = [run[h] EXCEPT !.attached = FALSE]]
      BY <1>5 DEF Expire
    <3>2. /\ [run[h] EXCEPT !.attached = FALSE] \in RunRecord
          /\ [run[h] EXCEPT !.attached = FALSE].attached = FALSE
          /\ [run[h] EXCEPT !.attached = FALSE].pc = run[h].pc
          /\ [run[h] EXCEPT !.attached = FALSE].event = run[h].event
      BY <1>1 DEF RunRecord
    <3>3. QED
      BY <3>1, <3>2
  <2>3. QED
    BY <1>1, <1>2, <1>5, <2>1, <2>2, SettleWorker DEF Expire
<1>6. CASE NotifyEnd(h) \/ AuditEnd(h)
  BY <1>1, <1>3, <1>6, SettleWorker DEF NotifyEnd, AuditEnd, return, effects, WorkerInv, TypeOK
<1>7. QED
  BY <1>4, <1>5, <1>6

\* The handlers' own statements.
LEMMA EffectWorker ==
    ASSUME WorkerInv, NEW h \in Handlers, SendEmail(h) \/ Stamp(h) \/ AuditInsert(h)
    PROVE  WorkerInv'
<1>1. Busy(h) /\ run[h].event \in Events /\ ItemOf[run[h].event] \in Items
  BY ConstantsAssumption DEF WorkerInv, JobInv, SendEmail, Stamp, readyToStamp, AuditInsert, Busy
<1>2. CASE SendEmail(h)
  <2>1. h \in Notifiers /\ emails' \in [Items -> Nat]
    BY <1>1, <1>2 DEF SendEmail, WorkerInv, TypeOK, JobInv
  <2>2. QED
    BY <1>1, <1>2, <2>1, MoveWorker DEF SendEmail, WorkerInv, TypeOK
<1>3. CASE Stamp(h)
  <2>1. h \in Notifiers /\ recent' \subseteq Items
    BY <1>1, <1>3 DEF Stamp, readyToStamp, WorkerInv, TypeOK, JobInv
  <2>2. QED
    BY <1>1, <1>3, <2>1, MoveWorker DEF Stamp, WorkerInv, TypeOK
<1>4. CASE AuditInsert(h)
  <2>1. h \in Auditors /\ reauthRows' \in [Events -> Nat]
    BY <1>1, <1>4 DEF AuditInsert, WorkerInv, TypeOK, JobInv
  <2>2. QED
    BY <1>1, <1>4, <2>1, MoveWorker DEF AuditInsert, WorkerInv, TypeOK
<1>5. QED
  BY <1>2, <1>3, <1>4

\* Next, action by action.
LEMMA NextActions ==
    ASSUME Next
    PROVE  \/ \E r \in Requests :
                \/ InsertEvent(r) \/ Dispatch(r) \/ DispatchReauthAudit(r) \/ Answer(r)
                \/ RequestDies(r) \/ \E e \in Events : Deliver(r, e)
           \/ \E h \in Notifiers, e \in Events : NotifyStart(h, e) \/ NotifySkip(h, e)
           \/ \E g \in Auditors, e \in Events : AuditStart(g, e) \/ AuditSkip(g, e)
           \/ \E h \in Handlers : \/ SendEmail(h) \/ Stamp(h) \/ NotifyEnd(h) \/ AuditInsert(h)
                                  \/ AuditEnd(h) \/ AttemptFails(h) \/ Expire(h)
           \/ \E i \in Items : RowInserted(i)
  BY DEF Next, Handle, NotifyTake, AuditTake, Advance

\* Every step keeps the types and the agreement of jobs and handlers.
LEMMA NextWorkerInv == IInv /\ WorkerInv /\ [Next]_vars => WorkerInv'
<1> SUFFICES ASSUME IInv, WorkerInv, [Next]_vars PROVE WorkerInv'
  OBVIOUS
<1>1. CASE UNCHANGED vars
  BY <1>1 DEF vars, external, inbox, effects, WorkerInv, TypeOK, JobInv, Busy
<1>2. IInv'
  BY NextIInv
<1>3. ASSUME NEW h \in Notifiers, NEW e \in Events, NotifyStart(h, e) \/ NotifySkip(h, e)
      PROVE  WorkerInv'
  <2>1. CASE NotifyStart(h, e)
    BY <2>1, TakeWorker DEF NotifyStart, Handlers
  <2>2. CASE NotifySkip(h, e)
    BY <2>2, SkipWorker DEF NotifySkip, Queue
  <2>3. QED
    BY <1>3, <2>1, <2>2
<1>4. ASSUME NEW g \in Auditors, NEW e \in Events, AuditStart(g, e) \/ AuditSkip(g, e)
      PROVE  WorkerInv'
  <2>1. CASE AuditStart(g, e)
    BY <2>1, TakeWorker DEF AuditStart, Handlers
  <2>2. CASE AuditSkip(g, e)
    BY <2>2, SkipWorker DEF AuditSkip, Queue
  <2>3. QED
    BY <1>4, <2>1, <2>2
<1>5. CASE Next
  BY <1>2, <1>3, <1>4, <1>5, NextActions, QuietWorker, DispatchWorker, EndWorker, EffectWorker,
     RowWorker
<1>6. QED
  BY <1>1, <1>5

\* The types and the holders of the jobs are right in every reachable state.
LEMMA WorkerInvariance == Spec => []WorkerInv
  BY InitIInv, NextIInv, InitWorkerInv, NextWorkerInv, PTL DEF Spec

\* Type correctness, with the bound on attempts per job and the jobs of attached
\* handlers active.
THEOREM TypeCorrect == Spec => []TypeOK
<1>1. WorkerInv => TypeOK
  BY DEF WorkerInv
<1>2. QED
  BY <1>1, WorkerInvariance, PTL

\* Once stamped and with nobody at work an item gets no further e-mail.
THEOREM Quiet == Spec => QuietDebounce
<1>1. WorkerInv /\ [Next]_vars =>
          [\A i \in Items : i \in recent /\ InFlight(i) = {} =>
               emails'[i] = emails[i] /\ InFlight(i)' = {}]_vars
  <2> SUFFICES ASSUME WorkerInv, Next, NEW i \in Items, i \in recent, InFlight(i) = {}
               PROVE  emails'[i] = emails[i] /\ InFlight(i)' = {}
    OBVIOUS
  <2>1. \A h \in Notifiers : Busy(h) => ItemOf[run[h].event] # i
    BY DEF InFlight
  <2>2. CASE UNCHANGED <<emails, run>>
    BY <2>2 DEF InFlight, Busy
  <2>3. ASSUME NEW h \in Notifiers, NEW e \in Events, NotifyStart(h, e)
        PROVE  emails' = emails /\ InFlight(i)' = {}
    <3>1. /\ ItemOf[e] # i /\ emails' = emails
          /\ run' = [run EXCEPT ![h] = [pc |-> "resolved", event |-> e, attached |-> TRUE]]
      BY <2>3 DEF NotifyStart, debounced, take, effects
    <3>2. QED
      BY <2>1, <3>1 DEF InFlight, Busy, WorkerInv, TypeOK, Handlers
  <2>4. ASSUME NEW g \in Auditors, NEW e \in Events, AuditStart(g, e)
        PROVE  emails' = emails /\ InFlight(i)' = {}
    <3>1. /\ emails' = emails
          /\ run' = [run EXCEPT ![g] = [pc |-> "checked", event |-> e, attached |-> TRUE]]
      BY <2>4 DEF AuditStart, take, effects
    <3>2. g \notin Notifiers
      BY ConstantsAssumption
    <3>3. QED
      BY <2>1, <3>1, <3>2 DEF InFlight, Busy, WorkerInv, TypeOK, Handlers
  <2>5. ASSUME NEW h \in Handlers, SendEmail(h)
        PROVE  emails'[i] = emails[i] /\ InFlight(i)' = {}
    <3>1. h \in Notifiers /\ ItemOf[run[h].event] # i /\ ItemOf[run[h].event] \in Items
      BY <2>1, <2>5, ConstantsAssumption DEF SendEmail, WorkerInv, JobInv, Busy
    <3>2. /\ emails'[i] = emails[i]
          /\ \A g \in Handlers : run'[g].event = run[g].event /\ (Busy(g)' => Busy(g))
      BY <2>5, <3>1 DEF SendEmail, WorkerInv, TypeOK, Busy
    <3>3. QED
      BY <2>1, <3>2 DEF InFlight, Handlers
  <2>6. ASSUME NEW h \in Handlers,
               \/ Stamp(h) \/ NotifyEnd(h) \/ AuditInsert(h) \/ AuditEnd(h)
               \/ AttemptFails(h) \/ Expire(h)
        PROVE  emails' = emails /\ InFlight(i)' = {}
    <3>1. emails' = emails
      BY <2>6 DEF Stamp, NotifyEnd, AuditInsert, AuditEnd, AttemptFails, Expire, effects
    <3>2. run \in [Handlers -> RunRecord]
      BY DEF WorkerInv, TypeOK, RunRecord
    <3>3. CASE Stamp(h) \/ AuditInsert(h)
      BY <2>1, <3>1, <3>2, <3>3
         DEF Stamp, readyToStamp, AuditInsert, InFlight, Busy, Handlers, RunRecord
    <3>4. CASE NotifyEnd(h) \/ AuditEnd(h) \/ AttemptFails(h)
      BY <2>1, <3>1, <3>2, <3>4
         DEF NotifyEnd, AuditEnd, AttemptFails, return, IdleRun, InFlight, Busy, Handlers
    <3>5. CASE Expire(h)
      BY <2>1, <3>1, <3>2, <3>5 DEF Expire, InFlight, Busy, Handlers, RunRecord
    <3>6. QED
      BY <2>6, <3>3, <3>4, <3>5
  <2>7. \/ UNCHANGED <<emails, run>>
        \/ \E h \in Notifiers, e \in Events : NotifyStart(h, e)
        \/ \E g \in Auditors, e \in Events : AuditStart(g, e)
        \/ \E h \in Handlers : \/ SendEmail(h) \/ Stamp(h) \/ NotifyEnd(h) \/ AuditInsert(h)
                               \/ AuditEnd(h) \/ AttemptFails(h) \/ Expire(h)
    BY NextActions DEF InsertEvent, Dispatch, DispatchReauthAudit, Answer, RequestDies, Deliver,
                       NotifySkip, AuditSkip, RowInserted, effects
  <2>8. QED
    BY <2>2, <2>3, <2>4, <2>5, <2>6, <2>7
<1>2. QED
  BY <1>1, WorkerInvariance, PTL DEF Spec, QuietDebounce

-----------------------------------------------------------------------------
(* Counting handlers: e-mails and audit rows *)

\* Handlers whose attempt pg-boss has given up.
Detached == {h \in Handlers : Busy(h) /\ ~run[h].attached}

\* Handlers on item i that have yet to send; those of them whose attempt is
\* given up; and those whose attempt has sent and has yet to stamp.
Resolved(i) == {h \in Notifiers : run[h].pc = "resolved" /\ ItemOf[run[h].event] = i}
Adrift(i) == {h \in Resolved(i) : ~run[h].attached}
Sent(i) == {h \in Notifiers : /\ run[h].pc = "sent" /\ run[h].attached
                              /\ ItemOf[run[h].event] = i}

\* Handlers that have yet to insert the audit row of event e.
Checked(e) == {h \in Auditors : run[h].pc = "checked" /\ run[h].event = e}

\* A queue runs as many attempts as it may, and beyond them only the handlers
\* it gave up.
PoolInv ==
    /\ \A q \in Queue : Cardinality(Attached(q)) <= Concurrency
    /\ Cardinality(Detached) <= expiries

\* Rows written and rows still to be written.
RowsInv == \A e \in Events : reauthRows[e] + Cardinality(Checked(e)) <= 1 + expiries

\* A stamp follows an e-mail.
StampInv ==
    /\ \A h \in Notifiers : run[h].pc \in {"sent", "stamped"} =>
           emails[ItemOf[run[h].event]] > 0 \/ ItemOf[run[h].event] \in suppressed
    /\ NoSilentDebounce

\* Before the stamp an e-mail is one of an attempt that has still to stamp, or
\* of one that ended short of it; the attempts that ended before their e-mail
\* have it still to send.  After the stamp only those that had resolved the
\* item before can still send.
EmailInv ==
    /\ \A i \in Items \ recent :
           emails[i] + Cardinality(Adrift(i)) <= unstamped[i] + Cardinality(Sent(i))
    /\ \A i \in recent : emails[i] + Cardinality(Resolved(i)) <= Concurrency + unstamped[i]

CountInv == PoolInv /\ RowsInv /\ EmailInv

one(b) == IF b THEN 1 ELSE 0

\* T is S with h put in, taken out or left as it was.
Shifts(S, T, h) ==
    /\ Cardinality(S) \in Nat /\ Cardinality(T) \in Nat
    /\ Cardinality(T) + one(h \in S) = Cardinality(S) + one(h \in T)

\* Two finite sets that agree but for one element.
LEMMA OneMoves ==
    ASSUME NEW F, IsFiniteSet(F), NEW S \in SUBSET F, NEW T \in SUBSET F, NEW h \in F,
           \A x \in F \ {h} : x \in S <=> x \in T
    PROVE  Shifts(S, T, h)
<1>1. IsFiniteSet(S) /\ IsFiniteSet(T)
  BY FS_Subset
<1>2. Cardinality(S) \in Nat /\ Cardinality(T) \in Nat
  BY <1>1, FS_CardinalityType
<1>3. CASE h \in S <=> h \in T
  <2>1. S = T
    BY <1>3
  <2>2. QED
    BY <1>2, <2>1 DEF Shifts, one
<1>4. CASE h \in S /\ h \notin T
  <2>1. S = T \union {h}
    BY <1>4
  <2>2. Cardinality(S) = Cardinality(T) + 1
    BY <1>1, <1>4, <2>1, FS_AddElement
  <2>3. QED
    BY <1>2, <1>4, <2>2 DEF Shifts, one
<1>5. CASE h \notin S /\ h \in T
  <2>1. T = S \union {h}
    BY <1>5
  <2>2. Cardinality(T) = Cardinality(S) + 1
    BY <1>1, <1>5, <2>1, FS_AddElement
  <2>3. QED
    BY <1>2, <1>5, <2>2 DEF Shifts, one
<1>6. QED
  BY <1>3, <1>4, <1>5

\* The handlers are finitely many.
LEMMA FiniteHandlers == IsFiniteSet(Handlers)
  BY ConstantsAssumption, FS_Union DEF Handlers

\* One handler's step shifts each count by at most one.
LEMMA Counts ==
    ASSUME NEW h \in Handlers, \A g \in Handlers \ {h} : run'[g] = run[g]
    PROVE  /\ \A q \in Queue : Shifts(Attached(q), Attached(q)', h)
           /\ Shifts(Detached, Detached', h)
           /\ \A i \in Items : /\ Shifts(Resolved(i), Resolved(i)', h)
                               /\ Shifts(Adrift(i), Adrift(i)', h)
                               /\ Shifts(Sent(i), Sent(i)', h)
           /\ \A e \in Events : Shifts(Checked(e), Checked(e)', h)
<1>1. \A q \in Queue : Shifts(Attached(q), Attached(q)', h)
  BY FiniteHandlers, OneMoves DEF Attached
<1>2. Shifts(Detached, Detached', h)
  BY FiniteHandlers, OneMoves DEF Detached, Busy
<1>3. ASSUME NEW i \in Items
      PROVE  /\ Shifts(Resolved(i), Resolved(i)', h)
             /\ Shifts(Adrift(i), Adrift(i)', h)
             /\ Shifts(Sent(i), Sent(i)', h)
  <2>1. Shifts(Resolved(i), Resolved(i)', h)
    BY FiniteHandlers, OneMoves DEF Resolved, Handlers
  <2>2. Shifts(Sent(i), Sent(i)', h)
    BY FiniteHandlers, OneMoves DEF Sent, Handlers
  <2>3. Shifts(Adrift(i), Adrift(i)', h)
    BY FiniteHandlers, OneMoves DEF Adrift, Resolved, Handlers
  <2>4. QED
    BY <2>1, <2>2, <2>3
<1>4. ASSUME NEW e \in Events PROVE Shifts(Checked(e), Checked(e)', h)
  BY FiniteHandlers, OneMoves DEF Checked, Handlers
<1>5. QED
  BY <1>1, <1>2, <1>3, <1>4

\* The counts are numbers.
LEMMA CountTypes ==
    /\ \A q \in Queue : Cardinality(Attached(q)) \in Nat
    /\ Cardinality(Detached) \in Nat
    /\ \A i \in Items : /\ Cardinality(Resolved(i)) \in Nat /\ Cardinality(Adrift(i)) \in Nat
                        /\ Cardinality(Sent(i)) \in Nat
    /\ \A e \in Events : Cardinality(Checked(e)) \in Nat
<1>1. \A S \in SUBSET Handlers : Cardinality(S) \in Nat
  BY FiniteHandlers, FS_Subset, FS_CardinalityType
<1>2. QED
  BY <1>1 DEF Attached, Detached, Resolved, Adrift, Sent, Checked, Handlers

\* Nobody has run, sent or written.
LEMMA InitCountInv == Init => StampInv /\ CountInv
<1> SUFFICES ASSUME Init PROVE StampInv /\ CountInv
  OBVIOUS
<1>1. \A h \in Handlers : run[h] = IdleRun
  BY DEF Init
<1>2. /\ \A q \in Queue : Attached(q) = {}
      /\ Detached = {} /\ \A e \in Events : Checked(e) = {}
      /\ \A i \in Items : Sent(i) = {} /\ Adrift(i) = {}
  BY <1>1 DEF IdleRun, Attached, Detached, Checked, Sent, Adrift, Resolved, Busy, Handlers
<1>3. Cardinality({}) = 0
  BY FS_EmptySet
<1>4. StampInv
  BY <1>1 DEF Init, StampInv, NoSilentDebounce, IdleRun, Handlers
<1>5. PoolInv /\ RowsInv
  <2>1. /\ \A q \in Queue : Cardinality(Attached(q)) = 0
        /\ Cardinality(Detached) = 0 /\ \A e \in Events : Cardinality(Checked(e)) = 0
    BY <1>2, <1>3
  <2>2. expiries = 0 /\ Concurrency \in Nat /\ \A e \in Events : reauthRows[e] = 0
    BY ConstantsAssumption DEF Init
  <2>3. QED
    BY <2>1, <2>2 DEF PoolInv, RowsInv
<1>6. EmailInv
  <2>1. recent = {} /\ \A i \in Items : emails[i] = 0 /\ unstamped[i] = 0
    BY DEF Init
  <2>2. \A i \in Items : Cardinality(Sent(i)) = 0 /\ Cardinality(Adrift(i)) = 0
    BY <1>2, <1>3
  <2>3. QED
    BY <2>1, <2>2 DEF EmailInv
<1>7. QED
  BY <1>4, <1>5, <1>6 DEF CountInv

\* Steps that move no handler leave the counts alone.
LEMMA StillCount ==
    ASSUME WorkerInv, StampInv, CountInv, UNCHANGED <<suppressed, run, effects, expiries>>
    PROVE  StampInv' /\ CountInv'
<1>1. /\ \A q \in Queue : Attached(q)' = Attached(q)
      /\ Detached' = Detached /\ \A e \in Events : Checked(e)' = Checked(e)
      /\ \A i \in Items : /\ Sent(i)' = Sent(i) /\ Resolved(i)' = Resolved(i)
                          /\ Adrift(i)' = Adrift(i)
  BY DEF Attached, Detached, Checked, Sent, Resolved, Adrift, Busy
<1>2. StampInv'
  BY DEF StampInv, NoSilentDebounce, effects
<1>3. PoolInv' /\ RowsInv'
  BY <1>1 DEF CountInv, PoolInv, RowsInv, effects
<1>4. EmailInv'
  <2>1. UNCHANGED <<recent, emails, unstamped>>
    BY DEF effects
  <2>2. \A i \in recent : i \in Items
    BY DEF WorkerInv, TypeOK
  <2>3. QED
    BY <1>1, <2>1, <2>2 DEF CountInv, EmailInv
<1>5. QED
  BY <1>2, <1>3, <1>4 DEF CountInv

\* How the steps of a handler change its record, and no other.
LEMMA HandlerMoves ==
    ASSUME WorkerInv, NEW h \in Handlers
    PROVE  /\ \A e \in Events, pc \in {"resolved", "checked"} : take(h, e, pc) =>
                  /\ run'[h].pc = pc /\ run'[h].event = e /\ run'[h].attached
                  /\ \A g \in Handlers \ {h} : run'[g] = run[g]
           /\ \A pc \in {"sent", "stamped", "inserted"} : run' = [run EXCEPT ![h].pc = pc] =>
                  /\ run'[h].pc = pc /\ run'[h].event = run[h].event
                  /\ run'[h].attached <=> run[h].attached
                  /\ \A g \in Handlers \ {h} : run'[g] = run[g]
           /\ run' = [run EXCEPT ![h] = IdleRun] =>
                  /\ run'[h].pc = "idle" /\ ~run'[h].attached
                  /\ \A g \in Handlers \ {h} : run'[g] = run[g]
           /\ Expire(h) =>
                  /\ run'[h].pc = run[h].pc /\ run'[h].event = run[h].event
                  /\ ~run'[h].attached
                  /\ \A g \in Handlers \ {h} : run'[g] = run[g]
<1>1. run \in [Handlers -> RunRecord]
  BY DEF WorkerInv, TypeOK, RunRecord
<1>2. QED
  BY <1>1 DEF take, RunRecord, IdleRun, Expire

\* A worker takes a job: its queue had room.
LEMMA TakePool ==
    ASSUME WorkerInv, PoolInv, NEW h \in Handlers, NEW e \in Events,
           NEW pc \in {"resolved", "checked"}, take(h, e, pc), UNCHANGED expiries
    PROVE  PoolInv'
<1>1. /\ run'[h].pc = pc /\ run'[h].attached /\ ~run[h].attached /\ ~Busy(h)
      /\ \A g \in Handlers \ {h} : run'[g] = run[g]
      /\ Cardinality(Attached(queueOf(h))) < Concurrency
  BY HandlerMoves DEF take, mayFetch, WorkerInv, TypeOK
<1>2. Concurrency \in Nat
  BY ConstantsAssumption
<1>3. ASSUME NEW q \in Queue PROVE Cardinality(Attached(q)') <= Concurrency
  <2>1. /\ Shifts(Attached(q), Attached(q)', h) /\ h \notin Attached(q)
        /\ h \in Attached(q)' => q = queueOf(h)
    BY <1>1, Counts DEF Attached
  <2>2. Cardinality(Attached(q)) <= Concurrency
    BY DEF PoolInv
  <2>3. QED
    BY <1>1, <1>2, <2>1, <2>2 DEF Shifts, one
<1>4. Cardinality(Detached') <= expiries'
  <2>1. Shifts(Detached, Detached', h) /\ h \notin Detached /\ h \notin Detached'
    BY <1>1, Counts DEF Detached, Busy
  <2>2. QED
    BY <2>1 DEF Shifts, one, PoolInv
<1>5. QED
  BY <1>3, <1>4 DEF PoolInv

\* A busy handler goes on, ends or is given up.
LEMMA BusyPool ==
    ASSUME WorkerInv, PoolInv, NEW h \in Handlers, Busy(h),
           \A g \in Handlers \ {h} : run'[g] = run[g],
           run'[h].attached \in BOOLEAN, run'[h].attached => run[h].attached,
           \/ expiries' = expiries /\ (Busy(h)' => (run'[h].attached <=> run[h].attached))
           \/ expiries' = expiries + 1
    PROVE  PoolInv'
<1>1. Concurrency \in Nat /\ expiries \in Nat
  BY ConstantsAssumption DEF WorkerInv, TypeOK
<1>2. ASSUME NEW q \in Queue PROVE Cardinality(Attached(q)') <= Concurrency
  <2>1. /\ Shifts(Attached(q), Attached(q)', h)
        /\ h \in Attached(q)' => h \in Attached(q)
    BY Counts DEF Attached
  <2>2. Cardinality(Attached(q)) <= Concurrency
    BY DEF PoolInv
  <2>3. QED
    BY <1>1, <2>1, <2>2 DEF Shifts, one
<1>3. Cardinality(Detached') <= expiries'
  <2>1. /\ Shifts(Detached, Detached', h)
        /\ expiries' # expiries + 1 => expiries' = expiries /\ (h \in Detached' => h \in Detached)
    <3>1. Shifts(Detached, Detached', h)
      BY Counts
    <3>2. h \in Detached' => Busy(h)' /\ ~run'[h].attached
      BY DEF Detached
    <3>3. ~run[h].attached => h \in Detached
      BY DEF Detached
    <3>4. QED
      BY <3>1, <3>2, <3>3
  <2>2. Cardinality(Detached) <= expiries
    BY DEF PoolInv
  <2>3. QED
    BY <1>1, <2>1, <2>2 DEF Shifts, one
<1>4. QED
  BY <1>2, <1>3 DEF PoolInv

\* The pools stay within their bounds.
LEMMA HandlerPool ==
    ASSUME WorkerInv, WorkerInv', PoolInv, NEW h \in Handlers,
           \/ \E e \in Events : NotifyStart(h, e) \/ AuditStart(h, e)
           \/ SendEmail(h) \/ Stamp(h) \/ NotifyEnd(h) \/ AuditInsert(h) \/ AuditEnd(h)
           \/ AttemptFails(h) \/ Expire(h)
    PROVE  PoolInv'
<1>1. run'[h].attached \in BOOLEAN /\ expiries \in Nat
  BY DEF WorkerInv, TypeOK
<1>2. CASE \E e \in Events : NotifyStart(h, e) \/ AuditStart(h, e)
  BY <1>2, TakePool DEF NotifyStart, AuditStart
<1>3. CASE SendEmail(h) \/ Stamp(h) \/ AuditInsert(h)
  <2>1. PICK pc \in {"sent", "stamped", "inserted"} : run' = [run EXCEPT ![h].pc = pc]
    BY <1>3 DEF SendEmail, Stamp, AuditInsert
  <2>2. Busy(h) /\ expiries' = expiries
    BY <1>3 DEF SendEmail, Stamp, readyToStamp, AuditInsert, Busy
  <2>3. QED
    BY <1>1, <2>1, <2>2, HandlerMoves, BusyPool
<1>4. CASE NotifyEnd(h) \/ AuditEnd(h) \/ AttemptFails(h)
  <2>1. run' = [run EXCEPT ![h] = IdleRun] /\ Busy(h) /\ expiries' = expiries
    BY <1>4 DEF NotifyEnd, AuditEnd, AttemptFails, return, Busy
  <2>2. ~Busy(h)' /\ ~run'[h].attached /\ \A g \in Handlers \ {h} : run'[g] = run[g]
    BY <2>1, HandlerMoves DEF Busy
  <2>3. QED
    BY <1>1, <2>1, <2>2, BusyPool
<1>5. CASE Expire(h)
  <2>1. Busy(h) /\ expiries' = expiries + 1
    BY <1>5 DEF Expire, WorkerInv, TypeOK
  <2>2. QED
    BY <1>1, <1>5, <2>1, HandlerMoves, BusyPool
<1>6. QED
  BY <1>2, <1>3, <1>4, <1>5

\* A handler that checks for a row of which the job waits again is joined only
\* by handlers given up before.
LEMMA CheckedAreDetached ==
    ASSUME WorkerInv, NEW e \in Events, job["reauthAudit"][e].state = "created"
    PROVE  Checked(e) \subseteq Detached
<1> SUFFICES ASSUME NEW g \in Checked(e) PROVE g \in Detached
  OBVIOUS
<1>1. g \in Auditors /\ g \in Handlers /\ Busy(g) /\ run[g].event = e
  BY DEF Checked, Handlers, Busy
<1>2. ~run[g].attached
  BY <1>1, QueueOfHandler DEF WorkerInv, TypeOK
<1>3. QED
  BY <1>1, <1>2 DEF Detached

\* A job that is taken adds at most one row to come; an insert uses one up.
LEMMA HandlerRows ==
    ASSUME WorkerInv, WorkerInv', PoolInv, RowsInv, NEW h \in Handlers,
           \/ \E e \in Events : NotifyStart(h, e) /\ h \in Notifiers
           \/ \E e \in Events : AuditStart(h, e) /\ h \in Auditors
           \/ SendEmail(h) \/ Stamp(h) \/ NotifyEnd(h) \/ AuditInsert(h) \/ AuditEnd(h)
           \/ AttemptFails(h) \/ Expire(h)
    PROVE  RowsInv'
<1> SUFFICES ASSUME NEW d \in Events
             PROVE  reauthRows'[d] + Cardinality(Checked(d)') <= 1 + expiries'
  BY DEF RowsInv
<1>1. /\ reauthRows \in [Events -> Nat] /\ expiries \in Nat
      /\ reauthRows[d] + Cardinality(Checked(d)) <= 1 + expiries
  BY DEF WorkerInv, TypeOK, RowsInv
<1>2. (\A g \in Handlers \ {h} : run'[g] = run[g]) => Shifts(Checked(d), Checked(d)', h)
  BY Counts
<1>3. ASSUME \A g \in Handlers \ {h} : run'[g] = run[g], h \in Checked(d)' => h \in Checked(d),
             reauthRows' = reauthRows, expiries' = expiries \/ expiries' = expiries + 1
      PROVE  reauthRows'[d] + Cardinality(Checked(d)') <= 1 + expiries'
  BY <1>1, <1>2, <1>3 DEF Shifts, one
<1>4. ASSUME NEW e \in Events, NotifyStart(h, e), h \in Notifiers
      PROVE  reauthRows'[d] + Cardinality(Checked(d)') <= 1 + expiries'
  <2>1. h \notin Auditors
    BY <1>4, ConstantsAssumption
  <2>2. h \notin Checked(d)' /\ reauthRows' = reauthRows /\ expiries' = expiries
    BY <1>4, <2>1 DEF NotifyStart, effects, Checked
  <2>3. QED
    BY <1>3, <1>4, <2>2, HandlerMoves DEF NotifyStart
<1>5. ASSUME NEW e \in Events, AuditStart(h, e), h \in Auditors
      PROVE  reauthRows'[d] + Cardinality(Checked(d)') <= 1 + expiries'
  <2>1. /\ run'[h].pc = "checked" /\ run'[h].event = e
        /\ \A g \in Handlers \ {h} : run'[g] = run[g]
        /\ reauthRows' = reauthRows /\ expiries' = expiries
    BY <1>5, HandlerMoves DEF AuditStart, effects
  <2>2. CASE d # e
    BY <1>3, <2>1, <2>2 DEF Checked
  <2>3. CASE d = e
    <3>1. reauthRows[d] = 0 /\ job["reauthAudit"][d].state = "created"
      BY <1>1, <1>5, <2>3, QueueOfHandler DEF AuditStart, alreadyWritten, take
    <3>2. Cardinality(Checked(d)) <= Cardinality(Detached)
      <4>1. Checked(d) \subseteq Detached
        BY <3>1, CheckedAreDetached
      <4>2. IsFiniteSet(Detached)
        BY FiniteHandlers, FS_Subset DEF Detached
      <4>3. QED
        BY <4>1, <4>2, FS_Subset
    <3>3. Cardinality(Detached) <= expiries
      BY DEF PoolInv
    <3>4. QED
      BY <1>1, <1>2, <2>1, <3>1, <3>2, <3>3, CountTypes DEF Shifts, one
  <2>4. QED
    BY <2>2, <2>3
<1>6. CASE AuditInsert(h)
  <2>1. /\ h \in Auditors /\ h \in Handlers /\ run[h].pc = "checked" /\ run[h].event \in Events
        /\ run'[h].pc = "inserted" /\ \A g \in Handlers \ {h} : run'[g] = run[g]
        /\ expiries' = expiries
    BY <1>6, HandlerMoves DEF AuditInsert, WorkerInv, JobInv, Busy
  <2>2. /\ h \notin Checked(d)' /\ (h \in Checked(d) <=> run[h].event = d)
    BY <2>1 DEF Checked
  <2>3. \/ reauthRows'[d] = reauthRows[d]
        \/ run[h].event = d /\ reauthRows'[d] = reauthRows[d] + 1
    BY <1>1, <1>6, <2>1 DEF AuditInsert
  <2>4. QED
    BY <1>1, <1>2, <2>1, <2>2, <2>3 DEF Shifts, one
<1>7. CASE SendEmail(h) \/ Stamp(h)
  <2>1. PICK pc \in {"sent", "stamped"} : run' = [run EXCEPT ![h].pc = pc]
    BY <1>7 DEF SendEmail, Stamp
  <2>2. /\ h \notin Checked(d)' /\ reauthRows' = reauthRows /\ expiries' = expiries
        /\ \A g \in Handlers \ {h} : run'[g] = run[g]
    BY <1>7, <2>1, HandlerMoves DEF SendEmail, Stamp, Checked
  <2>3. QED
    BY <1>3, <2>2
<1>8. CASE NotifyEnd(h) \/ AuditEnd(h) \/ AttemptFails(h)
  <2>1. run' = [run EXCEPT ![h] = IdleRun] /\ reauthRows' = reauthRows /\ expiries' = expiries
    BY <1>8 DEF NotifyEnd, AuditEnd, AttemptFails, return, effects
  <2>2. h \notin Checked(d)' /\ \A g \in Handlers \ {h} : run'[g] = run[g]
    BY <2>1, HandlerMoves DEF Checked
  <2>3. QED
    BY <1>3, <2>1, <2>2
<1>9. CASE Expire(h)
  <2>1. reauthRows' = reauthRows /\ expiries' = expiries + 1
    BY <1>9 DEF Expire, effects
  <2>2. (h \in Checked(d)' => h \in Checked(d)) /\ \A g \in Handlers \ {h} : run'[g] = run[g]
    BY <1>9, HandlerMoves DEF Checked
  <2>3. QED
    BY <1>3, <2>1, <2>2
<1>10. QED
  BY <1>4, <1>5, <1>6, <1>7, <1>8, <1>9

\* A handler that has sent, or that stamps, has an e-mail behind it.
LEMMA HandlerStamps ==
    ASSUME WorkerInv, WorkerInv', StampInv, NEW h \in Handlers, UNCHANGED suppressed,
           \/ \E e \in Events : NotifyStart(h, e) \/ AuditStart(h, e)
           \/ SendEmail(h) \/ Stamp(h) \/ NotifyEnd(h) \/ AuditInsert(h) \/ AuditEnd(h)
           \/ AttemptFails(h) \/ Expire(h)
    PROVE  StampInv'
<1> DEFINE told(i) == emails[i] > 0 \/ i \in suppressed
<1>1. /\ emails \in [Items -> Nat] /\ recent \subseteq {i \in Items : told(i)}
      /\ \A g \in Notifiers : run[g].pc \in {"sent", "stamped"} => told(ItemOf[run[g].event])
  BY DEF WorkerInv, TypeOK, StampInv, NoSilentDebounce
<1>2. ASSUME emails' = emails, recent' = recent, \A g \in Handlers \ {h} : run'[g] = run[g],
             run'[h].pc \in {"sent", "stamped"} =>
                 run[h].pc \in {"sent", "stamped"} /\ run'[h].event = run[h].event
      PROVE  StampInv'
  <2>1. \A g \in Notifiers : run'[g].pc \in {"sent", "stamped"} => told(ItemOf[run'[g].event])
    BY <1>1, <1>2 DEF Handlers
  <2>2. QED
    BY <1>1, <1>2, <2>1 DEF StampInv, NoSilentDebounce
<1>3. CASE \E e \in Events : NotifyStart(h, e) \/ AuditStart(h, e)
  <2>1. PICK pc \in {"resolved", "checked"}, e \in Events : take(h, e, pc)
    BY <1>3 DEF NotifyStart, AuditStart
  <2>2. emails' = emails /\ recent' = recent
    BY <1>3 DEF NotifyStart, AuditStart, effects
  <2>3. QED
    BY <1>2, <2>1, <2>2, HandlerMoves
<1>4. CASE NotifyEnd(h) \/ AuditEnd(h) \/ AttemptFails(h)
  <2>1. run' = [run EXCEPT ![h] = IdleRun] /\ emails' = emails /\ recent' = recent
    BY <1>4 DEF NotifyEnd, AuditEnd, AttemptFails, return, effects
  <2>2. QED
    BY <1>2, <2>1, HandlerMoves
<1>5. CASE Expire(h)
  <2>1. emails' = emails /\ recent' = recent
    BY <1>5 DEF Expire, effects
  <2>2. QED
    BY <1>2, <1>5, <2>1, HandlerMoves
<1>6. CASE AuditInsert(h)
  <2>1. run' = [run EXCEPT ![h].pc = "inserted"] /\ emails' = emails /\ recent' = recent
    BY <1>6 DEF AuditInsert
  <2>2. QED
    BY <1>2, <2>1, HandlerMoves
<1>7. CASE SendEmail(h)
  <2>1. PICK i \in Items : ItemOf[run[h].event] = i
    BY <1>7, ConstantsAssumption DEF SendEmail, WorkerInv, JobInv, Busy
  <2>2. /\ \A j \in Items : emails'[j] >= emails[j] /\ emails'[j] \in Nat
        /\ i \in suppressed \/ emails'[i] > 0
        /\ recent' = recent /\ run'[h].event = run[h].event
        /\ \A g \in Handlers \ {h} : run'[g] = run[g]
    BY <1>1, <1>7, <2>1, HandlerMoves DEF SendEmail
  <2>3. \A j \in Items : told(j) => emails'[j] > 0 \/ j \in suppressed
    BY <1>1, <2>2
  <2>4. \A g \in Notifiers : run[g].pc \in {"sent", "stamped"} => ItemOf[run[g].event] \in Items
    BY ConstantsAssumption DEF WorkerInv, JobInv, Busy, Handlers
  <2>5. \A g \in Notifiers : run'[g].pc \in {"sent", "stamped"} =>
            emails'[ItemOf[run'[g].event]] > 0 \/ ItemOf[run'[g].event] \in suppressed
    BY <1>1, <2>1, <2>2, <2>3, <2>4 DEF Handlers
  <2>6. recent \subseteq {j \in Items : emails'[j] > 0} \union suppressed
    BY <1>1, <2>3
  <2>7. QED
    BY <2>2, <2>5, <2>6 DEF StampInv, NoSilentDebounce
<1>8. CASE Stamp(h)
  <2>1. /\ run' = [run EXCEPT ![h].pc = "stamped"] /\ emails' = emails /\ run[h].pc = "sent"
        /\ recent' = recent \union {ItemOf[run[h].event]} /\ h \in Notifiers
        /\ ItemOf[run[h].event] \in Items
    BY <1>8, ConstantsAssumption DEF Stamp, readyToStamp, WorkerInv, JobInv, Busy
  <2>2. run'[h].event = run[h].event /\ \A g \in Handlers \ {h} : run'[g] = run[g]
    BY <2>1, HandlerMoves
  <2>3. told(ItemOf[run[h].event])
    BY <1>1, <2>1
  <2>4. \A g \in Notifiers : run'[g].pc \in {"sent", "stamped"} => told(ItemOf[run'[g].event])
    BY <1>1, <2>1, <2>2, <2>3 DEF Handlers
  <2>5. recent' \subseteq {i \in Items : told(i)}
    BY <1>1, <2>1, <2>3
  <2>6. QED
    BY <2>1, <2>4, <2>5 DEF StampInv, NoSilentDebounce
<1>9. QED
  BY <1>3, <1>4, <1>5, <1>6, <1>7, <1>8

\* How many attempts on one item are between lookup and stamp.
LEMMA StampCount ==
    ASSUME WorkerInv, PoolInv, NEW i \in Items
    PROVE  Cardinality(Sent(i)) + Cardinality(Resolved(i)) <= Concurrency + Cardinality(Adrift(i))
<1> DEFINE A == Attached("notifier")
<1>1. /\ IsFiniteSet(A) /\ IsFiniteSet(Adrift(i)) /\ IsFiniteSet(Sent(i))
      /\ IsFiniteSet(Resolved(i))
  BY FiniteHandlers, FS_Subset DEF Attached, Adrift, Sent, Resolved, Handlers
<1>2. Sent(i) \union Resolved(i) \subseteq A \union Adrift(i)
  <2>1. \A h \in Notifiers : h \in Handlers /\ queueOf(h) = "notifier"
    BY DEF Handlers, queueOf
  <2>2. QED
    BY <2>1 DEF Attached, Adrift, Sent, Resolved
<1>3. Sent(i) \intersect Resolved(i) = {}
  BY DEF Sent, Resolved
<1>4. Cardinality(Sent(i) \union Resolved(i)) = Cardinality(Sent(i)) + Cardinality(Resolved(i))
  <2>1. Cardinality(Sent(i) \intersect Resolved(i)) = 0
    BY <1>3, FS_EmptySet
  <2>2. Cardinality(Sent(i) \union Resolved(i))
            = Cardinality(Sent(i)) + Cardinality(Resolved(i))
                  - Cardinality(Sent(i) \intersect Resolved(i))
    BY <1>1, FS_Union
  <2>3. QED
    BY <2>1, <2>2, CountTypes
<1>5. /\ Cardinality(Sent(i) \union Resolved(i)) <= Cardinality(A \union Adrift(i))
      /\ Cardinality(A \union Adrift(i))
             = Cardinality(A) + Cardinality(Adrift(i)) - Cardinality(A \intersect Adrift(i))
      /\ Cardinality(A \intersect Adrift(i)) \in Nat
  BY <1>1, <1>2, FS_Union, FS_Subset, FS_Intersection, FS_CardinalityType
<1>6. /\ Cardinality(A) <= Concurrency
      /\ Cardinality(A) \in Nat /\ Cardinality(Adrift(i)) \in Nat
  BY CountTypes DEF PoolInv, Queue
<1>7. Concurrency \in Nat
  BY ConstantsAssumption
<1>8. QED
  BY <1>4, <1>5, <1>6, <1>7, CountTypes

\* A handler's step keeps the account of every item's e-mails.
LEMMA HandlerEmails ==
    ASSUME WorkerInv, WorkerInv', PoolInv, EmailInv, NEW h \in Handlers,
           \/ \E e \in Events : NotifyStart(h, e) \/ AuditStart(h, e)
           \/ SendEmail(h) \/ Stamp(h) \/ NotifyEnd(h) \/ AuditInsert(h) \/ AuditEnd(h)
           \/ AttemptFails(h) \/ Expire(h)
    PROVE  EmailInv'
<1> DEFINE fine(i) ==
               /\ i \notin recent' => emails'[i] + Cardinality(Adrift(i)')
                                         <= unstamped'[i] + Cardinality(Sent(i)')
               /\ i \in recent' =>
                      emails'[i] + Cardinality(Resolved(i)') <= Concurrency + unstamped'[i]
<1> SUFFICES ASSUME NEW i \in Items PROVE fine(i)
  <2>1. recent' \subseteq Items
    BY DEF WorkerInv, TypeOK
  <2>2. QED
    BY <2>1 DEF EmailInv
<1>1. /\ emails \in [Items -> Nat] /\ unstamped \in [Items -> Nat] /\ Concurrency \in Nat
      /\ i \notin recent =>
             emails[i] + Cardinality(Adrift(i)) <= unstamped[i] + Cardinality(Sent(i))
      /\ i \in recent => emails[i] + Cardinality(Resolved(i)) <= Concurrency + unstamped[i]
  BY ConstantsAssumption DEF WorkerInv, TypeOK, EmailInv
<1>2. (\A g \in Handlers \ {h} : run'[g] = run[g]) =>
          /\ Shifts(Resolved(i), Resolved(i)', h)
          /\ Shifts(Adrift(i), Adrift(i)', h)
          /\ Shifts(Sent(i), Sent(i)', h)
  BY Counts
<1>3. ASSUME NEW e \in Events, NotifyStart(h, e) \/ AuditStart(h, e) PROVE fine(i)
  <2>1. PICK pc \in {"resolved", "checked"} : take(h, e, pc)
    BY <1>3 DEF NotifyStart, AuditStart
  <2>2. /\ UNCHANGED <<emails, recent, unstamped>>
        /\ run[h].pc = "idle" /\ run'[h].pc = pc /\ run'[h].event = e /\ run'[h].attached
        /\ \A g \in Handlers \ {h} : run'[g] = run[g]
    <3>1. UNCHANGED <<emails, recent, unstamped>>
      BY <1>3 DEF NotifyStart, AuditStart, effects
    <3>2. run[h].pc = "idle"
      BY <2>1 DEF take, mayFetch, Busy
    <3>3. QED
      BY <2>1, <3>1, <3>2, HandlerMoves
  <2>3. /\ h \notin Sent(i) /\ h \notin Sent(i)' /\ h \notin Resolved(i)
        /\ h \notin Adrift(i) /\ h \notin Adrift(i)'
    BY <2>2 DEF Sent, Resolved, Adrift
  <2>4. i \in recent => h \notin Resolved(i)'
    <3>1. CASE NotifyStart(h, e)
      BY <2>2, <3>1 DEF NotifyStart, debounced, Resolved
    <3>2. CASE AuditStart(h, e)
      <4>1. run'[h].pc = "checked"
        BY <3>2, HandlerMoves DEF AuditStart
      <4>2. QED
        BY <4>1 DEF Resolved
    <3>3. QED
      BY <1>3, <3>1, <3>2
  <2>5. QED
    BY <1>1, <1>2, <2>2, <2>3, <2>4 DEF Shifts, one
<1>4. CASE NotifyEnd(h) \/ AuditEnd(h) \/ AttemptFails(h)
  <2>1. /\ UNCHANGED <<emails, recent>> /\ run' = [run EXCEPT ![h] = IdleRun]
        /\ \/ unstamped' = missed(h, {"sent"})
           \/ unstamped' = unstamped /\ run[h].pc \in {"stamped", "inserted"}
    <3>1. CASE NotifyEnd(h) \/ AuditEnd(h)
      BY <3>1 DEF NotifyEnd, AuditEnd, return, effects
    <3>2. CASE AttemptFails(h)
      BY <3>2 DEF AttemptFails
    <3>3. QED
      BY <1>4, <3>1, <3>2
  <2>2. run'[h].pc = "idle" /\ \A g \in Handlers \ {h} : run'[g] = run[g]
    BY <2>1, HandlerMoves
  <2>3. /\ h \notin Sent(i)' /\ h \notin Resolved(i)' /\ h \notin Adrift(i)'
        /\ h \notin Sent(i) \/ h \notin Adrift(i)
    BY <2>2 DEF Sent, Resolved, Adrift
  <2>4. /\ unstamped'[i] \in Nat /\ unstamped'[i] >= unstamped[i]
        /\ h \in Sent(i) => unstamped'[i] = unstamped[i] + 1
    BY <1>1, <2>1 DEF Sent, missed
  <2>5. QED
    BY <1>1, <1>2, <2>1, <2>2, <2>3, <2>4 DEF Shifts, one
<1>5. CASE Expire(h)
  <2>1. /\ UNCHANGED <<emails, recent>> /\ unstamped' = missed(h, {"resolved", "sent"})
        /\ run'[h].pc = run[h].pc /\ run'[h].event = run[h].event
        /\ run[h].attached /\ ~run'[h].attached
        /\ \A g \in Handlers \ {h} : run'[g] = run[g]
    BY <1>5, HandlerMoves DEF Expire
  <2>2. /\ h \notin Sent(i)' /\ h \notin Adrift(i)
        /\ h \in Resolved(i)' <=> h \in Resolved(i)
        /\ h \in Adrift(i)' <=> h \in Resolved(i)
        /\ h \notin Sent(i) \/ h \notin Resolved(i)
    BY <2>1 DEF Sent, Resolved, Adrift
  <2>3. /\ unstamped'[i] \in Nat /\ unstamped'[i] >= unstamped[i]
        /\ h \in Sent(i) \union Resolved(i) => unstamped'[i] = unstamped[i] + 1
    BY <1>1, <2>1 DEF Sent, Resolved, missed
  <2>4. QED
    BY <1>1, <1>2, <2>1, <2>2, <2>3 DEF Shifts, one
<1>6. CASE AuditInsert(h)
  <2>1. /\ UNCHANGED <<emails, recent, unstamped>>
        /\ run' = [run EXCEPT ![h].pc = "inserted"] /\ run[h].pc = "checked"
    BY <1>6 DEF AuditInsert
  <2>2. run'[h].pc = "inserted" /\ \A g \in Handlers \ {h} : run'[g] = run[g]
    BY <2>1, HandlerMoves
  <2>3. /\ h \notin Sent(i) /\ h \notin Sent(i)' /\ h \notin Resolved(i) /\ h \notin Resolved(i)'
        /\ h \notin Adrift(i) /\ h \notin Adrift(i)'
    BY <2>1, <2>2 DEF Sent, Resolved, Adrift
  <2>4. QED
    BY <1>1, <1>2, <2>1, <2>2, <2>3 DEF Shifts, one
<1>7. CASE SendEmail(h)
  <2>1. PICK k \in Items : ItemOf[run[h].event] = k
    BY <1>7, ConstantsAssumption DEF SendEmail, WorkerInv, JobInv, Busy
  <2>2. /\ UNCHANGED <<recent, unstamped>> /\ h \in Notifiers
        /\ run[h].pc = "resolved" /\ run'[h].pc = "sent" /\ run'[h].event = run[h].event
        /\ run'[h].attached <=> run[h].attached
        /\ \A g \in Handlers \ {h} : run'[g] = run[g]
    BY <1>7, HandlerMoves DEF SendEmail, WorkerInv, JobInv
  <2>3. \/ emails'[i] = emails[i]
        \/ i = k /\ emails'[i] = emails[i] + 1
    BY <1>1, <1>7, <2>1 DEF SendEmail
  <2>4. /\ h \notin Sent(i) /\ (h \in Sent(i)' <=> i = k /\ run[h].attached)
        /\ h \notin Resolved(i)' /\ (h \in Resolved(i) <=> i = k)
        /\ h \notin Adrift(i)' /\ (h \in Adrift(i) <=> i = k /\ ~run[h].attached)
    BY <2>1, <2>2 DEF Sent, Resolved, Adrift
  <2>5. QED
    BY <1>1, <1>2, <2>2, <2>3, <2>4 DEF Shifts, one
<1>8. CASE Stamp(h)
  <2>1. PICK k \in Items : ItemOf[run[h].event] = k
    BY <1>8, ConstantsAssumption DEF Stamp, readyToStamp, WorkerInv, JobInv, Busy
  <2>2. /\ UNCHANGED <<emails, unstamped>> /\ recent' = recent \union {k}
        /\ run' = [run EXCEPT ![h].pc = "stamped"] /\ run[h].pc = "sent"
    BY <1>8, <2>1 DEF Stamp, readyToStamp
  <2>3. /\ run'[h].pc = "stamped" /\ run'[h].event = run[h].event
        /\ \A g \in Handlers \ {h} : run'[g] = run[g]
    BY <2>2, HandlerMoves
  <2>4. /\ h \notin Resolved(i) /\ h \notin Resolved(i)'
        /\ h \notin Adrift(i) /\ h \notin Adrift(i)'
        /\ h \notin Sent(i)' /\ (h \in Sent(i) => i = k)
    BY <2>1, <2>2, <2>3 DEF Sent, Resolved, Adrift
  <2>5. CASE i # k
    BY <1>1, <1>2, <2>2, <2>3, <2>4, <2>5 DEF Shifts, one
  <2>6. CASE i = k /\ i \in recent
    BY <1>1, <1>2, <2>2, <2>3, <2>4, <2>6 DEF Shifts, one
  <2>7. CASE i = k /\ i \notin recent
    <3>1. Cardinality(Sent(i)) + Cardinality(Resolved(i))
              <= Concurrency + Cardinality(Adrift(i))
      BY StampCount
    <3>2. Cardinality(Resolved(i)') = Cardinality(Resolved(i))
      BY <1>2, <2>3, <2>4 DEF Shifts, one
    <3>3. QED
      BY <1>1, <2>2, <2>7, <3>1, <3>2, CountTypes
  <2>8. QED
    BY <2>5, <2>6, <2>7
<1>9. QED
  BY <1>3, <1>4, <1>5, <1>6, <1>7, <1>8

\* Every step keeps the counts.
LEMMA NextCountInv ==
    ASSUME WorkerInv, WorkerInv', StampInv, CountInv, [Next]_vars
    PROVE  StampInv' /\ CountInv'
<1>2. CASE UNCHANGED vars
  BY <1>2, StillCount DEF vars, external
<1>3. ASSUME NEW h \in Handlers,
             \/ \E e \in Events : NotifyStart(h, e) /\ h \in Notifiers
             \/ \E e \in Events : AuditStart(h, e) /\ h \in Auditors
             \/ SendEmail(h) \/ Stamp(h) \/ NotifyEnd(h) \/ AuditInsert(h) \/ AuditEnd(h)
             \/ AttemptFails(h) \/ Expire(h)
      PROVE  StampInv' /\ CountInv'
  <2>1. UNCHANGED suppressed
    BY <1>3 DEF NotifyStart, AuditStart, SendEmail, Stamp, NotifyEnd, AuditInsert, AuditEnd,
                AttemptFails, Expire, external
  <2>2. QED
    BY <1>3, <2>1, HandlerStamps, HandlerPool, HandlerRows, HandlerEmails DEF CountInv
<1>4. ASSUME \/ \E r \in Requests :
                  \/ InsertEvent(r) \/ Dispatch(r) \/ DispatchReauthAudit(r) \/ Answer(r)
                  \/ RequestDies(r) \/ \E e \in Events : Deliver(r, e)
             \/ \E h \in Notifiers, e \in Events : NotifySkip(h, e)
             \/ \E g \in Auditors, e \in Events : AuditSkip(g, e)
             \/ \E i \in Items : RowInserted(i)
      PROVE  StampInv' /\ CountInv'
  <2>1. UNCHANGED <<suppressed, run, effects, expiries>>
    BY <1>4 DEF InsertEvent, Dispatch, DispatchReauthAudit, Answer, RequestDies, Deliver,
                      NotifySkip, AuditSkip, RowInserted, external
  <2>2. QED
    BY <2>1, StillCount
<1>5. CASE Next
  BY <1>3, <1>4, <1>5, NextActions DEF Handlers
<1>6. QED
  BY <1>2, <1>5

\* The counts hold in every reachable state.
LEMMA CountInvariance == Spec => [](WorkerInv /\ StampInv /\ CountInv)
<1>1. Init => StampInv /\ CountInv
  BY InitCountInv
<1>2. WorkerInv /\ WorkerInv' /\ StampInv /\ CountInv /\ [Next]_vars => StampInv' /\ CountInv'
  BY NextCountInv
<1>3. QED
  BY <1>1, <1>2, WorkerInvariance, PTL DEF Spec

\* The storm the debounce lets through: one e-mail per attempt the queue runs at
\* one time, and one per attempt on the item that ended short of its stamp.
THEOREM StormBounded == Spec => []EmailStormBounded
<1>1. WorkerInv /\ CountInv => EmailStormBounded
  <2> SUFFICES ASSUME WorkerInv, CountInv, NEW i \in Items
               PROVE  emails[i] <= Concurrency + unstamped[i]
    BY DEF EmailStormBounded
  <2>1. /\ emails[i] \in Nat /\ unstamped[i] \in Nat /\ Concurrency \in Nat
        /\ Cardinality(Sent(i)) \in Nat /\ Cardinality(Resolved(i)) \in Nat
        /\ Cardinality(Adrift(i)) \in Nat
    BY CountTypes, ConstantsAssumption DEF WorkerInv, TypeOK
  <2>2. Cardinality(Sent(i)) + Cardinality(Resolved(i)) <= Concurrency + Cardinality(Adrift(i))
    BY StampCount DEF CountInv
  <2>3. QED
    BY <2>1, <2>2 DEF CountInv, EmailInv
<1>2. QED
  BY <1>1, CountInvariance, PTL

\* One audit row per event, and one more per attempt given up while it ran.
THEOREM RowsBounded == Spec => []ReauthRowsBounded
<1>1. WorkerInv /\ CountInv => ReauthRowsBounded
  <2> SUFFICES ASSUME WorkerInv, CountInv, NEW e \in Events
               PROVE  reauthRows[e] <= 1 + expiries
    BY DEF ReauthRowsBounded
  <2>1. reauthRows[e] \in Nat /\ expiries \in Nat /\ Cardinality(Checked(e)) \in Nat
    BY CountTypes DEF WorkerInv, TypeOK
  <2>2. QED
    BY <2>1 DEF CountInv, RowsInv
<1>2. QED
  BY <1>1, CountInvariance, PTL

\* No item is silenced whose owner got no e-mail, suppressed addresses apart.
THEOREM DebounceIsEarned == Spec => []NoSilentDebounce
<1>1. StampInv => NoSilentDebounce
  BY DEF StampInv
<1>2. QED
  BY <1>1, CountInvariance, PTL

=============================================================================
