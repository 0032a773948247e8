-------------------------- MODULE DsrRequestsProofs --------------------------
(***************************************************************************)
(* The suppression list and the mails that leave beside it, for any number *)
(* of notices, recipients, requests and failures.                          *)
(*                                                                         *)
(* ProgressInv says how far down its recipients each handler of a bounce   *)
(* job has got; CountInv what its attempts have left in notification_ids   *)
(* and what one that expired may yet add; LateInv that once the user is on *)
(* the list only the handlers noted then are past the guard of sendEmail.  *)
(* JobInv is what the refinement of EventInbox rests on.                   *)
(***************************************************************************)
EXTENDS DsrRequests, TLAPS

recipients(n, i) == {RecipientsOf[n][j] : j \in {k \in 1..Len(RecipientsOf[n]) : k < i}}

\* A notice has one job, made by the request that stored it.
JobInv ==
    /\ \A n \in storing : bounce[n].state = "none" /\ event[n] = "stored"
    /\ \A n \in Notices : event[n] = "none" => bounce[n].state = "none"
    /\ \A n \in Notices : bounce[n].state = "none" => stray[n] = 0

\* The recipients a handler has passed are on the list.
ProgressInv ==
    \A n \in Notices :
      /\ bounce[n].state = "running" =>
           \A a \in recipients(n, bounce[n].next) : ids[a][n] > 0
      /\ \A a \in recipients(n, stray[n]) : ids[a][n] > 0

\* The entry that a handler without an attempt may still make.
due(n, a) == IF stray[n] # 0 /\ a \notin recipients(n, stray[n]) THEN 1 ELSE 0

\* Entries a notice has made and may make, by the attempts that are over and the
\* running one.
CountInv ==
    \A n \in Notices, a \in Addresses : namesOnce(n) =>
      /\ ids[a][n] + due(n, a) <= 1 + bounce[n].failed
      /\ event[n] # "processed" /\ bounce[n].state # "running" =>
             ids[a][n] + due(n, a) <= bounce[n].failed
      /\ bounce[n].state = "running" /\ a \notin recipients(n, bounce[n].next) =>
             ids[a][n] + due(n, a) <= bounce[n].failed

SesInv ==
    /\ SesTypeOK
    /\ JobInv
    /\ ProgressInv
    /\ CountInv
    /\ ProcessedIsSuppressed
    /\ RepeatsAreFailures

\* Past the guard and suppressed: noted, and not sent since.
LateInv ==
    /\ ~suppressed => inflight = {} /\ \A w \in Workers : late[w] = 0
    /\ suppressed =>
         \A w \in Workers : work[w].pc = "sending" => w \in inflight /\ late[w] = 0
    /\ LateMailWasInFlight

\* What an audit row is about to claim, and of which request.
AuditInv ==
    /\ \A w \in Workers : work[w].pc # "idle" => work[w].req \in Requests
    /\ \A w \in Workers : work[w].pc = "auditing" => mails[work[w].req] > 0 \/ suppressed
    /\ AuditedIsMailedOrSuppressed

CardState == [modal : Types \union {"none"}, typed : BOOLEAN,
              loading : Types \union {"none"},
              protocol : [Types -> Requests \union {None}]]

PostState == [pc : {"none", "inserting", "enqueueing", "ended"},
              tab : Cards \union {None}, type : Types \union {"none"}]

WorkState == [pc : {"idle", "read", "sending", "auditing"},
              req : Requests \union {None}, attached : BOOLEAN]

JobStates == {"none", "queued", "active", "done", "failed"}

\* TypeOK of DsrRequests without that of SesSuppression, in parts.
CardTypeOK ==
    /\ card \in [Cards -> CardState]
    /\ post \in [Requests -> PostState]
    /\ dsr \in [Requests -> Types \union {"none"}]
    /\ \A r \in Requests : post[r].pc \in {"inserting", "enqueueing"} => post[r].type \in Types

DsrTypeOK ==
    /\ production \in BOOLEAN
    /\ ack \in [Requests -> JobStates]
    /\ work \in [Workers -> WorkState]
    /\ mails \in [Requests -> Nat]
    /\ audits \in [Requests -> Nat]
    /\ inflight \in SUBSET Workers
    /\ late \in [Workers -> Nat]
    /\ faults \in Nat

IInv == SesInv /\ CardTypeOK /\ DsrTypeOK /\ LateInv /\ AuditInv

-----------------------------------------------------------------------------
(* The suppression list *)

LEMMA Recipients ==
    ASSUME NEW n \in Notices
    PROVE  /\ Len(RecipientsOf[n]) \in Nat
           /\ \A i \in 1..Len(RecipientsOf[n]) : RecipientsOf[n][i] \in Addresses
  BY SesAssumption

JobState == [state : {"none", "queued", "running", "finishing", "done", "failed"},
             next : Nat, failed : Nat]

\* The statements of a notice's requests and handlers.
RouteStep(n) == StoreNotice(n) \/ EnqueueBounce(n) \/ StoreFails(n) \/ AnswerNotice(n)

JobStep(n) ==
    \/ ReadEvent(n) \/ SuppressNext(n) \/ MarkProcessed(n) \/ CompleteBounce(n)
    \/ BounceFails(n) \/ BounceExpires(n)
    \/ StraySuppresses(n) \/ StrayMarks(n) \/ StrayFails(n)

LEMMA NoticeSteps ==
    ASSUME SesStep \/ SesFault
    PROVE  \E n \in Notices : RouteStep(n) \/ JobStep(n)
  BY DEF SesStep, SesFault, RouteStep, JobStep

\* How an attempt ends.
LEMMA RetryType ==
    ASSUME bounce \in [Notices -> JobState], NEW n \in Notices, retry(n)
    PROVE  /\ bounce' \in [Notices -> JobState]
           /\ \A m \in Notices \ {n} : bounce'[m] = bounce[m]
           /\ bounce'[n].state \in {"queued", "failed"}
           /\ bounce'[n].failed = bounce[n].failed + IF bounce[n].state = "running" THEN 1 ELSE 0
<1>1. PICK s \in {"queued", "failed"} :
        bounce' = [bounce EXCEPT ![n] =
          [state |-> s, next |-> 0,
           failed |-> bounce[n].failed + IF bounce[n].state = "running" THEN 1 ELSE 0]]
  BY DEF retry
<1>2. bounce[n].failed + (IF bounce[n].state = "running" THEN 1 ELSE 0) \in Nat
  BY DEF JobState
<1>3. QED
  BY <1>1, <1>2 DEF JobState

\* An entry of the list, by whichever handler.
LEMMA SuppressType ==
    ASSUME SesTypeOK, NEW n \in Notices, NEW i, suppress(n, i)
    PROVE  /\ i \in 1..Len(RecipientsOf[n]) /\ RecipientsOf[n][i] \in Addresses
           /\ ids' \in [Addresses -> [Notices -> Nat]]
           /\ \A a \in Addresses, m \in Notices :
                ids'[a][m] = IF a = RecipientsOf[n][i] /\ m = n THEN ids[a][m] + 1 ELSE ids[a][m]
<1> DEFINE b == RecipientsOf[n][i]
<1>1. i \in 1..Len(RecipientsOf[n]) /\ b \in Addresses /\ ids' = [ids EXCEPT ![b][n] = @ + 1]
  BY Recipients DEF suppress
<1>2. ids \in [Addresses -> [Notices -> Nat]]
  BY DEF SesTypeOK
<1> HIDE DEF b
<1>3. \A a \in Addresses, m \in Notices :
          ids'[a][m] = IF a = b /\ m = n THEN ids[a][m] + 1 ELSE ids[a][m]
  BY <1>1, <1>2
<1>4. ids' \in [Addresses -> [Notices -> Nat]]
  BY <1>1, <1>2
<1>5. QED
  BY <1>1, <1>3, <1>4 DEF b

\* What a step of one notice may change, by statement.
LEMMA SesFrame ==
    ASSUME SesTypeOK, NEW n \in Notices, RouteStep(n) \/ JobStep(n)
    PROVE  /\ bounce' \in [Notices -> JobState] /\ stray' \in [Notices -> Nat]
           /\ \A m \in Notices \ {n} :
                bounce'[m] = bounce[m] /\ event'[m] = event[m] /\ stray'[m] = stray[m]
           /\ storing' \subseteq storing \union {n} /\ storing \subseteq storing' \union {n}
           /\ ids' \in [Addresses -> [Notices -> Nat]]
           /\ \A a \in Addresses, m \in Notices : m # n => ids'[a][m] = ids[a][m]
           /\ \A a \in Addresses : ids[a][n] <= ids'[a][n]
           /\ sns' \in [Notices -> {"pending", "acked"}]
           /\ event' \in [Notices -> {"none", "stored", "processed"}]
<1>1. /\ bounce \in [Notices -> JobState] /\ ids \in [Addresses -> [Notices -> Nat]]
      /\ stray \in [Notices -> Nat]
  BY DEF SesTypeOK, JobState
<1>2. /\ bounce' \in [Notices -> JobState]
      /\ \A m \in Notices \ {n} : bounce'[m] = bounce[m]
  <2>1. CASE UNCHANGED bounce
    BY <1>1, <2>1
  <2>2. CASE EnqueueBounce(n) \/ CompleteBounce(n)
    BY <1>1, <2>2 DEF EnqueueBounce, CompleteBounce, JobState
  <2>3. CASE ReadEvent(n)
    BY <1>1, <2>3 DEF ReadEvent, finish, JobState
  <2>4. CASE SuppressNext(n)
    <3>1. bounce' = [bounce EXCEPT ![n].next = bounce[n].next + 1]
      BY <2>4 DEF SuppressNext
    <3>2. bounce[n].next + 1 \in Nat
      BY <1>1 DEF JobState
    <3>3. QED
      BY <1>1, <3>1, <3>2 DEF JobState
  <2>5. CASE MarkProcessed(n)
    BY <1>1, <2>5 DEF MarkProcessed, finish, JobState
  <2>6. CASE BounceFails(n) \/ BounceExpires(n)
    BY <1>1, <2>6, RetryType DEF BounceFails, BounceExpires
  <2>7. QED
    BY <2>1, <2>2, <2>3, <2>4, <2>5, <2>6 DEF RouteStep, JobStep, StoreNotice, AnswerNotice,
       StoreFails, StraySuppresses, StrayMarks, StrayFails
<1>3. /\ event' \in [Notices -> {"none", "stored", "processed"}]
      /\ \A m \in Notices \ {n} : event'[m] = event[m]
      /\ sns' \in [Notices -> {"pending", "acked"}]
      /\ storing' \subseteq storing \union {n} /\ storing \subseteq storing' \union {n}
  BY DEF SesTypeOK, RouteStep, JobStep, StoreNotice, EnqueueBounce, AnswerNotice, ReadEvent,
     SuppressNext, MarkProcessed, CompleteBounce, StoreFails, BounceFails, BounceExpires,
     StraySuppresses, StrayMarks, StrayFails
<1>4. stray' \in [Notices -> Nat] /\ \A m \in Notices \ {n} : stray'[m] = stray[m]
  <2>1. CASE UNCHANGED stray
    BY <1>1, <2>1
  <2>2. CASE BounceExpires(n)
    BY <1>1, <2>2 DEF BounceExpires, JobState
  <2>3. CASE StraySuppresses(n) \/ StrayMarks(n) \/ StrayFails(n)
    BY <1>1, <2>3 DEF StraySuppresses, StrayMarks, StrayFails
  <2>4. QED
    BY <2>1, <2>2, <2>3 DEF RouteStep, JobStep, StoreNotice, EnqueueBounce, StoreFails,
       AnswerNotice, ReadEvent, SuppressNext, MarkProcessed, CompleteBounce, BounceFails
<1>5. /\ ids' \in [Addresses -> [Notices -> Nat]]
      /\ \A a \in Addresses, m \in Notices : m # n => ids'[a][m] = ids[a][m]
      /\ \A a \in Addresses : ids[a][n] <= ids'[a][n]
  <2>1. ASSUME NEW i, suppress(n, i)
        PROVE  /\ ids' \in [Addresses -> [Notices -> Nat]]
               /\ \A a \in Addresses, m \in Notices : m # n => ids'[a][m] = ids[a][m]
               /\ \A a \in Addresses : ids[a][n] <= ids'[a][n]
    <3> DEFINE b == RecipientsOf[n][i]
    <3>1. /\ ids' \in [Addresses -> [Notices -> Nat]]
          /\ \A a \in Addresses, m \in Notices :
               ids'[a][m] = IF a = b /\ m = n THEN ids[a][m] + 1 ELSE ids[a][m]
      BY <2>1, SuppressType
    <3> HIDE DEF b
    <3>2. \A a \in Addresses : ids[a][n] \in Nat
      BY <1>1
    <3>3. QED
      BY <3>1, <3>2
  <2>2. CASE ids' = ids
    BY <1>1, <2>2
  <2>3. ids' = ids \/ suppress(n, bounce[n].next) \/ suppress(n, stray[n])
    BY DEF RouteStep, JobStep, StoreNotice, EnqueueBounce, StoreFails, AnswerNotice, ReadEvent,
       SuppressNext, MarkProcessed, CompleteBounce, BounceFails, BounceExpires,
       StraySuppresses, StrayMarks, StrayFails
  <2>4. QED
    BY <2>1, <2>2, <2>3
<1>6. QED
  BY <1>2, <1>3, <1>4, <1>5

\* The invariant of a notice by itself.
NoticeInv(n) ==
    /\ n \in storing => bounce[n].state = "none" /\ event[n] = "stored"
    /\ event[n] = "none" => bounce[n].state = "none"
    /\ bounce[n].state = "none" => stray[n] = 0
    /\ bounce[n].state = "running" =>
         \A a \in recipients(n, bounce[n].next) : ids[a][n] > 0
    /\ \A a \in recipients(n, stray[n]) : ids[a][n] > 0
    /\ event[n] = "processed" =>
         \A i \in 1..Len(RecipientsOf[n]) : ids[RecipientsOf[n][i]][n] > 0
    /\ namesOnce(n) => \A a \in Addresses :
         /\ ids[a][n] + due(n, a) <= 1 + bounce[n].failed
         /\ event[n] # "processed" /\ bounce[n].state # "running" =>
              ids[a][n] + due(n, a) <= bounce[n].failed
         /\ bounce[n].state = "running" /\ a \notin recipients(n, bounce[n].next) =>
              ids[a][n] + due(n, a) <= bounce[n].failed

LEMMA NoticeByNotice ==
    /\ SesInv => SesTypeOK /\ \A n \in Notices : NoticeInv(n)
    /\ SesTypeOK /\ (\A n \in Notices : NoticeInv(n)) => SesInv
<1>1. ASSUME SesTypeOK, \A n \in Notices : NoticeInv(n)
      PROVE  RepeatsAreFailures
  <2>1. \A n \in Notices, a \in Addresses :
          due(n, a) \in {0, 1} /\ ids[a][n] \in Nat /\ bounce[n].failed \in Nat
    BY <1>1 DEF SesTypeOK, due
  <2>2. QED
    BY <1>1, <2>1 DEF RepeatsAreFailures, NoticeInv
<1>2. QED
  BY <1>1 DEF SesInv, SesTypeOK, JobInv, ProgressInv, CountInv, ProcessedIsSuppressed,
     NoticeInv

\* What the entry of recipient i adds to those passed.
LEMMA Passed ==
    ASSUME NEW n \in Notices
    PROVE  /\ recipients(n, 0) = {} /\ recipients(n, 1) = {}
           /\ \A i \in Nat : recipients(n, i) \subseteq Addresses
           /\ \A i \in 1..Len(RecipientsOf[n]) :
                /\ recipients(n, i + 1) = recipients(n, i) \union {RecipientsOf[n][i]}
                /\ namesOnce(n) => RecipientsOf[n][i] \notin recipients(n, i)
           /\ \A i \in Nat : i > Len(RecipientsOf[n]) =>
                \A j \in 1..Len(RecipientsOf[n]) : RecipientsOf[n][j] \in recipients(n, i)
<1>1. /\ recipients(n, 0) = {} /\ recipients(n, 1) = {}
      /\ \A i \in Nat : recipients(n, i) \subseteq Addresses
  BY Recipients DEF recipients
<1>2. ASSUME NEW i \in 1..Len(RecipientsOf[n])
      PROVE  /\ recipients(n, i + 1) = recipients(n, i) \union {RecipientsOf[n][i]}
             /\ namesOnce(n) => RecipientsOf[n][i] \notin recipients(n, i)
  BY <1>2, Recipients DEF recipients, namesOnce
<1>3. \A i \in Nat : i > Len(RecipientsOf[n]) =>
        \A j \in 1..Len(RecipientsOf[n]) : RecipientsOf[n][j] \in recipients(n, i)
  BY Recipients DEF recipients
<1>4. QED
  BY <1>1, <1>2, <1>3

\* What the invariant of a notice says of the values a step reads.
LEMMA NoticeFacts ==
    ASSUME SesInv, NEW n \in Notices
    PROVE  /\ SesTypeOK /\ NoticeInv(n)
           /\ bounce \in [Notices -> JobState] /\ bounce[n] \in JobState
           /\ stray \in [Notices -> Nat] /\ stray[n] \in Nat
           /\ event \in [Notices -> {"none", "stored", "processed"}]
           /\ \A a \in Addresses : ids[a][n] \in Nat
           /\ \A a \in Addresses : due(n, a) \in {0, 1}
  BY NoticeByNotice DEF SesInv, SesTypeOK, JobState, due

\* The attempt that runs appends to its next recipient.
LEMMA SuppressKeeps ==
    ASSUME SesInv, NEW n \in Notices, SuppressNext(n)
    PROVE  NoticeInv(n)'
<1> DEFINE i == bounce[n].next
           b == RecipientsOf[n][i]
<1>1. /\ SesTypeOK /\ NoticeInv(n) /\ bounce[n] \in JobState
      /\ bounce \in [Notices -> JobState]
      /\ \A a \in Addresses : ids[a][n] \in Nat /\ due(n, a) \in {0, 1}
  BY NoticeFacts
<1>2. /\ bounce[n].state = "running" /\ UNCHANGED <<event, storing, stray>>
      /\ bounce' = [bounce EXCEPT ![n].next = @ + 1]
      /\ i \in 1..Len(RecipientsOf[n]) /\ b \in Addresses
      /\ \A a \in Addresses : ids'[a][n] = IF a = b THEN ids[a][n] + 1 ELSE ids[a][n]
  BY <1>1, SuppressType DEF SuppressNext
<1>3. /\ bounce'[n].state = "running" /\ bounce'[n].next = i + 1
      /\ bounce'[n].failed = bounce[n].failed
      /\ bounce[n].failed \in Nat
  BY <1>1, <1>2 DEF JobState
<1>4. /\ recipients(n, i + 1) = recipients(n, i) \union {b}
      /\ namesOnce(n) => b \notin recipients(n, i)
      /\ recipients(n, i) \subseteq Addresses /\ recipients(n, stray[n]) \subseteq Addresses
  BY <1>1, <1>2, Passed DEF SesTypeOK
<1>5. \A a \in Addresses : due(n, a)' = due(n, a)
  BY <1>2 DEF due, recipients
<1> HIDE DEF b, i
<1>6. /\ \A a \in recipients(n, i + 1) : ids'[a][n] > 0
      /\ \A a \in recipients(n, stray[n]) : ids'[a][n] > 0
  BY <1>1, <1>2, <1>4 DEF NoticeInv, i
<1>7. namesOnce(n) => \A a \in Addresses :
        /\ ids'[a][n] + due(n, a) <= 1 + bounce[n].failed
        /\ a \notin recipients(n, i + 1) => ids'[a][n] + due(n, a) <= bounce[n].failed
  BY <1>1, <1>2, <1>3, <1>4 DEF NoticeInv, i
<1>8. event[n] = "processed" =>
        \A j \in 1..Len(RecipientsOf[n]) : ids'[RecipientsOf[n][j]][n] > 0
  BY <1>1, <1>2, Recipients DEF NoticeInv
<1>9. event[n] # "none" /\ n \notin storing
  BY <1>1, <1>2 DEF NoticeInv
<1>10. QED
  BY <1>2, <1>3, <1>5, <1>6, <1>7, <1>8, <1>9 DEF NoticeInv, namesOnce, recipients

\* A handler whose attempt has expired appends to its next recipient.
LEMMA StrayKeeps ==
    ASSUME SesInv, NEW n \in Notices, StraySuppresses(n)
    PROVE  NoticeInv(n)'
<1> DEFINE i == stray[n]
           b == RecipientsOf[n][i]
<1>1. /\ SesTypeOK /\ NoticeInv(n) /\ bounce[n] \in JobState /\ i \in Nat
      /\ stray \in [Notices -> Nat]
      /\ \A a \in Addresses : ids[a][n] \in Nat /\ due(n, a) \in {0, 1}
  BY NoticeFacts
<1>2. /\ UNCHANGED <<event, storing, bounce>>
      /\ stray' = [stray EXCEPT ![n] = @ + 1]
      /\ i \in 1..Len(RecipientsOf[n]) /\ b \in Addresses
      /\ \A a \in Addresses : ids'[a][n] = IF a = b THEN ids[a][n] + 1 ELSE ids[a][n]
  BY <1>1, SuppressType DEF StraySuppresses
<1>3. stray'[n] = i + 1 /\ i # 0 /\ bounce[n].failed \in Nat /\ bounce[n].next \in Nat
  BY <1>1, <1>2 DEF JobState
<1>4. /\ recipients(n, i + 1) = recipients(n, i) \union {b}
      /\ namesOnce(n) => b \notin recipients(n, i)
      /\ recipients(n, i) \subseteq Addresses
      /\ recipients(n, bounce[n].next) \subseteq Addresses
  BY <1>1, <1>2, <1>3, Passed
<1>5. namesOnce(n) => \A a \in Addresses : ids'[a][n] + due(n, a)' <= ids[a][n] + due(n, a)
  <2>1. \A a \in Addresses :
          /\ due(n, a) = IF a \notin recipients(n, i) THEN 1 ELSE 0
          /\ due(n, a)' = IF a \notin recipients(n, i + 1) THEN 1 ELSE 0
    BY <1>1, <1>3 DEF due
  <2> HIDE DEF b, i
  <2>2. QED
    BY <1>1, <1>2, <1>4, <2>1
<1>6. \A a \in Addresses : due(n, a)' \in {0, 1}
  BY DEF due
<1> HIDE DEF b, i
<1>7. /\ \A a \in recipients(n, i + 1) : ids'[a][n] > 0
      /\ bounce[n].state = "running" =>
           \A a \in recipients(n, bounce[n].next) : ids'[a][n] > 0
  BY <1>1, <1>2, <1>4 DEF NoticeInv, i
<1>8. namesOnce(n) => \A a \in Addresses :
         /\ ids'[a][n] + due(n, a)' <= 1 + bounce[n].failed
         /\ event[n] # "processed" /\ bounce[n].state # "running" =>
              ids'[a][n] + due(n, a)' <= bounce[n].failed
         /\ bounce[n].state = "running" /\ a \notin recipients(n, bounce[n].next) =>
              ids'[a][n] + due(n, a)' <= bounce[n].failed
  <2>1. ASSUME namesOnce(n), NEW a \in Addresses
        PROVE  /\ ids'[a][n] + due(n, a)' <= ids[a][n] + due(n, a)
               /\ ids'[a][n] \in Nat /\ ids[a][n] \in Nat
               /\ due(n, a) \in {0, 1} /\ due(n, a)' \in {0, 1}
    <3>1. ids'[a][n] \in {ids[a][n], ids[a][n] + 1} /\ ids[a][n] \in Nat
      BY <1>1, <1>2
    <3>2. QED
      BY <1>1, <1>5, <1>6, <2>1, <3>1
  <2>2. ASSUME namesOnce(n), NEW a \in Addresses, NEW k \in Nat,
               ids[a][n] + due(n, a) <= k
        PROVE  ids'[a][n] + due(n, a)' <= k
    BY <2>1, <2>2
  <2>3. 1 + bounce[n].failed \in Nat
    BY <1>3
  <2>4. QED
    BY <1>1, <1>3, <2>2, <2>3 DEF NoticeInv
<1>9. event[n] = "processed" =>
        \A j \in 1..Len(RecipientsOf[n]) : ids'[RecipientsOf[n][j]][n] > 0
  BY <1>1, <1>2, Recipients DEF NoticeInv
<1>10. bounce[n].state # "none"
  BY <1>1, <1>3 DEF NoticeInv, i
<1>11. /\ n \notin storing /\ event[n] # "none"
  BY <1>1, <1>10 DEF NoticeInv
<1>12. QED
  BY <1>2, <1>3, <1>7, <1>8, <1>9, <1>10, <1>11 DEF NoticeInv, namesOnce, recipients

\* The other statements write nothing to the list.
LEMMA NoticeKeeps ==
    ASSUME SesInv, NEW n \in Notices, RouteStep(n) \/ JobStep(n),
           ~SuppressNext(n), ~StraySuppresses(n)
    PROVE  NoticeInv(n)'
<1>1. /\ SesTypeOK /\ NoticeInv(n)
      /\ bounce \in [Notices -> JobState] /\ bounce[n] \in JobState
      /\ stray \in [Notices -> Nat] /\ stray[n] \in Nat
      /\ event \in [Notices -> {"none", "stored", "processed"}]
      /\ \A a \in Addresses : ids[a][n] \in Nat /\ due(n, a) \in {0, 1}
  BY NoticeFacts
<1>2. ids' = ids
  BY DEF RouteStep, JobStep, StoreNotice, EnqueueBounce, StoreFails, AnswerNotice, ReadEvent,
     MarkProcessed, CompleteBounce, BounceFails, BounceExpires, StrayMarks, StrayFails
<1>3. recipients(n, 0) = {} /\ recipients(n, 1) = {}
  BY Passed
<1>4. CASE UNCHANGED stray /\ ~BounceExpires(n)
  <2>1. \A a \in Addresses : due(n, a)' = due(n, a)
    BY <1>4 DEF due, recipients
  <2>2. \A a \in recipients(n, stray[n]) : ids'[a][n] > 0
    BY <1>1, <1>2 DEF NoticeInv
  <2>3. CASE StoreNotice(n) \/ AnswerNotice(n) \/ StoreFails(n)
    BY <1>1, <1>2, <1>4, <2>1, <2>2, <2>3 DEF StoreNotice, isNew, AnswerNotice, StoreFails,
       NoticeInv, namesOnce, recipients
  <2>4. CASE EnqueueBounce(n)
    <3>1. /\ bounce'[n].state = "queued" /\ bounce'[n].failed = bounce[n].failed
          /\ n \notin storing' /\ event' = event
          /\ event[n] = "stored" /\ bounce[n].state = "none"
      BY <1>1, <2>4 DEF EnqueueBounce, JobState, NoticeInv
    <3>2. QED
      BY <1>1, <1>2, <1>4, <2>1, <2>2, <3>1 DEF NoticeInv, namesOnce, recipients
  <2>5. CASE ReadEvent(n)
    <3>1. /\ bounce[n].state = "queued" /\ UNCHANGED <<event, storing>>
          /\ bounce'[n].failed = bounce[n].failed
          /\ \/ bounce'[n].state = "finishing"
             \/ bounce'[n].state = "running" /\ bounce'[n].next = 1 /\ event[n] # "processed"
      BY <1>1, <2>5 DEF ReadEvent, finish, isSkipped, JobState
    <3>2. event[n] # "none" /\ n \notin storing
      BY <1>1, <3>1 DEF NoticeInv
    <3>3. CASE bounce'[n].state = "finishing"
      BY <1>1, <1>2, <1>4, <2>1, <2>2, <3>1, <3>2, <3>3 DEF NoticeInv, namesOnce, recipients
    <3>4. CASE bounce'[n].state = "running" /\ bounce'[n].next = 1 /\ event[n] # "processed"
      BY <1>1, <1>2, <1>3, <1>4, <2>1, <2>2, <3>1, <3>2, <3>4 DEF NoticeInv, namesOnce,
         recipients
    <3>5. QED
      BY <3>1, <3>3, <3>4
  <2>6. CASE MarkProcessed(n)
    <3>1. /\ bounce[n].state = "running" /\ bounce[n].next > Len(RecipientsOf[n])
          /\ bounce[n].next \in Nat
          /\ bounce'[n].state = "finishing" /\ bounce'[n].failed = bounce[n].failed
          /\ event'[n] = "processed" /\ UNCHANGED storing
      BY <1>1, <2>6 DEF MarkProcessed, allWritten, finish, JobState
    <3>2. \A j \in 1..Len(RecipientsOf[n]) : ids[RecipientsOf[n][j]][n] > 0
      BY <1>1, <3>1, Passed DEF NoticeInv
    <3>3. n \notin storing
      BY <1>1, <3>1 DEF NoticeInv
    <3>4. QED
      BY <1>1, <1>2, <1>4, <2>1, <2>2, <3>1, <3>2, <3>3 DEF NoticeInv, namesOnce, recipients
  <2>7. CASE CompleteBounce(n)
    <3>1. /\ bounce[n].state = "finishing" /\ bounce'[n].state = "done"
          /\ bounce'[n].failed = bounce[n].failed /\ UNCHANGED <<event, storing>>
      BY <1>1, <2>7 DEF CompleteBounce, JobState
    <3>2. QED
      BY <1>1, <1>2, <1>4, <2>1, <2>2, <3>1 DEF NoticeInv, namesOnce, recipients
  <2>8. CASE BounceFails(n)
    <3>1. /\ bounce'[n].state \in {"queued", "failed"} /\ UNCHANGED <<event, storing>>
          /\ bounce[n].state \in {"running", "finishing"} /\ bounce[n].failed \in Nat
          /\ bounce'[n].failed =
               bounce[n].failed + IF bounce[n].state = "running" THEN 1 ELSE 0
      BY <1>1, <2>8, RetryType DEF BounceFails, JobState
    <3>2. event[n] # "none" /\ n \notin storing
      BY <1>1, <3>1 DEF NoticeInv
    <3>3. namesOnce(n) => \A a \in Addresses :
            /\ ids[a][n] + due(n, a) <= 1 + bounce'[n].failed
            /\ event[n] # "processed" => ids[a][n] + due(n, a) <= bounce'[n].failed
      BY <1>1, <3>1 DEF NoticeInv
    <3>4. QED
      BY <1>1, <1>2, <1>4, <2>1, <2>2, <3>1, <3>2, <3>3 DEF NoticeInv, namesOnce, recipients
  <2>9. ~StrayMarks(n) /\ ~StrayFails(n)
    BY <1>1, <1>4 DEF StrayMarks, StrayFails
  <2>10. QED
    BY <1>4, <2>3, <2>4, <2>5, <2>6, <2>7, <2>8, <2>9 DEF RouteStep, JobStep
<1>5. CASE BounceExpires(n)
  <2>1. /\ bounce[n].state = "running" /\ bounce'[n].state \in {"queued", "failed"}
        /\ bounce'[n].failed = bounce[n].failed + 1 /\ bounce[n].failed \in Nat
        /\ stray[n] = 0 /\ stray'[n] = bounce[n].next /\ UNCHANGED <<event, storing>>
    BY <1>1, <1>5, RetryType DEF BounceExpires, JobState
  <2>2. \A a \in Addresses :
          /\ due(n, a) = 0
          /\ due(n, a)' \in {0, 1}
          /\ a \in recipients(n, bounce[n].next) => due(n, a)' = 0
    BY <2>1 DEF due, recipients
  <2>3. event[n] # "none" /\ n \notin storing
    BY <1>1, <2>1 DEF NoticeInv
  <2>4. \A a \in recipients(n, bounce[n].next) : ids'[a][n] > 0
    BY <1>1, <1>2, <2>1 DEF NoticeInv
  <2>5. namesOnce(n) => \A a \in Addresses : ids[a][n] + due(n, a)' <= bounce'[n].failed
    BY <1>1, <2>1, <2>2 DEF NoticeInv
  <2>6. namesOnce(n) => \A a \in Addresses : ids[a][n] + due(n, a)' <= 1 + bounce'[n].failed
    <3>1. \A a \in Addresses : ids[a][n] \in Nat /\ due(n, a)' \in Nat
      BY <1>1, <2>2
    <3>2. QED
      BY <2>1, <2>5, <3>1
  <2>7. event[n] = "processed" =>
          \A j \in 1..Len(RecipientsOf[n]) : ids[RecipientsOf[n][j]][n] > 0
    BY <1>1 DEF NoticeInv
  <2>8. namesOnce(n)' = namesOnce(n)
    BY DEF namesOnce
  <2>9. QED
    BY <1>2, <2>1, <2>3, <2>4, <2>5, <2>6, <2>7, <2>8 DEF NoticeInv
<1>6. CASE StrayMarks(n) \/ StrayFails(n)
  <2>1. /\ stray[n] # 0 /\ stray'[n] = 0 /\ UNCHANGED <<storing, bounce>>
        /\ event'[n] \in {event[n], "processed"}
        /\ event'[n] # event[n] => stray[n] > Len(RecipientsOf[n])
    BY <1>1, <1>6 DEF StrayMarks, StrayFails, allWritten
  <2>2. \A a \in Addresses : due(n, a)' = 0
    BY <2>1 DEF due
  <2>3. bounce[n].state # "none"
    BY <1>1, <2>1 DEF NoticeInv
  <2>4. event[n] # "none" /\ n \notin storing
    BY <1>1, <2>3 DEF NoticeInv
  <2>5. event'[n] = "processed" =>
          \A j \in 1..Len(RecipientsOf[n]) : ids[RecipientsOf[n][j]][n] > 0
    <3>1. CASE event'[n] = event[n]
      BY <1>1, <3>1 DEF NoticeInv
    <3>2. CASE event'[n] # event[n]
      BY <1>1, <2>1, <3>2, Passed DEF NoticeInv
    <3>3. QED
      BY <3>1, <3>2
  <2>6. bounce[n].failed \in Nat
    BY <1>1 DEF JobState
  <2>7. QED
    BY <1>1, <1>2, <1>3, <2>1, <2>2, <2>3, <2>4, <2>5, <2>6 DEF NoticeInv, namesOnce,
       recipients
<1>7. QED
  <2>1. UNCHANGED stray \/ BounceExpires(n) \/ StrayMarks(n) \/ StrayFails(n)
    BY DEF RouteStep, JobStep, StoreNotice, EnqueueBounce, StoreFails, AnswerNotice, ReadEvent,
       MarkProcessed, CompleteBounce, BounceFails
  <2>2. QED
    BY <1>4, <1>5, <1>6, <2>1

\* A step of one notice leaves the others as they are.
LEMMA SesKeeps ==
    ASSUME SesInv, SesStep \/ SesFault
    PROVE  SesInv'
<1>1. PICK n \in Notices : RouteStep(n) \/ JobStep(n)
  BY NoticeSteps
<1>2. SesTypeOK /\ \A m \in Notices : NoticeInv(m)
  BY NoticeByNotice
<1>3. SesTypeOK'
  <2>1. storing' \in SUBSET Notices
    BY <1>1, <1>2, SesFrame DEF SesTypeOK
  <2>2. QED
    BY <1>1, <1>2, <2>1, SesFrame DEF SesTypeOK, JobState
<1>4. NoticeInv(n)'
  BY <1>1, SuppressKeeps, StrayKeeps, NoticeKeeps
<1>5. ASSUME NEW m \in Notices, m # n PROVE NoticeInv(m)'
  <2>1. /\ bounce'[m] = bounce[m] /\ event'[m] = event[m] /\ stray'[m] = stray[m]
        /\ m \in storing' <=> m \in storing
        /\ \A a \in Addresses : ids'[a][m] = ids[a][m]
    BY <1>1, <1>2, <1>5, SesFrame
  <2>2. /\ \A a \in recipients(m, bounce[m].next) : a \in Addresses
        /\ \A a \in recipients(m, stray[m]) : a \in Addresses
    BY Recipients DEF recipients
  <2>3. \A i \in 1..Len(RecipientsOf[m]) : RecipientsOf[m][i] \in Addresses
    BY Recipients
  <2>4. \A a \in Addresses : due(m, a)' = due(m, a)
    BY <2>1 DEF due, recipients
  <2>5. QED
    BY <1>2, <2>1, <2>2, <2>3, <2>4 DEF NoticeInv, namesOnce, recipients
<1>6. SesTypeOK' /\ \A m \in Notices : NoticeInv(m)'
  BY <1>3, <1>4, <1>5
<1>7. \A m \in Notices, a \in Addresses :
        /\ due(m, a)' \in {0, 1} /\ ids'[a][m] \in Nat /\ bounce'[m].failed \in Nat
        /\ namesOnce(m) => ids'[a][m] + due(m, a)' <= 1 + bounce'[m].failed
  <2>1. \A m \in Notices, a \in Addresses :
          due(m, a)' \in {0, 1} /\ ids'[a][m] \in Nat /\ bounce'[m].failed \in Nat
    BY <1>6 DEF SesTypeOK, due
  <2>2. \A m \in Notices : namesOnce(m)' = namesOnce(m)
    BY DEF namesOnce
  <2>3. QED
    BY <1>6, <2>1, <2>2 DEF NoticeInv
<1>8. RepeatsAreFailures'
  BY <1>7 DEF RepeatsAreFailures, namesOnce
<1>9. QED
  BY <1>6, <1>8 DEF SesInv, SesTypeOK, JobInv, ProgressInv, CountInv, ProcessedIsSuppressed,
     NoticeInv

\* Rows of the list are never deleted.
LEMMA SuppressedStays ==
    ASSUME SesTypeOK, SesStep \/ SesFault
    PROVE  suppressed => suppressed'
<1>1. PICK n \in Notices : RouteStep(n) \/ JobStep(n)
  BY NoticeSteps
<1>2. \A m \in Notices : /\ ids[User][m] \in Nat /\ ids'[User][m] \in Nat
                         /\ ids[User][m] <= ids'[User][m]
  <2>1. User \in Addresses
    BY DsrAssumption
  <2>2. ids \in [Addresses -> [Notices -> Nat]] /\ ids' \in [Addresses -> [Notices -> Nat]]
    BY <1>1, SesFrame DEF SesTypeOK
  <2>3. \A m \in Notices : m # n => ids'[User][m] = ids[User][m]
    BY <1>1, <2>1, SesFrame
  <2>4. ids[User][n] <= ids'[User][n]
    BY <1>1, <2>1, SesFrame
  <2>5. QED
    BY <2>1, <2>2, <2>3, <2>4
<1>3. QED
  BY <1>2 DEF suppressed, hasRow

-----------------------------------------------------------------------------
(* Requests, their worker, and bounces meanwhile *)

\* What the user does at a card.
LEMMA CardType ==
    ASSUME CardTypeOK, NEW c \in Cards, Card(c)
    PROVE  CardTypeOK'
<1>1. /\ card \in [Cards -> CardState] /\ card[c] \in CardState
      /\ post \in [Requests -> PostState] /\ dsr \in [Requests -> Types \union {"none"}]
      /\ \A r \in Requests : post[r].pc \in {"inserting", "enqueueing"} => post[r].type \in Types
  BY DEF CardTypeOK, CardState
<1>2. dsr' = dsr
  BY DEF Card, OpenModal, Confirm, CloseModal, TypePhrase, AnswerLost, atCard
<1>3. CASE UNCHANGED post
  <2>1. ASSUME NEW ty \in Types, OpenModal(c, ty) PROVE card' \in [Cards -> CardState]
    BY <1>1, <2>1 DEF OpenModal, CardState
  <2>2. ASSUME CloseModal(c) PROVE card' \in [Cards -> CardState]
    BY <1>1, <2>2 DEF CloseModal, CardState
  <2>3. ASSUME TypePhrase(c) PROVE card' \in [Cards -> CardState]
    BY <1>1, <2>3 DEF TypePhrase, CardState
  <2>4. ASSUME AnswerLost(c) PROVE card' \in [Cards -> CardState]
    BY <1>1, <2>4 DEF AnswerLost, CardState
  <2>5. ASSUME NEW r \in Requests, Confirm(c, r) PROVE card' \in [Cards -> CardState]
    BY <1>1, <2>5 DEF Confirm, CardState
  <2>6. QED
    BY <1>1, <1>2, <1>3, <2>1, <2>2, <2>3, <2>4, <2>5 DEF Card, CardTypeOK
<1>4. ASSUME NEW r \in Requests, Confirm(c, r) PROVE CardTypeOK'
  <2>1. card[c].modal \in Types
    BY <1>1, <1>4 DEF Confirm, CardState
  <2>2. card' \in [Cards -> CardState]
    BY <1>1, <1>4 DEF Confirm, CardState
  <2>3. [pc |-> "inserting", tab |-> c, type |-> card[c].modal] \in PostState
    BY <2>1 DEF PostState
  <2>4. post' \in [Requests -> PostState]
    BY <1>1, <1>4, <2>3 DEF Confirm
  <2>5. \A q \in Requests : post'[q].pc \in {"inserting", "enqueueing"} => post'[q].type \in Types
    BY <1>1, <1>4, <2>1 DEF Confirm
  <2>6. QED
    BY <1>1, <1>2, <2>2, <2>4, <2>5 DEF CardTypeOK
<1>5. ASSUME AnswerLost(c) PROVE CardTypeOK'
  <2>1. card' \in [Cards -> CardState]
    BY <1>1, <1>5 DEF AnswerLost, CardState
  <2>2. \A r \in Requests : post'[r] \in {post[r], [post[r] EXCEPT !.tab = None]}
    BY <1>5 DEF AnswerLost
  <2>3. \A r \in Requests : [post[r] EXCEPT !.tab = None] \in PostState
    BY <1>1 DEF PostState
  <2>4. post' \in [Requests -> PostState]
    BY <1>1, <1>5, <2>2, <2>3 DEF AnswerLost
  <2>5. \A r \in Requests : post'[r].pc = post[r].pc /\ post'[r].type = post[r].type
    BY <1>1, <2>2 DEF PostState
  <2>6. QED
    BY <1>1, <1>2, <2>1, <2>4, <2>5 DEF CardTypeOK
<1>6. QED
  BY <1>3, <1>4, <1>5 DEF Card, OpenModal, CloseModal, TypePhrase

\* The answer, at whichever card waits for it.
LEMMA AnswerType ==
    ASSUME CardTypeOK, NEW r \in Requests, NEW shown, answer(r, shown),
           \A c \in Cards : post[r].tab = c => shown \in CardState
    PROVE  /\ card' \in [Cards -> CardState] /\ post' \in [Requests -> PostState]
           /\ \A q \in Requests : post'[q].pc \in {"inserting", "enqueueing"} =>
                post'[q].type \in Types
<1>1. card \in [Cards -> CardState] /\ post \in [Requests -> PostState]
  BY DEF CardTypeOK
<1>2. card' \in [Cards -> CardState]
  BY <1>1 DEF answer
<1>3. post' = [post EXCEPT ![r] = [post[r] EXCEPT !.pc = "ended", !.tab = None]]
  BY <1>1 DEF answer, PostState
<1>4. [post[r] EXCEPT !.pc = "ended", !.tab = None] \in PostState
  BY <1>1 DEF PostState
<1>5. post' \in [Requests -> PostState]
  BY <1>1, <1>3, <1>4
<1>6. post'[r].pc = "ended" /\ \A q \in Requests \ {r} : post'[q] = post[q]
  BY <1>1, <1>3 DEF PostState
<1>7. QED
  BY <1>2, <1>5, <1>6 DEF CardTypeOK

\* What a request handler writes, and what its card shows then.
LEMMA HandlerType ==
    ASSUME CardTypeOK, NEW r \in Requests, Handler(r)
    PROVE  CardTypeOK'
<1>1. /\ card \in [Cards -> CardState] /\ post \in [Requests -> PostState]
      /\ dsr \in [Requests -> Types \union {"none"}]
      /\ \A q \in Requests : post[q].pc \in {"inserting", "enqueueing"} => post[q].type \in Types
  BY DEF CardTypeOK
<1>2. CASE InsertRequest(r)
  <2>1. post[r].type \in Types
    BY <1>1, <1>2 DEF InsertRequest
  <2>2. dsr' \in [Requests -> Types \union {"none"}] /\ card' = card
    BY <1>1, <1>2, <2>1 DEF InsertRequest
  <2>3. post' \in [Requests -> PostState]
    BY <1>1, <1>2 DEF InsertRequest, PostState
  <2>4. \A q \in Requests : post'[q].type = post[q].type /\ (q # r => post'[q].pc = post[q].pc)
    BY <1>1, <1>2 DEF InsertRequest, PostState
  <2>5. QED
    BY <1>1, <2>1, <2>2, <2>3, <2>4 DEF CardTypeOK
<1>3. CASE EnqueueAck(r)
  <2> DEFINE ty == post[r].type
             k == card[post[r].tab]
             protocol == [k.protocol EXCEPT ![ty] = r]
             modal == IF k.modal = ty THEN "none" ELSE k.modal
  <2>1. ASSUME NEW c \in Cards, post[r].tab = c PROVE received(k, r) \in CardState
    <3>1. k \in CardState
      BY <1>1, <2>1
    <3>2. protocol \in [Types -> Requests \union {None}]
      BY <3>1 DEF CardState
    <3>3. modal \in Types \union {"none"}
      BY <3>1 DEF CardState
    <3>4. received(k, r) = [k EXCEPT !.protocol = protocol, !.modal = modal, !.loading = "none"]
      BY <3>1 DEF received, CardState
    <3> HIDE DEF protocol, modal, k
    <3>5. QED
      BY <3>1, <3>2, <3>3, <3>4 DEF CardState
  <2>2. dsr' = dsr /\ answer(r, received(k, r))
    BY <1>3 DEF EnqueueAck
  <2> HIDE DEF k
  <2>3. QED
    BY <1>1, <2>1, <2>2, AnswerType DEF CardTypeOK
<1>4. CASE PostFails(r)
  <2> DEFINE k == [card[post[r].tab] EXCEPT !.loading = "none"]
  <2>1. ASSUME NEW c \in Cards, post[r].tab = c PROVE k \in CardState
    BY <1>1, <2>1 DEF CardState
  <2>2. dsr' = dsr /\ answer(r, k)
    BY <1>4 DEF PostFails
  <2> HIDE DEF k
  <2>3. QED
    BY <1>1, <2>1, <2>2, AnswerType DEF CardTypeOK
<1>5. QED
  BY <1>2, <1>3, <1>4 DEF Handler

\* The user and the requests write nothing that the other parts speak of, but for
\* the jobs they queue.
LEMMA RequestKeeps ==
    ASSUME IInv, (\E c \in Cards : Card(c)) \/ (\E r \in Requests : Handler(r))
    PROVE  IInv'
<1>1. CardTypeOK'
  BY CardType, HandlerType DEF IInv
<1>2. UNCHANGED <<sesVars, production, workerVars, inflight>>
  BY DEF Card, OpenModal, Confirm, CloseModal, TypePhrase, AnswerLost, atCard, quiet, Handler,
     InsertRequest, EnqueueAck, PostFails, workerVars
<1>3. ack' \in [Requests -> JobStates] /\ faults' \in Nat
  <2>1. ack \in [Requests -> JobStates] /\ faults \in Nat
    BY DEF IInv, DsrTypeOK
  <2>2. CASE \E c \in Cards : Card(c)
    BY <2>1, <2>2 DEF Card, OpenModal, Confirm, CloseModal, TypePhrase, AnswerLost, atCard
  <2>3. ASSUME NEW r \in Requests, Handler(r)
        PROVE  ack' \in [Requests -> JobStates] /\ faults' \in Nat
    BY <2>1, <2>3 DEF Handler, InsertRequest, EnqueueAck, PostFails, JobStates
  <2>4. QED
    BY <2>2, <2>3
<1>4. suppressed' = suppressed /\ SesInv'
  BY <1>2 DEF IInv, sesVars, suppressed, hasRow, SesInv, SesTypeOK, JobInv, ProgressInv, CountInv,
     due, ProcessedIsSuppressed, RepeatsAreFailures, namesOnce, recipients
<1>5. DsrTypeOK' /\ LateInv' /\ AuditInv'
  BY <1>2, <1>3, <1>4 DEF IInv, DsrTypeOK, LateInv, LateMailWasInFlight, AuditInv,
     AuditedIsMailedOrSuppressed, workerVars
<1>6. QED
  BY <1>1, <1>4, <1>5 DEF IInv

\* Jobs, as the handlers settle them.
LEMMA SettledType ==
    ASSUME IInv, NEW w \in Workers, NEW s \in JobStates
    PROVE  settled(w, s) \in [Requests -> JobStates]
  BY DEF settled, IInv, DsrTypeOK

\* A handler passes the guard only while the user is off the list.
LEMMA WorkerKeeps ==
    ASSUME IInv, NEW w \in Workers, Worker(w) \/ AckFails(w) \/ Expire(w)
    PROVE  IInv'
<1>1. UNCHANGED <<sesVars, production, requestVars, inflight>> /\ faults' \in Nat
  BY DEF Worker, ReadRequest, GuardSend, Send, AuditAck, AckFails, Expire, quiet, IInv, DsrTypeOK
<1>2. suppressed' = suppressed /\ SesInv' /\ CardTypeOK'
  BY <1>1 DEF IInv, sesVars, suppressed, hasRow, SesInv, SesTypeOK, JobInv, ProgressInv, CountInv,
     due, ProcessedIsSuppressed, RepeatsAreFailures, namesOnce, recipients, CardTypeOK,
     requestVars
<1>3. /\ ack \in [Requests -> JobStates] /\ work \in [Workers -> WorkState]
      /\ mails \in [Requests -> Nat] /\ audits \in [Requests -> Nat]
      /\ late \in [Workers -> Nat] /\ production \in BOOLEAN /\ inflight \in SUBSET Workers
      /\ work[w].pc # "idle" => work[w].req \in Requests
  BY DEF IInv, DsrTypeOK, AuditInv
<1>4. ack' \in [Requests -> JobStates]
  <2>1. CASE ReadRequest(w)
    BY <1>3, <2>1 DEF ReadRequest, JobStates
  <2>2. CASE UNCHANGED ack
    BY <1>3, <2>2
  <2>3. CASE \E s \in JobStates : ack' = settled(w, s)
    BY <2>3, SettledType
  <2>4. UNCHANGED ack \/ ReadRequest(w) \/ \E s \in JobStates : ack' = settled(w, s)
    BY DEF Worker, GuardSend, Send, AuditAck, AckFails, Expire, afterError, retried, JobStates
  <2>5. QED
    BY <2>1, <2>2, <2>3, <2>4
<1>5. ASSUME work' \in [Workers -> WorkState], UNCHANGED <<mails, audits, late>>,
             \A x \in Workers : x # w => work'[x] = work[x],
             work'[w].pc # "idle" => work'[w].req \in Requests,
             work'[w].pc = "sending" => work[w].pc = "sending" \/ ~suppressed,
             work'[w].pc = "auditing" =>
               suppressed \/ (work[w].pc = "auditing" /\ work'[w].req = work[w].req)
      PROVE  IInv'
  <2>1. DsrTypeOK'
    BY <1>1, <1>3, <1>4, <1>5 DEF DsrTypeOK
  <2>2. LateInv'
    BY <1>1, <1>2, <1>5 DEF IInv, LateInv, LateMailWasInFlight
  <2>3. AuditInv'
    BY <1>2, <1>5 DEF IInv, AuditInv, AuditedIsMailedOrSuppressed
  <2>4. QED
    BY <1>2, <2>1, <2>2, <2>3 DEF IInv
<1>6. CASE ReadRequest(w)
  <2>1. PICK r \in Requests :
          work' = [work EXCEPT ![w] = [pc |-> "read", req |-> r, attached |-> TRUE]]
    BY <1>6 DEF ReadRequest
  <2>2. [pc |-> "read", req |-> r, attached |-> TRUE] \in WorkState
    BY DEF WorkState
  <2>3. QED
    BY <1>3, <1>5, <1>6, <2>1, <2>2 DEF ReadRequest
<1>7. CASE GuardSend(w)
  <2>1. /\ work[w].pc = "read" /\ UNCHANGED <<mails, audits, late>>
        /\ work' = [work EXCEPT ![w].pc = IF suppressed THEN "auditing" ELSE "sending"]
    BY <1>7 DEF GuardSend, isSuppressed
  <2>2. work' \in [Workers -> WorkState]
    BY <1>3, <2>1 DEF WorkState
  <2>3. /\ \A x \in Workers : x # w => work'[x] = work[x]
        /\ work'[w].req = work[w].req
        /\ work'[w].pc = IF suppressed THEN "auditing" ELSE "sending"
    BY <1>3, <2>1 DEF WorkState
  <2>4. QED
    BY <1>3, <1>5, <2>1, <2>2, <2>3
<1>8. CASE Send(w)
  <2> DEFINE q == work[w].req
  <2>1. /\ work[w].pc = "sending" /\ work' = [work EXCEPT ![w].pc = "auditing"]
        /\ mails' = [mails EXCEPT ![q] = @ + 1]
        /\ late' = [late EXCEPT ![w] = @ + IF suppressed THEN 1 ELSE 0]
        /\ UNCHANGED audits
    BY <1>8 DEF Send
  <2>2. /\ work' \in [Workers -> WorkState]
        /\ \A x \in Workers : x # w => work'[x] = work[x]
        /\ work'[w].req = q /\ work'[w].pc = "auditing"
    BY <1>3, <2>1 DEF WorkState
  <2>3. q \in Requests
    BY <1>3, <2>1
  <2> HIDE DEF q
  <2>4. /\ mails' \in [Requests -> Nat] /\ mails'[q] > 0
        /\ \A r \in Requests : mails'[r] >= mails[r]
    BY <1>3, <2>1, <2>3
  <2>5. /\ late' \in [Workers -> Nat]
        /\ \A x \in Workers :
             late'[x] = IF x = w /\ suppressed THEN late[x] + 1 ELSE late[x]
    BY <1>3, <2>1
  <2>6. DsrTypeOK'
    BY <1>1, <1>3, <1>4, <2>1, <2>2, <2>4, <2>5 DEF DsrTypeOK
  <2>7. LateInv'
    <3>1. CASE suppressed
      BY <1>1, <1>2, <2>1, <2>2, <2>5, <3>1 DEF IInv, LateInv, LateMailWasInFlight
    <3>2. CASE ~suppressed
      BY <1>1, <1>2, <2>2, <2>5, <3>2 DEF IInv, LateInv, LateMailWasInFlight
    <3>3. QED
      BY <3>1, <3>2
  <2>8. AuditInv'
    <3>1. \A r \in Requests : mails[r] \in Nat /\ mails'[r] \in Nat
      BY <1>3, <2>4
    <3>2. QED
      BY <1>2, <2>1, <2>2, <2>3, <2>4, <3>1 DEF IInv, AuditInv, AuditedIsMailedOrSuppressed
  <2>9. QED
    BY <1>2, <2>6, <2>7, <2>8 DEF IInv
<1>9. CASE AuditAck(w)
  <2> DEFINE q == work[w].req
  <2>1. /\ work[w].pc = "auditing" /\ work' = [work EXCEPT ![w] = Idle]
        /\ audits' = [audits EXCEPT ![q] = @ + 1]
        /\ UNCHANGED <<mails, late>>
    BY <1>9 DEF AuditAck
  <2>2. /\ work' \in [Workers -> WorkState]
        /\ \A x \in Workers : x # w => work'[x] = work[x]
        /\ work'[w].pc = "idle"
    BY <1>3, <2>1 DEF WorkState, Idle
  <2>3. q \in Requests /\ (mails[q] > 0 \/ suppressed)
    BY <1>3, <2>1 DEF IInv, AuditInv
  <2> HIDE DEF q
  <2>4. /\ audits' \in [Requests -> Nat]
        /\ \A r \in Requests : r # q => audits'[r] = audits[r]
    BY <1>3, <2>1, <2>3
  <2>5. DsrTypeOK'
    BY <1>1, <1>3, <1>4, <2>1, <2>2, <2>4 DEF DsrTypeOK
  <2>6. LateInv'
    BY <1>1, <1>2, <2>1, <2>2 DEF IInv, LateInv, LateMailWasInFlight
  <2>7. AuditInv'
    BY <1>2, <2>1, <2>2, <2>3, <2>4 DEF IInv, AuditInv, AuditedIsMailedOrSuppressed
  <2>8. QED
    BY <1>2, <2>5, <2>6, <2>7 DEF IInv
<1>10. CASE AckFails(w)
  <2>1. Idle \in WorkState /\ Idle.pc = "idle"
    BY DEF WorkState, Idle
  <2>2. QED
    BY <1>3, <1>5, <1>10, <2>1 DEF AckFails
<1>11. CASE Expire(w)
  <2>1. /\ work' = [work EXCEPT ![w].attached = FALSE] /\ UNCHANGED <<mails, audits, late>>
    BY <1>11 DEF Expire
  <2>2. work' \in [Workers -> WorkState]
    BY <1>3, <2>1 DEF WorkState
  <2>3. /\ \A x \in Workers : x # w => work'[x] = work[x]
        /\ work'[w].pc = work[w].pc /\ work'[w].req = work[w].req
    BY <1>3, <2>1 DEF WorkState
  <2>4. QED
    BY <1>3, <1>5, <2>1, <2>2, <2>3
<1>12. QED
  BY <1>6, <1>7, <1>8, <1>9, <1>10, <1>11 DEF Worker

\* The first row for the user notes who is past the guard.
LEMMA BounceKeeps ==
    ASSUME IInv, Bounce
    PROVE  IInv'
<1>1. /\ SesStep /\ SesInv
      /\ UNCHANGED <<production, card, post, dsr, ack, work, mails, audits, late, faults>>
  BY DEF Bounce, requestVars, workerVars, IInv
<1>2. SesInv' /\ (suppressed => suppressed')
  BY <1>1, SesKeeps, SuppressedStays DEF SesInv
<1>3. inflight' = IF ~suppressed /\ suppressed'
                 THEN {w \in Workers : work[w].pc = "sending"} ELSE inflight
  BY DEF Bounce, sending, suppressed, hasRow
<1>4. DsrTypeOK' /\ CardTypeOK'
  BY <1>1, <1>3 DEF IInv, DsrTypeOK, CardTypeOK
<1>5. LateInv'
  BY <1>1, <1>2, <1>3 DEF IInv, LateInv, LateMailWasInFlight, DsrTypeOK
<1>6. AuditInv'
  BY <1>1, <1>2 DEF IInv, AuditInv, AuditedIsMailedOrSuppressed
<1>7. QED
  BY <1>2, <1>4, <1>5, <1>6 DEF IInv

\* A failure adds nothing to the list.
LEMMA BounceFaultKeeps ==
    ASSUME IInv, BounceFault
    PROVE  IInv'
<1>1. /\ SesFault /\ SesInv /\ faults' = faults + 1
      /\ UNCHANGED <<production, card, post, dsr, ack, work, mails, audits, inflight, late, ids>>
  BY DEF BounceFault, SesFault, StoreFails, BounceFails, BounceExpires, StrayFails, requestVars,
     workerVars, IInv
<1>2. SesInv' /\ suppressed' = suppressed
  BY <1>1, SesKeeps DEF suppressed, hasRow
<1>3. DsrTypeOK' /\ CardTypeOK' /\ LateInv' /\ AuditInv'
  BY <1>1, <1>2 DEF IInv, DsrTypeOK, CardTypeOK, LateInv, LateMailWasInFlight, AuditInv,
     AuditedIsMailedOrSuppressed
<1>4. QED
  BY <1>2, <1>3 DEF IInv

\* No notice, no request, an empty list.
LEMMA InitIInv == Init => IInv
<1> SUFFICES ASSUME Init PROVE IInv
  OBVIOUS
<1>1. /\ bounce \in [Notices -> JobState] /\ storing = {}
      /\ \A n \in Notices : bounce[n] = NoJob /\ event[n] = "none" /\ stray[n] = 0
      /\ \A a \in Addresses, n \in Notices : ids[a][n] = 0
  BY DEF Init, SesInit, NoJob, JobState
<1>2. SesInv
  <2>1. SesTypeOK
    BY DEF Init, SesInit, NoJob, SesTypeOK
  <2>2. JobInv /\ ProgressInv /\ CountInv /\ ProcessedIsSuppressed /\ RepeatsAreFailures
    BY <1>1, Passed DEF NoJob, JobInv, ProgressInv, CountInv, due, ProcessedIsSuppressed,
       RepeatsAreFailures
  <2>3. QED
    BY <2>1, <2>2 DEF SesInv
<1>3. ~suppressed
  BY <1>1, DsrAssumption DEF suppressed, hasRow
<1>4. DsrTypeOK /\ CardTypeOK
  <2>1. Idle \in WorkState /\ NoPost \in PostState /\ NewCard \in CardState
    BY DEF Idle, WorkState, NoPost, PostState, NewCard, CardState
  <2>2. QED
    BY <2>1 DEF Init, DsrTypeOK, CardTypeOK, JobStates, NoPost
<1>5. LateInv /\ AuditInv
  BY <1>3 DEF Init, Idle, LateInv, LateMailWasInFlight, AuditInv, AuditedIsMailedOrSuppressed
<1>6. QED
  BY <1>2, <1>4, <1>5 DEF IInv

\* Every step keeps the invariant.
LEMMA NextIInv == IInv /\ [Next]_vars => IInv'
<1> SUFFICES ASSUME IInv, [Next]_vars PROVE IInv'
  OBVIOUS
<1>1. CASE UNCHANGED vars
  BY <1>1 DEF vars, sesVars, requestVars, workerVars, IInv, SesInv, SesTypeOK, JobInv,
     ProgressInv, CountInv, due, ProcessedIsSuppressed, RepeatsAreFailures, namesOnce,
     recipients, DsrTypeOK, CardTypeOK, LateInv, LateMailWasInFlight, AuditInv,
     AuditedIsMailedOrSuppressed, suppressed, hasRow
<1>2. CASE Next
  BY <1>2, RequestKeeps, WorkerKeeps, BounceKeeps, BounceFaultKeeps DEF Next
<1>3. QED
  BY <1>1, <1>2

\* The inductive invariant holds in every reachable state.
THEOREM Invariance == Spec => []IInv
  BY InitIInv, NextIInv, PTL DEF Spec

\* Types of both modules.
THEOREM TypeCorrect == Spec => []TypeOK
<1>1. IInv => TypeOK
  BY DEF IInv, SesInv, DsrTypeOK, CardTypeOK, CardState, PostState, WorkState, JobStates, TypeOK
<1>2. QED
  BY <1>1, Invariance, PTL

\* A processed event has put all its recipients on the list.
THEOREM ProcessedSuppressed == Spec => []ProcessedIsSuppressed
<1>1. IInv => ProcessedIsSuppressed
  BY DEF IInv, SesInv
<1>2. QED
  BY <1>1, Invariance, PTL

\* A notice repeats in notification_ids only for attempts that failed.
THEOREM RepeatsExplained == Spec => []RepeatsAreFailures
<1>1. IInv => RepeatsAreFailures
  BY DEF IInv, SesInv
<1>2. QED
  BY <1>1, Invariance, PTL

\* After the first row for the user, only handlers past the guard then send, once.
THEOREM LateMailBounded == Spec => []LateMailWasInFlight
<1>1. IInv => LateMailWasInFlight
  BY DEF IInv, LateInv
<1>2. QED
  BY <1>1, Invariance, PTL

\* An audit row stands for an accepted mail or a suppressed address.
THEOREM AuditedExplained == Spec => []AuditedIsMailedOrSuppressed
<1>1. IInv => AuditedIsMailedOrSuppressed
  BY DEF IInv, AuditInv
<1>2. QED
  BY <1>1, Invariance, PTL
-----------------------------------------------------------------------------
(* The bounce route implements EventInbox *)

Place == [n \in Notices |-> placeOf(n)]
Acked == {n \in Notices : sns[n] = "acked"}

\* The statements of the worker: the event is dispatched and stays so.
LEMMA WorkerUnseen ==
    ASSUME SesInv, NEW n \in Notices, JobStep(n)
    PROVE  Place' = Place /\ Acked' = Acked
<1>1. UNCHANGED <<sns, storing>>
  BY DEF JobStep, ReadEvent, SuppressNext, MarkProcessed, CompleteBounce, BounceFails,
     BounceExpires, StraySuppresses, StrayMarks, StrayFails
<1>2. /\ \A m \in Notices \ {n} : bounce'[m] = bounce[m] /\ event'[m] = event[m]
      /\ bounce \in [Notices -> JobState] /\ event \in [Notices -> {"none", "stored", "processed"}]
      /\ stray \in [Notices -> Nat] /\ NoticeInv(n)
  BY SesFrame, NoticeFacts DEF SesInv
<1>3. bounce[n].state # "none" /\ bounce'[n].state # "none"
  <2>1. CASE UNCHANGED bounce
    <3>1. stray[n] # 0
      BY <2>1, <1>2 DEF JobStep, ReadEvent, SuppressNext, MarkProcessed, CompleteBounce,
         BounceFails, BounceExpires, StraySuppresses, StrayMarks, StrayFails, suppress, finish,
         retry, JobState
    <3>2. QED
      BY <2>1, <3>1, <1>2 DEF NoticeInv
  <2>2. CASE ReadEvent(n) \/ SuppressNext(n) \/ MarkProcessed(n) \/ CompleteBounce(n)
    BY <1>2, <2>2 DEF ReadEvent, SuppressNext, MarkProcessed, CompleteBounce, finish, JobState
  <2>3. CASE BounceFails(n) \/ BounceExpires(n)
    BY <1>2, <2>3, RetryType DEF BounceFails, BounceExpires
  <2>4. QED
    BY <2>1, <2>2, <2>3 DEF JobStep, StraySuppresses, StrayMarks, StrayFails
<1>4. event[n] # "none" /\ event'[n] # "none"
  <2>1. event[n] # "none" /\ event'[n] \in {event[n], "processed"}
    BY <1>2, <1>3 DEF NoticeInv, JobStep, ReadEvent, SuppressNext, MarkProcessed,
       CompleteBounce, BounceFails, BounceExpires, StraySuppresses, StrayMarks, StrayFails
  <2>2. QED
    BY <2>1
<1>5. ASSUME NEW m \in Notices
      PROVE  placeOf(m)' = placeOf(m)
  <2>1. CASE m = n
    BY <1>1, <1>3, <1>4, <2>1 DEF placeOf
  <2>2. CASE m # n
    BY <1>1, <1>2, <2>2 DEF placeOf
  <2>3. QED
    BY <2>1, <2>2
<1>6. QED
  BY <1>1, <1>5 DEF Place, Acked

\* Each statement of the route is a move of its event or an answer.
LEMMA RouteRefines ==
    ASSUME SesInv, NEW n \in Notices, RouteStep(n)
    PROVE  Inbox!Next
<1>1. /\ \A m \in Notices \ {n} : bounce'[m] = bounce[m] /\ event'[m] = event[m]
      /\ bounce \in [Notices -> JobState] /\ event \in [Notices -> {"none", "stored", "processed"}]
      /\ sns \in [Notices -> {"pending", "acked"}]
  BY SesFrame DEF SesInv, SesTypeOK, JobState
<1>2. \A m \in Notices \ {n} : m \in storing' <=> m \in storing
  BY DEF RouteStep, StoreNotice, EnqueueBounce, StoreFails, AnswerNotice
<1>3. \A m \in Notices \ {n} : placeOf(m)' = placeOf(m)
  BY <1>1, <1>2 DEF placeOf
<1>4. ASSUME NEW to, placeOf(n)' = to
      PROVE  Place' = [Place EXCEPT ![n] = to]
  BY <1>3, <1>4 DEF Place
<1>5. n \in storing => event[n] = "stored" /\ bounce[n].state = "none"
  BY DEF SesInv, JobInv
<1>6. CASE StoreNotice(n)
  <2>1. placeOf(n) = "new" /\ placeOf(n)' = "stored" /\ Acked' = Acked
    BY <1>1, <1>6 DEF StoreNotice, isNew, placeOf, Acked
  <2>2. Inbox!Store(n)
    BY <1>4, <2>1 DEF Inbox!Store, Inbox!moves, Place, Acked
  <2>3. QED
    BY <2>2 DEF Inbox!Next
<1>7. CASE EnqueueBounce(n)
  <2>1. placeOf(n) = "stored"
    BY <1>5, <1>7 DEF EnqueueBounce, placeOf
  <2>2. placeOf(n)' = "dispatched"
    <3>1. bounce'[n].state = "queued" /\ event' = event /\ n \notin storing'
      BY <1>1, <1>7 DEF EnqueueBounce, JobState
    <3>2. event[n] = "stored"
      BY <1>5, <1>7 DEF EnqueueBounce
    <3>3. QED
      BY <3>1, <3>2 DEF placeOf
  <2>3. Acked' = Acked
    BY <1>7 DEF EnqueueBounce, Acked
  <2>4. Inbox!Dispatch(n)
    BY <1>4, <2>1, <2>2, <2>3 DEF Inbox!Dispatch, Inbox!moves, Place, Acked
  <2>5. QED
    BY <2>4 DEF Inbox!Next
<1>8. CASE StoreFails(n)
  <2>1. placeOf(n) = "stored" /\ placeOf(n)' = "lost" /\ Acked' = Acked
    BY <1>5, <1>8 DEF StoreFails, placeOf, Acked
  <2>2. Inbox!Lose(n)
    BY <1>4, <2>1 DEF Inbox!Lose, Inbox!moves, Place, Acked
  <2>3. QED
    BY <2>2 DEF Inbox!Next
<1>9. CASE AnswerNotice(n)
  <2>1. placeOf(n) # "new" /\ placeOf(n)' = placeOf(n)
    BY <1>9 DEF AnswerNotice, isNew, placeOf
  <2>2. Place' = Place
    BY <1>3, <2>1 DEF Place
  <2>3. Acked' = Acked \union {n}
    BY <1>1, <1>9 DEF AnswerNotice, Acked
  <2>4. Inbox!Acknowledge(n)
    BY <2>1, <2>2, <2>3 DEF Inbox!Acknowledge, Place, Acked
  <2>5. QED
    BY <2>4 DEF Inbox!Next
<1>10. QED
  BY <1>6, <1>7, <1>8, <1>9 DEF RouteStep

\* The route implements EventInbox: only the request that stored a notice enqueues
\* its job, only what is stored is answered, and a lost notice stays lost.
THEOREM InboxRefinement == Spec => ImplementsInbox
<1>1. Init => Inbox!Init
  BY DEF Init, SesInit, Inbox!Init, placeOf
<1>2. ASSUME IInv, [Next]_vars
      PROVE  [Inbox!Next]_(Inbox!vars)
  <2>1. SesInv
    BY <1>2 DEF IInv
  <2>2. CASE UNCHANGED sesVars
    BY <2>2 DEF sesVars, Inbox!vars, placeOf
  <2>3. CASE SesStep \/ SesFault
    <3>1. PICK n \in Notices : RouteStep(n) \/ JobStep(n)
      BY <2>3, NoticeSteps
    <3>2. Inbox!Next \/ (Place' = Place /\ Acked' = Acked)
      BY <2>1, <3>1, RouteRefines, WorkerUnseen
    <3>3. QED
      BY <3>2 DEF Inbox!vars, Place, Acked
  <2>4. QED
    BY <1>2, <2>2, <2>3 DEF Next, vars, Bounce, BounceFault, Worker, Handler, Card, OpenModal,
       CloseModal, TypePhrase, Confirm, AnswerLost, atCard, InsertRequest, EnqueueAck,
       PostFails, ReadRequest, GuardSend, Send, AuditAck, AckFails, Expire, quiet
<1>3. QED
  BY <1>1, <1>2, Invariance, PTL DEF Spec, ImplementsInbox, Inbox!Spec
=============================================================================
