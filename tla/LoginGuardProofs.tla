--------------------------- MODULE LoginGuardProofs ---------------------------
(***************************************************************************)
(* The limiter and the account lock, for any number of tabs, handlers,     *)
(* attempts, locks and failures.                                           *)
(*                                                                         *)
(* The limit holds although an attempt is counted in one statement and the *)
(* sum read in another: whoever is let past has seen every attempt of its  *)
(* window that was let past before it.  HitInv says whose hit is whose.    *)
(***************************************************************************)
EXTENDS LoginGuard, FiniteSetTheorems, TLAPS

Hit == [id : Nat, window : Nat]

\* Requests are numbered; a hit lies in the window its request read.
HitInv ==
    /\ IsFiniteSet(hits)
    /\ hits \subseteq Hit
    /\ posts \in Nat /\ now \in Nat
    /\ \A h \in hits : h.id <= posts
    /\ \A n \in past : n <= posts
    /\ past \subseteq Nat
    /\ \A r \in Requests : at(r, "counted") =>
         \A h \in hits : h.id = req[r].id => h.window = floor_window(req[r].at)

\* No two handlers are of one request, and only a mailing one holds a lock.
IdInv ==
    /\ \A r \in Requests : ~at(r, "idle") => req[r].id <= posts
    /\ \A q, r \in Requests : ~at(q, "idle") /\ ~at(r, "idle") /\ req[q].id = req[r].id => q = r
    /\ \A r \in Requests : req[r].lock # None <=> req[r].pc \in {"mailing", "starting"}
    /\ \A l \in Locks : lock[l].by <= posts

\* A request whose lock is not in the table yet has none there.
ByInv ==
    \A r \in Requests, l \in Locks :
      ~at(r, "idle") /\ lock[l].by = req[r].id => req[r].pc \in {"mailing", "starting"}

\* Who is about to insert has raced the lock that is open.
RaceInv ==
    \A r \in Requests :
      at(r, "inserting") /\ (\E l \in Locks : isOpen(l)) => req[r].id \in racers

LockInv ==
    /\ req \in [Requests -> RequestRecord]
    /\ lock \in [Locks -> LockRecord]
    /\ orphaned \subseteq Locks
    /\ IdInv
    /\ ByInv
    /\ RaceInv
    /\ OpenLocksRaced
    /\ UnmailedLockIsExplained

IInv == LockInv /\ HitInv /\ AttemptsBounded

-----------------------------------------------------------------------------
(* Windows and sums *)

LEMMA FloorWindow ==
    ASSUME NEW t \in Nat
    PROVE  floor_window(t) \in Nat /\ floor_window(t) + Window >= t
<1>1. t % Window \in Nat /\ t % Window <= t /\ t % Window < Window
  BY WindowAssumption
<1>2. QED
  BY <1>1, WindowAssumption DEF floor_window

\* The sum a request reads covers its own window.
LEMMA SumCoversWindow ==
    ASSUME IsFiniteSet(hits), hits \subseteq Hit, NEW n \in Nat, NEW S \in SUBSET Nat
    PROVE  /\ counted(hits, n) \in Nat
           /\ Cardinality({h \in hits : h.window = floor_window(n) /\ h.id \in S})
                <= counted(hits, n)
<1> DEFINE all == {h \in hits : h.window + Window >= n}
           mine == {h \in hits : h.window = floor_window(n) /\ h.id \in S}
<1>1. mine \subseteq all
  BY FloorWindow
<1>2. IsFiniteSet(all)
  BY FS_Subset
<1>3. IsFiniteSet(mine) /\ Cardinality(mine) <= Cardinality(all) /\ Cardinality(all) \in Nat
  BY <1>1, <1>2, FS_Subset, FS_CardinalityType
<1>4. QED
  BY <1>3 DEF counted

\* The bound, without the history of a window nobody counted in.
LEMMA AttemptsFrame ==
    ASSUME HitInv, AttemptsBounded,
           \A h \in hits' : h \in hits \/ h.id \notin past',
           past' = past, IsFiniteSet(hits')
    PROVE  AttemptsBounded'
<1> SUFFICES ASSUME NEW g \in hits'
             PROVE  Cardinality({h \in hits' : h.window = g.window /\ h.id \in past}) <= LoginLimit
  BY DEF AttemptsBounded, letPast
<1> DEFINE A == {h \in hits' : h.window = g.window /\ h.id \in past}
<1>1. CASE A = {}
  BY <1>1, FS_EmptySet, GuardAssumption
<1>2. CASE A # {}
  <2>1. PICK k \in A : TRUE
    BY <1>2
  <2>2. k \in hits /\ k.window = g.window
    BY <2>1
  <2>3. A \subseteq letPast(k.window)
    BY <2>2 DEF letPast
  <2>4. IsFiniteSet(letPast(k.window))
    BY FS_Subset DEF letPast, HitInv
  <2>5. Cardinality(letPast(k.window)) <= LoginLimit
    BY <2>2 DEF AttemptsBounded
  <2>6. Cardinality(A) <= Cardinality(letPast(k.window)) /\ Cardinality(A) \in Nat
        /\ Cardinality(letPast(k.window)) \in Nat
    BY <2>3, <2>4, FS_Subset, FS_CardinalityType
  <2>7. QED
    BY <2>5, <2>6, GuardAssumption
<1>3. QED
  BY <1>1, <1>2

-----------------------------------------------------------------------------
(* Requests *)

\* Steps that leave the handlers and the locks where they are, as far as the
\* invariant sees them: a tab that stops waiting, the clock.
LEMMA LockFrame ==
    ASSUME IInv, req' \in [Requests -> RequestRecord],
           UNCHANGED <<lock, orphaned, racers, posts>>,
           \A r \in Requests : /\ req'[r].pc = req[r].pc /\ req'[r].id = req[r].id
                               /\ req'[r].lock = req[r].lock
    PROVE  LockInv'
  BY DEF IInv, LockInv, IdInv, ByInv, RaceInv, OpenLocksRaced, UnmailedLockIsExplained, isOpen, at

\* Posting: a hit of a new number, in the window of the clock.
LEMMA SubmitKeeps ==
    ASSUME IInv, NEW t \in Tabs, NEW right \in BOOLEAN, Submit(t, right),
           form[t].token \in BOOLEAN
    PROVE  IInv'
<1> DEFINE new == hit(posts + 1, now)
           q == [pc |-> "counted", id |-> posts + 1, tab |-> t, at |-> now,
                 right |-> right, token |-> form[t].token, count |-> 0, lock |-> None]
<1>1. PICK r \in Requests :
        /\ posts' = posts + 1 /\ hits' = hits \union {new} /\ req' = [req EXCEPT ![r] = q]
        /\ at(r, "idle") /\ UNCHANGED <<now, lock, past, racers, orphaned>>
  BY DEF Submit, clock, history
<1>2. posts \in Nat /\ now \in Nat /\ new \in Hit /\ new.id = posts + 1
      /\ new.window = floor_window(now) /\ q \in RequestRecord
  BY FloorWindow DEF IInv, HitInv, hit, Hit, RequestRecord
<1>3. q.id = posts + 1 /\ q.at = now /\ q.lock = None /\ q.pc = "counted"
  OBVIOUS
<1> HIDE DEF q
<1>4. /\ req'[r] = q /\ \A s \in Requests \ {r} : req'[s] = req[s]
      /\ req' \in [Requests -> RequestRecord]
  BY <1>1, <1>2 DEF IInv, LockInv
<1>5. LockInv'
  <2>1. req[r].lock = None
    BY <1>1 DEF IInv, LockInv, IdInv, at
  <2>2. /\ \A s \in Requests \ {r} : ~at(s, "idle") => req[s].id <= posts /\ req[s].id \in Nat
        /\ \A l \in Locks : lock[l].by <= posts /\ lock[l].by \in Nat
    BY DEF IInv, LockInv, IdInv, RequestRecord, LockRecord
  <2>3. IdInv'
    BY <1>1, <1>2, <1>3, <1>4, <2>2 DEF IInv, LockInv, IdInv, at
  <2>4. RaceInv' /\ ByInv'
    BY <1>1, <1>2, <1>3, <1>4, <2>2 DEF IInv, LockInv, ByInv, RaceInv, isOpen, at
  <2>5. OpenLocksRaced' /\ UnmailedLockIsExplained'
    BY <1>1, <1>3, <1>4, <2>1, GuardAssumption
       DEF IInv, LockInv, OpenLocksRaced, UnmailedLockIsExplained, isOpen
  <2>6. QED
    BY <1>1, <1>4, <2>3, <2>4, <2>5 DEF IInv, LockInv
<1>6. HitInv'
  <2>1. IsFiniteSet(hits')
    BY <1>1, FS_AddElement DEF IInv, HitInv
  <2>2. \A h \in hits : h.id # posts + 1 /\ h.id <= posts + 1
    BY <1>2 DEF IInv, HitInv, Hit
  <2>3. \A s \in Requests \ {r} : at(s, "counted") => req[s].id # posts + 1
    BY <1>2 DEF IInv, LockInv, IdInv, RequestRecord, at
  <2>4. \A n \in past : n <= posts + 1
    <3>1. posts \in Nat /\ past \subseteq Nat /\ \A n \in past : n <= posts
      BY DEF IInv, HitInv
    <3>2. QED
      BY <3>1
  <2> HIDE DEF new
  <2>5. QED
    BY <1>1, <1>2, <1>3, <1>4, <2>1, <2>2, <2>3, <2>4 DEF IInv, HitInv, at
<1>7. AttemptsBounded'
  <2>1. posts + 1 \notin past
    BY <1>2 DEF IInv, HitInv
  <2>2. IsFiniteSet(hits')
    BY <1>6 DEF HitInv
  <2> HIDE DEF new
  <2>3. QED
    BY <1>1, <1>2, <2>1, <2>2, AttemptsFrame DEF IInv
<1>8. QED
  BY <1>5, <1>6, <1>7 DEF IInv

\* A handler that holds no lock and goes on to a statement that needs none.
LEMMA MoveKeeps ==
    ASSUME IInv, NEW r \in Requests, req' \in [Requests -> RequestRecord],
           \A s \in Requests \ {r} : req'[s] = req[s],
           req[r].lock = None, req'[r].lock = None,
           req'[r].pc \in {"idle", "checking", "locking", "accepted"},
           req'[r].pc = "idle" \/ (req'[r].id = req[r].id /\ ~at(r, "idle")),
           UNCHANGED <<lock, orphaned, racers, posts>>
    PROVE  LockInv'
<1>1. IdInv'
  BY DEF IInv, LockInv, IdInv, at
<1>2. RaceInv' /\ ByInv'
  BY DEF IInv, LockInv, IdInv, ByInv, RaceInv, isOpen, at
<1>3. OpenLocksRaced' /\ UnmailedLockIsExplained'
  BY GuardAssumption DEF IInv, LockInv, OpenLocksRaced, UnmailedLockIsExplained, isOpen
<1>4. QED
  BY <1>1, <1>2, <1>3 DEF IInv, LockInv

\* Reading the sum: whoever is let past has counted the others of its window.
LEMMA ReadCountKeeps ==
    ASSUME IInv, NEW r \in Requests, ReadCount(r)
    PROVE  IInv'
<1> DEFINE n == attempts(r)
           w == floor_window(req[r].at)
<1>1. /\ at(r, "counted") /\ UNCHANGED <<now, hits, lock, orphaned, racers, posts>>
      /\ \/ n <= LoginLimit /\ past' = past \union {req[r].id}
            /\ req' = [req EXCEPT ![r].pc = "checking", ![r].count = n]
         \/ past' = past /\ req' = [req EXCEPT ![r].pc = "locking", ![r].count = n]
  BY DEF ReadCount, clock
<1>2. req[r] \in RequestRecord /\ req[r].at \in Nat /\ req[r].id \in Nat /\ req[r].id <= posts
      /\ req[r].lock = None
  BY <1>1 DEF IInv, LockInv, IdInv, RequestRecord, at
<1>3. n \in Nat
  BY <1>2, SumCoversWindow DEF IInv, HitInv, attempts
<1> HIDE DEF n, w
<1>4. /\ \A s \in Requests \ {r} : req'[s] = req[s]
      /\ req'[r].pc \in {"checking", "locking"} /\ req'[r].lock = None
      /\ req'[r].id = req[r].id
      /\ req' \in [Requests -> RequestRecord]
  BY <1>1, <1>2, <1>3 DEF IInv, LockInv, RequestRecord
<1>5. LockInv'
  BY <1>1, <1>2, <1>4, MoveKeeps DEF at
<1>6. past' \subseteq Nat /\ \A m \in past' : m <= posts
  BY <1>1, <1>2 DEF IInv, HitInv
<1>7. HitInv'
  BY <1>1, <1>4, <1>6 DEF IInv, HitInv, at
<1>8. AttemptsBounded'
  <2>1. CASE past' = past
    BY <1>1, <2>1 DEF IInv, AttemptsBounded, letPast
  <2>2. CASE n <= LoginLimit /\ past' = past \union {req[r].id}
    <3> SUFFICES ASSUME NEW g \in hits
                 PROVE  Cardinality({h \in hits : h.window = g.window /\ h.id \in past'})
                          <= LoginLimit
      BY <1>1 DEF AttemptsBounded, letPast
    <3>1. CASE g.window = w
      <4>1. Cardinality({h \in hits : h.window = g.window /\ h.id \in past'}) <= n
        BY <1>2, <1>6, <3>1, SumCoversWindow DEF IInv, HitInv, n, w, attempts
      <4>2. IsFiniteSet({h \in hits : h.window = g.window /\ h.id \in past'})
        BY FS_Subset DEF IInv, HitInv
      <4>3. QED
        BY <1>3, <2>2, <4>1, <4>2, FS_CardinalityType, GuardAssumption
    <3>2. CASE g.window # w
      <4>1. \A h \in hits : h.id = req[r].id => h.window = w
        BY <1>1 DEF IInv, HitInv, w
      <4>2. {h \in hits : h.window = g.window /\ h.id \in past'} = letPast(g.window)
        BY <2>2, <3>2, <4>1 DEF letPast
      <4>3. QED
        BY <4>2 DEF IInv, AttemptsBounded
    <3>3. QED
      BY <3>1, <3>2
  <2>3. QED
    BY <1>1, <2>1, <2>2
<1>9. QED
  BY <1>5, <1>7, <1>8 DEF IInv

\* Answers that held no lock.
AnswerStep(r) ==
    \/ RefuseTurnstile(r) \/ RefusePassword(r) \/ AcceptPassword(r) \/ InsertSession(r)
    \/ SkipLock(r)

\* The lock, from the query to the e-mail's job.
LockStep(r) ==
    \/ PrepareLock(r) \/ InsertLock(r) \/ CreateBoss(r) \/ StartBoss(r) \/ EnqueueUnlock(r)

FailStep(r) == SendFails(r) \/ RequestFails(r)

\* Steps after which no more requests are about to read the sum.
LEMMA HitsFrame ==
    ASSUME IInv, hits' \in {hits, {}}, UNCHANGED <<posts, past>>, now' \in Nat,
           \A r \in Requests : at(r, "counted")' =>
             at(r, "counted") /\ req'[r].id = req[r].id /\ req'[r].at = req[r].at
    PROVE  HitInv' /\ AttemptsBounded'
<1>1. IsFiniteSet(hits') /\ hits' \subseteq hits
  BY FS_EmptySet DEF IInv, HitInv
<1>2. HitInv'
  BY <1>1 DEF IInv, HitInv
<1>3. AttemptsBounded'
  BY <1>1, AttemptsFrame DEF IInv
<1>4. QED
  BY <1>2, <1>3

LEMMA AnswerKeeps ==
    ASSUME IInv, NEW r \in Requests, AnswerStep(r)
    PROVE  IInv'
<1>1. /\ req[r].pc \in {"checking", "accepted", "locking"}
      /\ req' = [req EXCEPT ![r] = IdleRequest] \/ req' = [req EXCEPT ![r].pc = "accepted"]
      /\ hits' \in {hits, {}}
      /\ UNCHANGED <<now, lock, orphaned, racers, posts, past>>
  BY DEF AnswerStep, RefuseTurnstile, RefusePassword, AcceptPassword, InsertSession, SkipLock,
     answerLocked, answer, at, clock, history
<1>2. req[r].lock = None /\ req[r] \in RequestRecord
  BY <1>1 DEF IInv, LockInv, IdInv
<1>3. /\ \A s \in Requests \ {r} : req'[s] = req[s]
      /\ req'[r].pc \in {"idle", "accepted"} /\ req'[r].lock = None
      /\ req'[r].pc = "idle" \/ req'[r].id = req[r].id
      /\ req' \in [Requests -> RequestRecord]
  <2>1. req \in [Requests -> RequestRecord]
    BY DEF IInv, LockInv
  <2>2. CASE req' = [req EXCEPT ![r] = IdleRequest]
    <3>1. IdleRequest \in RequestRecord /\ IdleRequest.pc = "idle" /\ IdleRequest.lock = None
      BY DEF IdleRequest, RequestRecord
    <3>2. QED
      BY <2>1, <2>2, <3>1
  <2>3. CASE req' = [req EXCEPT ![r].pc = "accepted"]
    BY <1>2, <2>1, <2>3 DEF RequestRecord
  <2>4. QED
    BY <1>1, <2>2, <2>3
<1>4. LockInv'
  BY <1>1, <1>2, <1>3, MoveKeeps DEF at
<1>5. HitInv' /\ AttemptsBounded'
  <2>1. \A s \in Requests : at(s, "counted")' => req'[s] = req[s]
    BY <1>3 DEF at
  <2>2. now' \in Nat
    BY <1>1 DEF IInv, HitInv
  <2>3. QED
    BY <1>1, <2>1, <2>2, HitsFrame DEF at
<1>6. QED
  BY <1>4, <1>5 DEF IInv

\* The query found no lock: the request joins the race.
LEMMA PrepareKeeps ==
    ASSUME IInv, NEW r \in Requests, PrepareLock(r)
    PROVE  LockInv' /\ \A s \in Requests : at(s, "counted")' => req'[s] = req[s]
<1>1. /\ at(r, "locking") /\ ~hasActiveLock
      /\ req' = [req EXCEPT ![r].pc = "inserting", ![r].at = now]
      /\ UNCHANGED <<lock, orphaned, racers, posts>>
  BY DEF PrepareLock, history
<1>2. req \in [Requests -> RequestRecord] /\ now \in Nat
  BY DEF IInv, LockInv, HitInv
<1>3. /\ req' \in [Requests -> RequestRecord] /\ req'[r].pc = "inserting"
      /\ req'[r].id = req[r].id /\ req'[r].lock = req[r].lock
      /\ \A s \in Requests \ {r} : req'[s] = req[s]
  BY <1>1, <1>2 DEF RequestRecord
<1>4. \A l \in Locks : ~isOpen(l)
  BY <1>1 DEF hasActiveLock
<1>5. ASSUME NEW l \in Locks PROVE lock[l].by # req[r].id
  BY <1>1 DEF IInv, LockInv, ByInv, at
<1>6. QED
  BY <1>1, <1>3, <1>4, <1>5
     DEF IInv, LockInv, IdInv, ByInv, RaceInv, OpenLocksRaced, UnmailedLockIsExplained, isOpen, at

\* The lock is inserted: by one that was in the race when the user got locked.
LEMMA InsertKeeps ==
    ASSUME IInv, NEW r \in Requests, InsertLock(r)
    PROVE  LockInv' /\ \A s \in Requests : at(s, "counted")' => req'[s] = req[s]
<1> DEFINE row == [NoLock EXCEPT !.state = "open", !.at = req[r].at, !.by = req[r].id]
<1>1. PICK l \in Locks :
        /\ lock[l] = NoLock
        /\ lock' = [lock EXCEPT ![l] = row]
        /\ req' = [req EXCEPT ![r].pc = "mailing", ![r].lock = l]
  BY DEF InsertLock
<1>2. /\ at(r, "inserting") /\ UNCHANGED <<orphaned, posts>>
      /\ racers' = IF \E m \in Locks : isOpen(m) THEN racers ELSE inserting
  BY DEF InsertLock
<1>3. /\ req \in [Requests -> RequestRecord] /\ lock \in [Locks -> LockRecord]
      /\ req[r] \in RequestRecord /\ l # None
  BY GuardAssumption DEF IInv, LockInv
<1>4. row \in LockRecord /\ row.by = req[r].id /\ row.mail = "none" /\ row.state = "open"
  BY <1>3 DEF LockRecord, NoLock, RequestRecord
<1> HIDE DEF row
<1>5. /\ req' \in [Requests -> RequestRecord] /\ req'[r].pc = "mailing" /\ req'[r].lock = l
      /\ req'[r].id = req[r].id
      /\ \A s \in Requests \ {r} : req'[s] = req[s]
  BY <1>1, <1>3 DEF RequestRecord
<1>6. /\ lock' \in [Locks -> LockRecord] /\ lock'[l] = row
      /\ \A m \in Locks \ {l} : lock'[m] = lock[m]
  BY <1>1, <1>3, <1>4
<1>7. \A s \in Requests : at(s, "inserting") => req[s].id \in racers'
  BY <1>2 DEF IInv, LockInv, RaceInv, inserting
<1>8. IdInv'
  BY <1>2, <1>3, <1>4, <1>5, <1>6 DEF IInv, LockInv, IdInv, at
<1>9. ByInv'
  BY <1>2, <1>4, <1>5, <1>6 DEF IInv, LockInv, IdInv, ByInv, at
<1>10. RaceInv'
  BY <1>5, <1>7 DEF RaceInv, at
<1>11. OpenLocksRaced'
  <2>1. \A m \in Locks : isOpen(m) => lock[m].by \in racers' /\ lock[m].by # req[r].id
    BY <1>2 DEF IInv, LockInv, OpenLocksRaced, ByInv, at
  <2>2. QED
    BY <1>2, <1>4, <1>6, <1>7, <2>1 DEF IInv, LockInv, OpenLocksRaced, isOpen
<1>12. UnmailedLockIsExplained'
  <2>1. req[r].lock = None
    BY <1>2 DEF IInv, LockInv, IdInv, at
  <2>2. QED
    BY <1>2, <1>3, <1>5, <1>6, <2>1, GuardAssumption
       DEF IInv, LockInv, UnmailedLockIsExplained, isOpen
<1>13. QED
  BY <1>2, <1>5, <1>6, <1>8, <1>9, <1>10, <1>11, <1>12 DEF IInv, LockInv, at

\* The e-mail's job: the lock is explained without its request.
LEMMA EnqueueKeeps ==
    ASSUME IInv, NEW r \in Requests, EnqueueUnlock(r)
    PROVE  LockInv' /\ \A s \in Requests : at(s, "counted")' => req'[s] = req[s]
<1>1. PICK l : l = req[r].lock
  OBVIOUS
<1>2. /\ at(r, "mailing") /\ lock' = [lock EXCEPT ![l].mail = "queued"]
      /\ req' = [req EXCEPT ![r] = IdleRequest] /\ UNCHANGED <<orphaned, racers, posts>>
  BY <1>1 DEF EnqueueUnlock, answerLocked, answer, history
<1>3. /\ req \in [Requests -> RequestRecord] /\ lock \in [Locks -> LockRecord] /\ l \in Locks
  BY <1>1, <1>2 DEF IInv, LockInv, IdInv, RequestRecord, at
<1>4. /\ lock' \in [Locks -> LockRecord] /\ lock'[l].mail = "queued"
      /\ \A m \in Locks : lock'[m].state = lock[m].state /\ lock'[m].by = lock[m].by
      /\ \A m \in Locks \ {l} : lock'[m] = lock[m]
  BY <1>2, <1>3 DEF LockRecord
<1>5. /\ req' \in [Requests -> RequestRecord] /\ req'[r].pc = "idle" /\ req'[r].lock = None
      /\ \A s \in Requests \ {r} : req'[s] = req[s]
  BY <1>2, <1>3 DEF IdleRequest, RequestRecord
<1>6. UnmailedLockIsExplained'
  BY <1>1, <1>2, <1>4, <1>5 DEF IInv, LockInv, UnmailedLockIsExplained, isOpen
<1>7. OpenLocksRaced'
  BY <1>2, <1>4 DEF IInv, LockInv, OpenLocksRaced, isOpen
<1>8. IdInv' /\ ByInv' /\ RaceInv'
  BY <1>2, <1>4, <1>5 DEF IInv, LockInv, IdInv, ByInv, RaceInv, isOpen, at
<1>9. QED
  BY <1>2, <1>4, <1>5, <1>6, <1>7, <1>8 DEF IInv, LockInv, at

LEMMA LockKeeps ==
    ASSUME IInv, NEW r \in Requests, LockStep(r)
    PROVE  IInv'
<1>1. UNCHANGED <<now, hits, posts, past>>
  BY DEF LockStep, PrepareLock, InsertLock, CreateBoss, StartBoss, EnqueueUnlock, clock, history
<1>2. LockInv' /\ \A s \in Requests : at(s, "counted")' => req'[s] = req[s]
  <2>1. CASE CreateBoss(r) \/ StartBoss(r)
    <3>1. /\ UNCHANGED <<lock, orphaned, racers, posts>> /\ req[r].pc \in {"mailing", "starting"}
          /\ \E pc \in {"mailing", "starting"} : req' = [req EXCEPT ![r].pc = pc]
      BY <2>1 DEF CreateBoss, StartBoss, at, history
    <3>2. /\ req' \in [Requests -> RequestRecord] /\ req'[r].pc \in {"mailing", "starting"}
          /\ req'[r].lock = req[r].lock /\ req'[r].id = req[r].id
          /\ \A s \in Requests \ {r} : req'[s] = req[s]
      BY <3>1 DEF IInv, LockInv, RequestRecord
    <3>3. QED
      BY <3>1, <3>2 DEF IInv, LockInv, IdInv, ByInv, RaceInv, OpenLocksRaced,
         UnmailedLockIsExplained, isOpen, at
  <2>2. QED
    BY <2>1, PrepareKeeps, InsertKeeps, EnqueueKeeps DEF LockStep
<1>3. HitInv' /\ AttemptsBounded'
  BY <1>1, <1>2, HitsFrame DEF at, IInv, HitInv
<1>4. QED
  BY <1>2, <1>3 DEF IInv

\* What a failing request held is on record.
LEMMA FailKeeps ==
    ASSUME IInv, UNCHANGED <<now, hits, lock, racers, posts, past>>,
           NEW S \in SUBSET Requests,
           req' = [r \in Requests |-> IF r \in S THEN IdleRequest ELSE req[r]],
           orphaned' = orphaned \union ({req[r].lock : r \in S} \ {None})
    PROVE  IInv'
<1>1. req' \in [Requests -> RequestRecord] /\ orphaned' \subseteq Locks
  BY DEF IInv, LockInv, IdleRequest, RequestRecord
<1>2. \A r \in Requests : \/ r \notin S /\ req'[r] = req[r]
                          \/ r \in S /\ req'[r].pc = "idle" /\ req'[r].lock = None
  BY DEF IdleRequest
<1>3. \A r \in S : req[r].lock \in orphaned' \union {None}
  OBVIOUS
<1>4. UnmailedLockIsExplained'
  BY <1>2, <1>3, GuardAssumption DEF IInv, LockInv, UnmailedLockIsExplained, isOpen
<1>5. IdInv' /\ ByInv' /\ RaceInv' /\ OpenLocksRaced'
  BY <1>2 DEF IInv, LockInv, IdInv, ByInv, RaceInv, OpenLocksRaced, isOpen, at
<1>6. LockInv'
  BY <1>1, <1>4, <1>5 DEF IInv, LockInv
<1>7. HitInv' /\ AttemptsBounded'
  <2>1. \A r \in Requests : at(r, "counted")' => req'[r] = req[r]
    BY <1>2 DEF at
  <2>2. now' \in Nat
    BY DEF IInv, HitInv
  <2>3. QED
    BY <2>1, <2>2, HitsFrame DEF at
<1>8. QED
  BY <1>6, <1>7 DEF IInv

\* The e-mail, its link and the clock: no lock is opened, and an e-mail is lost
\* only with the last attempt of its job.
LEMMA MailKeeps ==
    ASSUME IInv, UNCHANGED <<hits, req, posts, past, racers, orphaned>>, now' \in Nat,
           lock' \in [Locks -> LockRecord],
           \A l \in Locks : /\ lock'[l].by = lock[l].by
                            /\ isOpen(l)' => isOpen(l)
                            /\ lock[l].tries > RetryLimit => lock'[l].tries > RetryLimit
                            /\ lock'[l].mail \in {"none", "ended"} =>
                                 lock[l].mail = lock'[l].mail \/ lock'[l].tries > RetryLimit
    PROVE  IInv'
<1>1. IdInv' /\ ByInv' /\ RaceInv'
  BY DEF IInv, LockInv, IdInv, ByInv, RaceInv, at
<1>2. OpenLocksRaced'
  BY DEF IInv, LockInv, OpenLocksRaced
<1>3. UnmailedLockIsExplained'
  BY DEF IInv, LockInv, UnmailedLockIsExplained
<1>4. LockInv'
  BY <1>1, <1>2, <1>3 DEF IInv, LockInv
<1>5. HitInv' /\ AttemptsBounded'
  BY HitsFrame DEF IInv, LockInv, at
<1>6. QED
  BY <1>4, <1>5 DEF IInv

LEMMA LinkStepKeeps ==
    ASSUME IInv, NEW l \in Locks,
           SendUnlock(l) \/ SendUnlockFails(l) \/ Unlock(l) \/ UnlockRefused(l)
    PROVE  IInv'
<1>1. lock \in [Locks -> LockRecord] /\ now \in Nat /\ lock[l] \in LockRecord
  BY DEF IInv, LockInv, HitInv
<1>2. UNCHANGED <<hits, req, posts, past, racers, orphaned, now>>
  BY DEF SendUnlock, SendUnlockFails, Unlock, UnlockRefused, clock, history
<1>3. /\ lock' \in [Locks -> LockRecord]
      /\ \A m \in Locks : /\ lock'[m].by = lock[m].by
                          /\ isOpen(m)' => isOpen(m)
                          /\ lock[m].tries > RetryLimit => lock'[m].tries > RetryLimit
                          /\ lock'[m].mail \in {"none", "ended"} =>
                               lock[m].mail = lock'[m].mail \/ lock'[m].tries > RetryLimit
  <2>1. CASE SendUnlock(l)
    BY <1>1, <2>1 DEF SendUnlock, LockRecord, isOpen
  <2>2. CASE SendUnlockFails(l)
    <3>0. PICK m \in {"queued", "ended"} : m = afterMailError(l)
      BY DEF afterMailError
    <3>1. PICK row : row = [lock[l] EXCEPT !.mail = m, !.tries = lock[l].tries + 1]
      OBVIOUS
    <3>2. lock' = [lock EXCEPT ![l] = row]
      BY <1>1, <2>2, <3>0, <3>1 DEF SendUnlockFails
    <3>3. /\ row \in LockRecord /\ row.by = lock[l].by /\ row.state = lock[l].state
          /\ row.tries = lock[l].tries + 1 /\ row.mail = m
      <4>1. lock[l].tries + 1 \in Nat /\ m \in {"none", "queued", "sent", "ended"}
        BY <1>1, <3>0 DEF LockRecord
      <4>2. QED
        BY <1>1, <3>1, <4>1 DEF LockRecord
    <3>4. /\ lock'[l] = row /\ lock' \in [Locks -> LockRecord]
          /\ \A n \in Locks \ {l} : lock'[n] = lock[n]
      BY <1>1, <3>2, <3>3
    <3>5. /\ lock[l].tries \in Nat
          /\ row.mail \in {"none", "ended"} => row.tries > RetryLimit
      BY <1>1, <3>0, <3>3, GuardAssumption DEF LockRecord, afterMailError
    <3>6. QED
      BY <3>3, <3>4, <3>5, GuardAssumption DEF isOpen
  <2>3. CASE Unlock(l)
    BY <1>1, <2>3 DEF Unlock, LockRecord, isOpen
  <2>4. CASE UnlockRefused(l)
    BY <1>1, <2>4 DEF UnlockRefused, isOpen
  <2>5. QED
    BY <2>1, <2>2, <2>3, <2>4
<1>4. QED
  BY <1>1, <1>2, <1>3, MailKeeps

\* The form: a tab solves a challenge, stops waiting, or is opened anew.
LEMMA FormKeeps ==
    ASSUME IInv, NEW t \in Tabs, SolveTurnstile(t) \/ Reload(t) \/ LoseAnswer(t)
    PROVE  IInv'
<1>1. UNCHANGED <<now, hits, lock, posts, past, racers, orphaned>>
  BY DEF SolveTurnstile, Reload, LoseAnswer, clock, history
<1>2. req' \in {req, abandoned(t)}
  BY DEF SolveTurnstile, Reload, LoseAnswer
<1>3. /\ req' \in [Requests -> RequestRecord]
      /\ \A r \in Requests : /\ req'[r].pc = req[r].pc /\ req'[r].id = req[r].id
                             /\ req'[r].lock = req[r].lock /\ req'[r].at = req[r].at
  BY <1>2 DEF abandoned, IInv, LockInv, RequestRecord
<1>4. LockInv'
  BY <1>1, <1>3, LockFrame
<1>5. HitInv' /\ AttemptsBounded'
  <2>1. now' \in Nat
    BY <1>1 DEF IInv, HitInv
  <2>2. QED
    BY <1>1, <1>3, <2>1, HitsFrame DEF at
<1>6. QED
  BY <1>4, <1>5 DEF IInv

-----------------------------------------------------------------------------
\* A solved challenge is a Boolean: what a submit copies.
FormInv == form \in [Tabs -> FormRecord]

\* What the form becomes is a form again.
LEMMA FormUpdates ==
    ASSUME NEW f \in FormRecord
    PROVE  /\ [f EXCEPT !.token = TRUE] \in FormRecord
           /\ \A require : [f EXCEPT !.turnstile = @ \/ require] \in FormRecord
           /\ BlankForm \in FormRecord
           /\ \A screen \in {"form", "locked", "dashboard"} :
                [BlankForm EXCEPT !.screen = screen] \in FormRecord
<1>1. BlankForm \in FormRecord
  BY DEF BlankForm, FormRecord
<1>2. [f EXCEPT !.token = TRUE] \in FormRecord
  BY DEF FormRecord
<1>3. ASSUME NEW require
      PROVE  [f EXCEPT !.turnstile = @ \/ require] \in FormRecord
  <2>1. (f.turnstile \/ require) \in BOOLEAN
    OBVIOUS
  <2>2. ASSUME NEW x \in BOOLEAN PROVE [f EXCEPT !.turnstile = x] \in FormRecord
    BY DEF FormRecord
  <2>3. QED
    BY <2>1, <2>2
<1>4. ASSUME NEW screen \in {"form", "locked", "dashboard"}
      PROVE  [BlankForm EXCEPT !.screen = screen] \in FormRecord
  BY <1>1 DEF FormRecord
<1>5. QED
  BY <1>1, <1>2, <1>3, <1>4

LEMMA FormType ==
    ASSUME FormInv, IInv, [Next]_vars
    PROVE  FormInv'
<1> USE DEF FormInv
<1>1. CASE \E t \in Tabs : SolveTurnstile(t) \/ Reload(t)
  BY <1>1, FormUpdates DEF SolveTurnstile, Reload
<1>2. ASSUME NEW r \in Requests, NEW require, form' = refusedForm(r, require)
      PROVE  FormInv'
  BY <1>2, FormUpdates DEF refusedForm
<1>3. ASSUME NEW r \in Requests, NEW screen \in {"locked", "dashboard"},
             form' = leavesFor(r, screen)
      PROVE  FormInv'
  BY <1>3, FormUpdates DEF leavesFor
<1>4. ASSUME NEW r \in Requests, RefusePassword(r) PROVE FormInv'
  BY <1>2, <1>4 DEF RefusePassword, answer
<1>5. ASSUME NEW r \in Requests, RefuseTurnstile(r) PROVE FormInv'
  BY <1>2, <1>5 DEF RefuseTurnstile, answer
<1>6. ASSUME NEW r \in Requests, InsertSession(r) \/ SkipLock(r) \/ EnqueueUnlock(r)
      PROVE  FormInv'
  BY <1>3, <1>6 DEF InsertSession, SkipLock, EnqueueUnlock, answerLocked, answer
<1>7. CASE UNCHANGED form
  BY <1>7
<1>8. QED
  BY <1>1, <1>4, <1>5, <1>6, <1>7 DEF Next, Form, Handle, LoseAnswer, Submit, ReadCount,
     AcceptPassword, PrepareLock, InsertLock, CreateBoss, StartBoss, SendFails, RequestFails,
     failed, answer, Restart, Tick, SendUnlock, SendUnlockFails, Unlock, UnlockRefused, vars

LEMMA InitIInv == Init => IInv /\ FormInv
<1> SUFFICES ASSUME Init PROVE IInv /\ FormInv
  OBVIOUS
<1>1. req \in [Requests -> RequestRecord] /\ lock \in [Locks -> LockRecord] /\ FormInv
  <2>1. IdleRequest \in RequestRecord /\ NoLock \in LockRecord
    BY DEF IdleRequest, RequestRecord, NoLock, LockRecord
  <2>2. BlankForm \in FormRecord
    BY DEF BlankForm, FormRecord
  <2>3. QED
    BY <2>1, <2>2 DEF Init, FormInv
<1>2. /\ \A r \in Requests : req[r].pc = "idle" /\ req[r].lock = None
      /\ \A l \in Locks : lock[l].by = 0 /\ lock[l].state = "none"
  BY DEF Init, IdleRequest, NoLock
<1>3. LockInv
  BY <1>1, <1>2 DEF Init, LockInv, IdInv, ByInv, RaceInv, isOpen, at, OpenLocksRaced,
     UnmailedLockIsExplained
<1>4. HitInv /\ AttemptsBounded
  BY <1>2, FS_EmptySet DEF Init, HitInv, AttemptsBounded, at
<1>5. QED
  BY <1>1, <1>3, <1>4 DEF IInv

\* Every step keeps the invariant.
LEMMA NextIInv == IInv /\ FormInv /\ [Next]_vars => IInv' /\ FormInv'
<1> SUFFICES ASSUME IInv, FormInv, [Next]_vars PROVE IInv'
  BY FormType
<1>1. ASSUME NEW r \in Requests, FailStep(r) PROVE IInv'
  <2>1. /\ UNCHANGED <<now, hits, lock, racers, posts, past>>
        /\ req' = [req EXCEPT ![r] = IdleRequest]
        /\ orphaned' = orphaned \union ({req[r].lock} \ {None})
    BY <1>1 DEF FailStep, SendFails, RequestFails, failed, answer, clock
  <2>2. /\ req' = [s \in Requests |-> IF s \in {r} THEN IdleRequest ELSE req[s]]
        /\ {req[s].lock : s \in {r}} = {req[r].lock}
    BY <2>1 DEF IInv, LockInv
  <2>3. QED
    BY <2>1, <2>2, FailKeeps
<1>2. CASE Restart
  <2>1. /\ UNCHANGED <<now, hits, lock, racers, posts, past>>
        /\ req' = [r \in Requests |-> IF r \in Requests THEN IdleRequest ELSE req[r]]
        /\ orphaned' = orphaned \union ({req[r].lock : r \in Requests} \ {None})
    BY <1>2 DEF Restart, clock
  <2>2. QED
    BY <2>1, FailKeeps
<1>3. ASSUME NEW t \in Tabs, NEW right \in BOOLEAN, Submit(t, right) PROVE IInv'
  <2>1. form[t] \in FormRecord
    BY DEF FormInv
  <2>2. form[t].token \in BOOLEAN
    BY <2>1 DEF FormRecord
  <2>3. QED
    BY <1>3, <2>2, SubmitKeeps
<1>4. CASE Tick \/ UNCHANGED vars
  <2>1. UNCHANGED <<hits, req, posts, past, racers, orphaned, lock>> /\ now' \in Nat
    BY <1>4 DEF Tick, vars, clock, history, IInv, HitInv
  <2>2. QED
    BY <2>1, MailKeeps DEF IInv, LockInv, isOpen
<1>5. QED
  BY <1>1, <1>2, <1>3, <1>4, FormKeeps, ReadCountKeeps, AnswerKeeps, LockKeeps, LinkStepKeeps
     DEF Next, Form, Handle, AnswerStep, LockStep, FailStep

\* The inductive invariant holds in every reachable state.
THEOREM Invariance == Spec => [](IInv /\ FormInv)
  BY InitIInv, NextIInv, PTL DEF Spec

\* No fixed window lets more than LoginLimit of its attempts reach the password
\* check.
THEOREM LimitHolds == Spec => []AttemptsBounded
<1>1. IInv => AttemptsBounded
  BY DEF IInv
<1>2. QED
  BY <1>1, Invariance, PTL

\* The locks open at one time come of one race, one per request in it.
THEOREM LocksRaced == Spec => []OpenLocksRaced
<1>1. IInv => OpenLocksRaced
  BY DEF IInv, LockInv
<1>2. QED
  BY <1>1, Invariance, PTL

\* An open lock's e-mail is sent or on its way, or it is known what stopped it.
THEOREM UnmailedExplained == Spec => []UnmailedLockIsExplained
<1>1. IInv => UnmailedLockIsExplained
  BY DEF IInv, LockInv
<1>2. QED
  BY <1>1, Invariance, PTL
=============================================================================
