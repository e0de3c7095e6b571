--------------------- MODULE SubscriptionRegistryProofs ---------------------
(***************************************************************************)
(* What holds of the registry for any subscriptions, requests, plan and    *)
(* adversity.  The stamp of a tombstone survives every stale write because *)
(* every copy in flight carries it too: that is the inductive invariant.   *)
(***************************************************************************)
EXTENDS SubscriptionRegistry, TLAPS

Requests == [step : Steps, sub : Subs, copy : Rec \cup {NoRec}]

\* What an actor is about to upsert is a record the purge query can compare.
CopiesPurgeable ==
  \A a \in Actors :
    req[a] # NoReq /\ req[a].step = "put" => Purgeable(req[a].copy)

IInv == TypeOK /\ TombstonesPurgeable /\ CopiesPurgeable

USE DEF Requests, held, jobs

\* The clock keeps the age of a scan such an age.
LEMMA OlderScan == \A age \in Scan : Older(age, Cooldown) \in Scan
  BY RegistryAssumption DEF Older, Scan

\* The clock keeps a record a record, and its stamp a stamp.
LEMMA AgedRecord ==
  ASSUME NEW r \in Rec
  PROVE  /\ Aged(r) \in Rec /\ Aged(r) # NoRec
         /\ Purgeable(r) => Purgeable(Aged(r))
<1>1. r # NoRec
  BY RegistryAssumption
<1>2. Older(r.removed, Retention + 1) \in Removal
  BY RegistryAssumption DEF Older, Removal, Rec
<1>3. Older(r.scanned, Cooldown) \in Scan
  BY OlderScan DEF Rec
<1>4. r.removed # Never => Older(r.removed, Retention + 1) # Never
  BY RegistryAssumption DEF Older, Removal, Rec
<1>5. Aged(r) = [r EXCEPT !.removed = Older(@, Retention + 1),
                          !.scanned = Older(@, Cooldown)]
  BY <1>1 DEF Aged
<1>6. Aged(r) \in Rec
  BY <1>2, <1>3, <1>5 DEF Rec
<1>7. Purgeable(r) => Purgeable(Aged(r))
  BY <1>4, <1>5 DEF Purgeable, Rec
<1> QED
  BY <1>6, <1>7, RegistryAssumption

\* A new record is a record, and no tombstone.
LEMMA NewRecordPurgeable == NewRecord \in Rec /\ Purgeable(NewRecord)
  BY DEF NewRecord, Rec, Removal, Scan, State, Purgeable

\* So is every change the routes and the timer make to it.
LEMMA CopyPurgeable ==
  ASSUME NEW r \in Rec
  PROVE  /\ Restored(r) \in Rec /\ Purgeable(Restored(r))
         /\ SoftDeleted(r) \in Rec /\ Purgeable(SoftDeleted(r))
         /\ Scanned(r) \in Rec /\ (Purgeable(r) => Purgeable(Scanned(r)))
         /\ \A p \in Patched(r) : p \in Rec /\ (Purgeable(r) => Purgeable(p))
         /\ [r EXCEPT !.state = "Disabled"] \in Rec
         /\ Purgeable([r EXCEPT !.state = "Disabled"])
<1>1. 0 \in Removal /\ 0 \in Scan /\ 0 # Never /\ Never \in Removal
  BY RegistryAssumption DEF Removal, Scan
<1>2. {"Enabled", "Disabled", "Removed"} = State
  BY DEF State
<1> QED
  BY <1>1, <1>2
  DEF Restored, SoftDeleted, Scanned, Patched, Purgeable, Rec

\* What get() returns is a record of the container, or nothing.
LEMMA SeenPurgeable ==
  ASSUME TypeOK, TombstonesPurgeable, NEW s \in Subs, NEW r \in Seen(s), r # NoRec
  PROVE  r \in Rec /\ Purgeable(r)
  BY DEF TypeOK, TombstonesPurgeable, Seen

\* An actor that moves on to a well-formed request keeps the invariant.
LEMMA GoesInv ==
  ASSUME IInv, NEW a \in Actors, NEW r \in Requests \cup {NoReq},
         req' = [req EXCEPT ![a] = r],
         r # NoReq /\ r.step = "put" => r.copy \in Rec /\ Purgeable(r.copy)
  PROVE  /\ req' \in [Actors -> Requests \cup {NoReq}]
         /\ \A b \in Actors : req'[b] # NoReq /\ req'[b].step = "put"
                                => req'[b].copy # NoRec
         /\ CopiesPurgeable'
<1>1. req \in [Actors -> Requests \cup {NoReq}]
  BY DEF IInv, TypeOK
<1>2. req' \in [Actors -> Requests \cup {NoReq}]
  BY <1>1
<1>3. ASSUME NEW b \in Actors, req'[b] # NoReq, req'[b].step = "put"
      PROVE  req'[b].copy # NoRec /\ Purgeable(req'[b].copy)
  <2>1. CASE b = a
    BY <1>1, <1>3, <2>1, RegistryAssumption
  <2>2. CASE b # a
    BY <1>1, <1>3, <2>2 DEF IInv, TypeOK, CopiesPurgeable
  <2> QED
    BY <2>1, <2>2
<1> QED
  BY <1>2, <1>3 DEF CopiesPurgeable

\* A step that leaves everything but one request alone.
LEMMA GoesStep ==
  ASSUME IInv, NEW a \in Actors, NEW r \in Requests \cup {NoReq}, Goes(a, r),
         r # NoReq /\ r.step = "put" => r.copy \in Rec /\ Purgeable(r.copy)
  PROVE  IInv'
<1>1. /\ req' \in [Actors -> Requests \cup {NoReq}]
      /\ \A b \in Actors : req'[b] # NoReq /\ req'[b].step = "put"
                             => req'[b].copy # NoRec
      /\ CopiesPurgeable'
  BY GoesInv DEF Goes
<1>2. TypeOK'
  BY <1>1 DEF IInv, TypeOK, Goes, jobs
<1>3. TombstonesPurgeable'
  BY DEF IInv, TombstonesPurgeable, Goes
<1> QED
  BY <1>1, <1>2, <1>3 DEF IInv

\* The initial state satisfies the invariant.
LEMMA InitIInv == Init => IInv
  BY RegistryAssumption
  DEF Init, IInv, TypeOK, TombstonesPurgeable, CopiesPurgeable, NoBatch, Scan, Actors

-----------------------------------------------------------------------------
(* One lemma per group of actions.                                         *)

\* A day passes: every stored record and every copy in flight grows older.
LEMMA TickIInv == IInv /\ Tick => IInv'
<1> SUFFICES ASSUME IInv, Tick PROVE IInv'
  OBVIOUS
<1> USE DEF IInv, TypeOK, Tick
<1>1. \A r \in Rec \cup {NoRec} :
        /\ Aged(r) \in Rec \cup {NoRec}
        /\ r # NoRec => Aged(r) # NoRec /\ (Purgeable(r) => Purgeable(Aged(r)))
  BY AgedRecord, RegistryAssumption DEF Aged
<1>2. rec' \in [Subs -> Rec \cup {NoRec}] /\ batch' \in [Subs -> Rec \cup {NoRec}]
  BY <1>1
<1>3. log' \in [Subs -> Scan]
  BY OlderScan
<1>4. req' \in [Actors -> Requests \cup {NoReq}]
  BY <1>1
<1>5. ASSUME NEW a \in Actors, req'[a] # NoReq, req'[a].step = "put"
      PROVE  req'[a].copy # NoRec /\ Purgeable(req'[a].copy)
  <2>1. req[a] \in Requests /\ req[a] # NoReq
    BY <1>5
  <2>2. req'[a] = [req[a] EXCEPT !.copy = Aged(@)]
    BY <1>5, <2>1
  <2>3. req[a].step = "put" /\ req'[a].copy = Aged(req[a].copy)
    BY <1>5, <2>1, <2>2
  <2>4. req[a].copy \in Rec /\ req[a].copy # NoRec /\ Purgeable(req[a].copy)
    BY <2>1, <2>3 DEF CopiesPurgeable
  <2> QED
    BY <1>1, <2>3, <2>4
<1>6. TombstonesPurgeable'
  BY <1>1 DEF TombstonesPurgeable, Aged
<1> QED
  BY <1>2, <1>3, <1>4, <1>5, <1>6 DEF CopiesPurgeable

\* The requests up to their upsert.
LEMMA UserStepIInv ==
  ASSUME IInv, NEW u \in Users, UserStep(u)
  PROVE  IInv'
<1>u. u \in Actors
  BY DEF Actors
<1>s. \A s \in Subs, step \in Steps, r \in Rec \cup {NoRec} :
        /\ Request(step, s, r) \in Requests
        /\ Request(step, s, r).step = step /\ Request(step, s, r).copy = r
  BY DEF Request
<1>n. {"count", "put", "scan", "mark"} = Steps
  BY DEF Steps
<1>p. ASSUME NEW s \in Subs, NEW r \in Rec, Purgeable(r), Goes(u, Request("put", s, r))
      PROVE  IInv'
  BY <1>u, <1>s, <1>n, <1>p, GoesStep
<1>q. ASSUME NEW s \in Subs, NEW step \in Steps \ {"put"}, Goes(u, Request(step, s, NoRec))
      PROVE  IInv'
  BY <1>u, <1>s, <1>n, <1>q, GoesStep
<1>r. \A s \in Subs : \A r \in Seen(s) : r # NoRec => r \in Rec /\ Purgeable(r)
  BY SeenPurgeable DEF IInv
<1>1. ASSUME NEW s \in Subs, AddRead(u, s) PROVE IInv'
  <2>1. PICK r \in Seen(s) :
          Goes(u, IF IsRemoved(r) THEN Request("put", s, Restored(r))
                  ELSE Request("count", s, NoRec))
    BY <1>1 DEF AddRead
  <2>2. CASE IsRemoved(r)
    BY <1>p, <1>r, <2>1, <2>2, CopyPurgeable DEF IsRemoved
  <2>3. CASE ~IsRemoved(r)
    BY <1>n, <1>q, <2>1, <2>3
  <2> QED
    BY <2>2, <2>3
<1>2. ASSUME NEW s \in Subs, PatchRead(u, s) PROVE IInv'
  <2>1. PICK r \in Seen(s) \ {NoRec} : \E p \in Patched(r) : Goes(u, Request("put", s, p))
    BY <1>2 DEF PatchRead
  <2> QED
    BY <1>p, <1>r, <2>1, CopyPurgeable
<1>3. ASSUME NEW s \in Subs, RemoveRead(u, s) PROVE IInv'
  BY <1>p, <1>r, <1>3, CopyPurgeable DEF RemoveRead
<1>4. ASSUME NEW s \in Subs, MirrorRead(u, s) PROVE IInv'
  BY <1>p, <1>r, <1>4, CopyPurgeable, NewRecordPurgeable DEF MirrorRead, IsRemoved
<1>5. ASSUME NEW s \in Subs, ScanAdmit(u, s) PROVE IInv'
  BY <1>n, <1>q, <1>5 DEF ScanAdmit
<1>6. ASSUME AddCount(u) PROVE IInv'
  <2>1. req[u].sub \in Subs
    BY <1>u, <1>6 DEF AddCount, IInv, TypeOK
  <2>2. CASE Goes(u, NoReq)
    BY <1>u, <2>2, GoesStep
  <2>3. CASE Goes(u, Request("put", req[u].sub, NewRecord))
    BY <1>p, <2>1, <2>3, NewRecordPurgeable
  <2> QED
    BY <1>6, <2>2, <2>3 DEF AddCount
<1>7. ASSUME ScanPersist(u) PROVE IInv'
  <2>1. req[u].sub \in Subs
    BY <1>u, <1>7 DEF ScanPersist, IInv, TypeOK
  <2>2. /\ req' \in [Actors -> Requests \cup {NoReq}]
        /\ \A b \in Actors : req'[b] # NoReq /\ req'[b].step = "put"
                               => req'[b].copy # NoRec
        /\ CopiesPurgeable'
    <3>1. /\ Request("mark", req[u].sub, NoRec) \in Requests
          /\ Request("mark", req[u].sub, NoRec).step = "mark"
      BY <2>1 DEF Request, Steps
    <3>2. req' = [req EXCEPT ![u] = Request("mark", req[u].sub, NoRec)]
      BY <1>7 DEF ScanPersist
    <3> QED
      BY <1>u, <3>1, <3>2, GoesInv
  <2>3. data' \subseteq Subs /\ strays' \subseteq Subs /\ log' \in [Subs -> Scan]
    BY <1>7, <2>1, RegistryAssumption DEF ScanPersist, Persisted, IInv, TypeOK, Scan
  <2> QED
    BY <1>7, <2>2, <2>3
    DEF ScanPersist, Persisted, IInv, TypeOK, TombstonesPurgeable
<1> QED
  BY <1>1, <1>2, <1>3, <1>4, <1>5, <1>6, <1>7 DEF UserStep

\* The stamp and the upsert, of requests and of the timer.
LEMMA ActorStepIInv ==
  ASSUME IInv, NEW a \in Actors, ActorStep(a)
  PROVE  IInv'
<1>1. CASE MarkRead(a)
  <2>1. PICK r \in Seen(req[a].sub) :
          Goes(a, IF r = NoRec THEN NoReq ELSE Request("put", req[a].sub, Scanned(r)))
    BY <1>1 DEF MarkRead
  <2>2. req[a].sub \in Subs
    BY <1>1 DEF MarkRead, IInv, TypeOK
  <2>3. CASE r = NoRec
    BY <2>1, <2>3, GoesStep
  <2>4. CASE r # NoRec
    <3>1. Scanned(r) \in Rec /\ Purgeable(Scanned(r))
      BY <2>2, <2>4, SeenPurgeable, CopyPurgeable DEF IInv
    <3>2. /\ Request("put", req[a].sub, Scanned(r)) \in Requests
          /\ Request("put", req[a].sub, Scanned(r)).copy = Scanned(r)
      BY <2>2, <3>1 DEF Request, Steps
    <3> QED
      BY <2>1, <2>4, <3>1, <3>2, GoesStep
  <2> QED
    BY <2>3, <2>4
<1>2. CASE Put(a)
  <2>1. req[a] \in Requests /\ req[a].copy \in Rec /\ Purgeable(req[a].copy)
    BY <1>2 DEF Put, IInv, TypeOK, CopiesPurgeable
  <2>2. rec' \in [Subs -> Rec \cup {NoRec}] /\ TombstonesPurgeable'
    BY <1>2, <2>1 DEF Put, IInv, TypeOK, TombstonesPurgeable
  <2>3. /\ req' \in [Actors -> Requests \cup {NoReq}]
        /\ \A b \in Actors : req'[b] # NoReq /\ req'[b].step = "put"
                               => req'[b].copy # NoRec
        /\ CopiesPurgeable'
    BY <1>2, GoesInv DEF Put
  <2> QED
    BY <1>2, <2>2, <2>3 DEF Put, IInv, TypeOK, jobs
<1>3. CASE PutFails(a)
  BY <1>3, GoesStep DEF PutFails
<1> QED
  BY <1>1, <1>2, <1>3 DEF ActorStep

\* The scan timer.
LEMMA TimerStepIInv == IInv /\ TimerStep => IInv'
<1> SUFFICES ASSUME IInv, TimerStep PROVE IInv'
  OBVIOUS
<1>t. Timer \in Actors
  BY DEF Actors
<1>1. CASE TimerFire
  <2>1. batch' \in [Subs -> Rec \cup {NoRec}]
    BY <1>1 DEF TimerFire, IInv, TypeOK
  <2> QED
    BY <1>1, <2>1 DEF TimerFire, IInv, TypeOK, TombstonesPurgeable, CopiesPurgeable
<1>2. CASE TimerDies
  <2>1. /\ req' \in [Actors -> Requests \cup {NoReq}]
        /\ \A b \in Actors : req'[b] # NoReq /\ req'[b].step = "put"
                               => req'[b].copy # NoRec
        /\ CopiesPurgeable'
    BY <1>t, <1>2, GoesInv DEF TimerDies
  <2> QED
    BY <1>2, <2>1 DEF TimerDies, NoBatch, IInv, TypeOK, TombstonesPurgeable
<1>3. ASSUME NEW s \in Subs, TimerScan(s) PROVE IInv'
  <2>1. /\ Request("mark", s, NoRec) \in Requests
        /\ Request("mark", s, NoRec).step = "mark"
    BY DEF Request, Steps
  <2>2. /\ req' \in [Actors -> Requests \cup {NoReq}]
        /\ \A b \in Actors : req'[b] # NoReq /\ req'[b].step = "put"
                               => req'[b].copy # NoRec
        /\ CopiesPurgeable'
    BY <1>t, <1>3, <2>1, GoesInv DEF TimerScan
  <2>3. data' \subseteq Subs /\ strays' \subseteq Subs /\ log' \in [Subs -> Scan]
    BY <1>3, RegistryAssumption DEF TimerScan, Persisted, IInv, TypeOK, Scan
  <2> QED
    BY <1>3, <2>2, <2>3
    DEF TimerScan, Takes, Persisted, IInv, TypeOK, TombstonesPurgeable
<1>4. ASSUME NEW s \in Subs, TimerScanFails(s) PROVE IInv'
  <2> DEFINE r == [batch[s] EXCEPT !.state = "Disabled"]
  <2>1. batch' \in [Subs -> Rec \cup {NoRec}]
    BY <1>4 DEF TimerScanFails, Takes, IInv, TypeOK
  <2>2. r \in Rec /\ Purgeable(r)
    BY <1>4, CopyPurgeable DEF TimerScanFails, Takes, IInv, TypeOK
  <2>3. Request("put", s, r) \in Requests /\ Request("put", s, r).copy = r
    BY <2>2 DEF Request, Steps
  <2>4. CASE req' = [req EXCEPT ![Timer] = Request("put", s, r)]
    <3> HIDE DEF r
    <3>1. /\ req' \in [Actors -> Requests \cup {NoReq}]
          /\ \A b \in Actors : req'[b] # NoReq /\ req'[b].step = "put"
                                 => req'[b].copy # NoRec
          /\ CopiesPurgeable'
      BY <1>t, <2>2, <2>3, <2>4, GoesInv
    <3> QED
      BY <1>4, <2>1, <3>1 DEF TimerScanFails, IInv, TypeOK, TombstonesPurgeable
  <2>5. CASE req' = req
    BY <1>4, <2>1, <2>5
    DEF TimerScanFails, IInv, TypeOK, TombstonesPurgeable, CopiesPurgeable
  <2> QED
    BY <1>4, <2>4, <2>5 DEF TimerScanFails
<1> QED
  BY <1>1, <1>2, <1>3, <1>4 DEF TimerStep

\* The purge writes no record, it only deletes.
LEMMA PurgeStepIInv == IInv /\ PurgeStep => IInv'
<1> SUFFICES ASSUME IInv, PurgeStep PROVE IInv'
  OBVIOUS
<1> USE DEF IInv, TypeOK, TombstonesPurgeable, CopiesPurgeable
<1>1. CASE PurgeQuery
  BY <1>1 DEF PurgeQuery
<1>2. CASE HardDelete
  BY <1>2 DEF HardDelete
<1>3. CASE PurgeDies
  BY <1>3 DEF PurgeDies
<1>4. ASSUME NEW s \in Subs, PurgeData(s) PROVE IInv'
  BY <1>4 DEF PurgeData
<1> QED
  BY <1>1, <1>2, <1>3, <1>4 DEF PurgeStep

\* Every step keeps the invariant.
LEMMA NextIInv == IInv /\ [Next]_vars => IInv'
<1> SUFFICES ASSUME IInv, [Next]_vars PROVE IInv'
  OBVIOUS
<1>1. ASSUME NEW s \in Subs, GrantChanges(s) PROVE IInv'
  BY <1>1
  DEF GrantChanges, jobs, IInv, TypeOK, TombstonesPurgeable, CopiesPurgeable
<1>2. CASE UNCHANGED vars
  BY <1>2 DEF vars, IInv, TypeOK, TombstonesPurgeable, CopiesPurgeable
<1> QED
  BY <1>1, <1>2, TickIInv, UserStepIInv, ActorStepIInv, TimerStepIInv, PurgeStepIInv
  DEF Next

-----------------------------------------------------------------------------
\* The inductive invariant holds of every reachable state, however requests,
\* timers, failures and crashes interleave.
THEOREM Invariance == Spec => []IInv
  BY InitIInv, NextIInv, PTL DEF Spec

\* Type correctness of the registry.
THEOREM TypeCorrect == Spec => []TypeOK
<1>1. IInv => TypeOK
  BY DEF IInv
<1> QED
  BY <1>1, Invariance, PTL

\* No stale write of list, patch, scan or timer ever strips a tombstone of the
\* stamp list_expired_removed selects by.
THEOREM StampSurvives == Spec => []TombstonesPurgeable
<1>1. IInv => TombstonesPurgeable
  BY DEF IInv
<1> QED
  BY <1>1, Invariance, PTL

-----------------------------------------------------------------------------
(* The purge.                                                              *)

\* What a purge run still has to delete has expired, or was written since its
\* query; it is on one of the two lists of the run.
DoomedExpired ==
  /\ wiping \notin doomed
  /\ \A s \in Subs :
       s \in doomed \/ s = wiping => Expired(rec[s]) \/ s \in rewritten

\* A tombstone that has expired stays expired.
LEMMA AgedExpired ==
  ASSUME NEW r \in Rec \cup {NoRec}, Expired(r)
  PROVE  Expired(Aged(r))
<1>1. r \in Rec /\ r # NoRec /\ r.removed # Never /\ r.removed > Retention
  BY DEF Expired, IsRemoved
<1>2. r.removed = Retention + 1
  BY <1>1, RegistryAssumption DEF Rec, Removal
<1>3. Older(r.removed, Retention + 1) = r.removed
  BY <1>2 DEF Older
<1>4. Aged(r).state = r.state /\ Aged(r).removed = r.removed
  BY <1>1, <1>3 DEF Aged, Rec
<1> QED
  BY <1>1, <1>4, AgedRecord DEF Expired, IsRemoved

\* A step that leaves records and purge alone keeps it.
LEMMA PurgeUntouched ==
  ASSUME DoomedExpired, UNCHANGED <<rec, doomed, wiping, rewritten>>
  PROVE  DoomedExpired'
  BY DEF DoomedExpired

\* The query fills the list, every upsert is noted, and nothing else changes a
\* record but the clock and the purge itself.
LEMMA DoomedStep ==
  ASSUME TypeOK, DoomedExpired, [Next]_vars
  PROVE  DoomedExpired'
<1>0. wiping \in Subs \cup {NoSub} /\ NoSub \notin Subs
  BY RegistryAssumption DEF TypeOK
<1>1. CASE Tick
  <2>1. \A s \in Subs : Expired(rec[s]) => Expired(rec'[s])
    BY <1>1, AgedExpired DEF Tick, TypeOK
  <2> QED
    BY <1>1, <2>1 DEF Tick, DoomedExpired
<1>2. ASSUME NEW a \in Actors, Put(a) PROVE DoomedExpired'
  <2>1. \A s \in Subs : s # req[a].sub => rec'[s] = rec[s]
    BY <1>2 DEF Put, TypeOK
  <2>2. /\ doomed' = doomed /\ wiping' = wiping
        /\ rewritten' = rewritten \cup ({req[a].sub} \cap (doomed \cup {wiping}))
    BY <1>2 DEF Put
  <2> QED
    BY <2>1, <2>2 DEF DoomedExpired
<1>3. ASSUME NEW a \in Actors, MarkRead(a) \/ PutFails(a) PROVE DoomedExpired'
  BY <1>3, PurgeUntouched DEF MarkRead, PutFails, Goes, jobs
<1>4. ASSUME NEW u \in Users, UserStep(u) PROVE DoomedExpired'
  <2>1. \/ \E r : Goes(u, r)
        \/ ScanPersist(u)
    BY <1>4 DEF UserStep, AddRead, PatchRead, RemoveRead, MirrorRead, ScanAdmit, AddCount
  <2> QED
    BY <2>1, PurgeUntouched DEF Goes, jobs, ScanPersist, Persisted
<1>5. CASE TimerStep
  BY <1>5, PurgeUntouched
  DEF TimerStep, TimerFire, TimerDies, TimerScan, TimerScanFails, Persisted
<1>6. CASE PurgeQuery
  <2>1. /\ doomed' = {s \in Subs : Expired(rec[s])} /\ wiping' = NoSub
        /\ rec' = rec /\ wiping = NoSub
    BY <1>6 DEF PurgeQuery
  <2> QED
    BY <1>0, <2>1 DEF DoomedExpired
<1>7. ASSUME NEW t \in Subs, PurgeData(t) PROVE DoomedExpired'
  BY <1>7 DEF PurgeData, DoomedExpired
<1>8. CASE HardDelete
  <2>1. /\ wiping' = NoSub /\ doomed' = doomed /\ rewritten' = rewritten \ {wiping}
        /\ \A s \in Subs : s # wiping => rec'[s] = rec[s]
    BY <1>8 DEF HardDelete, TypeOK
  <2>2. NoSub \notin doomed
    BY <1>0 DEF TypeOK
  <2> QED
    BY <1>0, <2>1, <2>2 DEF DoomedExpired
<1>9. CASE PurgeDies
  BY <1>0, <1>9 DEF PurgeDies, DoomedExpired
<1>10. CASE UNCHANGED vars \/ \E s \in Subs : GrantChanges(s)
  BY <1>10, PurgeUntouched DEF vars, jobs, GrantChanges
<1> QED
  BY <1>1, <1>2, <1>3, <1>4, <1>5, <1>6, <1>7, <1>8, <1>9, <1>10
  DEF Next, ActorStep, PurgeStep

\* Only the cascade deletes data and only hard_delete a record.
LEMMA DestroysInPurge ==
  ASSUME TypeOK, [Next]_vars, NEW s \in Subs, Destroys(s)
  PROVE  PurgeData(s) \/ (HardDelete /\ s = wiping)
<1>1. ~Tick
  BY AgedRecord DEF Tick, held, Destroys, TypeOK
<1>2. ASSUME NEW a \in Actors PROVE ~ActorStep(a)
  BY RegistryAssumption
  DEF ActorStep, MarkRead, Put, PutFails, Goes, held, Destroys, TypeOK
<1>3. ASSUME NEW u \in Users, UserStep(u) PROVE FALSE
  <2>1. \/ \E r : Goes(u, r)
        \/ ScanPersist(u)
    BY <1>3 DEF UserStep, AddRead, PatchRead, RemoveRead, MirrorRead, ScanAdmit, AddCount
  <2> QED
    BY <2>1 DEF Goes, held, ScanPersist, Persisted, Destroys
<1>4. ~TimerStep
  BY DEF TimerStep, TimerFire, TimerDies, TimerScan, TimerScanFails, Persisted, held,
         Destroys
<1>5. ~PurgeQuery /\ ~PurgeDies /\ ~(\E t \in Subs : GrantChanges(t)) /\ ~UNCHANGED vars
  BY DEF PurgeQuery, PurgeDies, GrantChanges, vars, held, Destroys
<1>6. ASSUME NEW t \in Subs, PurgeData(t) PROVE PurgeData(s)
  BY <1>6 DEF PurgeData, Destroys
<1>7. ASSUME HardDelete PROVE s = wiping
  BY <1>7 DEF HardDelete, held, Destroys, TypeOK
<1> QED
  BY <1>1, <1>2, <1>3, <1>4, <1>5, <1>6, <1>7 DEF Next, PurgeStep

\* The retention of purge_trigger, with nothing assumed of order or failures: a
\* purge run destroys what had expired, unless the record was written after the
\* query of that run.
THEOREM RetentionHolds == Spec => EarlyPurgeNeedsRewrite
<1>1. Init => DoomedExpired
  BY RegistryAssumption DEF Init, DoomedExpired
<1>2. TypeOK /\ DoomedExpired /\ [Next]_vars => DoomedExpired'
  BY DoomedStep
<1>3. ASSUME TypeOK, DoomedExpired, [Next]_vars, NEW s \in Subs, Destroys(s)
      PROVE  PastRetention(rec[s]) \/ s \in rewritten
  <2>1. Expired(rec[s]) \/ s \in rewritten
    BY <1>3, DestroysInPurge DEF DoomedExpired, PurgeData
  <2>2. rec[s] \in Rec \cup {NoRec}
    BY <1>3 DEF TypeOK
  <2> QED
    BY <2>1, <2>2, RegistryAssumption
    DEF Expired, IsRemoved, PastRetention, Rec, Removal
<1>4. TypeOK /\ DoomedExpired /\ [Next]_vars =>
        [\A s \in Subs : Destroys(s) => PastRetention(rec[s]) \/ s \in rewritten]_vars
  BY <1>3
<1> QED
  BY <1>1, <1>2, <1>4, TypeCorrect, PTL DEF Spec, EarlyPurgeNeedsRewrite
=============================================================================
