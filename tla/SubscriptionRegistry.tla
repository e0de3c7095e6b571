------------------------ MODULE SubscriptionRegistry ------------------------
(***************************************************************************)
(* The subscriptions container of one tenant and everybody who writes it:  *)
(* the link, rename, unlink and onboarding routes, POST /scan, the         *)
(* 5-minute scan timer and the daily purge timer.                          *)
(*                                                                         *)
(* Every write is a whole-document upsert of a copy read some awaits       *)
(* earlier, without an etag.  A timestamp is kept as its age in days,      *)
(* which the clock increments wherever the timestamp is stored.            *)
(***************************************************************************)
EXTENDS Integers, FiniteSets

CONSTANTS
  Subs,             \* cloud subscriptions the tenant may link
  Users,            \* concurrent API requests
  Timer,            \* the scan timer
  Ops,              \* the routes in use
  Cap,              \* max_subscriptions of the tenant's plan, below 0 for none
  Cooldown,         \* scan_frequency_minutes of the plan, in days
  Retention,        \* subscription_retention_days
  Adversity,        \* which hazards the environment exhibits
  Never,            \* a timestamp that is None
  NoRec,            \* no record
  NoReq,            \* no request in flight
  NoSub             \* the purge holds no subscription

AllOps == {"add", "patch", "remove", "mirror", "scan", "timer", "purge"}

AllAdversity ==
  {"overlap",       \* requests and timers run concurrently
   "revoke",        \* the customer revokes and restores the Reader grant
   "auth_error",    \* a timer scan raises an error that mentions 401 or 403
   "read_error",    \* a Cosmos read raises
   "write_error",   \* a Cosmos write raises, landed or not
   "crash"}         \* a function host dies

State   == {"Enabled", "Disabled", "Removed"}
Removal == (0..Retention + 1) \cup {Never}      \* saturates once expired
Scan    == (0..Cooldown) \cup {Never}           \* saturates once cooled down

Rec == [state : State, removed : Removal, scanned : Scan]

Steps == {"count", "put", "scan", "mark"}

ASSUME RegistryAssumption ==
  /\ Timer \notin Users
  /\ Ops \subseteq AllOps
  /\ Cap \in Int /\ Cooldown \in Nat \ {0} /\ Retention \in Nat
  /\ Adversity \subseteq AllAdversity
  /\ Never \notin Int
  /\ NoRec \notin Rec
  /\ NoReq \notin [step : Steps, sub : Subs, copy : Rec \cup {NoRec}]
  /\ NoSub \notin Subs

Actors == Users \cup {Timer}

VARIABLES
  rec,              \* the subscriptions container
  data,             \* subscriptions with findings or snapshots filed under them
  strays,           \* and with documents the purge does not look for
  log,              \* age of the newest scan_result of each subscription
  granted,          \* subscriptions whose Reader grant is in force
  req,              \* what each actor is doing, with the copy it holds
  batch,            \* records a timer run still has to scan, as it read them
  doomed,           \* records a purge run still has to delete
  wiping,           \* the one whose data it has deleted
  rewritten         \* HISTORY: those of both that were upserted since the query

held == <<data, strays>>
jobs == <<batch, doomed, wiping, rewritten>>
vars == <<rec, held, log, granted, req, jobs>>

NoBatch == [s \in Subs |-> NoRec]

Idle ==
  /\ \A a \in Actors : req[a] = NoReq
  /\ batch = NoBatch /\ doomed = {} /\ wiping = NoSub

\* Serialised runs start something only when nothing else is going on.
Admitted == "overlap" \in Adversity \/ Idle

-----------------------------------------------------------------------------
(* The record logic.                                                       *)

NewRecord == [state |-> "Enabled", removed |-> Never, scanned |-> Never]

\* Bug: the restore clears the stamp and leaves the state.
RestoredStampOnly(r) == [r EXCEPT !.removed = Never]

Restored(r) == [r EXCEPT !.state = "Enabled", !.removed = Never]

\* Bug: the soft delete does not stamp removed_at.
SoftDeletedUnstamped(r) == [r EXCEPT !.state = "Removed"]

SoftDeleted(r) == [r EXCEPT !.state = "Removed", !.removed = 0]

Scanned(r) == [r EXCEPT !.scanned = 0]

IsRemoved(r) == r # NoRec /\ r.state = "Removed"

\* Bug: tombstones are taken as soon as they are stamped.
ExpiredAtOnce(r) == IsRemoved(r) /\ r.removed # Never

\* The query of list_expired_removed.
Expired(r) == IsRemoved(r) /\ r.removed # Never /\ r.removed > Retention

Active == {s \in Subs : rec[s] # NoRec /\ rec[s].state # "Removed"}

\* Bug: the comparison of the cap is off by one.
AtCapLate(n) == Cap >= 0 /\ n > Cap

\* A cap below zero is unlimited.
AtCap(n) == Cap >= 0 /\ n >= Cap

\* No scan within the plan's interval; no timestamp means no earlier scan.
Cooling(age) == age # Never /\ age < Cooldown

Older(age, top) == IF age = Never \/ age = top THEN age ELSE age + 1

Aged(r) ==
  IF r = NoRec THEN NoRec
  ELSE [r EXCEPT !.removed = Older(@, Retention + 1),
                 !.scanned = Older(@, Cooldown)]

\* What get() may return: any exception reads as "no record".
Seen(s) == {rec[s]} \cup (IF "read_error" \in Adversity THEN {NoRec} ELSE {})

Request(step, s, r) == [step |-> step, sub |-> s, copy |-> r]

-----------------------------------------------------------------------------
Init ==
  /\ rec = NoBatch /\ data = {} /\ strays = {} /\ log = [s \in Subs |-> Never]
  /\ granted = Subs
  /\ req = [a \in Actors |-> NoReq]
  /\ batch = NoBatch /\ doomed = {} /\ wiping = NoSub /\ rewritten = {}

\* A day passes.
Tick ==
  /\ Admitted
  /\ rec'   = [s \in Subs |-> Aged(rec[s])]
  /\ log'   = [s \in Subs |-> Older(log[s], Cooldown)]
  /\ req'   = [a \in Actors |-> IF req[a] = NoReq THEN NoReq
                                ELSE [req[a] EXCEPT !.copy = Aged(@)]]
  /\ batch' = [s \in Subs |-> Aged(batch[s])]
  /\ UNCHANGED <<held, granted, doomed, wiping, rewritten>>

GrantChanges(s) ==
  /\ "revoke" \in Adversity
  /\ granted' = IF s \in granted THEN granted \ {s} ELSE granted \cup {s}
  /\ UNCHANGED <<rec, held, log, req, jobs>>

-----------------------------------------------------------------------------
(* The routes: the reads of a request, then its upsert.                    *)

Starts(u, op) == op \in Ops /\ req[u] = NoReq /\ Admitted

Goes(a, r) ==
  /\ req' = [req EXCEPT ![a] = r]
  /\ UNCHANGED <<rec, held, log, granted, jobs>>

\* add_subscription up to the lookup: a tombstone is restored, anything else
\* (a linked subscription too) is counted against the cap.
AddRead(u, s) ==
  /\ Starts(u, "add")
  /\ \E r \in Seen(s) :
       Goes(u, IF IsRemoved(r) THEN Request("put", s, Restored(r))
               ELSE Request("count", s, NoRec))

\* The count of active subscriptions, with its 402; a query that fails midway
\* returns what it has.
AddCount(u) ==
  /\ req[u] # NoReq /\ req[u].step = "count"
  /\ \E n \in 0..Cardinality(Active) :
       /\ n = Cardinality(Active) \/ "read_error" \in Adversity
       /\ Goes(u, IF AtCap(n) THEN NoReq ELSE Request("put", req[u].sub, NewRecord))

\* Bug: the request may name any state.
PatchedUnvalidated(r) == {r, [r EXCEPT !.state = "Paused"]}

\* patch_subscription renames, enables or disables what it read, a tombstone too.
Patched(r) == {r, [r EXCEPT !.state = "Enabled"], [r EXCEPT !.state = "Disabled"]}

PatchRead(u, s) ==
  /\ Starts(u, "patch")
  /\ \E r \in Seen(s) \ {NoRec} : \E p \in Patched(r) : Goes(u, Request("put", s, p))

RemoveRead(u, s) ==
  /\ Starts(u, "remove")
  /\ \E r \in Seen(s) \ {NoRec} :
       ~IsRemoved(r) /\ Goes(u, Request("put", s, SoftDeleted(r)))

\* The mirrors of the onboarding routes: link, restore or refresh, no cap.
MirrorRead(u, s) ==
  /\ Starts(u, "mirror")
  /\ \E r \in Seen(s) :
       Goes(u, Request("put", s, IF r = NoRec THEN NewRecord
                                 ELSE IF IsRemoved(r) THEN Restored(r) ELSE r))

\* POST /scan: the ownership check and the cooldown, whose lookup fails open.
ScanAdmit(u, s) ==
  /\ Starts(u, "scan")
  /\ \E r \in Seen(s) : r # NoRec
  /\ ~Cooling(log[s]) \/ "read_error" \in Adversity
  /\ Goes(u, Request("scan", s, NoRec))

\* A scan has persisted what it found; without the grant it finds nothing.  A
\* finding of a rule that attaches no snapshot is filed under "unknown", and a
\* remediation card under an id of its own.
Persisted(s) ==
  /\ data' = IF s \in granted THEN data \cup {s} ELSE data
  /\ strays' = strays \/ (s \in granted /\ strays' = strays \cup {s})
  /\ \/ log' = [log EXCEPT ![s] = 0]
     \/ "write_error" \in Adversity /\ log' = log
  /\ UNCHANGED <<rec, granted, doomed, wiping, rewritten>>

ScanPersist(u) ==
  /\ req[u] # NoReq /\ req[u].step = "scan"
  /\ req' = [req EXCEPT ![u] = Request("mark", req[u].sub, NoRec)]
  /\ Persisted(req[u].sub) /\ UNCHANGED batch

\* mark_scanned, for POST /scan and for the timer: the read.
MarkRead(a) ==
  /\ req[a] # NoReq /\ req[a].step = "mark"
  /\ \E r \in Seen(req[a].sub) :
       Goes(a, IF r = NoRec THEN NoReq ELSE Request("put", req[a].sub, Scanned(r)))

\* The upsert every request ends with.
Put(a) ==
  /\ req[a] # NoReq /\ req[a].step = "put"
  /\ rec' = [rec EXCEPT ![req[a].sub] = req[a].copy]
  /\ req' = [req EXCEPT ![a] = NoReq]
  /\ rewritten' = rewritten \cup ({req[a].sub} \cap (doomed \cup {wiping}))
  /\ UNCHANGED <<held, log, granted, batch, doomed, wiping>>

\* The upsert raises before it lands.
PutFails(a) ==
  /\ req[a] # NoReq /\ req[a].step = "put" /\ "write_error" \in Adversity
  /\ Goes(a, NoReq)

-----------------------------------------------------------------------------
(* scan_trigger: one query, then one subscription after the other.         *)

Due(s) == rec[s] # NoRec /\ rec[s].state = "Enabled" /\ ~Cooling(rec[s].scanned)

\* The Enabled records that are out of their cooldown at the start of the run.
TimerFire ==
  /\ Starts(Timer, "timer") /\ batch = NoBatch
  /\ batch' = [s \in Subs |-> IF Due(s) THEN rec[s] ELSE NoRec]
  /\ UNCHANGED <<rec, held, log, granted, req, doomed, wiping, rewritten>>

Takes(s) ==
  /\ batch[s] # NoRec /\ req[Timer] = NoReq
  /\ batch' = [batch EXCEPT ![s] = NoRec]

\* pipeline.run returns: the adapters swallow every cloud error, a revoked
\* grant included.
TimerScan(s) ==
  /\ Takes(s)
  /\ req' = [req EXCEPT ![Timer] = Request("mark", s, NoRec)]
  /\ Persisted(s)

\* pipeline.run raises: something that looks like an authentication error
\* disables the record the run started from, anything else is logged.
TimerScanFails(s) ==
  /\ Takes(s) /\ "auth_error" \in Adversity
  /\ \/ req' = [req EXCEPT ![Timer] =
                  Request("put", s, [batch[s] EXCEPT !.state = "Disabled"])]
     \/ req' = req
  /\ UNCHANGED <<rec, held, log, granted, doomed, wiping, rewritten>>

TimerDies ==
  /\ "crash" \in Adversity
  /\ batch # NoBatch \/ req[Timer] # NoReq
  /\ batch' = NoBatch
  /\ req' = [req EXCEPT ![Timer] = NoReq]
  /\ UNCHANGED <<rec, held, log, granted, doomed, wiping, rewritten>>

-----------------------------------------------------------------------------
(* purge_trigger.                                                          *)

PurgeQuery ==
  /\ "purge" \in Ops /\ Admitted
  /\ doomed = {} /\ wiping = NoSub
  /\ doomed' = {s \in Subs : Expired(rec[s])}
  /\ UNCHANGED <<rec, held, log, granted, req, batch, wiping, rewritten>>

\* purge_subscription_data selects the findings of the partition s, a card under
\* the id of each finding, and the snapshots of s: what is filed under s goes,
\* a stray stays.  A document that cannot be deleted is logged and left.
PurgeData(s) ==
  /\ s \in doomed /\ wiping = NoSub
  /\ data' = data \ {s} \/ ("write_error" \in Adversity /\ data' = data)
  /\ doomed' = doomed \ {s}
  /\ wiping' = s
  /\ UNCHANGED <<rec, strays, log, granted, req, batch, rewritten>>

\* hard_delete, whatever became of the record; a failure reads as "absent".
HardDelete ==
  /\ wiping # NoSub
  /\ \/ rec' = [rec EXCEPT ![wiping] = NoRec]
     \/ "write_error" \in Adversity /\ rec' = rec
  /\ wiping' = NoSub
  /\ rewritten' = rewritten \ {wiping}
  /\ UNCHANGED <<held, log, granted, req, batch, doomed>>

PurgeDies ==
  /\ "crash" \in Adversity /\ (doomed # {} \/ wiping # NoSub)
  /\ doomed' = {} /\ wiping' = NoSub /\ rewritten' = {}
  /\ UNCHANGED <<rec, held, log, granted, req, batch>>

-----------------------------------------------------------------------------
UserStep(u) ==
  \/ \E s \in Subs :
       \/ AddRead(u, s) \/ PatchRead(u, s) \/ RemoveRead(u, s)
       \/ MirrorRead(u, s) \/ ScanAdmit(u, s)
  \/ AddCount(u) \/ ScanPersist(u)

ActorStep(a) == MarkRead(a) \/ Put(a) \/ PutFails(a)

TimerStep == TimerFire \/ TimerDies \/ \E s \in Subs : TimerScan(s) \/ TimerScanFails(s)

PurgeStep == PurgeQuery \/ HardDelete \/ PurgeDies \/ \E s \in Subs : PurgeData(s)

Next ==
  \/ Tick \/ TimerStep \/ PurgeStep
  \/ \E s \in Subs : GrantChanges(s)
  \/ \E u \in Users : UserStep(u)
  \/ \E a \in Actors : ActorStep(a)

Spec == Init /\ [][Next]_vars

\* The clock and the timers run for ever, requests that were admitted end,
\* and a delete that is tried every day succeeds in the end.
Fairness ==
  /\ WF_vars(Tick) /\ WF_vars(TimerFire) /\ WF_vars(PurgeQuery)
  /\ WF_vars(\E s \in Subs : TimerScan(s) \/ TimerScanFails(s))
  /\ \A s \in Subs : SF_vars(PurgeData(s))
  /\ SF_vars(HardDelete /\ rec' # rec) /\ WF_vars(HardDelete)
  /\ \A u \in Users : WF_vars(AddCount(u)) /\ WF_vars(ScanPersist(u))
  /\ \A a \in Actors : WF_vars(MarkRead(a)) /\ WF_vars(Put(a))

FairSpec == Spec /\ Fairness

-----------------------------------------------------------------------------
(* Properties.                                                             *)

\* Every variable has its type.
TypeOK ==
  /\ rec \in [Subs -> Rec \cup {NoRec}]
  /\ data \subseteq Subs /\ strays \subseteq Subs /\ granted \subseteq Subs
  /\ log \in [Subs -> Scan]
  /\ req \in [Actors -> [step : Steps, sub : Subs, copy : Rec \cup {NoRec}] \cup {NoReq}]
  /\ \A a \in Actors : req[a] # NoReq /\ req[a].step = "put" => req[a].copy # NoRec
  /\ batch \in [Subs -> Rec \cup {NoRec}]
  /\ doomed \subseteq Subs /\ rewritten \subseteq Subs
  /\ wiping \in Subs \cup {NoSub}

\* A stamp the purge query can compare.
Purgeable(r) == r.state = "Removed" => r.removed # Never

\* Every tombstone carries removed_at, whatever stale copy was written last:
\* list_expired_removed ignores a tombstone without it, and the record and the
\* customer's data would stay for ever.
TombstonesPurgeable == \A s \in Subs : rec[s] # NoRec => Purgeable(rec[s])

\* The purge takes the record of s or the data filed under it.
Destroys(s) ==
  \/ s \in data /\ s \notin data'
  \/ rec[s] # NoRec /\ rec'[s] = NoRec

\* A tombstone for longer than the retention, told without the query.
PastRetention(r) == IsRemoved(r) /\ r.removed = Retention + 1

\* "Hard-deletes expired soft-deleted subscriptions": what a purge run destroys
\* has been a tombstone for longer than the retention, whatever interleaves,
\* fails or dies, unless somebody wrote the record after the query of that run.
EarlyPurgeNeedsRewrite ==
  [][\A s \in Subs : Destroys(s) => PastRetention(rec[s]) \/ s \in rewritten]_vars

\* A subscription that was not linked before joins through POST /subscriptions
\* only while the tenant is below its plan's cap, if the plan has one.
NewLinksRespectCap ==
  [][\A s \in Subs :
       rec[s] = NoRec /\ rec'[s] # NoRec /\ Cap >= 0
         => Cardinality(Active) < Cap]_vars

\* A tombstone does not stay for ever: it is purged or linked again.
TombstonesExpire == \A s \in Subs : []<>(~IsRemoved(rec[s]))

-----------------------------------------------------------------------------
(* What the documentation says and the code does not do.                   *)

\* POST /subscriptions "enforces the per-tier cap".
CapEnforced == Cap >= 0 => Cardinality(Active) <= Cap

\* purge_trigger: findings, snapshots and remediations "are kept for
\* subscription_retention_days so a re-link of the same GUID restores the history".
RetentionHonoured == [][\A s \in Subs : Destroys(s) => PastRetention(rec[s])]_vars

\* purge_subscription_data: "Hard-delete every finding/snapshot/remediation for a
\* subscription", after which its record goes and nothing would look for the rest.
NoOrphanData == Idle => \A s \in data \cup strays : rec[s] # NoRec

\* "Re-linking the same GUID before expiry restores the row": only a request
\* of the user brings a tombstone back.
OnlyUsersRevive ==
  [][\A s \in Subs :
       IsRemoved(rec[s]) /\ rec'[s] # NoRec /\ rec'[s].state # "Removed"
         => \E u \in Users : req[u] # NoReq /\ req[u].sub = s /\ req'[u] = NoReq]_vars

\* "Disabled subs are rejected by /scan": a scan is admitted for Enabled ones.
DisabledNeverScanned ==
  [][\A u \in Users :
       req[u] = NoReq /\ req'[u] # NoReq /\ req'[u].step = "scan"
         => rec[req'[u].sub].state = "Enabled"]_vars

\* The timer skips a run "if the last scan was within plan.scan_frequency_minutes".
CadenceHonoured ==
  [][\A s \in Subs :
       batch[s] # NoRec /\ req[Timer] = NoReq /\ req'[Timer] = Request("mark", s, NoRec)
         => ~Cooling(log[s])]_vars

\* "The next scan tick logs auth_failure and auto-disables the subscription".
RevokedGetsDisabled ==
  \A s \in Subs :
    <>[](s \notin granted) =>
      <>[](rec[s] = NoRec \/ rec[s].state # "Enabled")
=============================================================================
