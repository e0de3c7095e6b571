-------------------------- MODULE FindingLifecycle --------------------------
(***************************************************************************)
(* The findings container of one subscription partition and every writer   *)
(* of it: the timer scan (ScanPipeline.run), the interactive scan (POST    *)
(* /scan and _persist_scan_results) and the triage routes (POST            *)
(* /findings/{id}/resolve, snooze and apply).                              *)
(*                                                                         *)
(* Cosmos DB offers point reads, queries and upserts of whole documents,   *)
(* and the code never passes an etag.  Every awaited call is therefore one *)
(* action, and what a writer read may be stale when it writes.             *)
(***************************************************************************)
EXTENDS Naturals, FiniteSets

CONSTANTS
  Findings,         \* stable finding ids: hashes of rule and resource
  Resources,        \* cloud resources of the subscription
  ResourceOf,       \* the resource a finding points at
  PolicyFindings,   \* findings ingested from Azure Policy, the rest are rules'
  Scans,            \* concurrent scan executions
  ApiScans,         \* those of them that are POST /scan; the rest are the timer's
  Users,            \* concurrent triage requests
  Tenants,          \* tenants that linked this subscription
  TenantOf,         \* the tenant a scan or a triage request works for
  Decisions,        \* statuses the triage routes can set
  Adversity,        \* which hazards the environment exhibits
  NoDoc,            \* no document under this id
  NoFinding,        \* no finding in hand
  NoEdit            \* no triage request in flight

AllAdversity ==
  {"overlap",       \* writers run concurrently
   "drift",         \* the live subscription changes
   "partial_scan",  \* queries and rules fail and are swallowed
   "read_error",    \* a Cosmos read raises
   "write_error",   \* a Cosmos write raises, landed or not
   "crash"}         \* the host of a scan dies

Status == {"OPEN", "RESOLVED", "SNOOZED", "APPLIED"}
Stamps == {"resolved_at", "snoozed_until", "applied_at"}

\* resolved_by: empty, the subject of a token, auto:scan, or an explicit null.
By == {"", "user", "auto", "null"}

\* What the resolve route has in hand: resolved_by is the subject of the token,
\* empty when authentication is off or the token carries none.
Actors == {"", "user"}

\* again: seen_count is above one, so the row carries a history.
Doc == [status : Status, by : By, stamps : SUBSET Stamps,
        again : BOOLEAN, tenant : Tenants]

ASSUME FindingsAssumption ==
  /\ ResourceOf \in [Findings -> Resources]
  /\ PolicyFindings \subseteq Findings
  /\ ApiScans \subseteq Scans
  /\ TenantOf \in [Scans \cup Users -> Tenants]
  /\ Decisions \subseteq {"RESOLVED", "SNOOZED", "APPLIED"}
  /\ Adversity \subseteq AllAdversity
  /\ NoDoc \notin Doc
  /\ NoFinding \notin Findings
  /\ NoEdit \notin [finding : Findings, decision : Decisions, copy : Doc]

VARIABLES
  present,          \* resources that exist in the live subscription
  faulty,           \* findings whose issue exists in the live subscription
  doc,              \* the findings container, by finding id
  phase,            \* where each scan is
  res,              \* the resources a scan enumerated
  found,            \* the findings a scan evaluated to
  todo,             \* of those, the ones it has not saved yet
  seen,             \* seen_ids: the ones whose save returned
  cur,              \* the finding inside save_finding
  held,             \* documents a scan has read and not written back
  edit              \* the triage request in flight, with the document it read

world  == <<present, faulty>>
locals == <<phase, res, found, todo, seen, cur, held>>
vars   == <<world, doc, locals, edit>>

NoDocs == [f \in Findings |-> NoDoc]

\* Serialised runs admit a writer only when every other one is at rest.
Admitted ==
  \/ "overlap" \in Adversity
  \/ /\ \A s \in Scans : phase[s] = "idle"
     /\ \A u \in Users : edit[u] = NoEdit

-----------------------------------------------------------------------------
(* The document logic of CosmosRepository.                                 *)

\* What FindingResult.model_dump and the tenant stamp give a new document.
Fresh(s) == [status |-> "OPEN", by |-> "", stamps |-> {}, again |-> FALSE,
             tenant |-> TenantOf[s]]

\* Bugs for the sensitivity runs: a triage status the merge forgets.
UserTriagedResolvedOnly(d) == d.status = "RESOLVED" /\ d.by # "auto"
UserTriagedDeferredOnly(d) == d.status \in {"SNOOZED", "APPLIED"}

\* The user_resolved predicate of save_finding.
UserTriaged(d) ==
  \/ d.status \in {"SNOOZED", "APPLIED"}
  \/ d.status = "RESOLVED" /\ d.by # "auto"

\* A field whose stored value is None is not carried forward.
Carried(by) == IF by = "null" THEN "" ELSE by

\* The three ways save_finding merges a finding with the row it read.
Merged(s, old) ==
  CASE old = NoDoc -> Fresh(s)
    [] old # NoDoc /\ UserTriaged(old) ->
         [Fresh(s) EXCEPT !.status = old.status, !.by = Carried(old.by),
                          !.stamps = old.stamps, !.again = TRUE]
    [] old # NoDoc /\ ~UserTriaged(old) ->
         [Fresh(s) EXCEPT !.by = IF old.status = "RESOLVED" THEN "null" ELSE "",
                          !.again = TRUE]

\* Bug: the sweep stamps the resolution and leaves the status.
AutoResolvedStampOnly(d) ==
  [d EXCEPT !.by = "auto", !.stamps = @ \cup {"resolved_at"}]

\* Bug: the sweep invents a status of its own; a raw document is not validated.
AutoResolvedOwnStatus(d) ==
  [d EXCEPT !.status = "AUTO_RESOLVED", !.by = "auto",
            !.stamps = @ \cup {"resolved_at"}]

\* The sweep stamps the whole document it queried.
AutoResolved(d) ==
  [d EXCEPT !.status = "RESOLVED", !.by = "auto",
            !.stamps = @ \cup {"resolved_at"}]

StampOf(decision) ==
  CASE decision = "RESOLVED" -> "resolved_at"
    [] decision = "SNOOZED"  -> "snoozed_until"
    [] decision = "APPLIED"  -> "applied_at"

\* Bug: the resolve route forgets resolved_by.
DecidedWithoutActor(d, decision, actor) ==
  [d EXCEPT !.status = decision, !.stamps = @ \cup {StampOf(decision)}]

\* update_finding_status with the extras of the three routes.
Decided(d, decision, actor) ==
  [d EXCEPT !.status = decision,
            !.by     = IF decision = "RESOLVED" THEN actor ELSE @,
            !.stamps = @ \cup {StampOf(decision)}]

\* Snapshots of the scanner and of Azure Policy name a resource differently
\* (build_id against the ARM id), so a policy finding's resource is never
\* among existing_resource_ids.
ResourceGone(s, f) == f \in PolicyFindings \/ ResourceOf[f] \notin res[s]

\* The sweep is confined to the scan's tenant; POST /scan learns the tenant
\* from the first finding it saved, and without one it does not filter.
SweptTenants(s) ==
  IF s \in ApiScans /\ seen[s] = {} THEN Tenants ELSE {TenantOf[s]}

\* Bug: the query forgets c.status = 'OPEN'.
UnseenAnyStatus(s) ==
  {f \in Findings \ seen[s] : doc[f] # NoDoc /\ doc[f].tenant \in SweptTenants(s)}

\* Bug: the sweep forgets seen_finding_ids.
UnseenAllOpen(s) ==
  {f \in Findings :
     doc[f] # NoDoc /\ doc[f].status = "OPEN" /\ doc[f].tenant \in SweptTenants(s)}

Unseen(s) ==
  {f \in Findings \ seen[s] :
     doc[f] # NoDoc /\ doc[f].status = "OPEN" /\ doc[f].tenant \in SweptTenants(s)}

-----------------------------------------------------------------------------
Init ==
  /\ present \in SUBSET Resources
  /\ faulty \in SUBSET {f \in Findings : ResourceOf[f] \in present}
  /\ doc = NoDocs
  /\ phase = [s \in Scans |-> "idle"]
  /\ res   = [s \in Scans |-> {}]
  /\ found = [s \in Scans |-> {}]
  /\ todo  = [s \in Scans |-> {}]
  /\ seen  = [s \in Scans |-> {}]
  /\ cur   = [s \in Scans |-> NoFinding]
  /\ held  = [s \in Scans |-> NoDocs]
  /\ edit  = [u \in Users |-> NoEdit]

-----------------------------------------------------------------------------
(* The customer's subscription.                                            *)

IssueAppears(f) ==
  /\ "drift" \in Adversity
  /\ f \notin faulty /\ ResourceOf[f] \in present
  /\ faulty' = faulty \cup {f}
  /\ UNCHANGED <<present, doc, locals, edit>>

IssueFixed(f) ==
  /\ "drift" \in Adversity
  /\ f \in faulty
  /\ faulty' = faulty \ {f}
  /\ UNCHANGED <<present, doc, locals, edit>>

ResourceCreated(r) ==
  /\ "drift" \in Adversity
  /\ r \notin present
  /\ present' = present \cup {r}
  /\ UNCHANGED <<faulty, doc, locals, edit>>

ResourceDeleted(r) ==
  /\ "drift" \in Adversity
  /\ r \in present
  /\ present' = present \ {r}
  /\ faulty' = {f \in faulty : ResourceOf[f] # r}
  /\ UNCHANGED <<doc, locals, edit>>

-----------------------------------------------------------------------------
(* One scan: enumerate, merge every finding, sweep, report.                *)

Detectable(r) ==
  {f \in faulty : f \in PolicyFindings \/ ResourceOf[f] \in r}

\* adapter.scan() or list_resources(), then the policy engine and the merge
\* of policy_findings.  A failed Resource Graph query, a rule that raises and
\* a failed Policy ingestion are logged and leave a smaller result.
Begin(s) ==
  /\ phase[s] = "idle" /\ Admitted
  /\ \E r \in SUBSET present : \E d \in SUBSET Detectable(r) :
       /\ "partial_scan" \in Adversity \/ (r = present /\ d = Detectable(r))
       /\ res'   = [res EXCEPT ![s] = r]
       /\ found' = [found EXCEPT ![s] = d]
       /\ todo'  = [todo EXCEPT ![s] = d]
  /\ seen'  = [seen EXCEPT ![s] = {}]
  /\ phase' = [phase EXCEPT ![s] = "merge"]
  /\ UNCHANGED <<world, doc, cur, held, edit>>

\* save_finding reads the existing row; any exception counts as "no row".
ReadExisting(s, f) ==
  /\ phase[s] = "merge" /\ f \in todo[s]
  /\ \E old \in {doc[f], NoDoc} :
       /\ old = doc[f] \/ "read_error" \in Adversity
       /\ held' = [held EXCEPT ![s][f] = old]
  /\ cur'   = [cur EXCEPT ![s] = f]
  /\ phase' = [phase EXCEPT ![s] = "save"]
  /\ UNCHANGED <<world, doc, res, found, todo, seen, edit>>

\* The upsert of save_finding, then the next finding.
EndSave(s) ==
  /\ todo'  = [todo EXCEPT ![s] = @ \ {cur[s]}]
  /\ held'  = [held EXCEPT ![s] = NoDocs]
  /\ cur'   = [cur EXCEPT ![s] = NoFinding]
  /\ phase' = [phase EXCEPT ![s] = "merge"]
  /\ UNCHANGED <<world, res, found, edit>>

Save(s) ==
  /\ phase[s] = "save"
  /\ doc'  = [doc EXCEPT ![cur[s]] = Merged(s, held[s][cur[s]])]
  /\ seen' = [seen EXCEPT ![s] = @ \cup {cur[s]}]
  /\ EndSave(s)

\* The upsert raises: the caller logs it and goes on without the id.
SaveFails(s) ==
  /\ phase[s] = "save" /\ "write_error" \in Adversity
  /\ \E landed \in BOOLEAN :
       doc' = IF landed
              THEN [doc EXCEPT ![cur[s]] = Merged(s, held[s][cur[s]])] ELSE doc
  /\ UNCHANGED seen
  /\ EndSave(s)

\* The query of mark_unseen_findings_resolved over the OPEN rows.
SweepQuery(s) ==
  /\ phase[s] = "merge" /\ todo[s] = {} /\ res[s] # {}
  /\ held'  = [held EXCEPT ![s] =
                 [f \in Findings |-> IF f \in Unseen(s) THEN doc[f] ELSE NoDoc]]
  /\ phase' = [phase EXCEPT ![s] = "sweep"]
  /\ UNCHANGED <<world, doc, res, found, todo, seen, cur, edit>>

\* No sweep: the scan enumerated nothing, or the query raised.
SkipSweep(s) ==
  /\ phase[s] = "merge" /\ todo[s] = {}
  /\ res[s] = {} \/ "read_error" \in Adversity
  /\ phase' = [phase EXCEPT ![s] = "report"]
  /\ UNCHANGED <<world, doc, res, found, todo, seen, cur, held, edit>>

Swept(s, f) ==
  IF s \in ApiScans /\ ResourceGone(s, f) THEN NoDoc ELSE AutoResolved(held[s][f])

Drop(s, f) ==
  /\ held' = [held EXCEPT ![s][f] = NoDoc]
  /\ UNCHANGED <<world, phase, res, found, todo, seen, cur, edit>>

\* One candidate of the sweep: deleted when its resource is gone, else the
\* queried document goes back as RESOLVED by auto:scan.
Sweep(s, f) ==
  /\ phase[s] = "sweep" /\ held[s][f] # NoDoc
  /\ doc' = [doc EXCEPT ![f] = Swept(s, f)]
  /\ Drop(s, f)

SweepFails(s, f) ==
  /\ phase[s] = "sweep" /\ held[s][f] # NoDoc /\ "write_error" \in Adversity
  /\ \E landed \in BOOLEAN :
       doc' = IF landed THEN [doc EXCEPT ![f] = Swept(s, f)] ELSE doc
  /\ Drop(s, f)

EndSweep(s) ==
  /\ phase[s] = "sweep" /\ held[s] = NoDocs
  /\ phase' = [phase EXCEPT ![s] = "report"]
  /\ UNCHANGED <<world, doc, res, found, todo, seen, cur, held, edit>>

Reset(s) ==
  /\ phase' = [phase EXCEPT ![s] = "idle"]
  /\ res'   = [res EXCEPT ![s] = {}]
  /\ found' = [found EXCEPT ![s] = {}]
  /\ todo'  = [todo EXCEPT ![s] = {}]
  /\ seen'  = [seen EXCEPT ![s] = {}]
  /\ cur'   = [cur EXCEPT ![s] = NoFinding]
  /\ held'  = [held EXCEPT ![s] = NoDocs]
  /\ UNCHANGED <<world, doc, edit>>

\* The scan summary is saved and the scan is over.
Report(s) == phase[s] = "report" /\ Reset(s)

\* The host dies (or the function times out) between two awaited calls.
Crash(s) == "crash" \in Adversity /\ phase[s] # "idle" /\ Reset(s)

-----------------------------------------------------------------------------
(* A triage request: _mutate_finding_status and update_finding_status.     *)

\* The read, with its 404 on a missing row and on another tenant's row.
TriageRead(u, f, decision) ==
  /\ edit[u] = NoEdit /\ Admitted
  /\ doc[f] # NoDoc /\ doc[f].tenant = TenantOf[u]
  /\ edit' = [edit EXCEPT ![u] =
                [finding |-> f, decision |-> decision, copy |-> doc[f]]]
  /\ UNCHANGED <<world, doc, locals>>

TriageWrite(u) ==
  /\ edit[u] # NoEdit
  /\ \E actor \in Actors :
       doc' = [doc EXCEPT ![edit[u].finding] =
                 Decided(edit[u].copy, edit[u].decision, actor)]
  /\ edit' = [edit EXCEPT ![u] = NoEdit]
  /\ UNCHANGED <<world, locals>>

\* The upsert raises before it lands: the route answers 500.
TriageFails(u) ==
  /\ edit[u] # NoEdit /\ "write_error" \in Adversity
  /\ edit' = [edit EXCEPT ![u] = NoEdit]
  /\ UNCHANGED <<world, doc, locals>>

-----------------------------------------------------------------------------
Drift ==
  \/ \E f \in Findings : IssueAppears(f) \/ IssueFixed(f)
  \/ \E r \in Resources : ResourceCreated(r) \/ ResourceDeleted(r)

ScanStep(s) ==
  \/ Begin(s) \/ Save(s) \/ SaveFails(s)
  \/ SweepQuery(s) \/ SkipSweep(s) \/ EndSweep(s) \/ Report(s) \/ Crash(s)
  \/ \E f \in Findings : ReadExisting(s, f) \/ Sweep(s, f) \/ SweepFails(s, f)

Triage(u) ==
  \/ TriageWrite(u) \/ TriageFails(u)
  \/ \E f \in Findings, d \in Decisions : TriageRead(u, f, d)

Next ==
  \/ Drift
  \/ \E s \in Scans : ScanStep(s)
  \/ \E u \in Users : Triage(u)

Spec == Init /\ [][Next]_vars

\* The timer fires for ever and an execution that is not killed goes on; a
\* Cosmos error is transient, so a write tried again and again succeeds.
Fairness ==
  /\ \A s \in Scans :
       /\ s \notin ApiScans => WF_vars(Begin(s))
       /\ WF_vars(Save(s)) /\ WF_vars(Report(s))
       /\ WF_vars(EndSweep(s)) /\ WF_vars(SkipSweep(s))
       /\ SF_vars(SweepQuery(s))
       /\ \A f \in Findings : WF_vars(ReadExisting(s, f)) /\ SF_vars(Sweep(s, f))
  /\ \A u \in Users : WF_vars(TriageWrite(u))

FairSpec == Spec /\ Fairness

-----------------------------------------------------------------------------
(* Properties.                                                             *)

\* Every variable has its type.
TypeOK ==
  /\ present \in SUBSET Resources
  /\ faulty \in SUBSET Findings
  /\ doc \in [Findings -> Doc \cup {NoDoc}]
  /\ phase \in [Scans -> {"idle", "merge", "save", "sweep", "report"}]
  /\ res \in [Scans -> SUBSET Resources]
  /\ found \in [Scans -> SUBSET Findings]
  /\ todo \in [Scans -> SUBSET Findings]
  /\ seen \in [Scans -> SUBSET Findings]
  /\ cur \in [Scans -> Findings \cup {NoFinding}]
  /\ \A s \in Scans : phase[s] = "save" => cur[s] \in Findings
  /\ held \in [Scans -> [Findings -> Doc \cup {NoDoc}]]
  /\ edit \in [Users -> [finding : Findings, decision : Decisions, copy : Doc]
                          \cup {NoEdit}]

\* What the fields of one document must say about each other: an OPEN row
\* carries no residue of an earlier resolution, a RESOLVED row says when it was
\* resolved and is not left with the null of a reopened one, a SNOOZED or
\* APPLIED row carries its timestamp, and whoever resolved a row left a time.
Coherent(d) ==
  /\ d.status = "OPEN" => d.stamps = {} /\ d.by \in {"", "null"}
  /\ d.status = "RESOLVED" => d.by # "null" /\ "resolved_at" \in d.stamps
  /\ d.status \in Decisions => StampOf(d.status) \in d.stamps
  /\ d.by \in {"user", "auto"} => "resolved_at" \in d.stamps

\* Whatever the interleaving of scans and triage, the failed calls and the
\* crashes, the container never holds a document whose lifecycle fields
\* contradict each other (save_finding, mark_unseen_findings_resolved and
\* update_finding_status each rewrite a document some other call produced).
StoredDocsCoherent == \A f \in Findings : doc[f] # NoDoc => Coherent(doc[f])

\* A row the user triaged, told from the row alone.
TriagedByUser(d) ==
  \/ d.status \in {"SNOOZED", "APPLIED"}
  \/ d.status = "RESOLVED" /\ d.by # "auto"

\* Scan s writes finding f back in this step.
SaveOf(s, f)  == phase[s] = "save" /\ cur[s] = f /\ phase'[s] = "merge"
SweepOf(s, f) == /\ phase[s] = "sweep" /\ phase'[s] = "sweep"
                 /\ held[s][f] # NoDoc /\ held'[s][f] = NoDoc

\* A scan whose copy of the row is current loses nothing: a triaged row keeps
\* its status and its timestamps, and a row seen again stays one.
FreshWriteIsLossless ==
  [][\A s \in Scans, f \in Findings :
       (SaveOf(s, f) \/ SweepOf(s, f)) /\ held[s][f] = doc[f] /\ doc[f] # NoDoc
       => /\ TriagedByUser(doc[f])
               => /\ doc'[f] # NoDoc /\ doc'[f].status = doc[f].status
                  /\ doc[f].stamps \subseteq doc'[f].stamps
          /\ doc[f].again /\ doc'[f] # NoDoc => doc'[f].again]_vars

\* Scan s evaluated to f and is past it, without its id: the save raised.
SaveRaised(s, f) == f \in found[s] \ (seen[s] \cup todo[s])

\* "No longer reported by the scanner" (mark_unseen_findings_resolved): what
\* this scan evaluated to is not swept, whatever other scans and users write
\* meanwhile, unless the save of that very finding raised.
SweepOnlyUndetected ==
  [][\A s \in Scans, f \in Findings :
       SweepOf(s, f) /\ doc'[f] # doc[f] => f \notin found[s] \/ SaveRaised(s, f)]_vars

\* "Cosmos mirrors the live subscription exactly": when a scan that swept
\* comes to its report, the findings it evaluated to are OPEN or triaged by
\* the user, and no other finding is OPEN.
MirrorAfterScan ==
  \A s \in Scans : phase[s] = "report" /\ res[s] # {} =>
    \A f \in Findings :
      IF f \in found[s]
      THEN doc[f] # NoDoc /\ (doc[f].status = "OPEN" \/ TriagedByUser(doc[f]))
      ELSE doc[f] = NoDoc \/ doc[f].status # "OPEN"

\* The abstract ledger, under the mapping that reads an entry off a document.
EntryOf(d) ==
  CASE d = NoDoc -> "absent"
    [] d # NoDoc /\ d.status = "OPEN" -> "open"
    [] d # NoDoc /\ d.status = "RESOLVED" /\ d.by = "auto" -> "closed"
    [] OTHER -> d.status

Entries == [f \in Findings |-> EntryOf(doc[f])]

Ledger == INSTANCE FindingLedger WITH entry <- Entries

\* Writers that do not overlap and whose reads succeed implement the ledger:
\* the read-merge-upsert protocol of save_finding, the sweep and the triage
\* routes behave like one atomic transition per document.
ImplementsLedger == Ledger!Spec

\* The document a writer puts back, if it writes in this step, is the stored one.
WritesCurrentCopies ==
  /\ \A s \in Scans, f \in Findings :
       SaveOf(s, f) \/ SweepOf(s, f) => held[s][f] = doc[f]
  /\ \A u \in Users :
       edit[u] # NoEdit /\ edit'[u] = NoEdit => edit[u].copy = doc[edit[u].finding]

\* Concurrent writers break the promise of the ledger in one way only, by
\* writing back a copy the row has moved away from: every other step of any
\* interleaving, with failed calls and crashes, is one transition of the ledger
\* or none.
OnlyStaleWritesBreakLedger ==
  [][WritesCurrentCopies => Ledger!Next \/ UNCHANGED Entries]_vars

\* An issue that stays fixed, in a subscription that keeps some resource,
\* leaves the OPEN view for good: the next successful scan retries a sweep
\* that failed (_persist_scan_results).
FixedIssueLeavesDashboard ==
  \A f \in Findings :
    <>[](f \notin faulty /\ present # {})
      => <>[](doc[f] = NoDoc \/ doc[f].status # "OPEN")

-----------------------------------------------------------------------------
(* What the documentation says and the code does not do.                   *)

\* resolve_finding: a later scan that detects the same issue again flips the
\* status back to OPEN.
RedetectionReopens ==
  [][\A s \in Scans, f \in Findings :
       SaveOf(s, f) /\ f \in seen'[s] => doc'[f].status # "RESOLVED"]_vars

\* save_finding: the user already triaged this finding and the engine should
\* not silently flip it back to OPEN (nor the sweep to RESOLVED).
TriageNeverReverted ==
  [][\A f \in Findings :
       doc[f] # NoDoc /\ TriagedByUser(doc[f])
         => doc'[f] # NoDoc /\ TriagedByUser(doc'[f])]_vars

\* save_finding: the first detection is pinned and seen_count is incremented.
HistoryNeverForgotten ==
  [][\A f \in Findings :
       doc[f] # NoDoc /\ doc[f].again /\ doc'[f] # NoDoc => doc'[f].again]_vars

\* mark_unseen_findings_resolved: a row missing from seen_finding_ids is no
\* longer reported by the scanner, a failed save included.
SweptIsUnreported ==
  [][\A s \in Scans, f \in Findings :
       SweepOf(s, f) /\ doc'[f] # doc[f] => f \notin found[s]]_vars

\* mark_unseen_findings_resolved: a fixed issue whose resource is still
\* present is RESOLVED and "stays for audit"; only the finding of a deleted
\* resource is deleted.
FixedFindingStaysForAudit ==
  [][\A s \in Scans, f \in PolicyFindings :
       SweepOf(s, f) /\ doc[f] # NoDoc /\ ResourceOf[f] \in res[s]
         => doc'[f] # NoDoc]_vars

\* _persist_scan_results: a degraded scan is not authoritative proof; it must
\* not delete the findings of resources that are still there.
DegradedScanDeletesNothing ==
  [][\A f \in Findings :
       doc[f] # NoDoc /\ doc'[f] = NoDoc => ResourceOf[f] \notin present]_vars

\* _normalise_finding_doc: null fields are a property of historical rows.
NoNullFields == \A f \in Findings : doc[f] # NoDoc => doc[f].by # "null"
=============================================================================
