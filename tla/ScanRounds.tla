----------------------------- MODULE ScanRounds -----------------------------
(***************************************************************************)
(* One live resource and the rows the findings container holds about it,   *)
(* across scans: the subscription's owner changes the resource, a scan     *)
(* reads it through its cloud's collector, the policy engine evaluates the *)
(* snapshot, and the store is reconciled with the verdicts.                *)
(*                                                                         *)
(* Scans are taken one at a time here and nobody triages: how scans and    *)
(* triage interleave on one row is the subject of FindingLifecycle.  What  *)
(* is added is where the verdicts of a scan come from.                     *)
(***************************************************************************)
EXTENDS PolicyEngine

CONSTANTS
  ScannedTypes,     \* the resource types the instance considers
  MaxDrifts         \* BOUND: how often the owner changes the resource

ASSUME RoundsAssumption == ScannedTypes \subseteq Types /\ MaxDrifts \in Nat

VARIABLES
  rtype,            \* the type of the resource
  live,             \* its live attributes
  exists,           \* whether it is still there
  open,             \* rule ids of its OPEN findings
  closed,           \* rule ids of its auto-resolved ones
  stray,            \* findings stored in the partition "unknown"
  last,             \* the last scan, and whether anything changed since
  drifts            \* changes made by the owner

vars == <<rtype, live, exists, open, closed, stray, last, drifts>>

Paths == {"timer", "request"}

NoScan == [path |-> "none", failed |-> {}, outcome |-> "none", fresh |-> FALSE]

RuleIds   == Ids(Discovered \cup Registered)
LegacyIds == Ids(Azure!ScannerRules)

\* A finding without a snapshot is saved under the subscription "unknown".
Stored(rules) == Ids({r \in rules : ~r.legacy})
Strays(rules) == Ids({r \in rules : r.legacy})

\* What one scan of one state of the resource evaluates to.
Verdicts(path, type, l, failed) ==
  Evaluate(path, type, Config(type, l, failed))

Init ==
  /\ rtype \in ScannedTypes
  /\ live \in LiveResources(rtype)
  /\ exists = TRUE
  /\ open = {} /\ closed = {} /\ stray = {}
  /\ last = NoScan
  /\ drifts = 0

-----------------------------------------------------------------------------
(* The owner.                                                              *)

Drift ==
  /\ exists /\ drifts < MaxDrifts
  /\ \E a \in DOMAIN live, l \in LiveResources(rtype) :
       /\ l[a] # live[a]
       /\ \A b \in DOMAIN live \ {a} : l[b] = live[b]
       /\ live' = l
  /\ drifts' = drifts + 1
  /\ last' = [last EXCEPT !.fresh = FALSE]
  /\ UNCHANGED <<rtype, exists, open, closed, stray>>

Delete ==
  /\ exists /\ drifts < MaxDrifts
  /\ exists' = FALSE
  /\ drifts' = drifts + 1
  /\ last' = [last EXCEPT !.fresh = FALSE]
  /\ UNCHANGED <<rtype, live, open, closed, stray>>

-----------------------------------------------------------------------------
(* A scan.                                                                 *)

ScanDone(path, failed, outcome) ==
  last' = [path  |-> path, failed |-> failed, outcome |-> outcome,
           fresh |-> TRUE]

\* POST /scan is Azure's; the timer serves the three clouds.
Serves(path) == path = "timer" \/ rtype \in AzureTypes

\* An exception out of the adapter: nothing is evaluated, saved or swept.
AbortedScan(path, failed) ==
  /\ Serves(path)
  /\ Outcome(rtype, failed) = "aborted"
  /\ ScanDone(path, failed, "aborted")
  /\ UNCHANGED <<rtype, live, exists, open, closed, stray, drifts>>

\* Bug: a finding that is seen again is inserted, and its resolved row stays.
SnapshotScanInserts(path, failed) ==
  LET rules == Verdicts(path, rtype, live, failed)
  IN  /\ Serves(path)
      /\ exists /\ Outcome(rtype, failed) = "snapshot"
      /\ open' = Stored(rules)
      /\ closed' = closed \cup (open \ Stored(rules))
      /\ stray' = stray \cup Strays(rules)
      /\ ScanDone(path, failed, "snapshot")
      /\ UNCHANGED <<rtype, live, exists, drifts>>

\* The resource is in the snapshots: its findings are saved as OPEN (they
\* reopen what a scan had resolved) and the sweep resolves the OPEN rows it
\* did not see again.
SnapshotScan(path, failed) ==
  LET rules == Verdicts(path, rtype, live, failed)
  IN  /\ Serves(path)
      /\ exists /\ Outcome(rtype, failed) = "snapshot"
      /\ open' = Stored(rules)
      /\ closed' = (closed \cup open) \ Stored(rules)
      /\ stray' = stray \cup Strays(rules)
      /\ ScanDone(path, failed, "snapshot")
      /\ UNCHANGED <<rtype, live, exists, drifts>>

\* The scan enumerated other resources and not this one, be it gone or only
\* unread.  The sweep of POST /scan deletes the rows of a resource the scan did
\* not enumerate; the timer's has no list to compare with and resolves them.
AbsentScan(path, failed) ==
  /\ Serves(path)
  /\ Outcome(rtype, failed) # "aborted"
  /\ ~exists \/ Outcome(rtype, failed) = "skipped"
  /\ open' = {}
  /\ closed' = IF path = "timer" THEN closed \cup open ELSE closed
  /\ ScanDone(path, failed, "absent")
  /\ UNCHANGED <<rtype, live, exists, stray, drifts>>

\* The scan enumerated nothing at all: the sweep is left out.  An AWS scan that
\* was not aborted has at least the account's summary.
EmptyScan(path, failed) ==
  /\ Serves(path) /\ rtype \notin AwsTypes
  /\ Outcome(rtype, failed) # "aborted"
  /\ ~exists \/ Outcome(rtype, failed) = "skipped"
  /\ ScanDone(path, failed, "empty")
  /\ UNCHANGED <<rtype, live, exists, open, closed, stray, drifts>>

\* A failing list or page ends the collector, so it fails alone.
Failures ==
  (SUBSET DetailCalls(rtype))
    \cup {{c} : c \in ListCalls(rtype) \cup PageCalls(rtype)}

Scan ==
  \E path \in Paths, failed \in Failures :
    \/ AbortedScan(path, failed)
    \/ SnapshotScan(path, failed)
    \/ AbsentScan(path, failed)
    \/ EmptyScan(path, failed)

Next == Drift \/ Delete \/ Scan

Spec == Init /\ [][Next]_vars

-----------------------------------------------------------------------------
(* What the rules are about, in terms of the live resource.                *)

Row(id, type, bad) == [id |-> id, type |-> type, bad |-> bad]

\* For each rule about a collected type, the live resources it is meant to
\* report: what the docstrings of its class say.  The rules about metrics and
\* costs of Azure resources (VM-007, STOR-010, FIN-*) have no row.
Meaning ==
  {Row("STOR-001", "Microsoft.Storage/storageAccounts", [public |-> {"true"}]),
   Row("STOR-002", "Microsoft.Storage/storageAccounts", [https |-> {"false"}]),
   Row("STOR-003", "Microsoft.Storage/storageAccounts", [tls |-> {"TLS1_0"}]),
   Row("STOR-004", "Microsoft.Storage/storageAccounts", [keys |-> {"none"}]),
   Row("STOR-005", "Microsoft.Storage/storageAccounts",
       [network |-> {"Allow"}]),
   Row("STOR-006", "Microsoft.Storage/storageAccounts", [unread |-> {"false"}]),
   Row("STOR-007", "Microsoft.Storage/storageAccounts", [unread |-> {"false"}]),
   Row("STOR-008", "Microsoft.Storage/storageAccounts",
       [infrastructure |-> {"none"}]),
   Row("STOR-009", "Microsoft.Storage/storageAccounts", [unread |-> {"false"}]),
   Row("NET-001", "Microsoft.Network/networkSecurityGroups",
       [rules |-> {"ssh", "range", "any_port"}]),
   Row("NET-002", "Microsoft.Network/networkSecurityGroups",
       [rules |-> {"rdp", "range", "any_port"}]),
   Row("NET-003", "Microsoft.Network/networkSecurityGroups",
       [rules |-> {"any_port"}]),
   Row("NET-004", "Microsoft.Network/networkSecurityGroups",
       [unread |-> {"false"}]),
   Row("NET-005", "Microsoft.Network/networkSecurityGroups",
       [rules |-> {"any_port"}]),
   Row("VM-001", "Microsoft.Compute/virtualMachines",
       [diskEncryption |-> {"false"}]),
   Row("VM-002", "Microsoft.Compute/virtualMachines", [disk |-> {"vhd"}]),
   Row("VM-003", "Microsoft.Compute/virtualMachines", [unread |-> {"false"}]),
   Row("VM-004", "Microsoft.Compute/virtualMachines", [unread |-> {"false"}]),
   Row("VM-005", "Microsoft.Compute/virtualMachines", [unread |-> {"false"}]),
   Row("VM-006", "Microsoft.Compute/virtualMachines", [tags |-> {"empty"}]),
   Row("KV-001", "Microsoft.KeyVault/vaults", [softDelete |-> {"none"}]),
   Row("KV-002", "Microsoft.KeyVault/vaults", [purge |-> {"none"}]),
   Row("KV-003", "Microsoft.KeyVault/vaults", [public |-> {"Enabled"}]),
   Row("KV-004", "Microsoft.KeyVault/vaults", [unread |-> {"false"}]),
   Row("KV-005", "Microsoft.KeyVault/vaults", [unread |-> {"false"}]),
   Row("AWS-S3-001", "AWS::S3::Bucket", [acl |-> {"public"}]),
   Row("AWS-S3-002", "AWS::S3::Bucket", [block |-> {"empty", "partial"}]),
   Row("AWS-S3-003", "AWS::S3::Bucket", [encryption |-> {"empty"}]),
   Row("AWS-S3-004", "AWS::S3::Bucket", [unread |-> {"false"}]),
   Row("AWS-S3-005", "AWS::S3::Bucket", [unread |-> {"false"}]),
   Row("AWS-EC2-001", "AWS::EC2::Volume", [encrypted |-> {"false"}]),
   Row("AWS-EC2-002", "AWS::EC2::Instance", [ip |-> {"set"}]),
   Row("AWS-EC2-003", "AWS::EC2::Volume", [state |-> {"available"}]),
   Row("AWS-SG-001", "AWS::EC2::SecurityGroup",
       [ingress |-> {"ssh", "all_ports"}]),
   Row("AWS-SG-002", "AWS::EC2::SecurityGroup",
       [ingress |-> {"rdp", "all_ports"}]),
   Row("AWS-VPC-002", "AWS::EC2::SecurityGroup",
       [name |-> {"default"}, ingress |-> {"web", "ssh", "rdp", "all_ports"}]),
   Row("AWS-VPC-002", "AWS::EC2::SecurityGroup",
       [name |-> {"default"}, egress |-> {"all_ports"}]),
   Row("AWS-IAM-001", "AWS::IAM::AccountSummary", [summary |-> {"root_keys"}]),
   Row("AWS-IAM-002", "AWS::IAM::User",
       [password |-> {"used", "never_used"}, mfa |-> {"false"}]),
   Row("AWS-IAM-004", "AWS::IAM::User", [unread |-> {"false"}]),
   Row("AWS-FINOPS-001", "AWS::EC2::EIP", [association |-> {"none"}]),
   Row("GCP-CE-001", "google.compute.Instance", [ips |-> {"set"}]),
   Row("GCP-CE-002", "google.compute.Disk", [cmek |-> {"false"}]),
   Row("GCP-CE-003", "google.compute.Disk", [users |-> {"empty"}]),
   Row("GCP-CE-004", "google.compute.Instance", [unread |-> {"false"}]),
   Row("GCP-CE-005", "google.compute.Instance", [unread |-> {"false"}]),
   Row("GCP-CE-006", "google.compute.Instance", [unread |-> {"false"}]),
   Row("GCP-NET-001", "google.compute.Firewall",
       [disabled |-> {"false"}, direction |-> {"INGRESS"},
        sources |-> {"world"}, allowed |-> {"ssh", "all"}]),
   Row("GCP-NET-002", "google.compute.Firewall",
       [disabled |-> {"false"}, direction |-> {"INGRESS"},
        sources |-> {"world"}, allowed |-> {"rdp", "all"}]),
   Row("GCP-NET-003", "google.compute.Firewall",
       [direction |-> {"INGRESS"}, sources |-> {"world"}, allowed |-> {"all"}]),
   Row("GCP-NET-004", "google.compute.Firewall", [unread |-> {"false"}]),
   Row("GCP-GCS-001", "google.storage.Bucket", [public |-> {"true"}]),
   Row("GCP-GCS-002", "google.storage.Bucket", [uniform |-> {"false"}]),
   Row("GCP-GCS-003", "google.storage.Bucket", [unread |-> {"false"}]),
   Row("GCP-GCS-004", "google.storage.Bucket", [unread |-> {"false"}]),
   Row("GCP-IAM-001", "google.iam.ServiceAccount", [keys |-> {"some"}]),
   Row("GCP-IAM-004", "google.iam.ServiceAccount",
       [keys |-> {"some"}, unread |-> {"false"}])}

\* The rows about the resource, and the issues it has now.
About  == {m \in Meaning : m.type = rtype}
Issues == Ids({m \in About : Matches(m.bad, live)})

\* Rules that read a key no collector writes.  Those that fire when it is not
\* set report every resource of the type, the others none.  (GCP-IAM-004 finds
\* a number where it expects a list of keys, and raises.)
AlwaysReported ==
  {"STOR-006", "STOR-007", "STOR-009", "NET-004", "VM-001", "VM-003", "KV-001",
   "KV-002", "KV-004", "AWS-S3-004", "AWS-S3-005", "GCP-CE-004", "GCP-CE-005",
   "GCP-NET-004", "GCP-GCS-003", "GCP-GCS-004"}

NeverReported ==
  {"VM-002", "VM-004", "VM-005", "KV-003", "KV-005", "AWS-VPC-002",
   "AWS-IAM-004", "GCP-CE-006", "GCP-IAM-004"}

\* Where an answer is not the one the documents promise: an issue of which
\* nothing is said, and a report without an issue.  Ports 22 and 3389 are
\* looked up by name, a console password counts once it has been used, and a
\* protocol without ports allows any port.
Blind(id, l) ==
  \/ id \in NeverReported
  \/ id \in {"NET-001", "NET-002"} /\ l.rules \in {"range", "any_port"}
  \/ id = "AWS-IAM-002" /\ l.password = "never_used"

FalseAlarm(id, l) ==
  \/ id \in AlwaysReported
  \/ /\ id = "GCP-NET-003"
     /\ l.direction = "INGRESS" /\ l.sources = "world" /\ l.allowed = "icmp"

Visible     == Ids({m \in About : Matches(m.bad, live) /\ ~Blind(m.id, live)})
FalseAlarms == Ids({m \in About : FalseAlarm(m.id, live)})

\* The reads whose failure looks like a clean answer.
FailOpenReads(id) ==
  CASE id = "AWS-S3-001"  -> {"get_bucket_acl"}
    [] id = "AWS-IAM-001" -> {"get_account_summary"}
    [] id = "GCP-GCS-001" -> {"get_iam_policy"}
    [] id = "GCP-IAM-001" -> {"list_service_account_keys"}
    [] OTHER -> {}

\* How deep the Defender data may be.
Tiers == {100, 105, 110}

MonthlyCost(type, l, failed) ==
  Cents(Value(Config(type, l, failed), "cost_monthly"))

\* A HIGH finding is 12.5 points behind a CRITICAL one by its severity.  Its
\* share of cost makes them up at 416.67 dollars a month.
CatchUp == 41667

\* The ranks of the findings below CRITICAL, of any resource of the scan, whose
\* impact is under that.
RivalRanks ==
  UNION {UNION {
    LET cost == MonthlyCost(type, l, failed)
        lesser == {r \in Verdicts("timer", type, l, failed) :
                     /\ r.severity # "CRITICAL"
                     /\ Impact(r, type, cost, tier) < CatchUp}
    IN  {Priority("timer", r, Impact(r, type, cost, tier)) : r \in lesser}
    : l \in LiveResources(type), failed \in SUBSET DetailCalls(type),
      tier \in Tiers} : type \in ScannedTypes}

Severe == Ids({r \in Discovered : r.severity \in {"CRITICAL", "HIGH"}})

Score == PostureScore(Cloud(rtype), open)

-----------------------------------------------------------------------------
(* Properties.                                                             *)

\* Every variable has its type, and no finding is both OPEN and resolved.
TypeOK ==
  /\ rtype \in ScannedTypes /\ live \in LiveResources(rtype)
  /\ exists \in BOOLEAN
  /\ open \in SUBSET RuleIds /\ closed \in SUBSET RuleIds
  /\ open \cap closed = {}
  /\ stray \in SUBSET LegacyIds
  /\ last \in [path : Paths \cup {"none"}, failed : SUBSET Calls(rtype),
               outcome : {"none", "aborted", "snapshot", "absent", "empty"},
               fresh : BOOLEAN]
  /\ drifts \in 0..MaxDrifts

\* After a scan whose reads all succeeded, and until the owner changes
\* something, the OPEN findings of the rules in Meaning are exactly the issues
\* the live resource has by the rules' own documents, but for the rules and
\* cases Blind and FalseAlarm name: collector, rule, engine and sweep agree on
\* the keys and on what they mean.
VerdictsFollowReads ==
  last.outcome = "snapshot" /\ last.fresh /\ last.failed = {} =>
    open \cap Ids(About) = Visible \cup FalseAlarms

\* A CRITICAL finding of the timer's scan is ranked above all others of its
\* resource, whatever that costs and however deep the Defender data, and above
\* every lesser finding of any other resource in the scan whose impact is under
\* CatchUp: the ranking of the whole scan is what the remediation quota is
\* handed out by.
CriticalFirst ==
  last.path = "timer" /\ last.outcome = "snapshot" /\ last.fresh =>
    LET rules    == Verdicts("timer", rtype, live, last.failed)
        critical == {r \in rules : r.severity = "CRITICAL"}
        cost     == MonthlyCost(rtype, live, last.failed)
        rank(r, tier) == Priority("timer", r, Impact(r, rtype, cost, tier))
    IN  \A tier \in Tiers, c \in critical :
          LET first == rank(c, tier)
          IN  /\ \A r \in rules \ critical : first > rank(r, tier)
              /\ \A other \in RivalRanks : first > other

\* An issue that the live resource still has, and the engine is not blind to,
\* leaves the OPEN findings only when the list call failed, or one of the four
\* reads whose failure is taken for a clean answer: no other failure, and no
\* aborted scan, hides it.
OnlyFailOpenReadsHide ==
  [][\A id \in (Visible \cap open) \ open' :
       exists => last'.failed \cap ({"list"} \cup FailOpenReads(id)) # {}]_vars

\* A scan that only adds findings, one of them severe, lowers the posture
\* score: it is not lost in the rounding.
SevereFindingLowersScore ==
  [][open \subseteq open' /\ Severe \cap (open' \ open) # {}
     => Score' < Score]_vars

-----------------------------------------------------------------------------
(* What the documents say and the code does not.                           *)

\* Rules are routed by provider: an Azure rule reports Azure resources
\* (adapters/rules/aws/registry.py:3-8).
RoutedByProvider ==
  rtype \notin AzureTypes => open \cap Ids(Azure!RULE_REGISTRY) = {}

\* A row is auto-resolved because the customer fixed the issue
\* (core/database.py:361-366).
ResolvedMeansFixed ==
  [][\A id \in open \cap closed' : exists /\ last.fresh =>
       last'.failed # {} \/ last.failed # {}]_vars

\* "Return a finding if soft delete is not enabled" (keyvault.py:93).
SoftDeleteReported ==
  rtype = "Microsoft.KeyVault/vaults" /\ live.softDelete = "true" /\ last.fresh
    => "KV-001" \notin open

\* A rule reports what its document says it reports: "any inbound rule allows
\* port 22 from the internet" (network.py:142), "console access but no MFA
\* device" (aws/iam.py:49).
IssuesAreReported ==
  last.outcome = "snapshot" /\ last.fresh /\ last.failed = {}
    => Issues \subseteq open

\* "If snapshots were collected but evaluated to zero findings, we still sweep"
\* (api/main.py:777-778): a scan with every read answered leaves nothing OPEN
\* on a resource that is gone.
GoneIsCleared ==
  ~exists /\ last.fresh /\ last.failed = {} => open = {}

\* The waste reported on a resource is at most what it costs.
WasteWithinCost ==
  LET cost == MonthlyCost(rtype, live, {})
      waste(r) == DirectWaste(r, cost)
  IN  MapThenSumSet(waste, {r \in Discovered : r.id \in open}) <= cost
=============================================================================
