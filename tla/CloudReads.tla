----------------------------- MODULE CloudReads -----------------------------
(***************************************************************************)
(* The collectors of the three scanners: what a live resource looks like,  *)
(* which API calls a collector makes about it, what becomes of the scan    *)
(* when one of them fails, and the snapshot it writes.                     *)
(*                                                                         *)
(* Live attributes are those the collectors read, and one, unread, for all *)
(* the settings rules are about that no collector asks for: a blob store's *)
(* versioning, a machine's backup.  The resource types are the sixteen     *)
(* some collector emits.                                                   *)
(***************************************************************************)
EXTENDS Rules

AzureTypes ==
  {"Microsoft.Storage/storageAccounts", "Microsoft.KeyVault/vaults",
   "Microsoft.Network/networkSecurityGroups",
   "Microsoft.Compute/virtualMachines"}

AwsTypes ==
  {"AWS::S3::Bucket", "AWS::EC2::Volume", "AWS::EC2::Instance",
   "AWS::EC2::SecurityGroup", "AWS::IAM::AccountSummary", "AWS::IAM::User",
   "AWS::EC2::EIP"}

GcpTypes ==
  {"google.compute.Instance", "google.compute.Disk", "google.compute.Firewall",
   "google.storage.Bucket", "google.iam.ServiceAccount"}

Types == AzureTypes \cup AwsTypes \cup GcpTypes

Bool == {"true", "false"}
Tags == {"empty", "complete", "complete_dev"}
Prices == {"some", "high", "huge"}

-----------------------------------------------------------------------------
(* Live resources: what the cloud holds, attribute by attribute.  Where it *)
(* is there, unread is "true" when the settings no collector asks for are  *)
(* as the rules want them and "false" when none of them is.  Of the rules  *)
(* of a security group, "range" is a range or a list of ports, not all of  *)
(* them, in which 22 and 3389 both are.                                    *)

LiveResources(type) ==
  CASE type = "Microsoft.Storage/storageAccounts" ->
         [public : Bool, tls : {"TLS1_0", "TLS1_2"}, https : Bool,
          network : {"Allow", "Deny"}, keys : {"none", "false"},
          infrastructure : {"none", "true"}, unread : Bool]
    [] type = "Microsoft.Network/networkSecurityGroups" ->
         [rules : {"empty", "web", "ssh", "rdp", "any_port", "range"},
          unread : Bool]
    [] type = "Microsoft.Compute/virtualMachines" ->
         [disk : {"set", "vhd"}, diskEncryption : Bool, tags : Tags,
          unread : Bool]
    [] type = "Microsoft.KeyVault/vaults" ->
         [softDelete : {"none", "true"}, purge : {"none", "true"},
          public : {"Enabled", "Disabled"}, unread : Bool]
    [] type = "AWS::S3::Bucket" ->
         [acl : {"private", "public"}, encryption : {"empty", "rules"},
          block : {"empty", "partial", "all_blocked"}, unread : Bool]
    [] type = "AWS::EC2::Volume" ->
         [encrypted : Bool, state : {"available", "in-use"},
          cost : Prices, tags : Tags]
    [] type = "AWS::EC2::Instance" ->
         [ip : {"none", "set"}, tags : Tags]
    [] type = "AWS::EC2::SecurityGroup" ->
         [name : {"default", "custom"}, egress : {"empty", "all_ports"},
          ingress : {"empty", "web", "ssh", "rdp", "all_ports"}]
    [] type = "AWS::IAM::AccountSummary" ->
         [summary : {"root_keys", "no_root_keys"}]
    [] type = "AWS::IAM::User" ->
         [password : {"none", "never_used", "used"}, mfa : Bool,
          unread : Bool]
    [] type = "AWS::EC2::EIP" ->
         [association : {"none", "set"}]
    [] type = "google.compute.Instance" ->
         [ips : {"empty", "set"}, tags : Tags, unread : Bool]
    [] type = "google.compute.Disk" ->
         [users : {"empty", "set"}, cmek : Bool, cost : Prices]
    [] type = "google.compute.Firewall" ->
         [direction : {"INGRESS", "EGRESS"}, disabled : Bool,
          sources : {"world", "private"},
          allowed : {"ssh", "rdp", "all", "icmp", "web"}, unread : Bool]
    [] type = "google.storage.Bucket" ->
         [uniform : Bool, public : Bool, unread : Bool]
    [] type = "google.iam.ServiceAccount" ->
         [keys : {"zero", "some"}, unread : Bool]

-----------------------------------------------------------------------------
(* The calls a scan makes that can fail, and what a failure costs.         *)

\* Inside a collector's try: the snapshot is written without the answer.
DetailCalls(type) ==
  CASE type = "AWS::S3::Bucket" ->
         {"get_bucket_acl", "get_public_access_block", "get_bucket_encryption"}
    [] type = "AWS::IAM::AccountSummary"  -> {"get_account_summary"}
    [] type = "AWS::IAM::User"            -> {"list_mfa_devices"}
    [] type = "google.storage.Bucket"     -> {"get_iam_policy"}
    [] type = "google.iam.ServiceAccount" -> {"list_service_account_keys"}
    [] OTHER -> {}

\* Around a collector: it returns what it has, and the resource is not there.
ListCalls(type) ==
  IF type \in {"AWS::EC2::Volume", "AWS::EC2::Instance",
               "AWS::EC2::SecurityGroup", "AWS::IAM::User",
               "AWS::IAM::AccountSummary"}
  THEN {} ELSE {"list"}

\* Pages are fetched lazily, by the loop that follows the try: the exception
\* leaves the collector and the adapter's scan.  The page may be one of another
\* type's (there are such collectors in the AWS and GCP adapters).
PageCalls(type) == IF type \in AzureTypes THEN {} ELSE {"page"}

Calls(type) == DetailCalls(type) \cup ListCalls(type) \cup PageCalls(type)

\* Bug: a page that fails ends the collector, not the scan.
OutcomePageSkips(type, failed) ==
  IF failed \cap (PageCalls(type) \cup ListCalls(type)) # {} THEN "skipped"
  ELSE "snapshot"

\* "aborted": the scan raised; "skipped": no snapshot of this resource.
Outcome(type, failed) ==
  IF failed \cap PageCalls(type) # {} THEN "aborted"
  ELSE IF failed \cap ListCalls(type) # {} THEN "skipped" ELSE "snapshot"

\* An answer, or what the except branch puts in its place.
Or(answer, call, failed, otherwise) ==
  IF call \in failed THEN otherwise ELSE answer

-----------------------------------------------------------------------------
(* The snapshot builders, one per emitted type.                            *)

\* Bug: the HTTPS flag keeps the name ARM gives it.
StorageSnapshotArmName(l) ==
  [allow_blob_public_access |-> l.public, minimum_tls_version |-> l.tls,
   network_default_action |-> l.network, supportsHttpsTrafficOnly |-> l.https,
   allow_shared_key_access |-> l.keys,
   infrastructure_encryption_enabled |-> l.infrastructure, tags |-> "empty"]

StorageSnapshot(l) ==
  [allow_blob_public_access |-> l.public, minimum_tls_version |-> l.tls,
   network_default_action |-> l.network, enable_https_traffic_only |-> l.https,
   allow_shared_key_access |-> l.keys,
   infrastructure_encryption_enabled |-> l.infrastructure, tags |-> "empty"]

\* The flattened rules keep one port range and one source per rule.
NsgSnapshot(l) == [securityRules |-> l.rules, tags |-> "empty"]

\* encryptionAtHost is filled with the disk encryption settings.
VmSnapshot(l) ==
  [managedDisk |-> IF l.disk = "set" THEN "set" ELSE "none",
   osDiskIsManaged |-> IF l.disk = "set" THEN "true" ELSE "false",
   encryptionAtHost |-> l.diskEncryption, encryptionSettings |-> "none",
   networkInterfaces |-> "some", tags |-> l.tags]

KeyVaultSnapshot(l) ==
  [enableSoftDelete |-> l.softDelete, enablePurgeProtection |-> l.purge,
   publicNetworkAccess |-> l.public, tags |-> "empty"]

BucketSnapshot(l, failed) ==
  [acl |-> Or(l.acl, "get_bucket_acl", failed, "empty"),
   public_access_block |->
     Or(l.block, "get_public_access_block", failed, "empty"),
   encryption |-> Or(l.encryption, "get_bucket_encryption", failed, "empty"),
   tags |-> "empty"]

VolumeSnapshot(l) ==
  [encrypted |-> l.encrypted, state |-> l.state, cost_monthly |-> l.cost,
   tags |-> l.tags]

InstanceSnapshot(l) == [public_ip_address |-> l.ip, tags |-> l.tags]

SecurityGroupSnapshot(l) ==
  [group_name |-> l.name, ingress_rules |-> l.ingress,
   egress_rules |-> l.egress, tags |-> "empty"]

AccountSummarySnapshot(l, failed) ==
  [summary_map |-> Or(l.summary, "get_account_summary", failed, "empty"),
   tags |-> "empty"]

\* A console password counts once it has been used.
UserSnapshot(l, failed) ==
  [password_enabled |-> IF l.password = "used" THEN "true" ELSE "false",
   mfa_active |-> Or(l.mfa, "list_mfa_devices", failed, "false"),
   tags |-> "empty"]

EipSnapshot(l) ==
  [association_id |-> l.association, tags |-> "empty",
   cost_monthly |-> IF l.association = "set" THEN "zero" ELSE "eip"]

GcpInstanceSnapshot(l) == [external_ips |-> l.ips, tags |-> l.tags]

GcpDiskSnapshot(l) ==
  [users |-> l.users, cmek_encrypted |-> l.cmek, cost_monthly |-> l.cost,
   tags |-> "empty"]

GcpFirewallSnapshot(l) ==
  [direction |-> l.direction, disabled |-> l.disabled,
   source_ranges |-> l.sources, allowed |-> l.allowed, tags |-> "empty"]

GcpBucketSnapshot(l, failed) ==
  [uniform_bucket_level_access |-> l.uniform, tags |-> "empty",
   public_iam_member |-> Or(l.public, "get_iam_policy", failed, "false")]

GcpServiceAccountSnapshot(l, failed) ==
  [user_managed_keys |->
     Or(l.keys, "list_service_account_keys", failed, "zero"),
   tags |-> "empty"]

Config(type, l, failed) ==
  CASE type = "Microsoft.Storage/storageAccounts"       -> StorageSnapshot(l)
    [] type = "Microsoft.Network/networkSecurityGroups" -> NsgSnapshot(l)
    [] type = "Microsoft.Compute/virtualMachines"       -> VmSnapshot(l)
    [] type = "Microsoft.KeyVault/vaults"               -> KeyVaultSnapshot(l)
    [] type = "AWS::S3::Bucket"           -> BucketSnapshot(l, failed)
    [] type = "AWS::EC2::Volume"          -> VolumeSnapshot(l)
    [] type = "AWS::EC2::Instance"        -> InstanceSnapshot(l)
    [] type = "AWS::EC2::SecurityGroup"   -> SecurityGroupSnapshot(l)
    [] type = "AWS::IAM::AccountSummary"  -> AccountSummarySnapshot(l, failed)
    [] type = "AWS::IAM::User"            -> UserSnapshot(l, failed)
    [] type = "AWS::EC2::EIP"             -> EipSnapshot(l)
    [] type = "google.compute.Instance"   -> GcpInstanceSnapshot(l)
    [] type = "google.compute.Disk"       -> GcpDiskSnapshot(l)
    [] type = "google.compute.Firewall"   -> GcpFirewallSnapshot(l)
    [] type = "google.storage.Bucket"     -> GcpBucketSnapshot(l, failed)
    [] type = "google.iam.ServiceAccount" ->
         GcpServiceAccountSnapshot(l, failed)
=============================================================================
