------------------------------ MODULE GcpRules ------------------------------
(***************************************************************************)
(* The GCP rule pack, one definition per PolicyRule subclass of            *)
(* adapters/rules/gcp, named for the class. Every rule declares the one    *)
(* resource type it is about.                                              *)
(***************************************************************************)
EXTENDS Rules

\* gcp/bigquery.py
BigQueryDatasetPublicAccessRule ==
  Rule("GCP-BQ-001", {"google.bigquery.Dataset"}, "CRITICAL", "SECURITY", 4,
    {[access |-> {"public"}]})

BigQueryDatasetCmekRule ==
  Rule("GCP-BQ-002", {"google.bigquery.Dataset"}, "MEDIUM", "SECURITY", 4,
    {[default_kms_key_name |-> Falsy]})

\* gcp/cloudfunctions.py
CloudFunctionIngressRule ==
  Rule("GCP-CF-001",
    {"google.cloudfunctions.Function"}, "MEDIUM", "SECURITY", 2,
    {[ingress_settings |-> {"missing", "empty", "ALLOW_ALL"}]})

CloudFunctionPublicInvokerRule ==
  Rule("GCP-CF-002", {"google.cloudfunctions.Function"}, "HIGH", "SECURITY", 2,
    {[invoker_members |-> {"public"}]})

\* gcp/cloudrun.py
CloudRunIngressRule ==
  Rule("GCP-CR-001", {"google.run.Service"}, "MEDIUM", "SECURITY", 2,
    {[ingress |-> {"missing", "empty", "all"}]})

CloudRunPublicInvokerRule ==
  Rule("GCP-CR-002", {"google.run.Service"}, "HIGH", "SECURITY", 2,
    {[invoker_members |-> {"public"}]})

\* gcp/cloudsql.py
CloudSqlPublicIpRule ==
  Rule("GCP-SQL-001", {"google.sql.Instance"}, "HIGH", "SECURITY", 4,
    {[ipv4_enabled |-> {"true"}]})

CloudSqlBackupDisabledRule ==
  Rule("GCP-SQL-002", {"google.sql.Instance"}, "MEDIUM", "COMPLIANCE", 3,
    {[backup_enabled |-> NotTrue]})

CloudSqlRequireSslRule ==
  Rule("GCP-SQL-003", {"google.sql.Instance"}, "HIGH", "SECURITY", 4,
    {[require_ssl |-> NotTrue]})

\* gcp/compute.py
InstancePublicIpRule ==
  Rule("GCP-CE-001", {"google.compute.Instance"}, "MEDIUM", "SECURITY", 5,
    {[external_ips |-> Truthy]})

DiskCmekEncryptionRule ==
  Rule("GCP-CE-002", {"google.compute.Disk"}, "MEDIUM", "SECURITY", 6,
    {[cmek_encrypted |-> NotTrue]})

UnattachedDiskRule ==
  Wasteful(Rule("GCP-CE-003", {"google.compute.Disk"}, "MEDIUM", "FINOPS", 1,
    {[users |-> Falsy]}), 100)

\* gcp/compute_extra.py
InstanceShieldedVmRule ==
  Rule("GCP-CE-004", {"google.compute.Instance"}, "MEDIUM", "SECURITY", 3,
    {[shielded_instance_config |-> Not({"all_on"})]})

InstanceOsLoginDisabledRule ==
  Rule("GCP-CE-005", {"google.compute.Instance"}, "MEDIUM", "SECURITY", 2,
    {[enable_oslogin |-> NotTrue]})

InstanceDefaultServiceAccountRule ==
  Rule("GCP-CE-006", {"google.compute.Instance"}, "MEDIUM", "SECURITY", 2,
    {[service_account_emails |-> {"default"}]})

\* gcp/data_services.py
SpannerCmekRule ==
  Rule("GCP-SPN-001", {"google.spanner.Database"}, "MEDIUM", "SECURITY", 2,
    {[kms_key_name |-> Falsy]})

MemorystoreAuthDisabledRule ==
  Rule("GCP-MEM-001", {"google.redis.Instance"}, "HIGH", "SECURITY", 2,
    {[auth_enabled |-> NotTrue]})

MemorystoreTransitEncryptionRule ==
  Rule("GCP-MEM-002", {"google.redis.Instance"}, "HIGH", "SECURITY", 2,
    {[transit_encryption_mode |-> Not({"SERVER_AUTHENTICATION"})]})

BigQueryTablePartitionExpiryRule ==
  Wasteful(Rule("GCP-BQ-003", {"google.bigquery.Table"}, "LOW", "FINOPS", 1,
    {[time_partitioning |-> {"no_expiry"}]}), 100)

\* gcp/dns_secrets.py
DnsDnssecDisabledRule ==
  Rule("GCP-DNS-001", {"google.dns.ManagedZone"}, "MEDIUM", "SECURITY", 2,
    {[visibility |-> {"missing", "public"}, dnssec_state |-> Not({"on"})]})

SecretManagerCmekRule ==
  Rule("GCP-SEC-001", {"google.secretmanager.Secret"}, "MEDIUM", "SECURITY", 2,
    {[customer_managed_kms_key |-> Falsy]})

ArtifactRegistryCmekRule ==
  Rule("GCP-AR-001",
    {"google.artifactregistry.Repository"}, "MEDIUM", "SECURITY", 2,
    {[kms_key_name |-> Falsy]})

ArtifactRegistryPublicAccessRule ==
  Rule("GCP-AR-002",
    {"google.artifactregistry.Repository"}, "HIGH", "SECURITY", 2,
    {[iam_bindings |-> {"public"}]})

\* gcp/gke.py
GkePrivateClusterRule ==
  Rule("GCP-GKE-001", {"google.container.Cluster"}, "HIGH", "SECURITY", 3,
    {[enable_private_nodes |-> NotTrue]})

GkeLoggingDisabledRule ==
  Rule("GCP-GKE-002", {"google.container.Cluster"}, "MEDIUM", "COMPLIANCE", 3,
    {[logging_service |-> {"missing", "empty", "none"}]})

GkeNetworkPolicyRule ==
  Rule("GCP-GKE-003", {"google.container.Cluster"}, "MEDIUM", "SECURITY", 3,
    {[network_policy_enabled |-> NotTrue]})

\* gcp/gke_extra.py
GkeWorkloadIdentityRule ==
  Rule("GCP-GKE-004", {"google.container.Cluster"}, "MEDIUM", "SECURITY", 2,
    {[workload_identity_pool |-> Falsy]})

GkeAutoUpgradeDisabledRule ==
  Rule("GCP-GKE-005", {"google.container.NodePool"}, "MEDIUM", "COMPLIANCE", 2,
    {[auto_upgrade |-> NotTrue]})

GkeBinaryAuthorizationRule ==
  Rule("GCP-GKE-006", {"google.container.Cluster"}, "MEDIUM", "SECURITY", 2,
    {[binary_authorization_mode |-> Not({"enforce"})]})

\* gcp/iam.py
ServiceAccountUserManagedKeyRule ==
  Raising(Rule("GCP-IAM-001",
    {"google.iam.ServiceAccount"}, "HIGH", "SECURITY", 5,
    {[user_managed_keys |-> {"some"}]}),
    {[user_managed_keys |-> {"stale_list"}]})

\* gcp/iam_extra.py
IamPrimitiveRoleRule ==
  Rule("GCP-IAM-002", {"google.iam.ProjectPolicy"}, "MEDIUM", "SECURITY", 3,
    {[bindings |-> {"primitive", "primitive_public"}]})

IamPublicMemberRule ==
  Rule("GCP-IAM-003", {"google.iam.ProjectPolicy"}, "CRITICAL", "SECURITY", 3,
    {[bindings |-> {"public", "primitive_public"}]})

ServiceAccountKeyAgeRule ==
  Raising(Rule("GCP-IAM-004",
    {"google.iam.ServiceAccount"}, "MEDIUM", "COMPLIANCE", 3,
    {[user_managed_keys |-> {"stale_list"}]}),
    {[user_managed_keys |-> {"some"}]})

\* gcp/kms.py
KmsKeyRotationRule ==
  Rule("GCP-KMS-001", {"google.kms.CryptoKey"}, "MEDIUM", "SECURITY", 3,
    {[rotation_period_days |-> Not({"zero", "short"})]})

KmsKeyPublicAccessRule ==
  Rule("GCP-KMS-002", {"google.kms.CryptoKey"}, "CRITICAL", "SECURITY", 2,
    {[iam_bindings |-> {"public"}]})

\* gcp/logging.py
LoggingSinkMissingRule ==
  Rule("GCP-LOG-001", {"google.logging.Project"}, "MEDIUM", "COMPLIANCE", 3,
    {[sinks |-> Not({"catch_all"})]})

LoggingRetentionRule ==
  Rule("GCP-LOG-002", {"google.logging.LogBucket"}, "MEDIUM", "COMPLIANCE", 3,
    {[retention_days |-> Below]})

\* gcp/network.py
FirewallSshOpenRule ==
  Rule("GCP-NET-001", {"google.compute.Firewall"}, "HIGH", "SECURITY", 5,
    {[disabled |-> Falsy, direction |-> {"INGRESS"},
       source_ranges |-> {"world"}, allowed |-> {"ssh", "all"}]})

FirewallRdpOpenRule ==
  Rule("GCP-NET-002", {"google.compute.Firewall"}, "HIGH", "SECURITY", 5,
    {[disabled |-> Falsy, direction |-> {"INGRESS"},
       source_ranges |-> {"world"}, allowed |-> {"rdp", "all"}]})

\* gcp/network_extra.py
FirewallAnyPortOpenRule ==
  Rule("GCP-NET-003", {"google.compute.Firewall"}, "HIGH", "SECURITY", 3,
    {[direction |-> {"INGRESS"}, source_ranges |-> {"world", "world_v6"},
       allowed |-> {"all", "icmp"}]})

FirewallLoggingDisabledRule ==
  Rule("GCP-NET-004", {"google.compute.Firewall"}, "LOW", "COMPLIANCE", 2,
    {[log_config_enabled |-> NotTrue]})

\* gcp/pubsub.py
PubSubTopicCmekRule ==
  Rule("GCP-PS-001", {"google.pubsub.Topic"}, "MEDIUM", "SECURITY", 2,
    {[kms_key_name |-> Falsy]})

PubSubTopicPublicAccessRule ==
  Rule("GCP-PS-002", {"google.pubsub.Topic"}, "HIGH", "SECURITY", 2,
    {[iam_bindings |-> {"public"}]})

\* gcp/storage.py
BucketPublicAccessRule ==
  Rule("GCP-GCS-001", {"google.storage.Bucket"}, "CRITICAL", "SECURITY", 6,
    {[public_iam_member |-> Truthy]})

BucketUniformAccessRule ==
  Rule("GCP-GCS-002", {"google.storage.Bucket"}, "MEDIUM", "SECURITY", 4,
    {[uniform_bucket_level_access |-> NotTrue]})

\* gcp/storage_extra.py
BucketVersioningDisabledRule ==
  Rule("GCP-GCS-003", {"google.storage.Bucket"}, "MEDIUM", "COMPLIANCE", 2,
    {[versioning_enabled |-> NotTrue]})

BucketRetentionPolicyRule ==
  Rule("GCP-GCS-004", {"google.storage.Bucket"}, "LOW", "COMPLIANCE", 2,
    {[retention_policy |-> Not({"locked"})]})

-----------------------------------------------------------------------------
GCP_RULE_REGISTRY ==
  {BigQueryDatasetPublicAccessRule, BigQueryDatasetCmekRule,
   CloudFunctionIngressRule, CloudFunctionPublicInvokerRule,
   CloudRunIngressRule, CloudRunPublicInvokerRule, CloudSqlPublicIpRule,
   CloudSqlBackupDisabledRule, CloudSqlRequireSslRule, InstancePublicIpRule,
   DiskCmekEncryptionRule, UnattachedDiskRule, InstanceShieldedVmRule,
   InstanceOsLoginDisabledRule, InstanceDefaultServiceAccountRule,
   SpannerCmekRule, MemorystoreAuthDisabledRule,
   MemorystoreTransitEncryptionRule, BigQueryTablePartitionExpiryRule,
   DnsDnssecDisabledRule, SecretManagerCmekRule, ArtifactRegistryCmekRule,
   ArtifactRegistryPublicAccessRule, GkePrivateClusterRule,
   GkeLoggingDisabledRule, GkeNetworkPolicyRule, GkeWorkloadIdentityRule,
   GkeAutoUpgradeDisabledRule, GkeBinaryAuthorizationRule,
   ServiceAccountUserManagedKeyRule, IamPrimitiveRoleRule,
   IamPublicMemberRule, ServiceAccountKeyAgeRule, KmsKeyRotationRule,
   KmsKeyPublicAccessRule, LoggingSinkMissingRule, LoggingRetentionRule,
   FirewallSshOpenRule, FirewallRdpOpenRule, FirewallAnyPortOpenRule,
   FirewallLoggingDisabledRule, PubSubTopicCmekRule,
   PubSubTopicPublicAccessRule, BucketPublicAccessRule,
   BucketUniformAccessRule, BucketVersioningDisabledRule,
   BucketRetentionPolicyRule}
=============================================================================
