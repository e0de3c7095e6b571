----------------------------- MODULE AzureRules -----------------------------
(***************************************************************************)
(* The Azure rule pack, one definition per class of adapters/rules/azure,  *)
(* named for the class: the first-generation rules, which read the camel-  *)
(* case keys of Resource Graph, and the PolicyRule subclasses of           *)
(* RULE_REGISTRY. Those of the first modules (compute, finops, iam,        *)
(* keyvault, network) declare no resource type, so an engine asks them     *)
(* about everything.                                                       *)
(***************************************************************************)
EXTENDS Rules

\* azure/aks.py
AKSRBACDisabledRule ==
  Rule("AKS-001",
    {"Microsoft.ContainerService/managedClusters"}, "HIGH", "SECURITY", 3,
    {[enable_rbac |-> NotTrue]})

AKSPublicApiServerRule ==
  Rule("AKS-002",
    {"Microsoft.ContainerService/managedClusters"}, "HIGH", "SECURITY", 3,
    {[private_cluster |-> Falsy, authorized_ip_ranges |-> Falsy]})

AKSNetworkPolicyMissingRule ==
  Rule("AKS-003",
    {"Microsoft.ContainerService/managedClusters"}, "MEDIUM", "SECURITY", 3,
    {[network_policy |-> Not({"set"})]})

\* azure/appservice.py
AppServiceHttpsOnlyRule ==
  Rule("APP-001", {"Microsoft.Web/sites"}, "HIGH", "SECURITY", 4,
    {[https_only |-> NotTrue]})

AppServiceMinTlsRule ==
  Rule("APP-002", {"Microsoft.Web/sites"}, "HIGH", "SECURITY", 3,
    {[min_tls_version |-> Not({"1.2"})]})

AppServiceAuthDisabledRule ==
  Rule("APP-003", {"Microsoft.Web/sites"}, "MEDIUM", "SECURITY", 3,
    {[auth_enabled |-> Falsy, client_cert_enabled |-> Falsy]})

\* azure/compute.py
VMUnmanagedDisksRule ==
  Legacy("COMPUTE_UNMANAGED_DISKS", "MEDIUM", "SECURITY",
    {[storageProfile |-> {"vhd"}]})

VMNoEncryptionRule ==
  Legacy("COMPUTE_NO_ENCRYPTION", "HIGH", "SECURITY",
    {[encryptionAtHost |-> Falsy]})

OSDiskEncryptionRule ==
  Rule("VM-001", AnyType, "HIGH", "SECURITY", 5,
    {[os_disk_encryption_enabled |-> NotTrue]})

UnmanagedDiskRule ==
  Rule("VM-002", AnyType, "MEDIUM", "SECURITY", 4,
    {[uses_unmanaged_disk |-> {"true"}]})

NoBackupPolicyRule ==
  Rule("VM-003", AnyType, "MEDIUM", "SECURITY", 4,
    {[backup_policy_enabled |-> NotTrue]})

PublicIPDirectAttachedRule ==
  Rule("VM-004", AnyType, "HIGH", "SECURITY", 4,
    {[public_ip_directly_attached |-> {"true"}]})

OutdatedOSImageRule ==
  Rule("VM-005", AnyType, "MEDIUM", "SECURITY", 4,
    {[os_image |-> {"outdated"}]})

MissingCostTagsRule ==
  Rule("VM-006", AnyType, "LOW", "FINOPS", 0,
    {[tags |-> Not({"complete", "complete_dev"})]})

IdleVMRule ==
  Wasteful(Rule("VM-007", AnyType, "HIGH", "FINOPS", 0,
    {[avg_cpu_7d |-> {"under_5"}, cost_monthly |-> Priced]}), 100)

\* azure/finops.py
UnderutilizedVMRule ==
  Legacy("FINOPS_UNDERUTILIZED_VM", "MEDIUM", "FINOPS",
    {[avgCpuPercent |-> {"under_5"},
     cost_monthly |-> Priced]})

UnattachedDiskRule ==
  Legacy("FINOPS_UNATTACHED_DISK", "LOW", "FINOPS",
    {[diskState |-> {"Unattached"},
     cost_monthly |-> Priced]})

UnattachedManagedDiskRule ==
  Wasteful(Rule("FIN-001", AnyType, "MEDIUM", "FINOPS", 0,
    {[disk_state |-> {"Unattached"}, cost_monthly |-> Priced]}), 100)

UnassignedPublicIPRule ==
  FlatWaste(Rule("FIN-002", AnyType, "LOW", "FINOPS", 0,
    {[ip_association |-> {"missing", "none", "empty"}]}), 365)

EmptyLoadBalancerRule ==
  Wasteful(Rule("FIN-003", AnyType, "MEDIUM", "FINOPS", 0,
    {[backend_pool_count |-> {"missing", "zero"},
       cost_monthly |-> Priced]}), 100)

HotTierBlobNotAccessedRule ==
  Wasteful(Rule("FIN-004", AnyType, "LOW", "FINOPS", 0,
    {[access_tier |-> {"hot"}, days_since_last_access |-> {"long"},
       cost_monthly |-> Priced]}), 40)

OversizedVMRule ==
  Wasteful(Rule("FIN-005", AnyType, "HIGH", "FINOPS", 0,
    {[avg_cpu_7d |-> {"under_5", "under_20"}, avg_memory_7d |-> {"under_20"},
       cost_monthly |-> Priced]}), 50)

DevTestOutsideBusinessHoursRule ==
  Wasteful(Rule("FIN-006", AnyType, "MEDIUM", "FINOPS", 0,
    {[tags |-> {"dev", "complete_dev"}, auto_shutdown_enabled |-> Falsy,
       cost_monthly |-> Priced]}), 65)

AppGatewayLowUtilisationRule ==
  Wasteful(Rule("FIN-007", AnyType, "MEDIUM", "FINOPS", 0,
    {[capacity_utilisation_pct |-> {"low"}, cost_monthly |-> Priced]}), 70)

AKSNoAutoscalerRule ==
  Wasteful(Rule("FIN-008", AnyType, "MEDIUM", "FINOPS", 0,
    {[autoscaler_enabled |-> NotTrue, cost_monthly |-> Priced]}), 30)

\* azure/iam.py
OverprivilegedIdentityRule ==
  Legacy("IAM_OVERPRIVILEGED", "HIGH", "SECURITY",
    {[roleDefinitionName |-> {"Owner"},
     scope |-> {"missing", "empty", "subscription"}]})

OwnerRoleDirectUserRule ==
  Rule("IAM-001", AnyType, "CRITICAL", "SECURITY", 5,
    {[role |-> {"Owner"}, principal_type |-> {"User"}]})

OwnerRoleSubscriptionScopeRule ==
  Rule("IAM-002", AnyType, "CRITICAL", "SECURITY", 4,
    {[role |-> {"Owner"}, scope |-> {"subscription"}]})

SPOwnerMultipleSubscriptionsRule ==
  Rule("IAM-003", AnyType, "CRITICAL", "SECURITY", 4,
    {[role |-> {"Owner"}, principal_type |-> {"ServicePrincipal"},
       owner_subscription_count |-> {"many"}]})

GuestPrivilegedRoleRule ==
  Rule("IAM-004", AnyType, "HIGH", "SECURITY", 4,
    {[principal_type |-> {"Guest"}, role |-> Privileged]})

ClassicAdminRoleRule ==
  Rule("IAM-005", AnyType, "MEDIUM", "SECURITY", 4,
    {[is_classic_admin |-> {"true"}]})

NoMFAConditionalAccessRule ==
  Rule("IAM-006", AnyType, "HIGH", "SECURITY", 5,
    {[mfa_enforced |-> NotTrue]})

ExternalUserPrivilegedRoleRule ==
  Rule("IAM-007", AnyType, "HIGH", "SECURITY", 4,
    {[is_external_user |-> Truthy, role |-> {"Owner", "Contributor"}]})

SPPasswordExpiryRule ==
  Rule("IAM-008", AnyType, "MEDIUM", "SECURITY", 4,
    {[credential_expiry_days |-> {"missing", "none", "long"}]})

\* azure/keyvault.py
KeyVaultSoftDeleteRule ==
  Legacy("KEYVAULT_SOFT_DELETE", "HIGH", "SECURITY",
    {[enableSoftDelete |-> Falsy \ {"missing"}]})

KeyVaultPurgeProtectionRule ==
  Legacy("KEYVAULT_PURGE_PROTECTION", "MEDIUM", "SECURITY",
    {[enablePurgeProtection |-> Falsy]})

SoftDeleteRule ==
  Rule("KV-001", AnyType, "CRITICAL", "SECURITY", 4,
    {[soft_delete_enabled |-> NotTrue]})

PurgeProtectionRule ==
  Rule("KV-002", AnyType, "HIGH", "SECURITY", 4,
    {[purge_protection_enabled |-> NotTrue]})

PublicNetworkAccessRule ==
  Rule("KV-003", AnyType, "HIGH", "SECURITY", 5,
    {[public_network_access_enabled |-> {"true"}]})

NoDiagnosticLoggingRule ==
  Rule("KV-004", AnyType, "MEDIUM", "SECURITY", 5,
    {[diagnostic_logging_enabled |-> NotTrue]})

SecretNoExpiryRule ==
  Rule("KV-005", AnyType, "MEDIUM", "SECURITY", 4,
    {[secrets_without_expiry |-> {"some"}]})

\* azure/monitor.py
ActivityLogAlertsMissingRule ==
  Rule("MON-001",
    {"Microsoft.Insights/activityLogAlerts"}, "MEDIUM", "COMPLIANCE", 4,
    {[monitored_operations |-> Not({"all_required"})]})

LogProfileRetentionRule ==
  Rule("MON-002",
    {"Microsoft.Insights/logProfiles"}, "MEDIUM", "COMPLIANCE", 3,
    {[retention_days |-> {"short"}]})

\* azure/network.py
NSGOpenSSHRule ==
  Legacy("NSG_OPEN_SSH", "CRITICAL", "SECURITY",
    {[securityRules |-> {"ssh"}]})

NSGOpenRDPRule ==
  Legacy("NSG_OPEN_RDP", "CRITICAL", "SECURITY",
    {[securityRules |-> {"rdp"}]})

SSHOpenToInternetRule ==
  Rule("NET-001", AnyType, "CRITICAL", "SECURITY", 5,
    {[securityRules |-> {"ssh"}]})

RDPOpenToInternetRule ==
  Rule("NET-002", AnyType, "CRITICAL", "SECURITY", 4,
    {[securityRules |-> {"rdp"}]})

AnyPortOpenToInternetRule ==
  Rule("NET-003", AnyType, "HIGH", "SECURITY", 4,
    {[securityRules |-> {"any_port"}]})

NSGFlowLogsRule ==
  Rule("NET-004", AnyType, "MEDIUM", "SECURITY", 5,
    {[flow_logs_enabled |-> NotTrue]})

InboundAllowAllRule ==
  Rule("NET-005", AnyType, "CRITICAL", "SECURITY", 4,
    {[securityRules |-> {"any_port"}]})

DDoSProtectionRule ==
  Rule("NET-006", AnyType, "MEDIUM", "SECURITY", 4,
    {[internet_facing |-> Truthy, ddos_protection_enabled |-> NotTrue]})

\* azure/sql.py
SqlPublicNetworkAccessRule ==
  Rule("SQL-001", {"Microsoft.Sql/servers",
    "Microsoft.DBforPostgreSQL/flexibleServers",
    "Microsoft.DBforPostgreSQL/servers"}, "HIGH", "SECURITY", 4,
    {[public_network_access |-> {"enabled", "true"}]})

SqlMinTlsVersionRule ==
  Rule("SQL-002", {"Microsoft.Sql/servers",
    "Microsoft.DBforPostgreSQL/flexibleServers",
    "Microsoft.DBforPostgreSQL/servers"}, "HIGH", "SECURITY", 4,
    {[minimal_tls_version |-> Not({"1.2"})]})

SqlAuditingDisabledRule ==
  Rule("SQL-003", {"Microsoft.Sql/servers",
    "Microsoft.DBforPostgreSQL/flexibleServers"}, "MEDIUM", "COMPLIANCE", 4,
    {[auditing_state |-> Not({"enabled"})]})

\* azure/storage.py
StorageHttpsOnlyRule ==
  Legacy("STORAGE_HTTPS_ONLY", "HIGH", "SECURITY",
    {[supportsHttpsTrafficOnly |-> Falsy \ {"missing"}]})

StoragePublicAccessRule ==
  Legacy("STORAGE_PUBLIC_ACCESS", "CRITICAL", "SECURITY",
    {[allowBlobPublicAccess |-> Truthy]})

PublicBlobAccessRule ==
  Rule("STOR-001",
    {"Microsoft.Storage/storageAccounts"}, "CRITICAL", "SECURITY", 6,
    {[allow_blob_public_access |-> {"true"}]})

HttpTrafficAllowedRule ==
  Rule("STOR-002",
    {"Microsoft.Storage/storageAccounts"}, "HIGH", "SECURITY", 4,
    {[enable_https_traffic_only |-> {"false"}]})

MinTlsVersionRule ==
  Rule("STOR-003",
    {"Microsoft.Storage/storageAccounts"}, "HIGH", "SECURITY", 4,
    {[minimum_tls_version |-> {"TLS1_0"}]})

SharedKeyAuthRule ==
  Rule("STOR-004",
    {"Microsoft.Storage/storageAccounts"}, "MEDIUM", "SECURITY", 4,
    {[allow_shared_key_access |-> Not({"false"})]})

NetworkDefaultActionRule ==
  Rule("STOR-005",
    {"Microsoft.Storage/storageAccounts"}, "CRITICAL", "SECURITY", 5,
    {[network_default_action |-> Not({"Deny"})]})

BlobSoftDeleteRule ==
  Rule("STOR-006",
    {"Microsoft.Storage/storageAccounts"}, "MEDIUM", "SECURITY", 4,
    {[blob_soft_delete_enabled |-> NotTrue]})

BlobVersioningRule ==
  Rule("STOR-007", {"Microsoft.Storage/storageAccounts"}, "LOW", "SECURITY", 4,
    {[blob_versioning_enabled |-> NotTrue]})

InfrastructureEncryptionRule ==
  Rule("STOR-008",
    {"Microsoft.Storage/storageAccounts"}, "MEDIUM", "SECURITY", 3,
    {[infrastructure_encryption_enabled |-> NotTrue]})

DiagnosticLoggingRule ==
  Rule("STOR-009",
    {"Microsoft.Storage/storageAccounts"}, "MEDIUM", "SECURITY", 5,
    {[diagnostic_logging_enabled |-> NotTrue]})

LifecycleManagementRule ==
  Wasteful(Rule("STOR-010",
    {"Microsoft.Storage/storageAccounts"}, "LOW", "FINOPS", 0,
    {[lifecycle_policy_exists |-> NotTrue,
       cost_monthly |-> {"high", "huge"}]}), 35)

-----------------------------------------------------------------------------
RULE_REGISTRY ==
  {OSDiskEncryptionRule, UnmanagedDiskRule, NoBackupPolicyRule,
   PublicIPDirectAttachedRule, OutdatedOSImageRule, MissingCostTagsRule,
   IdleVMRule, UnattachedManagedDiskRule, UnassignedPublicIPRule,
   EmptyLoadBalancerRule, HotTierBlobNotAccessedRule, OversizedVMRule,
   DevTestOutsideBusinessHoursRule, AppGatewayLowUtilisationRule,
   AKSNoAutoscalerRule, OwnerRoleDirectUserRule,
   OwnerRoleSubscriptionScopeRule, SPOwnerMultipleSubscriptionsRule,
   GuestPrivilegedRoleRule, ClassicAdminRoleRule, NoMFAConditionalAccessRule,
   ExternalUserPrivilegedRoleRule, SPPasswordExpiryRule, SoftDeleteRule,
   PurgeProtectionRule, PublicNetworkAccessRule, NoDiagnosticLoggingRule,
   SecretNoExpiryRule, SSHOpenToInternetRule, RDPOpenToInternetRule,
   AnyPortOpenToInternetRule, InboundAllowAllRule, NSGFlowLogsRule,
   DDoSProtectionRule, PublicBlobAccessRule, HttpTrafficAllowedRule,
   MinTlsVersionRule, SharedKeyAuthRule, NetworkDefaultActionRule,
   BlobSoftDeleteRule, BlobVersioningRule, InfrastructureEncryptionRule,
   DiagnosticLoggingRule, LifecycleManagementRule,
   ActivityLogAlertsMissingRule, LogProfileRetentionRule,
   SqlPublicNetworkAccessRule, SqlMinTlsVersionRule, SqlAuditingDisabledRule,
   AppServiceHttpsOnlyRule, AppServiceMinTlsRule, AppServiceAuthDisabledRule,
   AKSRBACDisabledRule, AKSPublicApiServerRule, AKSNetworkPolicyMissingRule}

\* The rules _build_scanner adds for POST /scan; OverprivilegedIdentityRule is
\* registered by nobody.
ScannerRules ==
  {VMUnmanagedDisksRule, VMNoEncryptionRule, UnderutilizedVMRule,
   UnattachedDiskRule, KeyVaultSoftDeleteRule, KeyVaultPurgeProtectionRule,
   NSGOpenSSHRule, NSGOpenRDPRule, StorageHttpsOnlyRule,
   StoragePublicAccessRule}
=============================================================================
