-------------------------- MODULE ScanRoundsProofs --------------------------
(***************************************************************************)
(* Proofs about ScanRounds: the properties its run checks, but for the     *)
(* posture score, a sum over the rule pack which TLC evaluates.            *)
(*                                                                         *)
(* Four things about the packs carry the proofs.  No two discovered rules  *)
(* share an id, so that a row says which rule wrote it (the sheets).  The  *)
(* rule of every row of Meaning tells of the live resource what the row    *)
(* says, whichever reads failed (the row lemmas, one per resource type:    *)
(* what the rule fires on, what the collector put there, what the owner    *)
(* set).  A CRITICAL rule has frameworks enough and the others waste       *)
(* little enough for it to rank first (Ranked).  And until something       *)
(* changes the rows show what the last scan evaluated (the inductive       *)
(* invariant).                                                             *)
(***************************************************************************)
EXTENDS ScanRounds, TLAPS

-----------------------------------------------------------------------------
(* The rule sheets.                                                        *)

IdOf(rule) == rule.id

Plain(rule)  == rule.legacy = FALSE
Routed(rule) == rule.legacy = FALSE /\ rule.types # {}

\* The ids the Azure registry's rules have; none of them is of the first
\* generation.
LEMMA AzureSheet ==
  /\ IdOf(Azure!OSDiskEncryptionRule) = "VM-001"
  /\ Plain(Azure!OSDiskEncryptionRule)
  /\ IdOf(Azure!UnmanagedDiskRule) = "VM-002" /\ Plain(Azure!UnmanagedDiskRule)
  /\ IdOf(Azure!NoBackupPolicyRule) = "VM-003"
  /\ Plain(Azure!NoBackupPolicyRule)
  /\ IdOf(Azure!PublicIPDirectAttachedRule) = "VM-004"
  /\ Plain(Azure!PublicIPDirectAttachedRule)
  /\ IdOf(Azure!OutdatedOSImageRule) = "VM-005"
  /\ Plain(Azure!OutdatedOSImageRule)
  /\ IdOf(Azure!MissingCostTagsRule) = "VM-006"
  /\ Plain(Azure!MissingCostTagsRule)
  /\ IdOf(Azure!IdleVMRule) = "VM-007" /\ Plain(Azure!IdleVMRule)
  /\ IdOf(Azure!UnattachedManagedDiskRule) = "FIN-001"
  /\ Plain(Azure!UnattachedManagedDiskRule)
  /\ IdOf(Azure!UnassignedPublicIPRule) = "FIN-002"
  /\ Plain(Azure!UnassignedPublicIPRule)
  /\ IdOf(Azure!EmptyLoadBalancerRule) = "FIN-003"
  /\ Plain(Azure!EmptyLoadBalancerRule)
  /\ IdOf(Azure!HotTierBlobNotAccessedRule) = "FIN-004"
  /\ Plain(Azure!HotTierBlobNotAccessedRule)
  /\ IdOf(Azure!OversizedVMRule) = "FIN-005" /\ Plain(Azure!OversizedVMRule)
  /\ IdOf(Azure!DevTestOutsideBusinessHoursRule) = "FIN-006"
  /\ Plain(Azure!DevTestOutsideBusinessHoursRule)
  /\ IdOf(Azure!AppGatewayLowUtilisationRule) = "FIN-007"
  /\ Plain(Azure!AppGatewayLowUtilisationRule)
  /\ IdOf(Azure!AKSNoAutoscalerRule) = "FIN-008"
  /\ Plain(Azure!AKSNoAutoscalerRule)
  /\ IdOf(Azure!OwnerRoleDirectUserRule) = "IAM-001"
  /\ Plain(Azure!OwnerRoleDirectUserRule)
  /\ IdOf(Azure!OwnerRoleSubscriptionScopeRule) = "IAM-002"
  /\ Plain(Azure!OwnerRoleSubscriptionScopeRule)
  /\ IdOf(Azure!SPOwnerMultipleSubscriptionsRule) = "IAM-003"
  /\ Plain(Azure!SPOwnerMultipleSubscriptionsRule)
  /\ IdOf(Azure!GuestPrivilegedRoleRule) = "IAM-004"
  /\ Plain(Azure!GuestPrivilegedRoleRule)
  /\ IdOf(Azure!ClassicAdminRoleRule) = "IAM-005"
  /\ Plain(Azure!ClassicAdminRoleRule)
  /\ IdOf(Azure!NoMFAConditionalAccessRule) = "IAM-006"
  /\ Plain(Azure!NoMFAConditionalAccessRule)
  /\ IdOf(Azure!ExternalUserPrivilegedRoleRule) = "IAM-007"
  /\ Plain(Azure!ExternalUserPrivilegedRoleRule)
  /\ IdOf(Azure!SPPasswordExpiryRule) = "IAM-008"
  /\ Plain(Azure!SPPasswordExpiryRule)
  /\ IdOf(Azure!SoftDeleteRule) = "KV-001" /\ Plain(Azure!SoftDeleteRule)
  /\ IdOf(Azure!PurgeProtectionRule) = "KV-002"
  /\ Plain(Azure!PurgeProtectionRule)
  /\ IdOf(Azure!PublicNetworkAccessRule) = "KV-003"
  /\ Plain(Azure!PublicNetworkAccessRule)
  /\ IdOf(Azure!NoDiagnosticLoggingRule) = "KV-004"
  /\ Plain(Azure!NoDiagnosticLoggingRule)
  /\ IdOf(Azure!SecretNoExpiryRule) = "KV-005"
  /\ Plain(Azure!SecretNoExpiryRule)
  /\ IdOf(Azure!SSHOpenToInternetRule) = "NET-001"
  /\ Plain(Azure!SSHOpenToInternetRule)
  /\ IdOf(Azure!RDPOpenToInternetRule) = "NET-002"
  /\ Plain(Azure!RDPOpenToInternetRule)
  /\ IdOf(Azure!AnyPortOpenToInternetRule) = "NET-003"
  /\ Plain(Azure!AnyPortOpenToInternetRule)
  /\ IdOf(Azure!InboundAllowAllRule) = "NET-005"
  /\ Plain(Azure!InboundAllowAllRule)
  /\ IdOf(Azure!NSGFlowLogsRule) = "NET-004" /\ Plain(Azure!NSGFlowLogsRule)
  /\ IdOf(Azure!DDoSProtectionRule) = "NET-006"
  /\ Plain(Azure!DDoSProtectionRule)
  /\ IdOf(Azure!PublicBlobAccessRule) = "STOR-001"
  /\ Plain(Azure!PublicBlobAccessRule)
  /\ IdOf(Azure!HttpTrafficAllowedRule) = "STOR-002"
  /\ Plain(Azure!HttpTrafficAllowedRule)
  /\ IdOf(Azure!MinTlsVersionRule) = "STOR-003"
  /\ Plain(Azure!MinTlsVersionRule)
  /\ IdOf(Azure!SharedKeyAuthRule) = "STOR-004"
  /\ Plain(Azure!SharedKeyAuthRule)
  /\ IdOf(Azure!NetworkDefaultActionRule) = "STOR-005"
  /\ Plain(Azure!NetworkDefaultActionRule)
  /\ IdOf(Azure!BlobSoftDeleteRule) = "STOR-006"
  /\ Plain(Azure!BlobSoftDeleteRule)
  /\ IdOf(Azure!BlobVersioningRule) = "STOR-007"
  /\ Plain(Azure!BlobVersioningRule)
  /\ IdOf(Azure!InfrastructureEncryptionRule) = "STOR-008"
  /\ Plain(Azure!InfrastructureEncryptionRule)
  /\ IdOf(Azure!DiagnosticLoggingRule) = "STOR-009"
  /\ Plain(Azure!DiagnosticLoggingRule)
  /\ IdOf(Azure!LifecycleManagementRule) = "STOR-010"
  /\ Plain(Azure!LifecycleManagementRule)
  /\ IdOf(Azure!ActivityLogAlertsMissingRule) = "MON-001"
  /\ Plain(Azure!ActivityLogAlertsMissingRule)
  /\ IdOf(Azure!LogProfileRetentionRule) = "MON-002"
  /\ Plain(Azure!LogProfileRetentionRule)
  /\ IdOf(Azure!SqlPublicNetworkAccessRule) = "SQL-001"
  /\ Plain(Azure!SqlPublicNetworkAccessRule)
  /\ IdOf(Azure!SqlMinTlsVersionRule) = "SQL-002"
  /\ Plain(Azure!SqlMinTlsVersionRule)
  /\ IdOf(Azure!SqlAuditingDisabledRule) = "SQL-003"
  /\ Plain(Azure!SqlAuditingDisabledRule)
  /\ IdOf(Azure!AppServiceHttpsOnlyRule) = "APP-001"
  /\ Plain(Azure!AppServiceHttpsOnlyRule)
  /\ IdOf(Azure!AppServiceMinTlsRule) = "APP-002"
  /\ Plain(Azure!AppServiceMinTlsRule)
  /\ IdOf(Azure!AppServiceAuthDisabledRule) = "APP-003"
  /\ Plain(Azure!AppServiceAuthDisabledRule)
  /\ IdOf(Azure!AKSRBACDisabledRule) = "AKS-001"
  /\ Plain(Azure!AKSRBACDisabledRule)
  /\ IdOf(Azure!AKSPublicApiServerRule) = "AKS-002"
  /\ Plain(Azure!AKSPublicApiServerRule)
  /\ IdOf(Azure!AKSNetworkPolicyMissingRule) = "AKS-003"
  /\ Plain(Azure!AKSNetworkPolicyMissingRule)
BY DEF IdOf, Plain, Azure!Rule, Azure!Wasteful, Azure!FlatWaste,
    Azure!OSDiskEncryptionRule, Azure!UnmanagedDiskRule,
    Azure!NoBackupPolicyRule, Azure!PublicIPDirectAttachedRule,
    Azure!OutdatedOSImageRule, Azure!MissingCostTagsRule, Azure!IdleVMRule,
    Azure!UnattachedManagedDiskRule, Azure!UnassignedPublicIPRule,
    Azure!EmptyLoadBalancerRule, Azure!HotTierBlobNotAccessedRule,
    Azure!OversizedVMRule, Azure!DevTestOutsideBusinessHoursRule,
    Azure!AppGatewayLowUtilisationRule, Azure!AKSNoAutoscalerRule,
    Azure!OwnerRoleDirectUserRule, Azure!OwnerRoleSubscriptionScopeRule,
    Azure!SPOwnerMultipleSubscriptionsRule, Azure!GuestPrivilegedRoleRule,
    Azure!ClassicAdminRoleRule, Azure!NoMFAConditionalAccessRule,
    Azure!ExternalUserPrivilegedRoleRule, Azure!SPPasswordExpiryRule,
    Azure!SoftDeleteRule, Azure!PurgeProtectionRule,
    Azure!PublicNetworkAccessRule, Azure!NoDiagnosticLoggingRule,
    Azure!SecretNoExpiryRule, Azure!SSHOpenToInternetRule,
    Azure!RDPOpenToInternetRule, Azure!AnyPortOpenToInternetRule,
    Azure!InboundAllowAllRule, Azure!NSGFlowLogsRule,
    Azure!DDoSProtectionRule, Azure!PublicBlobAccessRule,
    Azure!HttpTrafficAllowedRule, Azure!MinTlsVersionRule,
    Azure!SharedKeyAuthRule, Azure!NetworkDefaultActionRule,
    Azure!BlobSoftDeleteRule, Azure!BlobVersioningRule,
    Azure!InfrastructureEncryptionRule, Azure!DiagnosticLoggingRule,
    Azure!LifecycleManagementRule, Azure!ActivityLogAlertsMissingRule,
    Azure!LogProfileRetentionRule, Azure!SqlPublicNetworkAccessRule,
    Azure!SqlMinTlsVersionRule, Azure!SqlAuditingDisabledRule,
    Azure!AppServiceHttpsOnlyRule, Azure!AppServiceMinTlsRule,
    Azure!AppServiceAuthDisabledRule, Azure!AKSRBACDisabledRule,
    Azure!AKSPublicApiServerRule, Azure!AKSNetworkPolicyMissingRule

\* Those of the AWS pack, each of which names resource types.
LEMMA AwsSheet ==
  /\ IdOf(Aws!ApiGatewayLoggingDisabledRule) = "AWS-APIGW-001"
  /\ Routed(Aws!ApiGatewayLoggingDisabledRule)
  /\ IdOf(Aws!ApiGatewayNoWafRule) = "AWS-APIGW-002"
  /\ Routed(Aws!ApiGatewayNoWafRule)
  /\ IdOf(Aws!CloudTrailMultiRegionRule) = "AWS-CT-001"
  /\ Routed(Aws!CloudTrailMultiRegionRule)
  /\ IdOf(Aws!CloudTrailNotLoggingRule) = "AWS-CT-002"
  /\ Routed(Aws!CloudTrailNotLoggingRule)
  /\ IdOf(Aws!CloudTrailLogFileValidationRule) = "AWS-CT-003"
  /\ Routed(Aws!CloudTrailLogFileValidationRule)
  /\ IdOf(Aws!LogGroupRetentionRule) = "AWS-CWL-001"
  /\ Routed(Aws!LogGroupRetentionRule)
  /\ IdOf(Aws!LogGroupKmsKeyRule) = "AWS-CWL-002"
  /\ Routed(Aws!LogGroupKmsKeyRule)
  /\ IdOf(Aws!DynamoDbCmekEncryptionRule) = "AWS-DDB-001"
  /\ Routed(Aws!DynamoDbCmekEncryptionRule)
  /\ IdOf(Aws!DynamoDbPitrDisabledRule) = "AWS-DDB-002"
  /\ Routed(Aws!DynamoDbPitrDisabledRule)
  /\ IdOf(Aws!EbsEncryptionRule) = "AWS-EC2-001"
  /\ Routed(Aws!EbsEncryptionRule)
  /\ IdOf(Aws!InstancePublicIpRule) = "AWS-EC2-002"
  /\ Routed(Aws!InstancePublicIpRule)
  /\ IdOf(Aws!UnattachedEbsVolumeRule) = "AWS-EC2-003"
  /\ Routed(Aws!UnattachedEbsVolumeRule)
  /\ IdOf(Aws!EcrScanOnPushRule) = "AWS-ECR-001"
  /\ Routed(Aws!EcrScanOnPushRule)
  /\ IdOf(Aws!EcrTagImmutabilityRule) = "AWS-ECR-002"
  /\ Routed(Aws!EcrTagImmutabilityRule)
  /\ IdOf(Aws!EksPublicEndpointRule) = "AWS-EKS-001"
  /\ Routed(Aws!EksPublicEndpointRule)
  /\ IdOf(Aws!EksControlPlaneLoggingRule) = "AWS-EKS-002"
  /\ Routed(Aws!EksControlPlaneLoggingRule)
  /\ IdOf(Aws!EksSecretsEncryptionRule) = "AWS-EKS-003"
  /\ Routed(Aws!EksSecretsEncryptionRule)
  /\ IdOf(Aws!ElastiCacheAtRestEncryptionRule) = "AWS-EC-001"
  /\ Routed(Aws!ElastiCacheAtRestEncryptionRule)
  /\ IdOf(Aws!ElastiCacheTransitEncryptionRule) = "AWS-EC-002"
  /\ Routed(Aws!ElastiCacheTransitEncryptionRule)
  /\ IdOf(Aws!ElbHttpListenerRule) = "AWS-ELB-001"
  /\ Routed(Aws!ElbHttpListenerRule)
  /\ IdOf(Aws!ElbAccessLogsDisabledRule) = "AWS-ELB-002"
  /\ Routed(Aws!ElbAccessLogsDisabledRule)
  /\ IdOf(Aws!ElbDeletionProtectionRule) = "AWS-ELB-003"
  /\ Routed(Aws!ElbDeletionProtectionRule)
  /\ IdOf(Aws!UnattachedEipRule) = "AWS-FINOPS-001"
  /\ Routed(Aws!UnattachedEipRule)
  /\ IdOf(Aws!ConfigRecorderDisabledRule) = "AWS-CFG-001"
  /\ Routed(Aws!ConfigRecorderDisabledRule)
  /\ IdOf(Aws!IamPasswordPolicyWeakRule) = "AWS-IAM-003"
  /\ Routed(Aws!IamPasswordPolicyWeakRule)
  /\ IdOf(Aws!IamAccessKeyAgeRule) = "AWS-IAM-004"
  /\ Routed(Aws!IamAccessKeyAgeRule)
  /\ IdOf(Aws!S3VersioningDisabledRule) = "AWS-S3-004"
  /\ Routed(Aws!S3VersioningDisabledRule)
  /\ IdOf(Aws!S3LoggingDisabledRule) = "AWS-S3-005"
  /\ Routed(Aws!S3LoggingDisabledRule)
  /\ IdOf(Aws!RootAccessKeysRule) = "AWS-IAM-001"
  /\ Routed(Aws!RootAccessKeysRule)
  /\ IdOf(Aws!IamUserNoMfaRule) = "AWS-IAM-002" /\ Routed(Aws!IamUserNoMfaRule)
  /\ IdOf(Aws!KmsKeyRotationRule) = "AWS-KMS-001"
  /\ Routed(Aws!KmsKeyRotationRule)
  /\ IdOf(Aws!LambdaEnvVarKmsKeyRule) = "AWS-LAM-001"
  /\ Routed(Aws!LambdaEnvVarKmsKeyRule)
  /\ IdOf(Aws!LambdaPublicFunctionUrlRule) = "AWS-LAM-002"
  /\ Routed(Aws!LambdaPublicFunctionUrlRule)
  /\ IdOf(Aws!LambdaOutdatedRuntimeRule) = "AWS-LAM-003"
  /\ Routed(Aws!LambdaOutdatedRuntimeRule)
  /\ IdOf(Aws!SnsTopicEncryptionRule) = "AWS-SNS-001"
  /\ Routed(Aws!SnsTopicEncryptionRule)
  /\ IdOf(Aws!SnsTopicPublicAccessRule) = "AWS-SNS-002"
  /\ Routed(Aws!SnsTopicPublicAccessRule)
  /\ IdOf(Aws!SqsQueueEncryptionRule) = "AWS-SQS-001"
  /\ Routed(Aws!SqsQueueEncryptionRule)
  /\ IdOf(Aws!SqsQueuePublicAccessRule) = "AWS-SQS-002"
  /\ Routed(Aws!SqsQueuePublicAccessRule)
  /\ IdOf(Aws!RdsStorageEncryptionRule) = "AWS-RDS-001"
  /\ Routed(Aws!RdsStorageEncryptionRule)
  /\ IdOf(Aws!RdsPubliclyAccessibleRule) = "AWS-RDS-002"
  /\ Routed(Aws!RdsPubliclyAccessibleRule)
  /\ IdOf(Aws!RdsBackupRetentionRule) = "AWS-RDS-003"
  /\ Routed(Aws!RdsBackupRetentionRule)
  /\ IdOf(Aws!S3PublicAclRule) = "AWS-S3-001" /\ Routed(Aws!S3PublicAclRule)
  /\ IdOf(Aws!S3PublicAccessBlockRule) = "AWS-S3-002"
  /\ Routed(Aws!S3PublicAccessBlockRule)
  /\ IdOf(Aws!S3BucketEncryptionRule) = "AWS-S3-003"
  /\ Routed(Aws!S3BucketEncryptionRule)
  /\ IdOf(Aws!SecretRotationDisabledRule) = "AWS-SM-001"
  /\ Routed(Aws!SecretRotationDisabledRule)
  /\ IdOf(Aws!AcmCertificateExpiringRule) = "AWS-ACM-001"
  /\ Routed(Aws!AcmCertificateExpiringRule)
  /\ IdOf(Aws!SSHOpenToInternetRule) = "AWS-SG-001"
  /\ Routed(Aws!SSHOpenToInternetRule)
  /\ IdOf(Aws!RDPOpenToInternetRule) = "AWS-SG-002"
  /\ Routed(Aws!RDPOpenToInternetRule)
  /\ IdOf(Aws!VpcFlowLogsDisabledRule) = "AWS-VPC-001"
  /\ Routed(Aws!VpcFlowLogsDisabledRule)
  /\ IdOf(Aws!DefaultSecurityGroupOpenRule) = "AWS-VPC-002"
  /\ Routed(Aws!DefaultSecurityGroupOpenRule)
BY DEF IdOf, Routed, Aws!Rule, Aws!Wasteful,
    Aws!ApiGatewayLoggingDisabledRule, Aws!ApiGatewayNoWafRule,
    Aws!CloudTrailMultiRegionRule, Aws!CloudTrailNotLoggingRule,
    Aws!CloudTrailLogFileValidationRule, Aws!LogGroupRetentionRule,
    Aws!LogGroupKmsKeyRule, Aws!DynamoDbCmekEncryptionRule,
    Aws!DynamoDbPitrDisabledRule, Aws!EbsEncryptionRule,
    Aws!InstancePublicIpRule, Aws!UnattachedEbsVolumeRule,
    Aws!EcrScanOnPushRule, Aws!EcrTagImmutabilityRule,
    Aws!EksPublicEndpointRule, Aws!EksControlPlaneLoggingRule,
    Aws!EksSecretsEncryptionRule, Aws!ElastiCacheAtRestEncryptionRule,
    Aws!ElastiCacheTransitEncryptionRule, Aws!ElbHttpListenerRule,
    Aws!ElbAccessLogsDisabledRule, Aws!ElbDeletionProtectionRule,
    Aws!UnattachedEipRule, Aws!ConfigRecorderDisabledRule,
    Aws!IamPasswordPolicyWeakRule, Aws!IamAccessKeyAgeRule,
    Aws!S3VersioningDisabledRule, Aws!S3LoggingDisabledRule,
    Aws!RootAccessKeysRule, Aws!IamUserNoMfaRule, Aws!KmsKeyRotationRule,
    Aws!LambdaEnvVarKmsKeyRule, Aws!LambdaPublicFunctionUrlRule,
    Aws!LambdaOutdatedRuntimeRule, Aws!SnsTopicEncryptionRule,
    Aws!SnsTopicPublicAccessRule, Aws!SqsQueueEncryptionRule,
    Aws!SqsQueuePublicAccessRule, Aws!RdsStorageEncryptionRule,
    Aws!RdsPubliclyAccessibleRule, Aws!RdsBackupRetentionRule,
    Aws!S3PublicAclRule, Aws!S3PublicAccessBlockRule,
    Aws!S3BucketEncryptionRule, Aws!SecretRotationDisabledRule,
    Aws!AcmCertificateExpiringRule, Aws!SSHOpenToInternetRule,
    Aws!RDPOpenToInternetRule, Aws!VpcFlowLogsDisabledRule,
    Aws!DefaultSecurityGroupOpenRule

\* And of the GCP pack.
LEMMA GcpSheet ==
  /\ IdOf(Gcp!BigQueryDatasetPublicAccessRule) = "GCP-BQ-001"
  /\ Routed(Gcp!BigQueryDatasetPublicAccessRule)
  /\ IdOf(Gcp!BigQueryDatasetCmekRule) = "GCP-BQ-002"
  /\ Routed(Gcp!BigQueryDatasetCmekRule)
  /\ IdOf(Gcp!CloudFunctionIngressRule) = "GCP-CF-001"
  /\ Routed(Gcp!CloudFunctionIngressRule)
  /\ IdOf(Gcp!CloudFunctionPublicInvokerRule) = "GCP-CF-002"
  /\ Routed(Gcp!CloudFunctionPublicInvokerRule)
  /\ IdOf(Gcp!CloudRunIngressRule) = "GCP-CR-001"
  /\ Routed(Gcp!CloudRunIngressRule)
  /\ IdOf(Gcp!CloudRunPublicInvokerRule) = "GCP-CR-002"
  /\ Routed(Gcp!CloudRunPublicInvokerRule)
  /\ IdOf(Gcp!CloudSqlPublicIpRule) = "GCP-SQL-001"
  /\ Routed(Gcp!CloudSqlPublicIpRule)
  /\ IdOf(Gcp!CloudSqlBackupDisabledRule) = "GCP-SQL-002"
  /\ Routed(Gcp!CloudSqlBackupDisabledRule)
  /\ IdOf(Gcp!CloudSqlRequireSslRule) = "GCP-SQL-003"
  /\ Routed(Gcp!CloudSqlRequireSslRule)
  /\ IdOf(Gcp!InstancePublicIpRule) = "GCP-CE-001"
  /\ Routed(Gcp!InstancePublicIpRule)
  /\ IdOf(Gcp!DiskCmekEncryptionRule) = "GCP-CE-002"
  /\ Routed(Gcp!DiskCmekEncryptionRule)
  /\ IdOf(Gcp!UnattachedDiskRule) = "GCP-CE-003"
  /\ Routed(Gcp!UnattachedDiskRule)
  /\ IdOf(Gcp!InstanceShieldedVmRule) = "GCP-CE-004"
  /\ Routed(Gcp!InstanceShieldedVmRule)
  /\ IdOf(Gcp!InstanceOsLoginDisabledRule) = "GCP-CE-005"
  /\ Routed(Gcp!InstanceOsLoginDisabledRule)
  /\ IdOf(Gcp!InstanceDefaultServiceAccountRule) = "GCP-CE-006"
  /\ Routed(Gcp!InstanceDefaultServiceAccountRule)
  /\ IdOf(Gcp!SpannerCmekRule) = "GCP-SPN-001" /\ Routed(Gcp!SpannerCmekRule)
  /\ IdOf(Gcp!MemorystoreAuthDisabledRule) = "GCP-MEM-001"
  /\ Routed(Gcp!MemorystoreAuthDisabledRule)
  /\ IdOf(Gcp!MemorystoreTransitEncryptionRule) = "GCP-MEM-002"
  /\ Routed(Gcp!MemorystoreTransitEncryptionRule)
  /\ IdOf(Gcp!BigQueryTablePartitionExpiryRule) = "GCP-BQ-003"
  /\ Routed(Gcp!BigQueryTablePartitionExpiryRule)
  /\ IdOf(Gcp!DnsDnssecDisabledRule) = "GCP-DNS-001"
  /\ Routed(Gcp!DnsDnssecDisabledRule)
  /\ IdOf(Gcp!SecretManagerCmekRule) = "GCP-SEC-001"
  /\ Routed(Gcp!SecretManagerCmekRule)
  /\ IdOf(Gcp!ArtifactRegistryCmekRule) = "GCP-AR-001"
  /\ Routed(Gcp!ArtifactRegistryCmekRule)
  /\ IdOf(Gcp!ArtifactRegistryPublicAccessRule) = "GCP-AR-002"
  /\ Routed(Gcp!ArtifactRegistryPublicAccessRule)
  /\ IdOf(Gcp!GkePrivateClusterRule) = "GCP-GKE-001"
  /\ Routed(Gcp!GkePrivateClusterRule)
  /\ IdOf(Gcp!GkeLoggingDisabledRule) = "GCP-GKE-002"
  /\ Routed(Gcp!GkeLoggingDisabledRule)
  /\ IdOf(Gcp!GkeNetworkPolicyRule) = "GCP-GKE-003"
  /\ Routed(Gcp!GkeNetworkPolicyRule)
  /\ IdOf(Gcp!GkeWorkloadIdentityRule) = "GCP-GKE-004"
  /\ Routed(Gcp!GkeWorkloadIdentityRule)
  /\ IdOf(Gcp!GkeAutoUpgradeDisabledRule) = "GCP-GKE-005"
  /\ Routed(Gcp!GkeAutoUpgradeDisabledRule)
  /\ IdOf(Gcp!GkeBinaryAuthorizationRule) = "GCP-GKE-006"
  /\ Routed(Gcp!GkeBinaryAuthorizationRule)
  /\ IdOf(Gcp!ServiceAccountUserManagedKeyRule) = "GCP-IAM-001"
  /\ Routed(Gcp!ServiceAccountUserManagedKeyRule)
  /\ IdOf(Gcp!IamPrimitiveRoleRule) = "GCP-IAM-002"
  /\ Routed(Gcp!IamPrimitiveRoleRule)
  /\ IdOf(Gcp!IamPublicMemberRule) = "GCP-IAM-003"
  /\ Routed(Gcp!IamPublicMemberRule)
  /\ IdOf(Gcp!ServiceAccountKeyAgeRule) = "GCP-IAM-004"
  /\ Routed(Gcp!ServiceAccountKeyAgeRule)
  /\ IdOf(Gcp!KmsKeyRotationRule) = "GCP-KMS-001"
  /\ Routed(Gcp!KmsKeyRotationRule)
  /\ IdOf(Gcp!KmsKeyPublicAccessRule) = "GCP-KMS-002"
  /\ Routed(Gcp!KmsKeyPublicAccessRule)
  /\ IdOf(Gcp!LoggingSinkMissingRule) = "GCP-LOG-001"
  /\ Routed(Gcp!LoggingSinkMissingRule)
  /\ IdOf(Gcp!LoggingRetentionRule) = "GCP-LOG-002"
  /\ Routed(Gcp!LoggingRetentionRule)
  /\ IdOf(Gcp!FirewallSshOpenRule) = "GCP-NET-001"
  /\ Routed(Gcp!FirewallSshOpenRule)
  /\ IdOf(Gcp!FirewallRdpOpenRule) = "GCP-NET-002"
  /\ Routed(Gcp!FirewallRdpOpenRule)
  /\ IdOf(Gcp!FirewallAnyPortOpenRule) = "GCP-NET-003"
  /\ Routed(Gcp!FirewallAnyPortOpenRule)
  /\ IdOf(Gcp!FirewallLoggingDisabledRule) = "GCP-NET-004"
  /\ Routed(Gcp!FirewallLoggingDisabledRule)
  /\ IdOf(Gcp!PubSubTopicCmekRule) = "GCP-PS-001"
  /\ Routed(Gcp!PubSubTopicCmekRule)
  /\ IdOf(Gcp!PubSubTopicPublicAccessRule) = "GCP-PS-002"
  /\ Routed(Gcp!PubSubTopicPublicAccessRule)
  /\ IdOf(Gcp!BucketPublicAccessRule) = "GCP-GCS-001"
  /\ Routed(Gcp!BucketPublicAccessRule)
  /\ IdOf(Gcp!BucketUniformAccessRule) = "GCP-GCS-002"
  /\ Routed(Gcp!BucketUniformAccessRule)
  /\ IdOf(Gcp!BucketVersioningDisabledRule) = "GCP-GCS-003"
  /\ Routed(Gcp!BucketVersioningDisabledRule)
  /\ IdOf(Gcp!BucketRetentionPolicyRule) = "GCP-GCS-004"
  /\ Routed(Gcp!BucketRetentionPolicyRule)
BY DEF IdOf, Routed, Gcp!Rule, Gcp!Wasteful, Gcp!Raising,
    Gcp!BigQueryDatasetPublicAccessRule, Gcp!BigQueryDatasetCmekRule,
    Gcp!CloudFunctionIngressRule, Gcp!CloudFunctionPublicInvokerRule,
    Gcp!CloudRunIngressRule, Gcp!CloudRunPublicInvokerRule,
    Gcp!CloudSqlPublicIpRule, Gcp!CloudSqlBackupDisabledRule,
    Gcp!CloudSqlRequireSslRule, Gcp!InstancePublicIpRule,
    Gcp!DiskCmekEncryptionRule, Gcp!UnattachedDiskRule,
    Gcp!InstanceShieldedVmRule, Gcp!InstanceOsLoginDisabledRule,
    Gcp!InstanceDefaultServiceAccountRule, Gcp!SpannerCmekRule,
    Gcp!MemorystoreAuthDisabledRule, Gcp!MemorystoreTransitEncryptionRule,
    Gcp!BigQueryTablePartitionExpiryRule, Gcp!DnsDnssecDisabledRule,
    Gcp!SecretManagerCmekRule, Gcp!ArtifactRegistryCmekRule,
    Gcp!ArtifactRegistryPublicAccessRule, Gcp!GkePrivateClusterRule,
    Gcp!GkeLoggingDisabledRule, Gcp!GkeNetworkPolicyRule,
    Gcp!GkeWorkloadIdentityRule, Gcp!GkeAutoUpgradeDisabledRule,
    Gcp!GkeBinaryAuthorizationRule, Gcp!ServiceAccountUserManagedKeyRule,
    Gcp!IamPrimitiveRoleRule, Gcp!IamPublicMemberRule,
    Gcp!ServiceAccountKeyAgeRule, Gcp!KmsKeyRotationRule,
    Gcp!KmsKeyPublicAccessRule, Gcp!LoggingSinkMissingRule,
    Gcp!LoggingRetentionRule, Gcp!FirewallSshOpenRule,
    Gcp!FirewallRdpOpenRule, Gcp!FirewallAnyPortOpenRule,
    Gcp!FirewallLoggingDisabledRule, Gcp!PubSubTopicCmekRule,
    Gcp!PubSubTopicPublicAccessRule, Gcp!BucketPublicAccessRule,
    Gcp!BucketUniformAccessRule, Gcp!BucketVersioningDisabledRule,
    Gcp!BucketRetentionPolicyRule

\* The ten registered by hand are of the first generation.
LEMMA ScannerSheet ==
  /\ Azure!VMUnmanagedDisksRule.legacy = TRUE
  /\ Azure!VMNoEncryptionRule.legacy = TRUE
  /\ Azure!UnderutilizedVMRule.legacy = TRUE
  /\ Azure!UnattachedDiskRule.legacy = TRUE
  /\ Azure!KeyVaultSoftDeleteRule.legacy = TRUE
  /\ Azure!KeyVaultPurgeProtectionRule.legacy = TRUE
  /\ Azure!NSGOpenSSHRule.legacy = TRUE
  /\ Azure!NSGOpenRDPRule.legacy = TRUE
  /\ Azure!StorageHttpsOnlyRule.legacy = TRUE
  /\ Azure!StoragePublicAccessRule.legacy = TRUE
BY DEF Azure!Legacy, Azure!Rule, Azure!VMUnmanagedDisksRule,
    Azure!VMNoEncryptionRule, Azure!UnderutilizedVMRule,
    Azure!UnattachedDiskRule, Azure!KeyVaultSoftDeleteRule,
    Azure!KeyVaultPurgeProtectionRule, Azure!NSGOpenSSHRule,
    Azure!NSGOpenRDPRule, Azure!StorageHttpsOnlyRule,
    Azure!StoragePublicAccessRule

\* What separates the classes of rules.
LEMMA ClassSheet ==
  /\ \A r \in Discovered : r.legacy = FALSE
  /\ \A r \in Aws!AWS_RULE_REGISTRY \cup Gcp!GCP_RULE_REGISTRY : r.types # {}
  /\ \A r \in Azure!ScannerRules : r.legacy = TRUE
<1>1. \A r \in Azure!RULE_REGISTRY : Plain(r)
  BY AzureSheet DEF Azure!RULE_REGISTRY
<1>2. \A r \in Aws!AWS_RULE_REGISTRY : Routed(r)
  BY AwsSheet DEF Aws!AWS_RULE_REGISTRY
<1>3. \A r \in Gcp!GCP_RULE_REGISTRY : Routed(r)
  BY GcpSheet DEF Gcp!GCP_RULE_REGISTRY
<1>4. \A r \in Azure!ScannerRules : r.legacy = TRUE
  BY ScannerSheet DEF Azure!ScannerRules
<1> QED
  BY <1>1, <1>2, <1>3, <1>4 DEF Plain, Routed, Discovered

\* An id names one rule, across the three packs.
LEMMA UniqueIds == \A r, s \in Discovered : r.id = s.id => r = s
<1>1. \A r, s \in Discovered : IdOf(r) = IdOf(s) => r = s
  BY AzureSheet, AwsSheet, GcpSheet
     DEF Discovered, Azure!RULE_REGISTRY, Aws!AWS_RULE_REGISTRY,
         Gcp!GCP_RULE_REGISTRY
<1> QED
  BY <1>1 DEF IdOf

-----------------------------------------------------------------------------
(* The rows of Meaning.                                                    *)

\* What a rule says of a live resource once a collector has read it: the issues
\* it is not blind to, unless a fail-open read failed, and its false alarms.
Tells(rule, id, bad, l, failed, config) ==
  LET issue == Matches(bad, l) /\ ~Blind(id, l)
  IN  /\ issue /\ failed \cap FailOpenReads(id) = {} => Fires(rule, config)
      /\ failed = {} => (Fires(rule, config) <=> issue \/ FalseAlarm(id, l))

Honest(rule, id, type, bad) ==
  \A l \in LiveResources(type), failed \in SUBSET Calls(type) :
    Tells(rule, id, bad, l, failed, Config(type, l, failed))

\* A rule a row of Meaning is about.
Means(r, m) ==
  /\ r.id = m.id /\ r.legacy = FALSE /\ r \in Discovered /\ Applies(r, m.type)
  /\ Honest(r, m.id, m.type, m.bad)

\* The rules that read a key nobody writes.
LEMMA AlwaysTells ==
  ASSUME NEW id \in AlwaysReported, NEW rule, NEW bad, NEW l, NEW failed, NEW c,
         Fires(rule, c)
  PROVE  Tells(rule, id, bad, l, failed, c)
BY DEF Tells, FalseAlarm

LEMMA NeverTells ==
  ASSUME NEW id \in NeverReported, NEW rule, NEW bad, NEW l, NEW failed, NEW c,
         ~Fires(rule, c)
  PROVE  Tells(rule, id, bad, l, failed, c)
<1>1. id \notin AlwaysReported /\ id # "GCP-NET-003"
  BY DEF AlwaysReported, NeverReported
<1> QED
  BY <1>1 DEF Tells, Blind, FalseAlarm

\* A rule of one pattern fires when the pattern matches.
LEMMA Single ==
  ASSUME NEW id, NEW types, NEW severity, NEW kind, NEW n, NEW p, NEW c, NEW w
  PROVE  /\ Fires(Azure!Rule(id, types, severity, kind, n, {p}), c)
              <=> Matches(p, c)
         /\ Fires(Aws!Rule(id, types, severity, kind, n, {p}), c)
              <=> Matches(p, c)
         /\ Fires(Aws!Wasteful(Aws!Rule(id, types, severity, kind, n, {p}), w), c)
              <=> Matches(p, c)
         /\ Fires(Gcp!Rule(id, types, severity, kind, n, {p}), c)
              <=> Matches(p, c)
         /\ Fires(Gcp!Wasteful(Gcp!Rule(id, types, severity, kind, n, {p}), w), c)
              <=> Matches(p, c)
BY DEF Fires, Raises, Azure!Rule, Aws!Rule, Gcp!Rule, Aws!Wasteful, Gcp!Wasteful

\* The values collectors copy are tokens, so that "not these" includes them.
LiveValues ==
  Bool \cup Tags \cup
  {"missing", "none", "Allow", "Deny", "empty", "partial", "all_blocked", "rules", "set"}

LEMMA LiveTokens ==
  /\ LiveValues \subseteq Azure!Tokens
  /\ LiveValues \subseteq Aws!Tokens
  /\ LiveValues \subseteq Gcp!Tokens
<1>1. LiveValues \subseteq Azure!Tokens
  BY DEF LiveValues, Bool, Tags, Azure!Tokens, Azure!Falsy
<1>2. LiveValues \subseteq Aws!Tokens
  BY DEF LiveValues, Bool, Tags, Aws!Tokens, Aws!Falsy
<1>3. LiveValues \subseteq Gcp!Tokens
  BY DEF LiveValues, Bool, Tags, Gcp!Tokens, Gcp!Falsy
<1> QED
  BY <1>1, <1>2, <1>3

\* Microsoft.Storage/storageAccounts, as StorageSnapshot writes it.
LEMMA StorageRows ==
  /\ Honest(Azure!PublicBlobAccessRule, "STOR-001",
            "Microsoft.Storage/storageAccounts", [public |-> {"true"}])
  /\ Honest(Azure!HttpTrafficAllowedRule, "STOR-002",
            "Microsoft.Storage/storageAccounts", [https |-> {"false"}])
  /\ Honest(Azure!MinTlsVersionRule, "STOR-003",
            "Microsoft.Storage/storageAccounts", [tls |-> {"TLS1_0"}])
  /\ Honest(Azure!SharedKeyAuthRule, "STOR-004",
            "Microsoft.Storage/storageAccounts", [keys |-> {"none"}])
  /\ Honest(Azure!NetworkDefaultActionRule, "STOR-005",
            "Microsoft.Storage/storageAccounts", [network |-> {"Allow"}])
  /\ Honest(Azure!InfrastructureEncryptionRule, "STOR-008",
            "Microsoft.Storage/storageAccounts", [infrastructure |-> {"none"}])
  /\ Honest(Azure!BlobSoftDeleteRule, "STOR-006",
            "Microsoft.Storage/storageAccounts", [unread |-> {"false"}])
  /\ Honest(Azure!BlobVersioningRule, "STOR-007",
            "Microsoft.Storage/storageAccounts", [unread |-> {"false"}])
  /\ Honest(Azure!DiagnosticLoggingRule, "STOR-009",
            "Microsoft.Storage/storageAccounts", [unread |-> {"false"}])
<1> SUFFICES ASSUME NEW l \in LiveResources("Microsoft.Storage/storageAccounts"),
                    NEW failed \in SUBSET Calls("Microsoft.Storage/storageAccounts"),
                    NEW c, c = Config("Microsoft.Storage/storageAccounts", l, failed)
             PROVE  /\ Tells(Azure!PublicBlobAccessRule, "STOR-001",
                             [public |-> {"true"}], l, failed, c)
                    /\ Tells(Azure!HttpTrafficAllowedRule, "STOR-002",
                             [https |-> {"false"}], l, failed, c)
                    /\ Tells(Azure!MinTlsVersionRule, "STOR-003",
                             [tls |-> {"TLS1_0"}], l, failed, c)
                    /\ Tells(Azure!SharedKeyAuthRule, "STOR-004",
                             [keys |-> {"none"}], l, failed, c)
                    /\ Tells(Azure!NetworkDefaultActionRule, "STOR-005",
                             [network |-> {"Allow"}], l, failed, c)
                    /\ Tells(Azure!InfrastructureEncryptionRule, "STOR-008",
                             [infrastructure |-> {"none"}], l, failed, c)
                    /\ Tells(Azure!BlobSoftDeleteRule, "STOR-006",
                             [unread |-> {"false"}], l, failed, c)
                    /\ Tells(Azure!BlobVersioningRule, "STOR-007",
                             [unread |-> {"false"}], l, failed, c)
                    /\ Tells(Azure!DiagnosticLoggingRule, "STOR-009",
                             [unread |-> {"false"}], l, failed, c)
  BY DEF Honest
<1>1. l \in [public : Bool, tls : {"TLS1_0", "TLS1_2"}, https : Bool,
            network : {"Allow", "Deny"}, keys : {"none", "false"},
            infrastructure : {"none", "true"}, unread : Bool]
  BY DEF LiveResources
<1>2. c = StorageSnapshot(l)
  BY DEF Config
<1>3. /\ Fires(Azure!PublicBlobAccessRule, c) <=>
             Matches([allow_blob_public_access |-> {"true"}], c)
      /\ Fires(Azure!HttpTrafficAllowedRule, c) <=>
             Matches([enable_https_traffic_only |-> {"false"}], c)
      /\ Fires(Azure!MinTlsVersionRule, c) <=>
             Matches([minimum_tls_version |-> {"TLS1_0"}], c)
      /\ Fires(Azure!SharedKeyAuthRule, c) <=>
             Matches([allow_shared_key_access |-> Azure!Not({"false"})], c)
      /\ Fires(Azure!NetworkDefaultActionRule, c) <=>
             Matches([network_default_action |-> Azure!Not({"Deny"})], c)
      /\ Fires(Azure!InfrastructureEncryptionRule, c) <=>
             Matches([infrastructure_encryption_enabled |-> Azure!NotTrue], c)
  <2>1. Fires(Azure!PublicBlobAccessRule, c) <=>
            Matches([allow_blob_public_access |-> {"true"}], c)
    BY Single DEF Azure!PublicBlobAccessRule
  <2>2. Fires(Azure!HttpTrafficAllowedRule, c) <=>
            Matches([enable_https_traffic_only |-> {"false"}], c)
    BY Single DEF Azure!HttpTrafficAllowedRule
  <2>3. Fires(Azure!MinTlsVersionRule, c) <=>
            Matches([minimum_tls_version |-> {"TLS1_0"}], c)
    BY Single DEF Azure!MinTlsVersionRule
  <2>4. Fires(Azure!SharedKeyAuthRule, c) <=>
            Matches([allow_shared_key_access |-> Azure!Not({"false"})], c)
    BY Single DEF Azure!SharedKeyAuthRule
  <2>5. Fires(Azure!NetworkDefaultActionRule, c) <=>
            Matches([network_default_action |-> Azure!Not({"Deny"})], c)
    BY Single DEF Azure!NetworkDefaultActionRule
  <2>6. Fires(Azure!InfrastructureEncryptionRule, c) <=>
            Matches([infrastructure_encryption_enabled |-> Azure!NotTrue], c)
    BY Single DEF Azure!InfrastructureEncryptionRule
  <2> QED
    BY <2>1, <2>2, <2>3, <2>4, <2>5, <2>6
<1>4. /\ Matches([allow_blob_public_access |-> {"true"}], c) <=>
             l.public \in {"true"}
      /\ Matches([enable_https_traffic_only |-> {"false"}], c) <=>
             l.https \in {"false"}
      /\ Matches([minimum_tls_version |-> {"TLS1_0"}], c) <=>
             l.tls \in {"TLS1_0"}
      /\ Matches([allow_shared_key_access |-> Azure!Not({"false"})], c) <=>
             l.keys \in Azure!Not({"false"})
      /\ Matches([network_default_action |-> Azure!Not({"Deny"})], c) <=>
             l.network \in Azure!Not({"Deny"})
      /\ Matches([infrastructure_encryption_enabled |-> Azure!NotTrue], c) <=>
             l.infrastructure \in Azure!NotTrue
  BY <1>2 DEF Matches, Value, StorageSnapshot
<1>5. /\ Matches([public |-> {"true"}], l) <=> l.public \in {"true"}
      /\ Matches([https |-> {"false"}], l) <=> l.https \in {"false"}
      /\ Matches([tls |-> {"TLS1_0"}], l) <=> l.tls \in {"TLS1_0"}
      /\ Matches([keys |-> {"none"}], l) <=> l.keys \in {"none"}
      /\ Matches([network |-> {"Allow"}], l) <=> l.network \in {"Allow"}
      /\ Matches([infrastructure |-> {"none"}], l) <=>
             l.infrastructure \in {"none"}
  BY <1>1 DEF Matches, Value
<1>6. /\ ~Blind("STOR-001", l) /\ ~FalseAlarm("STOR-001", l)
      /\ ~Blind("STOR-002", l) /\ ~FalseAlarm("STOR-002", l)
      /\ ~Blind("STOR-003", l) /\ ~FalseAlarm("STOR-003", l)
      /\ ~Blind("STOR-004", l) /\ ~FalseAlarm("STOR-004", l)
      /\ ~Blind("STOR-005", l) /\ ~FalseAlarm("STOR-005", l)
      /\ ~Blind("STOR-008", l) /\ ~FalseAlarm("STOR-008", l)
  BY DEF Blind, FalseAlarm, NeverReported, AlwaysReported
<1>7. Fires(Azure!BlobSoftDeleteRule, c)
  <2>1. Matches([blob_soft_delete_enabled |-> Azure!NotTrue], c)
    BY <1>2, LiveTokens DEF Matches, Value, StorageSnapshot, LiveValues,
    Azure!NotTrue, Azure!Not
  <2> QED
    BY <2>1, Single DEF Azure!BlobSoftDeleteRule
<1>8. Fires(Azure!BlobVersioningRule, c)
  <2>1. Matches([blob_versioning_enabled |-> Azure!NotTrue], c)
    BY <1>2, LiveTokens DEF Matches, Value, StorageSnapshot, LiveValues,
    Azure!NotTrue, Azure!Not
  <2> QED
    BY <2>1, Single DEF Azure!BlobVersioningRule
<1>9. Fires(Azure!DiagnosticLoggingRule, c)
  <2>1. Matches([diagnostic_logging_enabled |-> Azure!NotTrue], c)
    BY <1>2, LiveTokens DEF Matches, Value, StorageSnapshot, LiveValues,
    Azure!NotTrue, Azure!Not
  <2> QED
    BY <2>1, Single DEF Azure!DiagnosticLoggingRule
<1>10. /\ Tells(Azure!PublicBlobAccessRule, "STOR-001",
                [public |-> {"true"}], l, failed, c)
       /\ Tells(Azure!HttpTrafficAllowedRule, "STOR-002",
                [https |-> {"false"}], l, failed, c)
       /\ Tells(Azure!MinTlsVersionRule, "STOR-003",
                [tls |-> {"TLS1_0"}], l, failed, c)
       /\ Tells(Azure!SharedKeyAuthRule, "STOR-004",
                [keys |-> {"none"}], l, failed, c)
       /\ Tells(Azure!NetworkDefaultActionRule, "STOR-005",
                [network |-> {"Allow"}], l, failed, c)
       /\ Tells(Azure!InfrastructureEncryptionRule, "STOR-008",
                [infrastructure |-> {"none"}], l, failed, c)
  BY <1>1, <1>3, <1>4, <1>5, <1>6, LiveTokens DEF Tells, LiveValues, Bool,
    Azure!NotTrue, Azure!Not
<1>11. /\ Tells(Azure!BlobSoftDeleteRule, "STOR-006",
                [unread |-> {"false"}], l, failed, c)
       /\ Tells(Azure!BlobVersioningRule, "STOR-007",
                [unread |-> {"false"}], l, failed, c)
       /\ Tells(Azure!DiagnosticLoggingRule, "STOR-009",
                [unread |-> {"false"}], l, failed, c)
  BY <1>7, <1>8, <1>9, AlwaysTells DEF AlwaysReported
<1> QED
  BY <1>10, <1>11

\* Microsoft.Network/networkSecurityGroups, as NsgSnapshot writes it.
LEMMA NsgRows ==
  /\ Honest(Azure!SSHOpenToInternetRule, "NET-001",
            "Microsoft.Network/networkSecurityGroups", [rules |-> {"ssh",
             "range", "any_port"}])
  /\ Honest(Azure!RDPOpenToInternetRule, "NET-002",
            "Microsoft.Network/networkSecurityGroups", [rules |-> {"rdp",
             "range", "any_port"}])
  /\ Honest(Azure!AnyPortOpenToInternetRule, "NET-003",
            "Microsoft.Network/networkSecurityGroups",
             [rules |-> {"any_port"}])
  /\ Honest(Azure!InboundAllowAllRule, "NET-005",
            "Microsoft.Network/networkSecurityGroups",
             [rules |-> {"any_port"}])
  /\ Honest(Azure!NSGFlowLogsRule, "NET-004",
            "Microsoft.Network/networkSecurityGroups", [unread |-> {"false"}])
<1> SUFFICES ASSUME NEW l \in LiveResources("Microsoft.Network/networkSecurityGroups"),
                    NEW failed \in SUBSET Calls("Microsoft.Network/networkSecurityGroups"),
                    NEW c, c = Config("Microsoft.Network/networkSecurityGroups", l, failed)
             PROVE  /\ Tells(Azure!SSHOpenToInternetRule, "NET-001",
                             [rules |-> {"ssh", "range", "any_port"}], l,
                              failed, c)
                    /\ Tells(Azure!RDPOpenToInternetRule, "NET-002",
                             [rules |-> {"rdp", "range", "any_port"}], l,
                              failed, c)
                    /\ Tells(Azure!AnyPortOpenToInternetRule, "NET-003",
                             [rules |-> {"any_port"}], l, failed, c)
                    /\ Tells(Azure!InboundAllowAllRule, "NET-005",
                             [rules |-> {"any_port"}], l, failed, c)
                    /\ Tells(Azure!NSGFlowLogsRule, "NET-004",
                             [unread |-> {"false"}], l, failed, c)
  BY DEF Honest
<1>1. l \in [rules : {"empty", "web", "ssh", "rdp", "any_port", "range"},
            unread : Bool]
  BY DEF LiveResources
<1>2. c = NsgSnapshot(l)
  BY DEF Config
<1>3. /\ Fires(Azure!SSHOpenToInternetRule, c) <=>
             Matches([securityRules |-> {"ssh"}], c)
      /\ Fires(Azure!RDPOpenToInternetRule, c) <=>
             Matches([securityRules |-> {"rdp"}], c)
      /\ Fires(Azure!AnyPortOpenToInternetRule, c) <=>
             Matches([securityRules |-> {"any_port"}], c)
      /\ Fires(Azure!InboundAllowAllRule, c) <=>
             Matches([securityRules |-> {"any_port"}], c)
  <2>1. Fires(Azure!SSHOpenToInternetRule, c) <=>
            Matches([securityRules |-> {"ssh"}], c)
    BY Single DEF Azure!SSHOpenToInternetRule
  <2>2. Fires(Azure!RDPOpenToInternetRule, c) <=>
            Matches([securityRules |-> {"rdp"}], c)
    BY Single DEF Azure!RDPOpenToInternetRule
  <2>3. Fires(Azure!AnyPortOpenToInternetRule, c) <=>
            Matches([securityRules |-> {"any_port"}], c)
    BY Single DEF Azure!AnyPortOpenToInternetRule
  <2>4. Fires(Azure!InboundAllowAllRule, c) <=>
            Matches([securityRules |-> {"any_port"}], c)
    BY Single DEF Azure!InboundAllowAllRule
  <2> QED
    BY <2>1, <2>2, <2>3, <2>4
<1>4. /\ Matches([securityRules |-> {"ssh"}], c) <=> l.rules \in {"ssh"}
      /\ Matches([securityRules |-> {"rdp"}], c) <=> l.rules \in {"rdp"}
      /\ Matches([securityRules |-> {"any_port"}], c) <=>
             l.rules \in {"any_port"}
      /\ Matches([securityRules |-> {"any_port"}], c) <=>
             l.rules \in {"any_port"}
  BY <1>2 DEF Matches, Value, NsgSnapshot
<1>5. /\ Matches([rules |-> {"ssh", "range", "any_port"}], l) <=>
             l.rules \in {"ssh", "range", "any_port"}
      /\ Matches([rules |-> {"rdp", "range", "any_port"}], l) <=>
             l.rules \in {"rdp", "range", "any_port"}
      /\ Matches([rules |-> {"any_port"}], l) <=> l.rules \in {"any_port"}
  BY <1>1 DEF Matches, Value
<1>6. /\ Blind("NET-001", l) <=> l.rules \in {"range", "any_port"}
      /\ ~FalseAlarm("NET-001", l)
      /\ Blind("NET-002", l) <=> l.rules \in {"range", "any_port"}
      /\ ~FalseAlarm("NET-002", l)
      /\ ~Blind("NET-003", l) /\ ~FalseAlarm("NET-003", l)
      /\ ~Blind("NET-005", l) /\ ~FalseAlarm("NET-005", l)
  BY DEF Blind, FalseAlarm, NeverReported, AlwaysReported
<1>7. Fires(Azure!NSGFlowLogsRule, c)
  <2>1. Matches([flow_logs_enabled |-> Azure!NotTrue], c)
    BY <1>2, LiveTokens DEF Matches, Value, NsgSnapshot, LiveValues,
    Azure!NotTrue, Azure!Not
  <2> QED
    BY <2>1, Single DEF Azure!NSGFlowLogsRule
<1>8. /\ Tells(Azure!SSHOpenToInternetRule, "NET-001",
               [rules |-> {"ssh", "range", "any_port"}], l, failed, c)
      /\ Tells(Azure!RDPOpenToInternetRule, "NET-002",
               [rules |-> {"rdp", "range", "any_port"}], l, failed, c)
      /\ Tells(Azure!AnyPortOpenToInternetRule, "NET-003",
               [rules |-> {"any_port"}], l, failed, c)
      /\ Tells(Azure!InboundAllowAllRule, "NET-005",
               [rules |-> {"any_port"}], l, failed, c)
  BY <1>1, <1>3, <1>4, <1>5, <1>6 DEF Tells, Bool
<1>9. Tells(Azure!NSGFlowLogsRule, "NET-004",
            [unread |-> {"false"}], l, failed, c)
  BY <1>7, AlwaysTells DEF AlwaysReported
<1> QED
  BY <1>8, <1>9

\* Microsoft.Compute/virtualMachines, as VmSnapshot writes it.
LEMMA VmRows ==
  /\ Honest(Azure!MissingCostTagsRule, "VM-006",
            "Microsoft.Compute/virtualMachines", [tags |-> {"empty"}])
  /\ Honest(Azure!OSDiskEncryptionRule, "VM-001",
            "Microsoft.Compute/virtualMachines",
             [diskEncryption |-> {"false"}])
  /\ Honest(Azure!UnmanagedDiskRule, "VM-002",
            "Microsoft.Compute/virtualMachines", [disk |-> {"vhd"}])
  /\ Honest(Azure!NoBackupPolicyRule, "VM-003",
            "Microsoft.Compute/virtualMachines", [unread |-> {"false"}])
  /\ Honest(Azure!PublicIPDirectAttachedRule, "VM-004",
            "Microsoft.Compute/virtualMachines", [unread |-> {"false"}])
  /\ Honest(Azure!OutdatedOSImageRule, "VM-005",
            "Microsoft.Compute/virtualMachines", [unread |-> {"false"}])
<1> SUFFICES ASSUME NEW l \in LiveResources("Microsoft.Compute/virtualMachines"),
                    NEW failed \in SUBSET Calls("Microsoft.Compute/virtualMachines"),
                    NEW c, c = Config("Microsoft.Compute/virtualMachines", l, failed)
             PROVE  /\ Tells(Azure!MissingCostTagsRule, "VM-006",
                             [tags |-> {"empty"}], l, failed, c)
                    /\ Tells(Azure!OSDiskEncryptionRule, "VM-001",
                             [diskEncryption |-> {"false"}], l, failed, c)
                    /\ Tells(Azure!UnmanagedDiskRule, "VM-002",
                             [disk |-> {"vhd"}], l, failed, c)
                    /\ Tells(Azure!NoBackupPolicyRule, "VM-003",
                             [unread |-> {"false"}], l, failed, c)
                    /\ Tells(Azure!PublicIPDirectAttachedRule, "VM-004",
                             [unread |-> {"false"}], l, failed, c)
                    /\ Tells(Azure!OutdatedOSImageRule, "VM-005",
                             [unread |-> {"false"}], l, failed, c)
  BY DEF Honest
<1>1. l \in [disk : {"set", "vhd"}, diskEncryption : Bool, tags : Tags,
            unread : Bool]
  BY DEF LiveResources
<1>2. c = VmSnapshot(l)
  BY DEF Config
<1>3. Fires(Azure!MissingCostTagsRule, c) <=>
          Matches([tags |-> Azure!Not({"complete", "complete_dev"})], c)
  BY Single DEF Azure!MissingCostTagsRule
<1>4. Matches([tags |-> Azure!Not({"complete", "complete_dev"})], c) <=>
          l.tags \in Azure!Not({"complete", "complete_dev"})
  BY <1>2 DEF Matches, Value, VmSnapshot
<1>5. Matches([tags |-> {"empty"}], l) <=> l.tags \in {"empty"}
  BY <1>1 DEF Matches, Value
<1>6. ~Blind("VM-006", l) /\ ~FalseAlarm("VM-006", l)
  BY DEF Blind, FalseAlarm, NeverReported, AlwaysReported
<1>7. Fires(Azure!OSDiskEncryptionRule, c)
  <2>1. Matches([os_disk_encryption_enabled |-> Azure!NotTrue], c)
    BY <1>2, LiveTokens DEF Matches, Value, VmSnapshot, LiveValues,
    Azure!NotTrue, Azure!Not
  <2> QED
    BY <2>1, Single DEF Azure!OSDiskEncryptionRule
<1>8. ~Fires(Azure!UnmanagedDiskRule, c)
  <2>1. ~Matches([uses_unmanaged_disk |-> {"true"}], c)
    BY <1>2 DEF Matches, Value, VmSnapshot
  <2> QED
    BY <2>1, Single DEF Azure!UnmanagedDiskRule
<1>9. Fires(Azure!NoBackupPolicyRule, c)
  <2>1. Matches([backup_policy_enabled |-> Azure!NotTrue], c)
    BY <1>2, LiveTokens DEF Matches, Value, VmSnapshot, LiveValues,
    Azure!NotTrue, Azure!Not
  <2> QED
    BY <2>1, Single DEF Azure!NoBackupPolicyRule
<1>10. ~Fires(Azure!PublicIPDirectAttachedRule, c)
  <2>1. ~Matches([public_ip_directly_attached |-> {"true"}], c)
    BY <1>2 DEF Matches, Value, VmSnapshot
  <2> QED
    BY <2>1, Single DEF Azure!PublicIPDirectAttachedRule
<1>11. ~Fires(Azure!OutdatedOSImageRule, c)
  <2>1. ~Matches([os_image |-> {"outdated"}], c)
    BY <1>2 DEF Matches, Value, VmSnapshot
  <2> QED
    BY <2>1, Single DEF Azure!OutdatedOSImageRule
<1>12. Tells(Azure!MissingCostTagsRule, "VM-006",
             [tags |-> {"empty"}], l, failed, c)
  BY <1>1, <1>3, <1>4, <1>5, <1>6, LiveTokens DEF Tells, LiveValues, Bool,
    Tags, Azure!Not
<1>13. /\ Tells(Azure!OSDiskEncryptionRule, "VM-001",
                [diskEncryption |-> {"false"}], l, failed, c)
       /\ Tells(Azure!UnmanagedDiskRule, "VM-002",
                [disk |-> {"vhd"}], l, failed, c)
       /\ Tells(Azure!NoBackupPolicyRule, "VM-003",
                [unread |-> {"false"}], l, failed, c)
       /\ Tells(Azure!PublicIPDirectAttachedRule, "VM-004",
                [unread |-> {"false"}], l, failed, c)
       /\ Tells(Azure!OutdatedOSImageRule, "VM-005",
                [unread |-> {"false"}], l, failed, c)
  BY <1>7, <1>8, <1>9, <1>10, <1>11, AlwaysTells,
    NeverTells DEF AlwaysReported, NeverReported
<1> QED
  BY <1>12, <1>13

\* Microsoft.KeyVault/vaults, as KeyVaultSnapshot writes it.
LEMMA VaultRows ==
  /\ Honest(Azure!SoftDeleteRule, "KV-001",
            "Microsoft.KeyVault/vaults", [softDelete |-> {"none"}])
  /\ Honest(Azure!PurgeProtectionRule, "KV-002",
            "Microsoft.KeyVault/vaults", [purge |-> {"none"}])
  /\ Honest(Azure!PublicNetworkAccessRule, "KV-003",
            "Microsoft.KeyVault/vaults", [public |-> {"Enabled"}])
  /\ Honest(Azure!NoDiagnosticLoggingRule, "KV-004",
            "Microsoft.KeyVault/vaults", [unread |-> {"false"}])
  /\ Honest(Azure!SecretNoExpiryRule, "KV-005",
            "Microsoft.KeyVault/vaults", [unread |-> {"false"}])
<1> SUFFICES ASSUME NEW l \in LiveResources("Microsoft.KeyVault/vaults"),
                    NEW failed \in SUBSET Calls("Microsoft.KeyVault/vaults"),
                    NEW c, c = Config("Microsoft.KeyVault/vaults", l, failed)
             PROVE  /\ Tells(Azure!SoftDeleteRule, "KV-001",
                             [softDelete |-> {"none"}], l, failed, c)
                    /\ Tells(Azure!PurgeProtectionRule, "KV-002",
                             [purge |-> {"none"}], l, failed, c)
                    /\ Tells(Azure!PublicNetworkAccessRule, "KV-003",
                             [public |-> {"Enabled"}], l, failed, c)
                    /\ Tells(Azure!NoDiagnosticLoggingRule, "KV-004",
                             [unread |-> {"false"}], l, failed, c)
                    /\ Tells(Azure!SecretNoExpiryRule, "KV-005",
                             [unread |-> {"false"}], l, failed, c)
  BY DEF Honest
<1>1. l \in [softDelete : {"none", "true"}, purge : {"none", "true"},
            public : {"Enabled", "Disabled"}, unread : Bool]
  BY DEF LiveResources
<1>2. c = KeyVaultSnapshot(l)
  BY DEF Config
<1>3. Fires(Azure!SoftDeleteRule, c)
  <2>1. Matches([soft_delete_enabled |-> Azure!NotTrue], c)
    BY <1>2, LiveTokens DEF Matches, Value, KeyVaultSnapshot, LiveValues,
    Azure!NotTrue, Azure!Not
  <2> QED
    BY <2>1, Single DEF Azure!SoftDeleteRule
<1>4. Fires(Azure!PurgeProtectionRule, c)
  <2>1. Matches([purge_protection_enabled |-> Azure!NotTrue], c)
    BY <1>2, LiveTokens DEF Matches, Value, KeyVaultSnapshot, LiveValues,
    Azure!NotTrue, Azure!Not
  <2> QED
    BY <2>1, Single DEF Azure!PurgeProtectionRule
<1>5. ~Fires(Azure!PublicNetworkAccessRule, c)
  <2>1. ~Matches([public_network_access_enabled |-> {"true"}], c)
    BY <1>2 DEF Matches, Value, KeyVaultSnapshot
  <2> QED
    BY <2>1, Single DEF Azure!PublicNetworkAccessRule
<1>6. Fires(Azure!NoDiagnosticLoggingRule, c)
  <2>1. Matches([diagnostic_logging_enabled |-> Azure!NotTrue], c)
    BY <1>2, LiveTokens DEF Matches, Value, KeyVaultSnapshot, LiveValues,
    Azure!NotTrue, Azure!Not
  <2> QED
    BY <2>1, Single DEF Azure!NoDiagnosticLoggingRule
<1>7. ~Fires(Azure!SecretNoExpiryRule, c)
  <2>1. ~Matches([secrets_without_expiry |-> {"some"}], c)
    BY <1>2 DEF Matches, Value, KeyVaultSnapshot
  <2> QED
    BY <2>1, Single DEF Azure!SecretNoExpiryRule
<1> QED
  BY <1>3, <1>4, <1>5, <1>6, <1>7, AlwaysTells, NeverTells DEF AlwaysReported,
    NeverReported

\* AWS::S3::Bucket, as BucketSnapshot writes it.
LEMMA BucketRows ==
  /\ Honest(Aws!S3PublicAclRule, "AWS-S3-001",
            "AWS::S3::Bucket", [acl |-> {"public"}])
  /\ Honest(Aws!S3PublicAccessBlockRule, "AWS-S3-002",
            "AWS::S3::Bucket", [block |-> {"empty", "partial"}])
  /\ Honest(Aws!S3BucketEncryptionRule, "AWS-S3-003",
            "AWS::S3::Bucket", [encryption |-> {"empty"}])
  /\ Honest(Aws!S3VersioningDisabledRule, "AWS-S3-004",
            "AWS::S3::Bucket", [unread |-> {"false"}])
  /\ Honest(Aws!S3LoggingDisabledRule, "AWS-S3-005",
            "AWS::S3::Bucket", [unread |-> {"false"}])
<1> SUFFICES ASSUME NEW l \in LiveResources("AWS::S3::Bucket"),
                    NEW failed \in SUBSET Calls("AWS::S3::Bucket"),
                    NEW c, c = Config("AWS::S3::Bucket", l, failed)
             PROVE  /\ Tells(Aws!S3PublicAclRule, "AWS-S3-001",
                             [acl |-> {"public"}], l, failed, c)
                    /\ Tells(Aws!S3PublicAccessBlockRule, "AWS-S3-002",
                             [block |-> {"empty", "partial"}], l, failed, c)
                    /\ Tells(Aws!S3BucketEncryptionRule, "AWS-S3-003",
                             [encryption |-> {"empty"}], l, failed, c)
                    /\ Tells(Aws!S3VersioningDisabledRule, "AWS-S3-004",
                             [unread |-> {"false"}], l, failed, c)
                    /\ Tells(Aws!S3LoggingDisabledRule, "AWS-S3-005",
                             [unread |-> {"false"}], l, failed, c)
  BY DEF Honest
<1>1. l \in [acl : {"private", "public"}, encryption : {"empty", "rules"},
            block : {"empty", "partial", "all_blocked"}, unread : Bool]
  BY DEF LiveResources
<1>2. c = BucketSnapshot(l, failed)
  BY DEF Config
<1>3. /\ Fires(Aws!S3PublicAclRule, c) <=> Matches([acl |-> {"public"}], c)
      /\ Fires(Aws!S3PublicAccessBlockRule, c) <=>
             Matches([public_access_block |-> Aws!Not({"all_blocked"})], c)
      /\ Fires(Aws!S3BucketEncryptionRule, c) <=>
             Matches([encryption |-> Aws!Not({"rules"})], c)
  <2>1. Fires(Aws!S3PublicAclRule, c) <=> Matches([acl |-> {"public"}], c)
    BY Single DEF Aws!S3PublicAclRule
  <2>2. Fires(Aws!S3PublicAccessBlockRule, c) <=>
            Matches([public_access_block |-> Aws!Not({"all_blocked"})], c)
    BY Single DEF Aws!S3PublicAccessBlockRule
  <2>3. Fires(Aws!S3BucketEncryptionRule, c) <=>
            Matches([encryption |-> Aws!Not({"rules"})], c)
    BY Single DEF Aws!S3BucketEncryptionRule
  <2> QED
    BY <2>1, <2>2, <2>3
<1>4. /\ Matches([acl |-> {"public"}], c) <=>
             Or(l.acl, "get_bucket_acl", failed, "empty") \in {"public"}
      /\ Matches([public_access_block |-> Aws!Not({"all_blocked"})], c) <=>
             Or(l.block, "get_public_access_block", failed, "empty")
               \in Aws!Not({"all_blocked"})
      /\ Matches([encryption |-> Aws!Not({"rules"})], c) <=>
             Or(l.encryption, "get_bucket_encryption", failed, "empty")
               \in Aws!Not({"rules"})
  BY <1>2 DEF Matches, Value, BucketSnapshot
<1>5. /\ Matches([acl |-> {"public"}], l) <=> l.acl \in {"public"}
      /\ Matches([block |-> {"empty", "partial"}], l) <=>
             l.block \in {"empty", "partial"}
      /\ Matches([encryption |-> {"empty"}], l) <=> l.encryption \in {"empty"}
  BY <1>1 DEF Matches, Value
<1>6. /\ ~Blind("AWS-S3-001", l) /\ ~FalseAlarm("AWS-S3-001", l)
      /\ ~Blind("AWS-S3-002", l) /\ ~FalseAlarm("AWS-S3-002", l)
      /\ ~Blind("AWS-S3-003", l) /\ ~FalseAlarm("AWS-S3-003", l)
  BY DEF Blind, FalseAlarm, NeverReported, AlwaysReported
<1>7. Fires(Aws!S3VersioningDisabledRule, c)
  <2>1. Matches([versioning_status |-> Aws!Not({"enabled"})], c)
    BY <1>2, LiveTokens DEF Matches, Value, BucketSnapshot, LiveValues, Aws!Not
  <2> QED
    BY <2>1, Single DEF Aws!S3VersioningDisabledRule
<1>8. Fires(Aws!S3LoggingDisabledRule, c)
  <2>1. Matches([logging_target_bucket |-> Aws!Falsy], c)
    BY <1>2 DEF Matches, Value, BucketSnapshot, Aws!Falsy
  <2> QED
    BY <2>1, Single DEF Aws!S3LoggingDisabledRule
<1>9. /\ Tells(Aws!S3PublicAclRule, "AWS-S3-001",
               [acl |-> {"public"}], l, failed, c)
      /\ Tells(Aws!S3PublicAccessBlockRule, "AWS-S3-002",
               [block |-> {"empty", "partial"}], l, failed, c)
      /\ Tells(Aws!S3BucketEncryptionRule, "AWS-S3-003",
               [encryption |-> {"empty"}], l, failed, c)
  BY <1>1, <1>3, <1>4, <1>5, <1>6, LiveTokens DEF Tells, LiveValues, Bool, Or,
    FailOpenReads, Aws!Not
<1>10. /\ Tells(Aws!S3VersioningDisabledRule, "AWS-S3-004",
                [unread |-> {"false"}], l, failed, c)
       /\ Tells(Aws!S3LoggingDisabledRule, "AWS-S3-005",
                [unread |-> {"false"}], l, failed, c)
  BY <1>7, <1>8, AlwaysTells DEF AlwaysReported
<1> QED
  BY <1>9, <1>10

\* AWS::EC2::Volume, as VolumeSnapshot writes it.
LEMMA VolumeRows ==
  /\ Honest(Aws!EbsEncryptionRule, "AWS-EC2-001",
            "AWS::EC2::Volume", [encrypted |-> {"false"}])
  /\ Honest(Aws!UnattachedEbsVolumeRule, "AWS-EC2-003",
            "AWS::EC2::Volume", [state |-> {"available"}])
<1> SUFFICES ASSUME NEW l \in LiveResources("AWS::EC2::Volume"),
                    NEW failed \in SUBSET Calls("AWS::EC2::Volume"),
                    NEW c, c = Config("AWS::EC2::Volume", l, failed)
             PROVE  /\ Tells(Aws!EbsEncryptionRule, "AWS-EC2-001",
                             [encrypted |-> {"false"}], l, failed, c)
                    /\ Tells(Aws!UnattachedEbsVolumeRule, "AWS-EC2-003",
                             [state |-> {"available"}], l, failed, c)
  BY DEF Honest
<1>1. l \in [encrypted : Bool, state : {"available", "in-use"}, cost : Prices,
            tags : Tags]
  BY DEF LiveResources
<1>2. c = VolumeSnapshot(l)
  BY DEF Config
<1>3. /\ Fires(Aws!EbsEncryptionRule, c) <=>
             Matches([encrypted |-> Aws!NotTrue], c)
      /\ Fires(Aws!UnattachedEbsVolumeRule, c) <=>
             Matches([state |-> {"available"}], c)
  <2>1. Fires(Aws!EbsEncryptionRule, c) <=>
            Matches([encrypted |-> Aws!NotTrue], c)
    BY Single DEF Aws!EbsEncryptionRule
  <2>2. Fires(Aws!UnattachedEbsVolumeRule, c) <=>
            Matches([state |-> {"available"}], c)
    BY DEF Fires, Raises, Aws!UnattachedEbsVolumeRule, Aws!Wasteful, Aws!Rule
  <2> QED
    BY <2>1, <2>2
<1>4. /\ Matches([encrypted |-> Aws!NotTrue], c) <=>
             l.encrypted \in Aws!NotTrue
      /\ Matches([state |-> {"available"}], c) <=> l.state \in {"available"}
  BY <1>2 DEF Matches, Value, VolumeSnapshot
<1>5. /\ Matches([encrypted |-> {"false"}], l) <=> l.encrypted \in {"false"}
      /\ Matches([state |-> {"available"}], l) <=> l.state \in {"available"}
  BY <1>1 DEF Matches, Value
<1>6. /\ ~Blind("AWS-EC2-001", l) /\ ~FalseAlarm("AWS-EC2-001", l)
      /\ ~Blind("AWS-EC2-003", l) /\ ~FalseAlarm("AWS-EC2-003", l)
  BY DEF Blind, FalseAlarm, NeverReported, AlwaysReported
<1> QED
  BY <1>1, <1>3, <1>4, <1>5, <1>6, LiveTokens DEF Tells, LiveValues, Bool,
    Aws!NotTrue, Aws!Not

\* AWS::EC2::Instance, as InstanceSnapshot writes it.
LEMMA InstanceRows ==
  Honest(Aws!InstancePublicIpRule, "AWS-EC2-002",
         "AWS::EC2::Instance", [ip |-> {"set"}])
<1> SUFFICES ASSUME NEW l \in LiveResources("AWS::EC2::Instance"),
                    NEW failed \in SUBSET Calls("AWS::EC2::Instance"),
                    NEW c, c = Config("AWS::EC2::Instance", l, failed)
             PROVE  Tells(Aws!InstancePublicIpRule, "AWS-EC2-002",
                          [ip |-> {"set"}], l, failed, c)
  BY DEF Honest
<1>1. l \in [ip : {"none", "set"}, tags : Tags]
  BY DEF LiveResources
<1>2. c = InstanceSnapshot(l)
  BY DEF Config
<1>3. Fires(Aws!InstancePublicIpRule, c) <=>
          Matches([public_ip_address |-> Aws!Truthy], c)
  BY Single DEF Aws!InstancePublicIpRule
<1>4. Matches([public_ip_address |-> Aws!Truthy], c) <=> l.ip \in Aws!Truthy
  BY <1>2 DEF Matches, Value, InstanceSnapshot
<1>5. Matches([ip |-> {"set"}], l) <=> l.ip \in {"set"}
  BY <1>1 DEF Matches, Value
<1>6. ~Blind("AWS-EC2-002", l) /\ ~FalseAlarm("AWS-EC2-002", l)
  BY DEF Blind, FalseAlarm, NeverReported, AlwaysReported
<1> QED
  BY <1>1, <1>3, <1>4, <1>5, <1>6, LiveTokens DEF Tells, LiveValues,
    Aws!Truthy, Aws!Not, Aws!Falsy

\* AWS::EC2::SecurityGroup, as SecurityGroupSnapshot writes it.
LEMMA SecurityGroupRows ==
  /\ Honest(Aws!SSHOpenToInternetRule, "AWS-SG-001",
            "AWS::EC2::SecurityGroup", [ingress |-> {"ssh", "all_ports"}])
  /\ Honest(Aws!RDPOpenToInternetRule, "AWS-SG-002",
            "AWS::EC2::SecurityGroup", [ingress |-> {"rdp", "all_ports"}])
  /\ Honest(Aws!DefaultSecurityGroupOpenRule, "AWS-VPC-002",
            "AWS::EC2::SecurityGroup", [name |-> {"default"},
             ingress |-> {"web", "ssh", "rdp", "all_ports"}])
  /\ Honest(Aws!DefaultSecurityGroupOpenRule, "AWS-VPC-002",
            "AWS::EC2::SecurityGroup", [name |-> {"default"},
             egress |-> {"all_ports"}])
<1> SUFFICES ASSUME NEW l \in LiveResources("AWS::EC2::SecurityGroup"),
                    NEW failed \in SUBSET Calls("AWS::EC2::SecurityGroup"),
                    NEW c, c = Config("AWS::EC2::SecurityGroup", l, failed)
             PROVE  /\ Tells(Aws!SSHOpenToInternetRule, "AWS-SG-001",
                             [ingress |-> {"ssh", "all_ports"}], l, failed, c)
                    /\ Tells(Aws!RDPOpenToInternetRule, "AWS-SG-002",
                             [ingress |-> {"rdp", "all_ports"}], l, failed, c)
                    /\ Tells(Aws!DefaultSecurityGroupOpenRule, "AWS-VPC-002",
                             [name |-> {"default"}, ingress |-> {"web", "ssh",
                              "rdp", "all_ports"}], l, failed, c)
                    /\ Tells(Aws!DefaultSecurityGroupOpenRule, "AWS-VPC-002",
                             [name |-> {"default"}, egress |-> {"all_ports"}],
                              l, failed, c)
  BY DEF Honest
<1>1. l \in [name : {"default", "custom"}, egress : {"empty", "all_ports"},
            ingress : {"empty", "web", "ssh", "rdp", "all_ports"}]
  BY DEF LiveResources
<1>2. c = SecurityGroupSnapshot(l)
  BY DEF Config
<1>3. /\ Fires(Aws!SSHOpenToInternetRule, c) <=>
             Matches([ingress_rules |-> {"ssh", "all_ports"}], c)
      /\ Fires(Aws!RDPOpenToInternetRule, c) <=>
             Matches([ingress_rules |-> {"rdp", "all_ports"}], c)
  BY Single DEF Aws!SSHOpenToInternetRule, Aws!RDPOpenToInternetRule
<1>4. /\ Matches([ingress_rules |-> {"ssh", "all_ports"}], c) <=>
             l.ingress \in {"ssh", "all_ports"}
      /\ Matches([ingress_rules |-> {"rdp", "all_ports"}], c) <=>
             l.ingress \in {"rdp", "all_ports"}
  BY <1>2 DEF Matches, Value, SecurityGroupSnapshot
<1>5. /\ Matches([ingress |-> {"ssh", "all_ports"}], l) <=>
             l.ingress \in {"ssh", "all_ports"}
      /\ Matches([ingress |-> {"rdp", "all_ports"}], l) <=>
             l.ingress \in {"rdp", "all_ports"}
  BY <1>1 DEF Matches, Value
<1>6. /\ ~Blind("AWS-SG-001", l) /\ ~FalseAlarm("AWS-SG-001", l)
      /\ ~Blind("AWS-SG-002", l) /\ ~FalseAlarm("AWS-SG-002", l)
  BY DEF Blind, FalseAlarm, NeverReported, AlwaysReported
<1>7. ~Fires(Aws!DefaultSecurityGroupOpenRule, c)
  BY <1>2 DEF Fires, Matches, Value, SecurityGroupSnapshot,
    Aws!DefaultSecurityGroupOpenRule, Aws!Rule, Aws!Not, Aws!Truthy, Aws!Falsy
<1>8. /\ Tells(Aws!SSHOpenToInternetRule, "AWS-SG-001",
               [ingress |-> {"ssh", "all_ports"}], l, failed, c)
      /\ Tells(Aws!RDPOpenToInternetRule, "AWS-SG-002",
               [ingress |-> {"rdp", "all_ports"}], l, failed, c)
  BY <1>1, <1>3, <1>4, <1>5, <1>6 DEF Tells
<1>9. /\ Tells(Aws!DefaultSecurityGroupOpenRule, "AWS-VPC-002",
               [name |-> {"default"}, ingress |-> {"web", "ssh", "rdp",
                "all_ports"}], l, failed, c)
      /\ Tells(Aws!DefaultSecurityGroupOpenRule, "AWS-VPC-002",
               [name |-> {"default"}, egress |-> {"all_ports"}], l, failed, c)
  BY <1>7, NeverTells DEF NeverReported
<1> QED
  BY <1>8, <1>9

\* AWS::IAM::AccountSummary, as AccountSummarySnapshot writes it.
LEMMA AccountSummaryRows ==
  Honest(Aws!RootAccessKeysRule, "AWS-IAM-001",
         "AWS::IAM::AccountSummary", [summary |-> {"root_keys"}])
<1> SUFFICES ASSUME NEW l \in LiveResources("AWS::IAM::AccountSummary"),
                    NEW failed \in SUBSET Calls("AWS::IAM::AccountSummary"),
                    NEW c, c = Config("AWS::IAM::AccountSummary", l, failed)
             PROVE  Tells(Aws!RootAccessKeysRule, "AWS-IAM-001",
                          [summary |-> {"root_keys"}], l, failed, c)
  BY DEF Honest
<1>1. l \in [summary : {"root_keys", "no_root_keys"}]
  BY DEF LiveResources
<1>2. c = AccountSummarySnapshot(l, failed)
  BY DEF Config
<1>3. Fires(Aws!RootAccessKeysRule, c) <=>
          Matches([summary_map |-> {"root_keys"}], c)
  BY Single DEF Aws!RootAccessKeysRule
<1>4. Matches([summary_map |-> {"root_keys"}], c) <=>
          Or(l.summary, "get_account_summary", failed, "empty")
            \in {"root_keys"}
  BY <1>2 DEF Matches, Value, AccountSummarySnapshot
<1>5. Matches([summary |-> {"root_keys"}], l) <=> l.summary \in {"root_keys"}
  BY <1>1 DEF Matches, Value
<1>6. ~Blind("AWS-IAM-001", l) /\ ~FalseAlarm("AWS-IAM-001", l)
  BY DEF Blind, FalseAlarm, NeverReported, AlwaysReported
<1> QED
  BY <1>1, <1>3, <1>4, <1>5, <1>6 DEF Tells, Or, FailOpenReads

\* AWS::IAM::User, as UserSnapshot writes it.
LEMMA UserRows ==
  /\ Honest(Aws!IamUserNoMfaRule, "AWS-IAM-002",
            "AWS::IAM::User", [password |-> {"used", "never_used"},
             mfa |-> {"false"}])
  /\ Honest(Aws!IamAccessKeyAgeRule, "AWS-IAM-004",
            "AWS::IAM::User", [unread |-> {"false"}])
<1> SUFFICES ASSUME NEW l \in LiveResources("AWS::IAM::User"),
                    NEW failed \in SUBSET Calls("AWS::IAM::User"),
                    NEW c, c = Config("AWS::IAM::User", l, failed)
             PROVE  /\ Tells(Aws!IamUserNoMfaRule, "AWS-IAM-002",
                             [password |-> {"used", "never_used"},
                              mfa |-> {"false"}], l, failed, c)
                    /\ Tells(Aws!IamAccessKeyAgeRule, "AWS-IAM-004",
                             [unread |-> {"false"}], l, failed, c)
  BY DEF Honest
<1>1. l \in [password : {"none", "never_used", "used"}, mfa : Bool,
            unread : Bool]
  BY DEF LiveResources
<1>2. c = UserSnapshot(l, failed)
  BY DEF Config
<1>3. Fires(Aws!IamUserNoMfaRule, c) <=>
          Matches([password_enabled |-> {"true"}, mfa_active |-> Aws!NotTrue],
                   c)
  BY Single DEF Aws!IamUserNoMfaRule
<1>4. Matches([password_enabled |-> {"true"}, mfa_active |-> Aws!NotTrue],
               c) <=>
          /\ (IF l.password = "used" THEN "true" ELSE "false") \in {"true"}
          /\ Or(l.mfa, "list_mfa_devices", failed, "false") \in Aws!NotTrue
  BY <1>2 DEF Matches, Value, UserSnapshot
<1>5. Matches([password |-> {"used", "never_used"}, mfa |-> {"false"}], l) <=>
          /\ l.password \in {"used", "never_used"}
          /\ l.mfa \in {"false"}
  BY <1>1 DEF Matches, Value
<1>6. /\ Blind("AWS-IAM-002", l) <=> l.password = "never_used"
      /\ ~FalseAlarm("AWS-IAM-002", l)
  BY DEF Blind, FalseAlarm, NeverReported, AlwaysReported
<1>7. ~Fires(Aws!IamAccessKeyAgeRule, c)
  <2>1. ~Matches([access_keys |-> {"stale_active"}], c)
    BY <1>2 DEF Matches, Value, UserSnapshot
  <2> QED
    BY <2>1, Single DEF Aws!IamAccessKeyAgeRule
<1>8. Tells(Aws!IamUserNoMfaRule, "AWS-IAM-002",
            [password |-> {"used", "never_used"}, mfa |-> {"false"}], l,
             failed, c)
  BY <1>1, <1>3, <1>4, <1>5, <1>6, LiveTokens DEF Tells, LiveValues, Bool, Or,
    FailOpenReads, Aws!NotTrue, Aws!Not
<1>9. Tells(Aws!IamAccessKeyAgeRule, "AWS-IAM-004",
            [unread |-> {"false"}], l, failed, c)
  BY <1>7, NeverTells DEF NeverReported
<1> QED
  BY <1>8, <1>9

\* AWS::EC2::EIP, as EipSnapshot writes it.
LEMMA EipRows ==
  Honest(Aws!UnattachedEipRule, "AWS-FINOPS-001",
         "AWS::EC2::EIP", [association |-> {"none"}])
<1> SUFFICES ASSUME NEW l \in LiveResources("AWS::EC2::EIP"),
                    NEW failed \in SUBSET Calls("AWS::EC2::EIP"),
                    NEW c, c = Config("AWS::EC2::EIP", l, failed)
             PROVE  Tells(Aws!UnattachedEipRule, "AWS-FINOPS-001",
                          [association |-> {"none"}], l, failed, c)
  BY DEF Honest
<1>1. l \in [association : {"none", "set"}]
  BY DEF LiveResources
<1>2. c = EipSnapshot(l)
  BY DEF Config
<1>3. Fires(Aws!UnattachedEipRule, c) <=>
          Matches([association_id |-> Aws!Falsy], c)
  BY Single DEF Aws!UnattachedEipRule
<1>4. Matches([association_id |-> Aws!Falsy], c) <=>
          l.association \in Aws!Falsy
  BY <1>2 DEF Matches, Value, EipSnapshot
<1>5. Matches([association |-> {"none"}], l) <=> l.association \in {"none"}
  BY <1>1 DEF Matches, Value
<1>6. ~Blind("AWS-FINOPS-001", l) /\ ~FalseAlarm("AWS-FINOPS-001", l)
  BY DEF Blind, FalseAlarm, NeverReported, AlwaysReported
<1> QED
  BY <1>1, <1>3, <1>4, <1>5, <1>6 DEF Tells, Aws!Falsy

\* google.compute.Instance, as GcpInstanceSnapshot writes it.
LEMMA GcpInstanceRows ==
  /\ Honest(Gcp!InstancePublicIpRule, "GCP-CE-001",
            "google.compute.Instance", [ips |-> {"set"}])
  /\ Honest(Gcp!InstanceShieldedVmRule, "GCP-CE-004",
            "google.compute.Instance", [unread |-> {"false"}])
  /\ Honest(Gcp!InstanceOsLoginDisabledRule, "GCP-CE-005",
            "google.compute.Instance", [unread |-> {"false"}])
  /\ Honest(Gcp!InstanceDefaultServiceAccountRule, "GCP-CE-006",
            "google.compute.Instance", [unread |-> {"false"}])
<1> SUFFICES ASSUME NEW l \in LiveResources("google.compute.Instance"),
                    NEW failed \in SUBSET Calls("google.compute.Instance"),
                    NEW c, c = Config("google.compute.Instance", l, failed)
             PROVE  /\ Tells(Gcp!InstancePublicIpRule, "GCP-CE-001",
                             [ips |-> {"set"}], l, failed, c)
                    /\ Tells(Gcp!InstanceShieldedVmRule, "GCP-CE-004",
                             [unread |-> {"false"}], l, failed, c)
                    /\ Tells(Gcp!InstanceOsLoginDisabledRule, "GCP-CE-005",
                             [unread |-> {"false"}], l, failed, c)
                    /\ Tells(Gcp!InstanceDefaultServiceAccountRule, "GCP-CE-006",
                             [unread |-> {"false"}], l, failed, c)
  BY DEF Honest
<1>1. l \in [ips : {"empty", "set"}, tags : Tags, unread : Bool]
  BY DEF LiveResources
<1>2. c = GcpInstanceSnapshot(l)
  BY DEF Config
<1>3. Fires(Gcp!InstancePublicIpRule, c) <=>
          Matches([external_ips |-> Gcp!Truthy], c)
  BY Single DEF Gcp!InstancePublicIpRule
<1>4. Matches([external_ips |-> Gcp!Truthy], c) <=> l.ips \in Gcp!Truthy
  BY <1>2 DEF Matches, Value, GcpInstanceSnapshot
<1>5. Matches([ips |-> {"set"}], l) <=> l.ips \in {"set"}
  BY <1>1 DEF Matches, Value
<1>6. ~Blind("GCP-CE-001", l) /\ ~FalseAlarm("GCP-CE-001", l)
  BY DEF Blind, FalseAlarm, NeverReported, AlwaysReported
<1>7. Fires(Gcp!InstanceShieldedVmRule, c)
  <2>1. Matches([shielded_instance_config |-> Gcp!Not({"all_on"})], c)
    BY <1>2, LiveTokens DEF Matches, Value, GcpInstanceSnapshot, LiveValues,
    Gcp!Not
  <2> QED
    BY <2>1, Single DEF Gcp!InstanceShieldedVmRule
<1>8. Fires(Gcp!InstanceOsLoginDisabledRule, c)
  <2>1. Matches([enable_oslogin |-> Gcp!NotTrue], c)
    BY <1>2, LiveTokens DEF Matches, Value, GcpInstanceSnapshot, LiveValues,
    Gcp!NotTrue, Gcp!Not
  <2> QED
    BY <2>1, Single DEF Gcp!InstanceOsLoginDisabledRule
<1>9. ~Fires(Gcp!InstanceDefaultServiceAccountRule, c)
  <2>1. ~Matches([service_account_emails |-> {"default"}], c)
    BY <1>2 DEF Matches, Value, GcpInstanceSnapshot
  <2> QED
    BY <2>1, Single DEF Gcp!InstanceDefaultServiceAccountRule
<1>10. Tells(Gcp!InstancePublicIpRule, "GCP-CE-001",
             [ips |-> {"set"}], l, failed, c)
  BY <1>1, <1>3, <1>4, <1>5, <1>6, LiveTokens DEF Tells, LiveValues, Bool,
    Gcp!Truthy, Gcp!Not, Gcp!Falsy
<1>11. /\ Tells(Gcp!InstanceShieldedVmRule, "GCP-CE-004",
                [unread |-> {"false"}], l, failed, c)
       /\ Tells(Gcp!InstanceOsLoginDisabledRule, "GCP-CE-005",
                [unread |-> {"false"}], l, failed, c)
       /\ Tells(Gcp!InstanceDefaultServiceAccountRule, "GCP-CE-006",
                [unread |-> {"false"}], l, failed, c)
  BY <1>7, <1>8, <1>9, AlwaysTells, NeverTells DEF AlwaysReported,
    NeverReported
<1> QED
  BY <1>10, <1>11

\* google.compute.Disk, as GcpDiskSnapshot writes it.
LEMMA GcpDiskRows ==
  /\ Honest(Gcp!DiskCmekEncryptionRule, "GCP-CE-002",
            "google.compute.Disk", [cmek |-> {"false"}])
  /\ Honest(Gcp!UnattachedDiskRule, "GCP-CE-003",
            "google.compute.Disk", [users |-> {"empty"}])
<1> SUFFICES ASSUME NEW l \in LiveResources("google.compute.Disk"),
                    NEW failed \in SUBSET Calls("google.compute.Disk"),
                    NEW c, c = Config("google.compute.Disk", l, failed)
             PROVE  /\ Tells(Gcp!DiskCmekEncryptionRule, "GCP-CE-002",
                             [cmek |-> {"false"}], l, failed, c)
                    /\ Tells(Gcp!UnattachedDiskRule, "GCP-CE-003",
                             [users |-> {"empty"}], l, failed, c)
  BY DEF Honest
<1>1. l \in [users : {"empty", "set"}, cmek : Bool, cost : Prices]
  BY DEF LiveResources
<1>2. c = GcpDiskSnapshot(l)
  BY DEF Config
<1>3. /\ Fires(Gcp!DiskCmekEncryptionRule, c) <=>
             Matches([cmek_encrypted |-> Gcp!NotTrue], c)
      /\ Fires(Gcp!UnattachedDiskRule, c) <=>
             Matches([users |-> Gcp!Falsy], c)
  BY Single DEF Gcp!DiskCmekEncryptionRule, Gcp!UnattachedDiskRule
<1>4. /\ Matches([cmek_encrypted |-> Gcp!NotTrue], c) <=>
             l.cmek \in Gcp!NotTrue
      /\ Matches([users |-> Gcp!Falsy], c) <=> l.users \in Gcp!Falsy
  BY <1>2 DEF Matches, Value, GcpDiskSnapshot
<1>5. /\ Matches([cmek |-> {"false"}], l) <=> l.cmek \in {"false"}
      /\ Matches([users |-> {"empty"}], l) <=> l.users \in {"empty"}
  BY <1>1 DEF Matches, Value
<1>6. /\ ~Blind("GCP-CE-002", l) /\ ~FalseAlarm("GCP-CE-002", l)
      /\ ~Blind("GCP-CE-003", l) /\ ~FalseAlarm("GCP-CE-003", l)
  BY DEF Blind, FalseAlarm, NeverReported, AlwaysReported
<1> QED
  BY <1>1, <1>3, <1>4, <1>5, <1>6, LiveTokens DEF Tells, LiveValues, Bool,
    Gcp!NotTrue, Gcp!Not, Gcp!Falsy

\* google.compute.Firewall, as GcpFirewallSnapshot writes it.
LEMMA GcpFirewallRows ==
  /\ Honest(Gcp!FirewallSshOpenRule, "GCP-NET-001",
            "google.compute.Firewall", [disabled |-> {"false"},
             direction |-> {"INGRESS"}, sources |-> {"world"}, allowed |-> {"ssh", "all"}])
  /\ Honest(Gcp!FirewallRdpOpenRule, "GCP-NET-002",
            "google.compute.Firewall", [disabled |-> {"false"},
             direction |-> {"INGRESS"}, sources |-> {"world"}, allowed |-> {"rdp", "all"}])
  /\ Honest(Gcp!FirewallAnyPortOpenRule, "GCP-NET-003",
            "google.compute.Firewall", [direction |-> {"INGRESS"},
             sources |-> {"world"}, allowed |-> {"all"}])
  /\ Honest(Gcp!FirewallLoggingDisabledRule, "GCP-NET-004",
            "google.compute.Firewall", [unread |-> {"false"}])
<1> SUFFICES ASSUME NEW l \in LiveResources("google.compute.Firewall"),
                    NEW failed \in SUBSET Calls("google.compute.Firewall"),
                    NEW c, c = Config("google.compute.Firewall", l, failed)
             PROVE  /\ Tells(Gcp!FirewallSshOpenRule, "GCP-NET-001",
                             [disabled |-> {"false"},
                              direction |-> {"INGRESS"}, sources |-> {"world"}, allowed |-> {"ssh", "all"}], l, failed, c)
                    /\ Tells(Gcp!FirewallRdpOpenRule, "GCP-NET-002",
                             [disabled |-> {"false"},
                              direction |-> {"INGRESS"}, sources |-> {"world"}, allowed |-> {"rdp", "all"}], l, failed, c)
                    /\ Tells(Gcp!FirewallAnyPortOpenRule, "GCP-NET-003",
                             [direction |-> {"INGRESS"},
                              sources |-> {"world"}, allowed |-> {"all"}], l, failed, c)
                    /\ Tells(Gcp!FirewallLoggingDisabledRule, "GCP-NET-004",
                             [unread |-> {"false"}], l, failed, c)
  BY DEF Honest
<1>1. l \in [direction : {"INGRESS", "EGRESS"}, disabled : Bool,
            sources : {"world", "private"}, allowed : {"ssh", "rdp", "all",
            "icmp", "web"}, unread : Bool]
  BY DEF LiveResources
<1>2. c = GcpFirewallSnapshot(l)
  BY DEF Config
<1>3. /\ Fires(Gcp!FirewallSshOpenRule, c) <=>
             Matches([disabled |-> Gcp!Falsy, direction |-> {"INGRESS"},
                      source_ranges |-> {"world"}, allowed |-> {"ssh",
                      "all"}], c)
      /\ Fires(Gcp!FirewallRdpOpenRule, c) <=>
             Matches([disabled |-> Gcp!Falsy, direction |-> {"INGRESS"},
                      source_ranges |-> {"world"}, allowed |-> {"rdp",
                      "all"}], c)
      /\ Fires(Gcp!FirewallAnyPortOpenRule, c) <=>
             Matches([direction |-> {"INGRESS"}, source_ranges |-> {"world",
                      "world_v6"}, allowed |-> {"all", "icmp"}], c)
  <2>1. Fires(Gcp!FirewallSshOpenRule, c) <=>
            Matches([disabled |-> Gcp!Falsy, direction |-> {"INGRESS"},
                     source_ranges |-> {"world"}, allowed |-> {"ssh", "all"}],
                     c)
    BY Single DEF Gcp!FirewallSshOpenRule
  <2>2. Fires(Gcp!FirewallRdpOpenRule, c) <=>
            Matches([disabled |-> Gcp!Falsy, direction |-> {"INGRESS"},
                     source_ranges |-> {"world"}, allowed |-> {"rdp", "all"}],
                     c)
    BY Single DEF Gcp!FirewallRdpOpenRule
  <2>3. Fires(Gcp!FirewallAnyPortOpenRule, c) <=>
            Matches([direction |-> {"INGRESS"}, source_ranges |-> {"world",
                     "world_v6"}, allowed |-> {"all", "icmp"}], c)
    BY Single DEF Gcp!FirewallAnyPortOpenRule
  <2> QED
    BY <2>1, <2>2, <2>3
<1>4. /\ Matches([disabled |-> Gcp!Falsy, direction |-> {"INGRESS"},
                  source_ranges |-> {"world"}, allowed |-> {"ssh", "all"}],
                  c) <=>
             /\ l.disabled \in Gcp!Falsy
             /\ l.direction \in {"INGRESS"}
             /\ l.sources \in {"world"}
             /\ l.allowed \in {"ssh", "all"}
      /\ Matches([disabled |-> Gcp!Falsy, direction |-> {"INGRESS"},
                  source_ranges |-> {"world"}, allowed |-> {"rdp", "all"}],
                  c) <=>
             /\ l.disabled \in Gcp!Falsy
             /\ l.direction \in {"INGRESS"}
             /\ l.sources \in {"world"}
             /\ l.allowed \in {"rdp", "all"}
      /\ Matches([direction |-> {"INGRESS"}, source_ranges |-> {"world",
                  "world_v6"}, allowed |-> {"all", "icmp"}], c) <=>
             /\ l.direction \in {"INGRESS"}
             /\ l.sources \in {"world", "world_v6"}
             /\ l.allowed \in {"all", "icmp"}
  BY <1>2 DEF Matches, Value, GcpFirewallSnapshot
<1>5. /\ Matches([disabled |-> {"false"}, direction |-> {"INGRESS"},
                  sources |-> {"world"}, allowed |-> {"ssh", "all"}], l) <=>
             /\ l.disabled \in {"false"}
             /\ l.direction \in {"INGRESS"}
             /\ l.sources \in {"world"}
             /\ l.allowed \in {"ssh", "all"}
      /\ Matches([disabled |-> {"false"}, direction |-> {"INGRESS"},
                  sources |-> {"world"}, allowed |-> {"rdp", "all"}], l) <=>
             /\ l.disabled \in {"false"}
             /\ l.direction \in {"INGRESS"}
             /\ l.sources \in {"world"}
             /\ l.allowed \in {"rdp", "all"}
      /\ Matches([direction |-> {"INGRESS"}, sources |-> {"world"},
                  allowed |-> {"all"}], l) <=>
             /\ l.direction \in {"INGRESS"}
             /\ l.sources \in {"world"}
             /\ l.allowed \in {"all"}
  BY <1>1 DEF Matches, Value
<1>6. /\ ~Blind("GCP-NET-001", l) /\ ~FalseAlarm("GCP-NET-001", l)
      /\ ~Blind("GCP-NET-002", l) /\ ~FalseAlarm("GCP-NET-002", l)
      /\ ~Blind("GCP-NET-003", l)
      /\ FalseAlarm("GCP-NET-003", l) <=>
             /\ l.direction = "INGRESS"
             /\ l.sources = "world"
             /\ l.allowed = "icmp"
  BY DEF Blind, FalseAlarm, NeverReported, AlwaysReported
<1>7. Fires(Gcp!FirewallLoggingDisabledRule, c)
  <2>1. Matches([log_config_enabled |-> Gcp!NotTrue], c)
    BY <1>2, LiveTokens DEF Matches, Value, GcpFirewallSnapshot, LiveValues,
    Gcp!NotTrue, Gcp!Not
  <2> QED
    BY <2>1, Single DEF Gcp!FirewallLoggingDisabledRule
<1>8. /\ Tells(Gcp!FirewallSshOpenRule, "GCP-NET-001",
               [disabled |-> {"false"}, direction |-> {"INGRESS"},
                sources |-> {"world"}, allowed |-> {"ssh", "all"}], l, failed, c)
      /\ Tells(Gcp!FirewallRdpOpenRule, "GCP-NET-002",
               [disabled |-> {"false"}, direction |-> {"INGRESS"},
                sources |-> {"world"}, allowed |-> {"rdp", "all"}], l, failed, c)
      /\ Tells(Gcp!FirewallAnyPortOpenRule, "GCP-NET-003",
               [direction |-> {"INGRESS"}, sources |-> {"world"},
                allowed |-> {"all"}], l, failed, c)
  BY <1>1, <1>3, <1>4, <1>5, <1>6 DEF Tells, Bool, Gcp!Falsy
<1>9. Tells(Gcp!FirewallLoggingDisabledRule, "GCP-NET-004",
            [unread |-> {"false"}], l, failed, c)
  BY <1>7, AlwaysTells DEF AlwaysReported
<1> QED
  BY <1>8, <1>9

\* google.storage.Bucket, as GcpBucketSnapshot writes it.
LEMMA GcpBucketRows ==
  /\ Honest(Gcp!BucketPublicAccessRule, "GCP-GCS-001",
            "google.storage.Bucket", [public |-> {"true"}])
  /\ Honest(Gcp!BucketUniformAccessRule, "GCP-GCS-002",
            "google.storage.Bucket", [uniform |-> {"false"}])
  /\ Honest(Gcp!BucketVersioningDisabledRule, "GCP-GCS-003",
            "google.storage.Bucket", [unread |-> {"false"}])
  /\ Honest(Gcp!BucketRetentionPolicyRule, "GCP-GCS-004",
            "google.storage.Bucket", [unread |-> {"false"}])
<1> SUFFICES ASSUME NEW l \in LiveResources("google.storage.Bucket"),
                    NEW failed \in SUBSET Calls("google.storage.Bucket"),
                    NEW c, c = Config("google.storage.Bucket", l, failed)
             PROVE  /\ Tells(Gcp!BucketPublicAccessRule, "GCP-GCS-001",
                             [public |-> {"true"}], l, failed, c)
                    /\ Tells(Gcp!BucketUniformAccessRule, "GCP-GCS-002",
                             [uniform |-> {"false"}], l, failed, c)
                    /\ Tells(Gcp!BucketVersioningDisabledRule, "GCP-GCS-003",
                             [unread |-> {"false"}], l, failed, c)
                    /\ Tells(Gcp!BucketRetentionPolicyRule, "GCP-GCS-004",
                             [unread |-> {"false"}], l, failed, c)
  BY DEF Honest
<1>1. l \in [uniform : Bool, public : Bool, unread : Bool]
  BY DEF LiveResources
<1>2. c = GcpBucketSnapshot(l, failed)
  BY DEF Config
<1>3. /\ Fires(Gcp!BucketPublicAccessRule, c) <=>
             Matches([public_iam_member |-> Gcp!Truthy], c)
      /\ Fires(Gcp!BucketUniformAccessRule, c) <=>
             Matches([uniform_bucket_level_access |-> Gcp!NotTrue], c)
  BY Single DEF Gcp!BucketPublicAccessRule, Gcp!BucketUniformAccessRule
<1>4. /\ Matches([public_iam_member |-> Gcp!Truthy], c) <=>
             Or(l.public, "get_iam_policy", failed, "false") \in Gcp!Truthy
      /\ Matches([uniform_bucket_level_access |-> Gcp!NotTrue], c) <=>
             l.uniform \in Gcp!NotTrue
  BY <1>2 DEF Matches, Value, GcpBucketSnapshot
<1>5. /\ Matches([public |-> {"true"}], l) <=> l.public \in {"true"}
      /\ Matches([uniform |-> {"false"}], l) <=> l.uniform \in {"false"}
  BY <1>1 DEF Matches, Value
<1>6. /\ ~Blind("GCP-GCS-001", l) /\ ~FalseAlarm("GCP-GCS-001", l)
      /\ ~Blind("GCP-GCS-002", l) /\ ~FalseAlarm("GCP-GCS-002", l)
  BY DEF Blind, FalseAlarm, NeverReported, AlwaysReported
<1>7. Fires(Gcp!BucketVersioningDisabledRule, c)
  <2>1. Matches([versioning_enabled |-> Gcp!NotTrue], c)
    BY <1>2, LiveTokens DEF Matches, Value, GcpBucketSnapshot, LiveValues,
    Gcp!NotTrue, Gcp!Not
  <2> QED
    BY <2>1, Single DEF Gcp!BucketVersioningDisabledRule
<1>8. Fires(Gcp!BucketRetentionPolicyRule, c)
  <2>1. Matches([retention_policy |-> Gcp!Not({"locked"})], c)
    BY <1>2, LiveTokens DEF Matches, Value, GcpBucketSnapshot, LiveValues,
    Gcp!Not
  <2> QED
    BY <2>1, Single DEF Gcp!BucketRetentionPolicyRule
<1>9. /\ Tells(Gcp!BucketPublicAccessRule, "GCP-GCS-001",
               [public |-> {"true"}], l, failed, c)
      /\ Tells(Gcp!BucketUniformAccessRule, "GCP-GCS-002",
               [uniform |-> {"false"}], l, failed, c)
  BY <1>1, <1>3, <1>4, <1>5, <1>6, LiveTokens DEF Tells, LiveValues, Bool, Or,
    FailOpenReads, Gcp!NotTrue, Gcp!Not, Gcp!Truthy, Gcp!Falsy
<1>10. /\ Tells(Gcp!BucketVersioningDisabledRule, "GCP-GCS-003",
                [unread |-> {"false"}], l, failed, c)
       /\ Tells(Gcp!BucketRetentionPolicyRule, "GCP-GCS-004",
                [unread |-> {"false"}], l, failed, c)
  BY <1>7, <1>8, AlwaysTells DEF AlwaysReported
<1> QED
  BY <1>9, <1>10

\* google.iam.ServiceAccount, as GcpServiceAccountSnapshot writes it.
LEMMA GcpServiceAccountRows ==
  /\ Honest(Gcp!ServiceAccountUserManagedKeyRule, "GCP-IAM-001",
            "google.iam.ServiceAccount", [keys |-> {"some"}])
  /\ Honest(Gcp!ServiceAccountKeyAgeRule, "GCP-IAM-004",
            "google.iam.ServiceAccount", [keys |-> {"some"},
             unread |-> {"false"}])
<1> SUFFICES ASSUME NEW l \in LiveResources("google.iam.ServiceAccount"),
                    NEW failed \in SUBSET Calls("google.iam.ServiceAccount"),
                    NEW c, c = Config("google.iam.ServiceAccount", l, failed)
             PROVE  /\ Tells(Gcp!ServiceAccountUserManagedKeyRule, "GCP-IAM-001",
                             [keys |-> {"some"}], l, failed, c)
                    /\ Tells(Gcp!ServiceAccountKeyAgeRule, "GCP-IAM-004",
                             [keys |-> {"some"}, unread |-> {"false"}], l,
                              failed, c)
  BY DEF Honest
<1>1. l \in [keys : {"zero", "some"}, unread : Bool]
  BY DEF LiveResources
<1>2. c = GcpServiceAccountSnapshot(l, failed)
  BY DEF Config
<1>3. Fires(Gcp!ServiceAccountUserManagedKeyRule, c) <=>
          Matches([user_managed_keys |-> {"some"}], c)
  BY <1>2 DEF Fires, Raises, Matches, Value, GcpServiceAccountSnapshot, Or,
    Gcp!ServiceAccountUserManagedKeyRule, Gcp!Rule, Gcp!Raising
<1>4. Matches([user_managed_keys |-> {"some"}], c) <=>
          Or(l.keys, "list_service_account_keys", failed, "zero") \in {"some"}
  BY <1>2 DEF Matches, Value, GcpServiceAccountSnapshot
<1>5. Matches([keys |-> {"some"}], l) <=> l.keys \in {"some"}
  BY <1>1 DEF Matches, Value
<1>6. ~Blind("GCP-IAM-001", l) /\ ~FalseAlarm("GCP-IAM-001", l)
  BY DEF Blind, FalseAlarm, NeverReported, AlwaysReported
<1>7. ~Fires(Gcp!ServiceAccountKeyAgeRule, c)
  BY <1>1, <1>2 DEF Fires, Raises, Or, Matches, Value,
    GcpServiceAccountSnapshot, Gcp!ServiceAccountKeyAgeRule, Gcp!Raising,
    Gcp!Rule
<1>8. Tells(Gcp!ServiceAccountUserManagedKeyRule, "GCP-IAM-001",
            [keys |-> {"some"}], l, failed, c)
  BY <1>1, <1>3, <1>4, <1>5, <1>6 DEF Tells, Bool, Or, FailOpenReads
<1>9. Tells(Gcp!ServiceAccountKeyAgeRule, "GCP-IAM-004",
            [keys |-> {"some"}, unread |-> {"false"}], l, failed, c)
  BY <1>7, NeverTells DEF NeverReported
<1> QED
  BY <1>8, <1>9

\* The rule of every row of Meaning.
LEMMA TableHolds ==
  ASSUME NEW m \in Meaning
  PROVE  \E r : Means(r, m)
<1>1. /\ Means(Azure!PublicBlobAccessRule,
               Row("STOR-001", "Microsoft.Storage/storageAccounts",
                   [public |-> {"true"}]))
      /\ Means(Azure!HttpTrafficAllowedRule,
               Row("STOR-002", "Microsoft.Storage/storageAccounts",
                   [https |-> {"false"}]))
      /\ Means(Azure!MinTlsVersionRule,
               Row("STOR-003", "Microsoft.Storage/storageAccounts",
                   [tls |-> {"TLS1_0"}]))
      /\ Means(Azure!SharedKeyAuthRule,
               Row("STOR-004", "Microsoft.Storage/storageAccounts",
                   [keys |-> {"none"}]))
      /\ Means(Azure!NetworkDefaultActionRule,
               Row("STOR-005", "Microsoft.Storage/storageAccounts",
                   [network |-> {"Allow"}]))
      /\ Means(Azure!InfrastructureEncryptionRule,
               Row("STOR-008", "Microsoft.Storage/storageAccounts",
                   [infrastructure |-> {"none"}]))
      /\ Means(Azure!BlobSoftDeleteRule,
               Row("STOR-006", "Microsoft.Storage/storageAccounts",
                   [unread |-> {"false"}]))
      /\ Means(Azure!BlobVersioningRule,
               Row("STOR-007", "Microsoft.Storage/storageAccounts",
                   [unread |-> {"false"}]))
      /\ Means(Azure!DiagnosticLoggingRule,
               Row("STOR-009", "Microsoft.Storage/storageAccounts",
                   [unread |-> {"false"}]))
  BY StorageRows DEF Means, Row, Discovered, Applies, AnyType, Azure!AnyType,
    Azure!RULE_REGISTRY, Azure!Rule, Azure!PublicBlobAccessRule,
    Azure!HttpTrafficAllowedRule, Azure!MinTlsVersionRule,
    Azure!SharedKeyAuthRule, Azure!NetworkDefaultActionRule,
    Azure!InfrastructureEncryptionRule, Azure!BlobSoftDeleteRule,
    Azure!BlobVersioningRule, Azure!DiagnosticLoggingRule
<1>2. /\ Means(Azure!SSHOpenToInternetRule,
               Row("NET-001", "Microsoft.Network/networkSecurityGroups",
                   [rules |-> {"ssh", "range", "any_port"}]))
      /\ Means(Azure!RDPOpenToInternetRule,
               Row("NET-002", "Microsoft.Network/networkSecurityGroups",
                   [rules |-> {"rdp", "range", "any_port"}]))
      /\ Means(Azure!AnyPortOpenToInternetRule,
               Row("NET-003", "Microsoft.Network/networkSecurityGroups",
                   [rules |-> {"any_port"}]))
      /\ Means(Azure!InboundAllowAllRule,
               Row("NET-005", "Microsoft.Network/networkSecurityGroups",
                   [rules |-> {"any_port"}]))
      /\ Means(Azure!NSGFlowLogsRule,
               Row("NET-004", "Microsoft.Network/networkSecurityGroups",
                   [unread |-> {"false"}]))
  BY NsgRows DEF Means, Row, Discovered, Applies, AnyType, Azure!AnyType,
    Azure!RULE_REGISTRY, Azure!Rule, Azure!SSHOpenToInternetRule,
    Azure!RDPOpenToInternetRule, Azure!AnyPortOpenToInternetRule,
    Azure!InboundAllowAllRule, Azure!NSGFlowLogsRule
<1>3. /\ Means(Azure!MissingCostTagsRule,
               Row("VM-006", "Microsoft.Compute/virtualMachines",
                   [tags |-> {"empty"}]))
      /\ Means(Azure!OSDiskEncryptionRule,
               Row("VM-001", "Microsoft.Compute/virtualMachines",
                   [diskEncryption |-> {"false"}]))
      /\ Means(Azure!UnmanagedDiskRule,
               Row("VM-002", "Microsoft.Compute/virtualMachines",
                   [disk |-> {"vhd"}]))
      /\ Means(Azure!NoBackupPolicyRule,
               Row("VM-003", "Microsoft.Compute/virtualMachines",
                   [unread |-> {"false"}]))
      /\ Means(Azure!PublicIPDirectAttachedRule,
               Row("VM-004", "Microsoft.Compute/virtualMachines",
                   [unread |-> {"false"}]))
      /\ Means(Azure!OutdatedOSImageRule,
               Row("VM-005", "Microsoft.Compute/virtualMachines",
                   [unread |-> {"false"}]))
  BY VmRows DEF Means, Row, Discovered, Applies, AnyType, Azure!AnyType,
    Azure!RULE_REGISTRY, Azure!Rule, Azure!MissingCostTagsRule,
    Azure!OSDiskEncryptionRule, Azure!UnmanagedDiskRule,
    Azure!NoBackupPolicyRule, Azure!PublicIPDirectAttachedRule,
    Azure!OutdatedOSImageRule
<1>4. /\ Means(Azure!SoftDeleteRule,
               Row("KV-001", "Microsoft.KeyVault/vaults",
                   [softDelete |-> {"none"}]))
      /\ Means(Azure!PurgeProtectionRule,
               Row("KV-002", "Microsoft.KeyVault/vaults",
                   [purge |-> {"none"}]))
      /\ Means(Azure!PublicNetworkAccessRule,
               Row("KV-003", "Microsoft.KeyVault/vaults",
                   [public |-> {"Enabled"}]))
      /\ Means(Azure!NoDiagnosticLoggingRule,
               Row("KV-004", "Microsoft.KeyVault/vaults",
                   [unread |-> {"false"}]))
      /\ Means(Azure!SecretNoExpiryRule,
               Row("KV-005", "Microsoft.KeyVault/vaults",
                   [unread |-> {"false"}]))
  BY VaultRows DEF Means, Row, Discovered, Applies, AnyType, Azure!AnyType,
    Azure!RULE_REGISTRY, Azure!Rule, Azure!SoftDeleteRule,
    Azure!PurgeProtectionRule, Azure!PublicNetworkAccessRule,
    Azure!NoDiagnosticLoggingRule, Azure!SecretNoExpiryRule
<1>5. /\ Means(Aws!S3PublicAclRule,
               Row("AWS-S3-001", "AWS::S3::Bucket", [acl |-> {"public"}]))
      /\ Means(Aws!S3PublicAccessBlockRule,
               Row("AWS-S3-002", "AWS::S3::Bucket",
                   [block |-> {"empty", "partial"}]))
      /\ Means(Aws!S3BucketEncryptionRule,
               Row("AWS-S3-003", "AWS::S3::Bucket",
                   [encryption |-> {"empty"}]))
      /\ Means(Aws!S3VersioningDisabledRule,
               Row("AWS-S3-004", "AWS::S3::Bucket", [unread |-> {"false"}]))
      /\ Means(Aws!S3LoggingDisabledRule,
               Row("AWS-S3-005", "AWS::S3::Bucket", [unread |-> {"false"}]))
  BY BucketRows DEF Means, Row, Discovered, Applies, AnyType,
    Aws!AWS_RULE_REGISTRY, Aws!Rule, Aws!S3PublicAclRule,
    Aws!S3PublicAccessBlockRule, Aws!S3BucketEncryptionRule,
    Aws!S3VersioningDisabledRule, Aws!S3LoggingDisabledRule
<1>6. /\ Means(Aws!EbsEncryptionRule,
               Row("AWS-EC2-001", "AWS::EC2::Volume",
                   [encrypted |-> {"false"}]))
      /\ Means(Aws!UnattachedEbsVolumeRule,
               Row("AWS-EC2-003", "AWS::EC2::Volume",
                   [state |-> {"available"}]))
  BY VolumeRows DEF Means, Row, Discovered, Applies, AnyType,
    Aws!AWS_RULE_REGISTRY, Aws!Rule, Aws!Wasteful, Aws!EbsEncryptionRule,
    Aws!UnattachedEbsVolumeRule
<1>7. Means(Aws!InstancePublicIpRule,
            Row("AWS-EC2-002", "AWS::EC2::Instance", [ip |-> {"set"}]))
  BY InstanceRows DEF Means, Row, Discovered, Applies, AnyType,
    Aws!AWS_RULE_REGISTRY, Aws!Rule, Aws!InstancePublicIpRule
<1>8. /\ Means(Aws!SSHOpenToInternetRule,
               Row("AWS-SG-001", "AWS::EC2::SecurityGroup",
                   [ingress |-> {"ssh", "all_ports"}]))
      /\ Means(Aws!RDPOpenToInternetRule,
               Row("AWS-SG-002", "AWS::EC2::SecurityGroup",
                   [ingress |-> {"rdp", "all_ports"}]))
      /\ Means(Aws!DefaultSecurityGroupOpenRule,
               Row("AWS-VPC-002", "AWS::EC2::SecurityGroup",
                   [name |-> {"default"}, ingress |-> {"web", "ssh", "rdp",
                    "all_ports"}]))
      /\ Means(Aws!DefaultSecurityGroupOpenRule,
               Row("AWS-VPC-002", "AWS::EC2::SecurityGroup",
                   [name |-> {"default"}, egress |-> {"all_ports"}]))
  BY SecurityGroupRows DEF Means, Row, Discovered, Applies, AnyType,
    Aws!AWS_RULE_REGISTRY, Aws!Rule, Aws!SSHOpenToInternetRule,
    Aws!RDPOpenToInternetRule, Aws!DefaultSecurityGroupOpenRule
<1>9. Means(Aws!RootAccessKeysRule,
            Row("AWS-IAM-001", "AWS::IAM::AccountSummary",
                [summary |-> {"root_keys"}]))
  BY AccountSummaryRows DEF Means, Row, Discovered, Applies, AnyType,
    Aws!AWS_RULE_REGISTRY, Aws!Rule, Aws!RootAccessKeysRule
<1>10. /\ Means(Aws!IamUserNoMfaRule,
                Row("AWS-IAM-002", "AWS::IAM::User",
                    [password |-> {"used", "never_used"}, mfa |-> {"false"}]))
       /\ Means(Aws!IamAccessKeyAgeRule,
                Row("AWS-IAM-004", "AWS::IAM::User", [unread |-> {"false"}]))
  BY UserRows DEF Means, Row, Discovered, Applies, AnyType,
    Aws!AWS_RULE_REGISTRY, Aws!Rule, Aws!IamUserNoMfaRule,
    Aws!IamAccessKeyAgeRule
<1>11. Means(Aws!UnattachedEipRule,
             Row("AWS-FINOPS-001", "AWS::EC2::EIP",
                 [association |-> {"none"}]))
  BY EipRows DEF Means, Row, Discovered, Applies, AnyType,
    Aws!AWS_RULE_REGISTRY, Aws!Rule, Aws!Wasteful, Aws!UnattachedEipRule
<1>12. /\ Means(Gcp!InstancePublicIpRule,
                Row("GCP-CE-001", "google.compute.Instance",
                    [ips |-> {"set"}]))
       /\ Means(Gcp!InstanceShieldedVmRule,
                Row("GCP-CE-004", "google.compute.Instance",
                    [unread |-> {"false"}]))
       /\ Means(Gcp!InstanceOsLoginDisabledRule,
                Row("GCP-CE-005", "google.compute.Instance",
                    [unread |-> {"false"}]))
       /\ Means(Gcp!InstanceDefaultServiceAccountRule,
                Row("GCP-CE-006", "google.compute.Instance",
                    [unread |-> {"false"}]))
  BY GcpInstanceRows DEF Means, Row, Discovered, Applies, AnyType,
    Gcp!GCP_RULE_REGISTRY, Gcp!Rule, Gcp!InstancePublicIpRule,
    Gcp!InstanceShieldedVmRule, Gcp!InstanceOsLoginDisabledRule,
    Gcp!InstanceDefaultServiceAccountRule
<1>13. /\ Means(Gcp!DiskCmekEncryptionRule,
                Row("GCP-CE-002", "google.compute.Disk", [cmek |-> {"false"}]))
       /\ Means(Gcp!UnattachedDiskRule,
                Row("GCP-CE-003", "google.compute.Disk",
                    [users |-> {"empty"}]))
  BY GcpDiskRows DEF Means, Row, Discovered, Applies, AnyType,
    Gcp!GCP_RULE_REGISTRY, Gcp!Rule, Gcp!Wasteful, Gcp!DiskCmekEncryptionRule,
    Gcp!UnattachedDiskRule
<1>14. /\ Means(Gcp!FirewallSshOpenRule,
                Row("GCP-NET-001", "google.compute.Firewall",
                    [disabled |-> {"false"}, direction |-> {"INGRESS"},
                     sources |-> {"world"}, allowed |-> {"ssh", "all"}]))
       /\ Means(Gcp!FirewallRdpOpenRule,
                Row("GCP-NET-002", "google.compute.Firewall",
                    [disabled |-> {"false"}, direction |-> {"INGRESS"},
                     sources |-> {"world"}, allowed |-> {"rdp", "all"}]))
       /\ Means(Gcp!FirewallAnyPortOpenRule,
                Row("GCP-NET-003", "google.compute.Firewall",
                    [direction |-> {"INGRESS"}, sources |-> {"world"},
                     allowed |-> {"all"}]))
       /\ Means(Gcp!FirewallLoggingDisabledRule,
                Row("GCP-NET-004", "google.compute.Firewall",
                    [unread |-> {"false"}]))
  BY GcpFirewallRows DEF Means, Row, Discovered, Applies, AnyType,
    Gcp!GCP_RULE_REGISTRY, Gcp!Rule, Gcp!FirewallSshOpenRule,
    Gcp!FirewallRdpOpenRule, Gcp!FirewallAnyPortOpenRule,
    Gcp!FirewallLoggingDisabledRule
<1>15. /\ Means(Gcp!BucketPublicAccessRule,
                Row("GCP-GCS-001", "google.storage.Bucket",
                    [public |-> {"true"}]))
       /\ Means(Gcp!BucketUniformAccessRule,
                Row("GCP-GCS-002", "google.storage.Bucket",
                    [uniform |-> {"false"}]))
       /\ Means(Gcp!BucketVersioningDisabledRule,
                Row("GCP-GCS-003", "google.storage.Bucket",
                    [unread |-> {"false"}]))
       /\ Means(Gcp!BucketRetentionPolicyRule,
                Row("GCP-GCS-004", "google.storage.Bucket",
                    [unread |-> {"false"}]))
  BY GcpBucketRows DEF Means, Row, Discovered, Applies, AnyType,
    Gcp!GCP_RULE_REGISTRY, Gcp!Rule, Gcp!BucketPublicAccessRule,
    Gcp!BucketUniformAccessRule, Gcp!BucketVersioningDisabledRule,
    Gcp!BucketRetentionPolicyRule
<1>16. /\ Means(Gcp!ServiceAccountUserManagedKeyRule,
                Row("GCP-IAM-001", "google.iam.ServiceAccount",
                    [keys |-> {"some"}]))
       /\ Means(Gcp!ServiceAccountKeyAgeRule,
                Row("GCP-IAM-004", "google.iam.ServiceAccount",
                    [keys |-> {"some"}, unread |-> {"false"}]))
  BY GcpServiceAccountRows DEF Means, Row, Discovered, Applies, AnyType,
    Gcp!GCP_RULE_REGISTRY, Gcp!Rule, Gcp!Raising,
    Gcp!ServiceAccountUserManagedKeyRule, Gcp!ServiceAccountKeyAgeRule
<1>17. m \in Meaning
  OBVIOUS
<1> QED
  BY <1>1, <1>2, <1>3, <1>4, <1>5, <1>6, <1>7, <1>8, <1>9, <1>10, <1>11, <1>12,
    <1>13, <1>14, <1>15, <1>16, <1>17 DEF Meaning

-----------------------------------------------------------------------------
(* What one evaluation says.                                               *)

\* What is stored under the resource's own subscription has the id of a known
\* rule, and what goes to the partition "unknown" one of the first generation.
LEMMA VerdictIds ==
  ASSUME NEW path, NEW type, NEW l, NEW failed
  PROVE  /\ Stored(Verdicts(path, type, l, failed)) \subseteq RuleIds
         /\ Strays(Verdicts(path, type, l, failed)) \subseteq LegacyIds
<1> DEFINE V == Verdicts(path, type, l, failed)
<1>1. \A r \in V : r \in Discovered \cup Azure!ScannerRules
  BY DEF Verdicts, Evaluate, Native, Callable, Registered, Discovered
<1>2. \A r \in V : ~r.legacy => r \in Discovered
  BY <1>1, ClassSheet
<1>3. \A r \in V : r.legacy => r \in Azure!ScannerRules
  BY <1>1, ClassSheet
<1> HIDE DEF V
<1>4. Stored(V) \subseteq RuleIds
  BY <1>2 DEF Stored, RuleIds, Ids
<1>5. Strays(V) \subseteq LegacyIds
  BY <1>3 DEF Strays, LegacyIds, Ids
<1> QED
  BY <1>4, <1>5 DEF V

\* A row of Meaning about a resource of its type.  An issue its rule is not
\* blind to is stored unless one of its fail-open reads failed.  With all reads
\* answered nothing else is stored under the id, by either engine, but the
\* rule's false alarms.
LEMMA RowAnswer ==
  ASSUME NEW m \in Meaning, NEW path, NEW l \in LiveResources(m.type),
         NEW failed \in SUBSET Calls(m.type)
  PROVE  LET issue == Matches(m.bad, l) /\ ~Blind(m.id, l)
             saved == m.id \in Stored(Verdicts(path, m.type, l, failed))
         IN  /\ issue /\ failed \cap FailOpenReads(m.id) = {} => saved
             /\ failed = {} => (saved <=> issue \/ FalseAlarm(m.id, l))
<1> DEFINE c == Config(m.type, l, failed)
           V == Verdicts(path, m.type, l, failed)
<1>1. PICK r : Means(r, m)
  BY TableHolds
<1>2. Tells(r, m.id, m.bad, l, failed, c)
  BY <1>1 DEF Means, Honest
<1>3. r.id = m.id /\ r.legacy = FALSE /\ r \in Discovered /\ Applies(r, m.type)
  BY <1>1 DEF Means
<1>4. Fires(r, c) => r \in V
  BY <1>3 DEF Verdicts, Evaluate, Native
<1>5. \A s \in V : Fires(s, c) /\ s \in Discovered \cup Azure!ScannerRules
  BY DEF Verdicts, Evaluate, Native, Callable, Registered, Discovered
<1> HIDE DEF c, V
<1>6. m.id \in Stored(V) <=> Fires(r, c)
  <2>1. ASSUME Fires(r, c) PROVE m.id \in Stored(V)
    BY <2>1, <1>3, <1>4 DEF Stored, Ids
  <2>2. ASSUME m.id \in Stored(V) PROVE Fires(r, c)
    <3>1. PICK s \in V : ~s.legacy /\ s.id = m.id
      BY <2>2 DEF Stored, Ids
    <3>2. s \in Discovered
      BY <3>1, <1>5, ClassSheet
    <3>3. s = r
      BY <3>1, <3>2, <1>3, UniqueIds
    <3> QED
      BY <3>3, <1>5
  <2> QED
    BY <2>1, <2>2
<1> QED
  BY <1>2, <1>6 DEF Tells, V

-----------------------------------------------------------------------------
(* The inductive invariant.                                                *)

\* Until something changes, the store shows what the last scan evaluated.
LastTold ==
  last.outcome = "snapshot" /\ last.fresh =>
    open = Stored(Verdicts(last.path, rtype, live, last.failed))

RoundsInv == TypeOK /\ LastTold

\* What failed in a scan are calls of the type scanned.
LEMMA FailuresAreCalls == ASSUME NEW failed \in Failures
                          PROVE  failed \in SUBSET Calls(rtype)
<1>1. CASE failed \in SUBSET DetailCalls(rtype)
  BY <1>1 DEF Calls
<1>2. CASE failed \in {{c} : c \in ListCalls(rtype) \cup PageCalls(rtype)}
  <2>1. PICK c \in ListCalls(rtype) \cup PageCalls(rtype) : failed = {c}
    BY <1>2
  <2> QED
    BY <2>1 DEF Calls
<1> QED
  BY <1>1, <1>2 DEF Failures

LEMMA RoundsInit == Init => RoundsInv
<1> SUFFICES ASSUME Init PROVE RoundsInv
  OBVIOUS
<1>1. TypeOK
  BY RoundsAssumption DEF Init, TypeOK, NoScan
<1>2. LastTold
  BY DEF Init, LastTold, NoScan
<1> QED
  BY <1>1, <1>2 DEF RoundsInv

\* The owner's steps leave the rows, and end what the last scan says.
LEMMA RoundsOwner ==
  ASSUME RoundsInv, Drift \/ Delete
  PROVE  RoundsInv'
<1> USE DEF RoundsInv
<1>1. TypeOK'
  <2>1. drifts < MaxDrifts /\ drifts' = drifts + 1
    BY DEF Drift, Delete
  <2>2. drifts' \in 0..MaxDrifts
    BY <2>1, RoundsAssumption DEF TypeOK
  <2>3. live' \in LiveResources(rtype) /\ exists' \in BOOLEAN
    BY DEF TypeOK, Drift, Delete
  <2>4. /\ UNCHANGED <<rtype, open, closed, stray>>
        /\ last' = [last EXCEPT !.fresh = FALSE]
    BY DEF Drift, Delete
  <2> QED
    BY <2>2, <2>3, <2>4 DEF TypeOK
<1>2. LastTold'
  BY DEF TypeOK, LastTold, Drift, Delete
<1> QED
  BY <1>1, <1>2

\* A scan, whatever becomes of it.
LEMMA RoundsScan ==
  ASSUME RoundsInv, Scan
  PROVE  RoundsInv'
<1> USE DEF RoundsInv
<1>1. PICK path \in Paths, failed \in Failures :
        \/ AbortedScan(path, failed) \/ SnapshotScan(path, failed)
        \/ AbsentScan(path, failed)  \/ EmptyScan(path, failed)
  BY DEF Scan
<1>2. failed \in SUBSET Calls(rtype)
  BY FailuresAreCalls
<1>3. CASE SnapshotScan(path, failed)
  <2> DEFINE V == Verdicts(path, rtype, live, failed)
  <2>1. /\ open' = Stored(V) /\ closed' = (closed \cup open) \ Stored(V)
        /\ stray' = stray \cup Strays(V)
        /\ last' = [path |-> path, failed |-> failed, outcome |-> "snapshot",
                    fresh |-> TRUE]
        /\ UNCHANGED <<rtype, live, exists, drifts>>
    BY <1>3 DEF SnapshotScan, ScanDone
  <2>2. Stored(V) \subseteq RuleIds /\ Strays(V) \subseteq LegacyIds
    BY VerdictIds
  <2>3. LastTold'
    BY <2>1 DEF LastTold
  <2> HIDE DEF V
  <2>4. TypeOK'
    BY <2>1, <2>2, <1>2 DEF TypeOK
  <2> QED
    BY <2>3, <2>4
<1>4. CASE AbsentScan(path, failed)
  <2>1. /\ open' = {} /\ closed' \in {closed, closed \cup open}
        /\ last' = [path |-> path, failed |-> failed, outcome |-> "absent",
                    fresh |-> TRUE]
        /\ UNCHANGED <<rtype, live, exists, stray, drifts>>
    BY <1>4 DEF AbsentScan, ScanDone
  <2> QED
    BY <2>1, <1>2 DEF TypeOK, LastTold
<1>5. CASE AbortedScan(path, failed) \/ EmptyScan(path, failed)
  <2>1. /\ \E outcome \in {"aborted", "empty"} :
             last' = [path |-> path, failed |-> failed, outcome |-> outcome,
                      fresh |-> TRUE]
        /\ UNCHANGED <<rtype, live, exists, open, closed, stray, drifts>>
    BY <1>5 DEF AbortedScan, EmptyScan, ScanDone
  <2> QED
    BY <2>1, <1>2 DEF TypeOK, LastTold
<1> QED
  BY <1>1, <1>3, <1>4, <1>5

LEMMA RoundsStep == RoundsInv /\ [Next]_vars => RoundsInv'
<1> SUFFICES ASSUME RoundsInv, [Next]_vars PROVE RoundsInv'
  OBVIOUS
<1>1. CASE Drift \/ Delete
  BY <1>1, RoundsOwner
<1>2. CASE Scan
  BY <1>2, RoundsScan
<1>3. CASE UNCHANGED vars
  BY <1>3 DEF vars, RoundsInv, TypeOK, LastTold
<1> QED
  BY <1>1, <1>2, <1>3 DEF Next

LEMMA RoundsInvariant == Spec => []RoundsInv
BY RoundsInit, RoundsStep, PTL DEF Spec

-----------------------------------------------------------------------------
(* The theorems.                                                           *)

\* For any of the sixteen types and however often the owner changes the
\* resource: every variable has its type, and no finding is both OPEN and
\* resolved.
THEOREM TypeCorrect == Spec => []TypeOK
<1>1. RoundsInv => TypeOK
  BY DEF RoundsInv
<1> QED
  BY <1>1, RoundsInvariant, PTL

\* After an answered scan the OPEN findings are, by either engine, the issues the
\* resource has by the rules' documents, less those the pack is blind to, and
\* its false alarms: no other rule reads a key its collector writes under
\* another name or with another meaning.
THEOREM ReadsDecide == Spec => []VerdictsFollowReads
<1>1. RoundsInv => VerdictsFollowReads
  <2> SUFFICES ASSUME RoundsInv, last.outcome = "snapshot", last.fresh,
                      last.failed = {}
               PROVE  open \cap Ids(About) = Visible \cup FalseAlarms
    BY DEF VerdictsFollowReads
  <2>1. \A m \in About :
          m.id \in open <=> (Matches(m.bad, live) /\ ~Blind(m.id, live))
                              \/ FalseAlarm(m.id, live)
    <3> SUFFICES ASSUME NEW m \in About
                 PROVE  m.id \in open
                          <=> (Matches(m.bad, live) /\ ~Blind(m.id, live))
                                \/ FalseAlarm(m.id, live)
      OBVIOUS
    <3>1. m \in Meaning /\ m.type = rtype
      BY DEF About
    <3>2. /\ open = Stored(Verdicts(last.path, rtype, live, {}))
          /\ live \in LiveResources(rtype)
      BY DEF RoundsInv, LastTold, TypeOK
    <3> QED
      BY <3>1, <3>2, RowAnswer
  <2> QED
    BY <2>1 DEF Visible, FalseAlarms, Ids
<1> QED
  BY <1>1, RoundsInvariant, PTL

\* An issue the live resource has, and the pack is not blind to, leaves the OPEN
\* findings only when the list call failed or one of the four fail-open reads
\* did.
THEOREM OnlyFailOpenHides == Spec => OnlyFailOpenReadsHide
<1> DEFINE Shown ==
      \A id \in (Visible \cap open) \ open' :
        exists => last'.failed \cap ({"list"} \cup FailOpenReads(id)) # {}
<1>1. RoundsInv /\ [Next]_vars => [Shown]_vars
  <2> SUFFICES ASSUME RoundsInv, Next,
                      NEW id \in (Visible \cap open) \ open', exists
               PROVE  last'.failed \cap ({"list"} \cup FailOpenReads(id)) # {}
    OBVIOUS
  <2> HIDE DEF Shown
  <2>0. id \in open /\ id \notin open'
    OBVIOUS
  <2>1. Scan
    BY <2>0 DEF Next, Drift, Delete
  <2>2. PICK path \in Paths, failed \in Failures :
          SnapshotScan(path, failed) \/ AbsentScan(path, failed)
    BY <2>0, <2>1 DEF Scan, AbortedScan, EmptyScan
  <2>3. \E outcome : ScanDone(path, failed, outcome)
    BY <2>2 DEF SnapshotScan, AbsentScan
  <2>4. last'.failed = failed
    BY <2>3 DEF ScanDone
  <2>5. CASE AbsentScan(path, failed)
    <3>1. failed \cap ListCalls(rtype) # {}
      BY <2>5 DEF AbsentScan, Outcome
    <3> QED
      BY <3>1, <2>4 DEF ListCalls
  <2>6. CASE SnapshotScan(path, failed)
    <3>1. PICK m \in Meaning : /\ m.type = rtype /\ m.id = id
                               /\ Matches(m.bad, live) /\ ~Blind(m.id, live)
      BY DEF Visible, About, Ids
    <3>2. failed \in SUBSET Calls(rtype) /\ live \in LiveResources(rtype)
      BY FailuresAreCalls DEF RoundsInv, TypeOK
    <3>3. id \notin Stored(Verdicts(path, rtype, live, failed))
      BY <2>6 DEF SnapshotScan
    <3>4. failed \cap FailOpenReads(id) # {}
      BY <3>1, <3>2, <3>3, RowAnswer
    <3> QED
      BY <3>4, <2>4
  <2> QED
    BY <2>2, <2>5, <2>6
<1> QED
  BY <1>1, RoundsInvariant, PTL DEF Spec, OnlyFailOpenReadsHide

-----------------------------------------------------------------------------
(* Ranks.                                                                  *)

\* What a rule weighs, whatever the resource costs.
Weighed(r) ==
  /\ r.frameworks \in Nat /\ r.percent \in Nat /\ r.cents \in Nat
  /\ r.legacy = FALSE
  /\ r.severity \in {"CRITICAL", "HIGH", "MEDIUM", "LOW"}
  /\ r.kind \in {"SECURITY", "COMPLIANCE", "FINOPS"}

\* A CRITICAL rule reports no waste and has four frameworks at least; any other
\* either reports none, or has next to no frameworks, or is LOW.
Wasteless(r) == r.percent = 0 /\ r.cents = 0 /\ r.kind # "FINOPS"
Urgent(r)    == Wasteless(r) /\ r.kind = "SECURITY" /\ r.frameworks >= 4
Lesser(r) ==
  \/ r.severity = "LOW"
  \/ r.severity = "MEDIUM" /\ r.frameworks <= 1
  \/ r.severity = "HIGH" /\ r.frameworks = 0
  \/ r.severity \in {"HIGH", "MEDIUM"} /\ Wasteless(r)

Ranked(r) ==
  /\ Weighed(r)
  /\ IF r.severity = "CRITICAL" THEN Urgent(r) ELSE Lesser(r)

\* Of three CRITICAL rules with fewer frameworks nothing is ever scanned: no
\* collector reads a trail, a project policy or a crypto key.
Uncollected ==
  {Aws!CloudTrailNotLoggingRule, Gcp!IamPublicMemberRule,
   Gcp!KmsKeyPublicAccessRule}

\* The ranks of the Azure registry's rules.
LEMMA AzureRanks == \A r \in Azure!RULE_REGISTRY : Ranked(r)
BY DEF Ranked, Weighed, Urgent, Lesser, Wasteless, Azure!RULE_REGISTRY,
    Azure!Rule, Azure!Wasteful, Azure!FlatWaste, Azure!OSDiskEncryptionRule,
    Azure!UnmanagedDiskRule, Azure!NoBackupPolicyRule,
    Azure!PublicIPDirectAttachedRule, Azure!OutdatedOSImageRule,
    Azure!MissingCostTagsRule, Azure!IdleVMRule,
    Azure!UnattachedManagedDiskRule, Azure!UnassignedPublicIPRule,
    Azure!EmptyLoadBalancerRule, Azure!HotTierBlobNotAccessedRule,
    Azure!OversizedVMRule, Azure!DevTestOutsideBusinessHoursRule,
    Azure!AppGatewayLowUtilisationRule, Azure!AKSNoAutoscalerRule,
    Azure!OwnerRoleDirectUserRule, Azure!OwnerRoleSubscriptionScopeRule,
    Azure!SPOwnerMultipleSubscriptionsRule, Azure!GuestPrivilegedRoleRule,
    Azure!ClassicAdminRoleRule, Azure!NoMFAConditionalAccessRule,
    Azure!ExternalUserPrivilegedRoleRule, Azure!SPPasswordExpiryRule,
    Azure!SoftDeleteRule, Azure!PurgeProtectionRule,
    Azure!PublicNetworkAccessRule, Azure!NoDiagnosticLoggingRule,
    Azure!SecretNoExpiryRule, Azure!SSHOpenToInternetRule,
    Azure!RDPOpenToInternetRule, Azure!AnyPortOpenToInternetRule,
    Azure!InboundAllowAllRule, Azure!NSGFlowLogsRule,
    Azure!DDoSProtectionRule, Azure!PublicBlobAccessRule,
    Azure!HttpTrafficAllowedRule, Azure!MinTlsVersionRule,
    Azure!SharedKeyAuthRule, Azure!NetworkDefaultActionRule,
    Azure!BlobSoftDeleteRule, Azure!BlobVersioningRule,
    Azure!InfrastructureEncryptionRule, Azure!DiagnosticLoggingRule,
    Azure!LifecycleManagementRule, Azure!ActivityLogAlertsMissingRule,
    Azure!LogProfileRetentionRule, Azure!SqlPublicNetworkAccessRule,
    Azure!SqlMinTlsVersionRule, Azure!SqlAuditingDisabledRule,
    Azure!AppServiceHttpsOnlyRule, Azure!AppServiceMinTlsRule,
    Azure!AppServiceAuthDisabledRule, Azure!AKSRBACDisabledRule,
    Azure!AKSPublicApiServerRule, Azure!AKSNetworkPolicyMissingRule

\* Those of the AWS pack.
LEMMA AwsRanks == \A r \in Aws!AWS_RULE_REGISTRY \ Uncollected : Ranked(r)
BY DEF Uncollected, Ranked, Weighed, Urgent, Lesser, Wasteless,
    Aws!AWS_RULE_REGISTRY, Aws!Rule, Aws!Wasteful,
    Aws!ApiGatewayLoggingDisabledRule, Aws!ApiGatewayNoWafRule,
    Aws!CloudTrailMultiRegionRule, Aws!CloudTrailNotLoggingRule,
    Aws!CloudTrailLogFileValidationRule, Aws!LogGroupRetentionRule,
    Aws!LogGroupKmsKeyRule, Aws!DynamoDbCmekEncryptionRule,
    Aws!DynamoDbPitrDisabledRule, Aws!EbsEncryptionRule,
    Aws!InstancePublicIpRule, Aws!UnattachedEbsVolumeRule,
    Aws!EcrScanOnPushRule, Aws!EcrTagImmutabilityRule,
    Aws!EksPublicEndpointRule, Aws!EksControlPlaneLoggingRule,
    Aws!EksSecretsEncryptionRule, Aws!ElastiCacheAtRestEncryptionRule,
    Aws!ElastiCacheTransitEncryptionRule, Aws!ElbHttpListenerRule,
    Aws!ElbAccessLogsDisabledRule, Aws!ElbDeletionProtectionRule,
    Aws!UnattachedEipRule, Aws!ConfigRecorderDisabledRule,
    Aws!IamPasswordPolicyWeakRule, Aws!IamAccessKeyAgeRule,
    Aws!S3VersioningDisabledRule, Aws!S3LoggingDisabledRule,
    Aws!RootAccessKeysRule, Aws!IamUserNoMfaRule, Aws!KmsKeyRotationRule,
    Aws!LambdaEnvVarKmsKeyRule, Aws!LambdaPublicFunctionUrlRule,
    Aws!LambdaOutdatedRuntimeRule, Aws!SnsTopicEncryptionRule,
    Aws!SnsTopicPublicAccessRule, Aws!SqsQueueEncryptionRule,
    Aws!SqsQueuePublicAccessRule, Aws!RdsStorageEncryptionRule,
    Aws!RdsPubliclyAccessibleRule, Aws!RdsBackupRetentionRule,
    Aws!S3PublicAclRule, Aws!S3PublicAccessBlockRule,
    Aws!S3BucketEncryptionRule, Aws!SecretRotationDisabledRule,
    Aws!AcmCertificateExpiringRule, Aws!SSHOpenToInternetRule,
    Aws!RDPOpenToInternetRule, Aws!VpcFlowLogsDisabledRule,
    Aws!DefaultSecurityGroupOpenRule

\* And of the GCP pack.
LEMMA GcpRanks == \A r \in Gcp!GCP_RULE_REGISTRY \ Uncollected : Ranked(r)
BY DEF Uncollected, Ranked, Weighed, Urgent, Lesser, Wasteless,
    Gcp!GCP_RULE_REGISTRY, Gcp!Rule, Gcp!Wasteful, Gcp!Raising,
    Gcp!BigQueryDatasetPublicAccessRule, Gcp!BigQueryDatasetCmekRule,
    Gcp!CloudFunctionIngressRule, Gcp!CloudFunctionPublicInvokerRule,
    Gcp!CloudRunIngressRule, Gcp!CloudRunPublicInvokerRule,
    Gcp!CloudSqlPublicIpRule, Gcp!CloudSqlBackupDisabledRule,
    Gcp!CloudSqlRequireSslRule, Gcp!InstancePublicIpRule,
    Gcp!DiskCmekEncryptionRule, Gcp!UnattachedDiskRule,
    Gcp!InstanceShieldedVmRule, Gcp!InstanceOsLoginDisabledRule,
    Gcp!InstanceDefaultServiceAccountRule, Gcp!SpannerCmekRule,
    Gcp!MemorystoreAuthDisabledRule, Gcp!MemorystoreTransitEncryptionRule,
    Gcp!BigQueryTablePartitionExpiryRule, Gcp!DnsDnssecDisabledRule,
    Gcp!SecretManagerCmekRule, Gcp!ArtifactRegistryCmekRule,
    Gcp!ArtifactRegistryPublicAccessRule, Gcp!GkePrivateClusterRule,
    Gcp!GkeLoggingDisabledRule, Gcp!GkeNetworkPolicyRule,
    Gcp!GkeWorkloadIdentityRule, Gcp!GkeAutoUpgradeDisabledRule,
    Gcp!GkeBinaryAuthorizationRule, Gcp!ServiceAccountUserManagedKeyRule,
    Gcp!IamPrimitiveRoleRule, Gcp!IamPublicMemberRule,
    Gcp!ServiceAccountKeyAgeRule, Gcp!KmsKeyRotationRule,
    Gcp!KmsKeyPublicAccessRule, Gcp!LoggingSinkMissingRule,
    Gcp!LoggingRetentionRule, Gcp!FirewallSshOpenRule,
    Gcp!FirewallRdpOpenRule, Gcp!FirewallAnyPortOpenRule,
    Gcp!FirewallLoggingDisabledRule, Gcp!PubSubTopicCmekRule,
    Gcp!PubSubTopicPublicAccessRule, Gcp!BucketPublicAccessRule,
    Gcp!BucketUniformAccessRule, Gcp!BucketVersioningDisabledRule,
    Gcp!BucketRetentionPolicyRule

\* The rules that are asked about a collected resource are ranked.
LEMMA AskedAreRanked ==
  ASSUME NEW type \in Types, NEW r \in Discovered, Applies(r, type)
  PROVE  Ranked(r)
<1>1. ASSUME r \in Uncollected PROVE FALSE
  <2>1. r.types \in {{"AWS::CloudTrail::Trail"}, {"google.iam.ProjectPolicy"},
                     {"google.kms.CryptoKey"}}
    BY <1>1 DEF Uncollected, Aws!Rule, Gcp!Rule, Aws!CloudTrailNotLoggingRule,
                Gcp!IamPublicMemberRule, Gcp!KmsKeyPublicAccessRule
  <2>2. type \in {"AWS::CloudTrail::Trail", "google.iam.ProjectPolicy",
                  "google.kms.CryptoKey"}
    BY <2>1 DEF Applies, AnyType
  <2> QED
    BY <2>2 DEF Types, AzureTypes, AwsTypes, GcpTypes
<1> QED
  BY <1>1, AzureRanks, AwsRanks, GcpRanks DEF Discovered

\* The smaller of two numbers.
LEMMA Smaller ==
  ASSUME NEW a \in Int, NEW b \in Int
  PROVE  Min({a, b}) = IF a <= b THEN a ELSE b
<1> DEFINE m == IF a <= b THEN a ELSE b
<1>1. m \in {a, b} /\ \A x \in {a, b} : m <= x
  OBVIOUS
<1>2. \A y \in {a, b} : (\A x \in {a, b} : y <= x) => y = m
  OBVIOUS
<1> HIDE DEF m
<1>3. Min({a, b}) = m
  BY <1>1, <1>2 DEF Min
<1> QED
  BY <1>3 DEF m

\* The part of a resource's cost that a rule without waste is assumed to touch.
Share(r, base, tier) ==
  LET part == (base * KindPercent(r.kind) * SeverityPercent(r.severity)) \div 10000
  IN  (part * tier) \div 100

\* A CRITICAL security rule touches as much of it as any other.
LEMMA UrgentShare ==
  ASSUME NEW base \in Nat, NEW tier \in Tiers, NEW c, NEW r,
         c.severity = "CRITICAL", c.kind = "SECURITY",
         r.severity \in {"HIGH", "MEDIUM"}, r.kind \in {"SECURITY", "COMPLIANCE"}
  PROVE  /\ Share(c, base, tier) \in Nat /\ Share(r, base, tier) \in Nat
         /\ Share(r, base, tier) <= Share(c, base, tier)
<1>1. /\ KindPercent(c.kind) = 15 /\ SeverityPercent(c.severity) = 100
      /\ KindPercent(r.kind)
        \in {10, 15} /\ SeverityPercent(r.severity) \in {50, 75}
  BY DEF KindPercent, SeverityPercent
<1> DEFINE big   == (base * 15 * 100) \div 10000
           small == (base * KindPercent(r.kind) * SeverityPercent(r.severity))
                      \div 10000
<1>2. big \in Nat /\ small \in Nat /\ small <= big
  <2>1. CASE KindPercent(r.kind) = 10 /\ SeverityPercent(r.severity) = 50
    BY <2>1
  <2>2. CASE KindPercent(r.kind) = 10 /\ SeverityPercent(r.severity) = 75
    BY <2>2
  <2>3. CASE KindPercent(r.kind) = 15 /\ SeverityPercent(r.severity) = 50
    BY <2>3
  <2>4. CASE KindPercent(r.kind) = 15 /\ SeverityPercent(r.severity) = 75
    BY <2>4
  <2> QED
    BY <1>1, <2>1, <2>2, <2>3, <2>4
<1>3. /\ Share(c, base, tier) = (big * tier) \div 100
      /\ Share(r, base, tier) = (small * tier) \div 100
  BY <1>1 DEF Share
<1> HIDE DEF big, small
<1>4. /\ (big * tier) \div 100 \in Nat /\ (small * tier) \div 100 \in Nat
      /\ (small * tier) \div 100 <= (big * tier) \div 100
  <2>1. CASE tier = 100
    BY <1>2, <2>1
  <2>2. CASE tier = 105
    BY <1>2, <2>2
  <2>3. CASE tier = 110
    BY <1>2, <2>3
  <2> QED
    BY <2>1, <2>2, <2>3 DEF Tiers
<1> QED
  BY <1>3, <1>4

\* What a finding of a rule without waste is said to cost.
LEMMA WastelessImpact ==
  ASSUME NEW r, Weighed(r), Wasteless(r), NEW type, NEW cost \in Nat, NEW tier
  PROVE  Impact(r, type, cost, tier) =
           LET base == IF cost > 0 THEN cost ELSE FallbackCost(type)
           IN  Min({base, Share(r, base, tier)})
<1>1. DirectWaste(r, cost) = (cost * 0) \div 100
  BY DEF DirectWaste, Wasteless
<1>2. DirectWaste(r, cost) = 0
  BY <1>1
<1> QED
  BY <1>2 DEF Impact, Estimated, Share, Weighed

\* The static prices are prices.
LEMMA FallbackIsCost == \A type : FallbackCost(type) \in Nat
BY DEF FallbackCost

\* An impact is a number, so its part of a priority is no more than the cap.
LEMMA ImpactTyped ==
  ASSUME NEW r, Weighed(r), NEW type, NEW cost \in Nat, NEW tier \in Tiers
  PROVE  Impact(r, type, cost, tier) \in Int
<1>1. DirectWaste(r, cost) \in Int
  <2>1. cost * r.percent \in Int
    BY DEF Weighed
  <2>2. (cost * r.percent) \div 100 \in Int
    BY <2>1
  <2> QED
    BY <2>2 DEF DirectWaste, Weighed
<1> DEFINE base == IF cost > 0 THEN cost ELSE FallbackCost(type)
<1>2. base \in Nat
  BY FallbackIsCost
<1>3. KindPercent(r.kind) \in Nat /\ SeverityPercent(r.severity) \in Nat
  BY DEF KindPercent, SeverityPercent, Weighed
<1>4. Share(r, base, tier) \in Int
  <2>1. base * KindPercent(r.kind) \in Int
    BY <1>2, <1>3
  <2>2. base * KindPercent(r.kind) * SeverityPercent(r.severity) \in Int
    BY <1>3, <2>1
  <2>3. (base * KindPercent(r.kind) * SeverityPercent(r.severity)) \div 10000 \in Int
    BY <2>2
  <2> QED
    BY <2>3 DEF Share, Tiers
<1>5. Estimated(r, type, cost, tier) = Min({base, Share(r, base, tier)})
  BY DEF Estimated, Share
<1> HIDE DEF base
<1>6. Estimated(r, type, cost, tier) \in Int
  BY <1>2, <1>4, <1>5, Smaller
<1> QED
  BY <1>1, <1>6 DEF Impact

\* The terms of a priority, once the impact is known.
Capped(x) == IF x <= 100000 THEN x ELSE 100000
Breadth(r) == IF r.frameworks >= 4 THEN 100 ELSE 25 * r.frameworks

\* A priority, written with them.
LEMMA PriorityTerms ==
  ASSUME NEW r, Weighed(r), NEW x \in Int
  PROVE  Priority("timer", r, x) =
           5000 * SeverityPercent(r.severity) + 3 * Capped(x) + 2000 * Breadth(r)
<1>1. Min({100000, x}) = Capped(x)
  BY Smaller DEF Capped
<1>2. Min({100, 25 * r.frameworks}) = Breadth(r)
  <2>1. r.frameworks \in Nat
    BY DEF Weighed
  <2>2. Min({100, 25 * r.frameworks})
          = IF 100 <= 25 * r.frameworks THEN 100 ELSE 25 * r.frameworks
    BY <2>1, Smaller
  <2> QED
    BY <2>1, <2>2 DEF Breadth
<1> QED
  BY <1>1, <1>2 DEF Priority, EnginePriority

\* A CRITICAL rule's priority has a floor, and what it costs on top.
LEMMA UrgentPriority ==
  ASSUME NEW c, Weighed(c), c.severity = "CRITICAL", Urgent(c),
         NEW type, NEW cost \in Nat, NEW tier \in Tiers
  PROVE  LET x == Impact(c, type, cost, tier)
         IN  /\ x \in Int /\ x >= 0
             /\ Priority("timer", c, x) = 700000 + 3 * Capped(x)
             /\ Capped(x) \in Int /\ 0 <= Capped(x) /\ Capped(x) <= 100000
<1> DEFINE x == Impact(c, type, cost, tier)
           base == IF cost > 0 THEN cost ELSE FallbackCost(type)
<1>1. x \in Int
  BY ImpactTyped
<1>2. base \in Nat
  BY FallbackIsCost
<1>3. x = Min({base, Share(c, base, tier)})
  BY WastelessImpact DEF Urgent
<1> SUFFICES /\ x \in Int /\ x >= 0
             /\ Priority("timer", c, x) = 700000 + 3 * Capped(x)
             /\ Capped(x) \in Int /\ 0 <= Capped(x) /\ Capped(x) <= 100000
  OBVIOUS
<1> HIDE DEF x, base
<1>4. x >= 0
  <2> DEFINE high == [severity |-> "HIGH", kind |-> "SECURITY"]
  <2>0. high.severity \in {"HIGH", "MEDIUM"}
        /\ high.kind \in {"SECURITY", "COMPLIANCE"}
    OBVIOUS
  <2> HIDE DEF high
  <2>1. Share(c, base, tier) \in Nat
    BY <1>2, <2>0, UrgentShare DEF Urgent
  <2> QED
    BY <1>2, <1>3, <2>1, Smaller
<1>5. Capped(x) \in Int /\ 0 <= Capped(x) /\ Capped(x) <= 100000
  BY <1>1, <1>4 DEF Capped
<1>6. Priority("timer", c, x) = 700000 + 3 * Capped(x)
  <2>1. SeverityPercent(c.severity) = 100
    BY DEF SeverityPercent
  <2>2. Breadth(c) = 100
    BY DEF Breadth, Urgent
  <2>3. Priority("timer", c, x)
          = 5000 * SeverityPercent(c.severity) + 3 * Capped(x) + 2000 * Breadth(c)
    BY <1>1, PriorityTerms
  <2> QED
    BY <1>5, <2>1, <2>2, <2>3
<1> QED
  BY <1>1, <1>4, <1>5, <1>6

\* A lesser finding whose impact is under CatchUp stays below that floor.
LEMMA CheapStaysBelow ==
  ASSUME NEW r, Weighed(r), r.severity # "CRITICAL",
         NEW y \in Int, y < CatchUp
  PROVE  /\ Priority("timer", r, y) \in Int
         /\ Priority("timer", r, y) < 700000
<1>1. y < 41667
  BY DEF CatchUp
<1>2. Capped(y) \in Int /\ Capped(y) < 41667
  BY <1>1 DEF Capped
<1>3. Breadth(r) \in Int /\ Breadth(r) <= 100
  BY DEF Breadth, Weighed
<1>4. SeverityPercent(r.severity) \in {25, 50, 75}
  BY DEF SeverityPercent, Weighed
<1>5. Priority("timer", r, y)
        = 5000 * SeverityPercent(r.severity) + 3 * Capped(y) + 2000 * Breadth(r)
  BY PriorityTerms
<1> QED
  BY <1>2, <1>3, <1>4, <1>5

\* A CRITICAL rule outranks another about the same resource, whatever that costs.
LEMMA UrgentFirst ==
  ASSUME NEW c, NEW r, Weighed(c), c.severity = "CRITICAL", Urgent(c),
         Weighed(r), r.severity # "CRITICAL", Lesser(r),
         NEW type, NEW cost \in Nat, NEW tier \in Tiers
  PROVE  Priority("timer", c, Impact(c, type, cost, tier))
           > Priority("timer", r, Impact(r, type, cost, tier))
<1> DEFINE x == Impact(c, type, cost, tier)
           y == Impact(r, type, cost, tier)
           base == IF cost > 0 THEN cost ELSE FallbackCost(type)
<1>1. x \in Int /\ y \in Int
  BY ImpactTyped
<1>2. base \in Nat
  BY FallbackIsCost
<1>3. x = Min({base, Share(c, base, tier)})
  BY WastelessImpact DEF Urgent
<1>4. Wasteless(r) => y = Min({base, Share(r, base, tier)})
  BY WastelessImpact
<1>5. /\ Priority("timer", c, x) = 700000 + 3 * Capped(x)
      /\ Capped(x) \in Int /\ 0 <= Capped(x) /\ Capped(x) <= 100000
  BY UrgentPriority
<1> SUFFICES Priority("timer", c, x) > Priority("timer", r, y)
  OBVIOUS
<1> HIDE DEF x, y, base
<1>6. ASSUME Wasteless(r), r.severity \in {"HIGH", "MEDIUM"} PROVE y <= x
  <2>1. r.kind \in {"SECURITY", "COMPLIANCE"}
    BY <1>6 DEF Wasteless, Weighed
  <2>2. /\ Share(c, base, tier) \in Nat /\ Share(r, base, tier) \in Nat
        /\ Share(r, base, tier) <= Share(c, base, tier)
    BY <1>2, <1>6, <2>1, UrgentShare DEF Urgent
  <2>3. x = IF base <= Share(c, base, tier) THEN base ELSE Share(c, base, tier)
    BY <1>2, <1>3, <2>2, Smaller
  <2>4. y = IF base <= Share(r, base, tier) THEN base ELSE Share(r, base, tier)
    BY <1>2, <1>4, <1>6, <2>2, Smaller
  <2> QED
    BY <1>2, <2>2, <2>3, <2>4
<1>7. Priority("timer", c, x) = 700000 + 3 * Capped(x)
  BY <1>5
<1>8. /\ Capped(x) \in Int /\ 0 <= Capped(x) /\ Capped(x) <= 100000
      /\ Capped(y) \in Int /\ Capped(y) <= 100000
  <2>1. Capped(y) \in Int /\ Capped(y) <= 100000
    BY <1>1 DEF Capped
  <2> QED
    BY <1>5, <2>1
<1>9. Breadth(r) \in Int /\ 0 <= Breadth(r) /\ Breadth(r) <= 100
  BY DEF Breadth, Weighed
<1>10. Priority("timer", r, y)
         = 5000 * SeverityPercent(r.severity) + 3 * Capped(y) + 2000 * Breadth(r)
  BY <1>1, PriorityTerms
<1>11. CASE r.severity = "LOW"
  <2>1. SeverityPercent(r.severity) = 25
    BY <1>11 DEF SeverityPercent
  <2> QED
    BY <1>7, <1>8, <1>9, <1>10, <2>1
<1>12. CASE r.severity = "MEDIUM" /\ r.frameworks <= 1
  <2>1. Breadth(r) <= 25
    BY <1>12 DEF Breadth, Weighed
  <2>2. SeverityPercent(r.severity) = 50
    BY <1>12 DEF SeverityPercent
  <2> QED
    BY <1>7, <1>8, <1>9, <1>10, <2>1, <2>2
<1>13. CASE r.severity = "HIGH" /\ r.frameworks = 0
  <2>1. Breadth(r) = 0
    BY <1>13 DEF Breadth
  <2>2. SeverityPercent(r.severity) = 75
    BY <1>13 DEF SeverityPercent
  <2> QED
    BY <1>7, <1>8, <1>10, <2>1, <2>2
<1>14. CASE r.severity \in {"HIGH", "MEDIUM"} /\ Wasteless(r)
  <2>1. Capped(y) <= Capped(x)
    BY <1>1, <1>6, <1>14 DEF Capped
  <2>2. SeverityPercent(r.severity) \in {75, 50}
    BY <1>14 DEF SeverityPercent
  <2> QED
    BY <1>7, <1>8, <1>9, <1>10, <2>1, <2>2
<1> QED
  BY <1>11, <1>12, <1>13, <1>14 DEF Lesser

\* On a resource of any type, in any state, whichever reads failed, whatever it
\* costs: every CRITICAL finding of the timer's scan is ranked above all others of
\* the resource, and above the lesser ones of every other whose impact is under
\* CatchUp.
THEOREM CriticalRanksFirst == Spec => []CriticalFirst
<1>1. RoundsInv => CriticalFirst
  <2> SUFFICES ASSUME RoundsInv PROVE CriticalFirst
    OBVIOUS
  <2> DEFINE rules == Verdicts("timer", rtype, live, last.failed)
             cost  == MonthlyCost(rtype, live, last.failed)
  <2>1. rtype \in Types /\ ScannedTypes \subseteq Types
    BY RoundsAssumption DEF RoundsInv, TypeOK
  <2>2. \A type, l, failed : \A r \in Verdicts("timer", type, l, failed) :
          r \in Discovered /\ Applies(r, type)
    BY DEF Verdicts, Evaluate, Native
  <2>3. \A type \in Types : \A l, failed :
          \A r \in Verdicts("timer", type, l, failed) : Ranked(r)
    BY <2>2, AskedAreRanked
  <2>4. \A type, l, failed : MonthlyCost(type, l, failed) \in Nat
    BY DEF MonthlyCost, Cents
  <2>5. \A r \in rules : Ranked(r)
    BY <2>1, <2>3
  <2>6. cost \in Nat
    BY <2>4
  <2>7. ASSUME NEW other \in RivalRanks
        PROVE  other \in Int /\ other < 700000
    <3>1. PICK type \in ScannedTypes :
            \E l \in LiveResources(type), failed \in SUBSET DetailCalls(type),
               tier \in Tiers : \E r \in Verdicts("timer", type, l, failed) :
              LET y == Impact(r, type, MonthlyCost(type, l, failed), tier)
              IN  /\ r.severity # "CRITICAL" /\ y < CatchUp
                  /\ other = Priority("timer", r, y)
      BY <2>7 DEF RivalRanks
    <3>2. PICK l \in LiveResources(type), failed \in SUBSET DetailCalls(type),
               tier \in Tiers : \E r \in Verdicts("timer", type, l, failed) :
            LET y == Impact(r, type, MonthlyCost(type, l, failed), tier)
            IN  /\ r.severity # "CRITICAL" /\ y < CatchUp
                /\ other = Priority("timer", r, y)
      BY <3>1
    <3>3. PICK r \in Verdicts("timer", type, l, failed) :
            LET y == Impact(r, type, MonthlyCost(type, l, failed), tier)
            IN  /\ r.severity # "CRITICAL" /\ y < CatchUp
                /\ other = Priority("timer", r, y)
      BY <3>2
    <3>4. Weighed(r)
      BY <2>1, <2>3 DEF Ranked
    <3>5. Impact(r, type, MonthlyCost(type, l, failed), tier) \in Int
      BY <2>4, <3>4, ImpactTyped
    <3> QED
      BY <3>3, <3>4, <3>5, CheapStaysBelow
  <2> HIDE DEF rules, cost
  <2>8. ASSUME NEW tier \in Tiers, NEW c \in rules, c.severity = "CRITICAL"
        PROVE  LET first == Priority("timer", c, Impact(c, rtype, cost, tier))
               IN  /\ first \in Int /\ first >= 700000
                   /\ \A r \in rules : r.severity # "CRITICAL" =>
                        first > Priority("timer", r, Impact(r, rtype, cost, tier))
    <3>1. Weighed(c) /\ Urgent(c)
      BY <2>5, <2>8 DEF Ranked
    <3> DEFINE x == Impact(c, rtype, cost, tier)
    <3>2. /\ Priority("timer", c, x) = 700000 + 3 * Capped(x)
          /\ Capped(x) \in Int /\ 0 <= Capped(x)
      BY <2>6, <2>8, <3>1, UrgentPriority
    <3> HIDE DEF x
    <3>3. Priority("timer", c, x) \in Int /\ Priority("timer", c, x) >= 700000
      BY <3>2
    <3>4. ASSUME NEW r \in rules, r.severity # "CRITICAL"
          PROVE  Priority("timer", c, x)
                   > Priority("timer", r, Impact(r, rtype, cost, tier))
      BY <2>5, <2>6, <2>8, <3>1, <3>4, UrgentFirst DEF Ranked, x
    <3> QED
      BY <3>3, <3>4 DEF x
  <2> QED
    BY <2>7, <2>8 DEF CriticalFirst, rules, cost
<1> QED
  BY <1>1, RoundsInvariant, PTL
=============================================================================
