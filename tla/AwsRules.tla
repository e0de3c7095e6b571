------------------------------ MODULE AwsRules ------------------------------
(***************************************************************************)
(* The AWS rule pack, one definition per PolicyRule subclass of            *)
(* adapters/rules/aws, named for the class. Every rule declares the one    *)
(* resource type it is about.                                              *)
(***************************************************************************)
EXTENDS Rules

\* aws/apigateway.py
ApiGatewayLoggingDisabledRule ==
  Rule("AWS-APIGW-001", {"AWS::ApiGateway::Stage"}, "MEDIUM", "COMPLIANCE", 2,
    {[logging_level |-> Not({"INFO", "ERROR"})]})

ApiGatewayNoWafRule ==
  Rule("AWS-APIGW-002", {"AWS::ApiGateway::Stage"}, "MEDIUM", "SECURITY", 2,
    {[web_acl_arn |-> Falsy]})

\* aws/cloudtrail.py
CloudTrailMultiRegionRule ==
  Rule("AWS-CT-001", {"AWS::CloudTrail::Trail"}, "HIGH", "COMPLIANCE", 4,
    {[is_multi_region_trail |-> NotTrue]})

CloudTrailNotLoggingRule ==
  Rule("AWS-CT-002", {"AWS::CloudTrail::Trail"}, "CRITICAL", "COMPLIANCE", 3,
    {[is_logging |-> NotTrue]})

CloudTrailLogFileValidationRule ==
  Rule("AWS-CT-003", {"AWS::CloudTrail::Trail"}, "MEDIUM", "COMPLIANCE", 3,
    {[log_file_validation_enabled |-> NotTrue]})

\* aws/cloudwatch.py
LogGroupRetentionRule ==
  Rule("AWS-CWL-001", {"AWS::Logs::LogGroup"}, "LOW", "COMPLIANCE", 2,
    {[retention_in_days |-> {"zero", "short"}]})

LogGroupKmsKeyRule ==
  Rule("AWS-CWL-002", {"AWS::Logs::LogGroup"}, "MEDIUM", "SECURITY", 2,
    {[kms_key_id |-> Falsy]})

\* aws/dynamodb.py
DynamoDbCmekEncryptionRule ==
  Rule("AWS-DDB-001", {"AWS::DynamoDB::Table"}, "MEDIUM", "SECURITY", 2,
    {[sse_description |-> Not({"kms_with_key"})]})

DynamoDbPitrDisabledRule ==
  Rule("AWS-DDB-002", {"AWS::DynamoDB::Table"}, "MEDIUM", "COMPLIANCE", 2,
    {[pitr_enabled |-> NotTrue]})

\* aws/ec2.py
EbsEncryptionRule ==
  Rule("AWS-EC2-001", {"AWS::EC2::Volume"}, "HIGH", "SECURITY", 6,
    {[encrypted |-> NotTrue]})

InstancePublicIpRule ==
  Rule("AWS-EC2-002", {"AWS::EC2::Instance"}, "MEDIUM", "SECURITY", 5,
    {[public_ip_address |-> Truthy]})

UnattachedEbsVolumeRule ==
  Wasteful(Rule("AWS-EC2-003", {"AWS::EC2::Volume"}, "MEDIUM", "FINOPS", 1,
    {[state |-> {"available"}]}), 100)

\* aws/ecr.py
EcrScanOnPushRule ==
  Rule("AWS-ECR-001", {"AWS::ECR::Repository"}, "MEDIUM", "SECURITY", 2,
    {[scan_on_push |-> NotTrue]})

EcrTagImmutabilityRule ==
  Rule("AWS-ECR-002", {"AWS::ECR::Repository"}, "LOW", "COMPLIANCE", 2,
    {[image_tag_mutability |-> Not({"IMMUTABLE"})]})

\* aws/eks.py
EksPublicEndpointRule ==
  Rule("AWS-EKS-001", {"AWS::EKS::Cluster"}, "HIGH", "SECURITY", 3,
    {[endpoint_public_access |-> Truthy,
       public_access_cidrs |-> Falsy \cup {"world"}]})

EksControlPlaneLoggingRule ==
  Rule("AWS-EKS-002", {"AWS::EKS::Cluster"}, "MEDIUM", "COMPLIANCE", 3,
    {[enabled_log_types |-> Not({"all_required"})]})

EksSecretsEncryptionRule ==
  Rule("AWS-EKS-003", {"AWS::EKS::Cluster"}, "HIGH", "SECURITY", 3,
    {[secrets_kms_key_arn |-> Falsy]})

\* aws/elasticache.py
ElastiCacheAtRestEncryptionRule ==
  Rule("AWS-EC-001",
    {"AWS::ElastiCache::ReplicationGroup"}, "HIGH", "SECURITY", 2,
    {[at_rest_encryption_enabled |-> NotTrue]})

ElastiCacheTransitEncryptionRule ==
  Rule("AWS-EC-002",
    {"AWS::ElastiCache::ReplicationGroup"}, "HIGH", "SECURITY", 2,
    {[transit_encryption_enabled |-> NotTrue]})

\* aws/elb.py
ElbHttpListenerRule ==
  Rule("AWS-ELB-001",
    {"AWS::ElasticLoadBalancingV2::LoadBalancer"}, "HIGH", "SECURITY", 3,
    {[listeners |-> {"plaintext"}]})

ElbAccessLogsDisabledRule ==
  Rule("AWS-ELB-002",
    {"AWS::ElasticLoadBalancingV2::LoadBalancer"}, "MEDIUM", "COMPLIANCE", 3,
    {[access_logs_enabled |-> NotTrue]})

ElbDeletionProtectionRule ==
  Rule("AWS-ELB-003",
    {"AWS::ElasticLoadBalancingV2::LoadBalancer"}, "LOW", "COMPLIANCE", 2,
    {[deletion_protection_enabled |-> NotTrue]})

\* aws/finops.py
UnattachedEipRule ==
  Wasteful(Rule("AWS-FINOPS-001", {"AWS::EC2::EIP"}, "LOW", "FINOPS", 1,
    {[association_id |-> Falsy]}), 100)

\* aws/governance.py
ConfigRecorderDisabledRule ==
  Rule("AWS-CFG-001",
    {"AWS::Config::ConfigurationRecorder"}, "HIGH", "COMPLIANCE", 3,
    {[recording |-> Falsy], [all_supported |-> Falsy]})

IamPasswordPolicyWeakRule ==
  Rule("AWS-IAM-003", {"AWS::IAM::PasswordPolicy"}, "MEDIUM", "COMPLIANCE", 3,
    {[minimum_password_length |-> Below], [require_symbols |-> Falsy],
       [require_numbers |-> Falsy], [password_reuse_prevention |-> Below]})

IamAccessKeyAgeRule ==
  Rule("AWS-IAM-004", {"AWS::IAM::User"}, "MEDIUM", "COMPLIANCE", 3,
    {[access_keys |-> {"stale_active"}]})

S3VersioningDisabledRule ==
  Rule("AWS-S3-004", {"AWS::S3::Bucket"}, "MEDIUM", "COMPLIANCE", 3,
    {[versioning_status |-> Not({"enabled"})]})

S3LoggingDisabledRule ==
  Rule("AWS-S3-005", {"AWS::S3::Bucket"}, "MEDIUM", "COMPLIANCE", 3,
    {[logging_target_bucket |-> Falsy]})

\* aws/iam.py
RootAccessKeysRule ==
  Rule("AWS-IAM-001", {"AWS::IAM::AccountSummary"}, "CRITICAL", "SECURITY", 6,
    {[summary_map |-> {"root_keys"}]})

IamUserNoMfaRule ==
  Rule("AWS-IAM-002", {"AWS::IAM::User"}, "HIGH", "SECURITY", 6,
    {[password_enabled |-> {"true"}, mfa_active |-> NotTrue]})

\* aws/kms.py
KmsKeyRotationRule ==
  Rule("AWS-KMS-001", {"AWS::KMS::Key"}, "MEDIUM", "SECURITY", 4,
    {[key_manager |-> {"missing", "empty", "CUSTOMER"},
       origin |-> {"missing", "AWS_KMS"}, key_rotation_enabled |-> NotTrue]})

\* aws/lambda_.py
LambdaEnvVarKmsKeyRule ==
  Rule("AWS-LAM-001", {"AWS::Lambda::Function"}, "MEDIUM", "SECURITY", 3,
    {[environment_variables |-> Truthy, kms_key_arn |-> Falsy]})

LambdaPublicFunctionUrlRule ==
  Rule("AWS-LAM-002", {"AWS::Lambda::Function"}, "HIGH", "SECURITY", 3,
    {[function_url_config |-> {"auth_none"}]})

LambdaOutdatedRuntimeRule ==
  Rule("AWS-LAM-003", {"AWS::Lambda::Function"}, "MEDIUM", "COMPLIANCE", 2,
    {[runtime |-> {"deprecated"}]})

\* aws/messaging.py
SnsTopicEncryptionRule ==
  Rule("AWS-SNS-001", {"AWS::SNS::Topic"}, "MEDIUM", "SECURITY", 2,
    {[kms_master_key_id |-> Falsy]})

SnsTopicPublicAccessRule ==
  Rule("AWS-SNS-002", {"AWS::SNS::Topic"}, "HIGH", "SECURITY", 2,
    {[policy |-> {"anonymous"}]})

SqsQueueEncryptionRule ==
  Rule("AWS-SQS-001", {"AWS::SQS::Queue"}, "MEDIUM", "SECURITY", 2,
    {[kms_master_key_id |-> Falsy, sqs_managed_sse_enabled |-> Falsy]})

SqsQueuePublicAccessRule ==
  Rule("AWS-SQS-002", {"AWS::SQS::Queue"}, "HIGH", "SECURITY", 2,
    {[policy |-> {"anonymous"}]})

\* aws/rds.py
RdsStorageEncryptionRule ==
  Rule("AWS-RDS-001", {"AWS::RDS::DBInstance"}, "HIGH", "SECURITY", 4,
    {[storage_encrypted |-> NotTrue]})

RdsPubliclyAccessibleRule ==
  Rule("AWS-RDS-002", {"AWS::RDS::DBInstance"}, "CRITICAL", "SECURITY", 4,
    {[publicly_accessible |-> {"true"}]})

RdsBackupRetentionRule ==
  Rule("AWS-RDS-003", {"AWS::RDS::DBInstance"}, "MEDIUM", "COMPLIANCE", 3,
    {[backup_retention_period |-> Below]})

\* aws/s3.py
S3PublicAclRule ==
  Rule("AWS-S3-001", {"AWS::S3::Bucket"}, "CRITICAL", "SECURITY", 6,
    {[acl |-> {"public"}]})

S3PublicAccessBlockRule ==
  Rule("AWS-S3-002", {"AWS::S3::Bucket"}, "CRITICAL", "SECURITY", 5,
    {[public_access_block |-> Not({"all_blocked"})]})

S3BucketEncryptionRule ==
  Rule("AWS-S3-003", {"AWS::S3::Bucket"}, "HIGH", "SECURITY", 6,
    {[encryption |-> Not({"rules"})]})

\* aws/secrets_acm.py
SecretRotationDisabledRule ==
  Rule("AWS-SM-001", {"AWS::SecretsManager::Secret"}, "MEDIUM", "SECURITY", 3,
    {[rotation_enabled |-> NotTrue]})

AcmCertificateExpiringRule ==
  Rule("AWS-ACM-001",
    {"AWS::CertificateManager::Certificate"}, "HIGH", "COMPLIANCE", 2,
    {[days_to_expiry |-> {"zero", "short"}]})

\* aws/security_group.py
SSHOpenToInternetRule ==
  Rule("AWS-SG-001", {"AWS::EC2::SecurityGroup"}, "CRITICAL", "SECURITY", 6,
    {[ingress_rules |-> {"ssh", "all_ports"}]})

RDPOpenToInternetRule ==
  Rule("AWS-SG-002", {"AWS::EC2::SecurityGroup"}, "CRITICAL", "SECURITY", 6,
    {[ingress_rules |-> {"rdp", "all_ports"}]})

\* aws/vpc.py
VpcFlowLogsDisabledRule ==
  Rule("AWS-VPC-001", {"AWS::EC2::VPC"}, "MEDIUM", "COMPLIANCE", 3,
    {[flow_logs_enabled |-> NotTrue]})

DefaultSecurityGroupOpenRule ==
  Rule("AWS-VPC-002", {"AWS::EC2::SecurityGroup"}, "MEDIUM", "SECURITY", 3,
    {[group_name |-> {"default"}, ip_permissions |-> Truthy],
       [group_name |-> {"default"}, ip_permissions_egress |-> Truthy]})

-----------------------------------------------------------------------------
AWS_RULE_REGISTRY ==
  {ApiGatewayLoggingDisabledRule, ApiGatewayNoWafRule,
   CloudTrailMultiRegionRule, CloudTrailNotLoggingRule,
   CloudTrailLogFileValidationRule, LogGroupRetentionRule,
   LogGroupKmsKeyRule, DynamoDbCmekEncryptionRule, DynamoDbPitrDisabledRule,
   EbsEncryptionRule, InstancePublicIpRule, UnattachedEbsVolumeRule,
   EcrScanOnPushRule, EcrTagImmutabilityRule, EksPublicEndpointRule,
   EksControlPlaneLoggingRule, EksSecretsEncryptionRule,
   ElastiCacheAtRestEncryptionRule, ElastiCacheTransitEncryptionRule,
   ElbHttpListenerRule, ElbAccessLogsDisabledRule, ElbDeletionProtectionRule,
   UnattachedEipRule, ConfigRecorderDisabledRule, IamPasswordPolicyWeakRule,
   IamAccessKeyAgeRule, S3VersioningDisabledRule, S3LoggingDisabledRule,
   RootAccessKeysRule, IamUserNoMfaRule, KmsKeyRotationRule,
   LambdaEnvVarKmsKeyRule, LambdaPublicFunctionUrlRule,
   LambdaOutdatedRuntimeRule, SnsTopicEncryptionRule,
   SnsTopicPublicAccessRule, SqsQueueEncryptionRule,
   SqsQueuePublicAccessRule, RdsStorageEncryptionRule,
   RdsPubliclyAccessibleRule, RdsBackupRetentionRule, S3PublicAclRule,
   S3PublicAccessBlockRule, S3BucketEncryptionRule,
   SecretRotationDisabledRule, AcmCertificateExpiringRule,
   SSHOpenToInternetRule, RDPOpenToInternetRule, VpcFlowLogsDisabledRule,
   DefaultSecurityGroupOpenRule}
=============================================================================
