---------------------------- MODULE PolicyEngine ----------------------------
(***************************************************************************)
(* The policy engine: which rules an engine asks about a snapshot, what    *)
(* their findings cost, in which order they are ranked, and the posture    *)
(* score the open ones leave.                                              *)
(*                                                                         *)
(* Two engines are built.  The timer's is PolicyEngine(): the PolicyRule   *)
(* subclasses found by walking the rule packages, each behind the type     *)
(* whitelist it may declare.  POST /scan adds the rules of a NativeScanner *)
(* as plain callables, which nothing keeps from any snapshot.              *)
(***************************************************************************)
EXTENDS CloudReads, FiniteSetsExt

Azure == INSTANCE AzureRules
Aws   == INSTANCE AwsRules
Gcp   == INSTANCE GcpRules

-----------------------------------------------------------------------------
(* Evaluation.                                                             *)

\* _discover_rules: every PolicyRule subclass, once.
Discovered ==
  Azure!RULE_REGISTRY \cup Aws!AWS_RULE_REGISTRY \cup Gcp!GCP_RULE_REGISTRY

\* _build_scanner: the scanner's registry and the ten registered by hand.
Registered == Azure!RULE_REGISTRY \cup Azure!ScannerRules

Applies(rule, type) == rule.types = AnyType \/ type \in rule.types

\* A rule whose evaluate() raises is logged and passed over.
Native(type, config) ==
  {r \in Discovered : Applies(r, type) /\ Fires(r, config)}

\* register_rule wraps a rule in a callable, which has no resource_types.
Callable(config) == {r \in Registered : Fires(r, config)}

\* The findings of one snapshot.  Both kinds of rule may give the same finding
\* id: findings are deduplicated on it.
Evaluate(path, type, config) ==
  IF path = "request" THEN Native(type, config) \cup Callable(config)
  ELSE Native(type, config)

-----------------------------------------------------------------------------
(* Cost impact, in cents a month.                                          *)

\* The catalog prices the collectors stamp, by token.  At the price of "high"
\* a finding that wastes all of it just reaches the cap of the engine's cost
\* share; "huge" is past it.
Cents(token) ==
  CASE token = "eip"  -> 365
    [] token = "some" -> 4000
    [] token = "high" -> 100000
    [] token = "huge" -> 400000
    [] OTHER          -> 0

\* The static prices, by prefix of the lower-case type.  Cloud types of Google
\* are named otherwise in that table and cost nothing.
FallbackCost(type) ==
  CASE type = "Microsoft.Compute/virtualMachines" -> 15000
    [] type = "AWS::EC2::Instance"                -> 15000
    [] type = "Microsoft.KeyVault/vaults"         -> 500
    [] type = "Microsoft.Storage/storageAccounts" -> 2000
    [] type = "AWS::EC2::Volume"                  -> 4000
    [] type = "AWS::S3::Bucket"                   -> 2500
    [] OTHER -> 0

\* What the rule itself calls waste.
DirectWaste(rule, cost) ==
  IF rule.cents > 0 THEN rule.cents ELSE (cost * rule.percent) \div 100

KindPercent(kind) ==
  CASE kind = "SECURITY"   -> 15
    [] kind = "COMPLIANCE" -> 10
    [] kind = "FINOPS"     -> 8

SeverityPercent(severity) ==
  CASE severity = "CRITICAL" -> 100 [] severity = "HIGH" -> 75
    [] severity = "MEDIUM"   -> 50  [] severity = "LOW"  -> 25

\* A share of the resource's cost, observed or assumed; tier is 100, 105 or
\* 110 percent with the depth of the Defender data.
Estimated(rule, type, cost, tier) ==
  LET base == IF cost > 0 THEN cost ELSE FallbackCost(type)
      part == (base * KindPercent(rule.kind) * SeverityPercent(rule.severity))
                \div 10000
  IN  Min({base, (part * tier) \div 100})

\* A legacy finding has no snapshot to take a cost from.
Impact(rule, type, cost, tier) ==
  IF DirectWaste(rule, cost) > 0 THEN DirectWaste(rule, cost)
  ELSE IF rule.legacy THEN 0 ELSE Estimated(rule, type, cost, tier)

-----------------------------------------------------------------------------
(* Priority, in units of a tenth of a thousandth of a point.               *)

\* Bug: the engine's cost share is not capped.
EnginePriorityUncapped(rule, impact) ==
  5000 * SeverityPercent(rule.severity) + 3 * impact
    + 2000 * Min({100, 25 * rule.frameworks})

\* _compute_priority: severities weigh 100, 75, 50 and 25, cost a tenth of the
\* dollars up to 100.
EnginePriority(rule, impact) ==
  5000 * SeverityPercent(rule.severity) + 3 * Min({100000, impact})
    + 2000 * Min({100, 25 * rule.frameworks})

SeverityScore(severity) ==
  CASE severity = "CRITICAL" -> 100 [] severity = "HIGH" -> 80
    [] severity = "MEDIUM"   -> 60  [] severity = "LOW"  -> 40

\* FindingResult.compute_priority_score, which POST /scan applies on top:
\* severities weigh 100, 80, 60 and 40, cost the dollars up to 100.
ModelPriority(rule, impact) ==
  5000 * SeverityScore(rule.severity) + 30 * Min({10000, impact})
    + 2000 * Min({100, 25 * rule.frameworks})

Priority(path, rule, impact) ==
  IF path = "request" THEN ModelPriority(rule, impact)
  ELSE EnginePriority(rule, impact)

-----------------------------------------------------------------------------
(* The posture score.                                                      *)

RuleClasses ==
  Discovered \cup Registered \cup {Azure!OverprivilegedIdentityRule}

Cloud(type) ==
  CASE type \in AzureTypes -> "AZURE"
    [] type \in AwsTypes   -> "AWS"
    [] type \in GcpTypes   -> "GCP"

\* _rule_provider: read off the whitelist; "any" when there is none.  The first
\* generation declares one too, all of them Azure's.
RuleProvider(rule) ==
  CASE rule \in Aws!AWS_RULE_REGISTRY -> "AWS"
    [] rule \in Gcp!GCP_RULE_REGISTRY -> "GCP"
    [] rule \in Azure!RULE_REGISTRY /\ rule.types = AnyType -> "any"
    [] OTHER -> "AZURE"

\* A class without a severity attribute weighs as a MEDIUM one.
Weight(rule) ==
  IF rule.legacy THEN 2
  ELSE CASE rule.severity = "CRITICAL" -> 10 [] rule.severity = "HIGH" -> 5
         [] rule.severity = "MEDIUM"   -> 2  [] rule.severity = "LOW"  -> 1

Counted ==
  [cloud \in {"AZURE", "AWS", "GCP"} |->
     {r \in RuleClasses : RuleProvider(r) \in {"any", cloud}}]

TotalWeight(rules) == MapThenSumSet(Weight, rules)

Total == [cloud \in DOMAIN Counted |-> TotalWeight(Counted[cloud])]

Failed(cloud, open) == TotalWeight({r \in Counted[cloud] : r.id \in open})

\* round(), half to even.
Rounded(n, d) ==
  LET q == n \div d
      r == 2 * (n % d)
  IN  IF r > d \/ (r = d /\ q % 2 = 1) THEN q + 1 ELSE q

\* Bug: a critical control that fails is clamped to the weight of a LOW one.
PostureScoreClamped(cloud, open) ==
  LET failing == {r \in Counted[cloud] : r.id \in open}
  IN  Rounded(100 * (Total[cloud] - Cardinality(failing)), Total[cloud])

\* compute_posture_score over the OPEN findings of one cloud's tenant.
PostureScore(cloud, open) ==
  Rounded(100 * (Total[cloud] - Failed(cloud, open)), Total[cloud])
=============================================================================
