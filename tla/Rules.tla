-------------------------------- MODULE Rules --------------------------------
(***************************************************************************)
(* The vocabulary the rule packs are written in.                           *)
(*                                                                         *)
(* A resource snapshot is, for a rule, its config dict (with the tags and  *)
(* the monthly cost of the snapshot as two more keys).  A value a rule can *)
(* tell apart from the others is a token: a key nobody wrote is "missing", *)
(* a key holding None is "none", and so on.  What evaluate() tests is a    *)
(* set of patterns, each giving for some keys the tokens it matches; the   *)
(* rule fires when one of its patterns matches.                            *)
(***************************************************************************)
EXTENDS Naturals, FiniteSets

\* Python's falsy values, as config.get(key) returns them.
Falsy == {"missing", "none", "empty", "zero", "false"}

\* Every token a config key of the code's collectors and rules can hold.
Tokens ==
  Falsy \cup
  {"true", "some", "set", "short", "long", "low", "high", "huge", "many",
   "public", "private", "default", "custom", "ssh", "rdp", "web", "range", "icmp", "all",
   "any_port", "all_ports", "plaintext", "world", "world_v6", "anonymous",
   "all_required", "all_blocked", "all_on", "locked", "enforce", "on",
   "partial", "catch_all", "rules", "root_keys", "no_root_keys", "stale_active",
   "stale_list", "auth_none", "deprecated", "outdated", "kms_with_key",
   "primitive", "primitive_public", "no_expiry", "vhd", "hot", "under_5",
   "under_20", "complete", "dev", "complete_dev", "enabled", "disabled",
   "Enabled", "Disabled", "Allow", "Deny", "INGRESS", "EGRESS", "available",
   "in-use", "Unattached", "TLS1_0", "TLS1_2", "1.2", "INFO", "ERROR",
   "IMMUTABLE", "CUSTOMER", "AWS_KMS", "SERVER_AUTHENTICATION", "ALLOW_ALL",
   "Owner", "Contributor", "User Access Administrator", "User",
   "ServicePrincipal", "Guest", "subscription", "eip"}

Not(values) == Tokens \ values
NotTrue     == Not({"true"})         \* "is not True": a truthy string too
Truthy      == Not(Falsy)
Below       == Falsy \cup {"short"}  \* int(x or 0) under the rule's threshold
Priced      == {"some", "high", "huge", "eip"}   \* cost_monthly > 0
Privileged  == {"Owner", "Contributor", "User Access Administrator"}
AnyType     == {}                    \* no resource_types attribute

\* A PolicyRule subclass: identity, whitelist, severity, finding type, number
\* of compliance frameworks, the patterns it fires on.
Rule(id, types, severity, kind, frameworks, fires) ==
  [id |-> id, types |-> types, severity |-> severity, kind |-> kind,
   frameworks |-> frameworks, fires |-> fires, raises |-> {},
   percent |-> 0, cents |-> 0, legacy |-> FALSE]

\* A rule that reports a share of the resource's monthly cost as waste, or a
\* fixed amount (in cents), and one that raises on some configs.
Wasteful(rule, percent)  == [rule EXCEPT !.percent = percent]
FlatWaste(rule, cents)   == [rule EXCEPT !.cents = cents]
Raising(rule, patterns)  == [rule EXCEPT !.raises = patterns]

\* A rule of the first generation: no PolicyRule base, so it is discovered by
\* nobody, its whitelist is read by nobody, and its findings carry neither a
\* snapshot nor a framework.
Legacy(id, severity, kind, fires) ==
  [Rule(id, AnyType, severity, kind, 0, fires) EXCEPT !.legacy = TRUE]

\* config.get(key): the token, "missing" when no collector wrote the key.
Value(config, key) == IF key \in DOMAIN config THEN config[key] ELSE "missing"

Matches(pattern, config) ==
  \A key \in DOMAIN pattern : Value(config, key) \in pattern[key]

Raises(rule, config) == \E p \in rule.raises : Matches(p, config)

\* evaluate() returns a finding; a rule that raises returns none.
Fires(rule, config) ==
  ~Raises(rule, config) /\ \E p \in rule.fires : Matches(p, config)

Ids(rules) == {r.id : r \in rules}
=============================================================================
