CONSTANTS
  Requests = {r1}
  Hooks = {h1}
  Customers = {c1, c2}
  Subs = {s1, s2}
  NoOne = NoOne
  Shared = TRUE
  Priced = {"PRO", "ENTERPRISE"}
  TTL = 2
  Adversity = {"write_error", "stripe_error", "crash"}
  MaxEvents = 4
SPECIFICATION FairSpec
INVARIANTS
  TypeOK
  SettledTier
PROPERTIES
  ImplementsEntitlement
  PaidTierArrives
