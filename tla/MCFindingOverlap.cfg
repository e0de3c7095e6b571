CONSTANTS
  f1 = f1
  f2 = f2
  r1 = r1
  r2 = r2
  timer = timer
  api = api
  u1 = u1
  t1 = t1
  NoDoc = NoDoc
  NoFinding = NoFinding
  NoEdit = NoEdit
  Tenants = {t1}
  TenantOf <- OneTenant
  Findings = {f1}
  PolicyFindings = {f1}
  ResourceOf <- OneResource
  Resources = {r1}
  Scans = {timer, api}
  ApiScans = {api}
  Users = {u1}
  Decisions = {"RESOLVED", "SNOOZED"}
  Adversity = {"overlap", "partial_scan", "read_error", "write_error", "crash"}
SPECIFICATION Spec
INVARIANT StoredDocsCoherent
PROPERTY FreshWriteIsLossless
PROPERTY SweepOnlyUndetected
PROPERTY OnlyStaleWritesBreakLedger
