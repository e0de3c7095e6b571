CONSTANTS
  f1 = f1
  f2 = f2
  r1 = r1
  r2 = r2
  timer = timer
  api = api
  u1 = u1
  t1 = t1
  NoDoc = NoDoc
  NoFinding = NoFinding
  NoEdit = NoEdit
  Tenants = {t1}
  TenantOf <- OneTenant
  Findings = {f1, f2}
  PolicyFindings = {}
  ResourceOf <- OwnResource
  Resources = {r1, r2}
  Scans = {timer, api}
  ApiScans = {api}
  Users = {u1}
  Decisions = {"RESOLVED", "SNOOZED"}
  Adversity = {"drift"}
SPECIFICATION Spec
INVARIANT TypeOK
INVARIANT MirrorAfterScan
PROPERTY ImplementsLedger
