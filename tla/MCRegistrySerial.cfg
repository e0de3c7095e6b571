CONSTANTS
  s1 = s1
  s2 = s2
  u1 = u1
  u2 = u2
  Timer = Timer
  Never = Never
  NoRec = NoRec
  NoReq = NoReq
  NoSub = NoSub
  Subs = {s1, s2}
  Users = {u1}
  Ops = {"add", "patch", "remove", "scan", "timer", "purge"}
  Cap = 1
  Cooldown = 1
  Retention = 1
  Adversity = {"revoke", "auth_error"}
SPECIFICATION Spec
SYMMETRY Symmetric
INVARIANT TypeOK
PROPERTY NewLinksRespectCap
