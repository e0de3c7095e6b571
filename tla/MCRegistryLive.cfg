CONSTANTS
  s1 = s1
  s2 = s2
  u1 = u1
  u2 = u2
  Timer = Timer
  Never = Never
  NoRec = NoRec
  NoReq = NoReq
  NoSub = NoSub
  Subs = {s1}
  Users = {u1}
  Ops = {"add", "patch", "remove", "mirror", "scan", "timer", "purge"}
  Cap = 1
  Cooldown = 1
  Retention = 1
  Adversity = {"overlap", "auth_error", "read_error", "write_error", "crash"}
SPECIFICATION FairSpec
INVARIANT TombstonesPurgeable
PROPERTY EarlyPurgeNeedsRewrite
PROPERTY TombstonesExpire
