CONSTANTS
  w1 = w1
  w2 = w2
  u1 = u1
  u2 = u2
  Unlimited = Unlimited
  Past = Past
  Idle = Idle
  NumFindings = 3
  Workers = {w1}
  Users = {u1}
  Cap = 2
  FreeCap = 1
  MaxRetries = 3
  Ops = {"scan", "ask"}
  MaxQueued = 2
  MaxDelivered = 4
  Adversity = {"model_error", "send_error"}
SPECIFICATION Spec
INVARIANT QuotaHonoured
INVARIANT UsageExact
