CONSTANTS
  w1 = w1
  w2 = w2
  u1 = u1
  u2 = u2
  Unlimited = Unlimited
  Past = Past
  Idle = Idle
  NumFindings = 3
  Workers = {w1}
  Users = {}
  Cap = 2
  FreeCap = 1
  MaxRetries = 1
  Ops = {"scan"}
  MaxQueued = 1
  MaxDelivered = 3
  Adversity = {"overlap", "model_error", "send_error", "write_error", "read_error"}
SPECIFICATION FairSpec
PROPERTY TopFindingGetsCard
