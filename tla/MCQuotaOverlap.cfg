CONSTANTS
  w1 = w1
  w2 = w2
  u1 = u1
  u2 = u2
  Unlimited = Unlimited
  Past = Past
  Idle = Idle
  NumFindings = 2
  Workers = {w1}
  Users = {u1}
  Cap = 2
  FreeCap = 1
  MaxRetries = 2
  Ops = {"scan", "ask"}
  MaxQueued = 2
  MaxDelivered = 4
  Adversity = {"overlap", "model_error", "send_error", "read_error", "write_error", "redeliver", "crash"}
SPECIFICATION Spec
INVARIANT TypeOK
INVARIANT NeverOvercharged
INVARIANT ChargedCardStored
