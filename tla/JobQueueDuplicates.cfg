SPECIFICATION Spec
CONSTANTS
  c1 = c1
  c2 = c2
  c3 = c3
  w1 = w1
  w2 = w2
  reindex = reindex
  warmup = warmup
  Clients = {c1, c2}
  Workers = {w1}
  JobTypes = {reindex}
  MaxAttempts = 2
  SkipLocked = TRUE
  MaxRequests = 2
  MaxCrashes = 0
INVARIANTS AtMostOneActivePerType
