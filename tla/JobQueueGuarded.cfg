SPECIFICATION Spec
CONSTANTS
  c1 = c1
  c2 = c2
  c3 = c3
  w1 = w1
  w2 = w2
  reindex = reindex
  warmup = warmup
  Clients = {c1, c2}
  Workers = {w1, w2}
  JobTypes = {reindex, warmup}
  MaxAttempts = 2
  SkipLocked = FALSE
  MaxRequests = 2
  MaxCrashes = 1
SYMMETRY Symmetry
INVARIANTS ExclusiveRun
PROPERTIES TerminalFinal
