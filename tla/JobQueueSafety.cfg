SPECIFICATION Spec
CONSTANTS
  c1 = c1
  c2 = c2
  c3 = c3
  w1 = w1
  w2 = w2
  reindex = reindex
  warmup = warmup
  Clients = {c1, c2}
  Workers = {w1, w2}
  JobTypes = {reindex, warmup}
  MaxAttempts = 3
  SkipLocked = TRUE
  MaxRequests = 2
  MaxCrashes = 2
SYMMETRY Symmetry
INVARIANTS IInv ExclusiveRun RowConsistent RunsCounted OrphansOnlyByDeath DuplicatesOnlyByOverlap AcceptedOwnsRow
PROPERTIES TerminalFinal ImplementsLifecycle
