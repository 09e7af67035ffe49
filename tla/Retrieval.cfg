SPECIFICATION RetrievalSpec
CONSTANTS
  d1 = d1
  d2 = d2
  v1 = v1
  v2 = v2
  r1 = r1
  c1 = c1
  None = None
  Damaged = Damaged
  Docs = {d1, d2}
  Versions = {v1, v2}
  Dims = {2, 3}
  Inodes = {1, 2, 3}
  Runners = {r1}
  Searchers = {c1}
  Modes = {"full", "incremental", "verify"}
  MaxEdits = 1
  MaxModels = 1
  MaxCrashes = 0
SYMMETRY Symmetry
INVARIANTS RetrievalTypeOK ServesLastCommit SuccessReflectsScan ScoresComparable
PROPERTIES ImplementsIndex AnswerOfOneMoment
