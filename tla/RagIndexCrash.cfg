SPECIFICATION Spec
CONSTANTS
  d1 = d1
  d2 = d2
  v1 = v1
  v2 = v2
  r1 = r1
  r2 = r2
  None = None
  Damaged = Damaged
  Docs = {d1, d2}
  Versions = {v1, v2}
  Dims = {2}
  Inodes = {1, 2, 3}
  Runners = {r1}
  Modes = {"full", "incremental"}
  MaxEdits = 2
  MaxModels = 0
  MaxCrashes = 1
SYMMETRY Symmetry
INVARIANTS ServesLastCommit
