SPECIFICATION Spec
CONSTANTS
  d1 = d1
  d2 = d2
  v1 = v1
  v2 = v2
  r1 = r1
  r2 = r2
  None = None
  Damaged = Damaged
  Docs = {d1, d2}
  Versions = {v1, v2}
  Dims = {2}
  Inodes = {1, 2, 3, 4}
  Runners = {r1, r2}
  Modes = {"full"}
  MaxEdits = 0
  MaxModels = 0
  MaxCrashes = 0
SYMMETRY Symmetry
INVARIANTS PublishedHasChunks
