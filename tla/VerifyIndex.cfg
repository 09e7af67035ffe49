SPECIFICATION VerifySpec
CONSTANTS
  d1 = d1
  d2 = d2
  v1 = v1
  v2 = v2
  r1 = r1
  r2 = r2
  None = None
  Damaged = Damaged
  Docs = {d1}
  Versions = {v1}
  Dims = {2, 3}
  Inodes = {1, 2, 3, 4}
  Runners = {r1, r2}
  Modes = {"full", "incremental", "verify"}
  MaxEdits = 1
  MaxModels = 1
  MaxCrashes = 1
SYMMETRY Symmetry
VIEW VerifyView
INVARIANTS TmpOnlyDuringFull ServesUnlessOverrun
PROPERTIES StepsUnlessOverrun VerifyVouches
