SPECIFICATION Spec
CONSTANTS
  c1 = c1
  embedder = embedder
  large = large
  small = small
  Unset = Unset
  Clients = {c1}
  Models = {embedder, large, small}
  MaxChanges = 2
SYMMETRY Symmetry
INVARIANTS OneGoodModelSuffices MetaIsTrue WarmupVouches
