SPECIFICATION FairSpec
CONSTANTS
  p1 = p1
  p2 = p2
  i1 = i1
  Processes = {p1, p2}
  Ids = {i1}
  IdOf <- OneId
  Interval = 3
  Base = 1
  MaxDelay = 4
  MaxAge = 6
INVARIANTS FreshWhenUp
PROPERTIES OnlySharedRowGoesBack KeepsBeating
