SPECIFICATION PoolSpec
CONSTANTS
  Layers = 2
  Pages = 2
  PageSize = 2
  r1 = r1
  r2 = r2
  r3 = r3
  Requests = {r1, r2, r3}
  Rows = {1, 2}
  MaxContext = 3
  MaxExtend = 2
  Chunk = 1
  Skews <- MCSkews
  Unwritten = Unwritten
  None = None
SYMMETRY Symmetry
INVARIANTS FreePagesUnreadable CommittedEverywhere AnsweredCausally PagesConserved
