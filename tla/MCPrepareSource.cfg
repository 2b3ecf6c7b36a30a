SPECIFICATION PrepSpec
CONSTANTS
  r1 = r1
  r2 = r2
  r3 = r3
  r4 = r4
  o1 = o1
  o2 = o2
  p1 = p1
  p2 = p2
  c1 = c1
  c2 = c2
  c3 = c3
  Runs = {r1, r2, r3, r4}
  VerifyOnly = {r3}
  Outputs = {o1, o2}
  OutputOf <- MCOutputOf
  Refusable = {o2}
  Patches = {p1, p2}
  Files = {f1, f2}
  Commits = {c1, c2, c3}
  WithOverlay = {c2}
  Text <- MCText
  Locks <- MCLocks
  MaxEdits = 2
  Nobody = Nobody
  Absent = Absent
SYMMETRY Pair
INVARIANTS ReceiptComplete EditsShow
PROPERTY ArtifactsPreserved
CHECK_DEADLOCK FALSE
