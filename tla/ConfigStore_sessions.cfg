SPECIFICATION Spec
CONSTANTS
  s1 = s1
  s2 = s2
  local = local
  web = web
  a1 = a1
  p1 = p1
  r1 = r1
  r2 = r2
  Sessions = {s1, s2}
  Ids <- MCIds
  Local = local
  Addresses <- MCOne
  Policies = {p1}
  Rests = {r1, r2}
  Inline = {r2}
  Inventories <- MCInventories
  None = None
  Torn = Torn
  Missing = Missing
  MaxSaves = 2
  MaxByHand = 1
  MaxKills = 1
SYMMETRY SessionSymmetry
\* Every session may be off with a file that no longer parses.
CHECK_DEADLOCK FALSE
INVARIANTS TypeOK WholeUnlessOverlapped GridShowsFile
PROPERTIES SaveChangesItsHost EditKeepsPolicy
