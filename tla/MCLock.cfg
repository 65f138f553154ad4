SPECIFICATION Spec
CONSTANTS
  p1 = p1
  p2 = p2
  p3 = p3
  d1 = d1
  Process = {p1, p2, p3}
  Directory = {d1}
  Cwd <- OneDirectory
  Worlds <- AllWorlds
INVARIANTS
  TypeOK
  MutualExclusion
  NoSelfBlock
PROPERTY SettledHolderKeepsLock
CHECK_DEADLOCK FALSE
