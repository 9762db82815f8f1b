CONSTANTS
  c1 = c1
  c2 = c2
  Pushes = {p1, p2, p3}
  Commits = {c1, c2}
  Closure <- MCClosure
  RefNames = {main, dev}
  Main = main
  NoOid = none
  MaxCommands = 1
  CompactThreshold = 2
  MaxManifestPacks = 2
SYMMETRY Symmetry
SPECIFICATION Spec
INVARIANTS TypeOK Cloneable HeadExists AnnouncedWasPublished
PROPERTY ImplementsRefLog
CHECK_DEADLOCK FALSE
