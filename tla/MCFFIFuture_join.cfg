SPECIFICATION FairSpec
CONSTANTS
  Base = base
  Raw = raw
  Source = {s1, s2}
  CWaker = {w1}
  NoWaker = NoWaker
  Ctx = {c1}
  Addr = {a1}
  NoAddr = NoAddr
  MaxYields = 0
  CloneSharesData = TRUE
PROPERTIES
  Completes
