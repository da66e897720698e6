SPECIFICATION FairSpec
CONSTANTS
  Base = base
  Raw = raw
  Source = {s1}
  CWaker = {w1, w2, w3}
  NoWaker = NoWaker
  Ctx = {c1, c2}
  Addr = {a1, a2}
  NoAddr = NoAddr
  MaxYields = 0
  CloneSharesData = TRUE
PROPERTIES
  Completes
  Released
