SPECIFICATION Spec
CONSTANTS
  Base = base
  Raw = raw
  Source = {s1, s2}
  CWaker = {w1, w2, w3}
  NoWaker = NoWaker
  Ctx = {c1, c2, c3}
  Addr = {a1, a2}
  NoAddr = NoAddr
  MaxYields = 1
  CloneSharesData = TRUE
SYMMETRY Interchangeable
INVARIANTS
  TypeOK
  FingerprintSound
  FutureDroppedByHost
PROPERTIES
  DrivesCell
