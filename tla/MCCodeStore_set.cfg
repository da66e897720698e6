SPECIFICATION Spec
CONSTANTS
  Reader = {r1}
  Flag = {PINNED, JIT}
  NoGuard = NoGuard
  MaxSets = 2
  MaxGets = 1
  MaxTries = 1
PROPERTIES
  WaitsForReadersOnly
