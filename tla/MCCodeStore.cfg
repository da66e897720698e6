SPECIFICATION Spec
CONSTANTS
  Reader = {r1, r2}
  Flag = {PINNED, JIT}
  NoGuard = NoGuard
  MaxSets = 2
  MaxGets = 2
  MaxTries = 2
INVARIANTS
  TypeOK
  NoUseAfterFree
  CountsGuards
PROPERTIES
  KeepsContract
  GetReturns
  SetReturns
