SPECIFICATION Spec
CONSTANTS
  Reg = {r1, r2, r3}
  Nobody = Nobody
  Removing = {r1, r2, r3}
  FirstLen = 1
  MaxVec = 3
  MaxRounds = 4
SYMMETRY Interchangeable
INVARIANTS
  TypeOK
  RemovedEverywhere
  RegisteredOnce
  OwnersAreUsers
  NoArrayLeak
PROPERTIES
  KeepsRegistry
