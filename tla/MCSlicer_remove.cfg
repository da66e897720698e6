SPECIFICATION Spec
CONSTANTS
  Reg = {r1, r2}
  Nobody = Nobody
  Removing = {r1, r2}
  FirstLen = 1
  MaxVec = 2
  MaxRounds = 3
  GcEvery = 2
  PauseLimit = 2
PROPERTIES
  UnregisterReturns
  GarbageCollected
