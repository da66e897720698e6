SPECIFICATION Spec
CONSTANTS
  Reg = {r1, r2, r3}
  Nobody = Nobody
  Removing = {}
  FirstLen = 2
  MaxVec = 2
  MaxRounds = 3
  GcEvery = 2
  PauseLimit = 4
INVARIANTS
  TypeOK
  NoUseAfterFree
PROPERTIES
  KeepsCalling
  GarbageCollected
  IdleParks
