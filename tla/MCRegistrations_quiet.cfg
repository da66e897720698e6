SPECIFICATION Spec
CONSTANTS
  Reg = {r1, r2}
  Nobody = Nobody
  Removing = {r1, r2}
  FirstLen = 2
  MaxVec = 1
  MaxRounds = 4
INVARIANTS
  QuietOnceUnregistered
