SPECIFICATION Spec
CONSTANTS
  A = A
  C = C
  b1 = b1
  b2 = b2
  b3 = b3
  s1 = s1
  Elem = {b1, b2, b3}
  Str = {s1}
  Lib = {A, C}
  Nobody = Nobody
  Maker <- Makers
  Junk = Junk
  Width = 8
  ElemSize = 8
  HeaderSize = 24
  Memory = 100
  Claims = {0, 1, 5, 32, 255}
  MaxLen = 5
  MaxItems = 2
SYMMETRY Alike
INVARIANTS
  TypeOK
  OwnedOnce
  BlockHoldsCapacity
  GrowsOnce
  DroppedByMaker
PROPERTIES
  KeepsList
