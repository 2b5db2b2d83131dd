SPECIFICATION Spec
CONSTANTS
  w1 = w1
  w2 = w2
  v1 = v1
  v2 = v2
  Workers = {w1, w2}
  Ops = {"read", "write"}
  Offsets = {0, 1}
  Sizes = {1}
  Values = {v1}
  NbBlocks = 3
  Word = 8
  LastAddr = 9
  Blank = Blank
  Absent = Absent
  Garbage = Garbage
  None = None
  Nil = Nil
  DiskMayFail = FALSE
  MaxReqs = 2
  MaxCrashes = 0
INVARIANTS
  TransferAtOffset
CHECK_DEADLOCK FALSE
