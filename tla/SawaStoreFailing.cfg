SPECIFICATION Spec
CONSTANTS
  w1 = w1
  w2 = w2
  v1 = v1
  v2 = v2
  Workers = {w1}
  Ops = {"read", "write"}
  Offsets = {0, 1, 2, 4}
  Sizes = {0, 1, 2}
  Values = {v1, v2}
  NbBlocks = 3
  Word = 8
  LastAddr = 9
  Blank = Blank
  Absent = Absent
  Garbage = Garbage
  None = None
  Nil = Nil
  DiskMayFail = TRUE
  MaxReqs = 3
  MaxCrashes = 2
INVARIANTS
  WriteAtOffset
  
  
CHECK_DEADLOCK FALSE
