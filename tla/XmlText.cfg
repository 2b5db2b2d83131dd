SPECIFICATION Spec
CONSTANTS
  MaxChars = 4
  MaxPieces = 4
  UintSize = 134217728
  Jobs <- AllJobs
INVARIANTS
  PrintedIsReadBack
  WritesBehindReads
  
CHECK_DEADLOCK FALSE
