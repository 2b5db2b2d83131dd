SPECIFICATION Spec
CONSTANTS
  N = 5
  Names = {a, b}
  MaxDepth = 4
  MaxTokens = 4
  MaxEdited = 3
  MaxOps = 2
  MaxAttrs = 2
SYMMETRY NameSymmetry
INVARIANTS
  LinksAgree
  OwnedOnce
  
  PrintsWhatWasRead
CHECK_DEADLOCK FALSE
