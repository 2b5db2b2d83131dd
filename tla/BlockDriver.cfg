SPECIFICATION FairSpec
CONSTANTS
  NULL = NULL
  App = App
  Handler = Handler
  Kinds = {"fs", "other"}
  MaxReqs = 4
  MaxChunks = 2
INVARIANTS
  NoStrandedRequest
  EndedOnce
  EndsWhatItTransferred
PROPERTIES
  EveryRequestEnds
CHECK_DEADLOCK FALSE
