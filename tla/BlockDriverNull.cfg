SPECIFICATION Spec
CONSTANTS
  NULL = NULL
  App = App
  Handler = Handler
  Kinds = {"fs"}
  MaxReqs = 2
  MaxChunks = 1
INVARIANTS
  HandlerHasRequest
CHECK_DEADLOCK FALSE
