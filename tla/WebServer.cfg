SPECIFICATION FairSpec
CONSTANTS
  Threads = {t1, t2}
  Main = Main
  Towas = {p1, p2}
  None = None
  Faults = TRUE
  request_message_len = 2
  Scripts <- ScriptSet
  Flags = {FALSE, TRUE}
  MayCut = TRUE
  Files <- Tree
  Edited = {"f"}
  MaxChanges = 1
INVARIANTS
  AnswersInOrder
  OwnAnswer
  OneTowa
  FilesServed
  BuffersFreed
  
PROPERTY
  Answers
CHECK_DEADLOCK FALSE
