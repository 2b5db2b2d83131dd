SPECIFICATION FairSpec
CONSTANTS
  Driver = driver
  Users = {user}
  Testers = {tester}
  Nil = Nil
  NbSectors = 2
  Sector = 2
  Page = 2
  Pages = 1
  Word = 16
  MaxLen = 6
  Junk = {0, 3}
  Data = {1}
  Sectors = {0, 2, 8}
  UserCalls <- Commands
  MaxConns = 4
  Loads <- Mixes
  MaxFaults = 1
INVARIANTS
  ServedAsSent
  
  DriverWithinStore
  SocketsReleased
PROPERTIES
  CallsReturn
CHECK_DEADLOCK FALSE
