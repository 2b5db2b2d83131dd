SPECIFICATION FairSpec
CONSTANTS
  f1 = f1
  f2 = f2
  Fds = {f1, f2}
  NoSock = NoSock
  NULL = NULL
  Acceptor = Acceptor
  Admin = Admin
  Unset = Unset
  MaxConns = 2
  MaxFails = 1
  CreateMayFail = TRUE
INVARIANTS
  NoNullPop
  IdleListOK
  IdleThreadsParked
  NoLostWakeup
  
  StatBufferExact
PROPERTIES
  DispatcherSpec
  EveryConnectionServed
