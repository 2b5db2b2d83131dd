SPECIFICATION FairSpec
CONSTANTS
  w1 = w1
  w2 = w2
  Workers = {w1, w2}
  Main = Main
  Admin = Admin
  Nobody = Nobody
  Options <- CommandLines
  MaxFds = 2
  Commands = {{"stat", "stop"}, {"other", "stop"}}
  MayFail = TRUE
PROPERTY
  DaemonObeysStop
CHECK_DEADLOCK FALSE
