CONSTANTS
  Sockets = {s1, s2}
  Servers = {login, game}
  NoSocket = NoSocket
  MaxAttempts = 3
SPECIFICATION Spec
INVARIANT EverySocketOwned
PROPERTIES ReportsOnce ConnectEnds
CHECK_DEADLOCK FALSE
