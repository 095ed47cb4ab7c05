\* The assertions of DoReconnect() against %reconnect with the timer pending.
CONSTANTS
  c1 = c1  c2 = c2  l1 = l1  l2 = l2  l3 = l3  alice = alice  bob = bob
  Conns <- MCConns
  LinkedServers <- MCLinkedServers2
  Creds <- MCCreds1
  Indices <- MCIndices
  NoConn = NoConn
  NoCred = NoCred
  Razor = FALSE
  Background = FALSE
  AutoReconnect = TRUE
  HasLogin = TRUE
  NumGame = 0
  LocalIPv4 = TRUE
  StrictServer = TRUE
  MaxAuthId = 2
SPECIFICATION Spec
CHECK_DEADLOCK FALSE
INVARIANTS
  ReconnectAssertionHolds
