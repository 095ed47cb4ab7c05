\* Default mode: redirects are hidden from the client.
CONSTANTS
  c1 = c1  c2 = c2  l1 = l1  l2 = l2  l3 = l3  alice = alice  bob = bob
  Conns <- MCConns
  LinkedServers <- MCLinkedServers3
  Creds <- MCCreds2
  Indices <- MCIndices
  NoConn = NoConn
  NoCred = NoCred
  Razor = FALSE
  Background = FALSE
  AutoReconnect = TRUE
  HasLogin = TRUE
  NumGame = 0
  LocalIPv4 = TRUE
  StrictServer = FALSE
  MaxAuthId = 2
SPECIFICATION Spec
SYMMETRY MCSymmetry3
CHECK_DEADLOCK FALSE
INVARIANTS
  InGameServed NoLostReconnect
PROPERTIES
   PlayingClientStays
