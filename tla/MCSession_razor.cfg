\* razor_workaround: the client is redirected, hangs up and comes back; the
\* server sends its login packets in the order of the protocol.
CONSTANTS
  c1 = c1  c2 = c2  l1 = l1  l2 = l2  l3 = l3  alice = alice  bob = bob
  Conns <- MCConns
  LinkedServers <- MCLinkedServers3
  Creds <- MCCreds2
  Indices <- MCIndices
  NoConn = NoConn
  NoCred = NoCred
  Razor = TRUE
  Background = FALSE
  AutoReconnect = TRUE
  HasLogin = TRUE
  NumGame = 0
  LocalIPv4 = TRUE
  StrictServer = TRUE
  MaxAuthId = 2
SPECIFICATION Spec
SYMMETRY MCSymmetry3
CHECK_DEADLOCK FALSE
INVARIANTS
  ZombieIdentity NoDangling SameAccount NoOrphanConnection
