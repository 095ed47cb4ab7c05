CONSTANTS
  Mobiles = {m1, m2}
  Items = {i1, i2}
  Kept = {season}
  None = None
  Clients = {c1, c2}
  ClientVersions <- MCClientVersions
  Majors <- MCMajors
  Configured <- MCConfigured
  MaxPackets = 2
  MaxHellos = 2
  MaxInputs = 2
  MaxAttaches = 2
SYMMETRY Symmetry
SPECIFICATION Spec
INVARIANTS
  
  
  CursorsCancelled
  ContainmentFollowed
  
PROPERTY
  PlayerPlaced
CHECK_DEADLOCK FALSE
