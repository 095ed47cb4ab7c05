\* The queue of the source: four entries.
CONSTANTS
  s1 = s1  s2 = s2
  LinkedServers <- MCLinkedServers2
  NoServer = NoServer
  QueueSize = 4
  SeqMod = 5
  LinkBreaks = TRUE
  MaxInFlight = 5
  MaxId = 6
SPECIFICATION Spec
INVARIANTS
  WalkerLive
  OneWalker
  AnsweredOnce
