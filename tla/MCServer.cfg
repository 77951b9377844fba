SPECIFICATION FairSpec
CONSTANTS
  MaxConnections = 2
  MaxBacklog = 2
INVARIANTS
  TypeOK
  SocketsOwned
  SlotsOwned
  ShutdownReaches
  NoUseAfterClose
PROPERTY
  ShutdownCompletes
