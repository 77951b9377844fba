SPECIFICATION FairSpec
CONSTANTS
  MaxConnections = 2
  MaxBacklog = 2
PROPERTY
  SigintStops
