CONSTANTS
  d1 = d1
  d2 = d2
  d3 = d3
  Daemon <- MCDaemon
  NoDaemon = NoDaemon
SPECIFICATION FairDaemonSpec
INVARIANTS SerialOneOwner
PROPERTIES UsurpedDaemonStops
CHECK_DEADLOCK FALSE
