SPECIFICATION FairSpec
CONSTANTS
  NConn = 5
  NServer = 2
  MaxSd = 4
  MaxClient = 2
  MaxMsg = 2
  MaxFault = 1
  MaxFull = 1
  NEvent = 2
  MAX_NCCONN = 2
  SERVER_CONNECTIONS = 1
  TIMEOUT = FALSE
  CONNECT <- Asynchronous
  CLIENT_ITEMS <- GetsAndLeaves
  SERVER_FAULTS <- NoServerFaults
INVARIANTS ResponsesInOrder NoLostServerWakeup
PROPERTIES RequestsReachWire UnwantedAreFreed
CHECK_DEADLOCK FALSE
