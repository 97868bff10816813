SPECIFICATION Spec
CONSTANTS
  NConn = 4
  NServer = 1
  MaxSd = 3
  MaxClient = 1
  MaxMsg = 2
  MaxFault = 1
  MaxFull = 0
  NEvent = 1
  MAX_NCCONN = 1
  SERVER_CONNECTIONS = 1
  TIMEOUT = TRUE
  CONNECT <- Asynchronous
  CLIENT_ITEMS <- Gets
  SERVER_FAULTS <- AllServerFaults
PROPERTY TimeoutClosesServers
CHECK_DEADLOCK FALSE
