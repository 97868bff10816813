SPECIFICATION FairSpec
CONSTANTS
  NConn = 3
  NServer = 1
  MaxSd = 2
  MaxClient = 1
  MaxMsg = 1
  MaxFault = 1
  MaxFull = 0
  NEvent = 1
  MAX_NCCONN = 1
  SERVER_CONNECTIONS = 1
  TIMEOUT = FALSE
  CONNECT <- Asynchronous
  CLIENT_ITEMS <- Gets
  SERVER_FAULTS <- ServersStop
PROPERTY ServerFinCloses
CHECK_DEADLOCK FALSE
