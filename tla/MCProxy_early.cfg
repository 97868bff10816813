SPECIFICATION Spec
CONSTANTS
  NConn = 3
  NServer = 1
  MaxSd = 2
  MaxClient = 1
  MaxMsg = 2
  MaxFault = 2
  MaxFull = 1
  NEvent = 1
  MAX_NCCONN = 1
  SERVER_CONNECTIONS = 1
  TIMEOUT = FALSE
  CONNECT <- Asynchronous
  CLIENT_ITEMS <- Gets
  SERVER_FAULTS <- EarlyReplies
INVARIANT PendingAreHeld
CHECK_DEADLOCK FALSE
