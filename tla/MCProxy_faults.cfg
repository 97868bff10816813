SPECIFICATION Spec
CONSTANTS
  NConn = 4
  NServer = 1
  MaxSd = 3
  MaxClient = 3
  MaxMsg = 2
  MaxFault = 1
  MaxFull = 1
  NEvent = 1
  MAX_NCCONN = 2
  SERVER_CONNECTIONS = 1
  TIMEOUT = TRUE
  CONNECT <- AnyConnect
  CLIENT_ITEMS <- AllItems
  SERVER_FAULTS <- AllServerFaults
INVARIANTS TypeOK ResponsesPaired QueuesInSync RequestsAreThere ConnPools QueuedHaveTimer ClientLimit
CHECK_DEADLOCK FALSE
