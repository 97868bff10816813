SPECIFICATION Spec
CHECK_DEADLOCK FALSE
CONSTANTS
    NSERVER <- Servers
    PRECONNECT <- First
    SERVER_CONNECTIONS <- Connections
    NFD = {13, 16}
    RESERVED_FDS = 9
    WORD = 64
    NConn = 8
    MaxFault = 2
INVARIANT RoomToAccept
