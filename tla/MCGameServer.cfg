SPECIFICATION FairServerSpec
CONSTANTS
    Srv = {"Tcp", "Rpc"}
    Ws = {"Tcp"}
    Conn <- MCConn
    Vfd <- MCVfd
    MaxConnection = 1
    ConnChanSize = 1
    MsgChanSize = 1
    ConnMsgChanSize = 1
    MaxRead = 0
    FirstVfd = 100
    BackoffLimit = 1
INVARIANTS
    ServerTypeOK
    PermitAccounting
PROPERTIES
    EndsLast
    ServerEnds
    CloseHeard
    PermitReturned
    StoppedServiceDrains
CHECK_DEADLOCK FALSE
