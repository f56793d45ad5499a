SPECIFICATION HubSpec
CONSTANTS
    Srv = {"Tcp", "Rpc"}
    Ws = {"Tcp"}
    Conn <- MCConn
    Vfd <- MCVfd
    MaxConnection = 1
    ConnChanSize = 1
    MsgChanSize = 2
    ConnMsgChanSize = 1
    MaxRead = 2
    FirstVfd = 100
    BackoffLimit = 1
INVARIANTS
    HubTypeOK
    PermitAccounting
    DelayStartsOver
    QueueOrder
    TcpNeverLost
    CloseNotLost
PROPERTIES
    DispatchInOrder
    Spec
CHECK_DEADLOCK FALSE
