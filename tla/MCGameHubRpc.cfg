SPECIFICATION HubSpec
CONSTANTS
    Srv = {"Tcp", "Rpc"}
    Ws = {}
    Conn <- MCConn
    Vfd <- MCVfd
    MaxConnection = 1
    ConnChanSize = 1
    MsgChanSize = 1
    ConnMsgChanSize = 1
    MaxRead = 1
    FirstVfd = 100
    BackoffLimit = 1
INVARIANT
    RpcNeverLost
CHECK_DEADLOCK FALSE
