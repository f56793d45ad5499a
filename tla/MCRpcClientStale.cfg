SPECIFICATION Spec
CONSTANTS
    Srv = {"RpcClient"}
    Ws = {}
    Conn <- MCConn
    Vfd <- MCVfd
    MaxConnection = 1
    ConnChanSize = 2
    MsgChanSize = 2
    ConnMsgChanSize = 1
    MaxRead = 0
    Host = {1, 2}
    HostId = 1
    DelayLimit = 2
    MaxSend = 2
INVARIANT
    FinishedIsOpen
