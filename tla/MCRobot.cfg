SPECIFICATION FairSpec
CONSTANTS
    Srv = {"Tcp"}
    Ws = {}
    Conn <- MCConn
    Vfd <- MCVfd
    MaxConnection = 2
    ConnChanSize = 2
    MsgChanSize = 1
    ConnMsgChanSize = 1
    MaxRead = 1
    RobotNum = 2
INVARIANTS
    TypeOK
    DialsThrough
PROPERTIES
    AnswersLogin
    EveryoneLogsIn
CHECK_DEADLOCK FALSE
