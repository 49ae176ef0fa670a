CONSTANTS
    IrLength = 2
    AddrBits = 0
    DataBits = 1
    IdLength = 2
    IR_IDCODE = 0
    IR_DTMCONTROL = 2
    IR_DBUS = 1
    idcode = 1
    dtmcontrol = 1
    Failing = {}
    Clients <- MCClients
    BufSize = 2
SPECIFICATION FairSpec
INVARIANT ScanKeepsStream
INVARIANT BuffersBelongToClient
PROPERTY WritesAreScanned
PROPERTY ImplementsBitPort
PROPERTY TickReturns
PROPERTY AnswerArrives
CHECK_DEADLOCK FALSE
