CONSTANTS
    NProcs = 2
    HartSels <- MCHartSels
    HartId <- MCHartId
    ProgbufSize = 1
    RequireAuth = FALSE
    WordSize = 2
    Programs <- SessionPrograms
    Commands <- SessionCommands
    AutoexecWrites <- NoAutoexec
    DmcontrolWrites <- NoWrites
SPECIFICATION FairSessionSpec
INVARIANT BusyCoversCommand
INVARIANT ExecutesWholeProgram
INVARIANT NoStrayResume
PROPERTY HaltCompletes
PROPERTY ResumeCompletes
PROPERTY CommandCompletes
PROPERTY ImplementsCommandPort
