CONSTANTS
    NProcs = 1
    HartSels <- MCHartSels
    HartId <- MCHartId
    ProgbufSize = 1
    RequireAuth = TRUE
    WordSize = 1
    Programs <- MCPrograms
    Commands <- CommandForms
    AutoexecWrites <- BothOrNone
    DmcontrolWrites <- ControlWrites
SPECIFICATION Spec
INVARIANT HaltreqMirrorsHart
INVARIANT HaltedMeansInDebugMode
INVARIANT AckExcludesPendingResume
PROPERTY LeavingHaltIsVisible
PROPERTY BusyShieldsProgram
PROPERTY FirstErrorKept
