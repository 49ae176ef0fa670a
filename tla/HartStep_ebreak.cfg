CONSTANTS
    Addrs <- MCAddrs
    Programs <- EbreakProgram
    Quantum = 2
    DcsrWrites <- StepAndEbreak
SPECIFICATION Spec
PROPERTY EntrySavesPrivilege
