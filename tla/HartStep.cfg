CONSTANTS
    Addrs <- MCAddrs
    Programs <- MCPrograms
    Quantum = 3
    DcsrWrites <- MCDcsrWrites
SPECIFICATION FairSpec
INVARIANT StepsOneInstruction
INVARIANT CountsExecuted
PROPERTY StepWasRequested
PROPERTY ImplementsArchitecture
PROPERTY StepReturns
