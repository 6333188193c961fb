CONSTANTS
    Processes <- MCProcesses
    MaxThreads = 4
    StackSlots = 3
SPECIFICATION FairSpec
INVARIANTS
    NoThreadLost
    StacksOutliveUse
    OnlyLastExitPanics
    CountersExact
    TagIsTheRunners
PROPERTIES
    ImplementsRoundRobin
    QueuedThreadRuns
    ExitedStackReclaimed
