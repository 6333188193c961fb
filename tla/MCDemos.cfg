SPECIFICATION DemoSpec
CONSTANTS
    Processes <- MCProcesses
    MaxThreads = 4
    StackSlots = 3
    MaxFrames = 8
    MaxHosts = 2
INVARIANTS
    RegisteredUntilHostLeaves
    RegisteredIsMapped
    RingThreeHasProcess
    DemosLeaveNothing
PROPERTIES
    ImplementsThreads
    DemosEnd
