SPECIFICATION UserSpec
CONSTANTS
    Processes <- MCProcesses
    MaxThreads = 3
    StackSlots = 3
    MaxFrames = 8
    MaxHosts = 2
INVARIANT EntryFrameIntact
