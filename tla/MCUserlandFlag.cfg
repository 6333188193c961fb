SPECIFICATION UserSpec
CONSTANTS
    Processes <- MCProcesses
    MaxThreads = 2
    StackSlots = 2
    MaxFrames = 8
    MaxHosts = 1
INVARIANT SwitchedInWithInterruptsOn
