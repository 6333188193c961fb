SPECIFICATION Spec
CONSTANTS
    TICK_LOG_INTERVAL = 2
    MaxCalls = 2
    MaxInterrupts = 2
    BUFFER_HEIGHT = 2
    BUFFER_WIDTH = 2
    Printable <- MCPrintable
    Other <- MCOther
    Colors <- MCColors
    Default = "gray"
    MaxBytes = 4
INVARIANTS
    NeverSpins
    MessagesWhole
    ScreenIsTailOfOutput
