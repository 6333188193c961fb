CONSTANTS
    a1 = a1
    Kbd = Kbd
    AppTasks <- OneApp
    TASK_QUEUE_CAPACITY = 3
    SCANCODE_QUEUE_CAPACITY = 2
    KEY_QUEUE_CAPACITY = 2
    MaxScancodes = 5
SPECIFICATION FairSpec
INVARIANTS
    NeverHaltsWithWork
    BookkeepingAgrees
    NoLostWakeup
    HandlerNeverFrees
    EventsKept
PROPERTIES
    AcceptedIsDecoded
    WokenTaskIsPolled
