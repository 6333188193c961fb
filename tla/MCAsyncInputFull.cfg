CONSTANTS
    a1 = a1
    Kbd = Kbd
    AppTasks <- OneApp
    TASK_QUEUE_CAPACITY = 4
    SCANCODE_QUEUE_CAPACITY = 2
    KEY_QUEUE_CAPACITY = 2
    MaxScancodes = 4
SPECIFICATION Spec
INVARIANT
    CapacityAboveTasksSuffices
