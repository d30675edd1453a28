SPECIFICATION Spec
CONSTANTS
    Workers = {w1, w2, w3}
    MaxTasks = 4
INVARIANTS
    StartedInOrder
    NobodySleepsOnWork
    AwakeAfterBroadcast
PROPERTIES
    TasksStart
    DestroyReturns
