CONSTANTS
    ThreadCount = 3
    InputCount = 10
    QueueSize = 2
SPECIFICATION Spec
INVARIANTS
    DealtInOrder
PROPERTIES
    CalledOnceForEach
