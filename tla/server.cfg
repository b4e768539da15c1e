CONSTANTS
    Tasks = {1, 2, 3, 4, 5, 6, 7, 8, 9, 10, 11, 12, 13}
    Bytes <- MCBytes
    Concurrency = 2
    MaxTasks = 4
    MaxBytes = 5
    Reactions = {}
    Lines <- MCLines
    Orders <- MCOrders
    MaxFrame = 3
    MaxOut = 1
    Exposed = {"guard", "lockfileAudit", "triage", "audit"}
    Inside = {"inside"}
SPECIFICATION ServerSpec
INVARIANTS CountsAreExact NoSlotIsWasted RepliesAreComplete
PROPERTIES FramesAreWhole RequestsAreHandled
CHECK_DEADLOCK FALSE
