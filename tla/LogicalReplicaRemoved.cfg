SPECIFICATION Spec
CONSTANTS
    Replicas = {1, 2}
    None = None
    Capacity = 2
    Scenarios = {{"remove", "busy", "restart"}}
INVARIANTS NoOrphanSlot
CHECK_DEADLOCK FALSE
