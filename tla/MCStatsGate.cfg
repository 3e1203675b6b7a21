SPECIFICATION GateSpec
CONSTANTS
    Observers = {o1, o2}
    Nobody = Nobody
    MaxStats = 5
    MaxWaiting = 2
INVARIANTS
    OneLateCall
PROPERTIES
    CallsReturn
CHECK_DEADLOCK FALSE
