SPECIFICATION Spec
CONSTANTS
    e1 = e1
    e2 = e2
    b1 = b1
    b2 = b2
    Events = {e1, e2}
    Bodies = {b1, b2}
    MaxRevision = 4
    MaxInbox = 5
SYMMETRY Symmetry
INVARIANTS
    AcknowledgedIsProcessed
PROPERTIES
    ProcessedWhenDue
CHECK_DEADLOCK FALSE
