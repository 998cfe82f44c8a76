SPECIFICATION Spec
CHECK_DEADLOCK FALSE
CONSTANTS
    Hosts = {"h1", "h2"}
    OperationIds = {"o1", "o2", "o3", "o4", "o5"}
    Events = {"a", "b"}
    Creations = {"k"}
    Plans <- AllPlans
    MaxRevision = 3
INVARIANTS
    SavedIsAcceptable
