SPECIFICATION Spec
CONSTANTS
    e1 = e1
    e2 = e2
    Runtimes <- TalkRuntimes
    Root = 0
    Role <- TalkRole
    Owner <- TalkOwner
    Activation <- TalkActivation
    Modes <- TreeModes
    ParallelModes = {"par"}
    InputEvents = {"go"}
    InternalEvents = {"ping"}
    Behaviour <- TalkBehaviour
    Capacity <- TalkCapacity
    HostIds = {e1}
    MaxAcceptance = 3
    MaxQueue = 4
    MaxBatch = 1
    MaxSend = 1
INVARIANTS
    NoOrphan
    DispositionJustified
PROPERTIES
    FaultFreezesSubtree
    ImplementsLedger
CHECK_DEADLOCK FALSE
