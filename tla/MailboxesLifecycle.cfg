SPECIFICATION Spec
CONSTANTS
    e1 = e1
    e2 = e2
    Runtimes <- TreeRuntimes
    Root = 0
    Role <- TreeRole
    Owner <- TreeOwner
    Activation <- TreeActivation
    Modes <- TreeModes
    ParallelModes = {"par"}
    InputEvents = {}
    InternalEvents = {"ping"}
    Behaviour <- TreeBehaviour
    Capacity <- TreeCapacity
    HostIds = {e1}
    MaxAcceptance = 4
    MaxQueue = 4
    MaxBatch = 1
    MaxSend = 0
INVARIANTS
    OwnershipWellFormed
    DoneExactlyWhenAllCompleted
    ContainedFaultsReported
CHECK_DEADLOCK FALSE
