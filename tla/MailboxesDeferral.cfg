SPECIFICATION Spec
CONSTANTS
    e1 = e1
    e2 = e2
    Runtimes <- AloneRuntimes
    Root = 0
    Role <- AloneRole
    Owner <- AloneOwner
    Activation <- AloneActivation
    Modes <- AloneModes
    ParallelModes = {}
    InputEvents = {"go"}
    InternalEvents = {"ping"}
    Behaviour <- AloneBehaviour
    Capacity <- AloneCapacity
    HostIds <- TwoIds
    MaxAcceptance = 4
    MaxQueue = 8
    MaxBatch = 2
    MaxSend = 1
INVARIANTS
    TypeOK
    MailboxesValid
    DeferralJustified
    DeferralBounded
    NoOvertaking
PROPERTIES
    RecallKeepsOrder
CHECK_DEADLOCK FALSE
