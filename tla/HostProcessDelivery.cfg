SPECIFICATION Spec
CONSTANTS
    e1 = e1
    e2 = e2
    up = up
    down = down
    note = note
    failed = failed
    reply = reply
    system = system
    op = op
    Runtimes <- TwoRuntimes
    Root = 0
    Events = {e1}
    Bodies <- FiveBodies
    Target <- FiveTarget
    Internal = {note, reply, failed}
    Source <- Talk
    System = system
    Failure = failed
    Operations = {op}
    Outcomes = {"confirmed"}
    MaxBatch = 1
    MaxSend = 1
    KeepsReceipts = TRUE
    KeepsOutcomes = TRUE
    Cutoffs <- Unlimited
    MaxRevision = 3
    MaxAcceptance = 3
    MaxEffects = 0
INVARIANTS
    ProcessesItsDelivery
CHECK_DEADLOCK FALSE
