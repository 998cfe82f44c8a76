SPECIFICATION Spec
CONSTANTS
    e1 = e1
    e2 = e2
    up = up
    down = down
    note = note
    failed = failed
    reply = reply
    system = system
    op = op
    Runtimes <- OneRuntime
    Root = 0
    Events = {e1, e2}
    Bodies <- TwoBodies
    Target <- TwoTarget
    Internal = {failed}
    Source <- OnlyReports
    System = system
    Failure = failed
    Operations = {op}
    Outcomes = {"confirmed", "rejected"}
    MaxBatch = 2
    MaxSend = 0
    KeepsReceipts = FALSE
    KeepsOutcomes = FALSE
    Cutoffs <- Unlimited
    MaxRevision = 6
    MaxAcceptance = 2
    MaxEffects = 1
SYMMETRY Symmetry
INVARIANTS
    TombstonedOwesNothing
PROPERTIES
    EffectsSettleOnce
    ImplementsInbox
CHECK_DEADLOCK FALSE
