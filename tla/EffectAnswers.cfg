SPECIFICATION Spec
CONSTANTS
    i1 = i1
    i2 = i2
    w1 = w1
    w2 = w2
    o1 = o1
    o2 = o2
    system = system
    Runtimes <- OneRuntime
    Root = 0
    Events <- OneInput
    Inputs = {i1}
    Bodies <- KindBodies
    Target <- ToRoot
    Internal = {"failure"}
    Source <- OnlyReports
    System = system
    Failure = "failure"
    Operations = {o1, o2}
    Outcomes = {"confirmed"}
    MaxBatch = 1
    MaxSend = 0
    Workers = {w1}
    Verdicts = {"succeeded", "domain_rejected"}
    Deduplicates = TRUE
    Scoped = FALSE
    EffectIds = {2, 3, 4, 5}
    MaxRevision = 4
    MaxEffects = 1
    MaxFence = 2
    MaxCrashes = 1
INVARIANTS
    FirstAnswerStands
CHECK_DEADLOCK FALSE
