SPECIFICATION FairSpec
CONSTANTS
    i1 = i1
    i2 = i2
    w1 = w1
    w2 = w2
    o1 = o1
    o2 = o2
    system = system
    Runtimes <- OneRuntime
    Root = 0
    Events <- TwoInputs
    Inputs = {i1, i2}
    Bodies <- KindBodies
    Target <- ToRoot
    Internal = {"failure"}
    Source <- OnlyReports
    System = system
    Failure = "failure"
    Operations = {o1, o2}
    Outcomes = {}
    MaxBatch = 2
    MaxSend = 0
    Workers = {w1}
    Verdicts = {"succeeded"}
    Deduplicates = FALSE
    Scoped = FALSE
    EffectIds = {3, 4}
    MaxRevision = 3
    MaxEffects = 2
    MaxFence = 1
    MaxCrashes = 1
CHECK_DEADLOCK FALSE
PROPERTIES
    EachIsRecovered
