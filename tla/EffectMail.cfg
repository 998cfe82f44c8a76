SPECIFICATION Spec
CONSTANTS
    i1 = i1
    i2 = i2
    w1 = w1
    w2 = w2
    o1 = o1
    o2 = o2
    system = system
    Runtimes <- TwoRuntimes
    Root = 0
    Events <- OneInput
    Inputs = {i1}
    Bodies <- TalkBodies
    Target <- TalkTarget
    Internal = {"reply", "failure"}
    Source <- Talk
    System = system
    Failure = "failure"
    Operations = {o1, o2}
    Outcomes = {"confirmed"}
    MaxBatch = 1
    MaxSend = 2
    Workers = {w1}
    Verdicts = {"succeeded"}
    Deduplicates = FALSE
    Scoped = FALSE
    EffectIds = {}
    MaxRevision = 3
    MaxEffects = 1
    MaxFence = 1
    MaxCrashes = 0
SYMMETRY Symmetry
INVARIANTS
    AcceptedStorable
CHECK_DEADLOCK FALSE
