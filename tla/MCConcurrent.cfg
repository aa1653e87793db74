SPECIFICATION FairSpec
CONSTANTS
    Sessions = {s1, s2}
    Coordinators = {c1}
    MaxConcurrent = 1
    SessionTimeout = 1
    EntryPoints = {"orchestrate", "coordinate", "approve", "rerun"}
    Plans <- OneStepPlan
    NumParticipants = 1
    MaxSub = 0
    MaxStops = 1
    DatabaseMayFail = FALSE
INVARIANTS
    ActiveStepIsCurrent
    StepsHaveTheirManagers
PROPERTIES
    EverySessionSettles
    EverySlotIsFreed
    ImplementsLifecycle
CHECK_DEADLOCK FALSE
