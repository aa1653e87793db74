SPECIFICATION Spec
CONSTANTS
    Sessions = {s1}
    Coordinators = {c1}
    MaxConcurrent = 1
    SessionTimeout = 1
    EntryPoints = {"approve"}
    Plans <- OneStepPlan
    NumParticipants = 1
    MaxSub = 0
    MaxStops = 0
    DatabaseMayFail = FALSE
INVARIANT PublishedIsFinal
CHECK_DEADLOCK FALSE
