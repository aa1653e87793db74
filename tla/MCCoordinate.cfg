SPECIFICATION Spec
CONSTANTS
    Sessions = {s1}
    Coordinators = {c1}
    MaxConcurrent = 1
    SessionTimeout = 1
    EntryPoints = {"coordinate"}
    Plans <- NumberedPlans
    NumParticipants = 2
    MaxSub = 1
    MaxStops = 1
    DatabaseMayFail = TRUE
INVARIANTS
    RecordIsTheResult
    PublishedIsFinal
PROPERTY RecordedStays
CHECK_DEADLOCK FALSE
