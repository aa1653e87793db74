SPECIFICATION Spec
CONSTANTS
    Sessions = {s1}
    Coordinators = {c1}
    MaxConcurrent = 1
    SessionTimeout = 1
    EntryPoints = {"coordinate"}
    Plans <- OneNumberPlan
    NumParticipants = 1
    MaxSub = 1
    MaxStops = 0
    DatabaseMayFail = FALSE
PROPERTY RawIsSacred
CHECK_DEADLOCK FALSE
