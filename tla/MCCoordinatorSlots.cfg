SPECIFICATION MCSpec
CONSTANTS
    Sessions = {s1, s2, s3}
    Coordinators = {builtin, merlin}
    MaxConcurrent = 2
    SessionTimeout = 1
    BuiltIn = builtin
    merlin = merlin
    imp = imp
    lake = lake
    stranger = stranger
    AgentIds = {merlin, imp}
    BoundTo <- MCBoundTo
    RealmIds = {lake}
    Requests <- MCRequests
    Callers = {k1}
CONSTRAINT TwoStarted
SYMMETRY Symmetry
INVARIANTS AnswerTellsTheTruth PlanFitsItsSession
PROPERTY ImplementsPool
CHECK_DEADLOCK FALSE
