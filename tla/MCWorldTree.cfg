SPECIFICATION MCSpec
CONSTANTS
    Recorders = {r1, r2, r3, r4}
    maxRetries = 4
    first = first
    second = second
    script = script
    summary = summary
    dataset = dataset
    Calls <- MCCalls
    Scripted <- MCScripted
    Modes <- MCModes
    Retention <- MCRetention
    LastDay = 3
    MaxFaults = 1
    lake = lake
    forest = forest
    s1 = s1
    s2 = s2
    s3 = s3
    Sessions = {s1, s2, s3}
    Statuses = {"in_progress", "completed"}
    Windows <- MCWindows
    Realms = {lake, forest}
    Steady = {lake}
    Documents = {d1}
    Refs <- MCRefs
    Scopings <- MCScopings
    Searches <- MCSearches
    Readers = {i1}
    Limit = 1
    TimelineLimit = 2
    MaxRows = 3
    MaxHits = 2
INVARIANTS
    NumbersDense RecordedOnce NoneGivesUp
    RowsMatchFiles
    ReadsMissNothing FindsItsScope
PROPERTY DueExpires
CHECK_DEADLOCK FALSE
