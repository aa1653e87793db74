SPECIFICATION Spec
CONSTANTS
    Versions = {3, 4, 5}
    Images <- MCImages
    MaxStarts = 3
    RequestIds = {q1, q2}
    LoadLimit = 1
    q1 = q1
    MaxStatements = 2
    Sources = {s1, s2}
    Contents = {x, y}
    Tasks = {t1, t2}
    RunIds = {r1}
    Concurrency = 2
    MaxIds = 2
SYMMETRY Symmetry
CONSTRAINTS OneAtATime OneChanges
INVARIANTS SchemaIsAsRecorded DurableUnlessRaced CatalogueIsOnDisk
CHECK_DEADLOCK FALSE
