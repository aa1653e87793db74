SPECIFICATION MCSpec
CONSTANTS
    Slugs = {forest}
    Kinds = {k1, k2}
    Servers = {m1}
    Residents = {g1}
    Clients = {c1, c2}
    MaxSurrogates = 2
    Models = {writer, critic}
    Settings = {warm, cool}
    Admins = {a1, a2}
    Stores = {s1, s2}
    Contents = {x}
    ContentReaders = {i1}
    LastContentDay = 2
SYMMETRY Symmetry
CONSTRAINTS OneAfterHarm ThreeAtOnce
INVARIANTS ListedIsStored MemoIsCurrentUnlessRaced RegistryIsTheTable RecentIsKept
CHECK_DEADLOCK FALSE
