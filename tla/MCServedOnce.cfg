SPECIFICATION MCSpec
CONSTANTS
    Tokens = {plain, mcp, t1}
    Permissions = {read}
    plainToken = plain
    mcpToken = mcp
    Allowed <- MCAllowed
    Durations = {1}
    Limits <- MCLimits
    DefaultLimit = 2
    DefaultUses = 1
    MaxUses = 2
    MaxTime = 2
    LineIds = {l1, l2}
    LineRealms = {system, test1, test2}
    systemRealm = system
    testRealm1 = test1
    testRealm2 = test2
    leyline1 = l1
    leyline2 = l2
    Users = {alice, root}
    root = root
    alice = alice
    Bearers = {bearer}
    OwnerOf <- MCOwnerOf
    Groups = {g}
    DruidIds = {merlin}
    Elementals = {imp}
    Requests = {a, b}
    MatchedAdmins <- MCAdmins
    TTL = 2
    MaxNow = 4
SYMMETRY Symmetry
CONSTRAINT OneAtATime
INVARIANTS ServedOnce
CHECK_DEADLOCK FALSE
