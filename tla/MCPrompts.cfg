SPECIFICATION Spec
CONSTANTS
    AgentIds = {merlin, imp}
    Realms = {forest, lake}
    merlin = merlin
    imp = imp
    forest = forest
    lake = lake
    s1 = s1
    p1 = p1
    p2 = p2
    Sentinel = none
    Unset = unset
    NoSession = noSession
    Clients = {c1}
    Strands = {p1, p2}
    Requests <- MCRequests
    Druids = {merlin}
    BoundTo <- MCBoundTo
    Sessions = {s1}
    SessionOf <- MCSessionOf
    Participants <- MCParticipants
    Rounds <- MCRounds
    Summarising = {imp}
    Replies <- MCReplies
    MaxDepth = 2
CONSTRAINT Simultaneous
INVARIANTS KnownIsStored EveryCallIsAnswered
PROPERTIES OwnTravelOnly EveryPromptEnds
CHECK_DEADLOCK FALSE
