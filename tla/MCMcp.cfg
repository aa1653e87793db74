SPECIFICATION MCSpec
CONSTANTS
    c1 = c1
    c2 = c2
    Calls = {c1, c2}
    Users = {alice, bob}
    Askers = {a1}
    Retries = 3
    MaxIterations = 5
    MaxToolCalls = 2
    MaxPieces = 2
    Uses = {u1}
    merlin = merlin
    imp = imp
    notes = notes
    scrolls = scrolls
    made = made
    http = http
    sse = sse
    Agents = {merlin, imp}
    Files = {notes, scrolls, made}
    InputDir = {notes, scrolls}
    Allowed <- MCAllowed
    MayFetch = {imp}
    Servers = {http, sse}
    Sse = {sse}
    Bound <- MCBound
    Permitted <- MCPermitted
    Elementals = {imp}
    Unlisted = unlisted
    ScenarioIds = {sc}
    MaxExecutions = 2
    RecordIds = {demo, r1}
    demoCompleted = demo
    Bodies <- MCBodies
INVARIANTS ResultsFollowThePlan SuccessIsWhole AnsweredForItsAsker
PROPERTIES FinalStaysFinal EveryAskSettles EveryExchangeSettles EveryToolAnswers
CHECK_DEADLOCK FALSE
