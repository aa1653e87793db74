----------------------------- MODULE McpServer -----------------------------
(***************************************************************************)
(* The process of SimpleMCPServer: clients call its tools and read its     *)
(* resources, each of which is a short program of calls to the             *)
(* application's API, made with the caller's token.  A call may be         *)
(* refused, and its answer may be lost (30 s, or a broken connection)      *)
(* after it took effect; nothing is tried twice.  An asynchronous ask is   *)
(* answered at once and worked on in the background, where nobody awaits   *)
(* it.                                                                     *)
(***************************************************************************)
EXTENDS Integers, Sequences, FiniteSets

CONSTANTS
    Calls,        \* bound: tool calls at once; each asks asynchronously once
    Users

VARIABLES
    calls,
    background,   \* where the work on the call's asynchronous ask is
    asked,        \* the application's record of that ask
    ranAs,        \* history: the callers the application ran its agent as
    cut           \* history: asks whose work ended with the process

mcpvars == <<calls, background, asked, ranAs, cut>>

------------------------------------------------------------------------------
(***************************************************************************)
(* The tools                                                               *)
(*                                                                         *)
(* A step says what the call does in the application, and how many steps   *)
(* on to go when it was answered and when it was not; 0 ends the tool with *)
(* an error.                                                               *)
(***************************************************************************)

Step(does, answered, failed) == [does |-> does, answered |-> answered, failed |-> failed]
Does(effect) == Step(effect, 1, 0)
Tries(effect) == Step(effect, 1, 1)
Reads == Does("nothing")
\* A call the application has no route for, or whose answer is not what the
\* tool takes it for.
Misread == Step("nothing", 0, 0)

\* With a realm, the answer of GET /api/realms is searched as if it were an array.
AgentCreate == {<<Does("create agent")>>,
                <<Does("create agent"), Step("nothing", 1, 1)>>}
AgentList == {<<Reads>>, <<Reads, Reads, Tries("nothing")>>}
RealmList == {<<Reads>>}
RealmCreate == {<<Does("create realm")>>}
ScenarioCreate == {<<Does("create scenario")>>}
ScenarioList == {<<Reads>>}
ScenarioStatus == {<<Reads>>}
ScenarioExecute == {<<Does("execute scenario")>>}
ExecutionStatus == {<<Misread>>}     \* GET /api/scenarios/executions/:id
AgentStart == {<<Reads>>}            \* starts nothing
AgentExecute == {<<Does("run agent")>>}
AgentReassign == {<<Misread>>}
CreateCollaboration == {<<Reads, Does("create scenario"), Does("execute scenario")>>}
\* The agent preferred, or the first of those available, of which there may be none.
AssignTask == {<<Step("nothing", 2, 1), Reads, Does("run agent")>>,
               <<Reads, Does("run agent")>>, <<Misread>>}
GetCollaborationStatus == {<<Reads, Reads>>}
TolerantTeam == {<<Tries("create agent"), Tries("nothing"),    \* mutant: an agent may be missing
                   Tries("create agent"), Tries("nothing")>>}

\* Each agent is looked up once it is created, and kept also when that fails.
CreateAgentTeam == {<<Does("create agent"), Tries("nothing"),
                      Does("create agent"), Tries("nothing")>>}

\* A long or complex message goes asynchronous, with a body the route refuses.
TakenAsync == <<Misread>>
AskAgent == {<<Reads, Does("run agent")>>, TakenAsync}
ActivateCollaboration == {<<Does("update scenario")>>}
AskAgentAsync == {<<Does("ask")>>}
AsyncResultTools == {<<Reads>>}
CheckAsyncReady == {<<Reads>>, <<Reads, Reads>>}
StartCoordination == {<<Does("coordinate")>>}
\* Without participants, the answer's agents are taken for none.
StartOrchestrated == {<<Does("coordinate")>>, <<Tries("nothing"), Does("coordinate")>>}
GetCoordinationSession == {<<Reads>>}
\* The session, then the execution under a route that does not exist.
GetPublishedContent == {<<Reads>>, <<Misread>>, <<Step("nothing", 2, 1), Misread>>}
ListPublishedContent == {<<Tries("nothing")>>, << >>}
GetScenarioExecutionResult == {<<Reads>>}

\* An agent that is not active is started, and one that cannot be is reported.
Activation == {<<Tries("nothing")>>, <<Step("nothing", 1, 2), Tries("start agent")>>}

\* The analyst's answer is never understood: the request is searched for names,
\* and without one agents are created.
Detected == {<< >>, <<Does("create agent")>>}
Analysed == {<< >>, <<Tries("run agent")>>}
Coordinates(analysis, found, activation) ==
    <<Reads>> \o analysis \o <<Reads>> \o found \o activation \o <<Does("coordinate")>>
CoordinateProject ==
    {Coordinates(analysis, found, activation) :
        analysis \in Analysed, found \in Detected, activation \in Activation}
CoordinatorTools == {<<Reads>>}
CreateCoordinator == {<<Does("create coordinator")>>}
TravelToRealm == {<<Does("travel")>>}
RealmTools == {<<Reads>>}
InteractWithAgent == {<<Does("run agent")>>}
LocalTools == {<< >>}     \* this process's own, empty, service and files
WorldTreeTools == {<<Reads>>, <<Does("ingest")>>}
ResourceRead == {<<Reads>>, << >>}    \* a discovery address, or fixed examples

Programs ==
    [ agent_create |-> AgentCreate, agent_list |-> AgentList, realm_list |-> RealmList,
      realm_create |-> RealmCreate, scenario_create |-> ScenarioCreate,
      scenario_list |-> ScenarioList, scenario_status |-> ScenarioStatus,
      scenario_execute |-> ScenarioExecute, execution_status |-> ExecutionStatus,
      agent_start |-> AgentStart, agent_execute |-> AgentExecute,
      agent_reassign |-> AgentReassign, create_collaboration |-> CreateCollaboration,
      assign_task |-> AssignTask, get_collaboration_status |-> GetCollaborationStatus,
      create_agent_team |-> CreateAgentTeam, ask_agent |-> AskAgent,
      activate_collaboration |-> ActivateCollaboration, ask_agent_async |-> AskAgentAsync,
      get_async_result |-> AsyncResultTools, list_async_results |-> AsyncResultTools,
      check_async_ready |-> CheckAsyncReady,
      start_coordination |-> StartCoordination,
      start_orchestrated_coordination |-> StartOrchestrated,
      get_coordination_session |-> GetCoordinationSession,
      get_published_content |-> GetPublishedContent,
      list_published_content |-> ListPublishedContent,
      get_scenario_execution_result |-> GetScenarioExecutionResult,
      coordinate_project |-> CoordinateProject, list_coordinators |-> CoordinatorTools,
      get_coordinator |-> CoordinatorTools, create_coordinator |-> CreateCoordinator,
      travel_to_realm |-> TravelToRealm, get_current_realm |-> RealmTools,
      get_elementals_in_realm |-> RealmTools, interact_with_agent |-> InteractWithAgent,
      get_coordination_status |-> GetCoordinationSession,
      list_active_sessions |-> LocalTools, get_coordinator_metrics |-> LocalTools,
      get_session_content |-> LocalTools, get_content_details |-> LocalTools,
      worldtree |-> WorldTreeTools, resource |-> ResourceRead ]

Tools == DOMAIN Programs

\* What an answer that is no error says was done.  Travel and interaction
\* promise nothing: their routes answer a denial like a success.
Promised(tool) ==
    CASE tool = "agent_create" -> <<"create agent">>
      [] tool = "realm_create" -> <<"create realm">>
      [] tool = "scenario_create" -> <<"create scenario">>
      [] tool = "scenario_execute" -> <<"execute scenario">>
      [] tool \in {"agent_execute", "assign_task"} -> <<"run agent">>
      [] tool = "create_coordinator" -> <<"create coordinator">>
      [] tool = "create_collaboration" -> <<"create scenario", "execute scenario">>
      [] tool = "create_agent_team" -> <<"create agent", "create agent">>
      [] tool = "activate_collaboration" -> <<"update scenario">>
      [] tool = "ask_agent_async" -> <<"ask">>
      [] tool \in {"start_coordination", "start_orchestrated_coordination", "coordinate_project"}
            -> <<"coordinate">>
      [] OTHER -> << >>

------------------------------------------------------------------------------
(***************************************************************************)
(* A call of a tool                                                        *)
(***************************************************************************)

Nobody == "nobody"
NoCall == [tool |-> "none", user |-> Nobody, left |-> << >>, made |-> << >>, answer |-> "none"]
NoWork == [at |-> "off", user |-> Nobody]

McpInit ==
    /\ calls = [c \in Calls |-> NoCall]
    /\ background = [c \in Calls |-> NoWork]
    /\ asked = [c \in Calls |-> "none"]
    /\ ranAs = [c \in Calls |-> << >>]
    /\ cut = {}

NoContext(user) == "service"    \* mutant

\* The token a call to the application goes with: the caller's, which the
\* handlers and what they leave running find in their context.
ActingToken(user) == user

Running(c) == calls[c].tool # "none" /\ calls[c].answer = "none"

\* handleMCPRequest: a token the provider vouches for, a session, a method.
ToolCalled(c, tool) ==
    /\ ~ Running(c)
    /\ tool = "ask_agent_async" => asked[c] = "none"
    /\ \E user \in Users, program \in Programs[tool] :
          calls' = [calls EXCEPT ![c] =
              [tool |-> tool, user |-> user, left |-> program, made |-> << >>,
               answer |-> IF program = << >> THEN "success" ELSE "none"]]
    /\ UNCHANGED <<background, asked, ranAs, cut>>

GoesOn(c, on, made) ==
    LET left == SubSeq(calls[c].left, on + 1, Len(calls[c].left))
    IN  calls' = [calls EXCEPT ![c].left = IF on = 0 THEN << >> ELSE left, ![c].made = made,
                               ![c].answer = IF on = 0 THEN "error"
                                             ELSE IF left = << >> THEN "success" ELSE @]

\* What the application did for a call, and as whom.
Made(c) ==
    IF Head(calls[c].left).does = "nothing" THEN calls[c].made
    ELSE Append(calls[c].made, [does |-> Head(calls[c].left).does, as |-> ActingToken(calls[c].user)])

AskRecorded(c) ==
    asked' = IF Head(calls[c].left).does = "ask" THEN [asked EXCEPT ![c] = "pending"] ELSE asked

Answered(c) ==
    /\ Running(c)
    /\ GoesOn(c, Head(calls[c].left).answered, Made(c)) /\ AskRecorded(c)
    /\ background' = IF Head(calls[c].left).does = "ask"
                     THEN [background EXCEPT ![c] = [at |-> "processing", user |-> calls[c].user]]
                     ELSE background
    /\ UNCHANGED <<ranAs, cut>>

Refused(c) ==
    /\ Running(c) /\ GoesOn(c, Head(calls[c].left).failed, calls[c].made)
    /\ UNCHANGED <<background, asked, ranAs, cut>>

AnswerLost(c) ==
    /\ Running(c) /\ GoesOn(c, Head(calls[c].left).failed, Made(c)) /\ AskRecorded(c)
    /\ UNCHANGED <<background, ranAs, cut>>

------------------------------------------------------------------------------
(***************************************************************************)
(* processAsyncRequest: the ask is marked, the agent looked up and run, its*)
(* answer delivered; any error is reported, and an error of that ends the  *)
(* process.                                                                *)
(***************************************************************************)

After == [processing |-> "get", get |-> "execute", execute |-> "complete",
          complete |-> "done", fail |-> "done"]

Works(c) == background[c].at \in DOMAIN After
Advances(c, to) == background' = [background EXCEPT ![c].at = to]

TakesEffect(c) ==
    LET at == background[c].at
    IN  /\ asked' = CASE at = "processing" -> [asked EXCEPT ![c] = "processing"]
                      [] at = "complete" -> [asked EXCEPT ![c] = "completed"]
                      [] at = "fail" -> [asked EXCEPT ![c] = "failed"]
                      [] OTHER -> asked
        /\ ranAs' = IF at = "execute"
                    THEN [ranAs EXCEPT ![c] = Append(@, ActingToken(background[c].user))] ELSE ranAs

NoEffect == UNCHANGED <<asked, ranAs>>

GivesUp(c) == Advances(c, "done") /\ UNCHANGED <<calls, cut>>    \* mutant: logged only

Reports(c) == Advances(c, "fail") /\ UNCHANGED <<calls, cut>>

\* Docker starts the process again; what it did in memory is gone.
ProcessEnds ==
    /\ calls' = [c \in Calls |-> NoCall]
    /\ background' = [c \in Calls |-> [background[c] EXCEPT !.at = IF Works(c) THEN "done" ELSE @]]
    /\ cut' = cut \union {c \in Calls : Works(c)}

CallFails(c) == IF background[c].at = "fail" THEN ProcessEnds ELSE Reports(c)

BackgroundAnswered(c) ==
    /\ Works(c) /\ TakesEffect(c) /\ Advances(c, After[background[c].at])
    /\ UNCHANGED <<calls, cut>>
BackgroundRefused(c) == Works(c) /\ NoEffect /\ CallFails(c)
BackgroundAnswerLost(c) == Works(c) /\ TakesEffect(c) /\ CallFails(c)

Killed == ProcessEnds /\ NoEffect

------------------------------------------------------------------------------
Handling(c) == Answered(c) \/ Refused(c) \/ AnswerLost(c)
Processing(c) == BackgroundAnswered(c) \/ BackgroundRefused(c) \/ BackgroundAnswerLost(c)

McpNext ==
    \/ \E c \in Calls :
          \/ \E tool \in Tools : ToolCalled(c, tool)
          \/ Answered(c) \/ Refused(c) \/ AnswerLost(c)
          \/ BackgroundAnswered(c) \/ BackgroundRefused(c) \/ BackgroundAnswerLost(c)
    \/ Killed

\* Every call is answered or times out.
McpSpec == McpInit /\ [][McpNext]_mcpvars /\ \A c \in Calls : WF_mcpvars(Processing(c))

------------------------------------------------------------------------------

Count(c, entry) == Cardinality({i \in DOMAIN calls[c].made : calls[c].made[i] = entry})
CountPromised(tool, effect) == Cardinality({i \in DOMAIN Promised(tool) : Promised(tool)[i] = effect})

\* A tool that says it did something did it exactly once, as its caller,
\* whatever was refused or answered too late on the way.
SuccessIsWhole ==
    \A c \in Calls : calls[c].answer = "success" =>
        \A e \in {Promised(calls[c].tool)[i] : i \in DOMAIN Promised(calls[c].tool)} :
            Count(c, [does |-> e, as |-> calls[c].user]) = CountPromised(calls[c].tool, e)

\* An ask is completed by one run of its agent, as the one who asked, and no
\* ask has its agent run twice or as somebody else.
AnsweredForItsAsker ==
    \A c \in Calls :
        /\ \A i \in DOMAIN ranAs[c] : ranAs[c][i] = background[c].user
        /\ Len(ranAs[c]) <= 1
        /\ asked[c] = "completed" => Len(ranAs[c]) = 1

\* An ask the server took on is completed or failed in the end, unless its work
\* ended with the process.
EveryAskSettles ==
    \A c \in Calls : Works(c) ~> (asked[c] \in {"completed", "failed"} \/ c \in cut)
==============================================================================
