------------------------------- MODULE Starting ------------------------------
(***************************************************************************)
(* How coordination sessions come to be: the routes that start one, that   *)
(* ask for a plan to approve, and that start one with a slot of its        *)
(* coordinator.  Every agent is looked up anew at each stage, while agents *)
(* are created and deleted; plans come from a diagram, arrow by arrow, or  *)
(* from the coordinator's language model.                                  *)
(*                                                                         *)
(* The slots are those of CoordinatorSlots; what a session does once it is *)
(* listed is in Coordination and only its status is kept here.             *)
(***************************************************************************)
EXTENDS CoordinatorSlots, Sequences

CONSTANTS
    BuiltIn,    \* the coordinator that is no agent
    AgentIds,
    BoundTo,    \* the realm of each elemental; other agents are druids
    RealmIds,
    Requests,   \* valid bodies
    Callers

\* Unknown ids are among AgentIds, too: no agent ever has them.
ASSUME RequestsAssumption ==
    \A r \in Requests :
        /\ r.kind \in {"coordinate", "plan", "orchestrate"} /\ r.coordinator \in Coordinators
        /\ r.refs \in Seq([by : {"id", "name"}, agent : AgentIds])

VARIABLES
    agents,     \* the agents there are
    vanished,   \* history: agents that were not there at some time
    listed,     \* CoordinationService.sessions
    issued,     \* history: session ids given out
    calls

startvars == <<agents, vanished, listed, issued, calls>>

NoCall == [pc |-> "off"]

StartingInit ==
    /\ agents \in SUBSET AgentIds
    /\ vanished = AgentIds \ agents
    /\ listed = [s \in {} |-> NoCall] /\ issued = {}
    /\ calls = [k \in Callers |-> NoCall]

Druid(a) == a \notin DOMAIN BoundTo

\* A participant is named by id or by name; getAgent knows ids only.
Loads(ref) == ref.by = "id" /\ ref.agent \in agents

\* Coordinators can be updated and deleted, and nothing makes one: 404.
StoredCoordinators == {}

\* Any agent may be nominated as coordinator.
Resolvable(c) == c = BuiltIn \/ c \in StoredCoordinators \/ c \in agents

Goes(k, call) == calls' = [calls EXCEPT ![k] = call]

Answers(k, code) ==
    Goes(k, [pc |-> "answered", code |-> code, kind |-> calls[k].request.kind, session |-> calls[k].session])

\* The participant whose turn it is; nobody if the request names nobody.
Turn(k) == {calls[k].i} \intersect DOMAIN calls[k].participants
Loaded(k) == {calls[k].participants[i].agent : i \in {j \in Turn(k) : Loads(calls[k].participants[j])}}
IsLast(k) == calls[k].i >= Len(calls[k].participants)

\* On to the next participant, or with the first one to the next stage.
Proceeds(k, next, call) ==
    Goes(k, IF IsLast(k) THEN [call EXCEPT !.pc = next, !.i = 1] ELSE [call EXCEPT !.i = @ + 1])

StartCalled(k, request) ==
    /\ calls[k] = NoCall
    /\ Goes(k, [pc |-> "assuming", i |-> 1, participants |-> request.refs, request |-> request,
                 session |-> {}, scope |-> {}, joined |-> {}, mapped |-> {}, realms |-> {}, steps |-> <<>>])
    /\ UNCHANGED <<vars, agents, vanished, listed, issued>>

\* Each druid must be one the user may assume; whom getAgent does not know is
\* left to the later stages.
EnforceAssumableParticipants(k) ==
    /\ calls[k].pc = "assuming"
    /\ \/ Proceeds(k, IF calls[k].request.kind = "orchestrate" THEN "room" ELSE "resolving", calls[k])
       \/ (\E a \in Loaded(k) : Druid(a)) /\ Answers(k, 403)
    /\ UNCHANGED <<vars, agents, vanished, listed, issued>>

\* By id, or else by name among all agents.  With the last, the session gets
\* its id and its managers.
ResolveAgentId(k) ==
    /\ calls[k].pc = "resolving"
    /\ IF \E i \in Turn(k) : calls[k].participants[i].agent \notin agents
       THEN Answers(k, 404) /\ UNCHANGED issued
       ELSE LET found == [calls[k] EXCEPT !.participants =
                             [i \in DOMAIN @ |-> IF i \in Turn(k) THEN [@[i] EXCEPT !.by = "id"] ELSE @[i]]]
            IN  IF IsLast(k)
                THEN \E s \in Sessions \ issued :
                        /\ issued' = issued \union {s}
                        /\ Proceeds(k, "scoping", [found EXCEPT !.session = {s}])
                ELSE Proceeds(k, "scoping", found) /\ UNCHANGED issued
    /\ UNCHANGED <<vars, agents, vanished, listed>>

\* Orchestrations ask for a slot instead, and resolve nobody.
AsksForRoom(k) ==
    /\ calls[k].pc = "room"
    /\ LET c == calls[k].request.coordinator
       IN  \/ \E s \in Sessions \ (issued \union DOMAIN activeSessions) :
                 /\ StartSession(s, c)
                 /\ issued' = issued \union {s}
                 /\ Goes(k, [calls[k] EXCEPT !.pc = "scoping", !.session = {s}])
           \/ RefuseSession(c) /\ Answers(k, 500) /\ UNCHANGED issued
    /\ UNCHANGED <<agents, vanished, listed>>

\* The realms the request names, or those its elementals are bound to.  They
\* become the session's, for its searches.
ResolveResearchRealms(k) ==
    /\ calls[k].pc = "scoping"
    /\ IF calls[k].request.realms # {}
       THEN Goes(k, [calls[k] EXCEPT !.pc = "joining", !.i = 1, !.scope = calls[k].request.realms])
       ELSE Proceeds(k, "joining", [calls[k] EXCEPT !.scope = @ \union
               {BoundTo[a] : a \in {b \in Loaded(k) : ~ Druid(b)}}])
    /\ UNCHANGED <<vars, agents, vanished, listed, issued>>

NoPlan == [there |-> FALSE, steps |-> <<>>, diagram |-> FALSE]

SessionOf(k, status, joined, plan) ==
    [status |-> status, kind |-> calls[k].request.kind, plan |-> plan, joined |-> joined,
     participants |-> {calls[k].participants[i] : i \in DOMAIN calls[k].participants}]

Lists(S, session) == listed' = [t \in DOMAIN listed \union S |-> IF t \in S THEN session ELSE listed[t]]

JoinOriginal(k) ==    \* mutant: as named by the client
    {r.agent : r \in {calls[k].request.refs[i] : i \in {j \in Turn(k) : Loads(calls[k].request.refs[j])}}}
Joins(k) == Loaded(k)

\* What cannot be loaded does not join, and the session goes on without it.  A
\* coordination is listed and runs; an orchestration is listed before it is planned.
JoinSession(k) ==
    /\ calls[k].pc = "joining"
    /\ LET joined == calls[k].joined \union Joins(k)
           kind == calls[k].request.kind
       IN  IF ~ IsLast(k) \/ kind = "plan"
           THEN Proceeds(k, "planning", [calls[k] EXCEPT !.joined = joined]) /\ UNCHANGED listed
           ELSE IF kind = "coordinate"
           THEN Lists(calls[k].session, SessionOf(k, "pending", joined, NoPlan)) /\ Answers(k, 202)
           ELSE /\ Lists(calls[k].session, SessionOf(k, "in_progress", joined, NoPlan))
                /\ Proceeds(k, "planning", [calls[k] EXCEPT !.joined = joined])
    /\ UNCHANGED <<vars, agents, vanished, issued>>

------------------------------------------------------------------------------
(***************************************************************************)
(* Planning                                                                *)
(***************************************************************************)

Planning(k, mode) == calls[k].pc = "planning" /\ calls[k].request.mode = mode

\* A plan to approve is listed once it is there; an orchestration runs.
Planned(k, steps) ==
    LET plan == [there |-> TRUE, steps |-> steps, diagram |-> calls[k].request.mode = "diagram"]
    IN  IF calls[k].request.kind = "plan"
        THEN Lists(calls[k].session, SessionOf(k, "pending", calls[k].joined, plan)) /\ Answers(k, 201)
        ELSE listed' = [t \in DOMAIN listed |-> IF t \in calls[k].session THEN [listed[t] EXCEPT !.plan = plan] ELSE listed[t]] /\ Answers(k, 202)

FailsListed(k, code) ==    \* mutant: listed before it is planned
    /\ Lists(calls[k].session, SessionOf(k, "pending", calls[k].joined, NoPlan))
    /\ Answers(k, code)

\* Nothing is listed for a plan; an orchestration stays as it is.
PlanFails(k, code) == Answers(k, code) /\ UNCHANGED listed

\* The model is offered the realms of the scope, if there is one, and answers
\* with instructions or with none.  Their numbers and agents are taken as they
\* come, which is Coordination's matter, and left out here.
TextPlanned(k) ==
    /\ Planning(k, "text")
    /\ LET resolved == Resolvable(calls[k].request.coordinator)
       IN  \/ PlanFails(k, IF resolved THEN 500 ELSE 404)
           \/ resolved /\ Planned(k, <<>>)
    /\ UNCHANGED <<vars, agents, vanished, issued>>

\* The participants that the diagram declares, by the names of their agents.
NamesMapped(k) ==
    /\ Planning(k, "diagram")
    /\ Proceeds(k, "mapping", [calls[k] EXCEPT !.mapped = @ \union Loaded(k)])
    /\ UNCHANGED <<vars, agents, vanished, listed, issued>>

\* All realms, whatever the scope; none when they cannot be loaded.
RealmsMapped(k) ==
    /\ calls[k].pc = "mapping"
    /\ \E known \in {RealmIds, {}} : Goes(k, [calls[k] EXCEPT !.pc = "parsing", !.i = 1, !.realms = known])
    /\ UNCHANGED <<vars, agents, vanished, listed, issued>>

Arrow(k) == calls[k].request.diagram[calls[k].i]

\* Arrows from strangers, travels to no realm and delegations to no
\* participant make no step.
Skipped(k) ==
    \/ Arrow(k).from \notin calls[k].mapped
    \/ Arrow(k).does = "travel" /\ Arrow(k).to \notin calls[k].realms
    \/ Arrow(k).does = "delegate" /\ Arrow(k).to \notin calls[k].mapped

ArrowNumber(k) == calls[k].i    \* mutant: the number of the arrow
StepNumber(k) == Len(calls[k].steps) + 1

Partner(k) == {Arrow(k).to} \intersect calls[k].mapped

Step(k) ==
    [number |-> StepNumber(k), agents |-> {Arrow(k).from} \union Partner(k)]

\* Those that were found are looked up once more, and not finding them ends
\* the planning.
ArrowParsed(k) ==
    /\ calls[k].pc = "parsing" /\ calls[k].i <= Len(calls[k].request.diagram)
    /\ IF Arrow(k).from \in calls[k].mapped
            /\ ({Arrow(k).from} \union (IF Arrow(k).does = "travel" THEN {} ELSE Partner(k))) \ agents # {}
       THEN PlanFails(k, 404)
       ELSE /\ Goes(k, [calls[k] EXCEPT !.i = @ + 1,
                                     !.steps = IF Skipped(k) THEN @ ELSE Append(@, Step(k))])
            /\ UNCHANGED listed
    /\ UNCHANGED <<vars, agents, vanished, issued>>

DiagramPlanned(k) ==
    /\ calls[k].pc = "parsing" /\ calls[k].i > Len(calls[k].request.diagram)
    /\ Planned(k, calls[k].steps)
    /\ UNCHANGED <<vars, agents, vanished, issued>>

\* A prompt is turned into a diagram for the client; nothing is kept.
ConvertToDiagram(k) ==
    /\ calls[k] = NoCall
    /\ \E offered \in SUBSET AgentIds :
          Goes(k, [pc |-> "drawing", request |-> [kind |-> "convert"],
                   session |-> {}, mapped |-> offered \intersect agents])
    /\ UNCHANGED <<vars, agents, vanished, listed, issued>>

DiagramDrawn(k) ==
    /\ calls[k].pc = "drawing"
    /\ \E code \in {200, 500} : Answers(k, code)
    /\ UNCHANGED <<vars, agents, vanished, listed, issued>>

CallEnds(k) ==
    /\ calls[k].pc = "answered"
    /\ Goes(k, NoCall)
    /\ UNCHANGED <<vars, agents, vanished, listed, issued>>

------------------------------------------------------------------------------
(***************************************************************************)
(* Listed sessions, and the agents                                         *)
(***************************************************************************)

Becomes(s, status) ==
    /\ listed' = [listed EXCEPT ![s].status = status]
    /\ UNCHANGED <<vars, agents, vanished, issued, calls>>

\* 404, 409 unless it is pending, 400 if no plan was made for it.
ApproveCalled(s) ==
    /\ s \in DOMAIN listed /\ listed[s].status = "pending" /\ listed[s].plan.there
    /\ Becomes(s, "in_progress")

CoordinationBegins(s) ==
    /\ s \in DOMAIN listed /\ listed[s].status = "pending" /\ listed[s].kind # "plan"
    /\ Becomes(s, "in_progress")

CoordinationEnds(s) ==
    /\ s \in DOMAIN listed /\ listed[s].status = "in_progress" /\ listed[s].kind # "orchestrate"
    /\ \E status \in {"completed", "failed"} : Becomes(s, status)

\* The slot is given back; it may have timed out.
OrchestrationEnds(s) ==
    /\ s \in DOMAIN listed /\ listed[s].status = "in_progress"
    /\ listed[s].kind = "orchestrate" /\ listed[s].plan.there
    /\ EndSession(s)
    /\ listed' = [listed EXCEPT ![s].status = "completed"]
    /\ UNCHANGED <<agents, vanished, issued, calls>>

Over(s) == s \in DOMAIN listed /\ listed[s].status \in {"completed", "failed"}

\* 500 for any refusal.  The new session has managers that nobody joined.
RerunCalled(s, t) ==
    /\ Over(s) /\ t \notin issued
    /\ issued' = issued \union {t}
    /\ Lists({t}, [listed[s] EXCEPT !.status = "pending", !.kind = "rerun", !.plan = NoPlan, !.joined = {}])
    /\ UNCHANGED <<vars, agents, vanished, calls>>

\* 409 while it is pending or runs.
DeleteCalled(s) ==
    /\ Over(s)
    /\ listed' = [t \in DOMAIN listed \ {s} |-> listed[t]]
    /\ UNCHANGED <<vars, agents, vanished, issued, calls>>

AgentCreated(a) ==
    /\ a \notin agents
    /\ agents' = agents \union {a}
    /\ UNCHANGED <<vars, vanished, listed, issued, calls>>

AgentDeleted(a) ==
    /\ a \in agents
    /\ agents' = agents \ {a}
    /\ vanished' = vanished \union {a}
    /\ UNCHANGED <<vars, listed, issued, calls>>

StartingNext ==
    \/ \E k \in Callers :
          \/ \E request \in Requests : StartCalled(k, request)
          \/ EnforceAssumableParticipants(k) \/ ResolveAgentId(k) \/ AsksForRoom(k)
          \/ ResolveResearchRealms(k) \/ JoinSession(k)
          \/ TextPlanned(k) \/ NamesMapped(k) \/ RealmsMapped(k) \/ ArrowParsed(k) \/ DiagramPlanned(k)
          \/ ConvertToDiagram(k) \/ DiagramDrawn(k) \/ CallEnds(k)
    \/ \E s \in Sessions :
          \/ ApproveCalled(s) \/ CoordinationBegins(s) \/ CoordinationEnds(s) \/ OrchestrationEnds(s)
          \/ DeleteCalled(s)
          \/ \E t \in Sessions : RerunCalled(s, t)
    \/ \E a \in AgentIds : AgentCreated(a) \/ AgentDeleted(a)

\* The routes over the slots, which also go their own ways.
StartingSpec ==
    /\ Init /\ StartingInit
    /\ [][StartingNext \/ (Next /\ UNCHANGED startvars)]_<<vars, startvars>>

------------------------------------------------------------------------------

\* A coordination or plan that was refused leaves no session behind, at whatever
\* stage it was; one that was accepted is listed, with its plan if it was asked
\* for one, until it is over.
AnswerTellsTheTruth ==
    \A k \in Callers :
        calls[k].pc = "answered" /\ calls[k].kind \in {"coordinate", "plan"} =>
            /\ calls[k].code >= 400 => calls[k].session \intersect DOMAIN listed = {}
            /\ calls[k].code < 400 => calls[k].session # {}
            /\ calls[k].code = 201 => \A s \in calls[k].session \intersect DOMAIN listed : listed[s].plan.there

\* A session's plan by diagram numbers its steps densely and keeps to the
\* participants, and all participants have a state in the session, however
\* they were named; except those that were not there when they were looked up.
PlanFitsItsSession ==
    \A s \in DOMAIN listed :
        LET l == listed[s]
            ids == {p.agent : p \in {q \in l.participants : q.by = "id"}}
        IN  /\ l.kind # "rerun" => ids \ vanished \subseteq l.joined
            /\ l.plan.diagram =>
                  \A n \in DOMAIN l.plan.steps :
                      /\ l.plan.steps[n].number = n
                      /\ l.plan.steps[n].agents \subseteq ids
==============================================================================
