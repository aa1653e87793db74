------------------------------- MODULE Agents -------------------------------
(***************************************************************************)
(* AgentService as a store: a map of agents in memory in front of the      *)
(* table agents.  Starting and stopping an agent change the map alone;     *)
(* every other change is written through.  Scenarios start the agents they *)
(* name, a delete stops the agent first; the rest are routes.              *)
(*                                                                         *)
(* A call runs without interruption up to an await and goes on from its    *)
(* answer.  It works on the agent it read when it began, and writes all of *)
(* it back.                                                                *)
(***************************************************************************)
EXTENDS Naturals, Sequences, FiniteSets

CONSTANTS
    AgentIds,
    Realms,
    Sentinel,   \* REALM_SENTINEL_SLUG, 'default': in no realm
    Unset,      \* no realm given
    Clients,    \* bound: requests in flight at once
    Strands,    \* the agent prompts of Prompts, which write through here too
    Requests    \* bound: what the clients may ask of an agent

Places == Realms \union {Sentinel, Unset}
Agent == [active : BOOLEAN, realm : Places, grants : SUBSET Realms]

ASSUME RequestsAssumption ==
    Requests \subseteq
        [op : {"get", "put", "start", "delete"}]
          \union [op : {"access"}, realm : Places, grants : SUBSET Realms]
          \union [op : {"status"}, active : BOOLEAN]
          \union [op : {"travel"}, realm : Realms]
          \union [op : {"create"}, raw : BOOLEAN, grants : SUBSET Realms]

VARIABLES
    agents,     \* agents: what the service knows, by id
    rows,       \* the table, by id
    calls,      \* the call each caller has in flight
    suspect     \* history: agents whose calls overlapped, or failed where the
                \* code goes on or undoes what the table keeps

storeVars == <<agents, rows, calls, suspect>>

Callers == Clients \union Strands
Known == DOMAIN agents
Stored == DOMAIN rows

Put(f, k, v) == [j \in DOMAIN f \union {k} |-> IF j = k THEN v ELSE f[j]]
Without(f, ks) == [j \in DOMAIN f \ ks |-> f[j]]

Idle == [pc |-> "idle"]
None == [a \in {} |-> Idle]

InitStore ==
    /\ rows \in [AgentIds -> {[active |-> TRUE, realm |-> Unset, grants |-> Realms]}]
    /\ agents = rows
    /\ calls = [c \in Callers |-> Idle]
    /\ suspect = {}

------------------------------------------------------------------------------
\* Calls in flight, and who of them is not alone with its agent.
InFlight == {c \in Callers : calls[c].pc # "idle"}

Touches(x) == IF x.pc = "loading" THEN AgentIds ELSE {x.agent}

GoesOn(c, x) ==
    LET others == {d \in InFlight \ {c} : Touches(x) \intersect Touches(calls[d]) # {}}
    IN  calls' = [d \in Callers |->
                     IF d = c THEN [x EXCEPT !.alone = @ /\ others = {}]
                     ELSE IF d \in others THEN [calls[d] EXCEPT !.alone = FALSE]
                     ELSE calls[d]]

Ends(c, harmed) ==
    /\ calls' = [calls EXCEPT ![c] = Idle]
    /\ suspect' = suspect \union harmed

HarmOf(x) == IF x.alone THEN {} ELSE Touches(x)

Call(r, a) ==
    [pc |-> "new", agent |-> a, request |-> r, new |-> Idle, loaded |-> None,
     answer |-> "none", alone |-> TRUE]

\* The route asked for an id that slugifyName changes: it looks for an agent
\* under that id, where none is, and creates one under the slug.
Raw(r) == r.op = "create" /\ r.raw

\* What a statement answers: "done", or an error.  The code takes "failed" and
\* "lost" alike; when the answer was lost the statement has taken effect.
Answers(c, answer) == calls' = [calls EXCEPT ![c].answer = answer]
Awaits(c, pc) == calls[c].pc = pc /\ calls[c].answer = "none"
Answered(c, pc) == calls[c].pc = pc /\ calls[c].answer # "none"

------------------------------------------------------------------------------
(***************************************************************************)
(* updateAgent, startAgent, deleteAgent with its stopAgent                 *)
(***************************************************************************)

\* The agent an update makes of the one it read.  The route that renames passes
\* the status and the realm access it read, too.
Updated(agent, r) ==
    CASE r.op = "access" -> [agent EXCEPT !.realm = r.realm, !.grants = r.grants]
      [] r.op = "status" -> [agent EXCEPT !.active = r.active]
      [] r.op = "travel" -> [agent EXCEPT !.realm = r.realm]
      [] OTHER           -> agent

\* Travel asked of a realm the agent was not granted changes nothing.
Denied(agent, r) == r.op = "travel" /\ r.realm \notin agent.grants

\* The call has read its agent, out of known.
Proceeds(c, x, known, harmed) ==
    LET a == x.agent
        r == x.request
        waits(pc, new) ==
            /\ GoesOn(c, [x EXCEPT !.pc = pc, !.new = new, !.answer = "none"])
            /\ suspect' = suspect \union harmed
        stopped == Put(known, a, [known[a] EXCEPT !.active = FALSE])
    IN  \/ /\ \/ r.op \in {"get", "create"}
              \/ r.op = "start" /\ known[a].active
              \/ Denied(known[a], r)
           /\ Ends(c, harmed)
           /\ agents' = known
        \/ /\ r.op \in {"access", "status", "put", "travel"} /\ ~Denied(known[a], r)
           /\ waits("normalising", Updated(known[a], r))
           /\ agents' = known
        \/ /\ r.op = "start" /\ ~known[a].active
           /\ waits("probing", [known[a] EXCEPT !.active = TRUE])
           /\ agents' = known
        \/ /\ r.op = "delete"
           /\ waits("deleting", Idle)
           /\ agents' = stopped

\* getAgent: memory first, then the table.
Asks(c, r, a) ==
    /\ c \notin InFlight
    /\ IF a \in Known /\ ~ Raw(r)
       THEN Proceeds(c, Call(r, a), agents, {})
       ELSE /\ GoesOn(c, [Call(r, a) EXCEPT !.pc = "looking"])
            /\ UNCHANGED <<agents, suspect>>
    /\ UNCHANGED rows

RowSelected(c) ==
    /\ Awaits(c, "looking")
    /\ \/ /\ calls[c].agent \in Stored /\ ~ Raw(calls[c].request)
          /\ calls' = [calls EXCEPT ![c].answer = "found", ![c].new = rows[calls[c].agent]]
       \/ /\ calls[c].agent \notin Stored \/ Raw(calls[c].request)
          /\ Answers(c, "none such")
       \/ Answers(c, "failed")
    /\ UNCHANGED <<agents, rows, suspect>>

\* createAgent takes a look-up that failed for the absence of the agent, and
\* keeps the agent in memory while it is inserted.
Looked(c) ==
    LET x == calls[c] IN
    /\ Answered(c, "looking")
    /\ \/ /\ x.answer = "found"
          /\ Proceeds(c, x, Put(agents, x.agent, x.new), HarmOf(x))
       \/ /\ x.answer # "found" /\ x.request.op = "create"
          /\ LET new == [active |-> FALSE, realm |-> Unset, grants |-> x.request.grants] IN
             /\ agents' = Put(agents, x.agent, new)
             /\ GoesOn(c, [x EXCEPT !.pc = "creating", !.new = new, !.answer = "none"])
          /\ suspect' = suspect \union (IF x.answer = "failed" THEN {x.agent} ELSE {})
       \/ /\ x.answer # "found" /\ x.request.op # "create"
          /\ Ends(c, {})
          /\ UNCHANGED agents
    /\ UNCHANGED rows

\* normalizeRealmAccess has answered: memory changes before the row.
Normalised(c) ==
    LET x == calls[c] IN
    /\ x.pc = "normalising"
    /\ agents' = Put(agents, x.agent, x.new)
    /\ GoesOn(c, [x EXCEPT !.pc = "updating"])
    /\ UNCHANGED <<rows, suspect>>

\* The language model answered, or not: the agent is started in memory alone.
Probed(c) ==
    LET x == calls[c] IN
    /\ x.pc = "probing"
    /\ \/ Ends(c, {}) /\ UNCHANGED agents
       \/ Ends(c, HarmOf(x)) /\ agents' = Put(agents, x.agent, x.new)
    /\ UNCHANGED rows

RowUpdated(c) ==
    LET x == calls[c] IN
    /\ Awaits(c, "updating")
    /\ \/ /\ x.agent \in Stored
          /\ rows' = [rows EXCEPT ![x.agent] = x.new]
          /\ Answers(c, "done") \/ Answers(c, "lost")
       \/ x.agent \notin Stored /\ Answers(c, "none such") /\ UNCHANGED rows
       \/ Answers(c, "failed") /\ UNCHANGED rows
    /\ UNCHANGED <<agents, suspect>>

\* No row to update is a row to insert; an error is the caller's, and memory
\* keeps the change.
InsertsInstead(c, x) ==
    GoesOn(c, [x EXCEPT !.pc = "inserting", !.answer = "none"]) /\ UNCHANGED suspect

UpdateEnds(c) ==
    LET x == calls[c] IN
    /\ Answered(c, "updating")
    /\ \/ x.answer \in {"done", "lost"} /\ Ends(c, HarmOf(x))
       \/ x.answer = "failed" /\ Ends(c, {x.agent})
       \/ x.answer = "none such" /\ InsertsInstead(c, x)
    /\ UNCHANGED <<agents, rows>>

\* An upsert on the slug.
RowUpserted(c) ==
    LET x == calls[c] IN
    /\ Awaits(c, "inserting") \/ Awaits(c, "creating")
    /\ \/ rows' = Put(rows, x.agent, x.new) /\ (Answers(c, "done") \/ Answers(c, "lost"))
       \/ Answers(c, "failed") /\ UNCHANGED rows
    /\ UNCHANGED <<agents, suspect>>

InsertEnds(c) ==
    LET x == calls[c] IN
    /\ Answered(c, "inserting")
    /\ Ends(c, IF x.answer = "failed" THEN {x.agent} ELSE HarmOf(x))
    /\ UNCHANGED <<agents, rows>>

KeptAfterFailure(x) == agents    \* mutant: the agent stays in memory
Uncreated(x) == Without(agents, {x.agent})

\* A creation that failed leaves the row it wrote when the answer was lost, and
\* the row of an agent that was there when the ids differed.
LeavesRow(x) == x.answer = "lost" \/ (x.answer = "failed" /\ Raw(x.request))

CreateEnds(c) ==
    LET x == calls[c] IN
    /\ Answered(c, "creating")
    /\ agents' = IF x.answer = "done" THEN agents ELSE Uncreated(x)
    /\ Ends(c, IF LeavesRow(x) THEN {x.agent} ELSE HarmOf(x))
    /\ UNCHANGED rows

RowDeleted(c) ==
    /\ Awaits(c, "deleting")
    /\ \/ rows' = Without(rows, {calls[c].agent}) /\ (Answers(c, "done") \/ Answers(c, "lost"))
       \/ Answers(c, "failed") /\ UNCHANGED rows
    /\ UNCHANGED <<agents, suspect>>

\* A failed delete leaves the agent known, and stopped.
DeleteEnds(c) ==
    LET x == calls[c] IN
    /\ Answered(c, "deleting")
    /\ agents' = IF x.answer = "done" THEN Without(agents, {x.agent}) ELSE agents
    /\ Ends(c, IF x.answer = "lost" THEN {x.agent} ELSE HarmOf(x))
    /\ UNCHANGED rows

------------------------------------------------------------------------------
\* refreshAgentCache: memory is empty until the rows have been read.
RefreshAgentCache(c) ==
    /\ c \notin InFlight
    /\ agents' = None
    /\ GoesOn(c, [Call([op |-> "refresh"], "all") EXCEPT !.pc = "loading"])
    /\ UNCHANGED <<rows, suspect>>

RowsSelected(c) ==
    /\ Awaits(c, "loading")
    /\ \/ calls' = [calls EXCEPT ![c].answer = "done", ![c].loaded = rows]
       \/ Answers(c, "failed")
    /\ UNCHANGED <<agents, rows, suspect>>

RefreshEnds(c) ==
    LET x == calls[c] IN
    /\ Answered(c, "loading")
    /\ \/ /\ x.answer = "done"
          /\ agents' = [a \in Known \union DOMAIN x.loaded |->
                           IF a \in DOMAIN x.loaded THEN x.loaded[a] ELSE agents[a]]
          /\ calls' = [calls EXCEPT ![c] = Idle]
          /\ suspect' = IF x.alone THEN {} ELSE AgentIds
       \/ /\ x.answer = "failed"    \* swallowed
          /\ Ends(c, AgentIds)
          /\ UNCHANGED agents
    /\ UNCHANGED rows

\* What updateAgent does next, whoever called it.
UpdateStep(c) ==
    \/ Normalised(c)
    \/ RowUpdated(c) \/ UpdateEnds(c)
    \/ RowUpserted(c) \/ InsertEnds(c)

\* The calls of the service: two routes create, and the one that updates rewrites
\* the status, the realm access or neither.
Route(c, ops) == \E r \in Requests, a \in AgentIds : r.op \in ops /\ Asks(c, r, a)
CreateAgent(c) == Route(c, {"create"})
GetAgent(c) == Route(c, {"get"})
UpdateAgent(c) == Route(c, {"put", "access", "status"})
StartAgent(c) == Route(c, {"start"})
DeleteAgent(c) == Route(c, {"delete"})
TravelAgent(c) == Route(c, {"travel"})

ClientStep(c) ==
    \/ CreateAgent(c) \/ GetAgent(c) \/ UpdateAgent(c) \/ DeleteAgent(c)
    \/ StartAgent(c) \/ TravelAgent(c)
    \/ RowSelected(c) \/ Looked(c)
    \/ UpdateStep(c) \/ CreateEnds(c)
    \/ Probed(c)
    \/ RowDeleted(c) \/ DeleteEnds(c)
    \/ RefreshAgentCache(c) \/ RowsSelected(c) \/ RefreshEnds(c)

------------------------------------------------------------------------------
\* No call at work on the agent, and none went wrong.
Settled(a) == a \notin suspect /\ \A c \in InFlight : a \notin Touches(calls[c])

\* An agent is known when it is stored, with the realm access it is stored
\* with: after creations and deletions that failed, updates that took effect
\* though their answer was lost, refreshes and travels, too.  The exceptions are
\* those the code makes: calls on one agent that overlapped, updates whose
\* statement failed, creations and deletions that took effect while their
\* answer was lost, failed creations that asked for another id than the one
\* they wrote, and look-ups and refreshes whose failure was swallowed.
KnownIsStored ==
    \A a \in AgentIds :
        Settled(a) =>
            /\ a \in Known <=> a \in Stored
            /\ a \in Known => /\ agents[a].realm = rows[a].realm
                              /\ agents[a].grants = rows[a].grants
==============================================================================
