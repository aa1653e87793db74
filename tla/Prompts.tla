------------------------------- MODULE Prompts -------------------------------
(***************************************************************************)
(* AgentService at work: agents prompted in turn, their replies' tool      *)
(* calls, the prompts those calls nest, and travel, which moves an agent   *)
(* within a session or, outside of one, in the store of Agents.            *)
(*                                                                         *)
(* A strand is one prompt from outside - a step of a coordination session  *)
(* or a request - with the stack of prompts nested in it.  An agent that is*)
(* not in memory when it is prompted or asked to travel is not found: the  *)
(* look-up in the table is modelled where an update is what asks.          *)
(***************************************************************************)
EXTENDS Agents

CONSTANTS
    Druids,         \* agents of type druid
    BoundTo,        \* boundRealmId of each agent, or Unset
    Sessions,
    NoSession,
    SessionOf,      \* the session each strand runs in
    Participants,   \* participantIds of each session
    Rounds,         \* maxIterations of each agent; 1 without the loop
    Summarising,    \* agents whose contextStrategy is 'summarized', the default
    Replies,        \* bound: the replies a model may give
    MaxDepth        \* bound: nested prompts that are followed; the code has no limit

ASSUME PromptsAssumption ==
    /\ Druids \subseteq AgentIds
    /\ BoundTo \in [AgentIds -> Realms \union {Unset}]
    /\ NoSession \notin Sessions
    /\ SessionOf \in [Strands -> Sessions \union {NoSession}]
    /\ Participants \in [Sessions -> SUBSET AgentIds]
    /\ Rounds \in [AgentIds -> Nat \ {0}]
    /\ Summarising \subseteq AgentIds
    /\ MaxDepth \in Nat \ {0}

\* A tool call as extractToolCalls and JSON.parse leave it.
ToolCall ==
    [tool : {"travel_to_realm"}, to : Realms]
      \union [tool : {"message_agent"}, to : AgentIds]
      \union [tool : {"other", "malformed"}]

ASSUME RepliesAssumption == Replies \subseteq Seq(ToolCall)

VARIABLES
    sessions,   \* each session: "new", "listed" or "gone"
    states,     \* its SessionAgentManager: the realm of each agent it knows
    strands,    \* each strand: "new", "running", "answered" or "failed"
    stacks      \* the prompts it nests, the innermost last

vars == <<agents, rows, calls, suspect, sessions, states, strands, stacks>>

Top(p) == stacks[p][Len(stacks[p])]
Running(p, pc) == stacks[p] # <<>> /\ Top(p).pc = pc
Becomes(p, f) == stacks' = [stacks EXCEPT ![p][Len(stacks[p])] = f]

InitPrompts ==
    /\ sessions = [s \in Sessions |-> "new"]
    /\ states = [s \in Sessions |-> None]
    /\ strands = [p \in Strands |-> "new"]
    /\ stacks = [p \in Strands |-> <<>>]

Init == InitStore /\ InitPrompts

------------------------------------------------------------------------------
(***************************************************************************)
(* Presence: where an agent is.                                            *)
(***************************************************************************)

\* currentRealmId, then boundRealmId, then the sentinel.
GlobalRealm(agent, a) ==
    IF agent.realm # Unset THEN agent.realm
    ELSE IF BoundTo[a] # Unset THEN BoundTo[a]
    ELSE Sentinel

InSession(a, s) == s \in Sessions /\ sessions[s] = "listed" /\ a \in DOMAIN states[s]

\* mutant: the agent's own record comes first
GlobalFirst(a, s) ==
    IF a \in Known /\ GlobalRealm(agents[a], a) # Sentinel THEN GlobalRealm(agents[a], a)
    ELSE IF InSession(a, s) THEN states[s][a]
    ELSE Sentinel

\* What the session says, unless it knows nothing of the agent.
ResolveCurrentRealm(a, s) ==
    IF InSession(a, s) /\ states[s][a] # Sentinel THEN states[s][a]
    ELSE IF a \in Known THEN GlobalRealm(agents[a], a)
    ELSE Sentinel

\* The participants join before the session is listed; those that cannot be
\* found are left out.
Joins(s, a) ==
    /\ sessions[s] = "new"
    /\ a \in Participants[s] \ DOMAIN states[s]
    /\ a \in Known
    /\ states' = [states EXCEPT ![s] = Put(@, a, GlobalRealm(agents[a], a))]
    /\ UNCHANGED <<storeVars, sessions, strands, stacks>>

Lists(s) ==
    /\ sessions[s] = "new"
    /\ Participants[s] \intersect Known \subseteq DOMAIN states[s]
    /\ sessions' = [sessions EXCEPT ![s] = "listed"]
    /\ UNCHANGED <<storeVars, states, strands, stacks>>

\* The session ends while prompts it gave up on may still run; the purge takes
\* it off the list later.
Cleanup(s) ==
    /\ sessions[s] = "listed"
    /\ states[s] # None
    /\ states' = [states EXCEPT ![s] = None]
    /\ UNCHANGED <<storeVars, sessions, strands, stacks>>

Purged(s) ==
    /\ sessions[s] = "listed"
    /\ states[s] = None
    /\ sessions' = [sessions EXCEPT ![s] = "gone"]
    /\ UNCHANGED <<storeVars, states, strands, stacks>>

------------------------------------------------------------------------------
(***************************************************************************)
(* executeAgentPrompt and its loop                                         *)
(***************************************************************************)

Frame(a) ==
    [agent |-> a, pc |-> "asking", round |-> 1, reply |-> <<>>, at |-> 1,
     results |-> <<>>, seen |-> Idle]

Active(a) == a \in Known /\ agents[a].active

Prompt(p, a) ==
    /\ strands[p] = "new"
    /\ SessionOf[p] \in Sessions => sessions[SessionOf[p]] = "listed"
    /\ IF Active(a)
       THEN /\ strands' = [strands EXCEPT ![p] = "running"]
            /\ stacks' = [stacks EXCEPT ![p] = <<Frame(a)>>]
       ELSE /\ strands' = [strands EXCEPT ![p] = "failed"]
            /\ UNCHANGED stacks
    /\ UNCHANGED <<storeVars, sessions, states>>

\* The call at hand has its result and the next one's turn comes, whether the
\* call worked or not.
SkipsTheRest(f, ok) ==    \* mutant: a call that fails ends the reply
    [f EXCEPT !.pc = "calling", !.at = IF ok THEN @ + 1 ELSE Len(f.reply) + 1, !.seen = Idle,
              !.results = Append(@, [call |-> f.reply[f.at], ok |-> ok])]
WithResult(f, ok) ==
    [f EXCEPT !.pc = "calling", !.at = @ + 1, !.seen = Idle,
              !.results = Append(@, [call |-> f.reply[f.at], ok |-> ok])]

\* The innermost prompt ends: the strand has its answer, or the call that
\* nested the prompt has its result.
PromptEnds(p, ok) ==
    LET depth == Len(stacks[p]) - 1 IN
    IF depth = 0
    THEN /\ stacks' = [stacks EXCEPT ![p] = <<>>]
         /\ strands' = [strands EXCEPT ![p] = IF ok THEN "answered" ELSE "failed"]
    ELSE /\ stacks' = [stacks EXCEPT ![p] =
                          [i \in 1 .. depth |->
                              IF i = depth THEN WithResult(@[i], ok) ELSE @[i]]]
         /\ UNCHANGED strands

\* callLLM
LLMReplies(p, reply) ==
    /\ Running(p, "asking")
    /\ Becomes(p, [Top(p) EXCEPT !.pc = "calling", !.reply = reply, !.at = 1, !.results = <<>>])
    /\ UNCHANGED <<storeVars, sessions, states, strands>>

LLMFails(p) ==
    /\ Running(p, "asking")
    /\ PromptEnds(p, FALSE)
    /\ UNCHANGED <<storeVars, sessions, states>>

\* What is left of a round's results for the model: optimizeToolResults cuts
\* their text off where an agent's token budget ends.
Optimized(f) ==
    IF f.agent \in Summarising
    THEN {SubSeq(f.results, 1, n) : n \in 0 .. Len(f.results)}
    ELSE {f.results}

\* A round goes on to the next while it has made a call and rounds are left.
NextRound(f) == f.round + 1
UncountedWhenFailed(f) ==    \* mutant: a round without a success is not counted
    IF \E i \in 1 .. Len(f.results) : f.results[i].ok THEN f.round + 1 ELSE f.round
RoundAfter(f) == NextRound(f)

RoundEnds(p) ==
    LET f == Top(p) IN
    /\ Running(p, "calling")
    /\ f.at > Len(f.reply)
    /\ IF f.results = <<>> \/ RoundAfter(f) > Rounds[f.agent]
       THEN PromptEnds(p, TRUE)
       ELSE /\ \E told \in Optimized(f) :
                  Becomes(p, [f EXCEPT !.pc = "asking", !.round = RoundAfter(f), !.results = told])
            /\ UNCHANGED strands
    /\ UNCHANGED <<storeVars, sessions, states>>

------------------------------------------------------------------------------
(***************************************************************************)
(* processAgentToolCalls and the tools                                     *)
(***************************************************************************)

\* The call whose turn it is.
Calling(p, tool) ==
    /\ Running(p, "calling")
    /\ Top(p).at <= Len(Top(p).reply)
    /\ Top(p).reply[Top(p).at].tool = tool

Target(p) == Top(p).reply[Top(p).at].to

Results(p, ok) == Becomes(p, WithResult(Top(p), ok)) /\ UNCHANGED strands

\* A call that does not parse is replaced in the text and is no call.
Malformed(p) ==
    /\ Calling(p, "malformed")
    /\ Becomes(p, [Top(p) EXCEPT !.at = @ + 1])
    /\ UNCHANGED <<storeVars, sessions, states, strands>>

\* Any other tool, AgentTools': it answers, or waits for a server that nothing
\* in the code gives up.
OtherTool(p) ==
    /\ Calling(p, "other")
    /\ \/ \E ok \in BOOLEAN : Results(p, ok)
       \/ Becomes(p, [Top(p) EXCEPT !.pc = "waiting"]) /\ UNCHANGED strands
    /\ UNCHANGED <<storeVars, sessions, states>>

\* sendToAgent: an active target where the sender is.  A druid that the
\* requesting user may not assume is refused.
MessageRefused(p) ==
    /\ Calling(p, "message_agent")
    /\ LET f == Top(p)
           s == SessionOf[p]
       IN  \/ ~Active(Target(p))
           \/ Target(p) \in Druids
           \/ f.agent \notin Known
           \/ ResolveCurrentRealm(f.agent, s) # ResolveCurrentRealm(Target(p), s)
    /\ Results(p, FALSE)
    /\ UNCHANGED <<storeVars, sessions, states>>

MessageSent(p) ==
    /\ Calling(p, "message_agent")
    /\ LET f == Top(p)
           s == SessionOf[p]
       IN  /\ Active(Target(p))
           /\ f.agent \in Known
           /\ ResolveCurrentRealm(f.agent, s) = ResolveCurrentRealm(Target(p), s)
           /\ stacks' = [stacks EXCEPT ![p] =
                  IF Len(@) < MaxDepth
                  THEN Append([@ EXCEPT ![Len(@)].pc = "messaging"], Frame(Target(p)))
                  ELSE [@ EXCEPT ![Len(@)].pc = "waiting"]]
    /\ UNCHANGED <<storeVars, sessions, states, strands>>

\* What is waited for may come, and need not: a server's answer, or the end of a
\* prompt nested deeper than MaxDepth, which is not followed.
Waits(p) == Running(p, "waiting")

WaitEnds(p) ==
    /\ Waits(p)
    /\ \E ok \in BOOLEAN : Results(p, ok)
    /\ UNCHANGED <<storeVars, sessions, states>>

\* toolTravelToRealm reads the agent, and then resolves realms.
TravelRefused(p) ==
    /\ Calling(p, "travel_to_realm")
    /\ Top(p).agent \notin Known \intersect Druids
    /\ Results(p, FALSE)
    /\ UNCHANGED <<storeVars, sessions, states>>

TravelStarts(p) ==
    /\ Calling(p, "travel_to_realm")
    /\ Top(p).agent \in Known \intersect Druids
    /\ Becomes(p, [Top(p) EXCEPT !.pc = "travelling", !.seen = agents[Top(p).agent]])
    /\ UNCHANGED <<storeVars, sessions, states, strands>>

\* The session that is listed records the move, of an agent it knows; without
\* one the agent's realm access is written back as it was read, but for the realm.
Arrives(p) ==
    LET f == Top(p)
        a == f.agent
        s == SessionOf[p]
        arrived == [f.seen EXCEPT !.realm = Target(p)]
        request == [op |-> "access", realm |-> Target(p), grants |-> f.seen.grants]
    IN
    /\ Running(p, "travelling")
    /\ \/ /\ Target(p) \notin f.seen.grants
          /\ Results(p, FALSE)
          /\ UNCHANGED <<storeVars, states>>
       \/ /\ Target(p) \in f.seen.grants
          /\ s \in Sessions /\ sessions[s] = "listed"
          /\ Results(p, a \in DOMAIN states[s])
          /\ states' = IF a \in DOMAIN states[s] THEN [states EXCEPT ![s][a] = Target(p)] ELSE states
          /\ UNCHANGED storeVars
       \/ /\ Target(p) \in f.seen.grants
          /\ s \in Sessions => sessions[s] # "listed"
          /\ Asks(p, request, a)
          /\ Becomes(p, [f EXCEPT !.pc = "saving"])
          /\ UNCHANGED <<states, strands>>
    /\ UNCHANGED sessions

\* updateAgent, up to its end.
TravelStep(p) ==
    /\ Running(p, "saving")
    /\ RowSelected(p) \/ Looked(p) \/ UpdateStep(p)
    /\ IF calls'[p] = Idle THEN Results(p, calls[p].answer = "done") ELSE UNCHANGED <<stacks, strands>>
    /\ UNCHANGED <<sessions, states>>

StrandStep(p) ==
    \/ \E reply \in Replies : LLMReplies(p, reply)
    \/ LLMFails(p)
    \/ RoundEnds(p)
    \/ Malformed(p) \/ OtherTool(p)
    \/ MessageRefused(p) \/ MessageSent(p)
    \/ TravelRefused(p) \/ TravelStarts(p) \/ Arrives(p) \/ TravelStep(p)

Next ==
    \/ \E c \in Clients : ClientStep(c) /\ UNCHANGED <<sessions, states, strands, stacks>>
    \/ \E s \in Sessions :
          \/ \E a \in Participants[s] : Joins(s, a)
          \/ Lists(s) \/ Cleanup(s) \/ Purged(s)
    \/ \E p \in Strands :
          \/ \E a \in AgentIds : Prompt(p, a)
          \/ StrandStep(p) \/ WaitEnds(p)

\* Models and the database answer every call, and tools do unless they wait;
\* requests and the ends of sessions are owed to no one.
Spec == Init /\ [][Next]_vars /\ \A p \in Strands : WF_vars(StrandStep(p))

------------------------------------------------------------------------------
(***************************************************************************)
(* Properties                                                              *)
(***************************************************************************)

\* While a session is listed and knows where an agent is, the agent is
\* somewhere else only after it has travelled in that session: no request, no
\* prompt of another session and no travel that fell back to the store moves it.
OwnTravelOnly ==
    [][\A s \in Sessions, a \in AgentIds :
          /\ InSession(a, s) /\ states[s][a] # Sentinel
          /\ InSession(a, s)'
          /\ ResolveCurrentRealm(a, s)' # ResolveCurrentRealm(a, s)
          => \E p \in Strands :
                SessionOf[p] = s /\ Running(p, "travelling") /\ Top(p).agent = a]_vars

WellFormed(call) == call.tool # "malformed"

\* The first n calls of a reply, but for those that do not parse.
Parsed(f, n) == {i \in 1 .. n : WellFormed(f.reply[i])}

\* The results are theirs, one each and in their order.
AnswersCalls(f, n) ==
    /\ Len(f.results) = Cardinality(Parsed(f, n))
    /\ \A i \in Parsed(f, n) : f.results[Cardinality(Parsed(f, i))].call = f.reply[i]

\* What a model is told, of the calls of its last reply from the first one on:
\* the outcome of each, once and in its place; of all of them, unless its agent
\* summarises and their text was cut off.
Told(f) ==
    LET wanted == Parsed(f, Len(f.reply)) IN
    /\ Len(f.results) <= Cardinality(wanted)
    /\ f.agent \notin Summarising => Len(f.results) = Cardinality(wanted)
    /\ \A i \in wanted :
          LET k == Cardinality(Parsed(f, i)) IN
          k <= Len(f.results) => f.results[k].call = f.reply[i]

\* When the model is asked again it is told the outcomes of the calls of its last
\* reply in the order it made them, failed ones included, none missed or taken
\* for another's; only the token budget of a summarising agent ends them early.
EveryCallIsAnswered ==
    \A p \in Strands : \A i \in 1 .. Len(stacks[p]) :
        stacks[p][i].pc = "asking" => Told(stacks[p][i])

\* A prompt comes to an end however often its models call tools and each other,
\* failed calls included, unless a call of it waits for what nothing in the code
\* ends: a server's answer, or a delegation that goes ever deeper.
EveryPromptEnds ==
    \A p \in Strands :
        strands[p] = "running" ~> strands[p] \in {"answered", "failed"} \/ Waits(p)
==============================================================================
