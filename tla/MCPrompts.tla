------------------------------ MODULE MCPrompts ------------------------------
EXTENDS Prompts, TLC

CONSTANTS merlin, imp, forest, lake, s1, p1, p2

MCBoundTo == merlin :> Unset @@ imp :> lake
MCSessionOf == p1 :> s1 @@ p2 :> NoSession
MCParticipants == s1 :> {merlin, imp}
MCRounds == merlin :> 2 @@ imp :> 2

Travel(r) == [tool |-> "travel_to_realm", to |-> r]
Message(a) == [tool |-> "message_agent", to |-> a]
Other == [tool |-> "other"]
Bad == [tool |-> "malformed"]

MCReplies == {<<>>, <<Other>>, <<Bad, Travel(lake), Message(imp)>>}

MCRequests ==
    {[op |-> "get"], [op |-> "status", active |-> FALSE], [op |-> "start"], [op |-> "delete"],
     [op |-> "travel", realm |-> forest], [op |-> "create", raw |-> FALSE, grants |-> Realms],
     [op |-> "create", raw |-> TRUE, grants |-> Realms],
     [op |-> "access", realm |-> forest, grants |-> {forest}]}

Untouched ==
    /\ InFlight \subseteq Strands
    /\ suspect = {} /\ Known = AgentIds
    /\ agents[merlin].active /\ agents[merlin].grants = Realms

\* Requests change one of the two agents.  They overlap a prompt where it holds
\* what it read of that agent, save for those that create or read it and for the
\* travel route, whose update is one like the others; nested prompts and the
\* second strand run when they have left it as it was.  A strand nests prompts
\* while the other one is not at work.
Simultaneous ==
    /\ imp \in Stored /\ rows[imp] = [active |-> TRUE, realm |-> Unset, grants |-> Realms]
    /\ imp \in Known => agents[imp] = rows[imp]
    /\ Len(stacks[p1]) > 1 \/ strands[p2] # "new" => Untouched
    /\ (\E p \in Strands : Len(stacks[p]) > 1) => \E p \in Strands : strands[p] # "running"
    /\ strands[p1] # "new" /\ ~Running(p1, "travelling") /\ ~Running(p1, "saving")
          => InFlight \subseteq Strands
    /\ strands[p1] # "new" => \A c \in InFlight \ Strands : calls[c].request.op \notin {"get", "create", "travel"}
==============================================================================
