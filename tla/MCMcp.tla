------------------------------- MODULE MCMcp --------------------------------
EXTENDS McpServer, LanguageModels, AgentTools, Executions, TLC

CONSTANTS c1, c2, merlin, imp, notes, scrolls, made, http, sse

\* One caller tries every tool, the other asks.
Callers == calls[c2].tool \in {"none", "ask_agent_async"}

\* Calls meet in the process only: asks overlap asks, and a tool is killed on
\* its way, but otherwise has the process to itself, and comes before the asks.
ToolsAlone ==
    Running(c1) /\ calls[c1].tool # "ask_agent_async" =>
        asked = [c \in Calls |-> "none"] /\ ~ Running(c2)

\* merlin may use every path, imp the addresses; imp's realm has two servers.
MCAllowed == merlin :> Files @@ imp :> {}
MCBound == merlin :> {} @@ imp :> Servers
MCPermitted == merlin :> {http} @@ imp :> Servers

Phase(n, parallel, continue) == [tasks |-> n, parallel |-> parallel, continueOnFailure |-> continue]

\* A sequential phase that a failure ends, before an empty and a parallel one;
\* one that goes on after a failure, where missing agents end the execution;
\* and two tasks in parallel.
MCBodies ==
    {[phases |-> <<Phase(2, FALSE, FALSE), Phase(0, FALSE, FALSE), Phase(1, TRUE, FALSE)>>,
      required |-> 1, stop |-> FALSE],
     [phases |-> <<Phase(2, FALSE, TRUE)>>, required |-> 1, stop |-> TRUE],
     [phases |-> <<Phase(2, TRUE, FALSE)>>, required |-> 1, stop |-> TRUE]}

MCInit == McpInit /\ LanguageModelsInit /\ AgentToolsInit /\ Init

\* The tools of clients, the language models, the tools of agents, the service's
\* executions and the route's records share nothing here: a behaviour is about
\* one of the five.  Only the third knows of files and of servers that are
\* configured.
NoToolCalled == calls = [c \in Calls |-> NoCall] /\ asked = [c \in Calls |-> "none"]
NoneAsked == exchanges = [a \in Askers |-> Idle]
NoToolUsed == uses = [u \in Uses |-> NoUse]
NothingRuns == Init
OneSource == ServiceInit \/ InitializeDefaultExecutions
NothingThere == NoToolUsed /\ files = InputDir /\ config.address = NotConfigured

MCNext ==
    \/ McpNext /\ Callers' /\ ToolsAlone' /\ NoneAsked /\ NothingThere /\ NothingRuns
          /\ UNCHANGED <<lmvars, atvars, vars>>
    \/ LanguageModelsNext /\ NoToolCalled /\ NothingThere /\ NothingRuns
          /\ UNCHANGED <<mcpvars, atvars, vars>>
    \/ Next /\ OneSource' /\ NoToolCalled /\ NoneAsked /\ NothingThere
          /\ UNCHANGED <<mcpvars, lmvars, atvars>>
    \/ /\ AgentToolsNext /\ NoToolCalled /\ NoneAsked /\ NothingRuns
       /\ UNCHANGED <<mcpvars, lmvars, vars>>
       \* The host changes the files or the servers, which nothing relates, and
       \* does so while a tool is used.
       /\ (config.address = NotConfigured \/ files = InputDir)'
       /\ <<files, config>>' # <<files, config>> => ~ \A u \in Uses : AtPlace(u, "over")

MCSpec ==
    /\ MCInit /\ [][MCNext]_<<mcpvars, lmvars, atvars, vars>>
    /\ \A c \in Calls : WF_mcpvars(Processing(c))
    /\ LanguageModelsFairness /\ AgentToolsFairness
==============================================================================
