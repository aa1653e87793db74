------------------------------ MODULE AgentTools ------------------------------
(***************************************************************************)
(* The tools that reach out of the application while an agent is prompted: *)
(* what it is offered, the files and addresses it may use, the batch over  *)
(* a directory, and the gateway to the MCP servers of its realm.           *)
(*                                                                         *)
(* A use is one call of a tool, or the discovery of an agent's tools when  *)
(* it is prompted.  Directories are shared with the host; the servers'     *)
(* configuration is read again whenever its file changes.                  *)
(***************************************************************************)
EXTENDS Naturals, FiniteSets

CONSTANTS
    Uses,          \* bound: uses at once
    Agents,
    Files,         \* the paths there may be
    InputDir,      \* those in the directory that is listed
    Allowed,       \* resourceAccess: the paths each agent may use
    MayFetch,      \* agents with addresses among their locations
    Servers,       \* MCP servers
    Sse,           \* those with the SSE transport; the others speak HTTP
    Bound,         \* the servers of each agent's realm, in the database
    Permitted,     \* the servers whose tools each agent's mcpTools name
    Elementals,
    Unlisted       \* a server that is not in the configuration

ASSUME AgentToolsAssumption ==
    /\ InputDir \subseteq Files
    /\ Sse \subseteq Servers
    /\ Elementals \subseteq Agents
    /\ Allowed \in [Agents -> SUBSET Files]
    /\ Bound \in [Agents -> SUBSET Servers]
    /\ Permitted \in [Agents -> SUBSET Servers]

VARIABLES
    uses,
    files,        \* the paths that exist
    config,       \* each server's address, and the fallback binding of realms
    mcpClients    \* the address each cached client was made with

atvars == <<uses, files, config, mcpClients>>

Addresses == {"old", "new"}
NotConfigured == [s \in Servers |-> Unlisted]

\* A server may be configured at either address, or not at all.
Configurations ==
    [address : [Servers -> Addresses \union {Unlisted}], fallback : SUBSET Servers]

NoUse == [by |-> Unlisted, tool |-> "none", at |-> "over", answer |-> "none",
          offered |-> {}, listing |-> {}, left |-> {}, file |-> Unlisted, report |-> << >>,
          server |-> Unlisted, heard |-> "nothing"]

AgentToolsInit ==
    /\ uses = [u \in Uses |-> NoUse]
    /\ files = InputDir
    /\ config \in {[address |-> NotConfigured, fallback |-> {}]}
                    \union {c \in Configurations : c.address \in [Servers -> {"old"}]}
    /\ mcpClients = NotConfigured

AtPlace(u, place) == uses[u].at = place
Ends(u, answer) == uses' = [uses EXCEPT ![u].at = "over", ![u].answer = answer]
Moves(u, place) == uses' = [uses EXCEPT ![u].at = place]
Outside == UNCHANGED <<files, config, mcpClients>>

------------------------------------------------------------------------------
(***************************************************************************)
(* Which tools there are                                                   *)
(***************************************************************************)

FileTools == {"read_file", "write_file", "list_files", "process_files_batch"}
Communication == {"message_agent", "delegate_task", "assign_simple_task", "get_step_content"}
RealmNavigation == {"travel_to_realm", "get_current_realm", "get_realm_elementals"}

\* What an agent is told of, a server standing for its tools; a model may name
\* any other tool all the same.
AvailableTools(a, discovered) ==
    Communication \union {"search_worldtree"}
        \union (IF Allowed[a] # {} THEN FileTools ELSE {})
        \union (IF a \in MayFetch THEN {"fetch_url"} ELSE {})
        \union (IF a \in Elementals THEN {} ELSE RealmNavigation)
        \union discovered

\* A tool of this module is used, or an agent's tools are asked for.
ToolUsed(u, a) ==
    /\ AtPlace(u, "over")
    /\ \E tool \in FileTools \union {"fetch_url", "get_step_content", "mcp tool", "offer"} :
          LET use == [NoUse EXCEPT !.by = a, !.tool = tool]
              Goes(place) == uses' = [uses EXCEPT ![u] = [use EXCEPT !.at = place]]
              Denied == uses' = [uses EXCEPT ![u] = [use EXCEPT !.answer = "error"]]
          IN  CASE tool \in FileTools \union {"fetch_url"} /\ Allowed[a] = {} /\ a \notin MayFetch -> Denied
                [] tool \in {"list_files", "process_files_batch"} -> Goes("listing")
                [] tool \in {"read_file", "write_file"} -> Goes(tool)
                [] tool = "fetch_url" -> Goes("fetching")
                [] tool = "get_step_content" -> Goes("looking")
                [] OTHER -> Goes("binding")
    /\ Outside

\* A step's content, for members of its session; what is not found is said so.
StepContent(u) == AtPlace(u, "looking") /\ Ends(u, "ok") /\ Outside

\* One address or several at once, none of them allowed perhaps: each brings
\* its headers or fails, and a single failure is an error.
Fetched(u) ==
    /\ AtPlace(u, "fetching")
    /\ Moves(u, "reading") \/ \E answer \in {"ok", "error"} : Ends(u, answer)
    /\ Outside

------------------------------------------------------------------------------
(***************************************************************************)
(* Files                                                                   *)
(***************************************************************************)

HasAccess(u, f) == f \in Allowed[uses[u].by]

ReadFile(u) ==
    /\ AtPlace(u, "read_file")
    /\ \E f \in Files : \/ HasAccess(u, f) /\ f \in files /\ Ends(u, "ok")
                        \/ Ends(u, "error")
    /\ Outside

WriteFile(u) ==
    /\ AtPlace(u, "write_file")
    /\ \/ \E f \in Files : HasAccess(u, f) /\ files' = files \union {f} /\ Ends(u, "ok")
       \/ Ends(u, "error") /\ UNCHANGED files
    /\ UNCHANGED <<config, mcpClients>>

\* The directory is read, and then every entry of it looked at.
ListFiles(u) ==
    /\ AtPlace(u, "listing")
    /\ \/ /\ \A f \in InputDir : HasAccess(u, f)
          /\ uses' = [uses EXCEPT ![u].at = "looking at entries", ![u].listing = files \intersect InputDir]
       \/ Ends(u, "error")
    /\ Outside

EntriesSeen(u) ==
    /\ AtPlace(u, "looking at entries")
    /\ \/ /\ uses[u].listing \subseteq files
          /\ IF uses[u].tool = "list_files" THEN Ends(u, "ok")
             ELSE \E matching \in SUBSET uses[u].listing :
                     uses' = [uses EXCEPT ![u].at = "next file", ![u].listing = matching, ![u].left = matching]
       \/ Ends(u, "error")
    /\ Outside

------------------------------------------------------------------------------
(***************************************************************************)
(* toolProcessFilesBatch: each file of the listing is read, given to the   *)
(* agent itself in a prompt, and what it answers written under a name of   *)
(* the template's or of its own.                                           *)
(***************************************************************************)

Entered(u, f, status) ==
    [uses[u] EXCEPT !.at = "next file", !.left = @ \ {f}, !.file = Unlisted,
                    !.report = [g \in DOMAIN @ \union {f} |-> IF g = f THEN status ELSE @[g]]]

GivesBatchUp(u, f) == [uses[u] EXCEPT !.at = "over", !.answer = "ok"]    \* mutant

\* An error with one file is that file's; the next has its turn.
FileFails(u, f) == Entered(u, f, "error")

FileRead(u) ==
    /\ AtPlace(u, "next file")
    /\ \E f \in uses[u].left :
          \/ /\ HasAccess(u, f) /\ f \in files
             /\ uses' = [uses EXCEPT ![u].at = "processing", ![u].file = f]
          \/ uses' = [uses EXCEPT ![u] = FileFails(u, f)]
    /\ Outside

\* The agent's answer is written, or its prompt or the write fails.
FileProcessed(u) ==
    /\ AtPlace(u, "processing")
    /\ \/ \E output \in Files :
             /\ HasAccess(u, output)
             /\ files' = files \union {output}
             /\ uses' = [uses EXCEPT ![u] = Entered(u, uses[u].file, "success")]
       \/ uses' = [uses EXCEPT ![u] = FileFails(u, uses[u].file)] /\ UNCHANGED files
    /\ UNCHANGED <<config, mcpClients>>

BatchEnds(u) == AtPlace(u, "next file") /\ uses[u].left = {} /\ Ends(u, "ok") /\ Outside

------------------------------------------------------------------------------
(***************************************************************************)
(* The gateway and its clients                                             *)
(***************************************************************************)

\* The servers of the agent's realm, once the realm is there: of the database,
\* and otherwise of the configuration.
RealmServers(a, found) == IF found /\ Bound[a] # {} THEN Bound[a] ELSE config.fallback

\* Discovery takes the configuration only where the realm is not found.
ServersToAsk(a, found) == IF found THEN Bound[a] ELSE config.fallback

Reachable(a, servers) == {s \in servers \intersect Permitted[a] : config.address[s] # Unlisted}

SendsTo(u, s) ==
    uses' = [uses EXCEPT ![u].at = "requesting", ![u].server = s, ![u].heard = "nothing"]

\* A client is made for a server at its first call and kept, also when the
\* configuration has changed since.
RouteToolThroughMCPGateway(u) ==
    /\ AtPlace(u, "binding") /\ uses[u].tool = "mcp tool"
    /\ \/ \E found \in BOOLEAN :
          \E s \in Reachable(uses[u].by, RealmServers(uses[u].by, found)) :
             /\ uses[u].by \in Elementals
             /\ SendsTo(u, s)
             /\ mcpClients' = IF mcpClients[s] = Unlisted
                              THEN [mcpClients EXCEPT ![s] = config.address[s]] ELSE mcpClients
       \/ Ends(u, "told") /\ UNCHANGED mcpClients
    /\ UNCHANGED <<files, config>>

Offers(u, discovered) ==
    uses' = [uses EXCEPT ![u].at = "over", ![u].answer = "ok",
                         ![u].offered = AvailableTools(uses[u].by, discovered)]

\* Discovery makes a client of its own.  Without a server nothing is discovered.
DiscoverMCPTools(u) ==
    /\ AtPlace(u, "binding") /\ uses[u].tool = "offer"
    /\ \/ \E found \in BOOLEAN :
          \E s \in Reachable(uses[u].by, ServersToAsk(uses[u].by, found)) : SendsTo(u, s)
       \/ Offers(u, {})
    /\ Outside

RequestAnswered(u) ==
    IF uses[u].tool = "offer" THEN Offers(u, {uses[u].server}) ELSE Ends(u, "ok")

\* The gateway makes an error a result; discovery makes it no tools.
RequestFails(u) == IF uses[u].tool = "offer" THEN Offers(u, {}) ELSE Ends(u, "told")

\* The headers are awaited without a timer, as long as the runtime does.  A
\* stream is read under one; a plain answer, and the error that a stream's
\* server gives a call, are read as long as they take.
ServerAnswers(u) ==
    /\ AtPlace(u, "requesting")
    /\ \/ uses[u].server \in Sse /\ Moves(u, "streaming")
       \/ (uses[u].server \notin Sse \/ uses[u].tool = "mcp tool") /\ Moves(u, "reading")
       \/ RequestFails(u)
    /\ Outside

\* The body of an address, or of a server's answer, ends or breaks off.
BodyEnds(u) ==
    /\ AtPlace(u, "reading")
    /\ \/ uses[u].tool = "fetch_url" /\ \E answer \in {"ok", "error"} : Ends(u, answer)
       \/ uses[u].tool # "fetch_url" /\ uses[u].server \notin Sse /\ RequestAnswered(u)
       \/ uses[u].tool # "fetch_url" /\ RequestFails(u)
    /\ Outside

\* Of the messages in a stream the last result counts, and any error.
StreamHeard(u) ==
    /\ AtPlace(u, "streaming")
    /\ \E message \in {"result", "error", "other"} :
          uses' = [uses EXCEPT ![u].heard =
              IF message = "other" \/ @ = "error" THEN @ ELSE message]
    /\ Outside

StreamEnds(u) ==
    /\ AtPlace(u, "streaming")
    /\ \/ uses[u].heard = "result" /\ RequestAnswered(u)
       \/ RequestFails(u)
    /\ Outside

NoTimer(u) == FALSE                       \* mutant
StreamTimer(u) == AtPlace(u, "streaming")

\* 60 s after its start a stream is given up, whatever it has brought.
StreamGivenUp(u) == StreamTimer(u) /\ RequestFails(u) /\ Outside

------------------------------------------------------------------------------
(***************************************************************************)
(* The environment                                                         *)
(***************************************************************************)

HostChangesFiles ==
    /\ \E f \in Files : files' = (files \ {f}) \/ files' = files \union {f}
    /\ UNCHANGED <<uses, config, mcpClients>>

\* The file is watched if it could be read at the start; one that cannot be
\* parsed leaves the configuration as it was.
ConfigReloaded ==
    /\ config.address # NotConfigured
    /\ config' \in Configurations
    /\ UNCHANGED <<uses, files, mcpClients>>

AgentToolsNext ==
    \/ \E u \in Uses :
          \/ \E a \in Agents : ToolUsed(u, a)
          \/ StepContent(u) \/ Fetched(u)
          \/ ReadFile(u) \/ WriteFile(u) \/ ListFiles(u) \/ EntriesSeen(u)
          \/ FileRead(u) \/ FileProcessed(u) \/ BatchEnds(u)
          \/ RouteToolThroughMCPGateway(u) \/ DiscoverMCPTools(u)
          \/ ServerAnswers(u) \/ BodyEnds(u) \/ StreamHeard(u) \/ StreamEnds(u) \/ StreamGivenUp(u)
    \/ HostChangesFiles \/ ConfigReloaded

\* The file system answers, the runtime gives up on an address or a server that
\* sends no headers, and timers go off.  A body need not end, nor need a stream,
\* nor the prompt a file of a batch is given to.
AgentToolsFairness ==
    \A u \in Uses :
        /\ WF_atvars(StepContent(u) \/ Fetched(u) \/ ReadFile(u) \/ WriteFile(u))
        /\ WF_atvars(ListFiles(u) \/ EntriesSeen(u))
        /\ WF_atvars(FileRead(u) \/ BatchEnds(u))
        /\ WF_atvars(RouteToolThroughMCPGateway(u) \/ DiscoverMCPTools(u))
        /\ WF_atvars(ServerAnswers(u)) /\ WF_atvars(StreamGivenUp(u))

AgentToolsSpec == AgentToolsInit /\ [][AgentToolsNext]_atvars /\ AgentToolsFairness

------------------------------------------------------------------------------

\* A batch that answers tells of each file it listed.
Reported(u) ==
    uses[u].tool = "process_files_batch" /\ uses[u].answer = "ok" => DOMAIN uses[u].report = uses[u].listing

\* What nothing in the program bounds: a body that is read without a timer, and
\* the agent's own prompt for a file of a batch.
Unbounded(u) == uses[u].at \in {"reading", "processing"}

\* A tool that was called has its answer in the end, or waits for a body that
\* no timer bounds or for a prompt of its agent: files that go away, silent
\* servers and streams that never end do not hold it.  A batch's answer tells
\* of every file it listed, those that failed or were taken away included.
EveryToolAnswers ==
    \A u \in Uses : ~ AtPlace(u, "over") ~> (AtPlace(u, "over") /\ Reported(u)) \/ Unbounded(u)
==============================================================================
