# Agent Druids in TLA+

Agent Druids is one Node process (`src/src/index.ts`) with a PostgreSQL
database, a directory tree for session artifacts and ingested documents, and
one or more language-model providers. Clients start *coordination sessions*: a
coordinator agent plans the work of other agents, the service runs the plan
step by step, records every contribution, integrates them and publishes the
result. Around that stand agents with tools, realms they travel between,
scenarios, a searchable catalogue (the WorldTree), identities and grants, and
a second process that offers all of it as MCP tools. This directory models
the parts in which order, failure and shared state decide what is right.

Paths below are relative to the repository's `src/`; services are in
`services/`. `PROJECT.json` maps each definition to the lines it stands for.

## 1. Inventory

| Part | State | Operations | What is hard | What makes it correct |
|---|---|---|---|---|
| Coordination sessions (`CoordinationService.ts`) | map of sessions, active steps, one agent and one content manager per session | orchestrate, coordinate, create and approve a plan, rerun, delete, purge; planning, the plan loop, the fallback, synthesis, persisting twice | every handler is cut up by awaits and all sessions share the maps; failing steps fall back on used state; clients delete and purge meanwhile; the process may go at any await | a refused start leaves nothing; each session settles; status moves in order; a tool call is attributed to the step that made it; what is durable is the result |
| Coordinator concurrency (`CoordinatorConcurrencyManager.ts`) | two maps, by session and by coordinator | can/start, end, activity, timeout sweep | check and registration are separate calls; the timeout frees a slot whose session runs on | maps agree, the limit holds, every slot comes back |
| Contribution recording (`SessionPublicationService.ts`, migration 007) | `coordination_sessions`, `session_contributions` | ensure and persist the session, upsert steps, record sub-contributions | `SELECT MAX + 1` under concurrent inserts, a bounded retry, lost acknowledgements | dense numbers, nothing twice, nothing overwritten |
| Publications and retention (`SessionPublicationService.ts`, `RetentionSweeperService.ts`, `scripts/republish-session.ts`) | `session_publications` and files | publish, record a failure, sweep | file and row are written one after the other; a second process publishes too | row and file agree, what is kept stays, what is due expires |
| Session content (`SessionContentManager.ts`, `api/content.ts`) | files by session, a cache, a timer per manager | store, clean up, list | every manager cleans up for all sessions, while others write | what is recent stays |
| Agents (`AgentService.ts`, `AgentRepository.ts`, `api/agents.ts`) | map of agents, the table | create, read, update, start, stop, delete, travel, refresh | read, await, write back all of it; memory ahead of or behind the table | an agent is known when it is stored, with the access it is stored with |
| Prompts (`AgentService.ts`) | a stack of prompts per request | prompt with a tool loop, tool calls, messages to other agents | models call tools and each other; sessions end under a prompt | every call is answered in order; every prompt ends |
| Session presence and travel (`SessionAgentManager.ts`, `RealmTravelService.ts`) | an agent's realm, per session | join, travel, clean up | look-up after awaits; session-scoped against global realm | in a session an agent moves by its own travel only |
| Tools reaching outside (`AgentService.ts`, `services/mcp/`) | cached clients, the watched configuration | file and address tools, the batch, the MCP gateway, discovery | open streams, silent servers, files that come and go | every tool answers; a batch tells of every file |
| Language-model clients (`OllamaClient.ts`, `OpenAIClient.ts`) | none | chat, generate, stream, converse with tools | timers, retries, streams without an end | every exchange settles |
| Scenarios and executions (`ScenarioService.ts`, `api/scenarios.ts`, `api/executions.ts`) | scenarios, executions, a second map of records | create, update, execute, update status, rerun, purge | a phase's tasks in parallel, clients change the plan meanwhile, timers of records | results follow the plan; what settled stays settled |
| Realms (`RealmService.ts`, `RealmRepository.ts`) | map, memo of surrogate ids, table | CRUD, servers, resolve, refresh | memory, memo and table around awaits; swallowed failures | listed is stored; a memoised id reaches its own realm |
| Model registry (`ModelRegistryService.ts`) | map and table | add, update, remove, load | statements refused or lost, overlapping changes | memory is the table |
| Tool access, ley lines (`api/toolAccess.ts`, `api/leyLines.ts`) | maps in memory, timers | grant, use, revoke, expire; create, establish, change, delete | limits and clocks; lines becoming bidirectional | an ended token stays ended, limits hold |
| Identity and access (`IdentityService.ts`, `auth/`) | users, groups, roles, grants; two caches of tokens | log in, vouch, synchronise groups, grant, gate | many statements without a transaction; two caches behind each other | reach is what the login and the grants say; a withdrawn token is refused in time |
| Migrations (`MigrationService.ts`, `index.ts`) | `schema_migrations`, the scripts | plan, run, record | dying between a script and its record; images with older scripts | the schema is as recorded |
| Asynchronous results (`AsyncResultManager.ts`) | map of requests, rows | create, progress, complete, fail, load | statements race each other and the loading | memory and table agree, unless raced |
| Ingestion (`DoclingService.ts`) | documents, runs, files | ingest an address or a directory | files, row and scope are written apart; background runs | the catalogue is what is on disk |
| WorldTree queries (`WorldTreeQueryService.ts`, `searchScope.ts`) | the tables others write | lists by page, timelines, search by scope, gaps | answers put together from several statements; realms renamed and replaced between | nothing is missed; a search finds its scope |
| MCP servers (`mcp/SimpleMCPServer.ts`) | background asks, the caller's context | tools, resources, asynchronous asks | calls refused, answers lost, the process ended | a success was done once, as its caller; each ask settles |
| Carried research | none: a function of the session | choose and cut earlier steps' output | budgets and boundaries | never more than the budget |
| Task queues (`TaskQueueManager.ts`) | a queue per agent, counters | submit, start, complete | nothing puts a task in | - |
| Publishers, prompt composition, HTTP plumbing, web interface | none that matters here | translate, render | - | - |

How they interact. A request passes the gates of `auth/` and reaches a
handler, which calls a service. `CoordinationService` looks up agents and
realms, asks the concurrency manager for a slot (orchestrate only), builds the
session's managers, prompts agents through `AgentService` and, per step,
ensures the session's row. A prompted agent's tool calls look up the session's
active step in the shared map, record sub-contributions under it, travel,
search the WorldTree, read and write files, call MCP servers, and message other
agents, which nests a prompt. Each prompt asks a model through one of the two
clients. At the end the service persists session and contributions, has them
published, synthesises and (on one path) persists again. Timers in the same
process free timed-out slots, sweep expired publications and clean up content.
`scripts/republish-session.ts` and the MCP server are processes of their own;
the latter calls the same HTTP routes as everybody else.

The hazards this leaves are in `PROJECT.json`, each at the line where it
bites, with the properties that would catch it. Two of them have none
(`CoordinationService.ts:723`, `RetentionSweeperService.ts:53`), because there the
code does go wrong and says nothing to the contrary; see section 6.

## 2. Modules

| Module | Models |
|---|---|
| `CoordinatorSlots` | `CoordinatorConcurrencyManager.ts` alone |
| `LeasePool` | what that manager promises, without maps and clock (abstract) |
| `Starting` | how sessions come to be: coordinate, plan and orchestrate from the route to the listed session, over the slots of `CoordinatorSlots` |
| `Coordination` | what a session does from there to its durable record, with its own instance of `CoordinatorSlots` |
| `SessionLifecycle` | what a client may rely on about a session's status (abstract) |
| `SubContributions` | `recordSubContribution`, statement by statement |
| `Publications` | `publish`, its failure path and the sweeper, file by file |
| `Content` | step content on disk, the managers' maintenance, the listing route |
| `Agents`, `Prompts` | the agent store; agents prompted, their calls, travel and sessions on top of it |
| `AgentTools`, `LanguageModels` | the tools that reach outside; the clients of the models |
| `Scenarios`, `ExecutionRecords`, `Executions` | the scenario service; the records of the executions route; both as clients see them |
| `Realms`, `Models` | the two maps in memory in front of tables |
| `ToolAccess`, `LeyLines`, `RouteRecords` | tokens; lines; the two in one process that restarts |
| `Identity`, `Access` | logins, caches, groups, grants and gates; these with `RouteRecords` |
| `Migrations`, `AsyncResults`, `Ingestion`, `Server` | the start; results; documents; the process they share |
| `McpServer` | the deployed MCP server and its background asks |
| `WorldTree` | the queries, scopes, searches and knowledge gaps |
| `*_proofs` | the theorems, by component |
| `MC*` | small instances, with their configurations |

JavaScript runs a function from one `await` to the next without
interruption, so an action is one such stretch, and a program counter names
the await at which a call is parked, with the local variables it will use when
it goes on. A statement that may be refused, or take effect and lose its
answer, is an action of its own between two stretches: what it did and what the
caller hears of it are chosen apart. Awaits that can only
take a microtask are not scheduling points of their own. Texts are names.

- **Starting.** `StartCalled` is the body of a request; `ResolveAgentId`,
  `AsksForRoom`, `ResolveResearchRealms` and `JoinSession` are the stages that
  look agents and realms up anew; `TextPlanned`, `ArrowParsed` and their
  successors are planning by text and by diagram, one arrow at a time;
  `CallEnds` answers. Agents are created and deleted between any two stages.
- **Coordination.** `Orchestrate`, `Coordinate`, `CreateCoordinationPlan`,
  `ApproveAndExecutePlan` and `RerunSession` lead to the step loop, of which
  `StepBegins`, `SessionRecordEnsured`, `ToolRecords`, `StepExecuted` and
  `StepStored` are one turn. `StepFails` is its `catch`, which for the three
  callers means: fall back, settle as failed, or an unhandled rejection upon
  which `src/index.ts:74-77` exits the process. `ParticipantAsked` to
  `Integrated` are `executeSimpleCoordination`; `SessionPersisted`,
  `ContributionPersisted`, `Published` and their failures are
  `persistAndPublishSession`. `DeleteSession` and `PurgeSessionResults` may
  come at any await. `Killed` and `MemoryLost` drop what is in memory;
  `Restart` is docker-compose's `restart: unless-stopped`. A tool call records
  in one action here and publishing is one action, because `SubContributions`
  and `Publications` take them apart.
- **SubContributions.** `ReadMax` takes the snapshot; then the row is inserted,
  refused (error 23505, `Conflicts`), or the connection breaks with or without
  it. Anything but 23505 is thrown at once, as in the code.
- **Publications.** Publishing a mode is: render and open (which truncates),
  write, upsert; each may fail or be the last thing a process did. `excused`
  is a history variable: a mode for which an operation failed, a process died,
  or two calls wrote at once.
- **Agents, Prompts.** A client's call holds the agent it read and writes all
  of it back. A strand is one prompt from outside, with the stack of prompts
  nested in it; travel inside a session asks for the session's manager, and
  falls back to the store when there is none. `Optimized` is what a summarising
  agent's token budget leaves of a round's results: all, or the first ones.
  `Waits` is a call that nothing in the code ends: a server's answer, or a
  delegation nested deeper than `MaxDepth`, which is not followed; `WaitEnds` may come.
  A creation checks the id as it was asked for and writes it as a slug
  (`Raw`). `suspect` is a history variable that names agents for which calls
  overlapped, a failure was swallowed, or a statement took effect unnoticed.
- **AgentTools, LanguageModels.** A use is one tool call, an exchange one call
  of a client. Timers are actions; a piece of a stream is one action; the body of
  a plain answer ends (`BodyEnds`) when the server likes; directories are shared with the host, which `HostChangesFiles` stands for.
- **Executions.** `ScenarioService`'s executions and the route's records are
  one id space to clients, which `StatusShown` is.
- **Realms, Models, Content.** Memory, memo and table; memory and table; files,
  the directory's age and the cached contents. An update of a realm changes every
  field of the body in memory (`Changed`) and writes some (`Written`): `servers`
  stands for those, `kind` for the type, which only a creation writes. The roster
  is an array that its routes change in place (`InPlace`), so that rolling back puts
  the changed array back.
- **ToolAccess, LeyLines, Identity.** A token counts its uses against a clock;
  a line has a timer of one second; a login is its sequence of statements,
  any of which may fail, and the two caches of bearer tokens have a clock.
- **Server.** `StartStep` is a start up to serving; `Loading` runs beside it
  from the first moment; requests come when the server serves; every end of
  the process takes all three memories.
- **McpServer.** A tool is a program of calls, each a read, a change or an ask;
  the application refuses it, answers it, or does it and its answer is lost.
- **WorldTree.** `Writing` is what coordination, ingestion and administrators
  do to the tables; `Reading` is a client that pages, by status and by time
  (`Fits`), reads in parts, with a time or without (`Windowed`), or searches.

*Definitions marked "mutant".* Some modules hold, before a definition, a second
one of the same shape marked `mutant`: a slip the code could contain. Nothing
uses it. With the slip in place of the definition TLC finds the property
violated, which shows that the property is not vacuous. `PROJECT.json` pairs
every property of a passing run with one.

## 3. Runs

| Run | Instance | Shows |
|---|---|---|
| `slots` | `MCCoordinatorSlots`: 3 session ids of which the routes give out 2, 2 coordinators (one built in), limit 2, timeout 1, 1 caller, 1 druid and 1 elemental, participants by id and by name or none at all, plans by text and by a diagram with a stranger in it | `ImplementsPool`: the manager is a pool of leases under any order of calls and ticks. `AnswerTellsTheTruth`: a refused start leaves no session behind, an accepted one is listed. `PlanFitsItsSession`: a diagram's steps are dense and name participants, all of whom joined |
| `coordinate` | 1 session, plans of no step, of two and of two with one number, 2 participants, 1 sub-contribution per step, 1 kill, failing statements | `RecordIsTheResult`, `PublishedIsFinal`: what is recorded and published is the result. `RecordedStays`: a recorded contribution stays, but for a step that shares its number |
| `concurrent` | 2 sessions on one slot, all four calls, one-step plan, 1 participant, step failures, 1 kill | `ActiveStepIsCurrent`, `StepsHaveTheirManagers`: the shared maps are right at all times. `EverySessionSettles`, `EverySlotIsFreed`. `ImplementsLifecycle`: the service refines `SessionLifecycle` |
| `worldtree` | 4 recorders of 4 attempts; 2 calls of the process and 1 of the script, an expiring and a permanent mode, days 0-3, 1 fault; 3 sessions of 2 statuses in pages of 1, by status and since the second, up to 3 contributions and a timeline of 2, 2 realms, 1 document, 5 searches | `NumbersDense`, `RecordedOnce`, `NoneGivesUp`; `RowsMatchFiles`, `DueExpires`; `ReadsMissNothing`, `FindsItsScope` |
| `agents` | `MCPrompts`: a druid and a bound elemental that summarises, two rounds each, 2 realms, a session's strand and a request's strand, 1 client with 8 requests, 3 replies, depth 2 | `KnownIsStored`, `EveryCallIsAnswered`, `OwnTravelOnly`, `EveryPromptEnds` |
| `realms` | 1 slug of 2 types, 1 server, 1 resident, 2 clients, 2 surrogates; 2 models, 2 administrators; 2 sessions' content, days 0-2 | `ListedIsStored`, `MemoIsCurrentUnlessRaced`; `RegistryIsTheTable`; `RecentIsKept` |
| `routes` | `MCAccess`: 3 tokens, limits -1, 0 and 2; 2 lines over 3 realms; 2 users, 1 bearer token, 1 group, 2 requests, lifetime 2, clock to 4 | `EndedStaysEnded`; `VouchedForRecently`, `ReachIsTheLogins` |
| `server` | versions 3, 4, 5 and images {3,5} and {3,4,5}, 3 starts; 2 requests of which a start loads 1, 2 statements; 2 sources, 2 ingests | `SchemaIsAsRecorded`, `DurableUnlessRaced`, `CatalogueIsOnDisk` |
| `mcp` | 2 tool calls of 2 users; 1 exchange with 3 retries and 5 iterations; 1 use of a tool, 2 agents, 3 paths, a server of each transport; 1 scenario with 3 bodies, 2 executions; 2 records | `SuccessIsWhole`, `AnsweredForItsAsker`, `EveryAskSettles`; `EveryExchangeSettles`; `EveryToolAnswers`; `ResultsFollowThePlan`, `FinalStaysFinal` |
| `approved_stale` | 1 approved session | a counterexample to `PublishedIsFinal`: an approved plan is published before its synthesis and never after, although the comment says "same as in performCoordination" (`findings`) |
| `served_once` | the instance of `routes` | a counterexample to `ServedOnce`: two lines serve one direction, although a creation compares "if ley line already exists between these realms" |
| `one_number` | 1 coordinated session whose two steps have one number | a counterexample to `RawIsSacred`: the second step's text replaces the first's, although a vision document says "never overwrite" |

Several modules share a run where they meet in no variable. There the next-state
relation moves one of them at a time (`MCWorldTree`, `MCRealms`, `MCMcp`,
`MCAccess`, and the constraint of `MCServer`): since each part's property reads
that part's variables only, interleaving them would multiply states and show
nothing more. (`MCMcp` does so with the service's executions and the route's records
too, whose ids differ by `IdsAssumption`.) What they do share, the process that
restarts, is in `Server` and `RouteRecords`, which are proved without that restriction.

### Bounds, and why they are enough

- *Sessions*: two meet in every map all sessions share. Three only matter to
  the manager (two full coordinators and a newcomer).
- *Plans*: two steps give a loop a first and a second turn, a failure after a
  stored step, and a step to confuse another with; the empty plan is what the
  planner's parser can return, and the plan `<<1, 1>>` what it returns when the
  planner numbers two steps alike: there `RawIsSacred` fails (`one_number`),
  and `RecordedStays` and `RecordIsTheResult` claim what is left. `concurrent` has
  one step: what its sessions meet in, maps and slot, does not tell steps apart.
- *MaxSub* 1 or 0: one sub-contribution is enough to collide with a step's own
  row. Numbering beyond is `SubContributions`, proved for any number. Four
  attempts for four recorders are the code's five for five.
- *Kills* at most 1: a second kill meets a process without memory of the first,
  which is an initial state with rows.
- *Ticks*: a timeout of 1 separates "active just now", "idle" and "timed out".
- *Days* to 3 with a retention of 1: a publication can expire, be made anew and
  expire again. Content expires after one day; two days separate a stale
  directory from a fresh one under one maintenance.
- *One fault* in publications: a property excuses the mode a fault hit, so the
  other mode tests the rest.
- *Two clients, administrators, ingests or requests*: the races the code has are
  between two calls on one object. `MCRealms` further keeps maintenance,
  writers and readers of content to three at once (`ThreeAtOnce`).
- *Surrogates* 2: a realm is deleted and created again once, which is what
  makes a memo stale.
- *Pages of one row, three sessions*: a row before the page, the page, a row
  after it. A `window` stands for the filters by time, coordinator and realm, which
  a row keeps; the status is what changes. Sessions have times of their own: among
  equal ones the query leaves the order open (`WorldTreeQueryService.ts:349`), which is not
  modelled. Scopings of at most two references hold every pair.
- *Prompts* nest to depth 2: the code does not bound delegation. A message sent from
  there is a wait whose end is open (`Waits`), so no property rests on models
  stopping at that depth. `Simultaneous` lets requests overlap prompts
  only where a prompt holds what it read, and one strand nest while the other is not
  at work: the store's own interleavings need no prompt, and are all explored
  while none runs.
- *One slug* of realms: calls on two realms meet in nothing but refreshes. Once a realm
  is `suspect` nothing is claimed of it, and calls on it come one at a time (`OneAfterHarm`).
- *LoadLimit* 1 with two requests: one row is beyond the limit. Of two requests one
  goes through all a result may be, alone; the other is there to take its place (`OneChanges`).
- *TimelineLimit* 2 with up to three contributions: a timeline may be short, full, or cut off.
- *Limits* -1 and 0: both are taken as they come; 0 is no limit, -1 one use.
- *MCAccess*: `RootIsAlone` (the administrator differs from others by a grant of a
  role, which nothing else of the other's login reads) and `ClockAlone` (groups
  and grants do not depend on the clock).
- *MCMcp*: one call tries every tool while the other asks (`Callers`), a tool
  has the process to itself (`ToolsAlone`): programs of calls share nothing
  but the caller's context, which asks overlap in.

`CHECK_DEADLOCK FALSE` everywhere: ids, days and calls run out, and a server
without requests rightly stands still.

### Fairness

- `Advance(s)` of each session, weakly: once a session's function is parked at an
  await, the promise settles. Model calls time out and give up
  (`EveryExchangeSettles`), statements answer or fail, and Node resumes what is
  ready. Only that *something* happens to a parked function is assumed, never
  which way. Nothing is assumed of clients: a plan may wait for its approval for ever.
- `TimePasses` and `SlotsCleanedUp`: the clock and the manager's five-minute
  interval. `Restart`: docker-compose's restart policy.
- `Sweeping`: the sweeper's interval and its loop over files. A tick whose
  query fails changes nothing; what is assumed is that not every later tick fails.
- `StrandStep(p)` of each prompt: models, the tools with timers and the database
  answer each call, well or badly. It does not contain `WaitEnds`: a server's
  body and a delegation that goes ever deeper need not end, and `EveryPromptEnds`
  ends in a prompt that is over or in one that waits for such a call.
- `Processing(c)` of a background ask: axios gives every call up after 30 s.
- Language models: timers go off, an answer whose headers came ends or
  breaks (the runtime gives up on a silent body), tools settle. Nothing is assumed
  of a model: it may never answer.
- Agent tools: the file system answers, the runtime gives up on an address that
  sends no headers, the stream's 60 s timer goes off. Nothing makes a server end
  its body or its stream, nor the prompt for a file of a batch end; `EveryToolAnswers`
  excuses a use at these two places (`Unbounded`), `reading` and `processing`.

`EverySessionSettles` excludes orchestrated sessions, of which it is false
(section 6). `ToolRecords` leaves a function where it is, but `MaxSub` bounds it,
in keeping with the bounded tool loop, so it cannot keep a step from ending.

## 4. Proofs

All theorems hold for every value of the constants that the modules' named
assumptions allow; sets are not assumed to be finite except where said. Each
follows from an inductive invariant, of which the property is a conjunct or a
consequence; what the rest of it is for is said here.

`CoordinatorSlots_proofs`:

- `SlotsTypeOK`, `SlotsIndexConsistent`, `SlotsWithinLimit`: the inductive
  invariant is `IInv == TypeOK /\ IndexConsistent /\ WithinLimit`. `WithinLimit`
  is not inductive alone: `endSession` removes from the set of the coordinator
  it looks up in the *other* map, so a disagreement of the maps would let a set
  grow past the limit. `EndSessionsPreserves` is proved once, for any set of
  sessions, and serves `endSession`, the sweep and the sweep inside
  `canStartSession`.
- `SlotsImplementPool`: `Spec => Pool!Spec` under the mapping of a
  coordinator's lease holders to its set. A start is a grant that may take back
  timed-out leases in the same step; ends are revocations; the rest stutters.
- `StartingAnswersTruthfully` (`AnswerTellsTheTruth`), `PlansFitTheirSessions`
  (`PlanFitsItsSession`), of `StartingSpec`: the routes and the manager, which also
  goes its own ways. `StartingInv` says that ids are given out once
  (`OwnSessions`), so that no two calls hold the same session and nobody but its
  call lists it; and of each call, by its stage, whether its session is listed yet
  (`ListedSoFar`), that the participants passed by id have joined or were missing
  (`JoinedSoFar`), and that the plan parsed so far is dense and within those the
  diagram was mapped to, who are participants (`PlannedSoFar`). The properties
  speak of answered calls and listed sessions only: what they need has to be
  carried there from stages where neither is true yet.
- `StartingDrivesSlots`: `StartingSpec => Spec`. The routes register an id that is
  not active, for a coordinator there is, after asking for room, and otherwise
  leave the slots alone; so the four theorems above hold under the routes, too.

`Coordination_proofs`, over all of `Coordination` with its kills:

- `EverySessionFits`: `IInv == Placed /\ Listed /\ ActiveStepIsCurrent`. `Placed`
  says that each session's object fits the await its function is parked at:
  which statuses, entry points and managers it may have there (`Place`), that
  the outputs and the result are those of the turns taken (`Books`), and how far
  the loop is (`Progress`). `Listed` says that an id not yet issued has no
  object. One lemma per action shows where it leaves its session, one that it
  leaves the others alone.
- `ActiveSteps`, `ManagersInPlace`: `ActiveStepIsCurrent` and
  `StepsHaveTheirManagers`. The clean-ups of a fallback and of an end take the managers
  away, so that they are there in a step rests on `Place`: no path leads from
  those ends back into the loop.
- `TheServiceFollowsTheLifecycle`: `Spec` implements `SessionLifecycle`'s
  initial states and steps: with the invariant, each action is a step of the
  abstract session or leaves its status alone. The fairness has no counterpart there.
- `TheRecordIsTheResult` (`RecordIsTheResult`) and `WhatIsRecordedStays`
  (`RecordedStays`), for any plans. The numbers of steps come out of the model's
  answer (`CoordinationService.ts:1159`) and nothing compares them; so the record is
  a part of the result, empty only if that is, and all of it if each step has a number
  of its own (`NumbersApart`), and only a row whose number another executed step
  has is ever overwritten. `RecordInv` says that nothing is recorded before
  persisting begins; that what is still to be written under a number of its own
  (`Alone`) meets in the table only a row that already says the same (`Agrees`,
  `SameWrites`); and that rows and what is to be written are together such a record
  (`Records`). The second persisting of a rerun or a synthesis therefore
  writes what is there.
- `PublicationsAreFinal` (`PublishedIsFinal`), where `EntryPoints` lacks
  `"approve"`; with it the property is false, which is what `approved_stale`
  shows. `UnapprovedPublicationsAreFinal` says with all entry points that of every other
  session what is published is final. `FinalInv`: nothing is published early,
  and the content handed to persisting is the result's at that moment and still
  is at the end.

`WorldTree_proofs`:

- `RecordingDense`, `RecordingOnce`, `RecordingNoneGivesUp`. The invariant adds
  `OwnersAreOver` (a row's owner has ended, so no running call owns one) and
  `Progress` (a call parked in the loop has failed at most as often as there
  are rows; one that has read `n` has failed at most `n - 1` times). A conflict
  means that another row came in between, so failures are paid for by rows of
  others, of which there are fewer than calls: with no more calls than
  `maxRetries` nobody gives up. Without `Progress` the claim is not inductive.
  `RecordersAssumption` (finitely many calls) is needed for counting.
- `RowsAndFilesAgree` (`RowsMatchFiles`): for a mode that is not excused at most
  one call is at work (`OneAtATime`), and its file is as far as that call is;
  with none at work, row and file agree. The clause on permanent modes holds
  of excused modes too, and is kept apart (`Retained`).
- `PagesMissNothing` (`ReadsMissNothing`): what a reader has not seen and still
  matches has a place among the matching rows (`Rank`) past its offset, also when a
  session began in front of the page, unless a row before the reader's place stopped
  matching (`shifted`); and an agent's summary of all times was counted no later than
  its timeline, which is as long or full (`TimelineLimit`). Activity of a
  time (`windowed`) compares two different things and is excepted. For any rows,
  statuses, filters and page sizes.
- `SearchesFindTheirScope` (`FindsItsScope`): references stored are canonical, so
  a realm that stays is always meant by its slug; a scope on its way is
  canonical once it was resolved, and a search once it was.

`Prompts_proofs`, over all of `Prompts`, which contains the store of `Agents`:

- `CallsAreAnswered` (`EveryCallIsAnswered`): `StackInv` says of every prompt of a
  stack that the calls of its reply before the one at hand have their results,
  which is all of them when the model is asked again, and that every prompt but
  the innermost waits for the one it nested. How many results there are is the
  number of calls that parse (`Parsed`), so that the lemmas are about cardinalities.
  What the model is then told (`Told`) is all of it, or, of a summarising agent,
  its first part: the budget cuts off the end of the text.
- `TravelIsOwn` (`OwnTravelOnly`): an action property, from the list of ways in
  which what a session knows of its agents changes (`StatesChange`): it learns
  where an agent is before it is listed, forgets it when it is cleaned up, and in
  between has it changed by an arrival alone.
- `KnownAgentsAreStored` (`KnownIsStored`): `StoreInv` says that of two calls on
  one agent neither takes itself to be alone (`Apart`), what a call that is alone
  finds at each of its awaits, in memory, in the table and in what it read
  (`AloneFits`), for each of what its statement did and what it was told of it, and that memory and table agree on an agent nobody is writing
  and nothing went wrong with (`Quiet`). A load at the start is a call on every agent.
  `CallMoves` shows once what a step of one call does to the others; the
  prompts' saves and travels are instances of it like the requests.

`Access_proofs`:

- `BearersAreVouchedFor` (`VouchedForRecently`): `CachesSound` bounds what each
  cache may still let in by the moment the provider was asked, the claims by
  one lifetime and the principals, filled from claims, by less than two;
  `StrandsSound` carries the same through a login's statements.
- `ReachFollowsTheLogins` (`ReachIsTheLogins`): `MembershipsSound`, that of a user
  whose logins did not overlap or break off at most one is being synchronised,
  and that the table with what it has left to insert is what it reported.
- `TokensWithinLimit`, for any whole limits, as a request may name them; one below 1
  allows one use, since a limit is compared after a use was counted.
  `ToolInv == ToolTypeOK /\ UsageWithinLimit`. Every route
  stores a map of records (`StoresSound`), and the record a use leaves behind is
  within its limit because the use that reaches the limit ends the token.
- `TokensStayEnded`: an action property, from `ToolInv`.

`Server_proofs`, over all of `Server` with its restarts:

- `ServerSchemaIsAsRecorded`: `MigrationsInv` adds `PlanSound`, that what is planned
  is not recorded as applied and, with what is, makes up the image. What a script did is counted
  (`ran`), and so is each record of it that was missed.
- `ServerDurableUnlessRaced`: `AsyncInv` says, for every request not `raced`, that a
  statement in flight carries what memory holds (`StatementsCurrent`), that
  without one the row does (`ResultsStored`), and that the rows selected for
  loading are those still in the table (`SelectionCurrent`). `LoadingSound` ties
  the selection to the state of the manager: it is of rows that have not expired, and
  only `LoadLimit` newer ones keep such a row out of it. A row that was beyond the limit stays
  beyond it, since a row only gets more newer ones (`LoadableBefore`).
- `ServerCatalogueIsOnDisk` (`CatalogueIsOnDisk`): `IngestInv` adds `IdsApart`, that
  no two sources, catalogued or being stored, share an id, so that no ingest
  writes where another's document lies, and `AloneWrites`, that an ingest that is
  alone with its source finds on disk what it wrote.

`Caches_proofs`:

- `TheRegistryIsTheTable` (`RegistryIsTheTable`): `ModelsInv` says of the one
  change in flight on a model how memory and table differ at its await: not yet,
  or by exactly that change. A change that took effect though its answer was lost, or
  that overlapped another, makes the model `uncertain`, and the next one made and
  answered alone makes it certain again: it writes whole what it then lists.
- `WhatIsListedIsStored` (`ListedIsStored`), `TheMemoIsCurrent`
  (`MemoIsCurrentUnlessRaced`): `RealmsInv` says that calls that clash know it
  (`Apart`: neither is `alone`), what a call that is alone finds when it goes on
  (`AloneFits`), and that a realm nobody works on is listed as stored
  (`QuietIsListed`), in all that updates write, and in the type unless it is `retyped`
  (`SameBody`). A failed update is rolled back to what the call read, except
  where it had changed that itself. `MemoFits` adds that a row about to go is no longer memoised.
- `RecentContentIsKept` (`RecentIsKept`): `ContentInv` says that a directory being
  removed was not touched within the day, unless it was found stale and then
  written to, and that a directory is touched no earlier than what is in it.

`Clients_proofs`:

- `ResultsFollowPlans` (`ResultsFollowThePlan`): `ExecInv` says that an execution's
  results are, in order, those of the phases before the current one, each
  answered for as the plan asks, and then those of the current one so far; one
  by one or, in a parallel phase, none until all settled.
- `WhatIsFinalStays` (`FinalStaysFinal`): an action property, over both the
  service's executions and the route's records.
- `ToolsKeepTheirWord` (`SuccessIsWhole`): `McpInv` says of a call on its way that
  what was done for it and what is left of its program are together what the
  tool promises, and that no promised step is one whose failure is tolerated or
  that may be skipped; a program that misread an answer has only its error left.
- `AsksAreAnsweredForTheirAskers` (`AnsweredForItsAsker`): `WorkSound`, that the
  agent is run at most once, after the ask was recorded, before it is completed,
  and as the one who asked.

*Assumptions.* Most say which sets the constants come from. Those that say more:

| Assumption | Why the code justifies it |
|---|---|
| `IdsAssumption` (`Executions`): ids of the service's executions and of the route's records differ | `exec_…` (`ScenarioService.ts:1515`) against `execution-…` and `test-execution-…` (`executions.ts:229`, `:110`, `:175`) |
| `RefsAssumption` (`WorldTree`): a surrogate of a realm that stays is the one it has | a column default gives each row a surrogate of its own, and no code changes it |
| `GlobalAssumption`, `NamesAssumption`: the names of what is no realm, no call and no mode are free | they are the model's own (`Publications`), or the discriminator of a reference (`WorldTree`) |
| `PromptsAssumption`: an agent has at least one round | without one the model is not asked and the prompt is the answer (section 6, *Agents*), which is not modelled |
| `SlugsAssumption`: there is a slug | without one there is nothing to list |
| `RecordersAssumption`, and the sources in `IngestAssumption`: finite | calls and sources there have been |

*Only model-checked.* Every safety invariant and every action property that a run
checks is stated by a theorem. What is left is liveness under fairness, which
with `ENABLED` is beyond this prover: `EverySessionSettles`, `EverySlotIsFreed`,
`EveryPromptEnds`, `EveryAskSettles`, `EveryExchangeSettles`, `EveryToolAnswers`
and `DueExpires`, and with it all of `AgentTools` and `LanguageModels`, whose
properties are of that kind.

## 5. What holds, in a paragraph

The core of the service stands up to interleaving better than its style
suggests: because handlers run from await to await, its maps of sessions, steps
and managers stay in agreement through deletes, purges, fallbacks and failing
statements, and every coordinated session settles. Numbering of
sub-contributions, the slots, tokens and the recorded schema are right
for any number of actors. Where memory stands in front of a table, the two agree
except for what overlapped, what was done without its answer, and the one field
nobody writes; the properties name those exceptions
(`...UnlessRaced`, and the history variables), and each is described next.

## 6. Known, and not checked

Where the code goes wrong, or where it does something a reader would not expect. Kept
as runs are `approved_stale`, `served_once` and `one_number`; the others were met while modelling, by
counterexamples or by reading.

*Coordination.*
- Planning that throws leaves an orchestrated session `in_progress` for good
  (`CoordinationService.ts:723`), although deleting it answers that one should
  wait for it to complete or fail.
- A failing step of an orchestrated session is rethrown and nobody catches it
  (`:726`): the process exits (`index.ts:74-77`), against the README's "fully
  isolated from other sessions".
- Purging a completed session during its synthesis makes it failed (`:2583-2588`).
- Two steps given one number by the planner share one row, and the second
  overwrites the first (`:1159`, `SessionPublicationService.ts:145`; `one_number`).
- The sweeper, between expiring a row and unlinking its file, removes the file
  that a republish has just written (`RetentionSweeperService.ts:53`).
- A row stays `in_progress` after a kill and after the failure of an approved
  plan: nothing at start-up or on that path reconciles it.
- Sub-contributions of a step abandoned for the fallback share their step number
  with the row of an answering participant and are published under it.
- Only orchestrate asks the concurrency manager; coordinate, approve and rerun do not.
- The republish script has no integrated content (PostgreSQL does not hold it)
  and takes the highest-numbered step's instead. `recordFailedPublication`
  leaves an older artifact's path and expiry on a failed row, which the sweeper
  never considers. `timeoutMinutes` is stored and not enforced.
- Starting: changing or deleting a coordinator always answers 404; nobody joins a
  rerun session's managers, and a refused rerun answers 500; orchestrations do not
  resolve names; a plan by a model naming strangers is only warned about; diagrams may
  use all realms whatever the scope.

*Agents.*
- PUT answers 200 though the update failed and DELETE 204 though the delete
  failed; travel and interact answer `success: true` when denied. Start and stop
  change memory alone, and a start writes back what it read before probing the
  model. PUT and travel write back access and status they read before awaits, over
  grants changed meanwhile (`AgentService.ts:3023`).
- Session-scoped travel moves the agent in the store once the session is no longer
  listed, and throws after its cleanup. Coordinators who do not take part cannot
  travel in the session; `get_current_realm` reads the store only.
- A creation checks the id it was asked for and writes its slug (`api/agents.ts:366`,
  `AgentService.ts:300`), so that it may overwrite an agent; failing, it drops that agent
  from memory. A creation or deletion that took effect with its answer lost leaves a
  stored agent unknown, or a known one unstored (`AgentService.ts:598`, `:2117`).
- The results of a round are cut off at the agent's token budget, and the model is not told
  which calls' outcomes went (`AgentService.ts:1180-1208`).
- Delegation has no depth limit (`AgentService.ts:2635`): agents that keep messaging one
  another hold the first prompt for good. `maxIterations` 0 answers with the prompt; a
  `slidingWindowSize` of 0 keeps everything; a reply of malformed calls only is final.
- A cached MCP client keeps its address and token when the configuration is reloaded,
  while permission is read from the new one. A gateway's failure counts as a
  successful tool call. Two inputs of a batch may be written under one output name and
  both reported as success. A configuration that cannot be loaded at the start is
  never watched. `fetch_url` and the HTTP client have no timer (`AgentService.ts:3754`,
  `HttpMCPClient.ts:63`): a body that trickles holds the tool, and the prompt, as long
  as it does; the stream client's timer starts after the headers (`SSEMCPClient.ts:76`).
- Language models: streamed lines split across chunks are dropped; client errors are
  retried too; the body is read outside the timer. Streams and `executeWithTools` have
  no callers.

*Stores.*
- Realms: a PUT of a field no update writes, as the type, is answered and listed and gone
  after a restart (`RealmService.ts:303-339`), which is what the comment at `:353` says must
  not be; a roster change that fails stays in memory, because the routes change the array
  that the rollback puts back (`api/realms.ts:147`, `:181`); an update or delete that
  took effect with its answer lost is taken back in memory alone; a failed update that rolls back over a concurrent one, or revives a realm
  deleted meanwhile; a memo filled after an await (`RealmService.ts:237`) may go
  stale, although the comment above it counts on entries being dropped; failures of create and refresh are swallowed.
- Models: concurrent PUTs of one model merge from one memory, and the later loses the
  earlier's fields; several may be default; a change made with its answer lost is in the
  table only, until the next change of the model or a restart.
- Content: timers of simple and failed sessions are never stopped, nor is the queue
  manager's interval; rewriting a file does not make its directory younger; nothing writes
  where the session, search and download routes look.
- Scenarios: `executeTask` never rejects, so a failing task ends its phase and not the
  later ones; executions of the service cannot be cancelled (404).
- Routes: negative limits are accepted and allow one use; a restart grants revoked default tokens again;
  a ley line's PUT sets the status before it validates the configuration; A to B one
  way and then B to A both ways are two lines that serve A to B, and so does a PUT make
  them (`leyLines.ts:304`, `:458`; `served_once`); a line PUT to `connecting` stays so.
- Identity: memberships are deleted and inserted outside a transaction
  (`IdentityService.ts:167`); the administrator's role is never withdrawn by a login;
  a session's roles live for its eight hours; `users.status` is never consulted.
- Asynchronous results load while migrations run; late updates reopen a settled result;
  the cleanup has no caller; a start leaves rows beyond the newest 1000 and
  expired ones in the table, unlisted, until they are deleted.
- Ingestion: a kill leaves a run `running` for ever, and so does a failure to record one;
  two first ingests of one source get two ids; a document whose scope failed is
  catalogued and reported as failed; chunks are best effort.
- Migrations: two processes may migrate at once; a record whose answer is lost makes
  its script run again.

*WorldTree and MCP.*
- A session may show as completed with part of its contributions; parallel counts may
  disagree; lists by status and gap lists skip rows when one before the offset
  stops matching between pages (`WorldTreeQueryService.ts:346`); an agent's activity of a time is a
  timeline of that time, of at most 100, with a summary of all times; a realm deleted
  between assertion and write leaves an orphan scope; the REST search without realms
  is unscoped.
- `ask_agent` turning asynchronous by itself is always refused with 400; a failed
  report of a failed ask ends the MCP process (`SimpleMCPServer.ts:3166`); a completion
  whose answer is lost becomes a failure, and an ask whose creation's answer is lost
  stays pending; reassigning a realm cannot work; `agent_start` only reads;
  `execution_status` asks a route that does not exist; tools of several calls leave
  the earlier ones' effects behind.

## 7. Not modelled, and why

- *Task queues*: outside of the tests nothing calls `assignTask` or `submitTask`, so the
  queues that sessions make are always empty.
- *Redis storage* (`AgentStorage.ts`), `MCPServerManager`, `MCPCompliantServer` and
  `LightweightMCPServer`: nothing the containers run uses them. `KnowledgeService`, the
  bindings routes and the outcomes route keep nothing. `PolicyEngine`'s only subject is
  the fixed administrator `system`.
- *Publishers, prompt composition, the text of carried research, parsing of tool calls,
  narrowing of history*: functions from text to text. The plan parsers are in
  `Starting`, as what they keep of a plan.
- *Ranking, embeddings, document conversion, model providers, Keycloak and the OIDC
  handshake*: external; their answers, errors and silences are outcomes of the actions
  that await them.
- *Realm namespaces, statistics, ley-line pings, MCP sessions*: nothing
  modelled reads them. *Expiry of results after 24 hours* has no caller.
- *The server's restart* is in `Coordination`, `Server`, `Realms`, `Models`, `RouteRecords`
  and `Identity`; not in `Agents`, `Prompts` and `Executions`, whose restart is a fresh start
  from the table or from nothing.
- *Web interface and `build/`*: presentation, and generated from an earlier state.

## 8. Running

    tlc -config MCConcurrent.cfg MCCoordination.tla
    tlapm CoordinatorSlots_proofs.tla

`PROJECT.json` names the module and configuration of each run.
