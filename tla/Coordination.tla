---------------------------- MODULE Coordination ----------------------------
(***************************************************************************)
(* CoordinationService: the life of a coordination session, from the four  *)
(* calls that start one (orchestrate, coordinate, approve a plan, rerun)   *)
(* to its durable record.                                                  *)
(*                                                                         *)
(* The service is one JavaScript process: a handler runs without           *)
(* interruption from one await to the next.  Every action below is one     *)
(* such stretch, and flow[s] says at which await the function that drives  *)
(* session s is parked and which local variables it holds there.  A flow   *)
(* keeps its session object when the map forgets it, so session is total   *)
(* and sessions is the set of keys of the service's Map.                   *)
(*                                                                         *)
(* Texts are abstracted: a contribution is named by the step or            *)
(* participant it came from, a result by the way it was composed.          *)
(* Requests carry no publishTo key (the legacy path by which results go to *)
(* a shared file), and language-model answers are not empty.               *)
(***************************************************************************)
EXTENDS Integers, Sequences, FiniteSetsExt

CONSTANTS
    Sessions,          \* session ids; uuid makes each one new
    Coordinators,
    MaxConcurrent,     \* of the concurrency manager
    SessionTimeout,    \* of the concurrency manager, in ticks
    EntryPoints,       \* the calls clients make: a subset of AllEntryPoints
    Plans,             \* the plans a coordinator may come up with: sequences of step numbers
    NumParticipants,   \* participants of every session
    MaxSub,            \* bound: sub-contributions recorded per step number
    MaxStops,          \* bound: how often the process is killed from outside
    DatabaseMayFail    \* whether statements of the database may be rejected

AllEntryPoints == {"orchestrate", "coordinate", "approve", "rerun"}

ASSUME EntryPointsAssumption == EntryPoints \subseteq AllEntryPoints
ASSUME PlansAssumption == Plans \subseteq Seq(Nat \ {0})
ASSUME BoundsAssumption ==
    /\ {NumParticipants, MaxSub, MaxStops} \subseteq Nat
    /\ DatabaseMayFail \in BOOLEAN

VARIABLES
    activeSessions, sessionsByCoordinator,  \* of the concurrency manager
    sessions,       \* the ids in the service's map
    session,        \* the session objects
    flow,           \* where each session's asynchronous function is parked
    activeSteps,    \* session id -> step number whose tool calls may record
    row,            \* coordination_sessions.status, "none" without a row
    contributions,  \* session_contributions by (step_number, sub_step_number)
    publication,    \* session_publications: status and the content it carries
    issued,         \* ids handed out so far (uuid)
    lostWrites,     \* history: sessions some database statement failed for
    up,             \* the process runs
    stops           \* history: kills from outside so far

memory == <<sessions, session, flow, activeSteps, issued>>
database == <<row, contributions, publication, lostWrites>>
process == <<up, stops>>
slots == <<activeSessions, sessionsByCoordinator>>
vars == <<slots, memory, database, process>>

Slots == INSTANCE CoordinatorSlots

------------------------------------------------------------------------------
(***************************************************************************)
(* Data                                                                    *)
(***************************************************************************)

Steps == UNION {{p[i] : i \in DOMAIN p} : p \in Plans}
MaxPlan == CHOOSE n \in 0 .. 9 : \A p \in Plans : Len(p) <= n /\ \E q \in Plans : Len(q) = n

\* Who a contribution came from: a plan step or a participant asked directly.
Author == ({"step"} \X (1 .. MaxPlan)) \union ({"participant"} \X (1 .. NumParticipants))
NoAuthor == <<"none", 0>>

\* The key of session_contributions; sub-step 0 is the step or participant itself.
StepNumbers == Steps \union (1 .. NumParticipants)
Positions == StepNumbers \X (0 .. MaxSub)

NoResult == [present |-> FALSE, contributions |-> <<>>, content |-> "none", publishedTo |-> FALSE]

\* extractCreativeContent, integrateStepOutputs and the rest of a fresh finalResult.
Result(authors, content) ==
    [present |-> TRUE, contributions |-> authors, content |-> content, publishedTo |-> FALSE]

NewSession(kind, c, status, plan) ==
    [kind |-> kind, coordinatorId |-> c, status |-> status, plan |-> plan,
     executed |-> FALSE, finalResult |-> NoResult, stepOutputs |-> <<>>,
     managers |-> {"agents", "content"}]

NoSession == [NewSession("none", "none", "none", <<>>) EXCEPT !.managers = {}]

\* i: the step or participant a loop is at; answers: what participants gave so
\* far; todo: contributions still to write; snap: the SessionRecord being
\* persisted; republish: this is performCoordination's second persist.
Parked(pc) ==
    [pc |-> pc, i |-> 1, answers |-> <<>>, todo |-> <<>>,
     snap |-> [status |-> "none", content |-> "none"], republish |-> FALSE]

Over == {"idle", "ended", "lost"}
InStep == {"ensuring", "executing", "storing"}

Init ==
    /\ Slots!Init
    /\ sessions = {}
    /\ session = [s \in Sessions |-> NoSession]
    /\ flow = [s \in Sessions |-> Parked("idle")]
    /\ activeSteps = [s \in {} |-> 0]
    /\ row = [s \in Sessions |-> "none"]
    /\ contributions = [s \in Sessions |-> [p \in Positions |-> NoAuthor]]
    /\ publication = [s \in Sessions |-> [status |-> "none", content |-> "none"]]
    /\ issued = {}
    /\ lostWrites = {}
    /\ up = TRUE
    /\ stops = 0

\* Session s becomes object o and its function parks at f.
Becomes(s, o, f) ==
    /\ session' = [session EXCEPT ![s] = o]
    /\ flow' = [flow EXCEPT ![s] = f]

Parks(s, f) ==
    /\ flow' = [flow EXCEPT ![s] = f]
    /\ UNCHANGED session

Ends(s, o) == Becomes(s, o, Parked("ended"))

At(s, pc) == up /\ flow[s].pc = pc

Cleanup(o) == [o EXCEPT !.managers = @ \ {"agents"}]
CleanupAndShutdown(o) == [o EXCEPT !.managers = {}]
Fail(o) == Cleanup([o EXCEPT !.status = "failed"])

------------------------------------------------------------------------------
(***************************************************************************)
(* Persisting: collectSessionContributions and persistAndPublishSession up *)
(* to its first await.                                                     *)
(***************************************************************************)

CollectAnyOutputs(o) ==    \* mutant: outputs of an abandoned plan count too
    IF o.stepOutputs # <<>>
    THEN [j \in DOMAIN o.stepOutputs |->
             [step |-> o.plan[o.stepOutputs[j]], author |-> <<"step", o.stepOutputs[j]>>]]
    ELSE [j \in DOMAIN o.finalResult.contributions |->
             [step |-> j, author |-> o.finalResult.contributions[j]]]

\* Completed plan steps first, otherwise what finalResult lists, numbered from
\* one.  participantTasks stays empty on every path that reaches this point.
Collect(o) ==
    IF o.executed /\ o.stepOutputs # <<>>
    THEN [j \in DOMAIN o.stepOutputs |->
             [step |-> o.plan[o.stepOutputs[j]], author |-> <<"step", o.stepOutputs[j]>>]]
    ELSE [j \in DOMAIN o.finalResult.contributions |->
             [step |-> j, author |-> o.finalResult.contributions[j]]]

Persisting(o, republish) ==
    [Parked("persistSession") EXCEPT
        !.todo = Collect(o),
        !.snap = [status |-> o.status, content |-> o.finalResult.content],
        !.republish = republish]

ConcludeAtOnce(s, o) ==    \* mutant: nothing is published after the synthesis
    Ends(s, CleanupAndShutdown([o EXCEPT !.status = "completed"]))

\* After synthesis: performCoordination persists again, executeApprovedPlan
\* only cleans up.
Conclude(s, o) ==
    LET done == [o EXCEPT !.status = "completed"]
    IN  IF o.kind = "coordinate"
        THEN Becomes(s, done, Persisting(done, TRUE))
        ELSE Ends(s, CleanupAndShutdown(done))

ReviewInProgress(s, o) ==    \* mutant: the session runs again while it is reviewed
    \/ /\ o.finalResult.contributions # <<>>
       /\ Becomes(s, [o EXCEPT !.status = "in_progress"], Parked("synthesizing"))
    \/ Conclude(s, o)

\* The content integration performCoordination and executeApprovedPlan run
\* once there is a result.  Whether it consults the language model depends on
\* the texts.
Review(s, o) ==
    \/ /\ o.finalResult.contributions # <<>>
       /\ Becomes(s, o, Parked("synthesizing"))
    \/ Conclude(s, o)

------------------------------------------------------------------------------
(***************************************************************************)
(* Entry points                                                            *)
(***************************************************************************)

Fresh(s) == up /\ s \notin issued

\* startOrchestatedCoordination up to its first await after registration.
Orchestrate(s, c) ==
    /\ "orchestrate" \in EntryPoints
    /\ Fresh(s)
    /\ Slots!StartSession(s, c)
    /\ issued' = issued \union {s}
    /\ Becomes(s, NewSession("orchestrate", c, "in_progress", <<>>), Parked("joining"))
    /\ UNCHANGED <<sessions, activeSteps, database, process>>

OrchestrateRefused(c) ==
    /\ up
    /\ "orchestrate" \in EntryPoints
    /\ Slots!RefuseSession(c)
    /\ UNCHANGED <<memory, database, process>>

\* Participants joined: the session is listed and planning starts.
Joined(s) ==
    /\ At(s, "joining")
    /\ sessions' = sessions \union {s}
    /\ Parks(s, Parked("planning"))
    /\ UNCHANGED <<slots, activeSteps, issued, database, process>>

\* resolveResearchRealms throws: the caller gets the error.
JoinFails(s) ==
    /\ At(s, "joining")
    /\ Parks(s, Parked("ended"))
    /\ UNCHANGED <<slots, sessions, activeSteps, issued, database, process>>

\* startCoordination from sessions.set on, and performCoordination to its
\* first await.
Coordinate(s, c) ==
    /\ "coordinate" \in EntryPoints
    /\ Fresh(s)
    /\ sessions' = sessions \union {s}
    /\ issued' = issued \union {s}
    /\ Becomes(s, NewSession("coordinate", c, "pending", <<>>), Parked("resolving"))
    /\ UNCHANGED <<slots, activeSteps, database, process>>

CoordinatorResolved(s) ==
    /\ At(s, "resolving")
    /\ Becomes(s, [session[s] EXCEPT !.status = "in_progress"], Parked("planning"))
    /\ UNCHANGED <<slots, sessions, activeSteps, issued, database, process>>

CoordinatorMissing(s) ==
    /\ At(s, "resolving")
    /\ Ends(s, Fail(session[s]))
    /\ UNCHANGED <<slots, sessions, activeSteps, issued, database, process>>

\* createCoordinationPlan once the plan is there; when planning fails it throws
\* before the session is listed and nothing remains.
CreateCoordinationPlan(s, c, plan) ==
    /\ "approve" \in EntryPoints
    /\ Fresh(s)
    /\ sessions' = sessions \union {s}
    /\ issued' = issued \union {s}
    /\ Becomes(s, NewSession("approve", c, "pending", plan), Parked("idle"))
    /\ UNCHANGED <<slots, activeSteps, database, process>>

ApproveAgain(s) ==    \* mutant: the status is not asked
    /\ up
    /\ s \in sessions
    /\ session[s].kind = "approve"
    /\ Becomes(s, [session[s] EXCEPT !.status = "in_progress"], Parked("stepping"))
    /\ UNCHANGED <<slots, sessions, activeSteps, issued, database, process>>

\* approveAndExecutePlan: executeApprovedPlan marks the session before its
\* first await.
ApproveAndExecutePlan(s) ==
    /\ up
    /\ s \in sessions
    /\ session[s].status = "pending"
    /\ session[s].kind = "approve"
    /\ Becomes(s, [session[s] EXCEPT !.status = "in_progress"], Parked("stepping"))
    /\ UNCHANGED <<slots, sessions, activeSteps, issued, database, process>>

\* rerunSession: a new session that starts with the simple coordination.
RerunSession(old, s) ==
    /\ "rerun" \in EntryPoints
    /\ Fresh(s)
    /\ old \in sessions
    /\ session[old].status \in {"completed", "failed"}
    /\ sessions' = sessions \union {s}
    /\ issued' = issued \union {s}
    /\ Becomes(s, NewSession("rerun", session[old].coordinatorId, "in_progress", <<>>),
               Parked("asking"))
    /\ UNCHANGED <<slots, activeSteps, database, process>>

------------------------------------------------------------------------------
(***************************************************************************)
(* Planning and the steps of a plan                                        *)
(***************************************************************************)

\* createOrchestrationPlan returns; executeOrchestrationPlan takes over.
PlanMade(s, plan) ==
    /\ At(s, "planning")
    /\ Becomes(s, [session[s] EXCEPT !.plan = plan], Parked("stepping"))
    /\ UNCHANGED <<slots, sessions, activeSteps, issued, database, process>>

\* createOrchestrationPlan throws.  startOrchestatedCoordination passes the
\* error on to its caller; performCoordination falls back to asking the
\* participants one by one.
PlanningFails(s) ==
    /\ At(s, "planning")
    /\ \/ /\ session[s].kind = "orchestrate"
          /\ Parks(s, Parked("ended"))
       \/ /\ session[s].kind = "coordinate"
          /\ Becomes(s, [session[s] EXCEPT !.status = "in_progress"], Parked("asking"))
    /\ UNCHANGED <<slots, sessions, activeSteps, issued, database, process>>

\* The head of the step loop, up to the insert of the session row.  The await
\* of buildStepContext between the two assignments waits for nothing: that
\* function only reads the plan.
StepBegins(s) ==
    /\ At(s, "stepping")
    /\ flow[s].i \in DOMAIN session[s].plan
    /\ Slots!UpdateSessionActivity(s)
    /\ activeSteps' =
          [t \in DOMAIN activeSteps \union {s} |->
              IF t = s THEN session[s].plan[flow[s].i] ELSE activeSteps[t]]
    /\ Parks(s, [flow[s] EXCEPT !.pc = "ensuring"])
    /\ UNCHANGED <<sessions, issued, database, process>>

\* ensureSessionRecord: ON CONFLICT DO NOTHING, and a failure is only logged.
SessionRecordEnsured(s) ==
    /\ At(s, "ensuring")
    /\ \/ /\ row' = [row EXCEPT ![s] = IF @ = "none" THEN "in_progress" ELSE @]
          /\ UNCHANGED lostWrites
       \/ /\ DatabaseMayFail
          /\ lostWrites' = lostWrites \union {s}
          /\ UNCHANGED row
    /\ Parks(s, [flow[s] EXCEPT !.pc = "executing"])
    /\ UNCHANGED <<slots, sessions, activeSteps, issued, contributions, publication, process>>

SubSteps(s, n) == {k \in 0 .. MaxSub : contributions[s][<<n, k>>] # NoAuthor}

NextSubFromZero(s, n) ==    \* mutant: the first sub-step takes the step's own place
    IF SubSteps(s, n) = {} THEN 0 ELSE 1 + Max(SubSteps(s, n))

\* COALESCE(MAX(sub_step_number), 0) + 1.
NextSub(s, n) == IF SubSteps(s, n) = {} THEN 1 ELSE 1 + Max(SubSteps(s, n))

\* recordToolSubContribution while the step's agent runs: the next sub-step
\* number under the active step.  Without a session row the foreign key
\* rejects the insert and the failure is only logged.
ToolRecords(s) ==
    /\ At(s, "executing")
    /\ s \in DOMAIN activeSteps
    /\ row[s] # "none"
    /\ LET n == activeSteps[s]
       IN  /\ NextSub(s, n) <= MaxSub
           /\ contributions' =
                 [contributions EXCEPT ![s][<<n, NextSub(s, n)>>] = <<"step", flow[s].i>>]
    /\ UNCHANGED <<slots, memory, row, publication, lostWrites, process>>

\* executeOrchestrationStep returned; storeStepContent writes the file.
StepExecuted(s) ==
    /\ At(s, "executing")
    /\ Parks(s, [flow[s] EXCEPT !.pc = "storing"])
    /\ UNCHANGED <<slots, sessions, activeSteps, issued, database, process>>

ActiveStepKept(s) == activeSteps    \* mutant: the entry is not deleted

\* activeOrchestrationSteps.delete in the loop's finally.
WithoutActiveStep(s) == [t \in DOMAIN activeSteps \ {s} |-> activeSteps[t]]

\* storeStepContent never throws: the output is kept on the session and the
\* loop waits a second before its next turn.
StepStored(s) ==
    /\ At(s, "storing")
    /\ activeSteps' = WithoutActiveStep(s)
    /\ Becomes(s, [session[s] EXCEPT !.stepOutputs = Append(@, flow[s].i)],
                  [flow[s] EXCEPT !.pc = "stepping", !.i = @ + 1])
    /\ UNCHANGED <<slots, sessions, issued, database, process>>

\* The process goes: what it held in memory is lost, the database is not.
MemoryLost ==
    /\ activeSessions' = [s \in {} |-> 0]
    /\ sessionsByCoordinator' = [c \in {} |-> {}]
    /\ sessions' = {}
    /\ session' = [s \in Sessions |-> NoSession]
    /\ flow' = [s \in Sessions |-> Parked(IF s \in issued THEN "lost" ELSE "idle")]
    /\ activeSteps' = [s \in {} |-> 0]
    /\ up' = FALSE

GivesSlotBack(s) == Slots!EndSession(s)

\* A step's agent fails and executeOrchestrationPlan rethrows.  The plan of
\* performCoordination falls back; executeApprovedPlan records the failure.
\* Nothing awaits the execution that startOrchestatedCoordination started, so
\* its rejection is unhandled and index.ts exits the process.
StepFails(s) ==
    /\ At(s, "executing")
    /\ LET failed == Fail(session[s])
       IN  \/ /\ failed.kind = "orchestrate"
              /\ MemoryLost
              /\ UNCHANGED <<issued, stops>>
           \/ /\ failed.kind = "approve"
              /\ Ends(s, failed)
              /\ GivesSlotBack(s)
              /\ activeSteps' = WithoutActiveStep(s)
              /\ UNCHANGED <<sessions, issued, process>>
           \/ /\ failed.kind = "coordinate"
              /\ Becomes(s, [failed EXCEPT !.status = "in_progress"], Parked("asking"))
              /\ GivesSlotBack(s)
              /\ activeSteps' = WithoutActiveStep(s)
              /\ UNCHANGED <<sessions, issued, process>>
    /\ UNCHANGED database

\* The loop is over: the session is completed, gives its slot back and gets
\* its result, which may first be published as creative content.
PlanCompletes(s) ==
    /\ At(s, "stepping")
    /\ flow[s].i \notin DOMAIN session[s].plan
    /\ GivesSlotBack(s)
    /\ LET plan == session[s].plan
           o == [session[s] EXCEPT
                    !.status = "completed",
                    !.executed = TRUE,
                    !.finalResult = Result([j \in DOMAIN plan |-> <<"step", j>>], "steps")]
       IN  \/ Becomes(s, o, Parked("creative"))
           \/ Becomes(s, o, Persisting(o, FALSE))
    /\ UNCHANGED <<sessions, activeSteps, issued, database, process>>

CreativePublished(s) ==
    /\ At(s, "creative")
    /\ Parks(s, Persisting(session[s], FALSE))
    /\ UNCHANGED <<slots, sessions, activeSteps, issued, database, process>>

------------------------------------------------------------------------------
(***************************************************************************)
(* executeSimpleCoordination                                               *)
(***************************************************************************)

\* Participant flow[s].i contributes, or its prompt fails and it is skipped.
ParticipantAsked(s) ==
    /\ At(s, "asking")
    /\ flow[s].i <= NumParticipants
    /\ \/ Parks(s, [flow[s] EXCEPT !.i = @ + 1,
                                   !.answers = Append(@, <<"participant", flow[s].i>>)])
       \/ Parks(s, [flow[s] EXCEPT !.i = @ + 1])
    /\ UNCHANGED <<slots, sessions, activeSteps, issued, database, process>>

\* getAgent throws outside the try: the whole coordination fails.  Only
\* performCoordination cleans up.
ParticipantMissing(s) ==
    /\ At(s, "asking")
    /\ flow[s].i <= NumParticipants
    /\ Ends(s, IF session[s].kind = "coordinate"
               THEN Fail(session[s])
               ELSE [session[s] EXCEPT !.status = "failed"])
    /\ UNCHANGED <<slots, sessions, activeSteps, issued, database, process>>

\* The session is completed with result r: a rerun is persisted at once,
\* performCoordination reviews the result first.
SimpleCompletes(s, r) ==
    LET o == [session[s] EXCEPT !.finalResult = r, !.status = "completed"]
    IN  IF o.kind = "coordinate" THEN Review(s, o) ELSE Becomes(s, o, Persisting(o, FALSE))

ParticipantsDone(s) ==
    /\ At(s, "asking")
    /\ flow[s].i > NumParticipants
    /\ IF flow[s].answers = <<>>
       THEN SimpleCompletes(s, Result(<<>>, "empty"))
       ELSE Becomes(s, [session[s] EXCEPT !.finalResult = Result(flow[s].answers, "none")],
                       Parked("integrating"))
    /\ UNCHANGED <<slots, sessions, activeSteps, issued, database, process>>

\* The integration prompt answers or fails; then the texts are concatenated.
Integrated(s) ==
    /\ At(s, "integrating")
    /\ \E content \in {"integrated", "concatenated"} :
          SimpleCompletes(s, [session[s].finalResult EXCEPT !.content = content])
    /\ UNCHANGED <<slots, sessions, activeSteps, issued, database, process>>

------------------------------------------------------------------------------
(***************************************************************************)
(* persistAndPublishSession from its first await on                        *)
(***************************************************************************)

NextWrite(f) == IF f.todo = <<>> THEN "publishing" ELSE "persistContributions"

\* Control returns to whoever asked for the session to be persisted, which
\* goes on without awaiting anything.  published: a publication was written.
Persisted(s, published) ==
    LET r == session[s].finalResult
        o == [session[s] EXCEPT
                 !.finalResult = IF published /\ r.present
                                 THEN [r EXCEPT !.publishedTo = TRUE] ELSE r]
    IN  CASE o.kind = "rerun" -> Ends(s, o)
          [] o.kind = "orchestrate" -> Ends(s, CleanupAndShutdown(o))
          [] o.kind = "approve" -> Review(s, CleanupAndShutdown(o))
          [] o.kind = "coordinate" /\ ~ flow[s].republish -> Review(s, CleanupAndShutdown(o))
          [] o.kind = "coordinate" /\ flow[s].republish -> Ends(s, Cleanup(o))

SessionPersisted(s) ==
    /\ At(s, "persistSession")
    /\ row' = [row EXCEPT ![s] = flow[s].snap.status]
    /\ Parks(s, [flow[s] EXCEPT !.pc = NextWrite(flow[s])])
    /\ UNCHANGED <<slots, sessions, activeSteps, issued, contributions, publication,
                   lostWrites, process>>

\* One turn of persistContributions: an upsert by position.
ContributionPersisted(s) ==
    /\ At(s, "persistContributions")
    /\ LET c == Head(flow[s].todo)
           rest == [flow[s] EXCEPT !.todo = Tail(@)]
       IN  /\ contributions' = [contributions EXCEPT ![s][<<c.step, 0>>] = c.author]
           /\ Parks(s, [rest EXCEPT !.pc = NextWrite(rest)])
    /\ UNCHANGED <<slots, sessions, activeSteps, issued, row, publication, lostWrites, process>>

Published(s) ==
    /\ At(s, "publishing")
    /\ publication' =
          [publication EXCEPT ![s] = [status |-> "published", content |-> flow[s].snap.content]]
    /\ Persisted(s, TRUE)
    /\ UNCHANGED <<slots, sessions, activeSteps, issued, row, contributions, lostWrites, process>>

\* publishOne fails on the file system or the database; recordFailedPublication
\* keeps what the row says of the content.
PublicationFails(s) ==
    /\ At(s, "publishing")
    /\ DatabaseMayFail
    /\ publication' = [publication EXCEPT ![s].status = "failed"]
    /\ lostWrites' = lostWrites \union {s}
    /\ Persisted(s, FALSE)
    /\ UNCHANGED <<slots, sessions, activeSteps, issued, row, contributions, process>>

\* Any other statement fails: the rest is skipped and the error only logged.
PersistingFails(s) ==
    /\ up
    /\ flow[s].pc \in {"persistSession", "persistContributions", "publishing"}
    /\ DatabaseMayFail
    /\ lostWrites' = lostWrites \union {s}
    /\ Persisted(s, FALSE)
    /\ UNCHANGED <<slots, sessions, activeSteps, issued, row, contributions, publication, process>>

\* The language model answers the integration prompt or fails.  Both ways the
\* code writes to session.finalResult; when that was purged meanwhile the write
\* throws, and so does the handler that catches it.
SynthesisReturns(s) ==
    /\ At(s, "synthesizing")
    /\ LET o == session[s]
       IN  IF o.finalResult.present
           THEN \/ Conclude(s, [o EXCEPT !.finalResult.content = "synthesis"])
                \/ Conclude(s, o)
           ELSE Ends(s, Fail(o))
    /\ UNCHANGED <<slots, sessions, activeSteps, issued, database, process>>

------------------------------------------------------------------------------
(***************************************************************************)
(* Calls on existing sessions, time, and the process                       *)
(***************************************************************************)

Settled(s) == session[s].status \notin {"in_progress", "pending"}

DeleteSession(s) ==
    /\ up
    /\ s \in sessions
    /\ Settled(s)
    /\ sessions' = sessions \ {s}
    /\ UNCHANGED <<slots, session, flow, activeSteps, issued, database, process>>

PurgeSessionResults(s) ==
    /\ up
    /\ s \in sessions
    /\ Settled(s)
    /\ session' = [session EXCEPT ![s].finalResult = NoResult]
    /\ UNCHANGED <<slots, sessions, flow, activeSteps, issued, database, process>>

TimePasses == up /\ Slots!Tick /\ UNCHANGED <<memory, database, process>>

\* The manager's five-minute interval, and the force-cleanup call.
SlotsCleanedUp ==
    up /\ Slots!CleanupTimeoutSessions /\ UNCHANGED <<memory, database, process>>

Killed ==
    /\ up
    /\ stops < MaxStops
    /\ stops' = stops + 1
    /\ MemoryLost
    /\ UNCHANGED <<issued, database>>

\* docker-compose restarts the container unless it was stopped.
Restart ==
    /\ ~ up
    /\ up' = TRUE
    /\ UNCHANGED <<slots, memory, database, stops>>

Arrive(s) ==
    \/ \E c \in Coordinators :
          \/ Orchestrate(s, c)
          \/ Coordinate(s, c)
          \/ \E plan \in Plans : CreateCoordinationPlan(s, c, plan)
    \/ \E old \in Sessions : RerunSession(old, s)

Advance(s) ==
    \/ Joined(s) \/ JoinFails(s)
    \/ CoordinatorResolved(s) \/ CoordinatorMissing(s)
    \/ (\E plan \in Plans : PlanMade(s, plan)) \/ PlanningFails(s)
    \/ StepBegins(s) \/ SessionRecordEnsured(s) \/ ToolRecords(s)
    \/ StepExecuted(s) \/ StepStored(s) \/ StepFails(s)
    \/ PlanCompletes(s) \/ CreativePublished(s)
    \/ ParticipantAsked(s) \/ ParticipantMissing(s) \/ ParticipantsDone(s) \/ Integrated(s)
    \/ SessionPersisted(s) \/ ContributionPersisted(s) \/ Published(s)
    \/ PublicationFails(s) \/ PersistingFails(s)
    \/ SynthesisReturns(s)

Next ==
    \/ \E s \in Sessions :
          \/ Arrive(s) \/ Advance(s)
          \/ ApproveAndExecutePlan(s) \/ DeleteSession(s) \/ PurgeSessionResults(s)
    \/ \E c \in Coordinators : OrchestrateRefused(c)
    \/ TimePasses \/ SlotsCleanedUp
    \/ Killed \/ Restart

Spec == Init /\ [][Next]_vars

\* Agents, the model provider and the database answer every call, with a
\* result or an error; the clock and the manager's interval keep going; the
\* container is restarted.
Fairness ==
    /\ \A s \in Sessions : WF_vars(Advance(s))
    /\ WF_vars(TimePasses)
    /\ WF_vars(SlotsCleanedUp)
    /\ WF_vars(Restart)

FairSpec == Spec /\ Fairness

------------------------------------------------------------------------------
(***************************************************************************)
(* Properties                                                              *)
(***************************************************************************)

SessionObject ==
    [kind : AllEntryPoints \union {"none"},
     coordinatorId : Coordinators \union {"none"},
     status : {"none", "pending", "in_progress", "completed", "failed"},
     plan : Plans \union {<<>>},
     executed : BOOLEAN,
     finalResult : [present : BOOLEAN, contributions : Seq(Author), publishedTo : BOOLEAN,
                    content : {"none", "steps", "empty", "integrated", "concatenated", "synthesis"}],
     stepOutputs : Seq(1 .. MaxPlan),
     managers : SUBSET {"agents", "content"}]

Parking ==
    [pc : Over \union InStep \union
          {"joining", "resolving", "planning", "stepping", "creative", "asking", "integrating",
           "persistSession", "persistContributions", "publishing", "synthesizing"},
     i : 1 .. 10,
     answers : Seq(Author),
     todo : Seq([step : StepNumbers, author : Author]),
     snap : [status : {"none", "completed"}, content :
             {"none", "steps", "empty", "integrated", "concatenated", "synthesis"}],
     republish : BOOLEAN]

\* The shape of the state.  What it adds to types: only a completed session is
\* ever handed to persistSession (its snap), and a plan loop stays in range.
TypeOK ==
    /\ Slots!TypeOK
    /\ sessions \subseteq issued
    /\ issued \subseteq Sessions
    /\ session \in [Sessions -> SessionObject]
    /\ flow \in [Sessions -> Parking]
    /\ DOMAIN activeSteps \subseteq Sessions
    /\ \A s \in DOMAIN activeSteps : activeSteps[s] \in Steps
    /\ row \in [Sessions -> {"none", "in_progress", "completed", "failed"}]
    /\ contributions \in [Sessions -> [Positions -> Author \union {NoAuthor}]]
    /\ publication \in
          [Sessions -> [status : {"none", "published", "failed"},
                        content : {"none", "steps", "empty", "integrated", "concatenated",
                                   "synthesis"}]]
    /\ lostWrites \subseteq Sessions
    /\ up \in BOOLEAN
    /\ stops \in 0 .. MaxStops

Ended(s) == flow[s].pc = "ended"

\* activeSteps, by which tool calls attribute what they record, names exactly
\* the sessions inside a step, and the step they are in.  The map is shared by
\* all sessions; an entry left behind by a failing step, or by a fallback,
\* would attribute later work to a step that is over.
ActiveStepIsCurrent ==
    /\ DOMAIN activeSteps = {s \in Sessions : flow[s].pc \in InStep}
    /\ \A s \in DOMAIN activeSteps : activeSteps[s] = session[s].plan[flow[s].i]

\* The contributions that became the result of s.
ResultAuthors(s) ==
    LET r == session[s].finalResult.contributions IN {r[j] : j \in DOMAIN r}

\* The contributions recorded as the steps or answers of s.
RecordedAuthors(s) ==
    {contributions[s][<<n, 0>>] : n \in StepNumbers} \ {NoAuthor}

\* No other executed step of o has the number n.
Alone(o, n) ==
    \A i, j \in DOMAIN o.plan : o.executed /\ o.plan[i] = n /\ o.plan[j] = n => i = j

NumbersApart(o) == \A i \in DOMAIN o.plan : Alone(o, o.plan[i])

\* A completed session whose contributions became its result is durably
\* recorded with these only, never with those of an abandoned plan; never as
\* empty (the invariant rerunSession's comment names); and with all of them,
\* unless the planner gave two of its steps one number.  Statements the
\* database refused excuse it.
RecordIsTheResult ==
    \A s \in Sessions :
        Ended(s) /\ session[s].status = "completed" /\ s \notin lostWrites
            /\ session[s].finalResult.present
        => /\ RecordedAuthors(s) \subseteq ResultAuthors(s)
           /\ RecordedAuthors(s) = {} => ResultAuthors(s) = {}
           /\ NumbersApart(session[s]) => RecordedAuthors(s) = ResultAuthors(s)

Kept(s, p) == contributions[s][p] # NoAuthor => contributions'[s][p] = contributions[s][p]

\* What the vision document promises of a contribution: once recorded it stays
\* what it was.  persistContributions upserts by step number, and nothing
\* checks the numbers the planner gives.
RawIsSacred == [][\A s \in Sessions, p \in Positions : Kept(s, p)]_vars

\* Where that is the only way: what tools recorded stays, under every number,
\* and so does what stands in the place of a step or participant that shares
\* its number with no other, through fallbacks, reruns and the second persist.
RecordedStays ==
    [][\A s \in Sessions, p \in Positions :
          p[2] # 0 \/ Alone(session[s], p[1]) => Kept(s, p)]_vars

\* What was published is the session's final content, integrated or
\* synthesised, and not what it was before.
PublishedIsFinal ==
    \A s \in Sessions :
        Ended(s) /\ publication[s].status = "published" /\ s \notin lostWrites
            /\ session[s].finalResult.present
        => publication[s].content = session[s].finalResult.content

\* A plan is executed with the agents' session states and the content manager
\* in place: no step runs on after the cleanup of an earlier end.
StepsHaveTheirManagers ==
    \A s \in Sessions :
        flow[s].pc \in InStep \union {"stepping"} =>
            session[s].managers = {"agents", "content"}

\* A session that runs settles, unless the process goes, or it was orchestrated:
\* when the planner fails, its caller gets the error and it stays in progress.
EverySessionSettles ==
    \A s \in Sessions :
        session[s].status = "in_progress" /\ session[s].kind # "orchestrate"
            ~> session[s].status # "in_progress"

\* A slot is given back in the end, also the slot of a session whose function
\* died before it could: that is what the timeout is for.
EverySlotIsFreed ==
    \A s \in Sessions : s \in DOMAIN activeSessions ~> s \notin DOMAIN activeSessions

\* The service implements the lifecycle its API shows.
Lifecycle ==
    INSTANCE SessionLifecycle
    WITH status <- [s \in Sessions |-> IF s \in sessions THEN session[s].status ELSE "absent"]

ImplementsLifecycle == Lifecycle!Spec
==============================================================================
