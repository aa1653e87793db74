----------------------------- MODULE Scenarios -----------------------------
(***************************************************************************)
(* ScenarioService: the scenarios it lists and the executions it drives in *)
(* the background, each an asynchronous function that works on the         *)
(* scenario object it was started with.                                    *)
(*                                                                         *)
(* A phase is its number of tasks, whether they run in parallel and        *)
(* whether a failed task ends it; a scenario is its phases, how many       *)
(* agents it requires and what it does when they are not found.            *)
(***************************************************************************)
EXTENDS Integers, Sequences, FiniteSets, SequencesExt

CONSTANTS
    ScenarioIds,
    MaxExecutions,  \* bound: executions are numbered in the order they start
    Bodies          \* what a client may create a scenario with, or update it to

ASSUME BodiesAssumption ==
    \A body \in Bodies :
        body.phases \in Seq([tasks : Nat, parallel : BOOLEAN, continueOnFailure : BOOLEAN])

VARIABLES
    scenarios,      \* scenarios: the listed ids, each with its current body
    usage,          \* usage objects, shared by every version of a scenario
    executions      \* executions, by id

svars == <<scenarios, usage, executions>>

ExecutionIds == 1 .. MaxExecutions

NoBody == [phases |-> <<>>, required |-> 0, stop |-> FALSE]

NoExecution ==
    [status |-> "none", scenario |-> "none", body |-> NoBody, pc |-> "none", progress |-> 0,
     assigned |-> 0, phase |-> 0, settled |-> <<>>, completedPhases |-> 0, results |-> <<>>]

ServiceInit ==
    /\ scenarios = [s \in {} |-> NoBody]
    /\ usage = [s \in ScenarioIds |-> [executionCount |-> 0, successCount |-> 0, failureCount |-> 0]]
    /\ executions = [e \in ExecutionIds |-> NoExecution]

------------------------------------------------------------------------------
(***************************************************************************)
(* The scenarios                                                           *)
(***************************************************************************)

Listed == DOMAIN scenarios

\* Ids are drawn at random: one that was used is not drawn again.  A scenario
\* asked for without phases gets a default one, so that none starts without.
CreateScenario(s, body) ==
    /\ s \notin Listed
    /\ body.phases # <<>>
    /\ usage[s].executionCount = 0
    /\ \A e \in ExecutionIds : executions[e].scenario # s
    /\ scenarios' = [t \in Listed \union {s} |-> IF t = s THEN body ELSE scenarios[t]]
    /\ UNCHANGED <<usage, executions>>

\* A new object replaces the old one; executions keep the one they hold.
UpdateScenario(s, body) ==
    /\ s \in Listed
    /\ scenarios' = [scenarios EXCEPT ![s] = body]
    /\ UNCHANGED <<usage, executions>>

DeleteScenario(s) ==
    /\ s \in Listed
    /\ scenarios' = [t \in Listed \ {s} |-> scenarios[t]]
    /\ UNCHANGED <<usage, executions>>

------------------------------------------------------------------------------
(***************************************************************************)
(* An execution.  pc is what its function waits for: a delay, the agents'  *)
(* discovery, or the answers to the tasks of the current phase.            *)
(***************************************************************************)

Execution(e) == executions[e]
Phases(e) == executions[e].body.phases

Waits(e, pc) == executions[e].pc = pc
Goes(e, x) == executions' = [executions EXCEPT ![e] = x]

ExecuteScenario(e, s) ==
    /\ s \in Listed
    /\ executions[e].status = "none"
    /\ \A f \in 1 .. e - 1 : executions[f].status # "none"
    /\ Goes(e, [NoExecution EXCEPT !.status = "running", !.scenario = s, !.body = scenarios[s],
                                   !.pc = "initializing", !.progress = 15])
    /\ usage' = [usage EXCEPT ![s].executionCount = @ + 1]
    /\ UNCHANGED scenarios

\* The catch of performAsyncExecution, which every error of it ends in.
ExecutionFailed(e, x) ==
    /\ Goes(e, [x EXCEPT !.status = "failed", !.pc = "over"])
    /\ usage' = [usage EXCEPT ![x.scenario].failureCount = @ + 1]
    /\ UNCHANGED scenarios

Discover(e) ==
    /\ Waits(e, "initializing")
    /\ Goes(e, [Execution(e) EXCEPT !.pc = "discovering", !.progress = 30])
    /\ UNCHANGED <<scenarios, usage>>

\* However many of the agents required are active and have the capabilities:
\* an error in the search counts as none.
AgentsAssigned(e, n) ==
    LET x == [Execution(e) EXCEPT !.assigned = n] IN
    /\ Waits(e, "discovering")
    /\ n <= x.body.required
    /\ \/ /\ n < x.body.required /\ x.body.stop
          /\ ExecutionFailed(e, x)
       \/ /\ ~ (n < x.body.required /\ x.body.stop)
          /\ Goes(e, [x EXCEPT !.pc = "assigned"])
          /\ UNCHANGED <<scenarios, usage>>

NoAgents(e) ==
    /\ Waits(e, "assigned")
    /\ Execution(e).assigned = 0
    /\ ExecutionFailed(e, Execution(e))

ProgressAfter(done, total) ==
    LET p == 30 + (done * 50) \div total IN IF p > 80 THEN 80 ELSE p

\* The first phase from p on that has tasks: an empty one is skipped.
NextPhase(x, p) ==
    LET nonEmpty == {q \in p .. Len(x.body.phases) : x.body.phases[q].tasks > 0}
    IN  IF nonEmpty = {} THEN Len(x.body.phases) + 1
        ELSE CHOOSE q \in nonEmpty : \A r \in nonEmpty : q <= r

\* The function enters phase p, or goes on to collect the results.
EntersPhase(x, p) ==
    LET q == NextPhase(x, p)
    IN  IF q > Len(x.body.phases)
        THEN [x EXCEPT !.pc = "collecting", !.phase = 0, !.settled = <<>>, !.progress = 90]
        ELSE [x EXCEPT !.pc = "tasks", !.phase = q,
                       !.settled = [t \in 1 .. x.body.phases[q].tasks |-> "asked"]]

\* A phase that is over leaves its results and counts for the progress.
LeavesPhase(x, results) ==
    LET done == x.completedPhases + 1
    IN  EntersPhase([x EXCEPT !.results = @ \o results, !.completedPhases = done,
                              !.progress = ProgressAfter(done, Len(x.body.phases))],
                    x.phase + 1)

StartPhases(e) ==
    /\ Waits(e, "assigned")
    /\ Execution(e).assigned > 0
    /\ Goes(e, EntersPhase([Execution(e) EXCEPT !.progress = 30], 1))
    /\ UNCHANGED <<scenarios, usage>>

Result(x, t, outcome) == [phase |-> x.phase, task |-> t, status |-> outcome]

\* executeTask answers with a result whatever happens: an agent that cannot be
\* found, an error and a refusal of the agent all are the result "failed".
\* One task is asked at a time, and a failed one may end the phase.
SequentialTask(e, outcome) ==
    LET x == Execution(e)
        ph == x.body.phases[x.phase]
        t == CHOOSE i \in 1 .. ph.tasks :
                /\ x.settled[i] = "asked"
                /\ \A j \in 1 .. i - 1 : x.settled[j] # "asked"
    IN  /\ Waits(e, "tasks")
        /\ ~ ph.parallel
        /\ IF t = ph.tasks \/ (outcome = "failed" /\ ~ ph.continueOnFailure)
           THEN Goes(e, LeavesPhase(x, <<Result(x, t, outcome)>>))
           ELSE Goes(e, [x EXCEPT !.settled[t] = outcome,
                                  !.results = Append(@, Result(x, t, outcome))])
        /\ UNCHANGED <<scenarios, usage>>

\* All tasks are asked at once and settle in any order; the results are
\* recorded when the last one has, in the order of the tasks.
ResultsBackwards(x, settled) ==    \* mutant: in the order in which they happened to settle
    [i \in DOMAIN settled |-> Result(x, Len(settled) + 1 - i, settled[Len(settled) + 1 - i])]

ResultsOf(x, settled) == [i \in DOMAIN settled |-> Result(x, i, settled[i])]

AllSettled(settled) == \A i \in DOMAIN settled : settled[i] # "asked"

ParallelTask(e, t, outcome) ==
    LET x == Execution(e)
        settled == [x.settled EXCEPT ![t] = outcome]
    IN  /\ Waits(e, "tasks")
        /\ x.body.phases[x.phase].parallel
        /\ t \in DOMAIN x.settled
        /\ x.settled[t] = "asked"
        /\ IF AllSettled(settled)
           THEN Goes(e, LeavesPhase(x, ResultsOf(x, settled)))
           ELSE Goes(e, [x EXCEPT !.settled = settled])
        /\ UNCHANGED <<scenarios, usage>>

ExecutionCompleted(e) ==
    /\ Waits(e, "collecting")
    /\ Goes(e, [Execution(e) EXCEPT !.status = "completed", !.pc = "over", !.progress = 100])
    /\ usage' = [usage EXCEPT ![Execution(e).scenario].successCount = @ + 1]
    /\ UNCHANGED scenarios

------------------------------------------------------------------------------
MostTasks == 3    \* bound: no phase of a body has more tasks
MostAgents == 2   \* bound: no body requires more agents

Proceed(e) ==
    \/ Discover(e)
    \/ \E n \in 0 .. MostAgents : AgentsAssigned(e, n)
    \/ NoAgents(e)
    \/ StartPhases(e)
    \/ \E outcome \in {"completed", "failed"} :
          \/ SequentialTask(e, outcome)
          \/ \E t \in 1 .. MostTasks : ParallelTask(e, t, outcome)
    \/ ExecutionCompleted(e)

ServiceNext ==
    \/ \E s \in ScenarioIds :
          \/ \E body \in Bodies : CreateScenario(s, body) \/ UpdateScenario(s, body)
          \/ DeleteScenario(s)
          \/ \E e \in ExecutionIds : ExecuteScenario(e, s)
    \/ \E e \in ExecutionIds : Proceed(e)
==============================================================================
