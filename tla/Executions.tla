----------------------------- MODULE Executions -----------------------------
(***************************************************************************)
(* What the clients of /scenarios and /executions see: the executions of   *)
(* ScenarioService and the route's own records, listed side by side and    *)
(* asked for by one id space.                                              *)
(***************************************************************************)
EXTENDS Scenarios, ExecutionRecords

\* The route and the service draw ids of different forms.
ASSUME IdsAssumption == RecordIds \cap ExecutionIds = {}

vars == <<svars, rvars>>

Init == ServiceInit /\ InitializeDefaultExecutions

Next ==
    \/ ServiceNext /\ UNCHANGED rvars
    \/ RouteNext /\ UNCHANGED svars

Spec == Init /\ [][Next]_vars

\* GET /executions/:id asks the route's records first, then the service.
StatusShown(id) ==
    IF id \in Recorded THEN records[id].status
    ELSE IF id \in ExecutionIds /\ executions[id].status # "none" THEN executions[id].status
    ELSE "absent"

------------------------------------------------------------------------------
(***************************************************************************)
(* Properties                                                              *)
(***************************************************************************)

ExecutionType ==
    [status : {"none", "running", "completed", "failed"},
     scenario : ScenarioIds \union {"none"},
     body : Bodies \union {NoBody},
     pc : {"none", "initializing", "discovering", "assigned", "tasks", "collecting", "over"},
     progress : 0 .. 100,
     assigned : 0 .. MostAgents,
     phase : 0 .. 9,
     settled : Seq({"asked", "completed", "failed"}),
     completedPhases : 0 .. 9,
     results : Seq([phase : 1 .. 9, task : 1 .. MostTasks, status : {"completed", "failed"}])]

\* The shape of the state; and an execution that is over is not running.
TypeOK ==
    /\ Listed \subseteq ScenarioIds /\ \A s \in Listed : scenarios[s] \in Bodies
    /\ \A s \in ScenarioIds : \A n \in DOMAIN usage[s] : usage[s][n] \in 0 .. Cardinality(ExecutionIds)
    /\ executions \in [ExecutionIds -> ExecutionType]
    /\ \A e \in ExecutionIds : executions[e].pc = "over" <=> executions[e].status \in {"completed", "failed"}
    /\ Recorded \subseteq RecordIds /\ timers \subseteq RecordIds
    /\ \A r \in Recorded : records[r] \in [status : Statuses, results : BOOLEAN]

\* The tasks of phase p that a run with these results answers for: all of them,
\* or those up to the first failure in a phase that stops at one.
AnsweredTasks(ph, p, results) ==
    LET failed == {t \in 1 .. ph.tasks : [phase |-> p, task |-> t, status |-> "failed"] \in Range(results)}
    IN  IF ph.parallel \/ ph.continueOnFailure \/ failed = {} THEN ph.tasks
        ELSE CHOOSE t \in failed : \A u \in failed : t <= u

Before(q, r) == q.phase < r.phase \/ (q.phase = r.phase /\ q.task < r.task)

\* The results follow the plan the execution was started with: in its order,
\* no task twice, and a completed execution answers for every phase in full, or
\* up to the failure that ended it.
ResultsFollowThePlan ==
    \A e \in ExecutionIds :
        LET x == executions[e]
            res == x.results
        IN  /\ \A i, j \in DOMAIN res : i < j => Before(res[i], res[j])
            /\ x.status = "completed" =>
                 \A p \in DOMAIN x.body.phases :
                     Cardinality({i \in DOMAIN res : res[i].phase = p})
                         = AnsweredTasks(x.body.phases[p], p, res)

\* What was shown as completed or failed is not shown as anything else again,
\* until it is deleted: no late timer, no client and no other source of the id
\* revives it.
FinalStaysFinal ==
    [][\A id \in ExecutionIds \union RecordIds :
          StatusShown(id) \in {"completed", "failed"} =>
              StatusShown(id)' \in {StatusShown(id), "absent"}]_vars
==============================================================================
