-------------------------- MODULE ExecutionRecords --------------------------
(***************************************************************************)
(* The execution records that the route /executions keeps in a map of its  *)
(* own, beside those of ScenarioService: started and run again by clients, *)
(* marked running by a timer, settled, purged and deleted by clients.      *)
(***************************************************************************)
EXTENDS FiniteSets

CONSTANTS
    RecordIds,
    demoCompleted   \* the completed record the route starts with

ASSUME DemoAssumption == demoCompleted \in RecordIds

VARIABLES
    records,        \* executions: the map, [status, results] by id
    timers          \* the ids whose 100 ms timer has not fired

rvars == <<records, timers>>

Statuses == {"starting", "running", "completed", "failed", "cancelled"}
Recorded == DOMAIN records

\* The second default record, which runs, is like one whose timer has fired
\* and is left to those.
InitializeDefaultExecutions ==
    /\ records = [r \in {demoCompleted} |-> [status |-> "completed", results |-> TRUE]]
    /\ timers = {}

SetsRecord(r, x) == records' = [q \in Recorded \union {r} |-> IF q = r THEN x ELSE records[q]]

\* Ids are drawn at random; an id whose timer runs is not drawn again.
Unused(r) == r \notin Recorded /\ r \notin timers /\ r # demoCompleted

StartRecord(r) ==
    /\ Unused(r)
    /\ SetsRecord(r, [status |-> "starting", results |-> FALSE])
    /\ timers' = timers \union {r}

TimerMarksAny(r) ==    \* mutant: the timer does not look at the status
    /\ r \in timers
    /\ timers' = timers \ {r}
    /\ IF r \in Recorded
       THEN SetsRecord(r, [records[r] EXCEPT !.status = "running"])
       ELSE UNCHANGED records

\* The record may have been cancelled, settled or deleted since.
TimerFires(r) ==
    /\ r \in timers
    /\ timers' = timers \ {r}
    /\ IF r \in Recorded /\ records[r].status = "starting"
       THEN SetsRecord(r, [records[r] EXCEPT !.status = "running"])
       ELSE UNCHANGED records

IsFinal(r) == records[r].status \in {"completed", "failed"}

UpdateStatus(r, status) ==
    /\ r \in Recorded
    /\ status \in {"cancelled", "completed", "failed"}
    /\ ~ IsFinal(r)
    /\ SetsRecord(r, [records[r] EXCEPT !.status = status])
    /\ UNCHANGED timers

DeleteRecord(r) ==
    /\ r \in Recorded
    /\ records[r].status \notin {"running", "starting"}
    /\ records' = [q \in Recorded \ {r} |-> records[q]]
    /\ UNCHANGED timers

\* A new record with the configuration of the old one, which stays.
RerunRecord(old, r) ==
    /\ old \in Recorded
    /\ IsFinal(old)
    /\ Unused(r)
    /\ SetsRecord(r, [status |-> "starting", results |-> FALSE])
    /\ timers' = timers \union {r}

PurgeRecord(r) ==
    /\ r \in Recorded
    /\ IsFinal(r)
    /\ SetsRecord(r, [records[r] EXCEPT !.results = FALSE])
    /\ UNCHANGED timers

RouteNext ==
    \E r \in RecordIds :
        \/ StartRecord(r)
        \/ TimerFires(r)
        \/ \E status \in Statuses : UpdateStatus(r, status)
        \/ DeleteRecord(r)
        \/ \E old \in RecordIds : RerunRecord(old, r)
        \/ PurgeRecord(r)
==============================================================================
