----------------------------- MODULE Migrations -----------------------------
(***************************************************************************)
(* The start of the server: the migration files of the deployed image that *)
(* the database does not record as applied are run in order, each recorded *)
(* after its script, and requests are served when none is left.  A failure *)
(* ends the process, and the container's restart policy starts it again.   *)
(***************************************************************************)
EXTENDS Naturals

CONSTANTS
    Versions,
    Images,         \* the sets of versions an image may ship
    MaxStarts       \* bound: starts of the process

ASSUME ImagesAssumption ==
    /\ Versions \subseteq {v \in Nat : v >= 2}
    /\ Images \subseteq SUBSET Versions \ {{}} /\ Images # {}
    /\ MaxStarts \in Nat

VARIABLES
    image,          \* the versions the deployed image ships
    server,         \* down, planning, migrating, recording or serving
    plan,           \* versions left to apply
    recorded,       \* schema_migrations: version |-> success
    starts,
    ran,            \* history: times each script took effect
    unrecorded      \* history: times that was not recorded

mvars == <<image, server, plan, recorded, starts, ran, unrecorded>>

MigrationsInit ==
    /\ image \in Images
    /\ server = "down" /\ plan = {} /\ starts = 0
    /\ recorded = [v \in {} |-> TRUE]
    /\ ran = [v \in Versions |-> 0]
    /\ unrecorded = [v \in Versions |-> 0]

Applied == {v \in DOMAIN recorded : recorded[v]}

Record(v, success) ==
    recorded' = [w \in DOMAIN recorded \union {v} |-> IF w = v THEN success ELSE recorded[w]]

AboveTheHighest(available, applied) ==
    {v \in available : \A a \in applied : v > a}    \* mutant

\* planPendingMigrations: a set difference, not those above the highest.
PlanPendingMigrations(available, applied) == available \ applied

\* Migrations are applied in the order of their versions.
IsNext(v) == v \in plan /\ \A w \in plan : v <= w
UnderWay(v) == server = "recording" /\ IsNext(v)

------------------------------------------------------------------------------

\* The container starts, possibly with another image.
ProcessStarts ==
    /\ server = "down" /\ starts < MaxStarts
    /\ server' = "planning"
    /\ image' \in Images
    /\ starts' = starts + 1
    /\ UNCHANGED <<plan, recorded, ran, unrecorded>>

Planned ==
    /\ server = "planning"
    /\ plan' = PlanPendingMigrations(image, Applied)
    /\ server' = IF plan' = {} THEN "serving" ELSE "migrating"
    /\ UNCHANGED <<image, recorded, starts, ran, unrecorded>>

\* The tracking table or the list of applied versions cannot be read.
PlanFails ==
    /\ server = "planning" /\ server' = "down"
    /\ UNCHANGED <<image, plan, recorded, starts, ran, unrecorded>>

ScriptRuns ==
    /\ server = "migrating" /\ server' = "recording"
    /\ \E v \in Versions : IsNext(v) /\ ran' = [ran EXCEPT ![v] = @ + 1]
    /\ UNCHANGED <<image, plan, recorded, starts, unrecorded>>

\* The script is refused as a whole, the failure recorded if it can be, and the
\* process ends.
ScriptFails ==
    /\ server = "migrating" /\ server' = "down"
    /\ \E v \in Versions : IsNext(v) /\ (Record(v, FALSE) \/ UNCHANGED recorded)
    /\ plan' = {}
    /\ UNCHANGED <<image, starts, ran, unrecorded>>

SuccessRecorded ==
    /\ server = "recording"
    /\ \E v \in Versions : IsNext(v) /\ Record(v, TRUE) /\ plan' = plan \ {v}
    /\ server' = IF plan' = {} THEN "serving" ELSE "migrating"
    /\ UNCHANGED <<image, starts, ran, unrecorded>>

\* The script took effect and the row is refused: the catch records a failure.
RecordFails ==
    /\ server = "recording" /\ server' = "down"
    /\ \E v \in Versions :
          /\ IsNext(v)
          /\ Record(v, FALSE) \/ UNCHANGED recorded
          /\ unrecorded' = [unrecorded EXCEPT ![v] = @ + 1]
    /\ plan' = {}
    /\ UNCHANGED <<image, starts, ran>>

\* The container is stopped or killed.
ProcessKilled ==
    /\ server # "down" /\ server' = "down"
    /\ unrecorded' = [v \in Versions |-> IF UnderWay(v) THEN unrecorded[v] + 1 ELSE unrecorded[v]]
    /\ plan' = {}
    /\ UNCHANGED <<image, recorded, starts, ran>>

MigrationsNext ==
    \/ ProcessStarts \/ Planned \/ PlanFails \/ ScriptRuns \/ ScriptFails
    \/ SuccessRecorded \/ RecordFails \/ ProcessKilled

MigrationsSpec == MigrationsInit /\ [][MigrationsNext]_mvars

------------------------------------------------------------------------------

MigrationsTypeOK ==
    /\ image \in Images
    /\ server \in {"down", "planning", "migrating", "recording", "serving"}
    /\ plan \subseteq Versions
    /\ DOMAIN recorded \subseteq Versions /\ recorded \in [DOMAIN recorded -> BOOLEAN]
    /\ starts \in Nat
    /\ ran \in [Versions -> Nat] /\ unrecorded \in [Versions -> Nat]

\* What the database records is what was done to it: a script took effect once
\* for each time that was not recorded, and once more if it is recorded as
\* applied or about to be; so no recorded script runs again.  And requests are
\* served only when every script of the image took effect, in whatever order
\* images brought them.
SchemaIsAsRecorded ==
    /\ \A v \in Versions :
          ran[v] = unrecorded[v] + (IF v \in Applied \/ UnderWay(v) THEN 1 ELSE 0)
    /\ server = "serving" => image \subseteq Applied
==============================================================================
