------------------------------- MODULE Server -------------------------------
(***************************************************************************)
(* One process: it migrates the database and then serves requests, while   *)
(* the results of earlier requests load in the background from the moment  *)
(* it starts.  It may fail to start or be killed between any two steps; the*)
(* database and the disk stay.                                             *)
(***************************************************************************)
EXTENDS Migrations, AsyncResults, Ingestion

vars == <<mvars, avars, ivars>>

Init == MigrationsInit /\ AsyncInit /\ IngestInit

\* A step of the start takes the memory with it when the process ends.
StartStep ==
    /\ MigrationsNext
    /\ IF server' = "down" THEN ManagerLost /\ IngestLost
       ELSE IF server = "down" THEN ManagerConstructed /\ UNCHANGED ivars
       ELSE UNCHANGED <<avars, ivars>>

Next ==
    \/ StartStep
    \/ Loading /\ UNCHANGED <<mvars, ivars>>
    \/ (\E r \in RequestIds : RowLapses(r)) /\ UNCHANGED <<mvars, ivars>>
    \/ server = "serving" /\ AsyncRequest /\ UNCHANGED <<mvars, ivars>>
    \/ server = "serving" /\ IngestRequest /\ UNCHANGED <<mvars, avars>>

Spec == Init /\ [][Next]_vars
==============================================================================
