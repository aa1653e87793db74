---------------------------- MODULE RouteRecords ----------------------------
(***************************************************************************)
(* The records the routes of tools and ley lines keep in the process: each *)
(* has its own, a restart of the process takes both back to the defaults.  *)
(***************************************************************************)
EXTENDS ToolAccess, LeyLines

vars == <<tvars, lvars>>

Init == ToolInit /\ LinesInit

RestartProcess ==
    /\ toolAccess' = DefaultToolAccess(clock)
    /\ leyLines' = DefaultLeyLines /\ connecting' = {}
    /\ UNCHANGED clock

Next ==
    \/ ToolNext /\ UNCHANGED lvars
    \/ LinesNext /\ UNCHANGED tvars
    \/ RestartProcess

Spec == Init /\ [][Next]_vars

------------------------------------------------------------------------------

TypeOK == ToolTypeOK /\ LinesTypeOK

\* Within one life of the process a token that had its last use, was revoked or
\* was found expired counts no further use and stays as it is, until it is
\* deleted: the last use must end it, whatever the limit.
EndedStaysEnded == [][RestartProcess \/ \A t \in Tokens : StaysEnded(t)]_vars
==============================================================================
