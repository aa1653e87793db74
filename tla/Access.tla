------------------------------- MODULE Access -------------------------------
(***************************************************************************)
(* The routes of tools and ley lines, and the identity requests come with. *)
(***************************************************************************)
EXTENDS RouteRecords, Identity

avars == <<vars, idvars>>

AccessInit == Init /\ IdentityInit

AccessNext ==
    \/ Next /\ UNCHANGED idvars
    \/ IdentityNext /\ UNCHANGED vars

AccessSpec == AccessInit /\ [][AccessNext]_avars
==============================================================================
