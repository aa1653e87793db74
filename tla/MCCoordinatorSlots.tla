------------------------- MODULE MCCoordinatorSlots -------------------------
(***************************************************************************)
(* The slots of two coordinators under any calls, and the routes that      *)
(* start sessions over them.  Three session ids, so that a coordinator can *)
(* be full, a session can move to the other coordinator after it ended,    *)
(* and a timeout can make room for a start.  One diagram has an arrow to a *)
(* stranger between the others, and one request names no participants.     *)
(***************************************************************************)
EXTENDS Starting, TLC

CONSTANTS merlin, imp, lake, stranger

MCBoundTo == imp :> lake

Named(by, a) == [by |-> by, agent |-> a]

MCRequests ==
    LET both == {<<Named("id", merlin), Named("name", imp)>>}
        diagram == <<[from |-> merlin, to |-> lake, does |-> "travel"],
                     [from |-> merlin, to |-> stranger, does |-> "delegate"],
                     [from |-> merlin, to |-> imp, does |-> "message"]>>
    IN  [kind : {"coordinate"}, coordinator : {BuiltIn}, refs : both, realms : {{}, {lake}},
         mode : {"text"}, diagram : {<<>>}]
        \union [kind : {"plan", "orchestrate"}, coordinator : {BuiltIn, merlin}, refs : both, realms : {{}},
                mode : {"text"}, diagram : {<<>>}]
        \union [kind : {"plan", "orchestrate"}, coordinator : {BuiltIn}, refs : both, realms : {{lake}},
                mode : {"diagram"}, diagram : {diagram}]
        \union [kind : {"plan"}, coordinator : {BuiltIn}, refs : {<<>>}, realms : {{}},
                mode : {"diagram"}, diagram : {diagram}]

Symmetry == Permutations(Sessions)

MCInit == Init /\ StartingInit

MCNext ==
    \/ StartingInit /\ Next /\ UNCHANGED startvars
    \/ DOMAIN activeSessions \subseteq issued /\ StartingNext

\* Of the three ids two are given out, and a third start is refused.
TwoStarted == Cardinality(issued) <= 2

MCSpec == MCInit /\ [][MCNext]_<<vars, startvars>>
==============================================================================
