------------------------------- MODULE MCRealms ------------------------------
(***************************************************************************)
(* What the application keeps in memory in front of a table or of files:   *)
(* realms, model configurations and the content of sessions.  They meet in *)
(* no statement, so that one of them moves at a time.                      *)
(***************************************************************************)
EXTENDS Realms, Models, Content

Symmetry == Permutations(Clients) \union Permutations(Admins)
              \union Permutations(Models) \union Permutations(Settings)
              \union Permutations(Stores)

MCInit == Init /\ ModelsInit /\ ContentInit

MCNext ==
    \/ ModelsInit /\ ContentInit /\ Next /\ UNCHANGED <<modelvars, contentvars>>
    \/ Init /\ ContentInit /\ ModelsNext /\ UNCHANGED <<vars, contentvars>>
    \/ Init /\ ModelsInit /\ ContentNext /\ UNCHANGED <<vars, modelvars>>

MCSpec == MCInit /\ [][MCNext]_<<vars, modelvars, contentvars>>

\* What is left of a realm once calls on it went wrong is nobody's promise: from
\* there, one call at a time, until a refresh or a restart reads it anew.
OneAfterHarm == Slugs \intersect suspect # {} => Cardinality(InFlight) <= 1

\* Of the maintenance runs, the writers and the readers of content, three at once.
ThreeAtOnce ==
    Cardinality({s \in Stores : sweeps[s] # NoSweep}) + Cardinality({s \in Stores : storing[s] # NotStoring})
      + Cardinality({i \in ContentReaders : listing[i] # NotListing}) <= 3
==============================================================================
