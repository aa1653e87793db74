------------------------------ MODULE MCServer -------------------------------
EXTENDS Server, TLC

CONSTANT q1

\* The second image brings a version below one that may be applied already.
MCImages == {{3, 5}, {3, 4, 5}}

Migrated ==
    /\ image = {3, 4, 5} /\ \A v \in Versions : ran[v] = 1 /\ v \in Applied
    /\ server \in {"serving", "down", "planning"}
    /\ starts <= 2

NoIngests == generated = 0 /\ runs = [r \in RunIds |-> NoRun] /\ tasks = [t \in Tasks |-> NoTask]

\* Migrations, results and ingests share nothing but the process: each is
\* explored, through its ends and starts, while the others are idle.
OneAtATime ==
    \/ requested = {} /\ NoIngests
    \/ Migrated /\ NoIngests
    \/ Migrated /\ requested = {} /\ manager \in {"down", "connecting"}

\* One request goes through what a result may be while it is the only one; with
\* another, which is created and takes its place in the table, it is completed.
OneChanges ==
    /\ \A r \in DOMAIN results : results[r].status \in {"pending", "completed", "failed"}
    /\ \A r \in DOMAIN results :
          requested # {q1} => \/ results[r] = Pending
                              \/ r = q1 /\ results[r] = [Pending EXCEPT !.status = "completed", !.result = TRUE]

Symmetry == Permutations(Tasks) \union Permutations(Sources) \union Permutations(Contents)
==============================================================================
