---------------------------- MODULE MCWorldTree -----------------------------
(***************************************************************************)
(* What is written to the WorldTree and what is read from it: contributions*)
(* recorded at once, publications and their retention, and the queries.    *)
(***************************************************************************)
EXTENDS SubContributions, Publications, WorldTree

CONSTANTS s1, s2, s3,   \* sessions
          first, second, script, summary, dataset,   \* calls and modes
          lake, forest                               \* realms

MCCalls == {first, second, script}
MCScripted == {script}
MCModes == {summary, dataset}
MCRetention == [m \in MCModes |-> IF m = summary THEN 1 ELSE 0]
MCRefs == {Ref(lake, 0), Ref(lake, 1), Ref(forest, 0), Ref(forest, 1)}
MCScopings == {refs \in SUBSET MCRefs : Cardinality(refs) <= 2}

\* All sessions, or those since the second.
MCWindows == {Sessions, {s2, s3}}

\* What the session is about, what the call asks for, and where the agent is.
Search(grants, research, explicit, present) ==
    [grants |-> grants, research |-> research, explicit |-> explicit, present |-> present]
MCSearches ==
    {Search({lake}, {}, {}, {forest}), Search({lake}, {lake, forest}, {}, {}),
     Search({forest}, {lake}, {Ref(forest, 1)}, {}), Search({lake, forest}, {forest}, {Ref(lake, 1)}, {}),
     Search({}, {}, {Ref(lake, 0)}, {})}

\* The parts meet in no row, so that one moves at a time.
RecordersIdle == vars = <<{}, [r \in Recorders |-> "loop"], [r \in Recorders |-> 0],
                          [r \in Recorders |-> 0]>>
PublishersIdle == PublicationsInit

\* Nor do sessions, contributions and scopes meet in an answer.
Paging == sessions # << >> \/ \E i \in Readers : reader[i].pc \in {"paging", "paged"}
Viewing == Made # 0 \/ \E i \in Readers : reader[i].pc \in {"viewing", "viewed"}
Searching ==
    \/ \E i \in Readers : reader[i].pc \notin {"off", "paging", "paged", "viewing", "viewed"}
    \/ realms[forest] # 1 \/ setting # NotSetting \/ gaps # {}
    \/ \E d \in Documents : scopes[d] # {Everywhere}
OneKind == Cardinality({k \in 1 .. 3 : <<Paging, Viewing, Searching>>[k]}) <= 1

\* Gaps are counted while no scope or realm changes.
Bounded == gaps # {} => realms[forest] = 1 /\ setting = NotSetting
                        /\ \A d \in Documents : scopes[d] = {Everywhere}

ReadersIdle == ~ Paging /\ ~ Viewing /\ ~ Searching

MCInit == Init /\ PublicationsInit /\ WorldTreeInit

MCNext ==
    \/ PublishersIdle /\ ReadersIdle /\ Next /\ UNCHANGED <<pubvars, wtvars>>
    \/ RecordersIdle /\ ReadersIdle /\ PublicationsNext /\ UNCHANGED <<vars, wtvars>>
    \/ RecordersIdle /\ PublishersIdle /\ WorldTreeNext /\ UNCHANGED <<vars, pubvars>>
       /\ OneKind' /\ Bounded'

MCSpec == MCInit /\ [][MCNext]_<<vars, pubvars, wtvars>> /\ WF_pubvars(Sweeping)
==============================================================================
