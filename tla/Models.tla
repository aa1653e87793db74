-------------------------------- MODULE Models -------------------------------
(***************************************************************************)
(* The registry of model configurations: a map in memory that is loaded    *)
(* when the process starts, in front of the table model_configurations.    *)
(* Reads are answered from memory; a change is written to the table first  *)
(* and to memory when the statement has been answered.                     *)
(***************************************************************************)
EXTENDS Naturals, FiniteSets, TLC

CONSTANTS
    Models,      \* the ids that clients choose
    Settings,    \* provider, model, temperature and the rest of a configuration
    Admins       \* bound: changes in flight at once

VARIABLES
    models,      \* ModelRegistryService.models
    stored,      \* the table
    changes,     \* the change each administrator has in flight
    uncertain    \* history: ids of which a change overlapped another, or was
                 \* made and not answered, since one was made and answered alone

modelvars == <<models, stored, changes, uncertain>>

Configuration == [settings : Settings, isDefault : BOOLEAN, isActive : BOOLEAN]
Patch == [settings : Settings] \union [isDefault : BOOLEAN] \union [isActive : BOOLEAN]
NoChange == [pc |-> "none"]

\* The seeded table, loaded: one default.
ModelsInit ==
    /\ \E m \in Models, s \in Settings :
          stored = m :> [settings |-> s, isDefault |-> TRUE, isActive |-> TRUE]
    /\ models = stored
    /\ changes = [a \in Admins |-> NoChange]
    /\ uncertain = {}

ChangesOf(m) == {a \in Admins : changes[a] # NoChange /\ changes[a].id = m}

\* The statement of a change goes out, made of what memory says now.
Sends(a, m, does, row) ==
    /\ changes[a] = NoChange
    /\ changes' = [b \in Admins |->
          IF b = a THEN [pc |-> "sent", id |-> m, does |-> does, row |-> row, alone |-> ChangesOf(m) = {}]
          ELSE IF b \in ChangesOf(m) THEN [changes[b] EXCEPT !.alone = FALSE]
          ELSE changes[b]]
    /\ UNCHANGED <<models, stored, uncertain>>

\* POST of a valid configuration; 409 if the id is taken.
AddModel(a, m, body) ==
    /\ m \notin DOMAIN models
    /\ Sends(a, m, "upsert", body)

\* PUT, and PATCH of the active flag; 404 if there is no such model.
UpdateModel(a, m, patch) ==
    /\ m \in DOMAIN models
    /\ Sends(a, m, "upsert", patch @@ models[m])

\* DELETE; 400 for the default.
RemoveModel(a, m) ==
    /\ m \in DOMAIN models /\ ~ models[m].isDefault
    /\ Sends(a, m, "delete", models[m])

\* What f becomes when m has this row.
WithRow(f, m, row) == [n \in DOMAIN f \union {m} |-> IF n = m THEN row ELSE f[n]]

\* Statements take effect in any order.
TakesEffect(a) ==
    /\ changes[a].pc = "sent"
    /\ LET c == changes[a]
           without == [n \in DOMAIN stored \ {c.id} |-> stored[n]]
       IN  /\ stored' = IF c.does = "upsert" THEN WithRow(stored, c.id, c.row) ELSE without
           /\ changes' = [changes EXCEPT ![a] =
                 [c EXCEPT !.pc = IF c.does = "upsert" \/ c.id \in DOMAIN stored THEN "done" ELSE "nothing"]]
    /\ UNCHANGED <<models, uncertain>>

MemoryFirst(a, keep) ==    \* mutant: the map is written with the statement on its way
    LET c == changes[a]
    IN  models' = IF c.does = "upsert" THEN WithRow(models, c.id, c.row)
                  ELSE [n \in DOMAIN models \ {c.id} |-> models[n]]

\* The map follows the table, and keeps what it has if that refused or found nothing.
MapWritten(a, keep) ==
    LET c == changes[a]
    IN  models' = IF keep THEN models
                  ELSE IF c.does = "upsert" THEN WithRow(models, c.id, c.row)
                  ELSE [n \in DOMAIN models \ {c.id} |-> models[n]]

ChangeEnds(a, answered) ==
    LET c == changes[a]
    IN  /\ changes' = [changes EXCEPT ![a] = NoChange]
        /\ uncertain' = IF ~ c.alone \/ (c.pc = "done" /\ ~ answered) THEN uncertain \union {c.id}
                        ELSE IF c.pc = "done" THEN uncertain \ {c.id}
                        ELSE uncertain

\* The statement is refused, or its connection breaks, before it took effect or
\* with the answer on its way: 500.
ChangeFails(a) ==
    /\ changes[a] # NoChange
    /\ MapWritten(a, TRUE)
    /\ ChangeEnds(a, FALSE)
    /\ UNCHANGED stored

\* 201, 200 or 204; 500 when there was nothing to delete.
ChangeAnswered(a) ==
    /\ changes[a].pc \in {"done", "nothing"}
    /\ MapWritten(a, changes[a].pc = "nothing")
    /\ ChangeEnds(a, TRUE)
    /\ UNCHANGED stored

\* The process starts anew and loads the table.  Changes on their way are lost
\* or were made, and nobody is told.
Initialize ==
    /\ models' = stored
    /\ changes' = [a \in Admins |-> NoChange]
    /\ uncertain' = {}
    /\ UNCHANGED stored

ModelsNext ==
    \/ \E a \in Admins, m \in Models :
          \/ \E body \in Configuration : AddModel(a, m, body)
          \/ \E patch \in Patch : UpdateModel(a, m, patch)
          \/ RemoveModel(a, m)
    \/ \E a \in Admins : TakesEffect(a) \/ ChangeFails(a) \/ ChangeAnswered(a)
    \/ Initialize

------------------------------------------------------------------------------

\* What the registry answers reads with is the table: a change that the table
\* refuses leaves no trace in memory, and none that it made is missing once it is
\* answered.  Changes of one model that overlapped, and one that was made though
\* its answer was lost, may leave the two apart; the next change of the model
\* that is made and answered alone brings them together again.
RegistryIsTheTable ==
    \A m \in Models \ uncertain :
        ChangesOf(m) = {} =>
            /\ m \in DOMAIN models <=> m \in DOMAIN stored
            /\ m \in DOMAIN models => models[m] = stored[m]
==============================================================================
