---------------------------- MODULE AsyncResults -----------------------------
(***************************************************************************)
(* AsyncResultManager: results in memory in front of the table             *)
(* async_results.  The rows are read in the background when the process    *)
(* starts; every later change goes to memory at once and to the row by a   *)
(* statement whose failure is only logged.                                 *)
(***************************************************************************)
EXTENDS Naturals, FiniteSets

CONSTANTS
    RequestIds,
    LoadLimit,      \* rows read at the start, 1000
    MaxStatements   \* bound: statements in flight at once

ASSUME AsyncAssumption == LoadLimit \in Nat

VARIABLES
    manager,        \* down, connecting, connected, selected, ready or memoryOnly
    results,        \* results, in memory
    stored,         \* the table async_results
    started,        \* started_at of its rows, as the rows there were when they came
    lapsed,         \* rows whose expires_at is past
    statements,     \* upserts in flight; a pool of connections orders none
    selection,      \* the rows the initial SELECT returned
    requested,      \* ids ever given out
    raced           \* history: ids of changes that overlapped or failed in this life

rowvars == <<stored, started, lapsed>>
avars == <<manager, results, rowvars, statements, selection, requested, raced>>

AsyncStatuses == {"pending", "processing", "completed", "failed", "expired"}
Pending == [status |-> "pending", result |-> FALSE, error |-> FALSE]
NoResults == [r \in {} |-> Pending]

With(f, r, x) == [s \in DOMAIN f \union {r} |-> IF s = r THEN x ELSE f[s]]

AsyncInit ==
    /\ manager = "down"
    /\ results = NoResults /\ stored = NoResults /\ selection = NoResults
    /\ started = [r \in {} |-> 0] /\ lapsed = {}
    /\ statements = {} /\ requested = {} /\ raced = {}

Unlapsed == DOMAIN stored \ lapsed

\* The rows that an order by started_at may put before this one.
Newer(r) == {s \in DOMAIN stored \ {r} : started[s] >= started[r]}

\* The statements of which these are the values are executed: a new row starts
\* now, an old one keeps its start, and each expires a day from now.
Executes(values) ==
    /\ stored' = [r \in DOMAIN stored \union DOMAIN values |->
                     IF r \in DOMAIN values THEN values[r] ELSE stored[r]]
    /\ started' = [r \in DOMAIN stored \union DOMAIN values |->
                      IF r \in DOMAIN stored THEN started[r] ELSE Cardinality(DOMAIN stored)]
    /\ lapsed' = lapsed \ DOMAIN values

------------------------------------------------------------------------------
(***************************************************************************)
(* The start: constructor, initializeDatabase, loadResultsFromDatabase     *)
(***************************************************************************)

ManagerConstructed ==
    manager' = "connecting" /\ UNCHANGED <<results, rowvars, statements, selection, requested, raced>>

Connected ==
    /\ manager = "connecting" /\ manager' \in {"connected", "memoryOnly"}
    /\ UNCHANGED <<results, rowvars, statements, selection, requested, raced>>

SelectsOldest ==    \* mutant
    /\ manager = "connected" /\ manager' = "selected"
    /\ \E picked \in SUBSET Unlapsed :
          /\ Cardinality(picked) <= LoadLimit
          /\ \A r \in Unlapsed \ picked :
                Cardinality(picked) = LoadLimit /\ \A s \in picked : started[s] <= started[r]
          /\ selection' = [r \in picked |-> stored[r]]
    /\ raced' = raced \union {st.id : st \in statements}
    /\ UNCHANGED <<results, rowvars, statements, requested>>

\* The SELECT runs, for the newest of the rows that have not expired: a change
\* whose statement is still under way is not in it.
RowsSelected ==
    /\ manager = "connected" /\ manager' = "selected"
    /\ \E picked \in SUBSET Unlapsed :
          /\ Cardinality(picked) <= LoadLimit
          /\ \A r \in Unlapsed \ picked : Cardinality(picked) = LoadLimit /\ picked \subseteq Newer(r)
          /\ selection' = [r \in picked |-> stored[r]]
    /\ raced' = raced \union {st.id : st \in statements}
    /\ UNCHANGED <<results, rowvars, statements, requested>>

\* The rows replace what memory holds of them.
ResultsLoaded ==
    /\ manager = "selected" /\ manager' = "ready"
    /\ results' = [r \in DOMAIN results \union DOMAIN selection |->
                      IF r \in DOMAIN selection THEN selection[r] ELSE results[r]]
    /\ selection' = NoResults
    /\ UNCHANGED <<rowvars, statements, requested, raced>>

\* The SELECT fails; the repository stays, so later changes are persisted.
LoadFails ==
    /\ manager = "connected" /\ manager' = "ready"
    /\ raced' = raced \union DOMAIN stored \union {st.id : st \in statements}
    /\ UNCHANGED <<results, rowvars, statements, selection, requested>>

------------------------------------------------------------------------------
(***************************************************************************)
(* Requests                                                                *)
(***************************************************************************)

HasRepository == manager \in {"connected", "selected", "ready"}
InFlightOf(r) == {st \in statements : st.id = r}

StoresWhatItWas(r, x) ==    \* mutant
    /\ Cardinality(statements) < MaxStatements
    /\ results' = With(results, r, x)
    /\ statements' = statements \union
          {[id |-> r, value |-> IF r \in DOMAIN results THEN results[r] ELSE x]}
    /\ raced' = IF ~HasRepository \/ InFlightOf(r) # {} \/ r \in DOMAIN selection
                THEN raced \union {r} ELSE raced
    /\ UNCHANGED <<manager, rowvars, selection>>

\* storeResult: memory first, then a statement with the values of now.
StoreResult(r, x) ==
    /\ Cardinality(statements) < MaxStatements
    /\ results' = With(results, r, x)
    /\ statements' = IF HasRepository THEN statements \union {[id |-> r, value |-> x]} ELSE statements
    /\ raced' = IF ~HasRepository \/ InFlightOf(r) # {} \/ r \in DOMAIN selection
                THEN raced \union {r} ELSE raced
    /\ UNCHANGED <<manager, rowvars, selection>>

CreateAsyncRequest(r) ==
    /\ r \notin requested
    /\ requested' = requested \union {r}
    /\ StoreResult(r, Pending)

\* The status is whatever the client says: a settled result may be reopened.
UpdateResultStatus(r) ==
    /\ r \in DOMAIN results
    /\ \E status \in AsyncStatuses : StoreResult(r, [results[r] EXCEPT !.status = status])
    /\ UNCHANGED requested

CompleteAsyncRequest(r) ==
    /\ r \in DOMAIN results
    /\ StoreResult(r, [results[r] EXCEPT !.status = "completed", !.result = TRUE])
    /\ UNCHANGED requested

FailAsyncRequest(r) ==
    /\ r \in DOMAIN results
    /\ StoreResult(r, [results[r] EXCEPT !.status = "failed", !.error = TRUE])
    /\ UNCHANGED requested

\* The database executes a statement, in any order, or refuses it.  One that
\* was executed and whose answer is lost is logged and changes no more.
StatementExecuted(st) ==
    /\ st \in statements
    /\ Executes([r \in {st.id} |-> st.value])
    /\ statements' = statements \ {st}
    /\ UNCHANGED <<manager, results, selection, requested, raced>>

StatementFails(st) ==
    /\ st \in statements
    /\ statements' = statements \ {st}
    /\ raced' = raced \union {st.id}
    /\ UNCHANGED <<manager, results, rowvars, selection, requested>>

\* A day has passed since a row was last written.
RowLapses(r) ==
    /\ r \in Unlapsed
    /\ lapsed' = lapsed \union {r}
    /\ UNCHANGED <<manager, results, stored, started, statements, selection, requested, raced>>

\* The process ends; the database may still execute what is under way.
ManagerLost ==
    /\ \E done \in SUBSET statements :
          \* one statement of each request is the last
          \E last \in [{st.id : st \in done} -> done] :
             /\ \A r \in DOMAIN last : last[r].id = r
             /\ Executes([r \in DOMAIN last |-> last[r].value])
    /\ manager' = "down"
    /\ results' = NoResults /\ selection' = NoResults /\ statements' = {} /\ raced' = {}
    /\ UNCHANGED requested

Loading == Connected \/ RowsSelected \/ ResultsLoaded \/ LoadFails

AsyncRequest ==
    \/ \E r \in RequestIds :
          \/ CreateAsyncRequest(r) \/ UpdateResultStatus(r)
          \/ CompleteAsyncRequest(r) \/ FailAsyncRequest(r)
    \/ \E st \in statements : StatementExecuted(st) \/ StatementFails(st)

------------------------------------------------------------------------------

\* A row the start reads: it has not expired and is among the newest.
Loadable(r) == r \in Unlapsed /\ Cardinality(Newer(r)) < LoadLimit

\* Once the rows are loaded, what clients are shown is what the table holds and a
\* restart will read, and each row that has not expired and is among the newest
\* of the table is shown: except while a statement is under way, and for requests
\* whose changes overlapped one another or the loading, or failed, or came while
\* there was no database.
DurableUnlessRaced ==
    manager = "ready" =>
        \A r \in RequestIds \ raced :
            InFlightOf(r) = {} =>
                /\ r \in DOMAIN results => r \in DOMAIN stored /\ results[r] = stored[r]
                /\ Loadable(r) => r \in DOMAIN results
==============================================================================
