--------------------------- MODULE Server_proofs ----------------------------
(***************************************************************************)
(* The server through any number of starts, failures and kills, for any    *)
(* images, requests and sources: what the database records of migrations   *)
(* is what was done, what clients are shown of results is stored, and what *)
(* is catalogued of a document is on disk.                                 *)
(***************************************************************************)
EXTENDS Server, FiniteSetTheorems, TLAPS

------------------------------------------------------------------------------
(***************************************************************************)
(* Migrations                                                              *)
(***************************************************************************)

\* What is planned is not applied, and once the plan is made it is all the image
\* still lacks; while a script is being recorded there is one.
PlanSound ==
    /\ plan \intersect Applied = {}
    /\ server \in {"migrating", "recording", "serving"} => image \subseteq Applied \union plan
    /\ server \in {"down", "planning", "serving"} => plan = {}
    /\ server = "recording" => \E v \in Versions : IsNext(v)

MigrationsInv == MigrationsTypeOK /\ SchemaIsAsRecorded /\ PlanSound

\* Recording a version changes the applied ones by that version only.
LEMMA RecordApplied ==
    ASSUME MigrationsTypeOK, NEW v \in Versions, NEW success \in BOOLEAN, Record(v, success)
    PROVE  /\ Applied' = IF success THEN Applied \union {v} ELSE Applied \ {v}
           /\ DOMAIN recorded' \subseteq Versions /\ recorded' \in [DOMAIN recorded' -> BOOLEAN]
<1>1. DOMAIN recorded' = DOMAIN recorded \union {v}
  BY DEF Record
<1>2. \A w \in DOMAIN recorded' : recorded'[w] = IF w = v THEN success ELSE recorded[w]
  BY <1>1 DEF Record
<1>3. \A w \in DOMAIN recorded : recorded[w] \in BOOLEAN
  BY DEF MigrationsTypeOK
<1>4. DOMAIN recorded' \subseteq Versions /\ recorded' \in [DOMAIN recorded' -> BOOLEAN]
  BY <1>1, <1>2, <1>3 DEF MigrationsTypeOK, Record
<1>5. /\ \A w : w \in Applied <=> w \in DOMAIN recorded /\ recorded[w]
      /\ \A w : w \in Applied' <=> w \in DOMAIN recorded' /\ recorded'[w]
  BY DEF Applied
<1>6. CASE success
  <2>1. \A w : w \in Applied' <=> w \in Applied \/ w = v
    BY <1>1, <1>2, <1>5, <1>6, Zenon
  <2> QED BY <1>4, <1>6, <2>1
<1>7. CASE ~success
  <2>1. \A w : w \in Applied' <=> w \in Applied /\ w # v
    BY <1>1, <1>2, <1>5, <1>7, Zenon
  <2> QED BY <1>4, <1>7, <2>1
<1> QED BY <1>6, <1>7

\* There is one next migration at most.
LEMMA NextIsOne ==
    ASSUME plan \subseteq Versions, NEW v \in Versions, NEW w \in Versions, IsNext(v), IsNext(w)
    PROVE  v = w
<1>1. v \in Nat /\ w \in Nat /\ v <= w /\ w <= v
  BY ImagesAssumption DEF IsNext
<1> QED BY <1>1

LEMMA MigrationsStart == MigrationsInit => MigrationsInv
BY DEF MigrationsInit, MigrationsInv, MigrationsTypeOK, SchemaIsAsRecorded, PlanSound,
       Applied, UnderWay, IsNext

LEMMA MigrationsStep == MigrationsInv /\ [MigrationsNext]_mvars => MigrationsInv'
<1> SUFFICES ASSUME MigrationsInv, [MigrationsNext]_mvars PROVE MigrationsInv'
  OBVIOUS
<1> USE DEF MigrationsInv
<1>0. /\ plan \subseteq Versions /\ image \subseteq Versions
      /\ \A v \in Versions : ran[v] \in Nat /\ unrecorded[v] \in Nat
  BY ImagesAssumption DEF MigrationsTypeOK
<1>1. CASE ProcessStarts
  <2>1. MigrationsTypeOK'
    BY <1>1 DEF ProcessStarts, MigrationsTypeOK
  <2>2. Applied' = Applied /\ \A v \in Versions : ~UnderWay(v) /\ ~UnderWay(v)'
    BY <1>1 DEF ProcessStarts, Applied, UnderWay
  <2>3. SchemaIsAsRecorded'
    BY <1>1, <2>2 DEF ProcessStarts, SchemaIsAsRecorded
  <2>4. PlanSound'
    BY <1>1, <2>2 DEF ProcessStarts, PlanSound
  <2> QED BY <2>1, <2>3, <2>4
<1>2. CASE Planned
  <2>1. Applied' = Applied /\ plan' = image \ Applied /\ image' = image
    BY <1>2 DEF Planned, Applied, PlanPendingMigrations
  <2>2. MigrationsTypeOK'
    BY <1>0, <1>2, <2>1 DEF Planned, MigrationsTypeOK
  <2>3. server' = "serving" => image' \subseteq Applied'
    BY <1>2, <2>1 DEF Planned
  <2>4. \A v \in Versions : ~UnderWay(v) /\ ~UnderWay(v)'
    BY <1>2 DEF Planned, UnderWay
  <2>5. SchemaIsAsRecorded'
    BY <1>2, <2>1, <2>3, <2>4 DEF Planned, SchemaIsAsRecorded
  <2>6. PlanSound'
    BY <1>2, <2>1 DEF Planned, PlanSound
  <2> QED BY <2>2, <2>5, <2>6
<1>3. CASE PlanFails
  <2>1. Applied' = Applied /\ \A v \in Versions : ~UnderWay(v) /\ ~UnderWay(v)'
    BY <1>3 DEF PlanFails, Applied, UnderWay
  <2> QED BY <1>3, <2>1 DEF PlanFails, MigrationsTypeOK, SchemaIsAsRecorded, PlanSound
<1>4. CASE ScriptRuns
  <2>1. PICK v \in Versions : IsNext(v) /\ ran' = [ran EXCEPT ![v] = @ + 1]
    BY <1>4 DEF ScriptRuns
  <2>2. /\ Applied' = Applied /\ plan' = plan /\ image' = image
        /\ unrecorded' = unrecorded /\ recorded' = recorded
        /\ server = "migrating" /\ server' = "recording" /\ starts' = starts
    BY <1>4 DEF ScriptRuns, Applied
  <2>3. MigrationsTypeOK'
    BY <1>0, <2>1, <2>2 DEF MigrationsTypeOK
  <2>4. \A w \in Versions : ~UnderWay(w) /\ (UnderWay(w)' <=> w = v)
    BY <1>0, <2>1, <2>2, NextIsOne DEF UnderWay, IsNext
  <2>5. v \notin Applied
    BY <2>1 DEF PlanSound, IsNext
  <2>6. \A w \in Versions : ran'[w] = IF w = v THEN ran[w] + 1 ELSE ran[w]
    BY <2>1 DEF MigrationsTypeOK
  <2>7. SchemaIsAsRecorded'
    BY <1>0, <2>2, <2>4, <2>5, <2>6 DEF SchemaIsAsRecorded
  <2>8. PlanSound'
    BY <2>1, <2>2 DEF PlanSound, IsNext
  <2> QED BY <2>3, <2>7, <2>8
<1>5. CASE ScriptFails
  <2>1. PICK v \in Versions : IsNext(v) /\ (Record(v, FALSE) \/ UNCHANGED recorded)
    BY <1>5 DEF ScriptFails
  <2>2. v \notin Applied
    BY <2>1 DEF PlanSound, IsNext
  <2>3. /\ Applied' = Applied
        /\ DOMAIN recorded' \subseteq Versions /\ recorded' \in [DOMAIN recorded' -> BOOLEAN]
    <3>1. CASE Record(v, FALSE)
      BY <2>2, <3>1, RecordApplied
    <3>2. CASE UNCHANGED recorded
      BY <3>2 DEF Applied, MigrationsTypeOK
    <3> QED BY <2>1, <3>1, <3>2
  <2>4. \A w \in Versions : ~UnderWay(w) /\ ~UnderWay(w)'
    BY <1>5 DEF ScriptFails, UnderWay
  <2> QED BY <1>5, <2>3, <2>4 DEF ScriptFails, MigrationsTypeOK, SchemaIsAsRecorded, PlanSound
<1>6. CASE SuccessRecorded
  <2>1. PICK v \in Versions : IsNext(v) /\ Record(v, TRUE) /\ plan' = plan \ {v}
    BY <1>6 DEF SuccessRecorded
  <2>2. /\ Applied' = Applied \union {v}
        /\ DOMAIN recorded' \subseteq Versions /\ recorded' \in [DOMAIN recorded' -> BOOLEAN]
    BY <2>1, RecordApplied
  <2>3. /\ image' = image /\ ran' = ran /\ unrecorded' = unrecorded /\ starts' = starts
        /\ server = "recording" /\ server' = IF plan' = {} THEN "serving" ELSE "migrating"
    BY <1>6 DEF SuccessRecorded
  <2>4. \A w \in Versions : (UnderWay(w) <=> w = v) /\ ~UnderWay(w)'
    BY <1>0, <2>1, <2>3, NextIsOne DEF UnderWay
  <2>5. MigrationsTypeOK'
    BY <1>0, <2>1, <2>2, <2>3 DEF MigrationsTypeOK
  <2>6. image' \subseteq Applied' \union plan'
    BY <2>1, <2>2, <2>3 DEF PlanSound
  <2>7. SchemaIsAsRecorded'
    BY <2>2, <2>3, <2>4, <2>6 DEF SchemaIsAsRecorded
  <2>8. PlanSound'
    BY <2>1, <2>2, <2>3, <2>6 DEF PlanSound
  <2> QED BY <2>5, <2>7, <2>8
<1>7. CASE RecordFails
  <2>1. PICK v \in Versions : /\ IsNext(v) /\ (Record(v, FALSE) \/ UNCHANGED recorded)
                              /\ unrecorded' = [unrecorded EXCEPT ![v] = @ + 1]
    BY <1>7 DEF RecordFails
  <2>2. v \notin Applied
    BY <2>1 DEF PlanSound, IsNext
  <2>3. /\ Applied' = Applied
        /\ DOMAIN recorded' \subseteq Versions /\ recorded' \in [DOMAIN recorded' -> BOOLEAN]
    <3>1. CASE Record(v, FALSE)
      BY <2>2, <3>1, RecordApplied
    <3>2. CASE UNCHANGED recorded
      BY <3>2 DEF Applied, MigrationsTypeOK
    <3> QED BY <2>1, <3>1, <3>2
  <2>4. \A w \in Versions : (UnderWay(w) <=> w = v) /\ ~UnderWay(w)'
    BY <1>0, <1>7, <2>1, NextIsOne DEF UnderWay, RecordFails
  <2>5. \A w \in Versions : unrecorded'[w] = IF w = v THEN unrecorded[w] + 1 ELSE unrecorded[w]
    BY <2>1 DEF MigrationsTypeOK
  <2>6. /\ image' = image /\ ran' = ran /\ starts' = starts /\ plan' = {} /\ server' = "down"
    BY <1>7 DEF RecordFails
  <2>7. MigrationsTypeOK'
    BY <1>0, <2>1, <2>3, <2>6 DEF MigrationsTypeOK
  <2>8. SchemaIsAsRecorded'
    BY <1>0, <2>2, <2>3, <2>4, <2>5, <2>6 DEF SchemaIsAsRecorded
  <2> QED BY <2>6, <2>7, <2>8 DEF PlanSound
<1>8. CASE ProcessKilled
  <2>1. /\ image' = image /\ ran' = ran /\ starts' = starts /\ plan' = {} /\ server' = "down"
        /\ recorded' = recorded /\ Applied' = Applied
        /\ unrecorded' = [v \in Versions |-> IF UnderWay(v) THEN unrecorded[v] + 1 ELSE unrecorded[v]]
    BY <1>8 DEF ProcessKilled, Applied
  <2>2. \A v \in Versions : UnderWay(v) => v \notin Applied
    BY DEF UnderWay, IsNext, PlanSound
  <2>3. \A v \in Versions : ~UnderWay(v)'
    BY <2>1 DEF UnderWay
  <2>4. MigrationsTypeOK'
    BY <1>0, <2>1 DEF MigrationsTypeOK
  <2>5. SchemaIsAsRecorded'
    BY <1>0, <2>1, <2>2, <2>3 DEF SchemaIsAsRecorded
  <2> QED BY <2>1, <2>4, <2>5 DEF PlanSound
<1>9. CASE UNCHANGED mvars
  BY <1>9 DEF mvars, MigrationsTypeOK, SchemaIsAsRecorded, PlanSound, Applied, UnderWay, IsNext
<1> QED BY <1>1, <1>2, <1>3, <1>4, <1>5, <1>6, <1>7, <1>8, <1>9 DEF MigrationsNext

------------------------------------------------------------------------------
(***************************************************************************)
(* Asynchronous results                                                    *)
(***************************************************************************)

Raceless(r) == r \notin raced

\* A statement under way carries what memory holds, unless its request raced.
StatementsCurrent ==
    \A st \in statements : Raceless(st.id) =>
        st.id \in DOMAIN results /\ st.value = results[st.id]

\* What memory holds is stored, unless a statement is under way or it raced.
ResultsStored ==
    \A r \in DOMAIN results : Raceless(r) /\ InFlightOf(r) = {} =>
        r \in DOMAIN stored /\ stored[r] = results[r]

\* The selected rows are still those of the table, and what the start would read
\* now is selected or in memory.
SelectionCurrent ==
    manager = "selected" =>
        /\ \A r \in DOMAIN selection : Raceless(r) =>
              InFlightOf(r) = {} /\ r \in DOMAIN stored /\ stored[r] = selection[r]
        /\ \A r \in DOMAIN stored : Raceless(r) /\ Loadable(r) => r \in DOMAIN selection \union DOMAIN results

\* Before there is a repository there are no statements; only while the rows are
\* selected and not loaded is there a selection; and once they are loaded memory
\* has every row the start would read.
LoadingSound ==
    /\ manager \in {"down", "connecting"} => statements = {}
    /\ manager \in {"down", "connecting"} => \A r \in DOMAIN results : ~Raceless(r)
    /\ manager # "selected" => DOMAIN selection = {}
    /\ manager = "ready" => \A r \in DOMAIN stored : Raceless(r) /\ Loadable(r) => r \in DOMAIN results

RowsFinite == IsFiniteSet(DOMAIN stored) /\ IsFiniteSet(statements)

AsyncInv == StatementsCurrent /\ ResultsStored /\ SelectionCurrent /\ LoadingSound /\ RowsFinite

USE AsyncAssumption DEF rowvars

\* A row that was not written and is read now would have been read before: time
\* only makes rows expire, and new rows only come before it.
LEMMA LoadableBefore ==
    ASSUME IsFiniteSet(DOMAIN stored)', NEW r \in DOMAIN stored,
           DOMAIN stored \subseteq DOMAIN stored', \A s \in DOMAIN stored : started'[s] = started[s],
           r \in lapsed => r \in lapsed', Loadable(r)'
    PROVE  Loadable(r)
<1>1. Newer(r) \subseteq Newer(r)'
  BY DEF Newer
<1>2. IsFiniteSet(Newer(r)')
  BY FS_Subset DEF Newer
<1>3. /\ IsFiniteSet(Newer(r)) /\ Cardinality(Newer(r)) <= Cardinality(Newer(r)')
      /\ Cardinality(Newer(r)) \in Nat /\ Cardinality(Newer(r)') \in Nat
  BY <1>1, <1>2, FS_Subset, FS_CardinalityType
<1> QED BY <1>3 DEF Loadable, Unlapsed

\* While the table stays as it is, so does what the start would read.
LEMMA LoadableSame ==
    ASSUME UNCHANGED rowvars
    PROVE  \A r : Loadable(r)' <=> Loadable(r)
BY DEF Loadable, Newer, Unlapsed

\* What the SELECT leaves out has expired or is not among the newest.
LEMMA PickedAll ==
    ASSUME IsFiniteSet(DOMAIN stored), NEW picked \in SUBSET Unlapsed, NEW r \in Unlapsed \ picked,
           Cardinality(picked) = LoadLimit, picked \subseteq Newer(r)
    PROVE  ~ Loadable(r)
<1>1. IsFiniteSet(Newer(r))
  BY FS_Subset DEF Newer
<1>2. Cardinality(picked) <= Cardinality(Newer(r)) /\ Cardinality(Newer(r)) \in Nat
  BY <1>1, FS_Subset, FS_CardinalityType
<1> QED BY <1>2 DEF Loadable

\* Storing a result keeps the invariant: a change that overlaps another, or the
\* loading, or finds no repository, marks its request.
LEMMA StoreKeeps ==
    ASSUME AsyncInv, NEW r, NEW x, StoreResult(r, x)
    PROVE  AsyncInv'
<1>1. /\ manager' = manager /\ UNCHANGED rowvars /\ selection' = selection
      /\ results' = With(results, r, x)
      /\ statements' = IF HasRepository THEN statements \union {[id |-> r, value |-> x]} ELSE statements
      /\ raced' = IF ~HasRepository \/ InFlightOf(r) # {} \/ r \in DOMAIN selection
                  THEN raced \union {r} ELSE raced
  BY DEF StoreResult
<1>2. /\ DOMAIN results' = DOMAIN results \union {r} /\ results'[r] = x
      /\ \A s \in DOMAIN results : s # r => results'[s] = results[s]
  BY <1>1 DEF With
<1>3. /\ \A s : Raceless(s)' => Raceless(s)
      /\ Raceless(r)' => HasRepository /\ InFlightOf(r) = {} /\ r \notin DOMAIN selection
  BY <1>1 DEF Raceless
<1>4. \A st \in statements' : st \in statements \/ (HasRepository /\ st = [id |-> r, value |-> x])
  BY <1>1
<1>5. \A s : s # r => InFlightOf(s)' = InFlightOf(s)
  BY <1>1 DEF InFlightOf
<1>6. Raceless(r)' => InFlightOf(r)' # {}
  <2> SUFFICES ASSUME Raceless(r)' PROVE [id |-> r, value |-> x] \in InFlightOf(r)'
    OBVIOUS
  <2>1. [id |-> r, value |-> x] \in statements' /\ [id |-> r, value |-> x].id = r
    BY <1>1, <1>3
  <2> QED BY <2>1 DEF InFlightOf
<1>7. StatementsCurrent'
  <2> SUFFICES ASSUME NEW st \in statements', Raceless(st.id)'
               PROVE  st.id \in DOMAIN results' /\ st.value = results'[st.id]
    BY DEF StatementsCurrent, Raceless
  <2>1. CASE st \in statements
    <3>1. st.id # r
      BY <1>3, <2>1 DEF InFlightOf
    <3> QED BY <1>2, <1>3, <2>1, <3>1 DEF AsyncInv, StatementsCurrent
  <2>2. CASE st = [id |-> r, value |-> x]
    BY <1>2, <2>2
  <2> QED BY <1>4, <2>1, <2>2
<1>8. ResultsStored'
  <2> SUFFICES ASSUME NEW s \in DOMAIN results', Raceless(s)', InFlightOf(s)' = {}
               PROVE  s \in DOMAIN stored' /\ stored'[s] = results'[s]
    BY DEF ResultsStored, Raceless
  <2>1. s # r
    BY <1>6
  <2> QED BY <1>1, <1>2, <1>3, <1>5, <2>1 DEF AsyncInv, ResultsStored
<1>9. SelectionCurrent'
  BY <1>1, <1>2, <1>3, <1>5, LoadableSame DEF AsyncInv, SelectionCurrent
<1>10. LoadingSound'
  BY <1>1, <1>2, <1>3, LoadableSame DEF AsyncInv, LoadingSound, HasRepository, Raceless
<1>11. RowsFinite'
  BY <1>1, FS_AddElement DEF AsyncInv, RowsFinite
<1> QED BY <1>7, <1>8, <1>9, <1>10, <1>11 DEF AsyncInv

LEMMA RequestKeeps ==
    ASSUME AsyncInv, AsyncRequest
    PROVE  AsyncInv'
<1>1. ASSUME NEW r, NEW x, StoreResult(r, x) PROVE AsyncInv'
  BY <1>1, StoreKeeps
<1>2. ASSUME NEW r \in RequestIds,
             \/ CreateAsyncRequest(r) \/ UpdateResultStatus(r)
             \/ CompleteAsyncRequest(r) \/ FailAsyncRequest(r)
      PROVE  \E x : StoreResult(r, x)
  BY <1>2 DEF CreateAsyncRequest, UpdateResultStatus, CompleteAsyncRequest, FailAsyncRequest
<1>3. ASSUME NEW st \in statements, StatementExecuted(st) PROVE AsyncInv'
  <2>1. /\ manager' = manager /\ results' = results /\ selection' = selection /\ raced' = raced
        /\ statements' = statements \ {st} /\ Executes([r \in {st.id} |-> st.value])
    BY <1>3 DEF StatementExecuted
  <2>2. /\ DOMAIN stored' = DOMAIN stored \union {st.id} /\ stored'[st.id] = st.value
        /\ \A s \in DOMAIN stored : s # st.id => stored'[s] = stored[s]
        /\ \A s \in DOMAIN stored : started'[s] = started[s]
        /\ \A s : s # st.id /\ s \in lapsed => s \in lapsed'
    BY <2>1 DEF Executes
  <2>9. RowsFinite'
    BY <2>1, <2>2, FS_AddElement, FS_RemoveElement DEF AsyncInv, RowsFinite
  <2>10. \A s \in DOMAIN stored : s # st.id /\ Loadable(s)' => Loadable(s)
    BY <2>2, <2>9, LoadableBefore DEF RowsFinite
  <2>3. Raceless(st.id) => st.id \in DOMAIN results /\ st.value = results[st.id]
    BY DEF AsyncInv, StatementsCurrent
  <2>4. /\ \A s : Raceless(s)' <=> Raceless(s)
        /\ \A s : InFlightOf(s)' \subseteq InFlightOf(s)
        /\ \A s : s # st.id => InFlightOf(s)' = InFlightOf(s)
        /\ InFlightOf(st.id) # {}
    BY <2>1 DEF Raceless, InFlightOf
  <2>5. StatementsCurrent'
    BY <2>1, <2>4 DEF AsyncInv, StatementsCurrent
  <2>6. ResultsStored'
    BY <2>1, <2>2, <2>3, <2>4 DEF AsyncInv, ResultsStored
  <2>7. SelectionCurrent'
    BY <2>1, <2>2, <2>3, <2>4, <2>10 DEF AsyncInv, SelectionCurrent
  <2>8. LoadingSound'
    BY <2>1, <2>2, <2>3, <2>4, <2>10 DEF AsyncInv, LoadingSound
  <2> QED BY <2>5, <2>6, <2>7, <2>8, <2>9 DEF AsyncInv
<1>4. ASSUME NEW st \in statements, StatementFails(st) PROVE AsyncInv'
  <2>1. /\ manager' = manager /\ results' = results /\ selection' = selection /\ UNCHANGED rowvars
        /\ statements' = statements \ {st} /\ raced' = raced \union {st.id}
    BY <1>4 DEF StatementFails
  <2>2. /\ \A s : Raceless(s)' => Raceless(s) /\ s # st.id
        /\ \A s : s # st.id => InFlightOf(s)' = InFlightOf(s)
    BY <2>1 DEF Raceless, InFlightOf
  <2>3. StatementsCurrent'
    BY <2>1, <2>2 DEF AsyncInv, StatementsCurrent
  <2>4. ResultsStored'
    BY <2>1, <2>2 DEF AsyncInv, ResultsStored
  <2>5. SelectionCurrent'
    BY <2>1, <2>2, LoadableSame DEF AsyncInv, SelectionCurrent
  <2>6. LoadingSound'
    BY <2>1, <2>2, LoadableSame DEF AsyncInv, LoadingSound
  <2>7. RowsFinite'
    BY <2>1, FS_RemoveElement DEF AsyncInv, RowsFinite
  <2> QED BY <2>3, <2>4, <2>5, <2>6, <2>7 DEF AsyncInv
<1> QED BY <1>1, <1>2, <1>3, <1>4 DEF AsyncRequest

\* A row that expires is not read any more.
LEMMA LapseKeeps ==
    ASSUME AsyncInv, NEW r \in RequestIds, RowLapses(r)
    PROVE  AsyncInv'
<1>1. /\ UNCHANGED <<manager, results, stored, started, statements, selection, requested, raced>>
      /\ lapsed' = lapsed \union {r}
  BY DEF RowLapses
<1>2. \A s : Raceless(s)' = Raceless(s) /\ InFlightOf(s)' = InFlightOf(s)
  BY <1>1 DEF Raceless, InFlightOf
<1>3. StatementsCurrent' /\ ResultsStored' /\ RowsFinite'
  BY <1>1, <1>2 DEF AsyncInv, StatementsCurrent, ResultsStored, RowsFinite
<1>4. \A s \in DOMAIN stored : Loadable(s)' => Loadable(s)
  BY <1>1, <1>3, LoadableBefore DEF RowsFinite
<1>5. SelectionCurrent' /\ LoadingSound'
  BY <1>1, <1>2, <1>4 DEF AsyncInv, SelectionCurrent, LoadingSound
<1> QED BY <1>3, <1>5 DEF AsyncInv

LEMMA LoadingKeeps ==
    ASSUME AsyncInv, Loading
    PROVE  AsyncInv'
<1>1. CASE Connected
  <2>1. UNCHANGED <<results, rowvars, statements, selection, raced>> /\ manager = "connecting"
        /\ manager' \in {"connected", "memoryOnly"}
    BY <1>1 DEF Connected
  <2> QED BY <2>1 DEF AsyncInv, StatementsCurrent, ResultsStored, SelectionCurrent, LoadingSound,
                      RowsFinite, Raceless, InFlightOf
<1>2. CASE RowsSelected
  <2>0. PICK picked \in SUBSET Unlapsed :
          /\ \A r \in Unlapsed \ picked : Cardinality(picked) = LoadLimit /\ picked \subseteq Newer(r)
          /\ selection' = [r \in picked |-> stored[r]]
    BY <1>2 DEF RowsSelected
  <2>1. /\ UNCHANGED <<results, rowvars, statements>> /\ manager' = "selected"
        /\ raced' = raced \union {st.id : st \in statements}
    BY <1>2 DEF RowsSelected
  <2>7. /\ DOMAIN selection' = picked /\ picked \subseteq DOMAIN stored
        /\ \A r \in picked : selection'[r] = stored[r]
        /\ \A r \in DOMAIN stored : Loadable(r) => r \in picked
    <3>1. ASSUME NEW r \in DOMAIN stored, Loadable(r), r \notin picked PROVE FALSE
      BY <2>0, <3>1, PickedAll DEF AsyncInv, RowsFinite, Loadable
    <3> QED BY <2>0, <3>1 DEF Unlapsed
  <2>2. /\ \A r : Raceless(r)' => Raceless(r) /\ InFlightOf(r) = {}
        /\ \A r : InFlightOf(r)' = InFlightOf(r)
    BY <2>1 DEF Raceless, InFlightOf
  <2>3. StatementsCurrent'
    BY <2>1, <2>2 DEF AsyncInv, StatementsCurrent
  <2>4. ResultsStored'
    BY <2>1, <2>2 DEF AsyncInv, ResultsStored
  <2>5. SelectionCurrent'
    BY <2>1, <2>2, <2>7, LoadableSame DEF SelectionCurrent
  <2>6. LoadingSound'
    BY <2>1 DEF LoadingSound
  <2>8. RowsFinite'
    BY <2>1 DEF AsyncInv, RowsFinite
  <2> QED BY <2>3, <2>4, <2>5, <2>6, <2>8 DEF AsyncInv
<1>3. CASE ResultsLoaded
  <2>1. /\ UNCHANGED <<rowvars, statements, raced>> /\ manager = "selected" /\ manager' = "ready"
        /\ results' = [r \in DOMAIN results \union DOMAIN selection |->
                          IF r \in DOMAIN selection THEN selection[r] ELSE results[r]]
        /\ DOMAIN selection' = {}
    BY <1>3 DEF ResultsLoaded, NoResults
  <2>2. /\ DOMAIN results' = DOMAIN results \union DOMAIN selection
        /\ \A r \in DOMAIN selection : results'[r] = selection[r]
        /\ \A r \in DOMAIN results : r \notin DOMAIN selection => results'[r] = results[r]
    BY <2>1
  <2>3. \A r : (Raceless(r)' <=> Raceless(r)) /\ InFlightOf(r)' = InFlightOf(r)
    BY <2>1 DEF Raceless, InFlightOf
  <2>4. \A r \in DOMAIN selection : Raceless(r) =>
           InFlightOf(r) = {} /\ r \in DOMAIN stored /\ stored[r] = selection[r]
    BY <2>1 DEF AsyncInv, SelectionCurrent
  <2>5. StatementsCurrent'
    <3> SUFFICES ASSUME NEW st \in statements, Raceless(st.id)
                 PROVE  st.id \in DOMAIN results' /\ st.value = results'[st.id]
      BY <2>1, <2>3 DEF StatementsCurrent
    <3>1. st.id \notin DOMAIN selection
      BY <2>4 DEF InFlightOf
    <3> QED BY <2>2, <3>1 DEF AsyncInv, StatementsCurrent
  <2>6. ResultsStored'
    BY <2>1, <2>2, <2>3, <2>4 DEF AsyncInv, ResultsStored
  <2>7. SelectionCurrent'
    BY <2>1 DEF SelectionCurrent
  <2>8. LoadingSound'
    BY <2>1, <2>2, <2>3, LoadableSame DEF AsyncInv, LoadingSound, SelectionCurrent
  <2>9. RowsFinite'
    BY <2>1 DEF AsyncInv, RowsFinite
  <2> QED BY <2>5, <2>6, <2>7, <2>8, <2>9 DEF AsyncInv
<1>4. CASE LoadFails
  <2>1. /\ UNCHANGED <<results, rowvars, statements, selection>> /\ manager = "connected" /\ manager' = "ready"
        /\ raced' = raced \union DOMAIN stored \union {st.id : st \in statements}
    BY <1>4 DEF LoadFails
  <2>2. /\ \A r : Raceless(r)' => Raceless(r) /\ r \notin DOMAIN stored
        /\ \A r : InFlightOf(r)' = InFlightOf(r)
    BY <2>1 DEF Raceless, InFlightOf
  <2>3. StatementsCurrent'
    BY <2>1, <2>2 DEF AsyncInv, StatementsCurrent
  <2>4. ResultsStored'
    BY <2>1, <2>2 DEF AsyncInv, ResultsStored
  <2>5. SelectionCurrent'
    BY <2>1 DEF SelectionCurrent
  <2>6. LoadingSound'
    BY <2>1, <2>2 DEF AsyncInv, LoadingSound
  <2>7. RowsFinite'
    BY <2>1 DEF AsyncInv, RowsFinite
  <2> QED BY <2>3, <2>4, <2>5, <2>6, <2>7 DEF AsyncInv
<1> QED BY <1>1, <1>2, <1>3, <1>4 DEF Loading

\* A process that has ended or just started holds nothing.
LEMMA EmptySound ==
    ASSUME manager \in {"down", "connecting"}, DOMAIN results = {}, statements = {}, DOMAIN selection = {},
           IsFiniteSet(DOMAIN stored)
    PROVE  AsyncInv
BY FS_EmptySet DEF AsyncInv, StatementsCurrent, ResultsStored, SelectionCurrent, LoadingSound, RowsFinite

\* What the end of the process leaves to the database makes finitely many rows.
LEMMA LostFinite ==
    ASSUME RowsFinite, ManagerLost
    PROVE  IsFiniteSet(DOMAIN stored)'
<1>1. PICK done \in SUBSET statements : \E last \in [{st.id : st \in done} -> done] :
        Executes([r \in DOMAIN last |-> last[r].value])
  BY DEF ManagerLost
<1>2. PICK last \in [{st.id : st \in done} -> done] : Executes([r \in DOMAIN last |-> last[r].value])
  BY <1>1
<1> DEFINE values == [r \in DOMAIN last |-> last[r].value]
<1>3. DOMAIN values = {st.id : st \in done}
  OBVIOUS
<1>4. DOMAIN stored' = DOMAIN stored \union DOMAIN values
  BY <1>2 DEF Executes
<1>5. IsFiniteSet({st.id : st \in done})
  <2>1. IsFiniteSet(done)
    BY FS_Subset DEF RowsFinite
  <2>2. [st \in done |-> st.id] \in Surjection(done, {st.id : st \in done})
    BY DEF Surjection
  <2> QED BY <2>1, <2>2, FS_Surjection
<1>6. IsFiniteSet(DOMAIN stored \union DOMAIN values)
  BY <1>3, <1>5, FS_Union DEF RowsFinite
<1> QED BY <1>4, <1>6

------------------------------------------------------------------------------
(***************************************************************************)
(* Ingests                                                                 *)
(***************************************************************************)

USE IngestAssumption DEF Catalogued

IsTask(x) ==
    /\ x = [pc |-> x.pc, source |-> x.source, run |-> x.run, content |-> x.content, id |-> x.id,
            alone |-> x.alone]
    /\ \/ x.pc = "idle" /\ x.source = "none"
       \/ /\ x.pc \in {"converting", "looking", "writing", "storing", "scoping", "chunking"}
          /\ x.source # "none"

HasId(x) == x.pc \in {"writing", "storing"}

IngestOK ==
    /\ generated \in 0 .. MaxIds
    /\ tasks = [t \in Tasks |-> tasks[t]] /\ \A t \in Tasks : IsTask(tasks[t])
    /\ disk = [i \in Ids |-> disk[i]] /\ renderings = [i \in Ids |-> renderings[i]]
    /\ \A s \in Catalogued : catalogue[s].id \in 1 .. generated
    /\ \A t \in Tasks : HasId(tasks[t]) => tasks[t].id \in 1 .. generated

\* An id is of one source.
IdsApart ==
    /\ \A s, u \in Catalogued : catalogue[s].id = catalogue[u].id => s = u
    /\ \A t \in Tasks, s \in Catalogued :
          HasId(tasks[t]) /\ catalogue[s].id = tasks[t].id => s = tasks[t].source
    /\ \A t, u \in Tasks :
          HasId(tasks[t]) /\ HasId(tasks[u]) /\ tasks[t].id = tasks[u].id =>
              tasks[t].source = tasks[u].source

\* An ingest that is alone with its source has written what it will store.
AloneWrites ==
    /\ \A t, u \in Tasks :
          t # u /\ tasks[t].source = tasks[u].source /\ tasks[t].source # "none" => ~ tasks[t].alone
    /\ \A t \in Tasks :
          tasks[t].pc = "storing" /\ tasks[t].alone => disk[tasks[t].id] = tasks[t].content

Storing(s) == \E t \in Tasks : tasks[t].source = s /\ tasks[t].pc = "storing"

AsOnDisk(s) ==
    disk[catalogue[s].id] = catalogue[s].checksum /\ renderings[catalogue[s].id] = catalogue[s].checksum

OnDisk == \A s \in Catalogued \ suspect : Storing(s) \/ AsOnDisk(s)

IngestInv == IngestOK /\ IdsApart /\ AloneWrites /\ OnDisk

\* A step of one task, which becomes y.
Went(t, y) ==
    /\ tasks' = [u \in Tasks |-> tasks'[u]] /\ tasks'[t] = y
    /\ \A u \in Tasks : u # t => tasks'[u] = tasks[u]

LEMMA TaskWent ==
    ASSUME IngestOK, NEW t \in Tasks, NEW y, tasks' = [tasks EXCEPT ![t] = y]
    PROVE  Went(t, y)
BY DEF Went, IngestOK

LEMMA PcGoes ==
    ASSUME NEW x, IsTask(x), NEW pc, NEW y, y = [x EXCEPT !.pc = pc]
    PROVE  y = [pc |-> pc, source |-> x.source, run |-> x.run, content |-> x.content, id |-> x.id,
                alone |-> x.alone]
BY DEF IsTask

LEMMA ContentGoes ==
    ASSUME NEW x, IsTask(x), NEW pc, NEW c, NEW y, y = [x EXCEPT !.pc = pc, !.content = c]
    PROVE  y = [pc |-> pc, source |-> x.source, run |-> x.run, content |-> c, id |-> x.id,
                alone |-> x.alone]
BY DEF IsTask

LEMMA IdGoes ==
    ASSUME NEW x, IsTask(x), NEW pc, NEW i, NEW y, y = [x EXCEPT !.pc = pc, !.id = i]
    PROVE  y = [pc |-> pc, source |-> x.source, run |-> x.run, content |-> x.content, id |-> i,
                alone |-> x.alone]
BY DEF IsTask

LEMMA NotAlone ==
    ASSUME NEW x, IsTask(x), NEW y, y = [x EXCEPT !.alone = FALSE]
    PROVE  /\ IsTask(y) /\ y.pc = x.pc /\ y.source = x.source /\ y.id = x.id /\ y.content = x.content
           /\ ~ y.alone
<1>1. y = [pc |-> x.pc, source |-> x.source, run |-> x.run, content |-> x.content, id |-> x.id,
           alone |-> FALSE]
  BY DEF IsTask
<1>2. y.pc = x.pc /\ y.source = x.source /\ y.run = x.run /\ y.id = x.id /\ y.content = x.content
        /\ ~ y.alone
  BY <1>1
<1>3. y = [pc |-> y.pc, source |-> y.source, run |-> y.run, content |-> y.content, id |-> y.id,
           alone |-> y.alone]
  BY <1>1
<1> QED BY <1>2, <1>3 DEF IsTask

\* A task that goes on to pc, with content c and id i.
Onwards(x, y, pc, c, i) ==
    /\ y = [pc |-> pc, source |-> x.source, run |-> x.run, content |-> c, id |-> i, alone |-> x.alone]
    /\ IsTask(y)

LEMMA Goes ==
    ASSUME IngestOK, NEW t \in Tasks, tasks[t].source # "none",
           NEW pc \in {"looking", "writing", "storing", "scoping", "chunking"}
    PROVE  /\ GoesTo(t, pc) =>
                 \E y : Onwards(tasks[t], y, pc, tasks[t].content, tasks[t].id) /\ Went(t, y)
           /\ \A c : tasks' = [tasks EXCEPT ![t].pc = pc, ![t].content = c] =>
                 \E y : Onwards(tasks[t], y, pc, c, tasks[t].id) /\ Went(t, y)
           /\ \A i : tasks' = [tasks EXCEPT ![t].pc = pc, ![t].id = i] =>
                 \E y : Onwards(tasks[t], y, pc, tasks[t].content, i) /\ Went(t, y)
<1> DEFINE x == tasks[t]
<1>1. IsTask(x)
  BY DEF IngestOK
<1>2. \A c, i : IsTask([pc |-> pc, source |-> x.source, run |-> x.run, content |-> c, id |-> i,
                        alone |-> x.alone])
  BY <1>1 DEF IsTask
<1>3. GoesTo(t, pc) => \E y : Onwards(x, y, pc, x.content, x.id) /\ Went(t, y)
  <2> SUFFICES ASSUME GoesTo(t, pc) PROVE \E y : Onwards(x, y, pc, x.content, x.id) /\ Went(t, y)
    OBVIOUS
  <2>1. PICK y : y = [x EXCEPT !.pc = pc]
    OBVIOUS
  <2>2. tasks' = [tasks EXCEPT ![t] = y]
    BY <2>1 DEF GoesTo, IngestOK
  <2>3. y = [pc |-> pc, source |-> x.source, run |-> x.run, content |-> x.content, id |-> x.id,
             alone |-> x.alone]
    BY <1>1, <2>1, PcGoes
  <2>4. IsTask(y)
    BY <1>2, <2>3
  <2>5. Went(t, y)
    BY <2>2, TaskWent
  <2> QED BY <2>3, <2>4, <2>5 DEF Onwards
<1>4. ASSUME NEW c, tasks' = [tasks EXCEPT ![t].pc = pc, ![t].content = c]
      PROVE  \E y : Onwards(x, y, pc, c, x.id) /\ Went(t, y)
  <2>1. PICK y : y = [x EXCEPT !.pc = pc, !.content = c]
    OBVIOUS
  <2>2. tasks' = [tasks EXCEPT ![t] = y]
    BY <1>4, <2>1 DEF IngestOK
  <2>3. y = [pc |-> pc, source |-> x.source, run |-> x.run, content |-> c, id |-> x.id,
             alone |-> x.alone]
    BY <1>1, <2>1, ContentGoes
  <2>4. IsTask(y)
    BY <1>2, <2>3
  <2>5. Went(t, y)
    BY <2>2, TaskWent
  <2> QED BY <2>3, <2>4, <2>5 DEF Onwards
<1>5. ASSUME NEW i, tasks' = [tasks EXCEPT ![t].pc = pc, ![t].id = i]
      PROVE  \E y : Onwards(x, y, pc, x.content, i) /\ Went(t, y)
  <2>1. PICK y : y = [x EXCEPT !.pc = pc, !.id = i]
    OBVIOUS
  <2>2. tasks' = [tasks EXCEPT ![t] = y]
    BY <1>5, <2>1 DEF IngestOK
  <2>3. y = [pc |-> pc, source |-> x.source, run |-> x.run, content |-> x.content, id |-> i,
             alone |-> x.alone]
    BY <1>1, <2>1, IdGoes
  <2>4. IsTask(y)
    BY <1>2, <2>3
  <2>5. Went(t, y)
    BY <2>2, TaskWent
  <2> QED BY <2>3, <2>4, <2>5 DEF Onwards
<1> QED BY <1>3, <1>4, <1>5

\* A task that stays with its source, or leaves it, and neither writes nor stores.
LEMMA AsideInv ==
    ASSUME IngestInv, NEW t \in Tasks, tasks[t].pc # "storing", NEW y, IsTask(y), Went(t, y),
           ~ HasId(y), y.source = "none" \/ (y.source = tasks[t].source /\ y.alone = tasks[t].alone),
           UNCHANGED <<catalogue, disk, renderings, generated, suspect>>
    PROVE  IngestInv'
<1>1. IngestOK'
  BY DEF IngestInv, IngestOK, Went
<1>2. IdsApart'
  BY DEF IngestInv, IdsApart, Went
<1>3. AloneWrites'
  BY DEF IngestInv, AloneWrites, Went, HasId
<1>4. \A s : Storing(s)' <=> Storing(s)
  BY DEF Storing, Went, HasId
<1>5. OnDisk'
  BY <1>4 DEF IngestInv, OnDisk, AsOnDisk
<1> QED BY <1>1, <1>2, <1>3, <1>5 DEF IngestInv

LEMMA NoTaskOK == IsTask(NoTask) /\ ~ HasId(NoTask) /\ NoTask.source = "none" /\ NoTask.pc = "idle"
BY DEF IsTask, NoTask, HasId

\* Ingests that begin, or that fail or end with nothing changed.
LEMMA BeginsInv ==
    ASSUME IngestInv, NEW t \in Tasks, ~ Busy(t), NEW s, s # "none", NEW r, Begins(t, s, r),
           UNCHANGED <<catalogue, disk, renderings, generated, suspect>>
    PROVE  IngestInv'
<1> DEFINE others == {u \in Tasks : tasks[u].source = s}
<1>1. \A u \in Tasks : IsTask(tasks[u])
  BY DEF IngestInv, IngestOK
<1>2. tasks[t].source = "none" /\ t \notin others
  BY <1>1 DEF Busy, IsTask
<1>3. PICK y : y = [NoTask EXCEPT !.pc = "converting", !.source = s, !.run = r, !.alone = others = {}]
  OBVIOUS
<1>4. y.pc = "converting" /\ y.source = s /\ (y.alone <=> others = {}) /\ IsTask(y)
  BY <1>3 DEF NoTask, IsTask
<1>5. /\ tasks' = [u \in Tasks |-> tasks'[u]] /\ tasks'[t] = y
      /\ \A u \in others : tasks'[u] = [tasks[u] EXCEPT !.alone = FALSE]
      /\ \A u \in Tasks \ others : u # t => tasks'[u] = tasks[u]
  BY <1>2, <1>3 DEF Begins
<1> HIDE DEF others
<1>6. ASSUME NEW u \in Tasks, u # t
      PROVE  /\ IsTask(tasks'[u]) /\ tasks'[u].pc = tasks[u].pc /\ tasks'[u].source = tasks[u].source
             /\ tasks'[u].id = tasks[u].id /\ tasks'[u].content = tasks[u].content
             /\ tasks'[u].alone => tasks[u].alone /\ u \notin others
  <2>1. CASE u \in others
    BY <1>1, <1>5, <2>1, NotAlone
  <2>2. CASE u \notin others
    <3>1. tasks'[u] = tasks[u]
      BY <1>5, <1>6, <2>2
    <3> QED BY <1>1, <2>2, <3>1
  <2> QED BY <2>1, <2>2
<1>7. IngestOK'
  BY <1>4, <1>5, <1>6 DEF IngestInv, IngestOK, HasId
<1>8. IdsApart'
  BY <1>4, <1>5, <1>6 DEF IngestInv, IdsApart, HasId
<1>9. AloneWrites'
  <2>1. ASSUME NEW u \in Tasks, NEW v \in Tasks, u # v, tasks'[u].source = tasks'[v].source,
               tasks'[u].source # "none", tasks'[u].alone
        PROVE  FALSE
    <3>1. CASE u = t
      BY <1>4, <1>5, <1>6, <2>1, <3>1 DEF others
    <3>2. CASE v = t
      BY <1>4, <1>5, <1>6, <2>1, <3>2 DEF others
    <3>3. CASE u # t /\ v # t
      BY <1>6, <2>1, <3>3 DEF IngestInv, AloneWrites
    <3> QED BY <3>1, <3>2, <3>3
  <2>2. \A u \in Tasks : tasks'[u].pc = "storing" /\ tasks'[u].alone => disk'[tasks'[u].id] = tasks'[u].content
    BY <1>4, <1>5, <1>6 DEF IngestInv, AloneWrites
  <2> QED BY <2>1, <2>2 DEF AloneWrites
<1>10. \A q : Storing(q)' <=> Storing(q)
  <2> SUFFICES ASSUME NEW q PROVE Storing(q)' <=> Storing(q)
    OBVIOUS
  <2>1. tasks[t].pc # "storing" /\ tasks'[t].pc # "storing"
    BY <1>4, <1>5 DEF Busy
  <2> QED BY <1>6, <2>1 DEF Storing
<1>11. OnDisk'
  BY <1>10 DEF IngestInv, OnDisk, AsOnDisk
<1> QED BY <1>7, <1>8, <1>9, <1>11 DEF IngestInv

\* A known source keeps its id, and the next id generated is nobody's.
LEMMA LookedUpInv ==
    ASSUME IngestInv, NEW t \in Tasks, LookedUp(t)
    PROVE  IngestInv'
<1> DEFINE x == tasks[t]
<1>1. IngestOK /\ IdsApart /\ x.pc = "looking" /\ x.source # "none"
  BY DEF IngestInv, IngestOK, IsTask, LookedUp
<1>2. UNCHANGED <<catalogue, disk, renderings, suspect>>
  BY DEF LookedUp
<1>3. PICK i, y :
         /\ Onwards(x, y, "writing", x.content, i) /\ Went(t, y)
         /\ i \in 1 .. generated' /\ generated' \in generated .. MaxIds
         /\ \A s \in Catalogued : catalogue[s].id = i => s = x.source
         /\ \A u \in Tasks : HasId(tasks[u]) /\ tasks[u].id = i => tasks[u].source = x.source
  <2>1. CASE x.source \in Catalogued
    <3>1. tasks' = [tasks EXCEPT ![t].pc = "writing", ![t].id = catalogue[x.source].id] /\ generated' = generated
      BY <2>1 DEF LookedUp
    <3>2. PICK y : Onwards(x, y, "writing", x.content, catalogue[x.source].id) /\ Went(t, y)
      BY <1>1, <3>1, Goes
    <3>3. catalogue[x.source].id \in 1 .. generated' /\ generated' \in generated .. MaxIds
      BY <1>1, <2>1, <3>1, IngestAssumption DEF IngestOK
    <3>4. \A s \in Catalogued : catalogue[s].id = catalogue[x.source].id => s = x.source
      BY <1>1, <2>1 DEF IdsApart
    <3>5. \A u \in Tasks : HasId(tasks[u]) /\ tasks[u].id = catalogue[x.source].id => tasks[u].source = x.source
      BY <1>1, <2>1 DEF IdsApart
    <3> QED BY <3>2, <3>3, <3>4, <3>5
  <2>2. CASE x.source \notin Catalogued
    <3>1. /\ tasks' = [tasks EXCEPT ![t].pc = "writing", ![t].id = generated + 1]
          /\ generated' = generated + 1 /\ generated < MaxIds
      BY <2>2 DEF LookedUp
    <3>2. PICK y : Onwards(x, y, "writing", x.content, generated + 1) /\ Went(t, y)
      BY <1>1, <3>1, Goes
    <3>3. generated + 1 \in 1 .. generated' /\ generated' \in generated .. MaxIds
      BY <1>1, <3>1, IngestAssumption DEF IngestOK
    <3>4. \A s \in Catalogued : catalogue[s].id # generated + 1
      BY <1>1 DEF IngestOK
    <3>5. \A u \in Tasks : HasId(tasks[u]) => tasks[u].id # generated + 1
      BY <1>1 DEF IngestOK
    <3> QED BY <3>2, <3>3, <3>4, <3>5
  <2> QED BY <2>1, <2>2
<1>4. /\ y.pc = "writing" /\ y.source = x.source /\ y.alone = x.alone /\ y.id = i /\ IsTask(y)
  BY <1>3 DEF Onwards
<1>5. IngestOK'
  <2>1. \A u \in Tasks : IsTask(tasks'[u]) /\ (HasId(tasks'[u]) => tasks'[u].id \in 1 .. generated')
    BY <1>1, <1>3, <1>4 DEF Went, IngestOK
  <2>2. \A s \in Catalogued : catalogue[s].id \in 1 .. generated'
    BY <1>1, <1>3 DEF IngestOK
  <2>3. generated' \in 0 .. MaxIds
    BY <1>1, <1>3 DEF IngestOK
  <2> QED BY <1>1, <1>2, <1>3, <2>1, <2>2, <2>3 DEF IngestOK, Went
<1>6. IdsApart'
  <2>1. \A u \in Tasks, s \in Catalogued :
           HasId(tasks'[u]) /\ catalogue[s].id = tasks'[u].id => s = tasks'[u].source
    BY <1>1, <1>3, <1>4 DEF Went, IdsApart
  <2>2. \A u, v \in Tasks :
           HasId(tasks'[u]) /\ HasId(tasks'[v]) /\ tasks'[u].id = tasks'[v].id =>
              tasks'[u].source = tasks'[v].source
    BY <1>1, <1>3, <1>4 DEF Went, IdsApart
  <2> QED BY <1>1, <1>2, <2>1, <2>2 DEF IdsApart
<1>7. AloneWrites'
  BY <1>2, <1>3, <1>4 DEF IngestInv, AloneWrites, Went
<1>8. \A s : Storing(s)' <=> Storing(s)
  BY <1>1, <1>3, <1>4 DEF Storing, Went
<1>9. OnDisk'
  BY <1>2, <1>8 DEF IngestInv, OnDisk, AsOnDisk
<1> QED BY <1>5, <1>6, <1>7, <1>9 DEF IngestInv

\* What a task writes, no row of another source is of and no other task that is
\* alone with its source.
LEMMA FilesWrittenInv ==
    ASSUME IngestInv, NEW t \in Tasks, FilesWritten(t)
    PROVE  IngestInv'
<1> DEFINE x == tasks[t]
<1>1. IngestOK /\ IdsApart /\ AloneWrites /\ OnDisk /\ x.pc = "writing" /\ HasId(x)
        /\ x.source # "none" /\ x.id \in 1 .. generated
  BY DEF IngestInv, IngestOK, IsTask, FilesWritten, HasId
<1>2. UNCHANGED <<catalogue, renderings, generated, runs, suspect>>
  BY DEF FilesWritten
<1>3. PICK y : Onwards(x, y, "storing", x.content, x.id) /\ Went(t, y)
  BY <1>1, Goes DEF FilesWritten
<1>4. y.pc = "storing" /\ y.source = x.source /\ y.alone = x.alone /\ y.id = x.id /\ y.content = x.content
        /\ IsTask(y) /\ HasId(y)
  BY <1>3 DEF Onwards, HasId
<1>5. /\ disk' = [i \in Ids |-> disk'[i]] /\ disk'[x.id] = x.content
      /\ \A i \in Ids : i # x.id => disk'[i] = disk[i]
  <2>1. disk = [i \in Ids |-> disk[i]] /\ x.id \in Ids
    BY <1>1 DEF IngestOK, Ids
  <2>2. disk' = [disk EXCEPT ![x.id] = x.content]
    BY DEF FilesWritten
  <2> QED BY <2>1, <2>2
<1>6. IngestOK'
  BY <1>1, <1>2, <1>3, <1>4, <1>5 DEF IngestOK, Went
<1>7. IdsApart'
  BY <1>1, <1>2, <1>3, <1>4 DEF IdsApart, Went
<1>8. AloneWrites'
  <2>1. \A u, v \in Tasks : u # v /\ tasks'[u].source = tasks'[v].source /\ tasks'[u].source # "none"
                               => ~ tasks'[u].alone
    BY <1>1, <1>3, <1>4 DEF AloneWrites, Went
  <2>2. ASSUME NEW u \in Tasks, tasks'[u].pc = "storing", tasks'[u].alone
        PROVE  disk'[tasks'[u].id] = tasks'[u].content
    <3>1. CASE u = t
      BY <1>3, <1>4, <1>5, <3>1 DEF Went
    <3>2. CASE u # t
      <4>1. tasks'[u] = tasks[u] /\ HasId(tasks[u]) /\ tasks[u].id \in Ids
        BY <1>1, <1>3, <2>2, <3>2 DEF Went, HasId, IngestOK, Ids
      <4>2. tasks[u].id # x.id
        BY <1>1, <2>2, <3>2, <4>1 DEF IdsApart, AloneWrites
      <4> QED BY <1>1, <1>5, <2>2, <4>1, <4>2 DEF AloneWrites
    <3> QED BY <3>1, <3>2
  <2> QED BY <2>1, <2>2 DEF AloneWrites
<1>9. OnDisk'
  <2> SUFFICES ASSUME NEW s \in Catalogued \ suspect, ~ Storing(s)' PROVE AsOnDisk(s)'
    BY <1>2 DEF OnDisk
  <2>1. s # x.source
    BY <1>3, <1>4 DEF Storing, Went
  <2>2. ~ Storing(s)
    BY <1>1, <1>3 DEF Storing, Went
  <2>3. catalogue[s].id \in Ids /\ catalogue[s].id # x.id
    BY <1>1, <2>1 DEF IdsApart, IngestOK, Ids
  <2> QED BY <1>1, <1>2, <1>5, <2>2, <2>3 DEF OnDisk, AsOnDisk
<1> QED BY <1>6, <1>7, <1>8, <1>9 DEF IngestInv

LEMMA StoredInv ==
    ASSUME IngestInv, NEW t \in Tasks, Stored(t)
    PROVE  IngestInv'
<1> DEFINE x == tasks[t]
<1>1. IngestOK /\ IdsApart /\ AloneWrites /\ OnDisk /\ x.pc = "storing" /\ HasId(x)
        /\ x.source # "none" /\ x.id \in 1 .. generated
  BY DEF IngestInv, IngestOK, IsTask, Stored, HasId
<1>2. PICK y : Onwards(x, y, "scoping", x.content, x.id) /\ Went(t, y)
  BY <1>1, Goes DEF Stored
<1>3. y.pc = "scoping" /\ y.source = x.source /\ y.alone = x.alone /\ IsTask(y) /\ ~ HasId(y)
  BY <1>2 DEF Onwards, HasId
<1>4. /\ DOMAIN catalogue' = Catalogued \union {x.source}
      /\ catalogue'[x.source].id = x.id /\ catalogue'[x.source].checksum = x.content
      /\ \A s \in Catalogued : s # x.source => catalogue'[s] = catalogue[s]
      /\ UNCHANGED <<disk, generated>>
  BY DEF Stored
<1>5. /\ renderings' = [i \in Ids |-> renderings'[i]] /\ renderings'[x.id] = x.content
      /\ \A i \in Ids : i # x.id => renderings'[i] = renderings[i]
  <2>1. renderings = [i \in Ids |-> renderings[i]] /\ x.id \in Ids
    BY <1>1 DEF IngestOK, Ids
  <2>2. renderings' = [renderings EXCEPT ![x.id] = x.content]
    BY DEF Stored
  <2> QED BY <2>1, <2>2
<1>6. IngestOK'
  <2>1. \A s \in DOMAIN catalogue' : catalogue'[s].id \in 1 .. generated
    BY <1>1, <1>4 DEF IngestOK
  <2>2. \A u \in Tasks : IsTask(tasks'[u]) /\ (HasId(tasks'[u]) => tasks'[u].id \in 1 .. generated)
    BY <1>1, <1>2, <1>3 DEF IngestOK, Went
  <2> QED BY <1>1, <1>2, <1>4, <1>5, <2>1, <2>2 DEF IngestOK, Went
<1>7. IdsApart'
  <2>1. ASSUME NEW s \in DOMAIN catalogue', NEW u \in DOMAIN catalogue', catalogue'[s].id = catalogue'[u].id
        PROVE  s = u
    BY <1>1, <1>4, <2>1 DEF IdsApart
  <2>2. ASSUME NEW u \in Tasks, NEW s \in DOMAIN catalogue', HasId(tasks'[u]), catalogue'[s].id = tasks'[u].id
        PROVE  s = tasks'[u].source
    <3>1. tasks'[u] = tasks[u]
      BY <1>2, <1>3, <2>2 DEF Went
    <3> QED BY <1>1, <1>4, <2>2, <3>1 DEF IdsApart
  <2>3. \A u, v \in Tasks : HasId(tasks'[u]) /\ HasId(tasks'[v]) /\ tasks'[u].id = tasks'[v].id =>
              tasks'[u].source = tasks'[v].source
    BY <1>1, <1>2, <1>3 DEF IdsApart, Went
  <2> QED BY <2>1, <2>2, <2>3 DEF IdsApart
<1>8. AloneWrites'
  BY <1>1, <1>2, <1>3, <1>4 DEF AloneWrites, Went
<1>9. OnDisk'
  <2> SUFFICES ASSUME NEW s \in DOMAIN catalogue', s \notin suspect', ~ Storing(s)' PROVE AsOnDisk(s)'
    BY DEF OnDisk
  <2>1. CASE s = x.source
    <3>1. x.alone
      BY <2>1 DEF Stored
    <3>2. disk[x.id] = x.content
      BY <1>1, <3>1 DEF AloneWrites
    <3> QED BY <1>4, <1>5, <2>1, <3>2 DEF AsOnDisk
  <2>2. CASE s # x.source
    <3>1. s \in Catalogued \ suspect /\ catalogue'[s] = catalogue[s]
      BY <1>4, <2>2 DEF Stored
    <3>2. ~ Storing(s)
      BY <1>2, <2>2 DEF Storing, Went
    <3>3. catalogue[s].id \in Ids /\ catalogue[s].id # x.id
      BY <1>1, <2>2, <3>1 DEF IdsApart, IngestOK, Ids
    <3> QED BY <1>1, <1>4, <1>5, <3>1, <3>2, <3>3 DEF OnDisk, AsOnDisk
  <2> QED BY <2>1, <2>2
<1> QED BY <1>6, <1>7, <1>8, <1>9 DEF IngestInv

LEMMA StoreFailsInv ==
    ASSUME IngestInv, NEW t \in Tasks, StoreFails(t)
    PROVE  IngestInv'
<1> DEFINE x == tasks[t]
<1>1. IngestOK /\ IdsApart /\ AloneWrites /\ OnDisk /\ HasId(x) /\ x.source # "none" /\ x.id \in 1 .. generated
  BY DEF IngestInv, IngestOK, IsTask, StoreFails, HasId
<1>2. Went(t, NoTask)
  BY <1>1, TaskWent DEF StoreFails, Ends
<1>3. UNCHANGED <<catalogue, renderings, generated>> /\ suspect' = suspect \union {x.source}
  BY DEF StoreFails
<1>4. disk' = [i \in Ids |-> disk'[i]] /\ \A i \in Ids : i # x.id => disk'[i] = disk[i]
  BY <1>1 DEF StoreFails, IngestOK, Ids
<1>5. IngestOK'
  BY <1>1, <1>2, <1>3, <1>4, NoTaskOK DEF IngestOK, Went
<1>6. IdsApart'
  BY <1>1, <1>2, <1>3, NoTaskOK DEF IdsApart, Went
<1>7. AloneWrites'
  <2>1. \A u, v \in Tasks : u # v /\ tasks'[u].source = tasks'[v].source /\ tasks'[u].source # "none"
                               => ~ tasks'[u].alone
    BY <1>1, <1>2, NoTaskOK DEF AloneWrites, Went
  <2>2. ASSUME NEW u \in Tasks, tasks'[u].pc = "storing", tasks'[u].alone
        PROVE  disk'[tasks'[u].id] = tasks'[u].content
    <3>1. u # t /\ tasks'[u] = tasks[u]
      BY <1>2, <2>2, NoTaskOK DEF Went
    <3>2. HasId(tasks[u]) /\ tasks[u].id \in Ids
      BY <1>1, <2>2, <3>1 DEF HasId, IngestOK, Ids
    <3>3. tasks[u].id # x.id
      BY <1>1, <2>2, <3>1, <3>2 DEF IdsApart, AloneWrites
    <3> QED BY <1>1, <1>4, <2>2, <3>1, <3>2, <3>3 DEF AloneWrites
  <2> QED BY <2>1, <2>2 DEF AloneWrites
<1>8. OnDisk'
  <2> SUFFICES ASSUME NEW s \in Catalogued \ suspect, s # x.source, ~ Storing(s)' PROVE AsOnDisk(s)'
    BY <1>3 DEF OnDisk
  <2>1. ~ Storing(s)
    BY <1>2 DEF Storing, Went
  <2>2. catalogue[s].id \in Ids /\ catalogue[s].id # x.id
    BY <1>1 DEF IdsApart, IngestOK, Ids
  <2> QED BY <1>1, <1>3, <1>4, <2>1, <2>2 DEF OnDisk, AsOnDisk
<1> QED BY <1>5, <1>6, <1>7, <1>8 DEF IngestInv

LEMMA IngestStepInv ==
    ASSUME IngestInv, NEW t \in Tasks, IngestStep(t)
    PROVE  IngestInv'
<1> DEFINE x == tasks[t]
<1>1. IngestOK /\ IsTask(x)
  BY DEF IngestInv, IngestOK
<1>2. CASE Converted(t)
  <2>1. PICK c : tasks' = [tasks EXCEPT ![t].pc = "looking", ![t].content = c]
    BY <1>2 DEF Converted
  <2>2. x.source # "none" /\ x.pc = "converting"
    BY <1>1, <1>2 DEF Converted, IsTask
  <2>3. PICK y : Onwards(x, y, "looking", c, x.id) /\ Went(t, y)
    BY <1>1, <2>1, <2>2, Goes
  <2>4. IsTask(y) /\ ~ HasId(y) /\ y.source = x.source /\ y.alone = x.alone
    BY <2>3 DEF Onwards, HasId
  <2> QED BY <1>2, <2>2, <2>3, <2>4, AsideInv DEF Converted
<1>3. CASE Scoped(t)
  <2>1. x.source # "none" /\ x.pc = "scoping"
    BY <1>1, <1>3 DEF Scoped, IsTask
  <2>2. PICK y : Onwards(x, y, "chunking", x.content, x.id) /\ Went(t, y)
    BY <1>1, <1>3, <2>1, Goes DEF Scoped
  <2>3. IsTask(y) /\ ~ HasId(y) /\ y.source = x.source /\ y.alone = x.alone
    BY <2>2 DEF Onwards, HasId
  <2> QED BY <1>3, <2>1, <2>2, <2>3, AsideInv DEF Scoped
<1>4. CASE ConvertFails(t) \/ ScopeFails(t) \/ Chunked(t)
  <2>1. x.pc # "storing" /\ Went(t, NoTask) /\ UNCHANGED <<catalogue, disk, renderings, generated, suspect>>
    BY <1>1, <1>4, TaskWent DEF ConvertFails, ScopeFails, Chunked, Ends
  <2> QED BY <2>1, NoTaskOK, AsideInv
<1> QED
  BY <1>2, <1>3, <1>4, LookedUpInv, FilesWrittenInv, StoredInv, StoreFailsInv DEF IngestStep

LEMMA IngestQuiet ==
    ASSUME IngestInv, UNCHANGED <<catalogue, disk, renderings, generated, tasks, suspect>>
    PROVE  IngestInv'
BY DEF IngestInv, IngestOK, IdsApart, AloneWrites, OnDisk, Storing, AsOnDisk

\* The work of a run is of files.
IsRun(x) ==
    /\ x = [status |-> x.status, total |-> x.total, work |-> x.work, results |-> x.results,
            driven |-> x.driven]
    /\ x.work \in Seq(Sources)

RunsOK == runs = [r \in RunIds |-> runs[r]] /\ \A r \in RunIds : IsRun(runs[r])

LEMMA RunGoes ==
    ASSUME NEW x, IsRun(x), NEW y,
           \/ \E w \in Seq(Sources) : y = [x EXCEPT !.work = w]
           \/ \E w \in Seq(Sources) : \E d : y = [x EXCEPT !.work = w, !.driven = d]
           \/ \E s, d : y = [x EXCEPT !.status = s, !.driven = d]
           \/ \E q : y = [x EXCEPT !.results = q]
    PROVE  IsRun(y)
<1> DEFINE rec(s, w, q, d) == [status |-> s, total |-> x.total, work |-> w, results |-> q, driven |-> d]
<1>1. \A s, q, d : \A w \in Seq(Sources) : IsRun(rec(s, w, q, d))
  BY ZenonT(60) DEF IsRun
<1>2. ASSUME NEW w \in Seq(Sources), y = [x EXCEPT !.work = w] PROVE IsRun(y)
  <2>1. y = rec(x.status, w, x.results, x.driven)
    BY <1>2 DEF IsRun
  <2> QED BY <1>1, <2>1
<1>3. ASSUME NEW w \in Seq(Sources), NEW d, y = [x EXCEPT !.work = w, !.driven = d] PROVE IsRun(y)
  <2>1. y = rec(x.status, w, x.results, d)
    BY <1>3 DEF IsRun
  <2> QED BY <1>1, <2>1
<1>4. x.work \in Seq(Sources)
  BY DEF IsRun
<1>5. ASSUME NEW s, NEW d, y = [x EXCEPT !.status = s, !.driven = d] PROVE IsRun(y)
  <2>1. y = rec(s, x.work, x.results, d)
    BY <1>5 DEF IsRun
  <2> QED BY <1>1, <1>4, <2>1
<1>6. ASSUME NEW q, y = [x EXCEPT !.results = q] PROVE IsRun(y)
  <2>1. y = rec(x.status, x.work, q, x.driven)
    BY <1>6 DEF IsRun
  <2> QED BY <1>1, <1>4, <2>1
<1> QED BY <1>2, <1>3, <1>5, <1>6

LEMMA NoRunOK == IsRun(NoRun)
BY DEF IsRun, NoRun

\* A run begins with the files of a directory, of which there are finitely many.
LEMMA StartsOK ==
    ASSUME RunsOK, NEW r \in RunIds, StartDirectoryIngest(r)
    PROVE  RunsOK'
<1>1. PICK files \in SUBSET Sources :
         \E work \in [1 .. Cardinality(files) -> files] :
             runs' = [runs EXCEPT ![r] =
                   [NoRun EXCEPT !.status = "running", !.total = Cardinality(files),
                                 !.work = work, !.driven = TRUE]]
  BY DEF StartDirectoryIngest
<1>2. PICK work \in [1 .. Cardinality(files) -> files] :
         runs' = [runs EXCEPT ![r] =
               [NoRun EXCEPT !.status = "running", !.total = Cardinality(files),
                             !.work = work, !.driven = TRUE]]
  BY <1>1
<1>3. IsFiniteSet(files) /\ Cardinality(files) \in Nat
  BY FS_Subset, FS_CardinalityType
<1>4. work \in Seq(Sources)
  BY <1>3
<1>5. PICK y : y = [NoRun EXCEPT !.status = "running", !.total = Cardinality(files),
                                 !.work = work, !.driven = TRUE]
  OBVIOUS
<1>6. y = [status |-> "running", total |-> Cardinality(files), work |-> work, results |-> << >>,
           driven |-> TRUE]
  BY <1>5 DEF NoRun
<1>7. IsRun(y)
  BY <1>4, <1>6 DEF IsRun
<1> QED
  BY <1>2, <1>5, <1>7 DEF RunsOK

LEMMA EndsOK ==
    ASSUME RunsOK, NEW t \in Tasks, NEW status, Ends(t, status)
    PROVE  RunsOK'
<1> DEFINE r == tasks[t].run
           q == Append(runs[r].results, [source |-> tasks[t].source, status |-> status])
<1>1. runs' = IF r = "none" THEN runs ELSE [runs EXCEPT ![r].results = q]
  BY DEF Ends
<1> HIDE DEF r, q
<1>2. CASE runs' = runs
  BY <1>2 DEF RunsOK
<1>3. CASE runs' = [runs EXCEPT ![r].results = q]
  <2>1. runs' = [p \in RunIds |-> IF p = r THEN [runs[p] EXCEPT !.results = q] ELSE runs[p]]
    BY <1>3 DEF RunsOK
  <2>2. ASSUME NEW p \in RunIds PROVE IsRun(runs'[p])
    <3>1. PICK y : y = [runs[p] EXCEPT !.results = q]
      OBVIOUS
    <3>2. IsRun(runs[p]) /\ IsRun(y)
      BY <3>1, RunGoes DEF RunsOK
    <3> QED BY <2>1, <3>1, <3>2
  <2> QED BY <2>1, <2>2 DEF RunsOK
<1> QED BY <1>1, <1>2, <1>3

LEMMA RunsKeep ==
    ASSUME RunsOK, IngestRequest
    PROVE  RunsOK'
<1>1. ASSUME NEW t \in Tasks, IngestStep(t) PROVE RunsOK'
  <2>1. runs' = runs \/ \E status : Ends(t, status)
    BY <1>1 DEF IngestStep, Converted, ConvertFails, LookedUp, FilesWritten, Stored, StoreFails, Scoped,
                ScopeFails, Chunked
  <2> QED BY <2>1, EndsOK DEF RunsOK
<1>2. ASSUME NEW t \in Tasks, NEW s \in Sources, IngestUrl(t, s) PROVE RunsOK'
  BY <1>2 DEF IngestUrl, RunsOK
<1>3. ASSUME NEW t \in Tasks, NEW r \in RunIds, NextFile(t, r) PROVE RunsOK'
  <2>1. PICK y : y = [runs[r] EXCEPT !.work = Tail(@)]
    OBVIOUS
  <2>2. IsRun(runs[r]) /\ runs[r].work \in Seq(Sources) /\ runs[r].work # << >>
    BY <1>3 DEF RunsOK, IsRun, NextFile
  <2>3. Tail(runs[r].work) \in Seq(Sources)
    BY <2>2
  <2>4. IsRun(y)
    BY <2>1, <2>2, <2>3, RunGoes
  <2>5. runs' = [runs EXCEPT ![r] = y]
    BY <1>3, <2>1 DEF NextFile, RunsOK
  <2> QED BY <2>4, <2>5 DEF RunsOK
<1>4. ASSUME NEW r \in RunIds, RunEnds(r) PROVE RunsOK'
  <2>1. PICK status : runs' = [runs EXCEPT ![r].status = status, ![r].driven = FALSE]
    BY <1>4 DEF RunEnds
  <2>2. PICK y : y = [runs[r] EXCEPT !.status = status, !.driven = FALSE]
    OBVIOUS
  <2>3. IsRun(y)
    BY <2>2, RunGoes DEF RunsOK
  <2>4. runs' = [runs EXCEPT ![r] = y]
    BY <2>1, <2>2 DEF RunsOK
  <2> QED BY <2>3, <2>4 DEF RunsOK
<1> QED
  BY <1>1, <1>2, <1>3, <1>4, StartsOK DEF IngestRequest

LEMMA IngestKeeps ==
    ASSUME IngestInv, RunsOK, IngestRequest
    PROVE  IngestInv' /\ RunsOK'
<1>1. ASSUME NEW t \in Tasks, NEW s \in Sources, IngestUrl(t, s) PROVE IngestInv'
  BY <1>1, BeginsInv, IngestAssumption DEF IngestUrl
<1>2. ASSUME NEW t \in Tasks, NEW r \in RunIds, NextFile(t, r) PROVE IngestInv'
  <2>1. runs[r].work \in Seq(Sources) /\ runs[r].work # << >>
    BY <1>2 DEF RunsOK, IsRun, NextFile
  <2>3. Head(runs[r].work) \in Sources
    BY <2>1
  <2>4. Head(runs[r].work) # "none"
    BY <2>3
  <2> QED BY <1>2, <2>4, BeginsInv DEF NextFile
<1>3. ASSUME NEW r \in RunIds, StartDirectoryIngest(r) \/ RunEnds(r) PROVE IngestInv'
  BY <1>3, IngestQuiet DEF StartDirectoryIngest, RunEnds
<1> QED
  BY <1>1, <1>2, <1>3, IngestStepInv, RunsKeep DEF IngestRequest

\* The process ends.
LEMMA LostKeeps ==
    ASSUME IngestInv, RunsOK, IngestLost
    PROVE  IngestInv' /\ RunsOK'
<1>1. /\ tasks' = [t \in Tasks |-> tasks'[t]] /\ \A t \in Tasks : tasks'[t] = NoTask
      /\ \A s : Storing(s) => s \in suspect'
      /\ suspect \subseteq suspect' /\ UNCHANGED <<catalogue, disk, renderings, generated>>
  BY DEF IngestLost, Storing
<1>2. IngestOK'
  BY <1>1, NoTaskOK DEF IngestInv, IngestOK
<1>3. IdsApart' /\ AloneWrites'
  BY <1>1, NoTaskOK DEF IngestInv, IdsApart, AloneWrites
<1>4. OnDisk'
  BY <1>1 DEF IngestInv, OnDisk, AsOnDisk
<1>5. RunsOK'
  <2>1. ASSUME NEW r \in RunIds PROVE IsRun(runs'[r])
    <3>1. PICK y : y = [runs[r] EXCEPT !.work = <<>>, !.driven = FALSE]
      OBVIOUS
    <3>2. IsRun(runs[r]) /\ << >> \in Seq(Sources)
      BY DEF RunsOK
    <3>3. IsRun(y)
      BY <3>1, <3>2, RunGoes
    <3> QED BY <3>1, <3>3 DEF IngestLost
  <2> QED BY <2>1 DEF RunsOK, IngestLost
<1> QED BY <1>2, <1>3, <1>4, <1>5 DEF IngestInv

LEMMA IngestStart == IngestInit => IngestInv /\ RunsOK
<1> SUFFICES ASSUME IngestInit PROVE IngestInv /\ RunsOK
  OBVIOUS
<1>1. IngestOK
  BY NoTaskOK DEF IngestInit, IngestOK
<1>2. IdsApart /\ AloneWrites
  BY NoTaskOK DEF IngestInit, IdsApart, AloneWrites
<1>3. OnDisk
  BY DEF IngestInit, OnDisk
<1> QED BY <1>1, <1>2, <1>3, NoRunOK DEF IngestInit, IngestInv, RunsOK

LEMMA IngestHolds == IngestInv => CatalogueIsOnDisk
BY DEF IngestInv, OnDisk, Storing, AsOnDisk, CatalogueIsOnDisk

------------------------------------------------------------------------------
(***************************************************************************)
(* The server                                                              *)
(***************************************************************************)

\* The manager is down exactly while the process is.
DownTogether == server = "down" <=> manager = "down"

ServerInv == MigrationsInv /\ AsyncInv /\ DownTogether /\ IngestInv /\ RunsOK

LEMMA ServerInductive == Spec => []ServerInv
<1>1. Init => ServerInv
  <2> SUFFICES ASSUME Init PROVE ServerInv
    OBVIOUS
  <2>1. MigrationsInv
    BY MigrationsStart DEF Init
  <2>2. DOMAIN NoResults = {}
    BY DEF NoResults
  <2>3. AsyncInv
    BY <2>2, EmptySound, FS_EmptySet DEF Init, AsyncInit
  <2> QED BY <2>1, <2>3, IngestStart DEF ServerInv, DownTogether, Init, MigrationsInit, AsyncInit
<1>2. ServerInv /\ [Next]_vars => ServerInv'
  <2> SUFFICES ASSUME ServerInv, [Next]_vars PROVE ServerInv'
    OBVIOUS
  <2> USE DEF ServerInv
  <2>0. ASSUME UNCHANGED avars PROVE AsyncInv'
    BY <2>0 DEF avars, AsyncInv, StatementsCurrent, ResultsStored, SelectionCurrent, LoadingSound,
                RowsFinite, Loadable, Newer, Unlapsed, Raceless, InFlightOf
  <2>00. ASSUME UNCHANGED ivars PROVE IngestInv' /\ RunsOK'
    BY <2>00, IngestQuiet DEF ivars, RunsOK
  <2>1. CASE StartStep
    <3>1. MigrationsInv'
      BY <2>1, MigrationsStep DEF StartStep
    <3>2. CASE server' = "down"
      <4>1. manager' = "down" /\ results' = NoResults /\ selection' = NoResults /\ statements' = {}
        BY <2>1, <3>2 DEF StartStep, ManagerLost
      <4>2. DOMAIN results' = {} /\ DOMAIN selection' = {}
        BY <4>1 DEF NoResults
      <4>5. IsFiniteSet(DOMAIN stored)'
        BY <2>1, <3>2, LostFinite DEF StartStep, AsyncInv
      <4>3. AsyncInv'
        BY <4>1, <4>2, <4>5, FS_EmptySet
           DEF AsyncInv, StatementsCurrent, ResultsStored, SelectionCurrent, LoadingSound, RowsFinite
      <4>4. IngestInv' /\ RunsOK'
        BY <2>1, <3>2, LostKeeps DEF StartStep
      <4> QED BY <3>1, <3>2, <4>1, <4>3, <4>4 DEF DownTogether
    <3>3. CASE server' # "down" /\ server = "down"
      <4>1. ManagerConstructed
        BY <2>1, <3>3 DEF StartStep
      <4>2. manager = "down" /\ manager' = "connecting"
            /\ UNCHANGED <<results, rowvars, statements, selection, raced>>
        BY <3>3, <4>1 DEF ManagerConstructed, DownTogether
      <4>3. AsyncInv'
        BY <4>2 DEF AsyncInv, StatementsCurrent, ResultsStored, SelectionCurrent, LoadingSound,
                    RowsFinite, Raceless, InFlightOf
      <4>4. IngestInv' /\ RunsOK'
        BY <2>00, <2>1, <3>3 DEF StartStep
      <4> QED BY <3>1, <3>3, <4>2, <4>3, <4>4 DEF DownTogether
    <3>4. CASE server' # "down" /\ server # "down"
      <4>1. UNCHANGED avars /\ UNCHANGED ivars
        BY <2>1, <3>4 DEF StartStep
      <4> QED BY <2>0, <2>00, <3>1, <3>4, <4>1 DEF DownTogether, avars
    <3> QED BY <3>2, <3>3, <3>4
  <2>2. CASE Loading /\ UNCHANGED <<mvars, ivars>>
    <3>1. MigrationsInv' /\ server' = server
      BY <2>2, MigrationsStep DEF mvars
    <3>2. manager # "down" /\ manager' # "down"
      BY <2>2 DEF Loading, Connected, RowsSelected, ResultsLoaded, LoadFails
    <3> QED BY <2>00, <2>2, <3>1, <3>2, LoadingKeeps DEF DownTogether
  <2>7. CASE (\E r \in RequestIds : RowLapses(r)) /\ UNCHANGED <<mvars, ivars>>
    <3>1. MigrationsInv' /\ server' = server
      BY <2>7, MigrationsStep DEF mvars
    <3>2. manager' = manager
      BY <2>7 DEF RowLapses
    <3> QED BY <2>00, <2>7, <3>1, <3>2, LapseKeeps DEF DownTogether
  <2>3. CASE server = "serving" /\ AsyncRequest /\ UNCHANGED <<mvars, ivars>>
    <3>1. MigrationsInv' /\ server' = server
      BY <2>3, MigrationsStep DEF mvars
    <3>2. manager' = manager
      BY <2>3 DEF AsyncRequest, CreateAsyncRequest, UpdateResultStatus, CompleteAsyncRequest,
                  FailAsyncRequest, StoreResult, StatementExecuted, StatementFails
    <3> QED BY <2>00, <2>3, <3>1, <3>2, RequestKeeps DEF DownTogether
  <2>4. ASSUME UNCHANGED <<mvars, avars>>
        PROVE  MigrationsInv' /\ AsyncInv' /\ DownTogether'
    <3>1. MigrationsInv' /\ server' = server /\ manager' = manager
      BY <2>4, MigrationsStep DEF mvars, avars
    <3> QED BY <2>0, <2>4, <3>1 DEF DownTogether
  <2>5. CASE server = "serving" /\ IngestRequest /\ UNCHANGED <<mvars, avars>>
    BY <2>4, <2>5, IngestKeeps
  <2>6. CASE UNCHANGED vars
    BY <2>00, <2>4, <2>6 DEF vars
  <2> QED BY <2>1, <2>2, <2>3, <2>5, <2>6, <2>7 DEF Next
<1> QED BY <1>1, <1>2, PTL DEF Spec

\* However often the process fails or is killed between a script and its record,
\* the record of the database accounts for every script that took effect, and
\* nothing is served before every script of the image did (MigrationService).
THEOREM ServerSchemaIsAsRecorded == Spec => []SchemaIsAsRecorded
<1>1. ServerInv => SchemaIsAsRecorded
  BY DEF ServerInv, MigrationsInv
<1> QED BY <1>1, ServerInductive, PTL

\* Results that did not race are stored as they are shown, and shown unless their
\* row has expired or is not among the newest (AsyncResultManager).
THEOREM ServerDurableUnlessRaced == Spec => []DurableUnlessRaced
<1>1. ServerInv => DurableUnlessRaced
  BY DEF ServerInv, AsyncInv, ResultsStored, LoadingSound, DurableUnlessRaced, Raceless, Loadable,
         Unlapsed
<1> QED BY <1>1, ServerInductive, PTL

\* What the catalogue says of a source its directory holds, for any sources,
\* workers and runs (DoclingService).
THEOREM ServerCatalogueIsOnDisk == Spec => []CatalogueIsOnDisk
<1>1. ServerInv => CatalogueIsOnDisk
  BY IngestHolds DEF ServerInv
<1> QED BY <1>1, ServerInductive, PTL
==============================================================================
