---------------------------- MODULE Caches_proofs ----------------------------
(***************************************************************************)
(* What the application keeps in memory in front of a table or of files is *)
(* what the table or the disk holds, for any number of models, realms and  *)
(* sessions, of requests in flight and of managers that clean up.          *)
(***************************************************************************)
EXTENDS Realms, Models, Content, TLAPS

------------------------------------------------------------------------------
(***************************************************************************)
(* The registry of model configurations                                    *)
(***************************************************************************)

IsChange(c) ==
    \/ c = NoChange
    \/ \E pc \in {"sent", "done", "nothing"}, m \in Models, does \in {"upsert", "delete"}, alone \in BOOLEAN :
          \E row : c = [pc |-> pc, id |-> m, does |-> does, row |-> row, alone |-> alone]

\* Memory and the table say the same of m.
Agree(held, kept, m) ==
    /\ m \in DOMAIN held <=> m \in DOMAIN kept
    /\ m \in DOMAIN held => held[m] = kept[m]

\* What a change on its way that is alone says of memory and the table: until
\* its statement took effect they agree if they did before, after it the table
\* is what memory will be.
InProgress(held, kept, doubt, c) ==
    /\ c.pc = "sent" /\ c.id \notin doubt => Agree(held, kept, c.id)
    /\ c.pc = "done" /\ c.does = "upsert" => c.id \in DOMAIN kept /\ kept[c.id] = c.row
    /\ c.pc = "done" /\ c.does = "delete" => c.id \notin DOMAIN kept
    /\ c.pc = "nothing" /\ c.id \notin doubt => Agree(held, kept, c.id)

\* A change that is alone is the only one of its model.
ModelsInv ==
    /\ changes = [a \in Admins |-> changes[a]]
    /\ \A a \in Admins : IsChange(changes[a])
    /\ \A a, b \in Admins :
          /\ changes[a] # NoChange /\ changes[b] # NoChange
          /\ changes[a].id = changes[b].id /\ changes[a].alone
          => a = b
    /\ \A a \in Admins :
          changes[a] # NoChange /\ changes[a].alone => InProgress(models, stored, uncertain, changes[a])
    /\ RegistryIsTheTable

LEMMA ChangeFields ==
    ASSUME NEW c, IsChange(c), c # NoChange
    PROVE  /\ c.pc \in {"sent", "done", "nothing"} /\ c.id \in Models
           /\ c.does \in {"upsert", "delete"} /\ c.alone \in BOOLEAN
           /\ \A pc \in {"sent", "done", "nothing"} :
                 LET d == [c EXCEPT !.pc = pc]
                 IN  IsChange(d) /\ d # NoChange /\ d.pc = pc /\ d.id = c.id
                        /\ d.does = c.does /\ d.row = c.row /\ d.alone = c.alone
           /\ LET d == [c EXCEPT !.alone = FALSE]
              IN  IsChange(d) /\ d # NoChange /\ d.id = c.id /\ d.alone = FALSE
<1>0. PICK pc0 \in {"sent", "done", "nothing"}, m \in Models, does \in {"upsert", "delete"}, alone \in BOOLEAN :
         \E row : c = [pc |-> pc0, id |-> m, does |-> does, row |-> row, alone |-> alone]
  BY DEF IsChange
<1>1. PICK row : c = [pc |-> pc0, id |-> m, does |-> does, row |-> row, alone |-> alone]
  BY <1>0
<1>2. c.pc \in {"sent", "done", "nothing"} /\ c.id \in Models /\ c.does \in {"upsert", "delete"} /\ c.alone \in BOOLEAN
  BY <1>1
<1>3. ASSUME NEW pc \in {"sent", "done", "nothing"}, NEW by \in BOOLEAN,
             NEW d, d = [pc |-> pc, id |-> m, does |-> does, row |-> row, alone |-> by]
      PROVE  IsChange(d) /\ d # NoChange /\ d.pc = pc /\ d.id = c.id
                /\ d.does = c.does /\ d.row = c.row /\ d.alone = by
  <2>1. IsChange(d)
    BY <1>3 DEF IsChange
  <2>2. d # NoChange
    BY <1>3 DEF NoChange
  <2>3. d.pc = pc /\ d.id = c.id /\ d.does = c.does /\ d.row = c.row /\ d.alone = by
    BY <1>1, <1>3
  <2> QED BY <2>1, <2>2, <2>3
<1>4. ASSUME NEW pc \in {"sent", "done", "nothing"}
      PROVE  [c EXCEPT !.pc = pc] = [pc |-> pc, id |-> m, does |-> does, row |-> row, alone |-> alone]
  BY <1>1
<1>5. ASSUME NEW by \in BOOLEAN
      PROVE  [c EXCEPT !.alone = by] = [pc |-> pc0, id |-> m, does |-> does, row |-> row, alone |-> by]
  BY <1>1
<1>6. c.alone = alone
  BY <1>1
<1>7. \A pc \in {"sent", "done", "nothing"} :
         LET d == [c EXCEPT !.pc = pc]
         IN  IsChange(d) /\ d # NoChange /\ d.pc = pc /\ d.id = c.id
                /\ d.does = c.does /\ d.row = c.row /\ d.alone = c.alone
  BY <1>3, <1>4, <1>6
<1>8. LET d == [c EXCEPT !.alone = FALSE]
      IN  IsChange(d) /\ d # NoChange /\ d.id = c.id /\ d.alone = FALSE
  BY <1>3, <1>5
<1> QED
  BY <1>2, <1>7, <1>8

LEMMA SendsInv ==
    ASSUME ModelsInv, NEW a \in Admins, NEW m \in Models, NEW does \in {"upsert", "delete"},
           NEW row, Sends(a, m, does, row)
    PROVE  ModelsInv'
<1> DEFINE only == ChangesOf(m) = {}
           c == [pc |-> "sent", id |-> m, does |-> does, row |-> row, alone |-> only]
           quiet(b) == [changes[b] EXCEPT !.alone = FALSE]
<1>1. IsChange(c) /\ c # NoChange /\ c.pc = "sent" /\ c.id = m /\ c.alone = only
  BY DEF IsChange, NoChange
<1>2. /\ changes[a] = NoChange /\ models' = models /\ stored' = stored /\ uncertain' = uncertain
      /\ changes' = [b \in Admins |-> IF b = a THEN c
                                      ELSE IF b \in ChangesOf(m) THEN quiet(b) ELSE changes[b]]
  BY DEF Sends
<1>3. ASSUME NEW b \in ChangesOf(m)
      PROVE  /\ b # a /\ changes[b] # NoChange /\ changes[b].id = m
             /\ IsChange(quiet(b)) /\ quiet(b) # NoChange /\ quiet(b).id = m /\ quiet(b).alone = FALSE
  <2>1. b \in Admins /\ changes[b] # NoChange /\ changes[b].id = m /\ IsChange(changes[b])
    BY DEF ChangesOf, ModelsInv
  <2> QED BY <1>2, <2>1, ChangeFields
<1> HIDE DEF c, quiet
<1>4. /\ changes' = [b \in Admins |-> changes'[b]] /\ changes'[a] = c
      /\ \A b \in Admins \ {a} : changes'[b] = IF b \in ChangesOf(m) THEN quiet(b) ELSE changes[b]
  BY <1>2
\* Whoever is still alone is about another model, and as before.
<1>5. ASSUME NEW b \in Admins \ {a}, changes'[b] # NoChange, changes'[b].alone
      PROVE  changes'[b] = changes[b] /\ changes[b].id # m
  <2>1. b \notin ChangesOf(m)
    BY <1>3, <1>4, <1>5
  <2> QED BY <1>4, <1>5, <2>1 DEF ChangesOf
<1>6. \A b \in Admins \ {a} : /\ changes'[b] # NoChange <=> changes[b] # NoChange
                              /\ changes[b] # NoChange => changes'[b].id = changes[b].id
  BY <1>3, <1>4
<1>7. only => \A b \in Admins \ {a} : changes[b] # NoChange => changes[b].id # m
  BY DEF ChangesOf
<1> HIDE DEF only
<1>8. \A n \in Models : ChangesOf(n)' = IF n = m THEN ChangesOf(n) \union {a} ELSE ChangesOf(n)
  BY <1>1, <1>2, <1>4, <1>6 DEF ChangesOf
<1>9. RegistryIsTheTable'
  BY <1>2, <1>8 DEF ModelsInv, RegistryIsTheTable
<1>10. \A b \in Admins : IsChange(changes'[b])
  BY <1>1, <1>3, <1>4 DEF ModelsInv
<1>11. ASSUME NEW b \in Admins, changes'[b] # NoChange, changes'[b].alone
       PROVE  InProgress(models', stored', uncertain', changes'[b])
  <2>1. CASE b = a
    <3>1. ChangesOf(m) = {}
      BY <1>1, <1>4, <1>11, <2>1 DEF only
    <3>2. m \notin uncertain => Agree(models, stored, m)
      BY <3>1 DEF ModelsInv, RegistryIsTheTable, Agree
    <3> QED BY <1>1, <1>2, <1>4, <2>1, <3>2 DEF InProgress
  <2>2. CASE b # a
    BY <1>2, <1>5, <1>11, <2>2 DEF ModelsInv
  <2> QED BY <2>1, <2>2
<1>12. ASSUME NEW b \in Admins, NEW d \in Admins, changes'[b] # NoChange, changes'[d] # NoChange,
              changes'[b].id = changes'[d].id, changes'[b].alone
       PROVE  b = d
  <2>1. CASE b = a
    BY <1>1, <1>4, <1>6, <1>7, <1>12, <2>1
  <2>2. CASE b # a
    <3>1. changes[b] # NoChange /\ changes[b].id # m /\ changes'[b] = changes[b]
      BY <1>5, <1>12, <2>2
    <3>2. d # a /\ changes[d] # NoChange /\ changes[d].id = changes[b].id
      BY <1>1, <1>4, <1>6, <1>12, <3>1
    <3> QED BY <1>12, <3>1, <3>2 DEF ModelsInv
  <2> QED BY <2>1, <2>2
<1> QED
  BY <1>4, <1>9, <1>10, <1>11, <1>12 DEF ModelsInv

\* A change goes to its next place, or ends: of the other models nothing changes.
LEMMA ProceedsInv ==
    ASSUME ModelsInv, NEW a \in Admins, NEW d, changes[a] # NoChange,
           changes' = [changes EXCEPT ![a] = d], IsChange(d),
           \A n \in Models \ {changes[a].id} : n \in uncertain' <=> n \in uncertain,
           d = NoChange \/ (d.id = changes[a].id /\ d.alone = changes[a].alone),
           d # NoChange /\ d.alone => InProgress(models', stored', uncertain', d),
           d = NoChange /\ changes[a].id \notin uncertain' => Agree(models', stored', changes[a].id),
           \A n \in Models \ {changes[a].id} : Agree(models', models, n) /\ Agree(stored', stored, n)
    PROVE  ModelsInv'
<1> DEFINE m == changes[a].id
<1>1. /\ changes' = [b \in Admins |-> changes'[b]] /\ changes'[a] = d
      /\ \A b \in Admins \ {a} : changes'[b] = changes[b]
  BY DEF ModelsInv
<1>2. m \in Models /\ \A b \in Admins : changes[b] # NoChange => changes[b].id \in Models
  BY ChangeFields DEF ModelsInv
<1>3. \A b \in Admins \ {a} : changes[b] # NoChange /\ changes[b].alone => changes[b].id # m
  BY DEF ModelsInv
<1>4. \A n \in Models \ {m} : Agree(models, stored, n) => Agree(models', stored', n)
  BY DEF Agree
<1>5. \A b \in Admins : IsChange(changes'[b])
  BY <1>1 DEF ModelsInv
<1>6. ASSUME NEW b \in Admins, changes'[b] # NoChange, changes'[b].alone
      PROVE  InProgress(models', stored', uncertain', changes'[b])
  <2>1. CASE b = a
    BY <1>1, <1>6, <2>1
  <2>2. CASE b # a
    <3>1. /\ InProgress(models, stored, uncertain, changes[b])
          /\ changes[b].id \in Models /\ changes[b].id # m
      BY <1>1, <1>2, <1>3, <1>6, <2>2 DEF ModelsInv
    <3> HIDE DEF m
    <3>2. changes'[b] = changes[b]
      BY <1>1, <2>2
    <3>3. Agree(models, stored, changes[b].id) => Agree(models', stored', changes[b].id)
      BY <1>4, <3>1, <3>2 DEF Agree
    <3>4. /\ Agree(stored', stored, changes[b].id)
          /\ changes[b].id \in uncertain' <=> changes[b].id \in uncertain
      BY <3>1 DEF m
    <3> QED BY <3>1, <3>2, <3>3, <3>4 DEF InProgress, Agree
  <2> QED BY <2>1, <2>2
<1>7. ASSUME NEW b \in Admins, NEW c \in Admins, changes'[b] # NoChange, changes'[c] # NoChange,
             changes'[b].id = changes'[c].id, changes'[b].alone
      PROVE  b = c
  BY <1>1, <1>7 DEF ModelsInv
<1>8. RegistryIsTheTable'
  <2> SUFFICES ASSUME NEW n \in Models, n \notin uncertain', ChangesOf(n)' = {}
               PROVE  Agree(models', stored', n)
    BY DEF RegistryIsTheTable, Agree
  <2>1. CASE n = m
    <3>1. d = NoChange
      BY <1>1, <2>1 DEF ChangesOf
    <3> QED BY <2>1, <3>1
  <2>2. CASE n # m
    <3>1. ChangesOf(n) = {} /\ n \notin uncertain
      BY <1>1, <2>2 DEF ChangesOf
    <3> QED BY <1>4, <2>2, <3>1 DEF ModelsInv, RegistryIsTheTable, Agree
  <2> QED BY <2>1, <2>2
<1> QED
  BY <1>1, <1>5, <1>6, <1>7, <1>8 DEF ModelsInv

LEMMA TakesEffectInv ==
    ASSUME ModelsInv, NEW a \in Admins, TakesEffect(a)
    PROVE  ModelsInv'
<1> DEFINE c == changes[a]
           pc == IF c.does = "upsert" \/ c.id \in DOMAIN stored THEN "done" ELSE "nothing"
           d == [c EXCEPT !.pc = pc]
<1>1. c # NoChange /\ IsChange(c) /\ c.pc = "sent"
  BY DEF TakesEffect, ModelsInv, NoChange
<1>2. /\ changes' = [changes EXCEPT ![a] = d] /\ models' = models /\ uncertain' = uncertain
      /\ stored' = IF c.does = "upsert" THEN WithRow(stored, c.id, c.row)
                   ELSE [n \in DOMAIN stored \ {c.id} |-> stored[n]]
  BY DEF TakesEffect
<1>3. /\ IsChange(d) /\ d # NoChange /\ d.pc = pc /\ d.id = c.id
      /\ d.does = c.does /\ d.row = c.row /\ d.alone = c.alone /\ c.does \in {"upsert", "delete"}
  <2>1. pc \in {"sent", "done", "nothing"}
    OBVIOUS
  <2> HIDE DEF c, pc
  <2>2. \A to \in {"sent", "done", "nothing"} :
           LET e == [c EXCEPT !.pc = to]
           IN  IsChange(e) /\ e # NoChange /\ e.pc = to /\ e.id = c.id
                  /\ e.does = c.does /\ e.row = c.row /\ e.alone = c.alone
    BY <1>1, ChangeFields
  <2>3. c.does \in {"upsert", "delete"}
    BY <1>1, ChangeFields
  <2> QED BY <2>1, <2>2, <2>3
<1>4. c.alone /\ c.id \notin uncertain => Agree(models, stored, c.id)
  BY <1>1 DEF ModelsInv, InProgress
<1>5. \A n \in Models \ {c.id} : Agree(models', models, n) /\ Agree(stored', stored, n)
  BY <1>2 DEF WithRow, Agree
<1> HIDE DEF c, d
<1>6. d.alone => InProgress(models', stored', uncertain', d)
  <2>1. CASE c.does = "upsert"
    BY <1>2, <1>3, <2>1 DEF WithRow, InProgress, pc
  <2>2. CASE c.does = "delete"
    BY <1>2, <1>3, <1>4, <2>2 DEF InProgress, Agree, pc
  <2> QED BY <1>3, <2>1, <2>2
<1>7. changes[a] # NoChange /\ d.id = changes[a].id /\ d.alone = changes[a].alone
  BY <1>1, <1>3 DEF c
<1> QED
  BY <1>2, <1>3, <1>5, <1>6, <1>7, ProceedsInv DEF c

\* A change that ends leaves memory and the table the same if it was alone and
\* made and answered, and otherwise if they were and it was not made.
LEMMA EndsInv ==
    ASSUME ModelsInv, NEW a \in Admins, ChangeFails(a) \/ ChangeAnswered(a)
    PROVE  ModelsInv'
<1> DEFINE c == changes[a]
           made == c.pc = "done"
<1>1. c # NoChange /\ IsChange(c)
  <2>1. c # NoChange
    <3>1. CASE ChangeFails(a)
      BY <3>1 DEF ChangeFails
    <3>2. CASE ChangeAnswered(a)
      <4>1. c.pc \in {"done", "nothing"} /\ NoChange.pc = "none"
        BY <3>2 DEF ChangeAnswered, NoChange
      <4> QED BY <4>1
    <3> QED BY <3>1, <3>2
  <2> QED BY <2>1 DEF ModelsInv
<1>2. c.pc \in {"sent", "done", "nothing"} /\ c.does \in {"upsert", "delete"} /\ c.alone \in BOOLEAN
  BY <1>1, ChangeFields
<1>3. PICK answered \in BOOLEAN :
         /\ ChangeEnds(a, answered) /\ stored' = stored
         /\ MapWritten(a, ~ (answered /\ made))
  BY <1>1, <1>2 DEF ChangeFails, ChangeAnswered
<1>4. /\ changes' = [changes EXCEPT ![a] = NoChange]
      /\ uncertain' = IF ~ c.alone \/ (made /\ ~ answered) THEN uncertain \union {c.id}
                      ELSE IF made THEN uncertain \ {c.id} ELSE uncertain
  BY <1>3 DEF ChangeEnds
<1>5. \A n \in Models \ {c.id} : Agree(models', models, n) /\ Agree(stored', stored, n)
  BY <1>3 DEF MapWritten, WithRow, Agree
<1>6. \A n \in Models \ {c.id} : n \in uncertain' <=> n \in uncertain
  BY <1>4
<1>7. c.id \notin uncertain' => Agree(models', stored', c.id)
  <2> SUFFICES ASSUME c.id \notin uncertain' PROVE Agree(models', stored', c.id)
    OBVIOUS
  <2>1. c.alone /\ (made => answered) /\ (~ made => c.id \notin uncertain)
    BY <1>2, <1>4
  <2>2. InProgress(models, stored, uncertain, c)
    BY <1>1, <2>1 DEF ModelsInv
  <2>3. CASE made /\ c.does = "upsert"
    BY <1>3, <2>1, <2>2, <2>3 DEF MapWritten, WithRow, Agree, InProgress
  <2>4. CASE made /\ c.does = "delete"
    BY <1>3, <2>1, <2>2, <2>4 DEF MapWritten, Agree, InProgress
  <2>5. CASE ~ made
    BY <1>2, <1>3, <2>1, <2>2, <2>5 DEF MapWritten, Agree, InProgress
  <2> QED BY <1>2, <2>3, <2>4, <2>5
<1>8. IsChange(NoChange)
  BY DEF IsChange
<1> HIDE DEF c
<1> QED
  BY <1>1, <1>4, <1>5, <1>6, <1>7, <1>8, ProceedsInv DEF c

LEMMA ModelsStep == ModelsInv /\ [ModelsNext]_modelvars => ModelsInv'
<1> SUFFICES ASSUME ModelsInv, [ModelsNext]_modelvars PROVE ModelsInv'
  OBVIOUS
<1>1. ASSUME NEW a \in Admins, NEW m \in Models, NEW does \in {"upsert", "delete"}, NEW row,
             Sends(a, m, does, row)
      PROVE  ModelsInv'
  BY <1>1, SendsInv
<1>2. CASE Initialize
  BY <1>2 DEF Initialize, ModelsInv, RegistryIsTheTable, IsChange
<1>3. CASE UNCHANGED modelvars
  BY <1>3 DEF modelvars, ModelsInv, RegistryIsTheTable, InProgress, Agree, ChangesOf
<1>4. ASSUME NEW a \in Admins, NEW m \in Models,
             \/ \E body \in Configuration : AddModel(a, m, body)
             \/ \E patch \in Patch : UpdateModel(a, m, patch)
             \/ RemoveModel(a, m)
      PROVE  ModelsInv'
  BY <1>1, <1>4 DEF AddModel, UpdateModel, RemoveModel
<1> QED
  BY <1>2, <1>3, <1>4, TakesEffectInv, EndsInv DEF ModelsNext

\* Whatever the requests, their order and their failures, a read of the registry
\* is answered with the row of the table, from the first change of a model on that
\* was made and answered alone to the next that overlapped or lost its answer.
THEOREM TheRegistryIsTheTable ==
    ModelsInit /\ [][ModelsNext]_modelvars => []RegistryIsTheTable
<1>1. ModelsInit => ModelsInv
  BY DEF ModelsInit, ModelsInv, RegistryIsTheTable, IsChange
<1>2. ModelsInv => RegistryIsTheTable
  BY DEF ModelsInv
<1> QED
  BY <1>1, <1>2, ModelsStep, PTL

------------------------------------------------------------------------------
(***************************************************************************)
(* The content of sessions                                                 *)
(***************************************************************************)

Storing == [pc : {"opening", "writing"}, content : Contents]
Sweeping == [todo : SUBSET Stores, removing : SUBSET Stores]

ContentType ==
    /\ contentDay \in Nat
    /\ touched \in [Stores -> Nat \union {NoDirectory}]
    /\ storing \in [Stores -> {NotStoring} \union Storing]
    /\ sweeps \in [Stores -> Sweeping]
    /\ DOMAIN cached \subseteq Paths
    /\ \A p \in DOMAIN cached : cached[p] \in 0 .. contentDay

\* What is about to be removed was not written to within the day.
StaleIsRemoved ==
    \A m, d \in Stores : d \in sweeps[m].removing /\ d \notin raced => touched[d] < contentDay - 1

\* What is being written is new, is there, and was touched today.
WritingIsToday ==
    \A s \in Stores :
        /\ storing[s] # NotStoring => <<s, storing[s].content>> \notin DOMAIN cached
        /\ storing[s].pc = "writing" /\ s \notin raced =>
              touched[s] = contentDay /\ <<s, storing[s].content>> \in DOMAIN files

\* A directory was touched no earlier than the last of what is in it.
RecentIsTouched ==
    \A p \in DOMAIN cached :
        cached[p] >= contentDay - 1 /\ p[1] \notin raced => touched[p[1]] >= cached[p]

ContentInv == ContentType /\ StaleIsRemoved /\ WritingIsToday /\ RecentIsTouched /\ RecentIsKept

\* What the invariant says of, unchanged.
LEMMA ContentStill ==
    ASSUME ContentInv, UNCHANGED <<files, touched, contentDay, storing, cached, sweeps, raced>>
    PROVE  ContentInv'
BY DEF ContentInv, ContentType, StaleIsRemoved, WritingIsToday, RecentIsTouched, RecentIsKept,
       Paths

\* A directory is written to: whoever is about to remove it is too late to know.
LEMMA TouchInv ==
    ASSUME ContentInv, NEW s \in Stores, Touch(s), UNCHANGED <<contentDay, cached, sweeps>>
    PROVE  /\ touched' \in [Stores -> Nat \union {NoDirectory}]
           /\ StaleIsRemoved' /\ RecentIsTouched'
           /\ touched'[s] = contentDay /\ raced \subseteq raced'
           /\ \A t \in Stores \ {s} : touched'[t] = touched[t]
<1>1. /\ contentDay \in Nat /\ touched \in [Stores -> Nat \union {NoDirectory}]
      /\ touched' = [touched EXCEPT ![s] = contentDay]
      /\ raced' = IF \E m \in Stores : s \in sweeps[m].removing THEN raced \union {s} ELSE raced
  BY DEF ContentInv, ContentType, Touch
<1>2. StaleIsRemoved'
  BY <1>1 DEF ContentInv, StaleIsRemoved
<1>3. RecentIsTouched'
  <2> SUFFICES ASSUME NEW p \in DOMAIN cached, cached[p] >= contentDay - 1, p[1] \notin raced'
               PROVE  touched'[p[1]] >= cached[p]
    BY DEF RecentIsTouched
  <2>1. cached[p] \in 0 .. contentDay /\ p[1] \in Stores
    BY DEF ContentInv, ContentType, Paths
  <2>2. CASE p[1] = s
    BY <1>1, <2>1, <2>2
  <2>3. CASE p[1] # s
    BY <1>1, <2>1, <2>3 DEF ContentInv, RecentIsTouched
  <2> QED BY <2>2, <2>3
<1> QED BY <1>1, <1>2, <1>3

LEMMA StoreInv ==
    ASSUME ContentInv, NEW s \in Stores, NEW c \in Contents, StoreStepContent(s, c)
    PROVE  ContentInv'
<1> DEFINE x == [pc |-> "opening", content |-> c]
<1>1. /\ storing' = [storing EXCEPT ![s] = x] /\ storing \in [Stores -> {NotStoring} \union Storing]
      /\ UNCHANGED <<files, contentDay, cached, sweeps>> /\ <<s, c>> \notin DOMAIN cached
      /\ x \in Storing /\ x.pc = "opening" /\ x.content = c
  BY DEF StoreStepContent, ContentInv, ContentType, Storing
<1> HIDE DEF x
<1>2. /\ storing'[s] = x /\ \A t \in Stores \ {s} : storing'[t] = storing[t]
      /\ storing' \in [Stores -> {NotStoring} \union Storing]
  BY <1>1
<1>3. /\ touched' \in [Stores -> Nat \union {NoDirectory}]
      /\ StaleIsRemoved' /\ RecentIsTouched' /\ raced \subseteq raced'
      /\ \A t \in Stores \ {s} : touched'[t] = touched[t]
  <2>1. CASE touched[s] = NoDirectory
    BY <1>1, <2>1, TouchInv DEF StoreStepContent
  <2>2. CASE touched[s] # NoDirectory
    <3>1. touched' = touched /\ raced' = raced
      BY <2>2 DEF StoreStepContent
    <3> QED BY <1>1, <3>1 DEF ContentInv, ContentType, StaleIsRemoved, RecentIsTouched
  <2> QED BY <2>1, <2>2
<1>4. WritingIsToday'
  BY <1>1, <1>2, <1>3 DEF ContentInv, WritingIsToday
<1>5. ContentType' /\ RecentIsKept'
  BY <1>1, <1>2, <1>3 DEF ContentInv, ContentType, RecentIsKept, Paths
<1> QED BY <1>3, <1>4, <1>5 DEF ContentInv

LEMMA OpenedInv ==
    ASSUME ContentInv, NEW s \in Stores, ContentOpened(s)
    PROVE  ContentInv'
<1> DEFINE x == [storing[s] EXCEPT !.pc = "writing"]
           p == <<s, storing[s].content>>
<1>1. storing[s] \in Storing /\ storing \in [Stores -> {NotStoring} \union Storing] /\ storing[s] # NotStoring
  BY DEF ContentOpened, ContentInv, ContentType, NotStoring
<1>2. x \in Storing /\ x.content = storing[s].content /\ x.pc = "writing"
  BY <1>1 DEF Storing
<1>3. /\ storing' = [storing EXCEPT ![s] = x] /\ UNCHANGED <<contentDay, cached, sweeps>>
      /\ files' = WithFile(p, "partial") /\ Touch(s)
  BY DEF ContentOpened
<1> HIDE DEF x
<1>4. /\ storing'[s] = x /\ \A t \in Stores \ {s} : storing'[t] = storing[t]
      /\ storing' \in [Stores -> {NotStoring} \union Storing]
  BY <1>1, <1>2, <1>3
<1>5. /\ touched' \in [Stores -> Nat \union {NoDirectory}]
      /\ StaleIsRemoved' /\ RecentIsTouched' /\ raced \subseteq raced'
      /\ touched'[s] = contentDay /\ \A t \in Stores \ {s} : touched'[t] = touched[t]
  BY <1>3, TouchInv
<1>6. p \notin DOMAIN cached
  BY <1>1 DEF ContentInv, WritingIsToday
<1>7. /\ DOMAIN files' = DOMAIN files \union {p}
      /\ \A q \in DOMAIN files : q # p => files'[q] = files[q]
  BY <1>3 DEF WithFile
<1>8. WritingIsToday'
  <2> SUFFICES ASSUME NEW t \in Stores
               PROVE  /\ storing'[t] # NotStoring => <<t, storing'[t].content>> \notin DOMAIN cached
                      /\ storing'[t].pc = "writing" /\ t \notin raced' =>
                            touched'[t] = contentDay /\ <<t, storing'[t].content>> \in DOMAIN files'
    BY <1>3 DEF WritingIsToday
  <2>1. CASE t = s
    BY <1>2, <1>4, <1>5, <1>6, <1>7, <2>1
  <2>2. CASE t # s
    BY <1>4, <1>5, <1>7, <2>2 DEF ContentInv, WritingIsToday
  <2> QED BY <2>1, <2>2
<1>9. RecentIsKept'
  BY <1>3, <1>5, <1>6, <1>7 DEF ContentInv, RecentIsKept
<1>10. ContentType'
  BY <1>3, <1>4, <1>5 DEF ContentInv, ContentType, Paths
<1> QED BY <1>5, <1>8, <1>9, <1>10 DEF ContentInv

LEMMA WrittenInv ==
    ASSUME ContentInv, NEW s \in Stores, ContentWritten(s)
    PROVE  ContentInv'
<1> DEFINE p == <<s, storing[s].content>>
<1>1. /\ storing[s] \in Storing /\ storing \in [Stores -> {NotStoring} \union Storing]
      /\ contentDay \in Nat /\ storing[s].pc = "writing"
  BY DEF ContentWritten, ContentInv, ContentType, NotStoring
<1>2. /\ storing' = [storing EXCEPT ![s] = NotStoring] /\ UNCHANGED <<touched, contentDay, sweeps, raced>>
      /\ files' = IF p \in DOMAIN files THEN WithFile(p, "whole") ELSE files
      /\ cached' = [q \in DOMAIN cached \union {p} |-> IF q = p THEN contentDay ELSE cached[q]]
  BY DEF ContentWritten
<1>3. p \in Paths /\ p[1] = s
  BY <1>1 DEF Storing, Paths
<1>4. s \notin raced => touched[s] = contentDay /\ p \in DOMAIN files
  BY <1>1 DEF ContentInv, WritingIsToday
<1> HIDE DEF p
<1>5. /\ storing'[s] = NotStoring /\ \A t \in Stores \ {s} : storing'[t] = storing[t]
      /\ storing' \in [Stores -> {NotStoring} \union Storing]
  BY <1>1, <1>2
<1>6. /\ DOMAIN cached' = DOMAIN cached \union {p} /\ cached'[p] = contentDay
      /\ \A q \in DOMAIN cached : q # p => cached'[q] = cached[q]
  BY <1>2
<1>7. /\ DOMAIN files' = DOMAIN files /\ (p \in DOMAIN files => files'[p] = "whole")
      /\ \A q \in DOMAIN files : q # p => files'[q] = files[q]
  BY <1>2 DEF WithFile
<1>8. ContentType'
  BY <1>1, <1>2, <1>3, <1>5, <1>6 DEF ContentInv, ContentType, Paths
<1>9. StaleIsRemoved'
  BY <1>2 DEF ContentInv, StaleIsRemoved
<1>10. WritingIsToday'
  <2> SUFFICES ASSUME NEW t \in Stores
               PROVE  /\ storing'[t] # NotStoring => <<t, storing'[t].content>> \notin DOMAIN cached'
                      /\ storing'[t].pc = "writing" /\ t \notin raced =>
                            touched[t] = contentDay /\ <<t, storing'[t].content>> \in DOMAIN files'
    BY <1>2 DEF WritingIsToday
  <2>1. CASE t = s
    BY <1>5, <2>1 DEF NotStoring
  <2>2. CASE t # s
    <3>1. <<t, storing[t].content>> # p
      BY <2>2 DEF p
    <3> QED BY <1>5, <1>6, <1>7, <2>2, <3>1 DEF ContentInv, WritingIsToday
  <2> QED BY <2>1, <2>2
<1>11. RecentIsTouched'
  BY <1>1, <1>2, <1>3, <1>4, <1>6 DEF ContentInv, RecentIsTouched
<1>12. RecentIsKept'
  BY <1>2, <1>3, <1>4, <1>6, <1>7 DEF ContentInv, RecentIsKept
<1> QED BY <1>8, <1>9, <1>10, <1>11, <1>12 DEF ContentInv

LEMMA StoreFailsInv ==
    ASSUME ContentInv, NEW s \in Stores, StoreFails(s)
    PROVE  ContentInv'
<1>1. /\ storing' = [storing EXCEPT ![s] = NotStoring] /\ storing \in [Stores -> {NotStoring} \union Storing]
      /\ UNCHANGED <<files, touched, contentDay, cached, sweeps, raced>>
  BY DEF StoreFails, ContentInv, ContentType
<1>2. /\ storing'[s] = NotStoring /\ \A t \in Stores \ {s} : storing'[t] = storing[t]
      /\ storing' \in [Stores -> {NotStoring} \union Storing] /\ NotStoring.pc # "writing"
  BY <1>1 DEF NotStoring
<1>3. WritingIsToday'
  BY <1>1, <1>2 DEF ContentInv, WritingIsToday
<1> QED
  BY <1>1, <1>2, <1>3
     DEF ContentInv, ContentType, StaleIsRemoved, RecentIsTouched, RecentIsKept, Paths

\* A manager looks for what is there, and removes what it found stale.
LEMMA SweepsInv ==
    ASSUME ContentInv, NEW s \in Stores,
           PerformMaintenance(s) \/ CleanupFails(s) \/ \E d \in Stores : Examined(s, d)
    PROVE  ContentInv'
<1>1. /\ UNCHANGED <<files, touched, contentDay, storing, cached, raced>>
      /\ contentDay \in Nat /\ touched \in [Stores -> Nat \union {NoDirectory}]
      /\ sweeps \in [Stores -> Sweeping]
  BY DEF PerformMaintenance, CleanupFails, Examined, ContentInv, ContentType
<1>2. PICK x \in Sweeping :
         /\ sweeps' = [sweeps EXCEPT ![s] = x]
         /\ \A d \in x.removing : d \in sweeps[s].removing \/ touched[d] < contentDay - 1
  <2>1. CASE PerformMaintenance(s)
    <3> DEFINE x == [sweeps[s] EXCEPT !.todo = {d \in Stores : touched[d] # NoDirectory}]
    <3>1. x \in Sweeping /\ x.removing = sweeps[s].removing
      BY <1>1 DEF Sweeping
    <3> QED BY <2>1, <3>1 DEF PerformMaintenance
  <2>2. CASE CleanupFails(s)
    <3> DEFINE x == [sweeps[s] EXCEPT !.removing = {}]
    <3>1. x \in Sweeping /\ x.removing = {}
      BY <1>1 DEF Sweeping
    <3> QED BY <2>2, <3>1 DEF CleanupFails
  <2>3. ASSUME NEW d \in Stores, Examined(s, d)
        PROVE  \E x \in Sweeping :
                  /\ sweeps' = [sweeps EXCEPT ![s] = x]
                  /\ \A e \in x.removing : e \in sweeps[s].removing \/ touched[e] < contentDay - 1
    <3> DEFINE x == [todo |-> sweeps[s].todo \ {d},
                     removing |-> IF touched[d] # NoDirectory /\ Stale(d) THEN {d} ELSE {}]
    <3>1. x \in Sweeping /\ \A e \in x.removing : e = d /\ Stale(d)
      BY <1>1 DEF Sweeping
    <3>2. sweeps' = [sweeps EXCEPT ![s] = x]
      BY <2>3 DEF Examined
    <3> QED BY <3>1, <3>2 DEF Stale
  <2> QED BY <2>1, <2>2, <2>3
<1>3. /\ sweeps'[s] = x /\ \A m \in Stores \ {s} : sweeps'[m] = sweeps[m]
      /\ sweeps' \in [Stores -> Sweeping]
  BY <1>1, <1>2
<1>4. StaleIsRemoved'
  BY <1>1, <1>2, <1>3 DEF ContentInv, StaleIsRemoved
<1> QED
  BY <1>1, <1>3, <1>4
     DEF ContentInv, ContentType, WritingIsToday, RecentIsTouched, RecentIsKept, Paths

\* Nothing of the last day goes with a directory that nobody has written to since
\* it was found stale.
LEMMA CleanupInv ==
    ASSUME ContentInv, NEW s \in Stores, NEW d \in Stores, CleanupSession(s, d)
    PROVE  ContentInv'
<1>1. /\ contentDay \in Nat /\ touched \in [Stores -> Nat \union {NoDirectory}]
      /\ sweeps \in [Stores -> Sweeping] /\ d \in sweeps[s].removing
      /\ UNCHANGED <<contentDay, storing, raced>>
      /\ touched' = [touched EXCEPT ![d] = NoDirectory]
      /\ files' = [p \in {q \in DOMAIN files : q[1] # d} |-> files[p]]
      /\ sweeps' = [sweeps EXCEPT ![s].removing = {}]
  BY DEF CleanupSession, ContentInv, ContentType
<1>2. /\ DOMAIN cached' \subseteq DOMAIN cached
      /\ \A p \in DOMAIN cached' : cached'[p] = cached[p]
  BY DEF CleanupSession
<1>3. d \notin raced => touched[d] < contentDay - 1
  BY <1>1 DEF ContentInv, StaleIsRemoved
<1>4. /\ sweeps' \in [Stores -> Sweeping] /\ \A m \in Stores : sweeps'[m].removing \subseteq sweeps[m].removing
  <2> DEFINE x == [sweeps[s] EXCEPT !.removing = {}]
  <2>1. x \in Sweeping /\ x.removing = {}
    BY <1>1 DEF Sweeping
  <2>2. sweeps' = [sweeps EXCEPT ![s] = x]
    BY <1>1
  <2> HIDE DEF x
  <2> QED BY <1>1, <2>1, <2>2
<1>5. \A e \in Stores : touched'[e] = IF e = d THEN NoDirectory ELSE touched[e]
  BY <1>1
<1>6. \A e \in Stores : touched[e] \in Nat \union {-1}
  BY <1>1 DEF NoDirectory
<1>7. StaleIsRemoved'
  <2> SUFFICES ASSUME NEW m \in Stores, NEW e \in Stores, e \in sweeps[m].removing, e \notin raced
               PROVE  touched'[e] < contentDay - 1
    BY <1>1, <1>4 DEF StaleIsRemoved
  <2>1. touched[e] < contentDay - 1
    BY DEF ContentInv, StaleIsRemoved
  <2> QED BY <1>1, <1>5, <1>6, <2>1 DEF NoDirectory
<1>8. ASSUME NEW p \in DOMAIN cached, cached[p] >= contentDay - 1, p[1] \notin raced
      PROVE  p[1] # d
  <2>1. touched[p[1]] >= cached[p] /\ cached[p] \in Nat /\ p[1] \in Stores
    BY <1>8 DEF ContentInv, RecentIsTouched, ContentType, Paths
  <2> QED BY <1>1, <1>3, <1>6, <1>8, <2>1
<1>9. RecentIsTouched'
  <2> SUFFICES ASSUME NEW p \in DOMAIN cached, cached[p] >= contentDay - 1, p[1] \notin raced
               PROVE  touched'[p[1]] >= cached[p]
    BY <1>1, <1>2 DEF RecentIsTouched
  <2>1. touched[p[1]] >= cached[p] /\ p[1] \in Stores /\ p[1] # d
    BY <1>8 DEF ContentInv, RecentIsTouched, ContentType, Paths
  <2> QED BY <1>5, <2>1
<1>10. RecentIsKept'
  <2> SUFFICES ASSUME NEW p \in DOMAIN cached, cached[p] >= contentDay - 1, p[1] \notin raced
               PROVE  p \in DOMAIN files' /\ files'[p] = "whole"
    BY <1>1, <1>2 DEF RecentIsKept
  <2>1. p \in DOMAIN files /\ files[p] = "whole" /\ p[1] # d
    BY <1>8 DEF ContentInv, RecentIsKept
  <2> QED BY <1>1, <2>1
<1>11. WritingIsToday'
  <2> SUFFICES ASSUME NEW t \in Stores
               PROVE  /\ storing[t] # NotStoring => <<t, storing[t].content>> \notin DOMAIN cached'
                      /\ storing[t].pc = "writing" /\ t \notin raced =>
                            touched'[t] = contentDay /\ <<t, storing[t].content>> \in DOMAIN files'
    BY <1>1 DEF WritingIsToday
  <2>1. storing[t] # NotStoring => <<t, storing[t].content>> \notin DOMAIN cached'
    BY <1>2 DEF ContentInv, WritingIsToday
  <2>2. ASSUME storing[t].pc = "writing", t \notin raced
        PROVE  touched'[t] = contentDay /\ <<t, storing[t].content>> \in DOMAIN files'
    <3>1. touched[t] = contentDay /\ <<t, storing[t].content>> \in DOMAIN files
      BY <2>2 DEF ContentInv, WritingIsToday
    <3>2. t # d
      BY <1>1, <1>3, <2>2, <3>1
    <3> QED BY <1>1, <1>5, <3>1, <3>2
  <2> QED BY <2>1, <2>2
<1>12. ContentType'
  BY <1>1, <1>2, <1>4 DEF ContentInv, ContentType, Paths
<1> QED BY <1>7, <1>9, <1>10, <1>11, <1>12 DEF ContentInv

LEMMA DayInv ==
    ASSUME ContentInv, ContentDayPasses
    PROVE  ContentInv'
<1>1. /\ contentDay \in Nat /\ contentDay' = contentDay + 1 /\ \A s \in Stores : storing[s] = NotStoring
      /\ UNCHANGED <<files, touched, storing, cached, sweeps, raced>>
      /\ \A s \in Stores : touched[s] \in Nat \union {-1}
  BY DEF ContentDayPasses, ContentInv, ContentType, NoDirectory
<1>2. ContentType'
  BY <1>1 DEF ContentInv, ContentType, Paths
<1>3. StaleIsRemoved'
  BY <1>1 DEF ContentInv, StaleIsRemoved
<1>4. WritingIsToday'
  BY <1>1 DEF WritingIsToday, NotStoring
<1>5. \A p \in DOMAIN cached : cached[p] >= contentDay' - 1 => cached[p] >= contentDay - 1
  BY <1>1 DEF ContentInv, ContentType
<1>6. RecentIsTouched' /\ RecentIsKept'
  BY <1>1, <1>5 DEF ContentInv, RecentIsTouched, RecentIsKept
<1> QED BY <1>2, <1>3, <1>4, <1>6 DEF ContentInv

LEMMA ContentStep == ContentInv /\ [ContentNext]_contentvars => ContentInv'
<1> SUFFICES ASSUME ContentInv, [ContentNext]_contentvars PROVE ContentInv'
  OBVIOUS
<1>1. ASSUME NEW s \in Stores, ManagerCreated(s) \/ Shutdown(s)
      PROVE  ContentInv'
  BY <1>1, ContentStill DEF ManagerCreated, Shutdown
<1>2. ASSUME NEW i \in ContentReaders,
             ListingBegins(i) \/ (\E p \in Paths : FileRead(i, p)) \/ ListingAnswered(i)
      PROVE  ContentInv'
  BY <1>2, ContentStill DEF ListingBegins, FileRead, ListingAnswered
<1>3. CASE UNCHANGED contentvars
  BY <1>3, ContentStill DEF contentvars
<1> QED
  BY <1>1, <1>2, <1>3, StoreInv, OpenedInv, WrittenInv, StoreFailsInv, SweepsInv, CleanupInv,
     DayInv DEF ContentNext

\* However many managers clean up at once, for themselves and for the others, what
\* was stored within the last day stays.
THEOREM RecentContentIsKept ==
    ContentInit /\ [][ContentNext]_contentvars => []RecentIsKept
<1>1. ContentInit => ContentInv
  BY DEF ContentInit, ContentInv, ContentType, StaleIsRemoved, WritingIsToday, RecentIsTouched,
         RecentIsKept, NotStoring, NoSweep, Sweeping, Paths
<1>2. ContentInv => RecentIsKept
  BY DEF ContentInv
<1> QED
  BY <1>1, <1>2, ContentStep, PTL

------------------------------------------------------------------------------
(***************************************************************************)
(* The realms                                                              *)
(***************************************************************************)

Writes(x) == x.pc \in {"updating", "deleting", "creating"}

\* What a call in flight looks like.
IsCall(x) ==
    /\ x = [pc |-> x.pc, request |-> x.request, key |-> x.key, snapshot |-> x.snapshot,
            new |-> x.new, loaded |-> x.loaded, answer |-> x.answer, alone |-> x.alone]
    /\ x.alone \in BOOLEAN
    /\ x.pc \in {"resolving", "loading"} \/ Writes(x)
    /\ x.pc = "resolving" =>
          x.request \in Requests /\ (x.answer \notin {"none", "failed"} => x.answer \in Slugs)
    /\ Writes(x) => x.key \in Slugs
    /\ x.pc = "updating" =>
          /\ x.request \in Requests /\ x.request.op \notin {"get", "delete"}
          /\ x.snapshot \in Realm /\ x.new = Changed(x.snapshot, x.request)
    /\ x.pc = "deleting" => x.snapshot \in Realm /\ x.request.op = "delete"
    /\ x.pc = "creating" => x.new \in Realm
    /\ x.pc = "loading" /\ x.answer = "done" =>
          DOMAIN x.loaded \subseteq Slugs /\ \A s \in DOMAIN x.loaded : x.loaded[s] \in Realm

\* The maps, the table and the calls.
RealmsOK ==
    /\ Listed \subseteq Slugs /\ \A s \in Listed : realms[s] \in Realm
    /\ rows = [s \in Stored |-> rows[s]] /\ Stored \subseteq Slugs
    /\ \A s \in Stored : rows[s] = [id |-> rows[s].id, body |-> rows[s].body] /\ rows[s].body \in Realm
    /\ \A u \in DOMAIN memo : memo[u] \in Slugs
    /\ calls = [c \in Clients |-> calls[c]]
    /\ \A c \in Clients : calls[c] = Idle \/ IsCall(calls[c])

\* Two calls that are not both looking for their realm, nor at work on two.
Clash(x, y) ==
    /\ ~ (x.pc = "resolving" /\ y.pc = "resolving")
    /\ Writes(x) /\ Writes(y) => x.key = y.key

\* Neither of two calls that clash is alone.
Apart ==
    \A c \in InFlight : \A d \in InFlight \ {c} :
        Clash(calls[c], calls[d]) => ~ calls[c].alone /\ ~ calls[d].alone

Busy(x, s) == x.pc = "loading" \/ (Writes(x) /\ x.key = s)

SameRealm(held, kept, s, loose) ==
    /\ s \in DOMAIN held <=> s \in DOMAIN kept
    /\ s \in DOMAIN held => SameBody(held[s], kept[s].body, s, loose)

\* A realm nobody works on, and nothing is suspected of, is listed as stored.
QuietIsListed ==
    \A s \in Slugs \ suspect :
        (\A c \in InFlight : ~ Busy(calls[c], s)) => SameRealm(realms, rows, s, retyped)

\* The realms whose type only memory has, once the call has its answer.
Loosened(x, loose) == IF x.request.op = "retype" THEN loose \union {x.key} ELSE loose

\* What a call that is alone on its realm finds there when it goes on.
WriteFits(x, held, kept, loose) ==
    /\ x.pc = "updating" =>
          /\ x.key \in DOMAIN held /\ held[x.key] = x.new
          /\ x.answer \notin {"done", "lost"} =>
                x.key \in DOMAIN kept /\ SameBody(x.snapshot, kept[x.key].body, x.key, loose)
          /\ x.answer = "done" =>
                x.key \in DOMAIN kept /\ SameBody(x.new, kept[x.key].body, x.key, Loosened(x, loose))
    /\ x.pc = "deleting" =>
          /\ x.key \notin DOMAIN held
          /\ x.answer = "done" => x.key \notin DOMAIN kept
          /\ x.answer \notin {"done", "lost"} =>
                x.key \in DOMAIN kept /\ SameBody(x.snapshot, kept[x.key].body, x.key, loose)
    /\ x.pc = "creating" /\ x.answer = "done" =>
          x.key \in DOMAIN kept /\ kept[x.key].body = x.new

ResolvingFits(x, kept) ==
    x.answer \notin {"none", "failed"} => x.answer \in DOMAIN kept /\ kept[x.answer].id = x.key

LoadingFits(x, held, kept, known) ==
    /\ DOMAIN held = {} /\ DOMAIN known = {}
    /\ x.answer = "done" =>
          DOMAIN x.loaded = DOMAIN kept /\ \A s \in DOMAIN kept : x.loaded[s] = kept[s].body

Fits(x, held, kept, known, doubtful, loose) ==
    /\ x.pc = "resolving" => ResolvingFits(x, kept)
    /\ x.pc = "loading" => LoadingFits(x, held, kept, known)
    /\ Writes(x) /\ x.key \notin doubtful => WriteFits(x, held, kept, loose)

AloneFits == \A c \in InFlight : calls[c].alone => Fits(calls[c], realms, rows, memo, suspect, retyped)

\* A memoised surrogate is that of its row, and no longer memoised when the
\* row is about to go.
MemoFits ==
    /\ \A u \in DOMAIN memo \ suspect : memo[u] \in Stored /\ rows[memo[u]].id = u
    /\ \A c \in InFlight : calls[c].pc = "deleting" =>
          \A u \in DOMAIN memo \ suspect : memo[u] # calls[c].key

RealmsInv == RealmsOK /\ Apart /\ QuietIsListed /\ AloneFits /\ MemoFits

LEMMA OverlapIsClash ==
    ASSUME NEW x, NEW y, IsCall(x), IsCall(y)
    PROVE  Overlap(x, y) <=> Clash(x, y)
<1>1. x.pc \in {"resolving", "loading"} => Touches(x) = Slugs
  BY DEF Touches
<1>2. y.pc \in {"resolving", "loading"} => Touches(y) = Slugs
  BY DEF Touches
<1>3. Writes(x) => Touches(x) = {x.key} /\ x.key \in Slugs
  BY DEF Touches, Writes, IsCall
<1>4. Writes(y) => Touches(y) = {y.key} /\ y.key \in Slugs
  BY DEF Touches, Writes, IsCall
<1>5. Touches(x) \intersect Touches(y) # {} <=> (Writes(x) /\ Writes(y) => x.key = y.key)
  <2>1. x.pc \in {"resolving", "loading"} \/ Writes(x)
    BY DEF IsCall
  <2>2. y.pc \in {"resolving", "loading"} \/ Writes(y)
    BY DEF IsCall
  <2>3. ~ (x.pc \in {"resolving", "loading"} /\ Writes(x)) /\ ~ (y.pc \in {"resolving", "loading"} /\ Writes(y))
    BY DEF Writes
  <2> QED BY <1>1, <1>2, <1>3, <1>4, <2>1, <2>2, <2>3, SlugsAssumption
<1>6. {x.pc, y.pc} # {"resolving"} <=> ~ (x.pc = "resolving" /\ y.pc = "resolving")
  OBVIOUS
<1> QED
  BY <1>5, <1>6 DEF Overlap, Clash

LEMMA Requieted ==
    ASSUME NEW x, IsCall(x), NEW b \in BOOLEAN, NEW y, y = [x EXCEPT !.alone = b]
    PROVE  /\ IsCall(y) /\ y.alone = b
           /\ y.pc = x.pc /\ y.request = x.request /\ y.key = x.key /\ y.snapshot = x.snapshot
           /\ y.new = x.new /\ y.loaded = x.loaded /\ y.answer = x.answer
<1>1. y = [pc |-> x.pc, request |-> x.request, key |-> x.key, snapshot |-> x.snapshot,
           new |-> x.new, loaded |-> x.loaded, answer |-> x.answer, alone |-> b]
  BY DEF IsCall
<1> QED
  BY <1>1 DEF IsCall, Writes

\* Every call but c's is as it was, or no longer alone.
Quieted(c) ==
    \A d \in Clients \ {c} :
        \/ calls'[d] = calls[d]
        \/ calls[d] # Idle /\ calls'[d] = [calls[d] EXCEPT !.alone = FALSE]

LEMMA QuietedFields ==
    ASSUME RealmsOK, NEW c \in Clients, Quieted(c), NEW d \in Clients \ {c}
    PROVE  /\ (calls[d] = Idle <=> calls'[d] = Idle)
           /\ calls[d].pc = "idle" <=> calls[d] = Idle
           /\ calls'[d].pc = calls[d].pc
           /\ calls[d] # Idle => 
                /\ IsCall(calls[d]) /\ IsCall(calls'[d])
                /\ calls'[d].key = calls[d].key /\ calls'[d].answer = calls[d].answer
                /\ calls'[d].alone => calls'[d] = calls[d]
<1>1. CASE calls[d] = Idle
  BY <1>1 DEF Quieted, Idle
<1>2. CASE calls[d] # Idle
  <2>1. IsCall(calls[d])
    BY <1>2 DEF RealmsOK
  <2>2. calls[d].pc # "idle"
    BY <2>1 DEF IsCall, Writes
  <2>3. CASE calls'[d] = calls[d]
    BY <1>2, <2>1, <2>2, <2>3
  <2>4. CASE calls'[d] = [calls[d] EXCEPT !.alone = FALSE]
    <3>1. IsCall(calls'[d]) /\ ~ calls'[d].alone /\ calls'[d].pc = calls[d].pc
            /\ calls'[d].key = calls[d].key /\ calls'[d].answer = calls[d].answer
      BY <2>1, <2>4, Requieted
    <3>2. calls'[d] # Idle
      BY <2>2, <3>1 DEF Idle
    <3> QED BY <1>2, <2>1, <2>2, <3>1, <3>2
  <2> QED BY <1>2, <2>3, <2>4 DEF Quieted
<1> QED
  BY <1>1, <1>2

\* A call that goes on: those it clashes with are no longer alone.
LEMMA GoesOnCalls ==
    ASSUME RealmsOK, Apart, NEW c \in Clients, NEW x, IsCall(x), GoesOn(c, x)
    PROVE  /\ calls' = [d \in Clients |-> calls'[d]]
           /\ \A d \in Clients : calls'[d] = Idle \/ IsCall(calls'[d])
           /\ Quieted(c)
           /\ \A d \in InFlight \ {c} : Clash(x, calls[d]) => ~ calls'[d].alone
           /\ calls'[c] = [x EXCEPT !.alone = calls'[c].alone] /\ calls'[c].alone \in BOOLEAN
           /\ calls'[c].alone => x.alone /\ \A d \in InFlight \ {c} : ~ Clash(x, calls[d])
           /\ Apart'
<1> DEFINE others == {d \in InFlight \ {c} : Overlap(x, calls[d])}
           b == x.alone /\ others = {}
<1>1. calls' = [d \in Clients |-> IF d = c THEN [x EXCEPT !.alone = @ /\ others = {}]
                                  ELSE IF d \in others THEN [calls[d] EXCEPT !.alone = FALSE]
                                  ELSE calls[d]]
  BY DEF GoesOn
<1>2. \A d \in InFlight : d \in Clients /\ IsCall(calls[d]) /\ calls[d] # Idle
  BY DEF RealmsOK, InFlight, Idle
<1>3. others = {d \in InFlight \ {c} : Clash(x, calls[d])}
  BY <1>2, OverlapIsClash
<1>4. x.alone \in BOOLEAN
  BY DEF IsCall
<1>5. calls'[c] = [x EXCEPT !.alone = b] /\ b \in BOOLEAN
  BY <1>1, <1>4
<1> HIDE DEF others, b
<1>6. IsCall(calls'[c]) /\ calls'[c].alone = b /\ calls'[c].pc = x.pc /\ calls'[c].key = x.key
  BY <1>5, Requieted
<1>7. \A d \in Clients \ {c} : calls'[d] = IF d \in others THEN [calls[d] EXCEPT !.alone = FALSE] ELSE calls[d]
  BY <1>1
<1>8. Quieted(c)
  BY <1>2, <1>3, <1>7 DEF Quieted
<1>9. \A d \in InFlight \ {c} : Clash(x, calls[d]) => ~ calls'[d].alone
  <2> SUFFICES ASSUME NEW d \in InFlight \ {c}, Clash(x, calls[d])
               PROVE  ~ calls'[d].alone
    OBVIOUS
  <2>1. calls'[d] = [calls[d] EXCEPT !.alone = FALSE]
    BY <1>2, <1>3, <1>7
  <2> QED BY <1>2, <2>1, Requieted
<1>10. \A d \in Clients : calls'[d] = Idle \/ IsCall(calls'[d])
  BY <1>6, <1>8, QuietedFields DEF RealmsOK
<1>11. calls'[c].alone => x.alone /\ \A d \in InFlight \ {c} : ~ Clash(x, calls[d])
  BY <1>3, <1>6 DEF b
<1>12. Apart'
  <2> SUFFICES ASSUME NEW d \in InFlight', NEW e \in InFlight' \ {d}, Clash(calls'[d], calls'[e])
               PROVE  ~ calls'[d].alone /\ ~ calls'[e].alone
    BY DEF Apart, Clash, Writes
  <2>1. \A f \in InFlight' : f \in Clients /\ (f # c => f \in InFlight /\ calls'[f].pc = calls[f].pc
             /\ calls'[f].key = calls[f].key /\ (calls'[f].alone => calls[f].alone))
    BY <1>8, QuietedFields DEF InFlight
  <2>2. CASE d # c /\ e # c
    <3>1. Clash(calls[d], calls[e])
      BY <2>1, <2>2 DEF Clash, Writes
    <3> QED BY <2>1, <2>2, <3>1 DEF Apart
  <2>3. CASE d = c
    <3>1. Clash(x, calls[e])
      BY <1>6, <2>1, <2>3 DEF Clash, Writes
    <3> QED BY <1>9, <1>11, <2>1, <2>3, <3>1
  <2>4. CASE e = c
    <3>1. Clash(x, calls[d])
      BY <1>6, <2>1, <2>4 DEF Clash, Writes
    <3> QED BY <1>9, <1>11, <2>1, <2>4, <3>1
  <2> QED BY <2>2, <2>3, <2>4
<1> QED
  BY <1>1, <1>5, <1>6, <1>8, <1>9, <1>10, <1>11, <1>12

\* Nothing but k differs between f and g.
SameElsewhere(f, g, k) ==
    \A s \in Slugs \ {k} : (s \in DOMAIN f <=> s \in DOMAIN g) /\ (s \in DOMAIN f => f[s] = g[s])

\* A step of a call x of client c, working on one realm, leaves the others as
\* they were: the calls on them, and what is listed and stored.
LEMMA ElsewhereInv ==
    ASSUME RealmsInv, NEW c \in Clients, NEW x, Writes(x), x.key \in Slugs,
           Quieted(c),
           \A d \in InFlight \ {c} : Clash(x, calls[d]) => ~ calls'[d].alone,
           \A s \in Slugs \ {x.key} : c \in InFlight => ~ Busy(calls[c], s),
           SameElsewhere(realms', realms, x.key), SameElsewhere(rows', rows, x.key),
           suspect \subseteq suspect', \A s \in Slugs \ {x.key} : s \in retyped' <=> s \in retyped
    PROVE  /\ \A s \in Slugs \ suspect' :
                 s # x.key /\ (\A d \in InFlight' : ~ Busy(calls'[d], s)) => SameRealm(realms', rows', s, retyped')
           /\ \A d \in InFlight' \ {c} :
                 calls'[d].alone => Fits(calls'[d], realms', rows', memo', suspect', retyped')
<1>1. RealmsOK
  BY DEF RealmsInv
<1>2. \A d \in Clients \ {c} :
         /\ d \in InFlight' <=> d \in InFlight
         /\ calls'[d].pc = calls[d].pc
         /\ d \in InFlight => IsCall(calls[d]) /\ calls'[d].key = calls[d].key
                                /\ (calls'[d].alone => calls'[d] = calls[d])
  BY <1>1, QuietedFields DEF InFlight
<1>3. ASSUME NEW s \in Slugs \ suspect', s # x.key, \A d \in InFlight' : ~ Busy(calls'[d], s)
      PROVE  SameRealm(realms', rows', s, retyped')
  <2>1. \A d \in InFlight : ~ Busy(calls[d], s)
    <3> SUFFICES ASSUME NEW d \in InFlight PROVE ~ Busy(calls[d], s)
      OBVIOUS
    <3>1. CASE d = c
      BY <3>1, <1>3
    <3>2. CASE d # c
      <4>1. d \in Clients \ {c}
        BY <3>2 DEF InFlight
      <4>2. ~ Busy(calls'[d], s) /\ calls'[d].pc = calls[d].pc /\ calls'[d].key = calls[d].key
        BY <1>2, <1>3, <4>1
      <4> QED BY <4>2 DEF Busy, Writes
    <3> QED BY <3>1, <3>2
  <2>2. SameRealm(realms, rows, s, retyped)
    BY <1>3, <2>1 DEF RealmsInv, QuietIsListed
  <2> QED
    BY <1>3, <2>2 DEF SameRealm, SameElsewhere, SameBody
<1>4. ASSUME NEW d \in InFlight' \ {c}, calls'[d].alone
      PROVE  Fits(calls'[d], realms', rows', memo', suspect', retyped')
  <2>1. d \in InFlight /\ d \in Clients
    BY <1>2 DEF InFlight
  <2> DEFINE y == calls[d]
  <2>2. calls'[d] = y /\ y.alone /\ IsCall(y)
    BY <1>2, <1>4, <2>1
  <2>3. ~ Clash(x, y)
    BY <1>4, <2>1
  <2>4. Fits(y, realms, rows, memo, suspect, retyped)
    BY <2>1, <2>2 DEF RealmsInv, AloneFits
  <2> HIDE DEF y
  <2>5. Writes(y) /\ y.key # x.key /\ y.key \in Slugs
    BY <2>2, <2>3 DEF Clash, Writes, IsCall
  <2>6. y.key \notin suspect' => WriteFits(y, realms', rows', retyped')
    <3>1. SUFFICES ASSUME y.key \notin suspect' PROVE WriteFits(y, realms', rows', retyped')
      OBVIOUS
    <3>2. WriteFits(y, realms, rows, retyped)
      BY <2>4, <2>5, <3>1 DEF Fits
    <3> QED BY <2>5, <3>2 DEF WriteFits, SameElsewhere, SameBody, Loosened
  <2> QED BY <2>2, <2>5, <2>6 DEF Fits, Writes
<1> QED
  BY <1>3, <1>4

\* What a request changes and what its statement writes are alike, but for the type.
LEMMA ChangedIsWritten ==
    ASSUME NEW r \in Requests, r.op \notin {"get", "delete"}, NEW b \in Realm,
           NEW new, new = Changed(b, r)
    PROVE  /\ new \in Realm
           /\ \A kept \in Realm : Written(kept, r, new) \in Realm
           /\ \A kept \in Realm : \A s, loose : SameBody(b, kept, s, loose) =>
                 SameBody(new, Written(kept, r, new), s,
                          IF r.op = "retype" THEN loose \union {s} ELSE loose)
<1>1. CASE r.op = "retype"
  <2>1. r.kind \in Kinds
    BY <1>1 DEF Requests, RealmRequests, RosterRequests, ServerRequests
  <2> QED BY <1>1, <2>1 DEF Changed, Written, SameBody, Realm
<1>2. CASE r.op \in {"enlist", "dismiss"}
  <2>1. r.agent \in Residents
    BY <1>2 DEF Requests, RealmRequests, RosterRequests, ServerRequests
  <2> DEFINE roster == IF r.op = "enlist" THEN b.agents \union {r.agent} ELSE b.agents \ {r.agent}
  <2>2. new = [b EXCEPT !.agents = roster]
    BY <1>2 DEF Changed
  <2>3. roster \in SUBSET Residents
    BY <2>1 DEF Realm
  <2> HIDE DEF roster
  <2> QED BY <1>2, <2>2, <2>3 DEF Written, SameBody, Realm
<1>3. CASE r.op \in {"assign", "addServer", "removeServer"}
  <2>1. (r.op = "assign" => r.servers \in SUBSET Servers) /\ (r.op = "addServer" => r.server \in Servers)
    BY <1>3 DEF Requests, RealmRequests, RosterRequests, ServerRequests
  <2> DEFINE assigned == IF r.op = "assign" THEN r.servers
                         ELSE IF r.op = "addServer" THEN b.servers \union {r.server}
                         ELSE b.servers \ {r.server}
  <2>2. new = [b EXCEPT !.servers = assigned]
    BY <1>3 DEF Changed
  <2>3. assigned \in SUBSET Servers
    BY <1>3, <2>1 DEF Realm
  <2> HIDE DEF assigned
  <2> QED BY <1>3, <2>2, <2>3 DEF Written, SameBody, Realm
<1>4. r.op \in {"get", "delete", "retype", "enlist", "dismiss", "assign", "addServer", "removeServer"}
  BY DEF Requests, RealmRequests, RosterRequests, ServerRequests
<1> QED
  BY <1>1, <1>2, <1>3, <1>4

\* A call that has its key goes on, or had nothing to do.
LEMMA KeyedInv ==
    ASSUME RealmsInv, NEW c \in Clients, NEW x, NEW known,
           x = [pc |-> x.pc, request |-> x.request, key |-> x.key, snapshot |-> x.snapshot,
                new |-> x.new, loaded |-> x.loaded, answer |-> x.answer, alone |-> x.alone],
           x.alone \in BOOLEAN, x.request \in Requests, x.key \in Slugs, x.answer = "none",
           c \notin InFlight \/ calls[c].pc = "resolving",
           \A u \in DOMAIN known : known[u] \in Slugs,
           \A u \in DOMAIN known \ suspect' : known[u] \in Stored /\ rows[known[u]].id = u,
           \A d \in InFlight \ {c} : calls[d].pc = "deleting" =>
                 \A u \in DOMAIN known \ suspect' : known[u] # calls[d].key,
           \A d \in InFlight \ {c} : calls[d].pc = "loading" /\ calls[d].alone => known = memo,
           suspect \subseteq suspect', Proceeds(c, x, known),
           UNCHANGED <<rows, retyped>>
    PROVE  RealmsInv'
<1> DEFINE key == x.key
           asks == [x EXCEPT !.snapshot = realms[key]]
<1>1. RealmsOK /\ Apart
  BY DEF RealmsInv
<1>2. \A s \in Slugs : c \in InFlight => ~ Busy(calls[c], s)
  BY DEF Busy, Writes
<1>3. CASE NothingToDo(key, x.request)
  <2>1. calls' = [calls EXCEPT ![c] = Idle] /\ memo' = known /\ realms' = realms
    BY <1>3 DEF Proceeds
  <2>2. \A d \in Clients : calls'[d] = IF d = c THEN Idle ELSE calls[d]
    BY <1>1, <2>1 DEF RealmsOK
  <2>3. InFlight' = InFlight \ {c}
    BY <2>2 DEF InFlight, Idle
  <2>4. RealmsOK'
    BY <1>1, <2>1, <2>2 DEF RealmsOK, Listed, Stored
  <2>5. Apart'
    BY <1>1, <2>2, <2>3 DEF Apart, InFlight
  <2>6. QuietIsListed'
    <3> SUFFICES ASSUME NEW s \in Slugs \ suspect', \A d \in InFlight \ {c} : ~ Busy(calls[d], s)
                 PROVE  SameRealm(realms, rows, s, retyped)
      BY <2>1, <2>2, <2>3 DEF QuietIsListed, SameRealm, InFlight, Busy, Writes
    <3> QED BY <1>2 DEF RealmsInv, QuietIsListed
  <2>7. AloneFits'
    <3> SUFFICES ASSUME NEW d \in InFlight \ {c}, calls[d].alone
                 PROVE  Fits(calls[d], realms, rows, known, suspect', retyped')
      BY <2>1, <2>2, <2>3 DEF AloneFits, InFlight
    <3>1. Fits(calls[d], realms, rows, memo, suspect, retyped)
      BY DEF RealmsInv, AloneFits
    <3> QED BY <3>1 DEF Fits
  <2>8. MemoFits'
    BY <2>1, <2>2, <2>3 DEF MemoFits, Stored, InFlight
  <2> QED BY <2>4, <2>5, <2>6, <2>7, <2>8 DEF RealmsInv
<1>4. CASE ~ NothingToDo(key, x.request)
  <2>1. key \in Listed /\ realms[key] \in Realm /\ x.request.op # "get"
    BY <1>1, <1>4 DEF NothingToDo, RealmsOK
  <2> DEFINE y == IF x.request.op = "delete" THEN [asks EXCEPT !.pc = "deleting"]
                  ELSE [asks EXCEPT !.pc = "updating", !.new = Changed(realms[key], x.request)]
  <2>2. GoesOn(c, y)
    BY <1>4 DEF Proceeds
  <2>3. y = [pc |-> IF x.request.op = "delete" THEN "deleting" ELSE "updating",
             request |-> x.request, key |-> x.key, snapshot |-> realms[key],
             new |-> IF x.request.op = "delete" THEN x.new ELSE Changed(realms[key], x.request),
             loaded |-> x.loaded, answer |-> "none", alone |-> x.alone]
    <3>1. CASE x.request.op = "delete"
      BY <3>1
    <3>2. CASE x.request.op # "delete"
      BY <3>2
    <3> QED BY <3>1, <3>2
  <2> HIDE DEF y
  <2>4. /\ y.key = x.key /\ y.request = x.request /\ y.snapshot = realms[key] /\ y.answer = "none"
        /\ y.alone = x.alone
        /\ y.pc = IF x.request.op = "delete" THEN "deleting" ELSE "updating"
        /\ y.pc = "updating" => y.new = Changed(realms[key], x.request)
    BY <2>3
  <2>5. Writes(y) /\ IsCall(y)
    BY <2>1, <2>3, <2>4 DEF Writes, IsCall
  <2>6. /\ calls' = [d \in Clients |-> calls'[d]]
        /\ \A d \in Clients : calls'[d] = Idle \/ IsCall(calls'[d])
        /\ Quieted(c)
        /\ \A d \in InFlight \ {c} : Clash(y, calls[d]) => ~ calls'[d].alone
        /\ calls'[c] = [y EXCEPT !.alone = calls'[c].alone] /\ calls'[c].alone \in BOOLEAN
        /\ calls'[c].alone => y.alone /\ \A d \in InFlight \ {c} : ~ Clash(y, calls[d])
        /\ Apart'
    BY <1>1, <2>2, <2>5, GoesOnCalls
  <2>7. /\ IsCall(calls'[c]) /\ calls'[c].pc = y.pc /\ calls'[c].key = key
        /\ calls'[c].snapshot = y.snapshot /\ calls'[c].new = y.new /\ calls'[c].answer = "none"
    BY <2>4, <2>5, <2>6, Requieted
  <2>8. realms' = IF y.pc = "deleting" THEN Without(realms, {key})
                  ELSE [realms EXCEPT ![key] = Changed(realms[key], x.request)]
    BY <1>4, <2>4 DEF Proceeds
  <2>9. memo' = IF y.pc = "deleting" THEN ForgetLegacyIdsFor(known, key) ELSE known
    BY <1>4, <2>4 DEF Proceeds
  <2>10. /\ DOMAIN memo' \subseteq DOMAIN known /\ \A u \in DOMAIN memo' : memo'[u] = known[u]
         /\ y.pc = "deleting" => \A u \in DOMAIN memo' : memo'[u] # key
    BY <2>9 DEF ForgetLegacyIdsFor, Without
  <2>11. y.pc # "deleting" => Changed(realms[key], x.request) \in Realm
    BY <2>1, <2>4, ChangedIsWritten
  <2>12. SameElsewhere(realms', realms, key) /\ SameElsewhere(rows', rows, key)
    BY <2>8 DEF SameElsewhere, Without
  <2>13. /\ y.pc = "deleting" => DOMAIN realms' = Listed \ {key}
         /\ y.pc = "updating" => DOMAIN realms' = Listed /\ realms'[key] = Changed(realms[key], x.request)
         /\ \A s \in DOMAIN realms' : s # key => s \in Listed /\ realms'[s] = realms[s]
    BY <2>1, <2>4, <2>8 DEF Listed, Without
  <2>14. RealmsOK'
    <3>1. Listed' \subseteq Slugs /\ \A s \in Listed' : realms'[s] \in Realm
      BY <1>1, <2>4, <2>11, <2>13 DEF RealmsOK, Listed
    <3> QED BY <1>1, <2>6, <2>10, <3>1 DEF RealmsOK, Stored
  <2>15. c \in InFlight'
    BY <2>5, <2>7 DEF InFlight, Writes
  <2>16. /\ \A s \in Slugs \ suspect' :
               s # key /\ (\A d \in InFlight' : ~ Busy(calls'[d], s)) => SameRealm(realms', rows', s, retyped')
         /\ \A d \in InFlight' \ {c} :
               calls'[d].alone => Fits(calls'[d], realms', rows', memo', suspect', retyped')
    BY <1>2, <2>4, <2>5, <2>6, <2>12, ElsewhereInv
  <2>17. QuietIsListed'
    <3> SUFFICES ASSUME NEW s \in Slugs \ suspect', \A d \in InFlight' : ~ Busy(calls'[d], s)
                 PROVE  SameRealm(realms', rows', s, retyped')
      BY DEF QuietIsListed, SameRealm, Busy, Writes
    <3>1. s # key
      BY <2>5, <2>7, <2>15 DEF Busy, Writes
    <3> QED BY <2>16, <3>1
  <2>18. calls'[c].alone => Fits(calls'[c], realms', rows', memo', suspect', retyped')
    <3> SUFFICES ASSUME calls'[c].alone, key \notin suspect'
                 PROVE  WriteFits(calls'[c], realms', rows', retyped')
      BY <2>5, <2>7 DEF Fits, Writes
    <3>1. \A d \in InFlight : ~ Busy(calls[d], key)
      <4> SUFFICES ASSUME NEW d \in InFlight PROVE ~ Busy(calls[d], key)
        OBVIOUS
      <4>1. CASE d = c
        BY <1>2, <4>1
      <4>2. CASE d # c
        <5>1. ~ Clash(y, calls[d])
          BY <2>6, <4>2
        <5> QED BY <2>4, <2>5, <5>1 DEF Clash, Busy, Writes
      <4> QED BY <4>1, <4>2
    <3>2. SameRealm(realms, rows, key, retyped)
      BY <3>1 DEF RealmsInv, QuietIsListed
    <3>3. key \in Stored /\ SameBody(realms[key], rows[key].body, key, retyped)
      BY <2>1, <3>2 DEF SameRealm, Listed, Stored
    <3> QED BY <2>1, <2>4, <2>7, <2>13, <3>3 DEF WriteFits, Stored, Listed
  <2>19. AloneFits'
    <3> SUFFICES ASSUME NEW d \in InFlight', calls'[d].alone
                 PROVE  Fits(calls'[d], realms', rows', memo', suspect', retyped')
      BY DEF AloneFits, Fits
    <3> QED BY <2>16, <2>18
  <2>20. MemoFits'
    <3>1. \A u \in DOMAIN memo' \ suspect' : memo'[u] \in Stored' /\ rows'[memo'[u]].id = u
      BY <2>10 DEF Stored
    <3>2. ASSUME NEW d \in InFlight', calls'[d].pc = "deleting", NEW u \in DOMAIN memo' \ suspect'
          PROVE  memo'[u] # calls'[d].key
      <4>1. CASE d = c
        BY <2>7, <2>10, <3>2, <4>1
      <4>2. CASE d # c
        <5>1. d \in Clients \ {c} /\ calls'[d].pc # "idle"
          BY <4>2 DEF InFlight
        <5>2. calls'[d].pc = calls[d].pc /\ d \in InFlight /\ calls'[d].key = calls[d].key
          BY <1>1, <2>6, <5>1, QuietedFields DEF InFlight
        <5> QED BY <2>10, <3>2, <4>2, <5>2
      <4> QED BY <4>1, <4>2
    <3> QED BY <3>1, <3>2 DEF MemoFits
  <2> QED BY <2>6, <2>14, <2>17, <2>19, <2>20 DEF RealmsInv
<1> QED
  BY <1>3, <1>4

\* A call that starts and changes nothing yet.
LEMMA StartsInv ==
    ASSUME RealmsInv, NEW c \in Clients, c \notin InFlight, NEW y, IsCall(y), GoesOn(c, y),
           y.pc \in {"resolving", "creating"}, y.answer = "none",
           UNCHANGED <<realms, memo, rows, retyped, suspect>>
    PROVE  RealmsInv'
<1>1. RealmsOK /\ Apart
  BY DEF RealmsInv
<1>2. /\ calls' = [d \in Clients |-> calls'[d]]
      /\ \A d \in Clients : calls'[d] = Idle \/ IsCall(calls'[d])
      /\ Quieted(c)
      /\ calls'[c] = [y EXCEPT !.alone = calls'[c].alone] /\ calls'[c].alone \in BOOLEAN
      /\ Apart'
  BY <1>1, GoesOnCalls
<1>3. calls'[c].pc = y.pc /\ calls'[c].answer = "none"
  BY <1>2, Requieted
<1>4. \A d \in Clients \ {c} :
         /\ d \in InFlight' <=> d \in InFlight
         /\ calls'[d].pc = calls[d].pc
         /\ d \in InFlight => calls'[d].key = calls[d].key /\ (calls'[d].alone => calls'[d] = calls[d])
  BY <1>1, <1>2, QuietedFields DEF InFlight
<1>5. RealmsOK'
  BY <1>1, <1>2 DEF RealmsOK, Listed, Stored
<1>6. QuietIsListed'
  <2> SUFFICES ASSUME NEW s \in Slugs \ suspect, \A d \in InFlight' : ~ Busy(calls'[d], s)
               PROVE  SameRealm(realms, rows, s, retyped)
    BY DEF QuietIsListed, SameRealm, Busy, Writes
  <2>1. \A d \in InFlight : ~ Busy(calls[d], s)
    <3> SUFFICES ASSUME NEW d \in InFlight PROVE ~ Busy(calls[d], s)
      OBVIOUS
    <3>1. d \in Clients \ {c}
      BY DEF InFlight
    <3> QED BY <1>4, <3>1 DEF Busy, Writes
  <2> QED BY <2>1 DEF RealmsInv, QuietIsListed
<1>7. AloneFits'
  <2> SUFFICES ASSUME NEW d \in InFlight', calls'[d].alone
               PROVE  Fits(calls'[d], realms, rows, memo, suspect, retyped)
    BY DEF AloneFits, Fits
  <2>1. CASE d = c
    BY <1>3, <2>1 DEF Fits, ResolvingFits, WriteFits, Writes
  <2>2. CASE d # c
    BY <1>4, <2>2 DEF RealmsInv, AloneFits, InFlight
  <2> QED BY <2>1, <2>2
<1>8. MemoFits'
  <2> SUFFICES ASSUME NEW d \in InFlight', calls'[d].pc = "deleting",
                      NEW u \in DOMAIN memo \ suspect
               PROVE  memo[u] # calls'[d].key
    BY DEF RealmsInv, MemoFits, Stored
  <2>1. d # c /\ d \in Clients
    BY <1>3 DEF InFlight
  <2> QED BY <1>4, <2>1 DEF RealmsInv, MemoFits
<1> QED
  BY <1>2, <1>5, <1>6, <1>7, <1>8 DEF RealmsInv

\* A call hears from the database.
LEMMA AdvancesInv ==
    ASSUME RealmsInv, NEW c \in InFlight, NEW y, IsCall(y), calls' = [calls EXCEPT ![c] = y],
           y.pc = calls[c].pc, y.key = calls[c].key, y.alone = calls[c].alone,
           UNCHANGED <<realms, memo, retyped, suspect>>,
           rows' = rows \/ (Writes(y) /\ SameElsewhere(rows', rows, y.key)),
           rows' = [s \in DOMAIN rows' |-> rows'[s]], DOMAIN rows' \subseteq Slugs,
           \A s \in DOMAIN rows' :
              rows'[s] = [id |-> rows'[s].id, body |-> rows'[s].body] /\ rows'[s].body \in Realm,
           \A u \in DOMAIN memo \ suspect : memo[u] \in DOMAIN rows' /\ rows'[memo[u]].id = u,
           y.alone => Fits(y, realms, rows', memo, suspect, retyped)
    PROVE  RealmsInv'
<1>1. RealmsOK /\ Apart
  BY DEF RealmsInv
<1>2. c \in Clients /\ IsCall(calls[c])
  BY <1>1 DEF InFlight, RealmsOK, Idle
<1>3. \A d \in Clients : calls'[d] = IF d = c THEN y ELSE calls[d]
  BY <1>1 DEF RealmsOK
<1>4. InFlight' = InFlight
  BY <1>3 DEF InFlight
<1>5. RealmsOK'
  <2>1. \A d \in Clients : calls'[d] = Idle \/ IsCall(calls'[d])
    BY <1>1, <1>3 DEF RealmsOK
  <2>2. calls' = [d \in Clients |-> calls'[d]]
    BY <1>1, <1>3 DEF RealmsOK
  <2> QED BY <1>1, <2>1, <2>2 DEF RealmsOK, Listed, Stored
<1>6. Apart'
  <2> SUFFICES ASSUME NEW d \in InFlight, NEW e \in InFlight \ {d}, Clash(calls'[d], calls'[e])
               PROVE  ~ calls'[d].alone /\ ~ calls'[e].alone
    BY <1>4 DEF Apart, Clash, Writes
  <2>1. Clash(calls[d], calls[e])
    BY <1>3 DEF Clash, Writes, InFlight
  <2> QED BY <1>1, <1>3, <2>1 DEF Apart, InFlight
<1>7. QuietIsListed'
  <2> SUFFICES ASSUME NEW s \in Slugs \ suspect, \A d \in InFlight : ~ Busy(calls'[d], s)
               PROVE  SameRealm(realms, rows', s, retyped)
    BY <1>4 DEF QuietIsListed, SameRealm, Busy, Writes
  <2>1. \A d \in InFlight : ~ Busy(calls[d], s)
    BY <1>3 DEF Busy, Writes, InFlight
  <2>2. SameRealm(realms, rows, s, retyped)
    BY <2>1 DEF RealmsInv, QuietIsListed
  <2>3. Writes(y) => s # y.key
    BY <1>2, <1>3 DEF Busy
  <2> QED BY <2>2, <2>3 DEF SameRealm, SameElsewhere
<1>8. AloneFits'
  <2> SUFFICES ASSUME NEW d \in InFlight, calls'[d].alone
               PROVE  Fits(calls'[d], realms, rows', memo, suspect, retyped)
    BY <1>4 DEF AloneFits, Fits
  <2>1. CASE d = c
    BY <1>2, <1>3, <2>1
  <2>2. CASE d # c
    <3>1. calls'[d] = calls[d] /\ d \in Clients
      BY <1>3, <2>2 DEF InFlight
    <3>2. Fits(calls[d], realms, rows, memo, suspect, retyped)
      BY <3>1 DEF RealmsInv, AloneFits
    <3>3. CASE rows' = rows
      BY <3>1, <3>2, <3>3
    <3>4. CASE Writes(y) /\ SameElsewhere(rows', rows, y.key)
      <4> DEFINE z == calls[d]
      <4>1. IsCall(z) /\ z.alone /\ Fits(z, realms, rows, memo, suspect, retyped)
        BY <1>1, <3>1, <3>2 DEF RealmsOK, InFlight, Idle
      <4>2. ~ Clash(calls[c], z)
        BY <1>1, <2>2, <4>1 DEF Apart
      <4> HIDE DEF z
      <4>3. Writes(z) /\ z.key # y.key /\ z.key \in Slugs
        BY <3>4, <4>1, <4>2 DEF Clash, Writes, IsCall
      <4>4. z.key \notin suspect => WriteFits(z, realms, rows', retyped)
        BY <3>4, <4>1, <4>3 DEF Fits, WriteFits, SameElsewhere
      <4>5. Fits(z, realms, rows', memo, suspect, retyped)
        BY <4>3, <4>4 DEF Fits, Writes
      <4> QED BY <3>1, <4>5 DEF z
    <3> QED BY <3>3, <3>4
  <2> QED BY <2>1, <2>2
<1>9. MemoFits'
  <2> SUFFICES ASSUME NEW d \in InFlight, calls'[d].pc = "deleting",
                      NEW u \in DOMAIN memo \ suspect
               PROVE  memo[u] # calls'[d].key
    BY <1>4 DEF MemoFits, Stored
  <2>1. calls[d].pc = "deleting" /\ calls'[d].key = calls[d].key
    BY <1>3 DEF InFlight
  <2> QED BY <2>1 DEF RealmsInv, MemoFits
<1> QED
  BY <1>5, <1>6, <1>7, <1>8, <1>9 DEF RealmsInv

\* A call that worked on one realm ends.
LEMMA WriteEndsInv ==
    ASSUME RealmsInv, NEW c \in InFlight, NEW x, x = calls[c], Writes(x),
           calls' = [calls EXCEPT ![c] = Idle], UNCHANGED <<memo, rows>>,
           \A s \in Slugs \ {x.key} : s \in retyped' <=> s \in retyped,
           suspect \subseteq suspect', ~ x.alone => x.key \in suspect',
           SameElsewhere(realms', realms, x.key),
           DOMAIN realms' \subseteq Slugs, \A s \in DOMAIN realms' : realms'[s] \in Realm,
           x.alone /\ x.key \notin suspect' => SameRealm(realms', rows, x.key, retyped')
    PROVE  RealmsInv'
<1>1. RealmsOK /\ Apart
  BY DEF RealmsInv
<1>2. c \in Clients /\ IsCall(x) /\ x.key \in Slugs
  BY <1>1 DEF InFlight, RealmsOK, Idle, IsCall
<1>3. \A d \in Clients : calls'[d] = IF d = c THEN Idle ELSE calls[d]
  BY <1>1 DEF RealmsOK
<1>4. InFlight' = InFlight \ {c}
  BY <1>3 DEF InFlight, Idle
<1>5. RealmsOK'
  <2>1. \A d \in Clients : calls'[d] = Idle \/ IsCall(calls'[d])
    BY <1>1, <1>3 DEF RealmsOK
  <2>2. calls' = [d \in Clients |-> calls'[d]]
    BY <1>1, <1>3 DEF RealmsOK
  <2> QED BY <1>1, <2>1, <2>2 DEF RealmsOK, Listed, Stored
<1>6. Apart'
  BY <1>1, <1>3, <1>4 DEF Apart, InFlight
<1>7. Quieted(c)
  BY <1>3 DEF Quieted
<1>8. \A d \in InFlight \ {c} : Clash(x, calls[d]) => ~ calls'[d].alone
  BY <1>1, <1>3 DEF Apart, InFlight
<1>9. \A s \in Slugs \ {x.key} : ~ Busy(x, s)
  BY DEF Busy, Writes
<1>10. SameElsewhere(rows', rows, x.key)
  BY DEF SameElsewhere
<1>11. /\ \A s \in Slugs \ suspect' :
             s # x.key /\ (\A d \in InFlight' : ~ Busy(calls'[d], s)) => SameRealm(realms', rows', s, retyped')
       /\ \A d \in InFlight' \ {c} :
             calls'[d].alone => Fits(calls'[d], realms', rows', memo', suspect', retyped')
  BY <1>2, <1>7, <1>8, <1>9, <1>10, ElsewhereInv
<1>12. QuietIsListed'
  <2> SUFFICES ASSUME NEW s \in Slugs \ suspect', \A d \in InFlight' : ~ Busy(calls'[d], s)
               PROVE  SameRealm(realms', rows', s, retyped')
    BY DEF QuietIsListed, SameRealm, Busy, Writes
  <2> QED BY <1>2, <1>11
<1>13. AloneFits'
  <2> SUFFICES ASSUME NEW d \in InFlight', calls'[d].alone
               PROVE  Fits(calls'[d], realms', rows', memo', suspect', retyped')
    BY DEF AloneFits, Fits
  <2> QED BY <1>4, <1>11
<1>14. MemoFits'
  BY <1>3, <1>4 DEF RealmsInv, MemoFits, Stored, InFlight
<1> QED
  BY <1>5, <1>6, <1>12, <1>13, <1>14 DEF RealmsInv

LEMMA IsInFlight ==
    ASSUME RealmsOK, NEW c \in Clients, calls[c].pc # "idle"
    PROVE  c \in InFlight /\ IsCall(calls[c])
BY DEF RealmsOK, InFlight, Idle

LEMMA FieldsOfACall ==
    ASSUME NEW r, NEW k, NEW pc, NEW y, y = [Call(r, k) EXCEPT !.pc = pc]
    PROVE  y = [pc |-> pc, request |-> r, key |-> k, snapshot |-> Idle, new |-> Idle,
                loaded |-> NoRealms, answer |-> "none", alone |-> TRUE]
BY DEF Call

LEMMA FieldsOfACreation ==
    ASSUME NEW r, NEW k, NEW n, NEW y, y = [Call(r, k) EXCEPT !.pc = "creating", !.new = n]
    PROVE  y = [pc |-> "creating", request |-> r, key |-> k, snapshot |-> Idle, new |-> n,
                loaded |-> NoRealms, answer |-> "none", alone |-> TRUE]
BY DEF Call

LEMMA FieldsOfAResolved ==
    ASSUME NEW x, IsCall(x), NEW y, y = [x EXCEPT !.key = x.answer, !.answer = "none"]
    PROVE  y = [pc |-> x.pc, request |-> x.request, key |-> x.answer, snapshot |-> x.snapshot,
                new |-> x.new, loaded |-> x.loaded, answer |-> "none", alone |-> x.alone]
BY DEF IsCall

\* The calls that start.
LEMMA CallInv ==
    ASSUME RealmsInv, NEW c \in Clients, c \notin InFlight, NEW r \in Requests
    PROVE  /\ \A s \in Slugs : CallBySlug(c, r, s) => RealmsInv'
           /\ \A u : CallByMemo(c, r, u) => RealmsInv'
           /\ \A u : CallBySurrogate(c, r, u) => RealmsInv'
           /\ \A s \in Slugs : \A servers \in SUBSET Servers, kind \in Kinds : CreateRealm(c, s, servers, kind) => RealmsInv'
<1>1. RealmsOK
  BY DEF RealmsInv
<1>2. ASSUME NEW s \in Slugs, Proceeds(c, Call(r, s), memo), UNCHANGED <<rows, retyped, suspect>>
      PROVE  RealmsInv'
  <2> DEFINE x == Call(r, s)
  <2>1. /\ x = [pc |-> x.pc, request |-> x.request, key |-> x.key, snapshot |-> x.snapshot,
                new |-> x.new, loaded |-> x.loaded, answer |-> x.answer, alone |-> x.alone]
        /\ x.alone \in BOOLEAN /\ x.request \in Requests /\ x.key \in Slugs /\ x.answer = "none"
    BY DEF Call
  <2>2. Proceeds(c, x, memo)
    BY <1>2
  <2> HIDE DEF x
  <2>3. \A u \in DOMAIN memo : memo[u] \in Slugs
    BY <1>1 DEF RealmsOK
  <2>4. \A u \in DOMAIN memo \ suspect' : memo[u] \in Stored /\ rows[memo[u]].id = u
    BY <1>2 DEF RealmsInv, MemoFits
  <2>5. \A d \in InFlight \ {c} : calls[d].pc = "deleting" =>
             \A u \in DOMAIN memo \ suspect' : memo[u] # calls[d].key
    BY <1>2 DEF RealmsInv, MemoFits
  <2>6. suspect \subseteq suspect' /\ UNCHANGED <<rows, retyped>>
    BY <1>2
  <2> QED BY <2>1, <2>2, <2>3, <2>4, <2>5, <2>6, KeyedInv
<1>3. ASSUME NEW s \in Slugs, CallBySlug(c, r, s) PROVE RealmsInv'
  BY <1>2, <1>3 DEF CallBySlug
<1>4. ASSUME NEW u, CallByMemo(c, r, u) PROVE RealmsInv'
  <2>1. memo[u] \in Slugs
    BY <1>1, <1>4 DEF RealmsOK, CallByMemo
  <2> QED BY <1>2, <1>4, <2>1 DEF CallByMemo
<1>5. ASSUME NEW u, CallBySurrogate(c, r, u) PROVE RealmsInv'
  <2> DEFINE y == [Call(r, u) EXCEPT !.pc = "resolving"]
  <2>1. y = [pc |-> "resolving", request |-> r, key |-> u, snapshot |-> Idle, new |-> Idle,
             loaded |-> NoRealms, answer |-> "none", alone |-> TRUE]
    BY FieldsOfACall
  <2>2. GoesOn(c, y)
    BY <1>5 DEF CallBySurrogate
  <2> HIDE DEF y
  <2>3. IsCall(y) /\ y.pc = "resolving" /\ y.answer = "none"
    BY <2>1 DEF IsCall, Writes
  <2> QED BY <1>5, <2>2, <2>3, StartsInv DEF CallBySurrogate
<1>6. ASSUME NEW s \in Slugs, NEW servers \in SUBSET Servers, NEW kind \in Kinds,
             CreateRealm(c, s, servers, kind)
      PROVE  RealmsInv'
  <2> DEFINE body == [kind |-> kind, servers |-> servers, agents |-> {}]
             y == [Call([op |-> "create"], s) EXCEPT !.pc = "creating", !.new = body]
  <2>1. body \in Realm
    BY DEF Realm
  <2>2. y = [pc |-> "creating", request |-> [op |-> "create"], key |-> s, snapshot |-> Idle,
             new |-> body, loaded |-> NoRealms, answer |-> "none",
             alone |-> TRUE]
    BY FieldsOfACreation
  <2>3. GoesOn(c, y)
    BY <1>6 DEF CreateRealm
  <2> HIDE DEF y
  <2>4. IsCall(y) /\ y.pc = "creating" /\ y.answer = "none"
    BY <2>1, <2>2 DEF IsCall, Writes
  <2> QED BY <1>6, <2>3, <2>4, StartsInv DEF CreateRealm
<1> QED
  BY <1>3, <1>4, <1>5, <1>6

\* The calls that find out which realm is meant.
LEMMA SlugSelectedInv ==
    ASSUME RealmsInv, NEW c \in Clients, SlugSelected(c)
    PROVE  RealmsInv'
<1> DEFINE x == calls[c]
<1>1. RealmsOK
  BY DEF RealmsInv
<1>2. x.pc = "resolving" /\ c \in InFlight /\ IsCall(x)
  BY <1>1, IsInFlight DEF SlugSelected, Awaits, InFlight
<1>3. PICK a : /\ a = "failed" \/ (a \in Stored /\ rows[a].id = x.key)
               /\ Answers(c, a)
  BY DEF SlugSelected
<1> DEFINE y == [x EXCEPT !.answer = a]
<1>4. calls' = [calls EXCEPT ![c] = y]
  BY <1>3 DEF Answers
<1>5. y = [pc |-> x.pc, request |-> x.request, key |-> x.key, snapshot |-> x.snapshot,
           new |-> x.new, loaded |-> x.loaded, answer |-> a, alone |-> x.alone]
  BY <1>2 DEF IsCall
<1> HIDE DEF y
<1>6. y.pc = x.pc /\ y.key = x.key /\ y.alone = x.alone /\ y.answer = a
  BY <1>5
<1>7. IsCall(y)
  BY <1>1, <1>2, <1>3, <1>5, <1>6 DEF IsCall, Writes, RealmsOK
<1>8. Fits(y, realms, rows, memo, suspect, retyped)
  BY <1>2, <1>3, <1>6 DEF Fits, ResolvingFits, Writes, Stored
<1>9. UNCHANGED <<realms, memo, rows, retyped, suspect>>
  BY DEF SlugSelected
<1>10. \A u \in DOMAIN memo \ suspect : memo[u] \in DOMAIN rows' /\ rows'[memo[u]].id = u
  BY <1>9 DEF RealmsInv, MemoFits, Stored
<1> QED
  <2>1. /\ rows' = [s \in DOMAIN rows' |-> rows'[s]] /\ DOMAIN rows' \subseteq Slugs
        /\ \A s \in DOMAIN rows' :
              rows'[s] = [id |-> rows'[s].id, body |-> rows'[s].body] /\ rows'[s].body \in Realm
    BY <1>1, <1>9 DEF RealmsOK, Stored
  <2>2. Fits(y, realms, rows', memo, suspect, retyped)
    BY <1>8, <1>9
  <2> QED BY <1>2, <1>4, <1>6, <1>7, <1>9, <1>10, <2>1, <2>2, AdvancesInv

LEMMA SlugResolvedInv ==
    ASSUME RealmsInv, NEW c \in Clients, SlugResolved(c)
    PROVE  RealmsInv'
<1> DEFINE x == calls[c]
<1>1. RealmsOK /\ Apart
  BY DEF RealmsInv
<1>2. x.pc = "resolving" /\ x.answer # "none" /\ c \in InFlight /\ IsCall(x)
  BY <1>1, IsInFlight DEF SlugResolved, Answered, InFlight
<1>3. UNCHANGED <<rows, retyped>>
  BY DEF SlugResolved
<1>4. CASE x.answer = "failed"
  <2>1. calls' = [calls EXCEPT ![c] = Idle] /\ suspect' = suspect /\ UNCHANGED <<realms, memo>>
    BY <1>4 DEF SlugResolved, Ends
  <2>2. \A d \in Clients : calls'[d] = IF d = c THEN Idle ELSE calls[d]
    BY <1>1, <2>1 DEF RealmsOK
  <2>3. InFlight' = InFlight \ {c}
    BY <2>2 DEF InFlight, Idle
  <2>4. RealmsOK'
    BY <1>1, <1>3, <2>1, <2>2 DEF RealmsOK, Listed, Stored
  <2>5. Apart'
    BY <1>1, <2>2, <2>3 DEF Apart, InFlight
  <2>6. QuietIsListed'
    <3> SUFFICES ASSUME NEW s \in Slugs \ suspect, \A d \in InFlight \ {c} : ~ Busy(calls[d], s)
                 PROVE  SameRealm(realms, rows, s, retyped)
      BY <1>3, <2>1, <2>2, <2>3 DEF QuietIsListed, SameRealm, InFlight, Busy, Writes
    <3>1. ~ Busy(calls[c], s)
      BY <1>2 DEF Busy, Writes
    <3> QED BY <3>1 DEF RealmsInv, QuietIsListed
  <2>7. AloneFits'
    BY <1>3, <2>1, <2>2, <2>3 DEF RealmsInv, AloneFits, InFlight
  <2>8. MemoFits'
    BY <1>3, <2>1, <2>2, <2>3 DEF RealmsInv, MemoFits, Stored, InFlight
  <2> QED BY <2>4, <2>5, <2>6, <2>7, <2>8 DEF RealmsInv
<1>5. CASE x.answer # "failed"
  <2> DEFINE y == [x EXCEPT !.key = x.answer, !.answer = "none"]
             known == Put(memo, x.key, x.answer)
  <2>1. Proceeds(c, y, known) /\ suspect' = suspect \union (IF x.alone THEN {} ELSE {x.key})
    BY <1>5 DEF SlugResolved
  <2>2. y = [pc |-> x.pc, request |-> x.request, key |-> x.answer, snapshot |-> x.snapshot,
             new |-> x.new, loaded |-> x.loaded, answer |-> "none", alone |-> x.alone]
    BY <1>2, FieldsOfAResolved
  <2>3. DOMAIN known = DOMAIN memo \union {x.key} /\ known[x.key] = x.answer
          /\ \A u \in DOMAIN memo : u # x.key => known[u] = memo[u]
    BY DEF Put
  <2>4. x.answer \in Slugs /\ x.request \in Requests /\ x.alone \in BOOLEAN
    BY <1>2, <1>5 DEF IsCall
  <2> HIDE DEF y, known
  <2>5. /\ y = [pc |-> y.pc, request |-> y.request, key |-> y.key, snapshot |-> y.snapshot,
                new |-> y.new, loaded |-> y.loaded, answer |-> y.answer, alone |-> y.alone]
        /\ y.alone \in BOOLEAN /\ y.request \in Requests /\ y.key \in Slugs /\ y.answer = "none"
    BY <2>2, <2>4
  <2>6. \A u \in DOMAIN known : known[u] \in Slugs
    BY <1>1, <2>3, <2>4 DEF RealmsOK
  <2>7. x.alone => x.answer \in Stored /\ rows[x.answer].id = x.key
    BY <1>2, <1>5 DEF RealmsInv, AloneFits, Fits, ResolvingFits, Stored
  <2>8. \A u \in DOMAIN known \ suspect' :
             \/ u \in DOMAIN memo /\ u # x.key
             \/ u = x.key /\ x.alone
    BY <2>1, <2>3
  <2>9. \A u \in DOMAIN known \ suspect' : known[u] \in Stored /\ rows[known[u]].id = u
    BY <2>1, <2>3, <2>7, <2>8 DEF RealmsInv, MemoFits
  <2>10. \A d \in InFlight \ {c} : x.alone => calls[d].pc # "deleting" /\ calls[d].pc # "loading"
    BY <1>1, <1>2 DEF Apart, Clash, Writes
  <2>11. \A d \in InFlight \ {c} : calls[d].pc = "deleting" =>
              \A u \in DOMAIN known \ suspect' : known[u] # calls[d].key
    BY <2>1, <2>3, <2>8, <2>10 DEF RealmsInv, MemoFits
  <2>12. \A d \in InFlight \ {c} : calls[d].pc = "loading" /\ calls[d].alone => known = memo
    BY <1>1, <1>2 DEF Apart, Clash, Writes
  <2>13. suspect \subseteq suspect'
    BY <2>1
  <2> QED BY <1>2, <1>3, <2>1, <2>5, <2>6, <2>9, <2>11, <2>12, <2>13, KeyedInv
<1> QED
  BY <1>4, <1>5

\* A call before and after its answer.
SameCall(y, x) ==
    y.pc = x.pc /\ y.request = x.request /\ y.key = x.key /\ y.snapshot = x.snapshot /\ y.alone = x.alone

LEMMA FieldsOfAnAnswer ==
    ASSUME NEW x, IsCall(x), NEW a, NEW y, y = [x EXCEPT !.answer = a]
    PROVE  /\ y = [pc |-> x.pc, request |-> x.request, key |-> x.key, snapshot |-> x.snapshot,
                   new |-> x.new, loaded |-> x.loaded, answer |-> a, alone |-> x.alone]
           /\ Writes(x) => IsCall(y)
           /\ SameCall(y, x) /\ y.answer = a /\ y.new = x.new
<1>1. y = [pc |-> x.pc, request |-> x.request, key |-> x.key, snapshot |-> x.snapshot,
           new |-> x.new, loaded |-> x.loaded, answer |-> a, alone |-> x.alone]
  BY DEF IsCall
<1> QED
  BY <1>1 DEF IsCall, Writes, SameCall

\* What the statement of a call did, and what the call hears of it.
LEMMA AnswersInv ==
    ASSUME RealmsInv, NEW c \in InFlight, NEW x, x = calls[c], Writes(x),
           NEW y, IsCall(y), SameCall(y, x), calls' = [calls EXCEPT ![c] = y],
           UNCHANGED <<realms, memo, retyped, suspect>>,
           SameElsewhere(rows', rows, x.key),
           rows' = [s \in DOMAIN rows' |-> rows'[s]], DOMAIN rows' \subseteq Slugs,
           x.key \in DOMAIN rows' =>
              /\ rows'[x.key] = [id |-> rows'[x.key].id, body |-> rows'[x.key].body]
              /\ rows'[x.key].body \in Realm,
           \A u \in DOMAIN memo \ suspect :
              memo[u] = x.key => x.key \in DOMAIN rows' /\ rows'[x.key].id = u,
           x.alone /\ WriteFits(x, realms, rows, retyped) => WriteFits(y, realms, rows', retyped)
    PROVE  RealmsInv'
<1>1. RealmsOK
  BY DEF RealmsInv
<1>2. IsCall(x) /\ c \in Clients /\ x.key \in Slugs
  BY <1>1 DEF InFlight, RealmsOK, Idle, IsCall
<1>3. Writes(y) /\ y.pc = x.pc /\ y.key = x.key /\ y.alone = x.alone
  BY DEF Writes, SameCall
<1>4. y.alone => Fits(y, realms, rows', memo, suspect, retyped)
  <2> SUFFICES ASSUME x.alone, x.key \notin suspect PROVE WriteFits(y, realms, rows', retyped)
    BY <1>3 DEF Fits, Writes
  <2>1. WriteFits(x, realms, rows, retyped)
    BY DEF RealmsInv, AloneFits, Fits
  <2> QED BY <2>1
<1>5. \A s \in DOMAIN rows' :
         rows'[s] = [id |-> rows'[s].id, body |-> rows'[s].body] /\ rows'[s].body \in Realm
  BY <1>1 DEF RealmsOK, SameElsewhere, Stored
<1>6. \A u \in DOMAIN memo \ suspect : memo[u] \in DOMAIN rows' /\ rows'[memo[u]].id = u
  <2> SUFFICES ASSUME NEW u \in DOMAIN memo \ suspect
               PROVE  memo[u] \in DOMAIN rows' /\ rows'[memo[u]].id = u
    OBVIOUS
  <2>1. memo[u] \in Stored /\ rows[memo[u]].id = u /\ memo[u] \in Slugs
    BY <1>1 DEF RealmsInv, MemoFits, RealmsOK
  <2> QED BY <2>1 DEF SameElsewhere, Stored
<1>7. SameElsewhere(rows', rows, y.key)
  BY <1>3
<1> QED
  BY <1>3, <1>4, <1>5, <1>6, <1>7, AdvancesInv

\* A call whose statement did nothing hears of an error.
LEMMA FailsInv ==
    ASSUME RealmsInv, NEW c \in InFlight, Writes(calls[c]), calls[c].answer = "none",
           Answers(c, "failed"), UNCHANGED <<realms, memo, rows, retyped, suspect>>
    PROVE  RealmsInv'
<1> DEFINE x == calls[c]
           y == [x EXCEPT !.answer = "failed"]
<1>1. RealmsOK
  BY DEF RealmsInv
<1>2. IsCall(x) /\ calls' = [calls EXCEPT ![c] = y]
  BY <1>1 DEF InFlight, RealmsOK, Idle, Answers
<1> HIDE DEF y
<1>3. IsCall(y) /\ SameCall(y, x) /\ y.answer = "failed" /\ y.new = x.new
  BY <1>2, FieldsOfAnAnswer DEF y
<1>4. SameElsewhere(rows', rows, x.key)
  BY DEF SameElsewhere
<1>5. /\ rows' = [s \in DOMAIN rows' |-> rows'[s]] /\ DOMAIN rows' \subseteq Slugs
      /\ x.key \in DOMAIN rows' =>
            /\ rows'[x.key] = [id |-> rows'[x.key].id, body |-> rows'[x.key].body]
            /\ rows'[x.key].body \in Realm
  BY <1>1 DEF RealmsOK, Stored
<1>6. \A u \in DOMAIN memo \ suspect :
         memo[u] = x.key => x.key \in DOMAIN rows' /\ rows'[x.key].id = u
  BY DEF RealmsInv, MemoFits, Stored
<1>7. WriteFits(x, realms, rows, retyped) => WriteFits(y, realms, rows', retyped)
  BY <1>3 DEF WriteFits, SameCall
<1> QED
  BY <1>2, <1>3, <1>4, <1>5, <1>6, <1>7, AnswersInv

\* Without touches one key.
LEMMA WithoutElsewhere ==
    ASSUME NEW f, NEW k
    PROVE  /\ SameElsewhere(Without(f, {k}), f, k)
           /\ DOMAIN Without(f, {k}) = DOMAIN f \ {k}
           /\ Without(f, {k}) = [j \in DOMAIN Without(f, {k}) |-> Without(f, {k})[j]]
BY DEF SameElsewhere, Without

\* What writing the body of a stored row does to the table.
LEMMA RowWritten ==
    ASSUME RealmsOK, NEW k \in Stored, NEW b, rows' = [rows EXCEPT ![k].body = b]
    PROVE  /\ SameElsewhere(rows', rows, k)
           /\ DOMAIN rows' = Stored /\ rows' = [s \in DOMAIN rows' |-> rows'[s]]
           /\ rows'[k] = [id |-> rows[k].id, body |-> b]
<1>1. DOMAIN rows' = Stored /\ rows' = [s \in DOMAIN rows' |-> rows'[s]]
  BY DEF Stored
<1>2. rows'[k] = [rows[k] EXCEPT !.body = b]
  BY DEF Stored
<1>3. rows[k] = [id |-> rows[k].id, body |-> rows[k].body]
  BY DEF RealmsOK
<1>4. SameElsewhere(rows', rows, k)
  BY DEF SameElsewhere, Stored
<1> QED
  BY <1>1, <1>2, <1>3, <1>4

LEMMA RowUpdatedInv ==
    ASSUME RealmsInv, NEW c \in Clients, RowUpdated(c)
    PROVE  RealmsInv'
<1> DEFINE x == calls[c]
<1>1. RealmsOK
  BY DEF RealmsInv
<1>2. x.pc = "updating" /\ x.answer = "none" /\ c \in InFlight /\ IsCall(x) /\ Writes(x)
  BY <1>1, IsInFlight DEF RowUpdated, Awaits, Writes
<1>3. UNCHANGED <<realms, memo, retyped, suspect>>
  BY DEF RowUpdated
<1>4. /\ x.key \in Slugs /\ x.request \in Requests
      /\ x.request.op \notin {"get", "delete"}
      /\ x.snapshot \in Realm /\ x.new = Changed(x.snapshot, x.request)
  BY <1>2 DEF IsCall
<1>5. CASE Answers(c, "failed") /\ rows' = rows
  BY <1>2, <1>3, <1>5, FailsInv
<1>6. CASE ~ (Answers(c, "failed") /\ rows' = rows)
  <2> DEFINE b == rows[x.key].body
             written == Written(b, x.request, x.new)
  <2>1. /\ x.key \in Stored /\ \E a \in {"done", "lost"} : Answers(c, a)
        /\ rows' = [rows EXCEPT ![x.key].body = written]
    BY <1>6 DEF RowUpdated
  <2>2. PICK a \in {"done", "lost"} : Answers(c, a)
    BY <2>1
  <2> DEFINE y == [x EXCEPT !.answer = a]
  <2>3. calls' = [calls EXCEPT ![c] = y]
    BY <2>2 DEF Answers
  <2> HIDE DEF y
  <2>4. IsCall(y) /\ SameCall(y, x) /\ y.answer = a /\ y.new = x.new
    BY <1>2, FieldsOfAnAnswer DEF y
  <2>5. /\ DOMAIN rows' = Stored /\ rows'[x.key] = [id |-> rows[x.key].id, body |-> written]
        /\ rows' = [s \in DOMAIN rows' |-> rows'[s]]
        /\ SameElsewhere(rows', rows, x.key)
    BY <1>1, <2>1, RowWritten
  <2>6. b \in Realm
    BY <1>1, <2>1 DEF RealmsOK
  <2>7. /\ written \in Realm
        /\ SameBody(x.snapshot, b, x.key, retyped)
              => SameBody(x.new, written, x.key, Loosened(x, retyped))
    BY <1>4, <2>6, ChangedIsWritten DEF Loosened
  <2> HIDE DEF written
  <2>8. rows'[x.key].id = rows[x.key].id /\ rows'[x.key].body = written
    BY <2>5
  <2>9. DOMAIN rows' \subseteq Slugs
    BY <1>1, <2>5 DEF RealmsOK
  <2>10. \A u \in DOMAIN memo \ suspect :
           memo[u] = x.key => x.key \in DOMAIN rows' /\ rows'[x.key].id = u
    BY <2>1, <2>5, <2>8 DEF RealmsInv, MemoFits
  <2>11. WriteFits(x, realms, rows, retyped) => WriteFits(y, realms, rows', retyped)
    BY <1>2, <2>1, <2>4, <2>5, <2>7, <2>8 DEF WriteFits, SameCall, Loosened
  <2> QED BY <1>2, <1>3, <2>3, <2>4, <2>5, <2>7, <2>8, <2>9, <2>10, <2>11, AnswersInv
<1> QED
  BY <1>5, <1>6

LEMMA RowDeletedInv ==
    ASSUME RealmsInv, NEW c \in Clients, RowDeleted(c)
    PROVE  RealmsInv'
<1> DEFINE x == calls[c]
<1>1. RealmsOK
  BY DEF RealmsInv
<1>2. x.pc = "deleting" /\ x.answer = "none" /\ c \in InFlight /\ IsCall(x)
  BY <1>1, IsInFlight DEF RowDeleted, Awaits
<1>3. UNCHANGED <<realms, memo, retyped, suspect>> /\ Writes(x)
  BY <1>2 DEF RowDeleted, Writes
<1>4. \A u \in DOMAIN memo \ suspect : memo[u] # x.key
  BY <1>2 DEF RealmsInv, MemoFits
<1>5. CASE Answers(c, "failed") /\ rows' = rows
  BY <1>2, <1>3, <1>5, FailsInv
<1>6. CASE ~ (Answers(c, "failed") /\ rows' = rows)
  <2>1. rows' = Without(rows, {x.key}) /\ \E a \in {"done", "lost"} : Answers(c, a)
    BY <1>6 DEF RowDeleted
  <2>2. PICK a \in {"done", "lost"} : Answers(c, a)
    BY <2>1
  <2> DEFINE y == [x EXCEPT !.answer = a]
  <2>3. calls' = [calls EXCEPT ![c] = y]
    BY <2>2 DEF Answers
  <2> HIDE DEF y
  <2>4. IsCall(y) /\ SameCall(y, x) /\ y.answer = a /\ y.new = x.new
    BY <1>2, <1>3, FieldsOfAnAnswer DEF y
  <2>5. /\ SameElsewhere(rows', rows, x.key) /\ DOMAIN rows' = DOMAIN rows \ {x.key}
        /\ rows' = [j \in DOMAIN rows' |-> rows'[j]]
    <3> DEFINE g == Without(rows, {x.key})
    <3>1. SameElsewhere(g, rows, x.key) /\ DOMAIN g = DOMAIN rows \ {x.key} /\ g = [j \in DOMAIN g |-> g[j]]
      BY WithoutElsewhere
    <3>2. rows' = g
      BY <2>1
    <3> QED BY <3>1, <3>2
  <2>6. DOMAIN rows' \subseteq Slugs /\ x.key \notin DOMAIN rows'
    BY <1>1, <2>5 DEF RealmsOK, Stored
  <2>7. WriteFits(x, realms, rows, retyped) => WriteFits(y, realms, rows', retyped)
    BY <1>2, <2>4, <2>6 DEF WriteFits, SameCall
  <2> QED BY <1>2, <1>3, <1>4, <2>3, <2>4, <2>5, <2>6, <2>7, AnswersInv
<1> QED
  BY <1>5, <1>6

LEMMA RowUpsertedInv ==
    ASSUME RealmsInv, NEW c \in Clients, RowUpserted(c)
    PROVE  RealmsInv'
<1> DEFINE x == calls[c]
           roster == IF x.key \in Stored THEN rows[x.key].body.agents ELSE {}
           body == [x.new EXCEPT !.agents = roster]
<1>1. RealmsOK
  BY DEF RealmsInv
<1>2. x.pc = "creating" /\ x.answer = "none" /\ c \in InFlight /\ IsCall(x)
  BY <1>1, IsInFlight DEF RowUpserted, Awaits
<1>3. UNCHANGED <<realms, memo, retyped, suspect>>
  BY DEF RowUpserted
<1>4. Writes(x) /\ x.key \in Slugs /\ x.new \in Realm
  BY <1>2 DEF IsCall, Writes
<1>5. \A u \in DOMAIN memo \ suspect : memo[u] = x.key => x.key \in Stored /\ rows[x.key].id = u
  BY DEF RealmsInv, MemoFits
<1>6. body \in Realm
  <2>1. roster \in SUBSET Residents
    BY <1>1 DEF RealmsOK, Realm
  <2> HIDE DEF roster
  <2> QED BY <1>4, <2>1 DEF Realm
<1>7. CASE Answers(c, "failed") /\ rows' = rows
  BY <1>2, <1>3, <1>4, <1>7, FailsInv
<1>8. CASE ~ (Answers(c, "failed") /\ rows' = rows)
  <2>1. /\ \/ x.key \in Stored /\ rows' = [rows EXCEPT ![x.key].body = body]
           \/ x.key \notin Stored /\ rows' = Put(rows, x.key, [id |-> inserted + 1, body |-> body])
        /\ \/ calls' = [calls EXCEPT ![c] = [x EXCEPT !.answer = "done", !.new = body]]
           \/ Answers(c, "lost")
    BY <1>8 DEF RowUpserted
  <2> HIDE DEF body
  <2>2. PICK i : /\ SameElsewhere(rows', rows, x.key) /\ DOMAIN rows' = Stored \union {x.key}
                 /\ rows' = [s \in DOMAIN rows' |-> rows'[s]]
                 /\ rows'[x.key] = [id |-> i, body |-> body]
                 /\ x.key \in Stored => i = rows[x.key].id
    <3>1. CASE x.key \in Stored /\ rows' = [rows EXCEPT ![x.key].body = body]
      <4> DEFINE i == rows[x.key].id
      <4>1. /\ SameElsewhere(rows', rows, x.key) /\ DOMAIN rows' = Stored \union {x.key}
            /\ rows' = [s \in DOMAIN rows' |-> rows'[s]]
            /\ rows'[x.key] = [id |-> i, body |-> body]
        BY <1>1, <3>1, RowWritten
      <4> QED BY <4>1
    <3>2. CASE x.key \notin Stored /\ rows' = Put(rows, x.key, [id |-> inserted + 1, body |-> body])
      <4> DEFINE v == [id |-> inserted + 1, body |-> body]
                 g == Put(rows, x.key, v)
      <4> HIDE DEF v
      <4>1. /\ SameElsewhere(g, rows, x.key) /\ DOMAIN g = DOMAIN rows \union {x.key} /\ g[x.key] = v
            /\ g = [j \in DOMAIN g |-> g[j]]
        BY DEF SameElsewhere, Put
      <4>2. rows' = g
        BY <3>2 DEF v
      <4> QED BY <3>2, <4>1, <4>2 DEF v, Stored
    <3> QED BY <2>1, <3>1, <3>2
  <2>3. rows'[x.key].id = i /\ rows'[x.key].body = body
    BY <2>2
  <2>4. DOMAIN rows' \subseteq Slugs /\ x.key \in DOMAIN rows'
    BY <1>1, <1>4, <2>2 DEF RealmsOK
  <2>5. \A u \in DOMAIN memo \ suspect :
           memo[u] = x.key => x.key \in DOMAIN rows' /\ rows'[x.key].id = u
    BY <1>5, <2>2, <2>3
  <2>6. PICK y : /\ calls' = [calls EXCEPT ![c] = y]
                 /\ IsCall(y) /\ SameCall(y, x)
                 /\ (y.answer = "done" /\ y.new = body) \/ y.answer = "lost"
    <3>1. CASE calls' = [calls EXCEPT ![c] = [x EXCEPT !.answer = "done", !.new = body]]
      <4> DEFINE y == [x EXCEPT !.answer = "done", !.new = body]
      <4>1. y = [x EXCEPT !.answer = "done", !.new = body]
        OBVIOUS
      <4> HIDE DEF y
      <4>2. y = [pc |-> x.pc, request |-> x.request, key |-> x.key, snapshot |-> x.snapshot,
                 new |-> body, loaded |-> x.loaded, answer |-> "done", alone |-> x.alone]
        BY <1>2, <4>1 DEF IsCall
      <4>3. IsCall(y) /\ SameCall(y, x) /\ y.answer = "done" /\ y.new = body
        BY <1>2, <1>6, <4>2 DEF IsCall, Writes, SameCall
      <4> QED BY <3>1, <4>1, <4>3
    <3>2. CASE Answers(c, "lost")
      <4> DEFINE y == [x EXCEPT !.answer = "lost"]
      <4>1. y = [x EXCEPT !.answer = "lost"] /\ calls' = [calls EXCEPT ![c] = y]
        BY <3>2 DEF Answers
      <4> HIDE DEF y
      <4>2. IsCall(y) /\ SameCall(y, x) /\ y.answer = "lost"
        BY <1>2, <1>4, <4>1, FieldsOfAnAnswer
      <4> QED BY <4>1, <4>2
    <3> QED BY <2>1, <3>1, <3>2
  <2>7. WriteFits(y, realms, rows', retyped)
    BY <1>2, <2>3, <2>4, <2>6 DEF WriteFits, SameCall
  <2> QED BY <1>2, <1>3, <1>4, <1>6, <2>2, <2>3, <2>4, <2>5, <2>6, <2>7, AnswersInv
<1> QED
  BY <1>7, <1>8

\* The three ways in which work on one realm ends.
LEMMA WorkEndsInv ==
    ASSUME RealmsInv, NEW c \in Clients, UpdateEnds(c) \/ DeleteEnds(c) \/ CreateEnds(c)
    PROVE  RealmsInv'
<1> DEFINE x == calls[c]
<1>1. RealmsOK
  BY DEF RealmsInv
<1>2. Writes(x) /\ x.answer # "none" /\ c \in InFlight /\ IsCall(x)
  BY <1>1, IsInFlight DEF UpdateEnds, DeleteEnds, CreateEnds, Answered, Writes
<1>3. x.key \in Slugs /\ Touches(x) = {x.key} /\ x.alone \in BOOLEAN
  BY <1>2 DEF IsCall, Writes, Touches
<1>4. calls' = [calls EXCEPT ![c] = Idle] /\ UNCHANGED <<memo, rows>>
  BY DEF UpdateEnds, DeleteEnds, CreateEnds, Ends
<1>5. /\ suspect \subseteq suspect' /\ (~ x.alone => x.key \in suspect')
      /\ \A s \in Slugs \ {x.key} : s \in retyped' <=> s \in retyped
  BY <1>1, <1>2, <1>3, IsInFlight
     DEF UpdateEnds, DeleteEnds, CreateEnds, Ends, HarmOf, Answered
<1>6. x.alone /\ x.key \notin suspect' => WriteFits(x, realms, rows, retyped)
  BY <1>2, <1>5 DEF RealmsInv, AloneFits, Fits
<1>7. /\ SameElsewhere(realms, realms, x.key) /\ DOMAIN realms \subseteq Slugs
      /\ \A s \in DOMAIN realms : realms[s] \in Realm
  BY <1>1 DEF SameElsewhere, RealmsOK, Listed
<1>8. ASSUME NEW v \in Realm
      PROVE  /\ SameElsewhere(Put(realms, x.key, v), realms, x.key)
             /\ DOMAIN Put(realms, x.key, v) \subseteq Slugs
             /\ \A s \in DOMAIN Put(realms, x.key, v) : Put(realms, x.key, v)[s] \in Realm
             /\ x.key \in DOMAIN Put(realms, x.key, v) /\ Put(realms, x.key, v)[x.key] = v
  BY <1>3, <1>7 DEF SameElsewhere, Put
<1>9. RolledBack(x) = Put(realms, x.key, IF InPlace(x.request) THEN [x.snapshot EXCEPT !.agents = x.new.agents]
                                         ELSE x.snapshot)
  BY DEF RolledBack
<1>10. CASE UpdateEnds(c)
  <2> DEFINE back == IF InPlace(x.request) THEN [x.snapshot EXCEPT !.agents = x.new.agents] ELSE x.snapshot
  <2>1. /\ x.pc = "updating" /\ x.snapshot \in Realm /\ x.request \in Requests
        /\ x.request.op \notin {"get", "delete"} /\ x.new = Changed(x.snapshot, x.request)
    BY <1>2, <1>10 DEF UpdateEnds, Answered, IsCall
  <2>2. x.new \in Realm
    BY <2>1, ChangedIsWritten
  <2>3. back \in Realm
    BY <2>1, <2>2 DEF Realm
  <2>4. realms' = IF x.answer = "done" THEN realms ELSE Put(realms, x.key, back)
    BY <1>9, <1>10 DEF UpdateEnds
  <2>5. retyped' = IF x.answer = "done" THEN Loosened(x, retyped) ELSE retyped
    BY <1>10 DEF UpdateEnds, Loosened
  <2>6. x.key \notin suspect' => x.answer # "lost" /\ (x.answer # "done" => ~ InPlace(x.request))
    BY <1>10 DEF UpdateEnds, Ends
  <2>7. ~ InPlace(x.request) => back = x.snapshot
    OBVIOUS
  <2> HIDE DEF back
  <2>8. /\ SameElsewhere(realms', realms, x.key) /\ DOMAIN realms' \subseteq Slugs
        /\ \A s \in DOMAIN realms' : realms'[s] \in Realm
    BY <1>7, <1>8, <2>3, <2>4
  <2>9. x.alone /\ x.key \notin suspect' => SameRealm(realms', rows, x.key, retyped')
    <3> SUFFICES ASSUME x.alone, x.key \notin suspect'
                 PROVE  SameRealm(realms', rows, x.key, retyped')
      OBVIOUS
    <3>1. WriteFits(x, realms, rows, retyped)
      BY <1>6
    <3>2. CASE x.answer = "done"
      BY <2>1, <2>4, <2>5, <3>1, <3>2 DEF WriteFits, SameRealm
    <3>3. CASE x.answer # "done"
      BY <1>8, <2>1, <2>3, <2>4, <2>5, <2>6, <2>7, <3>1, <3>3 DEF WriteFits, SameRealm
    <3> QED BY <3>2, <3>3
  <2> QED BY <1>2, <1>4, <1>5, <2>8, <2>9, WriteEndsInv
<1>11. CASE DeleteEnds(c)
  <2>1. x.pc = "deleting" /\ x.snapshot \in Realm /\ x.request.op = "delete"
    BY <1>2, <1>11 DEF DeleteEnds, Answered, IsCall
  <2>2. realms' = (IF x.answer = "done" THEN realms ELSE Put(realms, x.key, x.snapshot)) /\ retyped' = retyped
    BY <1>9, <1>11, <2>1 DEF DeleteEnds, InPlace
  <2>3. /\ SameElsewhere(realms', realms, x.key) /\ DOMAIN realms' \subseteq Slugs
        /\ \A s \in DOMAIN realms' : realms'[s] \in Realm
    BY <1>7, <1>8, <2>1, <2>2
  <2>4. x.answer = "lost" => x.key \in suspect'
    BY <1>11 DEF DeleteEnds, Ends
  <2>5. x.alone /\ x.key \notin suspect' => SameRealm(realms', rows, x.key, retyped')
    BY <1>6, <1>8, <2>1, <2>2, <2>4 DEF WriteFits, SameRealm
  <2> QED BY <1>2, <1>4, <1>5, <2>3, <2>5, WriteEndsInv
<1>12. CASE CreateEnds(c)
  <2>1. x.pc = "creating" /\ x.new \in Realm
    BY <1>2, <1>12 DEF CreateEnds, Answered, IsCall
  <2>2. realms' = Put(realms, x.key, x.new)
    BY <1>12 DEF CreateEnds
  <2>3. /\ SameElsewhere(realms', realms, x.key) /\ DOMAIN realms' \subseteq Slugs
        /\ \A s \in DOMAIN realms' : realms'[s] \in Realm
    BY <1>8, <2>1, <2>2
  <2>4. x.answer # "done" => x.key \in suspect'
    BY <1>12 DEF CreateEnds, Ends
  <2>5. x.alone /\ x.key \notin suspect' => SameRealm(realms', rows, x.key, retyped')
    BY <1>6, <1>8, <2>1, <2>2, <2>4 DEF WriteFits, SameRealm, SameBody
  <2> QED BY <1>2, <1>4, <1>5, <2>3, <2>5, WriteEndsInv
<1> QED
  BY <1>10, <1>11, <1>12

\* A refresh clashes with every other call.
LEMMA RefreshInv ==
    ASSUME RealmsInv, NEW c \in Clients, RefreshRealmCache(c)
    PROVE  RealmsInv'
<1> DEFINE y == [Call([op |-> "refresh"], "all") EXCEPT !.pc = "loading"]
<1>1. RealmsOK /\ Apart
  BY DEF RealmsInv
<1>2. y = [pc |-> "loading", request |-> [op |-> "refresh"], key |-> "all", snapshot |-> Idle,
           new |-> Idle, loaded |-> NoRealms, answer |-> "none", alone |-> TRUE]
  BY FieldsOfACall
<1>3. GoesOn(c, y) /\ realms' = NoRealms /\ memo' = NoRealms /\ UNCHANGED <<rows, suspect>>
  BY DEF RefreshRealmCache
<1> HIDE DEF y
<1>4. IsCall(y) /\ y.pc = "loading" /\ y.answer = "none"
  BY <1>2 DEF IsCall, Writes
<1>5. /\ calls' = [d \in Clients |-> calls'[d]]
      /\ \A d \in Clients : calls'[d] = Idle \/ IsCall(calls'[d])
      /\ Quieted(c)
      /\ \A d \in InFlight \ {c} : Clash(y, calls[d]) => ~ calls'[d].alone
      /\ calls'[c] = [y EXCEPT !.alone = calls'[c].alone] /\ calls'[c].alone \in BOOLEAN
      /\ Apart'
  BY <1>1, <1>3, <1>4, GoesOnCalls
<1>6. calls'[c].pc = "loading" /\ calls'[c].answer = "none"
  BY <1>4, <1>5, Requieted
<1>7. DOMAIN realms' = {} /\ DOMAIN memo' = {}
  BY <1>3 DEF NoRealms
<1>8. c \in InFlight'
  BY <1>6 DEF InFlight
<1>9. RealmsOK'
  BY <1>1, <1>3, <1>5, <1>7 DEF RealmsOK, Listed, Stored
<1>10. QuietIsListed'
  BY <1>6, <1>8 DEF QuietIsListed, Busy
<1>11. AloneFits'
  <2> SUFFICES ASSUME NEW d \in InFlight', calls'[d].alone
               PROVE  Fits(calls'[d], realms', rows', memo', suspect', retyped')
    BY DEF AloneFits, Fits
  <2>1. CASE d = c
    BY <1>6, <1>7, <2>1 DEF Fits, LoadingFits, Writes
  <2>2. CASE d # c
    <3>1. d \in Clients \ {c} /\ calls'[d].pc # "idle"
      BY <2>2 DEF InFlight
    <3>2. d \in InFlight \ {c}
      BY <1>1, <1>5, <3>1, QuietedFields DEF InFlight
    <3>3. Clash(y, calls[d])
      BY <1>4 DEF Clash, Writes
    <3> QED BY <1>5, <3>2, <3>3
  <2> QED BY <2>1, <2>2
<1>12. MemoFits'
  BY <1>7 DEF MemoFits
<1> QED
  BY <1>5, <1>9, <1>10, <1>11, <1>12 DEF RealmsInv

LEMMA FieldsOfALoaded ==
    ASSUME NEW x, IsCall(x), NEW m, NEW y, y = [x EXCEPT !.answer = "done", !.loaded = m]
    PROVE  y = [pc |-> x.pc, request |-> x.request, key |-> x.key, snapshot |-> x.snapshot,
                new |-> x.new, loaded |-> m, answer |-> "done", alone |-> x.alone]
BY DEF IsCall

LEMMA RowsSelectedInv ==
    ASSUME RealmsInv, NEW c \in Clients, RowsSelected(c)
    PROVE  RealmsInv'
<1> DEFINE x == calls[c]
<1>1. RealmsOK
  BY DEF RealmsInv
<1>2. x.pc = "loading" /\ x.answer = "none" /\ c \in InFlight /\ IsCall(x)
  BY <1>1, IsInFlight DEF RowsSelected, Awaits
<1>3. UNCHANGED <<realms, memo, rows, retyped, suspect>>
  BY DEF RowsSelected
<1>4. /\ rows' = [s \in DOMAIN rows' |-> rows'[s]] /\ DOMAIN rows' \subseteq Slugs
      /\ \A s \in DOMAIN rows' :
            rows'[s] = [id |-> rows'[s].id, body |-> rows'[s].body] /\ rows'[s].body \in Realm
      /\ \A u \in DOMAIN memo \ suspect : memo[u] \in DOMAIN rows' /\ rows'[memo[u]].id = u
  BY <1>1, <1>3 DEF RealmsInv, RealmsOK, MemoFits, Stored
<1>5. x.alone => DOMAIN realms = {} /\ DOMAIN memo = {}
  BY <1>2 DEF RealmsInv, AloneFits, Fits, LoadingFits
<1>6. CASE Answers(c, "failed")
  <2> DEFINE y == [x EXCEPT !.answer = "failed"]
  <2>1. calls' = [calls EXCEPT ![c] = y]
    BY <1>6 DEF Answers
  <2>2. y = [pc |-> x.pc, request |-> x.request, key |-> x.key, snapshot |-> x.snapshot,
             new |-> x.new, loaded |-> x.loaded, answer |-> "failed", alone |-> x.alone]
    BY <1>2, FieldsOfAnAnswer
  <2> HIDE DEF y
  <2>3. /\ y.pc = x.pc /\ y.key = x.key /\ y.alone = x.alone /\ y.answer = "failed"
        /\ IsCall(y)
    BY <1>2, <2>2 DEF IsCall, Writes
  <2>4. y.alone => Fits(y, realms, rows', memo, suspect, retyped)
    BY <1>2, <1>5, <2>3 DEF Fits, LoadingFits, Writes
  <2> QED BY <1>2, <1>3, <1>4, <2>1, <2>3, <2>4, AdvancesInv
<1>7. CASE calls' = [calls EXCEPT ![c].answer = "done", ![c].loaded = AllBodies]
  <2> DEFINE y == [x EXCEPT !.answer = "done", !.loaded = AllBodies]
  <2>1. calls' = [calls EXCEPT ![c] = y]
    BY <1>1, <1>2, <1>7 DEF RealmsOK
  <2>2. y = [pc |-> x.pc, request |-> x.request, key |-> x.key, snapshot |-> x.snapshot,
             new |-> x.new, loaded |-> AllBodies, answer |-> "done", alone |-> x.alone]
    BY <1>2, FieldsOfALoaded
  <2> HIDE DEF y
  <2>3. y.pc = x.pc /\ y.key = x.key /\ y.alone = x.alone /\ y.loaded = AllBodies
    BY <2>2
  <2>4. /\ DOMAIN AllBodies = DOMAIN rows /\ DOMAIN AllBodies \subseteq Slugs
        /\ \A s \in DOMAIN rows : AllBodies[s] = rows[s].body /\ AllBodies[s] \in Realm
    BY <1>1 DEF AllBodies, Stored, RealmsOK
  <2>5. IsCall(y)
    BY <1>2, <2>2, <2>3, <2>4 DEF IsCall, Writes
  <2>6. y.alone => Fits(y, realms, rows', memo, suspect, retyped)
    BY <1>2, <1>3, <1>5, <2>3, <2>4 DEF Fits, LoadingFits, Writes
  <2> QED BY <1>2, <1>3, <1>4, <2>1, <2>3, <2>5, <2>6, AdvancesInv
<1> QED
  BY <1>6, <1>7 DEF RowsSelected

LEMMA RefreshEndsInv ==
    ASSUME RealmsInv, NEW c \in Clients, RefreshEnds(c)
    PROVE  RealmsInv'
<1> DEFINE x == calls[c]
<1>1. RealmsOK /\ Apart
  BY DEF RealmsInv
<1>2. x.pc = "loading" /\ x.answer # "none" /\ c \in InFlight /\ IsCall(x)
  BY <1>1, IsInFlight DEF RefreshEnds, Answered
<1>3. UNCHANGED <<memo, rows, retyped>> /\ calls' = [calls EXCEPT ![c] = Idle]
  BY DEF RefreshEnds, Ends
<1>4. \A d \in Clients : calls'[d] = IF d = c THEN Idle ELSE calls[d]
  BY <1>1, <1>3 DEF RealmsOK
<1>5. InFlight' = InFlight \ {c}
  BY <1>4 DEF InFlight, Idle
<1>6. \A d \in InFlight \ {c} : ~ x.alone /\ ~ calls'[d].alone
  <2> SUFFICES ASSUME NEW d \in InFlight \ {c} PROVE ~ x.alone /\ ~ calls'[d].alone
    OBVIOUS
  <2>1. Clash(x, calls[d]) /\ d \in Clients
    BY <1>2 DEF Clash, Writes, InFlight
  <2> QED BY <1>1, <1>2, <1>4, <2>1 DEF Apart
<1>7. Listed' \subseteq Slugs /\ \A s \in Listed' : realms'[s] \in Realm
  <2>1. CASE x.answer = "done"
    <3>1. realms' = [s \in Listed \union DOMAIN x.loaded |->
                       IF s \in DOMAIN x.loaded THEN x.loaded[s] ELSE realms[s]]
      BY <2>1 DEF RefreshEnds
    <3>2. DOMAIN x.loaded \subseteq Slugs /\ \A s \in DOMAIN x.loaded : x.loaded[s] \in Realm
      BY <1>2, <2>1 DEF IsCall
    <3> HIDE DEF x
    <3> QED BY <1>1, <3>1, <3>2 DEF RealmsOK, Listed
  <2>2. CASE x.answer # "done"
    <3>1. realms' = realms
      BY <2>2 DEF RefreshEnds
    <3> QED BY <1>1, <3>1 DEF RealmsOK, Listed
  <2> QED BY <2>1, <2>2
<1>8. RealmsOK'
  <2>1. calls' = [d \in Clients |-> calls'[d]] /\ \A d \in Clients : calls'[d] = Idle \/ IsCall(calls'[d])
    BY <1>1, <1>3, <1>4 DEF RealmsOK
  <2> QED BY <1>1, <1>3, <1>7, <2>1 DEF RealmsOK, Stored
<1>9. Apart'
  BY <1>1, <1>4, <1>5 DEF Apart, InFlight
<1>10. AloneFits'
  BY <1>5, <1>6 DEF AloneFits
<1>11. CASE x.alone /\ x.answer = "done"
  <2>1. InFlight' = {}
    BY <1>5, <1>6, <1>11
  <2>2. DOMAIN realms = {} /\ DOMAIN memo = {}
          /\ DOMAIN x.loaded = DOMAIN rows /\ \A s \in DOMAIN rows : x.loaded[s] = rows[s].body
    BY <1>2, <1>11 DEF RealmsInv, AloneFits, Fits, LoadingFits
  <2>3. realms' = [s \in Listed \union DOMAIN x.loaded |->
                     IF s \in DOMAIN x.loaded THEN x.loaded[s] ELSE realms[s]]
    BY <1>11 DEF RefreshEnds
  <2>4. \A s : SameRealm(realms', rows', s, retyped')
    <3> HIDE DEF x
    <3> QED BY <1>3, <2>2, <2>3 DEF SameRealm, SameBody, Listed
  <2>5. QuietIsListed'
    BY <2>4 DEF QuietIsListed
  <2>6. MemoFits'
    BY <1>3, <2>2 DEF MemoFits
  <2> QED BY <1>8, <1>9, <1>10, <2>5, <2>6 DEF RealmsInv
<1>12. CASE ~ (x.alone /\ x.answer = "done")
  <2>1. suspect' = suspect \union Slugs
    BY <1>12 DEF RefreshEnds, Ends
  <2>2. QuietIsListed'
    BY <2>1 DEF QuietIsListed
  <2>3. MemoFits'
    BY <1>3, <1>4, <1>5, <2>1 DEF RealmsInv, MemoFits, Stored, InFlight
  <2> QED BY <1>8, <1>9, <1>10, <2>2, <2>3 DEF RealmsInv
<1> QED
  BY <1>11, <1>12

LEMMA RestartInv == RealmsInv /\ Restart => RealmsInv'
<1> SUFFICES ASSUME RealmsInv, Restart PROVE RealmsInv'
  OBVIOUS
<1>1. RealmsOK
  BY DEF RealmsInv
<1>2. calls' = [c \in Clients |-> Idle] /\ realms' = AllBodies /\ rows' = rows /\ memo' = NoRealms
  BY DEF Restart
<1>3. InFlight' = {} /\ DOMAIN memo' = {}
  BY <1>2 DEF InFlight, Idle, NoRealms
<1>4. \A s \in Slugs : SameRealm(realms', rows', s, retyped')
  BY <1>2 DEF SameRealm, SameBody, AllBodies, Stored
<1>5. RealmsOK'
  BY <1>1, <1>2, <1>3 DEF RealmsOK, Listed, Stored, AllBodies
<1> QED
  BY <1>3, <1>4, <1>5 DEF RealmsInv, Apart, QuietIsListed, AloneFits, MemoFits

LEMMA RealmsStep == RealmsInv /\ [Next]_vars => RealmsInv'
<1> SUFFICES ASSUME RealmsInv, [Next]_vars PROVE RealmsInv'
  OBVIOUS
<1>1. CASE UNCHANGED vars
  <2>1. UNCHANGED <<realms, memo, rows, calls, retyped, suspect>>
    BY <1>1 DEF vars
  <2>2. RealmsOK' /\ Apart' /\ MemoFits'
    BY <2>1 DEF RealmsInv, RealmsOK, Apart, MemoFits, Listed, Stored, InFlight
  <2>3. QuietIsListed' /\ AloneFits'
    BY <2>1 DEF RealmsInv, QuietIsListed, AloneFits, InFlight
  <2> QED BY <2>2, <2>3 DEF RealmsInv
<1>2. ASSUME NEW c \in Clients, NEW r \in Requests,
             \/ \E s \in Slugs : CallBySlug(c, r, s)
             \/ \E u \in 1 .. inserted : CallByMemo(c, r, u) \/ CallBySurrogate(c, r, u)
      PROVE  RealmsInv'
  <2>1. c \notin InFlight
    BY <1>2 DEF CallBySlug, CallByMemo, CallBySurrogate
  <2> QED BY <1>2, <2>1, CallInv
<1>3. ASSUME NEW c \in Clients, NEW s \in Slugs, NEW servers \in SUBSET Servers, NEW kind \in Kinds,
             CreateRealm(c, s, servers, kind)
      PROVE  RealmsInv'
  <2>1. c \notin InFlight
    BY <1>3 DEF CreateRealm
  <2>2. [op |-> "get"] \in Requests
    BY DEF Requests, RealmRequests
  <2> QED BY <1>3, <2>1, <2>2, CallInv
<1> QED
  BY <1>1, <1>2, <1>3, SlugSelectedInv, SlugResolvedInv, RowUpdatedInv, RowDeletedInv,
     RowUpsertedInv, WorkEndsInv, RefreshInv, RowsSelectedInv, RefreshEndsInv, RestartInv DEF Next

LEMMA RealmsStart == Init => RealmsInv
<1> SUFFICES ASSUME Init PROVE RealmsInv
  OBVIOUS
<1>1. InFlight = {} /\ DOMAIN realms = {} /\ DOMAIN rows = {} /\ DOMAIN memo = {}
  BY DEF Init, InFlight, Idle, NoRealms
<1>2. rows = [s \in Stored |-> rows[s]] /\ calls = [c \in Clients |-> calls[c]]
        /\ \A c \in Clients : calls[c] = Idle
  BY DEF Init, Stored, NoRealms
<1> QED
  BY <1>1, <1>2 DEF RealmsInv, RealmsOK, Apart, QuietIsListed, AloneFits, MemoFits, SameRealm,
                    Listed, Stored

\* What the service lists is what is stored, in every field that updates write and
\* in the type until a PUT changes it, but for what overlapping calls, lost answers
\* and the failures the code goes on from may have left: for any number of realms,
\* servers, agents, calls in flight and rows.
THEOREM WhatIsListedIsStored == Spec => []ListedIsStored
<1>1. RealmsInv => ListedIsStored
  <2> SUFFICES ASSUME RealmsInv, NEW s \in Slugs, Settled(s)
               PROVE  (s \in Listed <=> s \in Stored) /\ (s \in Listed => SameBody(realms[s], rows[s].body, s, retyped))
    BY DEF ListedIsStored
  <2>1. \A c \in InFlight : ~ Busy(calls[c], s)
    BY DEF Settled, Busy, Touches, Writes
  <2> QED BY <2>1 DEF Settled, RealmsInv, QuietIsListed, SameRealm, Listed, Stored
<1> QED
  BY <1>1, RealmsStart, RealmsStep, PTL DEF Spec

\* A memoised surrogate leads to the row that has it or to none, unless it was
\* being resolved while another call was in flight.
THEOREM TheMemoIsCurrent == Spec => []MemoIsCurrentUnlessRaced
<1>1. RealmsInv => MemoIsCurrentUnlessRaced
  BY DEF RealmsInv, MemoFits, MemoIsCurrentUnlessRaced
<1> QED
  BY <1>1, RealmsStart, RealmsStep, PTL DEF Spec
==============================================================================
