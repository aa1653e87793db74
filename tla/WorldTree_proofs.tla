-------------------------- MODULE WorldTree_proofs ---------------------------
(***************************************************************************)
(* What is written to the WorldTree and what is read from it, for any      *)
(* number of calls at once, any kills, modes, realms, scopings and pages.  *)
(*                                                                         *)
(* Contributions: the numbers stay dense, no call leaves two rows, and     *)
(* with no more calls than attempts none gives up.  The last needs the     *)
(* strengthening Progress: a call that failed k times has seen k rows of   *)
(* other calls, each of which is over, so that there are not enough.       *)
(*                                                                         *)
(* Publications: the file of a row is as far as the one call that works on *)
(* its mode is.  Queries: what is not read yet is past the offset, and     *)
(* canonical references name a realm that stays by its slug.               *)
(***************************************************************************)
EXTENDS SubContributions, Publications, WorldTree, FiniteSetTheorems, SequenceTheorems, TLAPS

------------------------------------------------------------------------------
(***************************************************************************)
(* recordSubContribution                                                   *)
(***************************************************************************)

\* Every row was left by a call of its own, and that call is over.
OwnersAreOver ==
    /\ Cardinality(rows) = Cardinality(Owners)
    /\ \A x \in rows : pc[x.by] \in {"recorded", "broken"}

\* What a running call knows of the rows bounds its failed attempts.
Progress ==
    \A r \in Recorders :
        /\ pc[r] = "loop" => attempt[r] <= Cardinality(rows)
        /\ pc[r] = "insert" =>
              /\ next[r] \in 1 .. Cardinality(rows) + 1
              /\ attempt[r] <= next[r] - 1

IInv == TypeOK /\ NumbersDense /\ RecordedOnce /\ OwnersAreOver /\ Progress /\ NoneGivesUp

------------------------------------------------------------------------------

\* The maximum of an interval from 1 is its upper end.
LEMMA MaxOfInterval ==
    ASSUME NEW n \in Nat, n # 0
    PROVE  Max(1 .. n) = n
<1>1. n \in 1 .. n /\ \A y \in 1 .. n : n >= y
  OBVIOUS
<1>2. \A x \in 1 .. n : (\A y \in 1 .. n : x >= y) => x = n
  OBVIOUS
<1> QED
  BY <1>1, <1>2 DEF Max

\* The statement's number is one more than the number of rows.
LEMMA AfterMaxIsCount ==
    ASSUME NumbersDense
    PROVE  AfterMax = Cardinality(rows) + 1
<1>1. Cardinality(rows) \in Nat /\ Numbers = 1 .. Cardinality(rows)
  BY FS_CardinalityType DEF NumbersDense
<1>2. CASE Cardinality(rows) = 0
  <2>1. Numbers = {}
    BY <1>1, <1>2
  <2> QED
    BY <1>2, <2>1 DEF AfterMax
<1>3. CASE Cardinality(rows) # 0
  <2>1. Numbers # {}
    BY <1>1, <1>3
  <2>2. Max(Numbers) = Cardinality(rows)
    BY <1>1, <1>3, MaxOfInterval
  <2> QED
    BY <2>1, <2>2 DEF AfterMax
<1> QED
  BY <1>2, <1>3

\* While a call runs there are fewer rows than calls.
LEMMA RowsOfOthers ==
    ASSUME IInv, NEW r \in Recorders, pc[r] = "insert"
    PROVE  Cardinality(rows) < Cardinality(Recorders)
<1>1. Owners \subseteq Recorders \ {r}
  BY DEF IInv, TypeOK, OwnersAreOver, Owners
<1>2. /\ IsFiniteSet(Recorders \ {r})
      /\ Cardinality(Recorders \ {r}) = Cardinality(Recorders) - 1
  BY FS_RemoveElement, RecordersAssumption
<1>3. IsFiniteSet(Owners) /\ Cardinality(Owners) <= Cardinality(Recorders \ {r})
  BY <1>1, <1>2, FS_Subset
<1>4. Cardinality(rows) = Cardinality(Owners)
  BY DEF IInv, OwnersAreOver
<1>5. Cardinality(Owners) \in Nat /\ Cardinality(Recorders) \in Nat
  BY <1>3, RecordersAssumption, FS_CardinalityType
<1> QED
  BY <1>2, <1>3, <1>4, <1>5

------------------------------------------------------------------------------
(***************************************************************************)
(* Taking a row: what Inserts and ConnectionBreaks share                   *)
(***************************************************************************)

\* A running call owns no row yet.
LEMMA RunningOwnsNothing ==
    ASSUME IInv, NEW r \in Recorders, pc[r] = "insert"
    PROVE  r \notin Owners
BY DEF IInv, OwnersAreOver, Owners

LEMMA TakesRowExtends ==
    ASSUME IInv, NEW r \in Recorders, pc[r] = "insert", TakesRow(r)
    PROVE  /\ next[r] = Cardinality(rows) + 1
           /\ IsFiniteSet(rows') /\ Cardinality(rows') = Cardinality(rows) + 1
           /\ Numbers' = Numbers \union {next[r]}
           /\ Owners' = Owners \union {r}
           /\ Cardinality(Owners') = Cardinality(Owners) + 1
<1>1. IsFiniteSet(rows) /\ Cardinality(rows) \in Nat /\ Numbers = 1 .. Cardinality(rows)
  BY FS_CardinalityType DEF IInv, NumbersDense
<1>2. next[r] \in 1 .. Cardinality(rows) + 1
  BY DEF IInv, Progress
<1>3. next[r] = Cardinality(rows) + 1
  BY <1>1, <1>2 DEF TakesRow
<1>4. Row(next[r], r) \notin rows
  BY DEF TakesRow, Numbers, Row
<1>5. IsFiniteSet(rows') /\ Cardinality(rows') = Cardinality(rows) + 1
  BY <1>1, <1>4, FS_AddElement DEF TakesRow
<1>6. /\ rows' = rows \union {Row(next[r], r)}
      /\ Row(next[r], r).sub_step_number = next[r]
      /\ Row(next[r], r).by = r
  BY DEF TakesRow, Row
<1>7. /\ Numbers' = Numbers \union {next[r]}
      /\ Owners' = Owners \union {r}
  <2>1. /\ Numbers' = {x.sub_step_number : x \in rows'}
        /\ Owners' = {x.by : x \in rows'}
    BY DEF Numbers, Owners
  <2>2. Numbers' = Numbers \union {next[r]}
    BY <1>6, <2>1 DEF Numbers
  <2>3. Owners' = Owners \union {r}
    BY <1>6, <2>1 DEF Owners
  <2> QED
    BY <2>2, <2>3
<1>8. Owners \subseteq Recorders
  BY DEF IInv, TypeOK, Owners
<1>9. IsFiniteSet(Owners)
  BY <1>8, FS_Subset, RecordersAssumption
<1>10. Cardinality(Owners') = Cardinality(Owners) + 1
  BY <1>7, <1>9, RunningOwnsNothing, FS_AddElement
<1> QED
  BY <1>3, <1>5, <1>7, <1>10

LEMMA TakesRowPreserves ==
    ASSUME IInv, NEW r \in Recorders, pc[r] = "insert", TakesRow(r),
           NEW end \in {"recorded", "broken"}, pc' = [pc EXCEPT ![r] = end],
           UNCHANGED <<attempt, next>>
    PROVE  IInv'
<1> DEFINE n == Cardinality(rows)
<1>1. /\ n \in Nat /\ Numbers = 1 .. n
      /\ next[r] = n + 1
      /\ IsFiniteSet(rows') /\ Cardinality(rows') = n + 1
      /\ Numbers' = Numbers \union {next[r]}
      /\ Owners' = Owners \union {r}
      /\ Cardinality(Owners') = Cardinality(Owners) + 1
  BY TakesRowExtends, FS_CardinalityType DEF IInv, NumbersDense
<1>2. rows' = rows \union {Row(next[r], r)}
  BY DEF TakesRow
<1>3. \A q \in Recorders : pc'[q] = IF q = r THEN end ELSE pc[q]
  BY DEF IInv, TypeOK
<1> HIDE DEF n
<1>4. TypeOK'
  BY <1>1, <1>2 DEF IInv, TypeOK, Row, Ends
<1>5. NumbersDense'
  BY <1>1 DEF NumbersDense
<1>6. RecordedOnce'
  <2>1. \A x \in rows : x.by # r
    BY RunningOwnsNothing DEF Owners
  <2>2. \A x, y \in rows' : x.by = y.by => x = y
    BY <1>2, <2>1 DEF IInv, RecordedOnce, Row
  <2>3. \A q \in Recorders : pc'[q] = "recorded" => q \in Owners'
    BY <1>1, <1>3 DEF IInv, RecordedOnce
  <2> QED
    BY <2>2, <2>3 DEF RecordedOnce
<1>7. OwnersAreOver'
  <2>1. \A x \in rows' : pc'[x.by] \in {"recorded", "broken"}
    BY <1>2, <1>3 DEF IInv, TypeOK, OwnersAreOver, Row
  <2>2. Cardinality(rows') = Cardinality(Owners')
    BY <1>1 DEF IInv, OwnersAreOver, n
  <2> QED
    BY <2>1, <2>2 DEF OwnersAreOver
<1>8. Progress'
  <2> SUFFICES ASSUME NEW q \in Recorders
               PROVE  /\ pc'[q] = "loop" => attempt[q] <= n + 1
                      /\ pc'[q] = "insert" =>
                            next[q] \in 1 .. n + 2 /\ attempt[q] <= next[q] - 1
    BY <1>1 DEF Progress
  <2>1. attempt[q] \in Nat
    BY RetriesAssumption DEF IInv, TypeOK
  <2> QED
    BY <1>1, <1>3, <2>1 DEF IInv, Progress, n
<1>9. NoneGivesUp'
  BY <1>3 DEF IInv, NoneGivesUp
<1> QED
  BY <1>4, <1>5, <1>6, <1>7, <1>8, <1>9 DEF IInv

------------------------------------------------------------------------------
(***************************************************************************)
(* The actions that leave the rows alone                                   *)
(***************************************************************************)

\* What is said of the rows alone, or of calls that are over, is preserved by
\* a step of a running call that takes no row and does not end as recorded.
LEMMA RowsUnchanged ==
    ASSUME IInv, NEW r \in Recorders, pc[r] \notin Ends, UNCHANGED rows,
           NEW to \in {"loop", "insert", "gaveUp", "broken"}, pc' = [pc EXCEPT ![r] = to]
    PROVE  NumbersDense' /\ RecordedOnce' /\ OwnersAreOver'
<1>1. \A q \in Recorders : pc'[q] = IF q = r THEN to ELSE pc[q]
  BY DEF IInv, TypeOK
<1>2. Numbers' = Numbers /\ Owners' = Owners
  BY DEF Numbers, Owners
<1>3. NumbersDense'
  BY <1>2 DEF IInv, NumbersDense
<1>4. RecordedOnce'
  BY <1>1, <1>2 DEF IInv, RecordedOnce
<1>5. OwnersAreOver'
  BY <1>1, <1>2 DEF IInv, TypeOK, OwnersAreOver, Ends
<1> QED
  BY <1>3, <1>4, <1>5

LEMMA ReadMaxPreserves ==
    ASSUME IInv, NEW r \in Recorders, ReadMax(r)
    PROVE  IInv'
<1>1. AfterMax = Cardinality(rows) + 1 /\ Cardinality(rows) \in Nat
  BY AfterMaxIsCount, FS_CardinalityType DEF IInv, NumbersDense
<1>2. TypeOK'
  BY <1>1 DEF IInv, TypeOK, ReadMax
<1>3. NumbersDense' /\ RecordedOnce' /\ OwnersAreOver'
  BY RowsUnchanged DEF ReadMax, Ends
<1>4. Progress'
  BY <1>1 DEF IInv, TypeOK, ReadMax, Progress
<1>5. NoneGivesUp'
  BY DEF IInv, TypeOK, ReadMax, NoneGivesUp
<1> QED
  BY <1>2, <1>3, <1>4, <1>5 DEF IInv

LEMMA ConflictsPreserves ==
    ASSUME IInv, NEW r \in Recorders, Conflicts(r)
    PROVE  IInv'
<1> DEFINE n == Cardinality(rows)
<1>1. /\ pc[r] = "insert" /\ next[r] \in Numbers
      /\ UNCHANGED <<rows, next>>
  BY DEF Conflicts, Retry
<1>2. n \in Nat /\ Numbers = 1 .. n
  BY FS_CardinalityType DEF IInv, NumbersDense
<1>3. attempt[r] \in Nat /\ next[r] \in Nat /\ attempt[r] <= next[r] - 1 /\ next[r] <= n
  BY <1>1, <1>2, RetriesAssumption DEF IInv, TypeOK, Progress
<1>4. CASE attempt[r] < maxRetries - 1
  <2>1. /\ attempt' = [attempt EXCEPT ![r] = @ + 1]
        /\ pc' = [pc EXCEPT ![r] = "loop"]
    BY <1>4 DEF Conflicts, Retry
  <2>2. TypeOK'
    BY <1>1, <1>3, <1>4, <2>1, RetriesAssumption DEF IInv, TypeOK
  <2>3. NumbersDense' /\ RecordedOnce' /\ OwnersAreOver'
    BY <1>1, <2>1, RowsUnchanged DEF Ends
  <2>4. Progress'
    <3> SUFFICES ASSUME NEW q \in Recorders
                 PROVE  /\ pc'[q] = "loop" => attempt'[q] <= n
                        /\ pc'[q] = "insert" =>
                              next[q] \in 1 .. n + 1 /\ attempt'[q] <= next[q] - 1
      BY <1>1 DEF Progress
    <3>1. CASE q = r
      BY <1>3, <2>1, <3>1, <1>2 DEF IInv, TypeOK
    <3>2. CASE q # r
      BY <2>1, <3>2 DEF IInv, TypeOK, Progress
    <3> QED
      BY <3>1, <3>2
  <2>5. NoneGivesUp'
    BY <2>1 DEF IInv, TypeOK, NoneGivesUp
  <2> QED
    BY <2>2, <2>3, <2>4, <2>5 DEF IInv
<1>5. CASE ~ (attempt[r] < maxRetries - 1)
  <2>1. UNCHANGED attempt /\ pc' = [pc EXCEPT ![r] = "gaveUp"]
    BY <1>5 DEF Conflicts, Retry
  <2>2. ~ (Cardinality(Recorders) <= maxRetries)
    <3>1. n < Cardinality(Recorders)
      BY <1>1, RowsOfOthers
    <3>2. Cardinality(Recorders) \in Nat
      BY RecordersAssumption, FS_CardinalityType
    <3> HIDE DEF n
    <3> QED
      BY <1>2, <1>3, <1>5, <3>1, <3>2, RetriesAssumption
  <2>3. TypeOK'
    BY <1>1, <2>1 DEF IInv, TypeOK, Ends
  <2>4. NumbersDense' /\ RecordedOnce' /\ OwnersAreOver'
    BY <1>1, <2>1, RowsUnchanged DEF Ends
  <2>5. Progress'
    BY <1>1, <2>1 DEF IInv, TypeOK, Progress
  <2>6. NoneGivesUp'
    BY <2>2 DEF NoneGivesUp
  <2> QED
    BY <2>3, <2>4, <2>5, <2>6 DEF IInv
<1> QED
  BY <1>4, <1>5

LEMMA ConnectionBreaksPreserves ==
    ASSUME IInv, NEW r \in Recorders, ConnectionBreaks(r)
    PROVE  IInv'
<1>1. CASE TakesRow(r)
  BY <1>1, TakesRowPreserves DEF ConnectionBreaks
<1>2. CASE UNCHANGED rows
  <2>1. TypeOK'
    BY <1>2 DEF IInv, TypeOK, ConnectionBreaks, Ends
  <2>2. NumbersDense' /\ RecordedOnce' /\ OwnersAreOver'
    BY <1>2, RowsUnchanged DEF ConnectionBreaks, Ends
  <2>3. Progress'
    BY <1>2 DEF IInv, TypeOK, ConnectionBreaks, Progress
  <2>4. NoneGivesUp'
    BY DEF IInv, TypeOK, ConnectionBreaks, NoneGivesUp
  <2> QED
    BY <2>1, <2>2, <2>3, <2>4 DEF IInv
<1> QED
  BY <1>1, <1>2 DEF ConnectionBreaks

------------------------------------------------------------------------------

LEMMA InitIInv == Init => IInv
<1> SUFFICES ASSUME Init PROVE IInv
  OBVIOUS
<1>1. rows = {} /\ Numbers = {} /\ Owners = {}
  BY DEF Init, Numbers, Owners
<1>2. IsFiniteSet({}) /\ Cardinality({}) = 0
  BY FS_EmptySet
<1>3. TypeOK /\ RecordedOnce /\ OwnersAreOver /\ Progress /\ NoneGivesUp
  BY <1>1, <1>2, RetriesAssumption
     DEF Init, TypeOK, RecordedOnce, OwnersAreOver, Progress, NoneGivesUp, Ends
<1>4. NumbersDense
  BY <1>1, <1>2 DEF NumbersDense
<1> QED
  BY <1>3, <1>4 DEF IInv

LEMMA NextIInv == IInv /\ [Next]_vars => IInv'
<1> SUFFICES ASSUME IInv, [Next]_vars PROVE IInv'
  OBVIOUS
<1>1. ASSUME NEW r \in Recorders, ReadMax(r) PROVE IInv'
  BY <1>1, ReadMaxPreserves
<1>2. ASSUME NEW r \in Recorders, Inserts(r) PROVE IInv'
  BY <1>2, TakesRowPreserves DEF Inserts
<1>3. ASSUME NEW r \in Recorders, Conflicts(r) PROVE IInv'
  BY <1>3, ConflictsPreserves
<1>4. ASSUME NEW r \in Recorders, ConnectionBreaks(r) PROVE IInv'
  BY <1>4, ConnectionBreaksPreserves
<1>5. CASE UNCHANGED vars
  BY <1>5 DEF vars, IInv, TypeOK, NumbersDense, RecordedOnce, OwnersAreOver, Progress,
              NoneGivesUp, Numbers, Owners
<1> QED
  BY <1>1, <1>2, <1>3, <1>4, <1>5 DEF Next

\* The inductive invariant holds in every behaviour.
THEOREM RecordingInvariant == Spec => []IInv
  BY InitIInv, NextIInv, PTL DEF Spec

\* The sub-contributions of a step are numbered 1, 2, 3, ... whatever number of
\* calls recordSubContribution overlaps with.
THEOREM RecordingDense == Spec => []NumbersDense
<1>1. IInv => NumbersDense
  BY DEF IInv
<1> QED
  BY <1>1, RecordingInvariant, PTL

\* A recorded contribution is there once, and no contribution is there twice,
\* also when a broken connection hides that its row was written.
THEOREM RecordingOnce == Spec => []RecordedOnce
<1>1. IInv => RecordedOnce
  BY DEF IInv
<1> QED
  BY <1>1, RecordingInvariant, PTL

\* maxRetries attempts are enough for maxRetries concurrent calls.
THEOREM RecordingNoneGivesUp == Spec => []NoneGivesUp
<1>1. IInv => NoneGivesUp
  BY DEF IInv
<1> QED
  BY <1>1, RecordingInvariant, PTL

------------------------------------------------------------------------------
(***************************************************************************)
(* Publications and their retention                                        *)
(***************************************************************************)

\* A call that is between two modes works on none.
IsCallOf(y) ==
    /\ y = [pc |-> y.pc, mode |-> y.mode, todo |-> y.todo]
    /\ y.todo \subseteq Modes
    /\ \/ y.pc \in {"idle", "next", "ended"} /\ y.mode = Nobody
       \/ y.pc \in {"writing", "cataloguing", "failing"} /\ y.mode \in Modes

\* A row is the record of its fields.
LEMMA RowOf ==
    ASSUME NEW x, NEW s, NEW k, NEW e, x = [status |-> s, checksum |-> k, expires |-> e]
    PROVE  x = [status |-> x.status, checksum |-> x.checksum, expires |-> x.expires]
OBVIOUS

LEMMA IdleCall ==
    ASSUME NEW x, x = [pc |-> "idle", mode |-> Nobody, todo |-> {}]
    PROVE  IsCallOf(x)
BY DEF IsCallOf

\* The maps.
PubShape ==
    /\ row = [m \in Modes |-> row[m]]
    /\ \A m \in Modes :
          row[m] = [status |-> row[m].status, checksum |-> row[m].checksum, expires |-> row[m].expires]
    /\ file = [m \in Modes |-> file[m]]
    /\ call = [c \in Calls |-> call[c]]
    /\ \A c \in Calls : IsCallOf(call[c])
    /\ unlinking \subseteq Modes /\ excused \subseteq Modes
    /\ today \in 0 .. LastDay

\* One call at a time works on m, its file is as far as that call is, and with
\* none at work row and file agree.
OneAtATime(m) ==
    /\ \A c, d \in AtWorkOn(m) : c = d
    /\ \A c \in AtWorkOn(m) :
          /\ call[c].pc \in {"writing", "cataloguing"}
          /\ file[m] \in {Nobody, IF call[c].pc = "writing" THEN Partial ELSE c}
    /\ AtWorkOn(m) = {} =>
          /\ row[m].status = "published" => file[m] \in {row[m].checksum, Nobody}
          /\ row[m].status = "expired" /\ m \notin unlinking => file[m] = Nobody

\* What is retained indefinitely is never due, so that no tick touches it.
Retained(m) ==
    /\ row[m].expires = Never /\ row[m].status # "expired" /\ m \notin unlinking
    /\ \/ row[m].status = "published"
       \/ \E c \in AtWorkOn(m) : call[c].pc \in {"writing", "cataloguing"}
       => file[m] # Nobody

PubInv ==
    /\ PubShape
    /\ \A m \in Modes \ excused : OneAtATime(m)
    /\ \A m \in Modes : Retention[m] = 0 => Retained(m)

\* A mode that a step leaves alone.
LEMMA LeftAlone ==
    ASSUME NEW m, OneAtATime(m), AtWorkOn(m)' = AtWorkOn(m),
           \A c \in AtWorkOn(m) : call'[c].pc = call[c].pc,
           row'[m] = row[m], file'[m] = file[m], m \in unlinking <=> m \in unlinking'
    PROVE  OneAtATime(m)'
BY DEF OneAtATime

LEMMA StillRetained ==
    ASSUME NEW m, Retained(m), row'[m].expires = row[m].expires, row'[m].status \in {row[m].status, "failed"},
           file'[m] = file[m], m \notin unlinking',
           \A c \in AtWorkOn(m)' : call'[c].pc \in {"writing", "cataloguing"} =>
                c \in AtWorkOn(m) /\ call[c].pc \in {"writing", "cataloguing"}
    PROVE  Retained(m)'
BY DEF Retained

\* A step of one call, which becomes y.
Went(c, y) ==
    /\ call' = [d \in Calls |-> call'[d]]
    /\ \A d \in Calls : IsCallOf(call'[d])
    /\ call'[c] = y /\ \A d \in Calls \ {c} : call'[d] = call[d]
    /\ \A m \in Modes : AtWorkOn(m)' = IF y.mode = m THEN AtWorkOn(m) \union {c} ELSE AtWorkOn(m) \ {c}

LEMMA CallGoes ==
    ASSUME PubShape, NEW c \in Calls, NEW y, IsCallOf(y), call' = [call EXCEPT ![c] = y]
    PROVE  Went(c, y)
<1>1. call' = [d \in Calls |-> IF d = c THEN y ELSE call[d]]
  BY DEF PubShape
<1>2. call'[c] = y /\ \A d \in Calls \ {c} : call'[d] = call[d]
  BY <1>1
<1>3. \A m \in Modes : AtWorkOn(m)' = IF y.mode = m THEN AtWorkOn(m) \union {c} ELSE AtWorkOn(m) \ {c}
  <2> SUFFICES ASSUME NEW m \in Modes
               PROVE  {d \in Calls : call'[d].mode = m} =
                         IF y.mode = m THEN {d \in Calls : call[d].mode = m} \union {c}
                         ELSE {d \in Calls : call[d].mode = m} \ {c}
    BY DEF AtWorkOn
  <2>1. \A d \in Calls : d = c => call'[d].mode = y.mode
    BY <1>2
  <2>2. \A d \in Calls : d # c => call'[d].mode = call[d].mode
    BY <1>2
  <2> HIDE DEF PubShape
  <2> QED BY <2>1, <2>2
<1>4. \A d \in Calls : IsCallOf(call'[d])
  BY <1>2 DEF PubShape, IsCallOf
<1> QED
  BY <1>1, <1>2, <1>3, <1>4 DEF Went

\* The shape of the state after a step of one call that leaves the clock alone.
LEMMA ShapeKept ==
    ASSUME PubShape, call' = [d \in Calls |-> call'[d]], \A d \in Calls : IsCallOf(call'[d]),
           row' = [m \in Modes |-> row'[m]],
           \A m \in Modes : row'[m] = [status |-> row'[m].status, checksum |-> row'[m].checksum,
                                       expires |-> row'[m].expires],
           file' = [m \in Modes |-> file'[m]],
           unlinking' \subseteq Modes, excused' \subseteq Modes, today' \in 0 .. LastDay
    PROVE  PubShape'
BY DEF PubShape, IsCallOf

LEMMA PublishCalledInv == ASSUME PubInv, NEW c \in Calls, PublishCalled(c) PROVE PubInv'
<1>1. PubShape
  BY DEF PubInv
<1> DEFINE y == [pc |-> "next", mode |-> Nobody, todo |-> Modes]
<1>2. IsCallOf(y) /\ y.mode = Nobody /\ call' = [call EXCEPT ![c] = y]
  BY DEF IsCallOf, PublishCalled
<1> HIDE DEF y
<1>3. UNCHANGED <<row, file, unlinking, today, faults, excused>>
  BY DEF PublishCalled
<1>4. Went(c, y)
  BY <1>1, <1>2, CallGoes
<1>5. \A m \in Modes : c \notin AtWorkOn(m) /\ y.mode # m
  BY <1>1, <1>2, NamesAssumption DEF PublishCalled, PubShape, IsCallOf, AtWorkOn, Nobody
<1>6. \A m \in Modes : AtWorkOn(m)' = AtWorkOn(m) /\ \A d \in AtWorkOn(m) : call'[d] = call[d]
  <2> SUFFICES ASSUME NEW m \in Modes
               PROVE  AtWorkOn(m)' = AtWorkOn(m) /\ \A d \in AtWorkOn(m) : call'[d] = call[d]
    OBVIOUS
  <2>1. AtWorkOn(m) \subseteq Calls /\ c \notin AtWorkOn(m)
    BY <1>5 DEF AtWorkOn
  <2> QED BY <1>4, <1>5, <2>1 DEF Went
<1>7. PubShape'
  BY <1>1, <1>3, <1>4, ShapeKept DEF PubShape, Went
<1>8. \A m \in Modes \ excused' : OneAtATime(m)'
  BY <1>3, <1>6, LeftAlone DEF PubInv
<1>9. \A m \in Modes : Retention[m] = 0 => Retained(m)'
  BY <1>3, <1>6, StillRetained DEF PubInv, Retained
<1> QED BY <1>7, <1>8, <1>9 DEF PubInv

\* A step of one call that works on one mode.
LEMMA OneModeInv ==
    ASSUME PubInv, NEW c \in Calls, NEW y, IsCallOf(y), call' = [call EXCEPT ![c] = y], NEW m \in Modes,
           call[c].mode \in {m, Nobody}, y.mode \in {m, Nobody},
           row' = [n \in Modes |-> row'[n]],
           row'[m] = [status |-> row'[m].status, checksum |-> row'[m].checksum,
                      expires |-> row'[m].expires],
           file' = [n \in Modes |-> file'[n]],
           \A n \in Modes \ {m} : row'[n] = row[n] /\ file'[n] = file[n],
           unlinking' = unlinking, today' = today, excused \subseteq excused', excused' \subseteq Modes,
           m \notin excused' => OneAtATime(m)', Retention[m] = 0 => Retained(m)'
    PROVE  PubInv'
<1>1. PubShape
  BY DEF PubInv
<1>2. Went(c, y)
  BY <1>1, CallGoes
<1>3. \A n \in Modes \ {m} : c \notin AtWorkOn(n) /\ y.mode # n
  BY NamesAssumption DEF AtWorkOn, Nobody
<1>4. \A n \in Modes \ {m} : AtWorkOn(n)' = AtWorkOn(n) /\ \A d \in AtWorkOn(n) : call'[d] = call[d]
  <2> SUFFICES ASSUME NEW n \in Modes \ {m}
               PROVE  AtWorkOn(n)' = AtWorkOn(n) /\ \A d \in AtWorkOn(n) : call'[d] = call[d]
    OBVIOUS
  <2>1. AtWorkOn(n) \subseteq Calls /\ c \notin AtWorkOn(n)
    BY <1>3 DEF AtWorkOn
  <2>2. \A d \in AtWorkOn(n) : call'[d] = call[d]
    BY <1>2, <2>1 DEF Went
  <2>3. c \notin AtWorkOn(n)'
    BY <1>2, <1>3 DEF AtWorkOn, Went
  <2>4. ASSUME NEW d \in Calls \ {c} PROVE d \in AtWorkOn(n)' <=> d \in AtWorkOn(n)
    <3>1. call'[d] = call[d]
      BY <1>2 DEF Went
    <3> QED BY <3>1 DEF AtWorkOn
  <2>5. AtWorkOn(n)' \subseteq Calls
    BY DEF AtWorkOn
  <2>6. AtWorkOn(n)' = AtWorkOn(n)
    BY <2>1, <2>3, <2>4, <2>5
  <2> QED BY <2>2, <2>6
<1>5. PubShape'
  <2>1. \A n \in Modes : row'[n] = [status |-> row'[n].status, checksum |-> row'[n].checksum,
                                     expires |-> row'[n].expires]
    BY <1>1 DEF PubShape
  <2>2. unlinking' \subseteq Modes /\ today' \in 0 .. LastDay
    BY <1>1 DEF PubShape
  <2> QED BY <1>1, <1>2, <2>1, <2>2, ShapeKept DEF Went
<1>6. \A n \in Modes \ excused' : OneAtATime(n)'
  <2> SUFFICES ASSUME NEW n \in Modes \ excused', n # m PROVE OneAtATime(n)'
    OBVIOUS
  <2> QED BY <1>4, LeftAlone DEF PubInv
<1>7. \A n \in Modes : Retention[n] = 0 => Retained(n)'
  <2> SUFFICES ASSUME NEW n \in Modes, n # m, Retention[n] = 0 PROVE Retained(n)'
    OBVIOUS
  <2>1. Retained(n)
    BY DEF PubInv
  <2> QED BY <1>4, <2>1, StillRetained DEF Retained
<1> QED
  BY <1>5, <1>6, <1>7 DEF PubInv

LEMMA FileOpenedInv == ASSUME PubInv, NEW c \in Calls, FileOpened(c) PROVE PubInv'
<1>1. PubShape
  BY DEF PubInv
<1>2. PICK m \in call[c].todo :
         /\ file' = [file EXCEPT ![m] = Partial]
         /\ call' = [call EXCEPT ![c] = [pc |-> "writing", mode |-> m, todo |-> @.todo \ {m}]]
         /\ excused' = IF AtWorkOn(m) = {} THEN excused ELSE excused \union {m}
  BY DEF FileOpened
<1> DEFINE y == [pc |-> "writing", mode |-> m, todo |-> call[c].todo \ {m}]
<1>3. m \in Modes /\ IsCallOf(call[c])
  BY <1>1 DEF PubShape, IsCallOf
<1>4. call[c].mode = Nobody
  BY <1>3 DEF FileOpened, IsCallOf
<1>5. IsCallOf(y) /\ y.mode = m /\ y.pc = "writing" /\ call' = [call EXCEPT ![c] = y]
  BY <1>2, <1>3 DEF IsCallOf
<1> HIDE DEF y
<1>6. UNCHANGED <<row, unlinking, today>>
  BY DEF FileOpened
<1>7. Went(c, y)
  BY <1>1, <1>5, CallGoes
<1>8. file'[m] = Partial /\ file' = [n \in Modes |-> file'[n]]
        /\ \A n \in Modes \ {m} : row'[n] = row[n] /\ file'[n] = file[n]
  BY <1>1, <1>2, <1>3, <1>6 DEF PubShape
<1>9. excused \subseteq excused' /\ excused' \subseteq Modes
  BY <1>1, <1>2, <1>3 DEF PubShape
<1>10. m \notin excused' => OneAtATime(m)'
  <2> SUFFICES ASSUME m \notin excused' PROVE OneAtATime(m)'
    OBVIOUS
  <2>1. AtWorkOn(m)' = {c}
    BY <1>2, <1>3, <1>5, <1>7 DEF Went
  <2> QED BY <1>5, <1>7, <1>8, <2>1 DEF OneAtATime, Went
<1>11. Retention[m] = 0 => Retained(m)'
  <2> SUFFICES ASSUME Retention[m] = 0 PROVE Retained(m)'
    OBVIOUS
  <2>1. Retained(m)
    BY <1>3 DEF PubInv
  <2> QED BY <1>6, <1>8, <2>1 DEF Retained, Partial, Nobody
<1>12. row' = [n \in Modes |-> row'[n]] /\ row'[m] = [status |-> row'[m].status,
                 checksum |-> row'[m].checksum, expires |-> row'[m].expires]
  BY <1>1, <1>3, <1>6 DEF PubShape
<1> QED
  BY ZenonT(60), <1>3, <1>4, <1>5, <1>6, <1>8, <1>9, <1>10, <1>11, <1>12, OneModeInv

\* Where a call that works on a mode is.
LEMMA AtItsMode ==
    ASSUME PubShape, NEW c \in Calls, call[c].pc \in {"writing", "cataloguing", "failing"}
    PROVE  call[c].mode \in Modes /\ IsCallOf(call[c]) /\ c \in AtWorkOn(call[c].mode)
BY DEF PubShape, IsCallOf, AtWorkOn

LEMMA FileWrittenInv == ASSUME PubInv, NEW c \in Calls, FileWritten(c) PROVE PubInv'
<1> DEFINE y == [call[c] EXCEPT !.pc = "cataloguing"]
<1>1. PubShape /\ call[c].pc = "writing"
  BY DEF PubInv, FileWritten
<1>2. PICK m \in Modes : m = call[c].mode /\ IsCallOf(call[c]) /\ c \in AtWorkOn(m)
  BY <1>1, AtItsMode
<1>3. y = [pc |-> "cataloguing", mode |-> m, todo |-> call[c].todo]
  BY <1>2 DEF IsCallOf
<1>4. call' = [call EXCEPT ![c] = y]
  BY DEF FileWritten, Moves
<1> HIDE DEF y
<1>5. IsCallOf(y) /\ y.mode = m /\ y.pc = "cataloguing"
  BY <1>2, <1>3 DEF IsCallOf
<1>6. UNCHANGED <<row, unlinking, today, excused>>
  BY DEF FileWritten
<1>7. Went(c, y)
  BY <1>1, <1>4, <1>5, CallGoes
<1>8. file' = [file EXCEPT ![m] = IF @ = Nobody THEN Nobody ELSE c]
  BY <1>2 DEF FileWritten
<1>9. /\ file'[m] = IF file[m] = Nobody THEN Nobody ELSE c
      /\ file' = [n \in Modes |-> file'[n]]
      /\ \A n \in Modes \ {m} : row'[n] = row[n] /\ file'[n] = file[n]
  BY <1>1, <1>2, <1>6, <1>8 DEF PubShape
<1>10. AtWorkOn(m)' = AtWorkOn(m)
  BY <1>2, <1>5, <1>7 DEF Went
<1>11. m \notin excused' => OneAtATime(m)'
  <2> SUFFICES ASSUME m \notin excused PROVE OneAtATime(m)'
    BY <1>6
  <2>1. OneAtATime(m)
    BY <1>2 DEF PubInv
  <2>2. AtWorkOn(m) = {c}
    BY <1>2, <2>1 DEF OneAtATime
  <2> QED BY <1>5, <1>7, <1>9, <1>10, <2>2 DEF OneAtATime, Went
<1>12. Retention[m] = 0 => Retained(m)'
  <2> SUFFICES ASSUME Retention[m] = 0 PROVE Retained(m)'
    OBVIOUS
  <2>1. Retained(m)
    BY <1>2 DEF PubInv
  <2>2. file[m] # Nobody
    BY <1>1, <1>2, <2>1 DEF Retained
  <2>3. file'[m] # Nobody
    BY <1>9, <2>2, NamesAssumption DEF Nobody
  <2> QED BY <1>6, <2>1, <2>3 DEF Retained
<1>13. row' = [n \in Modes |-> row'[n]] /\ row'[m] = [status |-> row'[m].status,
                 checksum |-> row'[m].checksum, expires |-> row'[m].expires]
  BY <1>1, <1>2, <1>6 DEF PubShape
<1>14. excused \subseteq excused' /\ excused' \subseteq Modes
  BY <1>1, <1>6 DEF PubShape
<1>15. /\ call[c].mode \in {m, Nobody} /\ y.mode \in {m, Nobody} /\ IsCallOf(y)
       /\ unlinking' = unlinking /\ today' = today
       /\ \A n \in Modes \ {m} : row'[n] = row[n] /\ file'[n] = file[n]
       /\ file' = [n \in Modes |-> file'[n]]
  BY <1>2, <1>5, <1>6, <1>9
<1> QED
  BY <1>4, <1>11, <1>12, <1>13, <1>14, <1>15, OneModeInv

\* After a mode a call works on none.
LEMMA ModeIsDone ==
    ASSUME PubShape, NEW c \in Calls, ModeDone(c)
    PROVE  \E y : IsCallOf(y) /\ y.mode = Nobody /\ call' = [call EXCEPT ![c] = y]
<1> DEFINE y == [pc |-> IF call[c].todo = {} THEN "ended" ELSE "next", mode |-> Nobody,
                 todo |-> call[c].todo]
<1>1. call' = [call EXCEPT ![c] = y]
  BY DEF ModeDone
<1>2. call[c].todo \subseteq Modes
  BY DEF PubShape, IsCallOf
<1>3. IsCallOf(y) /\ y.mode = Nobody
  BY <1>2 DEF IsCallOf
<1> QED
  BY <1>1, <1>3

LEMMA CataloguedInv == ASSUME PubInv, NEW c \in Calls, Catalogued(c) PROVE PubInv'
<1>1. PubShape /\ call[c].pc = "cataloguing"
  BY DEF PubInv, Catalogued
<1>2. PICK m \in Modes : m = call[c].mode /\ IsCallOf(call[c]) /\ c \in AtWorkOn(m)
  BY <1>1, AtItsMode
<1>3. PICK y : IsCallOf(y) /\ y.mode = Nobody /\ call' = [call EXCEPT ![c] = y]
  BY <1>1, ModeIsDone DEF Catalogued
<1>4. UNCHANGED <<file, unlinking, today, excused>> /\ row' = [row EXCEPT ![m] = Upsert(m, c)]
  BY <1>2 DEF Catalogued
<1>5. Went(c, y)
  BY <1>1, <1>3, CallGoes
<1>6. /\ row'[m] = [status |-> "published", checksum |-> c, expires |-> ExpiresAt(m)]
      /\ row' = [n \in Modes |-> row'[n]]
      /\ \A n \in Modes \ {m} : row'[n] = row[n] /\ file'[n] = file[n]
  BY <1>1, <1>2, <1>4 DEF PubShape, Upsert
<1>7. AtWorkOn(m)' = AtWorkOn(m) \ {c}
  BY <1>3, <1>5, NamesAssumption DEF Went, Nobody
<1>8. m \notin excused' => OneAtATime(m)'
  <2> SUFFICES ASSUME m \notin excused PROVE OneAtATime(m)'
    BY <1>4
  <2>1. OneAtATime(m)
    BY DEF PubInv
  <2>2. AtWorkOn(m) = {c} /\ file[m] \in {Nobody, c}
    BY <1>1, <1>2, <2>1 DEF OneAtATime
  <2>3. AtWorkOn(m)' = {} /\ row'[m].status = "published" /\ row'[m].checksum = c /\ file'[m] \in {Nobody, c}
    BY <1>4, <1>6, <1>7, <2>2
  <2> QED BY <2>3 DEF OneAtATime
<1>9. Retention[m] = 0 => Retained(m)'
  <2> SUFFICES ASSUME Retention[m] = 0 PROVE Retained(m)'
    OBVIOUS
  <2>1. Retained(m)
    BY DEF PubInv
  <2>2. file[m] # Nobody
    BY <1>1, <1>2, <2>1 DEF Retained
  <2>3. row'[m].expires = Never /\ row'[m].status = "published"
    BY <1>6 DEF ExpiresAt
  <2>4. m \notin unlinking' /\ file'[m] # Nobody
    BY <1>4, <2>1, <2>2 DEF Retained
  <2> QED BY <2>3, <2>4 DEF Retained
<1>10. /\ row'[m] = [status |-> row'[m].status, checksum |-> row'[m].checksum, expires |-> row'[m].expires]
       /\ file' = [n \in Modes |-> file'[n]] /\ excused \subseteq excused' /\ excused' \subseteq Modes
       /\ unlinking' = unlinking /\ today' = today
       /\ call[c].mode \in {m, Nobody} /\ y.mode \in {m, Nobody}
  BY <1>1, <1>2, <1>3, <1>4, <1>6 DEF PubShape
<1> QED
  BY <1>3, <1>6, <1>8, <1>9, <1>10, OneModeInv

\* A call that fails at a mode, which is excused from then on.
LEMMA FailingInv ==
    ASSUME PubInv, NEW c \in Calls, NEW m \in Modes, call[c].mode \in {m, Nobody},
           NEW y, IsCallOf(y), y.mode \in {m, Nobody}, y.pc \notin {"writing", "cataloguing"},
           call' = [call EXCEPT ![c] = y],
           row' = row \/ row' = [row EXCEPT ![m].status = "failed"],
           excused' = excused \/ excused' = excused \union {m}, m \in excused',
           UNCHANGED <<file, unlinking, today>>
    PROVE  PubInv'
<1>1. PubShape
  BY DEF PubInv
<1>2. Went(c, y)
  BY <1>1, CallGoes
<1>3. /\ row'[m] = [status |-> row'[m].status, checksum |-> row'[m].checksum, expires |-> row'[m].expires]
      /\ row'[m].expires = row[m].expires /\ row'[m].status \in {row[m].status, "failed"}
      /\ row' = [n \in Modes |-> row'[n]] /\ \A n \in Modes \ {m} : row'[n] = row[n]
  <2>1. row[m] = [status |-> row[m].status, checksum |-> row[m].checksum, expires |-> row[m].expires]
    BY <1>1 DEF PubShape
  <2>2. CASE row' = row
    BY <1>1, <2>1, <2>2 DEF PubShape
  <2>3. CASE row' = [row EXCEPT ![m].status = "failed"]
    <3>1. row'[m] = [row[m] EXCEPT !.status = "failed"]
      BY <1>1, <2>3 DEF PubShape
    <3>2. row'[m] = [status |-> "failed", checksum |-> row[m].checksum, expires |-> row[m].expires]
      BY <2>1, <3>1
    <3>3. row' = [n \in Modes |-> row'[n]] /\ \A n \in Modes \ {m} : row'[n] = row[n]
      BY <1>1, <2>3 DEF PubShape
    <3> QED BY <3>2, <3>3
  <2> QED BY <2>2, <2>3
<1>4. Retention[m] = 0 => Retained(m)'
  <2> SUFFICES ASSUME Retention[m] = 0 PROVE Retained(m)'
    OBVIOUS
  <2>1. Retained(m)
    BY DEF PubInv
  <2>2. \A d \in AtWorkOn(m)' : call'[d].pc \in {"writing", "cataloguing"} =>
            d \in AtWorkOn(m) /\ call[d].pc \in {"writing", "cataloguing"}
    <3> SUFFICES ASSUME NEW d \in AtWorkOn(m)', call'[d].pc \in {"writing", "cataloguing"}
                 PROVE  d \in AtWorkOn(m) /\ call[d].pc \in {"writing", "cataloguing"}
      OBVIOUS
    <3>1. d \in Calls /\ call'[d].mode = m
      BY DEF AtWorkOn
    <3>2. d # c
      BY <1>2 DEF Went
    <3> QED BY <1>2, <3>1, <3>2 DEF Went, AtWorkOn
  <2>3. m \notin unlinking' /\ file'[m] = file[m]
    BY <2>1 DEF Retained
  <2> QED BY <1>3, <2>1, <2>2, <2>3, StillRetained
<1>5. /\ file' = [n \in Modes |-> file'[n]] /\ excused \subseteq excused' /\ excused' \subseteq Modes
      /\ unlinking' = unlinking /\ today' = today
      /\ \A n \in Modes \ {m} : row'[n] = row[n] /\ file'[n] = file[n]
  BY <1>1, <1>3 DEF PubShape
<1> QED
  BY <1>3, <1>4, <1>5, OneModeInv

LEMMA ThrowsInv ==
    ASSUME PubInv, NEW c \in Calls, PublishOneThrowsEarly(c) \/ PublishOneThrows(c) \/ FailureRecorded(c)
    PROVE  PubInv'
<1>1. PubShape
  BY DEF PubInv
<1>2. CASE PublishOneThrowsEarly(c)
  <2>1. PICK m \in call[c].todo :
           /\ excused' = excused \union {m}
           /\ call' = [call EXCEPT ![c] = [pc |-> "failing", mode |-> m, todo |-> @.todo \ {m}]]
    BY <1>2 DEF PublishOneThrowsEarly, Fault
  <2> DEFINE y == [pc |-> "failing", mode |-> m, todo |-> call[c].todo \ {m}]
  <2>2. m \in Modes /\ IsCallOf(call[c])
    BY <1>1 DEF PubShape, IsCallOf
  <2>3. call[c].mode = Nobody
    BY <1>2, <2>2 DEF PublishOneThrowsEarly, IsCallOf
  <2>4. IsCallOf(y) /\ y.mode = m /\ y.pc = "failing" /\ call' = [call EXCEPT ![c] = y]
    BY <2>1, <2>2 DEF IsCallOf
  <2> HIDE DEF y
  <2>5. UNCHANGED <<row, file, unlinking, today>> /\ m \in excused'
    BY <1>2, <2>1 DEF PublishOneThrowsEarly
  <2> QED BY <2>1, <2>2, <2>3, <2>4, <2>5, FailingInv
<1>3. CASE PublishOneThrows(c)
  <2>1. PICK m \in Modes : m = call[c].mode /\ IsCallOf(call[c])
    BY <1>1, <1>3, AtItsMode DEF PublishOneThrows
  <2> DEFINE y == [call[c] EXCEPT !.pc = "failing"]
  <2>2. y = [pc |-> "failing", mode |-> m, todo |-> call[c].todo]
    BY <2>1 DEF IsCallOf
  <2>3. call' = [call EXCEPT ![c] = y] /\ excused' = excused \union {m}
    BY <1>3, <2>1 DEF PublishOneThrows, Moves, Fault
  <2> HIDE DEF y
  <2>4. IsCallOf(y) /\ y.mode = m /\ y.pc = "failing"
    BY <2>1, <2>2 DEF IsCallOf
  <2>5. UNCHANGED <<row, file, unlinking, today>> /\ m \in excused'
    BY <1>3, <2>3 DEF PublishOneThrows
  <2> QED BY <2>1, <2>3, <2>4, <2>5, FailingInv
<1>4. CASE FailureRecorded(c)
  <2>1. PICK m \in Modes : m = call[c].mode /\ c \in AtWorkOn(m)
    BY <1>1, <1>4, AtItsMode DEF FailureRecorded
  <2>2. PICK y : IsCallOf(y) /\ y.mode = Nobody /\ call' = [call EXCEPT ![c] = y]
    BY <1>1, <1>4, ModeIsDone DEF FailureRecorded
  <2>3. y.pc \notin {"writing", "cataloguing"}
    BY <2>2, NamesAssumption DEF IsCallOf, Nobody
  <2>4. UNCHANGED <<file, unlinking, today, excused>>
          /\ (row' = row \/ row' = [row EXCEPT ![m].status = "failed"])
    BY <1>4, <2>1 DEF FailureRecorded
  <2>5. m \in excused'
    <3> SUFFICES ASSUME m \notin excused PROVE FALSE
      BY <2>4
    <3> QED BY <1>4, <2>1 DEF PubInv, OneAtATime, FailureRecorded
  <2> QED BY <2>1, <2>2, <2>3, <2>4, <2>5, FailingInv
<1> QED
  BY <1>2, <1>3, <1>4

\* Kills excuse the modes that calls were at work on.
LEMMA KillInv ==
    ASSUME PubInv, NEW cs \in SUBSET Calls, NEW modes, KillOf(cs, modes), modes \subseteq Modes,
           unlinking' \subseteq unlinking, \A m \in unlinking : m \in unlinking' \/ m \in modes
    PROVE  PubInv'
<1> DEFINE killed == {d \in cs : Running(d)}
           y == [pc |-> "ended", mode |-> Nobody, todo |-> {}]
<1>1. PubShape
  BY DEF PubInv
<1>2. call' = [d \in Calls |-> IF d \in killed THEN y ELSE call[d]]
  BY DEF KillOf
<1>3. excused' = excused \union (modes \union ({call[d].mode : d \in killed} \ {Nobody}))
  BY DEF KillOf, Fault
<1>4. UNCHANGED <<row, file, today>>
  BY DEF KillOf
<1>5. IsCallOf(y) /\ y.mode = Nobody /\ y.pc = "ended"
  BY DEF IsCallOf
<1> HIDE DEF y, killed
<1>6. call' = [d \in Calls |-> call'[d]] /\ \A d \in Calls : IsCallOf(call'[d])
  BY <1>1, <1>2, <1>5 DEF PubShape
<1>7. excused' \subseteq Modes /\ killed \subseteq Calls
  <2>1. killed \subseteq Calls
    BY DEF killed
  <2>2. \A d \in killed : call[d].mode \in Modes \union {Nobody}
    BY <1>1, <2>1 DEF PubShape, IsCallOf
  <2> QED BY <1>1, <1>3, <2>1, <2>2 DEF PubShape
<1>8. PubShape'
  BY <1>1, <1>4, <1>6, <1>7, ShapeKept DEF PubShape
<1>9. \A m \in Modes \ excused' : OneAtATime(m)'
  <2> SUFFICES ASSUME NEW m \in Modes \ excused' PROVE OneAtATime(m)'
    OBVIOUS
  <2>1. m \notin modes /\ m # Nobody /\ m \notin excused
    BY <1>3, NamesAssumption DEF Nobody
  <2>2. \A d \in killed : call[d].mode # m
    BY <1>3, <2>1
  <2>3. \A d \in Calls : call'[d].mode = m <=> call[d].mode = m
    BY <1>2, <1>5, <2>1, <2>2
  <2>4. AtWorkOn(m)' = AtWorkOn(m)
    BY <2>3 DEF AtWorkOn
  <2>5. \A d \in AtWorkOn(m) : d \in Calls /\ d \notin killed
    BY <2>2 DEF AtWorkOn
  <2>6. \A d \in AtWorkOn(m) : call'[d].pc = call[d].pc
    BY <1>2, <2>5
  <2>7. m \in unlinking <=> m \in unlinking'
    BY <2>1
  <2>8. OneAtATime(m)
    BY <2>1 DEF PubInv
  <2> QED BY <1>4, <2>4, <2>6, <2>7, <2>8, LeftAlone
<1>10. \A m \in Modes : Retention[m] = 0 => Retained(m)'
  <2> SUFFICES ASSUME NEW m \in Modes, Retention[m] = 0 PROVE Retained(m)'
    OBVIOUS
  <2>1. Retained(m)
    BY DEF PubInv
  <2>2. \A d \in AtWorkOn(m)' : call'[d].pc \in {"writing", "cataloguing"} =>
            d \in AtWorkOn(m) /\ call[d].pc \in {"writing", "cataloguing"}
    <3> SUFFICES ASSUME NEW d \in AtWorkOn(m)', call'[d].pc \in {"writing", "cataloguing"}
                 PROVE  d \in AtWorkOn(m) /\ call[d].pc \in {"writing", "cataloguing"}
      OBVIOUS
    <3>1. d \in Calls /\ call'[d].mode = m
      BY DEF AtWorkOn
    <3>2. call'[d] = call[d]
      BY <1>2, <1>5, <3>1
    <3> QED BY <3>1, <3>2 DEF AtWorkOn
  <2>3. m \notin unlinking'
    BY <2>1 DEF Retained
  <2> QED BY <1>4, <2>1, <2>2, <2>3, StillRetained
<1> QED
  BY <1>8, <1>9, <1>10 DEF PubInv

\* A tick expires what is due, which nothing is that is retained indefinitely.
LEMMA SweepInv == ASSUME PubInv, SweepExpired PROVE PubInv'
<1>1. PubShape
  BY DEF PubInv
<1>2. /\ unlinking = {} /\ unlinking' = DueModes /\ UNCHANGED <<file, call, today, excused>>
      /\ row' = [m \in Modes |-> IF m \in DueModes THEN [row[m] EXCEPT !.status = "expired"] ELSE row[m]]
  BY DEF SweepExpired, Sweep
<1>3. ASSUME NEW m \in DueModes
      PROVE  row'[m] = [status |-> "expired", checksum |-> row[m].checksum, expires |-> row[m].expires]
  <2>1. m \in Modes
    BY DEF DueModes
  <2>2. row'[m] = [row[m] EXCEPT !.status = "expired"]
    BY <1>2, <2>1
  <2>3. row[m] = [status |-> row[m].status, checksum |-> row[m].checksum, expires |-> row[m].expires]
    BY <1>1, <2>1 DEF PubShape
  <2> QED BY <2>2, <2>3
<1>4. \A m \in Modes : m \notin DueModes => row'[m] = row[m]
  BY <1>2
<1>5. PubShape'
  <2>1. ASSUME NEW m \in Modes
        PROVE  row'[m] = [status |-> row'[m].status, checksum |-> row'[m].checksum,
                          expires |-> row'[m].expires]
    <3>1. CASE m \in DueModes
      BY <1>3, <3>1, RowOf
    <3>2. CASE m \notin DueModes
      BY <1>1, <1>4, <3>2 DEF PubShape
    <3> QED BY <3>1, <3>2
  <2>2. row' = [m \in Modes |-> row'[m]] /\ DueModes \subseteq Modes
    BY <1>2 DEF DueModes
  <2> QED BY <1>1, <1>2, <2>1, <2>2, ShapeKept DEF PubShape
<1>6. \A m \in Modes \ excused' : OneAtATime(m)'
  <2> SUFFICES ASSUME NEW m \in Modes \ excused PROVE OneAtATime(m)'
    BY <1>2
  <2>1. OneAtATime(m) /\ AtWorkOn(m)' = AtWorkOn(m)
    BY <1>2 DEF PubInv, AtWorkOn
  <2>2. CASE m \in DueModes
    <3>1. row'[m].status = "expired" /\ m \in unlinking'
      BY <1>2, <1>3, <2>2
    <3>2. file'[m] = file[m] /\ \A c \in AtWorkOn(m) : call'[c] = call[c]
      BY <1>2
    <3> QED BY <2>1, <3>1, <3>2 DEF OneAtATime
  <2>3. CASE m \notin DueModes
    BY <1>2, <1>4, <2>1, <2>3 DEF OneAtATime
  <2> QED BY <2>2, <2>3
<1>7. \A m \in Modes : Retention[m] = 0 => Retained(m)'
  <2> SUFFICES ASSUME NEW m \in Modes, Retention[m] = 0 PROVE Retained(m)'
    OBVIOUS
  <2>1. Retained(m) /\ AtWorkOn(m)' = AtWorkOn(m)
    BY <1>2 DEF PubInv, AtWorkOn
  <2>2. m \notin DueModes
    BY <1>1, <2>1, BoundsAssumption DEF DueModes, Due, Retained, Never, PubShape
  <2> QED BY <1>2, <1>4, <2>1, <2>2 DEF Retained
<1> QED
  BY <1>5, <1>6, <1>7 DEF PubInv

LEMMA UnlinksInv ==
    ASSUME PubInv, NEW m \in Modes, Unlinked(m) \/ UnlinkFails(m)
    PROVE  PubInv'
<1>1. PubShape
  BY DEF PubInv
<1>2. /\ m \in unlinking /\ unlinking' = unlinking \ {m} /\ UNCHANGED <<row, call, today>>
      /\ \/ file' = [file EXCEPT ![m] = Nobody] /\ excused' = excused
         \/ file' = file /\ excused' = excused \union {m}
  BY DEF Unlinked, UnlinkFails, Fault
<1>3. \A n \in Modes : n # m => file'[n] = file[n]
  BY <1>1, <1>2 DEF PubShape
<1>4. PubShape'
  <2>1. file' = [n \in Modes |-> file'[n]] /\ unlinking' \subseteq Modes /\ excused' \subseteq Modes
    BY <1>1, <1>2 DEF PubShape
  <2> QED BY <1>1, <1>2, <2>1, ShapeKept DEF PubShape
<1>5. \A n \in Modes : AtWorkOn(n)' = AtWorkOn(n)
  BY <1>2 DEF AtWorkOn
<1>6. ASSUME NEW n \in Modes \ excused' PROVE OneAtATime(n)'
  <2>1. OneAtATime(n)
    BY <1>2 DEF PubInv
  <2>2. CASE n # m
    BY <1>2, <1>3, <1>5, <2>1, <2>2, LeftAlone
  <2>3. CASE n = m
    <3>1. file'[n] = Nobody
      BY <1>1, <1>2, <1>6, <2>3 DEF PubShape
    <3> QED BY <1>2, <1>5, <2>1, <3>1 DEF OneAtATime
  <2> QED BY <2>2, <2>3
<1>7. \A n \in Modes : Retention[n] = 0 => Retained(n)'
  <2> SUFFICES ASSUME NEW n \in Modes, Retention[n] = 0 PROVE Retained(n)'
    OBVIOUS
  <2>1. Retained(n) /\ n # m
    BY <1>2 DEF PubInv, Retained
  <2> QED BY <1>2, <1>3, <1>5, <2>1 DEF Retained
<1> QED
  BY <1>4, <1>6, <1>7 DEF PubInv

\* Nothing of the invariant depends on the day.
LEMMA ClockInv ==
    ASSUME PubInv, today' \in 0 .. LastDay, UNCHANGED <<row, file, call, unlinking, excused>>
    PROVE  PubInv'
<1>1. PubShape
  BY DEF PubInv
<1>2. PubShape'
  BY <1>1 DEF PubShape, IsCallOf
<1>3. \A m \in Modes : AtWorkOn(m)' = AtWorkOn(m)
  BY DEF AtWorkOn
<1>4. \A m \in Modes \ excused' : OneAtATime(m)'
  BY <1>3, LeftAlone DEF PubInv
<1>5. \A m \in Modes : Retention[m] = 0 => Retained(m)'
  BY <1>3 DEF PubInv, Retained
<1> QED
  BY <1>2, <1>4, <1>5 DEF PubInv

LEMMA PublicationsStep == PubInv /\ [PublicationsNext]_pubvars => PubInv'
<1> SUFFICES ASSUME PubInv, [PublicationsNext]_pubvars PROVE PubInv'
  OBVIOUS
<1>1. PubShape
  BY DEF PubInv
<1>2. CASE UNCHANGED pubvars
  <2>1. today' \in 0 .. LastDay /\ UNCHANGED <<row, file, call, unlinking, excused>>
    BY <1>1, <1>2 DEF pubvars, PubShape
  <2> QED BY <2>1, ClockInv
<1>3. CASE DayPasses
  <2>1. today' \in 0 .. LastDay /\ UNCHANGED <<row, file, call, unlinking, excused>>
    BY <1>1, <1>3, BoundsAssumption DEF DayPasses, PubShape
  <2> QED BY <2>1, ClockInv
<1>4. ASSUME NEW c \in Calls, ScriptKilled(c) PROVE PubInv'
  BY <1>4, KillInv DEF ScriptKilled
<1>5. CASE MainKilled
  <2>1. unlinking \subseteq Modes /\ unlinking' = {} /\ KillOf(Calls \ Scripted, unlinking)
    BY <1>1, <1>5 DEF MainKilled, PubShape
  <2> DEFINE cs == Calls \ Scripted
  <2>2. cs \in SUBSET Calls
    OBVIOUS
  <2> HIDE DEF cs
  <2> QED BY <2>1, <2>2, KillInv DEF cs
<1> QED
  BY <1>2, <1>3, <1>4, <1>5, PublishCalledInv, FileOpenedInv, FileWrittenInv, CataloguedInv, ThrowsInv,
     SweepInv, UnlinksInv DEF PublicationsNext, Publishing, Sweeping

LEMMA PublicationsStart == PublicationsInit => PubInv
<1> SUFFICES ASSUME PublicationsInit PROVE PubInv
  OBVIOUS
<1>1. \A m \in Modes : row[m] = NoRow /\ file[m] = Nobody /\ AtWorkOn(m) = {}
  BY NamesAssumption DEF PublicationsInit, AtWorkOn, Nobody
<1>2. NoRow.status = "none" /\ NoRow.expires = Never
        /\ NoRow = [status |-> NoRow.status, checksum |-> NoRow.checksum, expires |-> NoRow.expires]
  BY DEF NoRow
<1>3. PubShape
  <2>1. \A c \in Calls : call[c] = [pc |-> "idle", mode |-> Nobody, todo |-> {}]
    BY DEF PublicationsInit
  <2>2. \A c \in Calls : IsCallOf(call[c])
    BY <2>1, IdleCall
  <2>3. /\ row = [m \in Modes |-> row[m]] /\ file = [m \in Modes |-> file[m]]
        /\ call = [c \in Calls |-> call[c]]
    BY DEF PublicationsInit
  <2>4. unlinking \subseteq Modes /\ excused \subseteq Modes /\ today \in 0 .. LastDay
    BY BoundsAssumption DEF PublicationsInit
  <2>5. \A m \in Modes : row[m] = [status |-> row[m].status, checksum |-> row[m].checksum,
                                    expires |-> row[m].expires]
    BY <1>1, <1>2
  <2> QED BY <2>2, <2>3, <2>4, <2>5 DEF PubShape
<1> QED
  BY <1>1, <1>2, <1>3 DEF PubInv, OneAtATime, Retained, PublicationsInit

\* The file of a publication is the one its checksum is of, an expired one has
\* none, and what is retained indefinitely stays, for any number of calls, kills
\* and modes, whatever their retention.
THEOREM RowsAndFilesAgree == PublicationsSpec => []RowsMatchFiles
<1>1. PubInv => RowsMatchFiles
  BY DEF PubInv, OneAtATime, Retained, RowsMatchFiles, Quiet
<1> QED
  BY <1>1, PublicationsStart, PublicationsStep, PTL DEF PublicationsSpec

------------------------------------------------------------------------------
(***************************************************************************)
(* Queries                                                                 *)
(***************************************************************************)

\* References to realms; those of a realm that stays are its slug or its one
\* surrogate, and its slug once they are canonical.
Proper(refs) ==
    /\ refs \subseteq [realm : Realms, number : 0 .. 2]
    /\ \A ref \in refs : ref.realm \in Steady => ref.number # 2
Canonical(refs) == \A ref \in refs : ref.realm \in Steady => ref.number = 0

ScopedTo(refs, rs) ==
    \/ refs = {Everywhere} /\ rs = {Global}
    \/ Proper(refs) /\ Canonical(refs) /\ rs = {ref.realm : ref \in refs}

SettingOK ==
    /\ setting = [pc |-> setting.pc, document |-> setting.document, refs |-> setting.refs]
    /\ Proper(setting.refs)
    /\ setting.pc = "canonical" => Canonical(setting.refs)

ScopesOK ==
    /\ realms \in [Realms -> 0 .. 2] /\ \A r \in Steady : realms[r] = 1
    /\ scopes = [d \in Documents |-> scopes[d]] /\ scoped = [d \in Documents |-> scoped[d]]
    /\ \A d \in Documents : ScopedTo(scopes[d], scoped[d])
    /\ SettingOK

\* The summary was made before the timeline, of which there are n entries now.
ViewOK(x, n) ==
    /\ x.pc \in {"viewing", "viewed"}
    /\ x = [pc |-> x.pc, view |-> x.view, windowed |-> x.windowed, left |-> x.left,
            counted |-> x.counted, shown |-> x.shown]
    /\ x.windowed \in BOOLEAN
    /\ x.view = AgentActivity =>
          \/ x.pc = "viewing" /\ x.left = AgentActivity
          \/ x.pc = "viewing" /\ x.left = SearchContributions /\ x.counted \in 0 .. n
          \/ x.pc = "viewed" /\ (x.windowed \/ x.counted <= x.shown \/ x.shown = TimelineLimit)

\* The place of the k-th row among those shown, for any rows and statuses.
RankIn(filter, k, ss, st) == Cardinality({s \in {ss[l] : l \in 1 .. k} : Fits(filter, s, st[s])})

\* What was there and is not read yet is past the offset.
PagesOK(x, ss, st) ==
    /\ x.pc \in {"paging", "paged"}
    /\ x = [pc |-> x.pc, filter |-> x.filter, offset |-> x.offset, seen |-> x.seen,
            shifted |-> x.shifted, there |-> x.there]
    /\ x.offset \in Nat /\ x.shifted \in BOOLEAN
    /\ x.pc = "paging" /\ ~ x.shifted =>
          \A s \in x.there \ x.seen : \E k \in DOMAIN ss :
             ss[k] = s /\ Fits(x.filter, s, st[s]) /\ RankIn(x.filter, k, ss, st) > x.offset
    /\ x.pc = "paged" /\ ~ x.shifted => x.there \subseteq x.seen

ResolvesOK(x) ==
    /\ x.pc = "resolving"
    /\ x = [pc |-> x.pc, grants |-> x.grants, explicit |-> x.explicit, research |-> x.research,
            current |-> x.current]
    /\ x.grants \subseteq Realms /\ Proper(x.explicit)
    /\ x.research \subseteq Slugs(Realms) /\ x.current \subseteq Slugs(Realms)

\* The references searched are those of the realms the search may see, of the
\* realms that stay at least one of each.
SearchOK(x) ==
    /\ x.pc \in {"canonical", "querying"}
    /\ x = [pc |-> x.pc, by |-> x.by, may |-> x.may, realms |-> x.realms]
    /\ Proper(x.realms)
    /\ x.pc = "querying" => Canonical(x.realms)
    /\ \A ref \in x.realms : ref.realm \in x.may
    /\ \A r \in x.may \cap Steady : \E ref \in x.realms : ref.realm = r

FoundOK(x) == x.pc \in {"found", "missed"} /\ x.lost = {} /\ x.leaked = {}

ReaderOK(x, ss, st, n) ==
    \/ x = NotReading \/ ViewOK(x, n) \/ PagesOK(x, ss, st) \/ ResolvesOK(x) \/ SearchOK(x) \/ FoundOK(x)

Recorded ==
    /\ sessions \in Seq(Sessions) /\ statuses = [s \in Sessions |-> statuses[s]]
    /\ \A k, l \in DOMAIN sessions : sessions[k] = sessions[l] => k = l

Counted == contributions \in [{"inside", "outside"} -> Nat]

QueriesInv ==
    /\ Recorded /\ Counted
    /\ ScopesOK
    /\ reader = [i \in Readers |-> reader[i]]
    /\ \A i \in Readers : ReaderOK(reader[i], sessions, statuses, Made)

\* Canonicalising keeps what is referred to, and names a realm that stays by its
\* slug.
LEMMA CanonicalRefs ==
    ASSUME ScopesOK, NEW refs, Proper(refs)
    PROVE  /\ Proper(Canonicalise(refs)) /\ Canonical(Canonicalise(refs))
           /\ \A c \in Canonicalise(refs) : \E ref \in refs : c.realm = ref.realm
           /\ \A ref \in refs : \E c \in Canonicalise(refs) : c.realm = ref.realm
<1> DEFINE Canon(ref) == IF Known(ref) THEN Ref(ref.realm, 0) ELSE ref
<1>1. ASSUME NEW ref \in refs
      PROVE  /\ Canon(ref) \in [realm : Realms, number : 0 .. 2]
             /\ Canon(ref).realm = ref.realm
             /\ ref.realm \in Steady => Canon(ref).number = 0
  <2>1. /\ ref = [realm |-> ref.realm, number |-> ref.number]
        /\ ref.realm \in Realms /\ ref.number \in 0 .. 2
        /\ ref.realm \in Steady => ref.number # 2
    BY DEF Proper
  <2>2. ref.realm \in Steady => Known(ref)
    BY <2>1 DEF ScopesOK, Known
  <2> QED BY <2>1, <2>2 DEF Ref
<1>2. Canonicalise(refs) = {Canon(ref) : ref \in refs}
  BY DEF Canonicalise
<1> HIDE DEF Canon
<1>3. ASSUME NEW c \in Canonicalise(refs)
      PROVE  /\ c \in [realm : Realms, number : 0 .. 2]
             /\ c.realm \in Steady => c.number = 0
             /\ \E ref \in refs : c.realm = ref.realm
  BY <1>1, <1>2
<1> QED BY <1>1, <1>2, <1>3 DEF Proper, Canonical

\* A search by canonical references finds what it is after and nothing else.
LEMMA ScopeIsExact ==
    ASSUME NEW refs, NEW rs, ScopedTo(refs, rs), NEW x, SearchOK(x), x.pc = "querying"
    PROVE  /\ rs \cap ({Global} \union (x.may \cap Steady)) # {} => refs \cap ({Everywhere} \union x.realms) # {}
           /\ refs \cap ({Everywhere} \union x.realms) # {} => rs \cap ({Global} \union x.may) # {}
<1>1. CASE refs = {Everywhere} /\ rs = {Global}
  BY <1>1
<1>2. CASE Proper(refs) /\ Canonical(refs) /\ rs = {ref.realm : ref \in refs}
  <2>1. ASSUME NEW r \in rs, r \in {Global} \union (x.may \cap Steady)
        PROVE  refs \cap ({Everywhere} \union x.realms) # {}
    <3>1. PICK ref \in refs : ref.realm = r
      BY <1>2, <2>1
    <3>2. ref \in [realm : Realms, number : 0 .. 2]
      BY <1>2 DEF Proper
    <3>3. r \in x.may /\ r \in Steady
      BY <2>1, <3>1, <3>2, GlobalAssumption
    <3>4. PICK other \in x.realms : other.realm = r
      BY <3>3 DEF SearchOK
    <3>5. other \in [realm : Realms, number : 0 .. 2] /\ other.number = 0 /\ ref.number = 0
      BY <1>2, <3>1, <3>3, <3>4 DEF SearchOK, Proper, Canonical
    <3>6. ref = [realm |-> ref.realm, number |-> ref.number]
            /\ other = [realm |-> other.realm, number |-> other.number]
      BY <3>2, <3>5
    <3>7. ref = other
      BY <3>1, <3>4, <3>5, <3>6
    <3> QED BY <3>4, <3>7
  <2>2. ASSUME NEW ref \in refs, ref \in {Everywhere} \union x.realms
        PROVE  rs \cap ({Global} \union x.may) # {}
    <3>1. ref.realm \in Realms
      BY <1>2 DEF Proper
    <3>2. ref # Everywhere
      BY <3>1, GlobalAssumption DEF Everywhere, Ref
    <3>3. ref.realm \in x.may
      BY <2>2, <3>2 DEF SearchOK
    <3> QED BY <1>2, <3>3
  <2> QED BY <2>1, <2>2
<1> QED BY <1>1, <1>2 DEF ScopedTo

\* A step of one reader.
LEMMA ReaderWent ==
    ASSUME QueriesInv, NEW i \in Readers, NEW y, ReaderOK(y, sessions, statuses, Made),
           reader' = [reader EXCEPT ![i] = y],
           UNCHANGED <<sessions, statuses, contributions, realms, scopes, scoped, setting>>
    PROVE  QueriesInv'
<1>1. /\ reader' = [j \in Readers |-> reader'[j]] /\ reader'[i] = y
      /\ \A j \in Readers : j # i => reader'[j] = reader[j]
  BY DEF QueriesInv
<1>2. \A j \in Readers : ReaderOK(reader'[j], sessions, statuses, Made)
  BY <1>1 DEF QueriesInv
<1>3. ScopesOK' /\ Recorded' /\ Counted' /\ Made' = Made
  BY DEF QueriesInv, ScopesOK, SettingOK, Recorded, Counted, Made
<1> QED
  BY <1>1, <1>2, <1>3 DEF QueriesInv

LEMMA PairOfSets ==
    ASSUME NEW a, NEW b
    PROVE  /\ <<a>> \o <<b>> = <<a, b>> /\ Head(<<a, b>>) = a /\ Tail(<<a, b>>) = <<b>>
           /\ Head(<<b>>) = b /\ Tail(<<b>>) = << >> /\ << >> \o <<b>> = <<b>>
           /\ <<a, b>> # << >> /\ <<b>> # << >>
<1>1. Head(<<a, b>>) = a /\ Head(<<b>>) = b /\ <<a, b>> # << >> /\ <<b>> # << >>
  OBVIOUS
<1>2. Tail(<<a, b>>) = <<b>>
  OBVIOUS
<1>3. Tail(<<b>>) = << >>
  OBVIOUS
<1>4. << >> \o <<b>> = <<b>>
  OBVIOUS
<1>5. <<a>> \o <<b>> = <<a, b>>
  <2> DEFINE S == {a, b}
             c == <<a>> \o <<b>>
             d == <<a, b>>
  <2>1. <<a>> \in Seq(S) /\ <<b>> \in Seq(S) /\ d \in Seq(S)
    OBVIOUS
  <2>2. c \in Seq(S) /\ Len(c) = 2 /\ c[1] = a /\ c[2] = b
    BY <2>1
  <2>3. d \in Seq(S) /\ Len(d) = 2 /\ d[1] = a /\ d[2] = b
    BY <2>1
  <2> HIDE DEF c, d, S
  <2>4. \A k \in 1 .. Len(c) : c[k] = d[k]
    BY <2>2, <2>3
  <2>5. c = d
    BY <2>2, <2>3, <2>4, SeqEqual
  <2> QED BY <2>5 DEF c, d
<1> QED BY <1>1, <1>2, <1>3, <1>4, <1>5

\* The order in which the statements of an agent's activity are awaited.
LEMMA ActivityOrder ==
    /\ Head(AgentActivity) = {"counts"} /\ Tail(AgentActivity) = SearchContributions
    /\ Head(SearchContributions) = {"contributions"} /\ Tail(SearchContributions) = << >>
    /\ AgentActivity # << >> /\ SearchContributions # << >>
    /\ << >> \o SearchContributions = SearchContributions
<1>1. AgentSummary = <<{"counts"}>> /\ SearchContributions = <<{"contributions"}>>
  BY DEF AgentSummary, SearchContributions
<1>2. AgentActivity = <<{"counts"}, {"contributions"}>>
  BY <1>1, PairOfSets DEF AgentActivity
<1> QED
  BY <1>1, <1>2, PairOfSets

\* What the fields of a reader become.
LEMMA ViewGoes ==
    ASSUME NEW x, NEW to, NEW left, NEW counted, NEW shown, NEW y,
           x = [pc |-> x.pc, view |-> x.view, windowed |-> x.windowed, left |-> x.left,
                counted |-> x.counted, shown |-> x.shown],
           y = [x EXCEPT !.pc = to, !.left = left, !.counted = counted, !.shown = shown]
    PROVE  y = [pc |-> to, view |-> x.view, windowed |-> x.windowed, left |-> left,
                counted |-> counted, shown |-> shown]
OBVIOUS

LEMMA PagesGo ==
    ASSUME NEW x, NEW to, NEW offset, NEW seen, NEW y,
           x = [pc |-> x.pc, filter |-> x.filter, offset |-> x.offset, seen |-> x.seen,
                shifted |-> x.shifted, there |-> x.there],
           y = [x EXCEPT !.pc = to, !.offset = offset, !.seen = seen]
    PROVE  y = [pc |-> to, filter |-> x.filter, offset |-> offset, seen |-> seen,
                shifted |-> x.shifted, there |-> x.there]
OBVIOUS

LEMMA PagesLose ==
    ASSUME NEW x, NEW there, NEW shifted \in BOOLEAN, NEW y,
           x = [pc |-> x.pc, filter |-> x.filter, offset |-> x.offset, seen |-> x.seen,
                shifted |-> x.shifted, there |-> x.there],
           y = [x EXCEPT !.there = there, !.shifted = shifted]
    PROVE  y = [pc |-> x.pc, filter |-> x.filter, offset |-> x.offset, seen |-> x.seen,
                shifted |-> shifted, there |-> there]
OBVIOUS

LEMMA SearchGoes ==
    ASSUME NEW x, NEW to, NEW refs, NEW y,
           x = [pc |-> x.pc, by |-> x.by, may |-> x.may, realms |-> x.realms],
           y = [x EXCEPT !.pc = to, !.realms = refs]
    PROVE  y = [pc |-> to, by |-> x.by, may |-> x.may, realms |-> refs]
OBVIOUS

LEMMA StatementInv ==
    ASSUME QueriesInv, NEW i \in Readers, StatementAnswered(i)
    PROVE  QueriesInv'
<1> DEFINE x == reader[i]
<1>1. x.pc = "viewing" /\ ReaderOK(x, sessions, statuses, Made) /\ Made \in Nat
  BY DEF QueriesInv, StatementAnswered, Counted, Made
<1>2. ViewOK(x, Made)
  BY <1>1 DEF ReaderOK, NotReading, PagesOK, ResolvesOK, SearchOK, FoundOK
<1>3. PICK s \in Head(x.left) :
         LET rest == Head(x.left) \ {s}
             left == (IF rest = {} THEN << >> ELSE <<rest>>) \o Tail(x.left)
         IN  ReaderGoes(i,
                [x EXCEPT !.pc = IF left = << >> THEN "viewed" ELSE "viewing",
                          !.left = left,
                          !.counted = IF s = "counts" THEN Made ELSE @,
                          !.shown = IF s = "contributions" THEN Shown(x.windowed) ELSE @])
  BY DEF StatementAnswered
<1> DEFINE rest == Head(x.left) \ {s}
           left == (IF rest = {} THEN << >> ELSE <<rest>>) \o Tail(x.left)
<1>6. PICK y :
         /\ y = [x EXCEPT !.pc = IF left = << >> THEN "viewed" ELSE "viewing",
                          !.left = left,
                          !.counted = IF s = "counts" THEN Made ELSE @,
                          !.shown = IF s = "contributions" THEN Shown(x.windowed) ELSE @]
         /\ ReaderGoes(i, y)
  BY <1>3
<1>4. y = [pc |-> IF left = << >> THEN "viewed" ELSE "viewing", view |-> x.view,
           windowed |-> x.windowed, left |-> left,
           counted |-> IF s = "counts" THEN Made ELSE x.counted,
           shown |-> IF s = "contributions" THEN Shown(x.windowed) ELSE x.shown]
  <2>1. x = [pc |-> x.pc, view |-> x.view, windowed |-> x.windowed, left |-> x.left,
             counted |-> x.counted, shown |-> x.shown]
    BY <1>2 DEF ViewOK
  <2> QED BY <1>6, <2>1, ViewGoes
<1>7. x.windowed \in BOOLEAN
  BY <1>2 DEF ViewOK
<1>5. ViewOK(y, Made)
  <2>1. CASE x.view # AgentActivity
    BY <1>4, <1>7, <2>1 DEF ViewOK
  <2>2. CASE x.view = AgentActivity /\ x.left = AgentActivity
    <3>1. s = "counts" /\ rest = {} /\ left = SearchContributions
      BY <2>2, <1>3, ActivityOrder
    <3>2. y = [pc |-> "viewing", view |-> x.view, windowed |-> x.windowed,
               left |-> SearchContributions, counted |-> Made, shown |-> x.shown]
      BY <1>4, <3>1, ActivityOrder
    <3> QED BY <1>1, <1>7, <3>2 DEF ViewOK
  <2>3. CASE x.view = AgentActivity /\ x.left = SearchContributions /\ x.counted \in 0 .. Made
    <3>1. s = "contributions" /\ rest = {} /\ left = << >>
      BY <2>3, <1>3, ActivityOrder
    <3>2. y = [pc |-> "viewed", view |-> x.view, windowed |-> x.windowed, left |-> << >>,
               counted |-> x.counted, shown |-> Shown(x.windowed)]
      BY <1>4, <3>1
    <3>3. x.windowed \/ x.counted <= Shown(x.windowed) \/ Shown(x.windowed) = TimelineLimit
      BY <1>1, <2>3 DEF Shown
    <3> QED BY <1>7, <3>2, <3>3 DEF ViewOK
  <2> QED BY <1>1, <1>2, <2>1, <2>2, <2>3 DEF ViewOK
<1> QED
  BY <1>5, <1>6, ReaderWent DEF ReaderGoes, ReaderOK

LEMMA FirstRowsFinite ==
    ASSUME NEW ss, NEW k \in Nat
    PROVE  IsFiniteSet({ss[l] : l \in 1 .. k})
<1> DEFINE T == {ss[l] : l \in 1 .. k}
           f == [l \in 1 .. k |-> ss[l]]
<1>1. f \in Surjection(1 .. k, T)
  BY DEF Surjection
<1>2. IsFiniteSet(1 .. k)
  BY FS_Interval
<1> HIDE DEF T, f
<1>3. IsFiniteSet(T)
  BY <1>1, <1>2, FS_Surjection
<1> QED BY <1>3 DEF T

\* A row does not come nearer when rows are added, or begin to match.
LEMMA RankGrows ==
    ASSUME NEW filter, NEW ss, NEW ts, NEW st, NEW tt, NEW k \in Nat, NEW l \in Nat,
           \A j \in 1 .. k : \E m \in 1 .. l : ts[m] = ss[j],
           \A j \in 1 .. k : Fits(filter, ss[j], st[ss[j]]) => Fits(filter, ss[j], tt[ss[j]])
    PROVE  /\ RankIn(filter, k, ss, st) \in Nat /\ RankIn(filter, l, ts, tt) \in Nat
           /\ RankIn(filter, k, ss, st) <= RankIn(filter, l, ts, tt)
<1> DEFINE A == {s \in {ss[j] : j \in 1 .. k} : Fits(filter, s, st[s])}
           B == {s \in {ts[m] : m \in 1 .. l} : Fits(filter, s, tt[s])}
<1>1. IsFiniteSet({ts[m] : m \in 1 .. l})
  BY FirstRowsFinite
<1>2. IsFiniteSet(B)
  BY <1>1, FS_Subset
<1>3. A \subseteq B
  OBVIOUS
<1>4. IsFiniteSet(A) /\ Cardinality(A) <= Cardinality(B)
  BY <1>2, <1>3, FS_Subset
<1> QED
  BY <1>2, <1>4, FS_CardinalityType DEF RankIn

LEMMA RankIsNat ==
    ASSUME NEW filter, NEW k \in DOMAIN sessions, Recorded
    PROVE  Rank(filter, k) = RankIn(filter, k, sessions, statuses) /\ Rank(filter, k) \in Nat
<1>1. k \in Nat
  BY DEF Recorded
<1>2. RankIn(filter, k, sessions, statuses) \in Nat
  BY <1>1, RankGrows
<1> QED BY <1>2 DEF Rank, RankIn, Shows

\* Those behind a row that stops matching stay at its place or behind it, and
\* those before it where they were.
LEMMA RankLost ==
    ASSUME Recorded, NEW filter, NEW k \in DOMAIN sessions, NEW l \in DOMAIN sessions, k # l,
           NEW n \in Nat, ~ (Rank(filter, k) <= n), RankIn(filter, l, sessions, statuses) > n,
           Fits(filter, sessions[l], statuses[sessions[l]]),
           NEW st, \A t \in Sessions : t # sessions[k] => st[t] = statuses[t]
    PROVE  RankIn(filter, l, sessions, st) > n
<1> DEFINE A == {t \in {sessions[j] : j \in 1 .. k} : Fits(filter, t, statuses[t])}
           B == {t \in {sessions[j] : j \in 1 .. l} : Fits(filter, t, st[t])}
           C == {t \in {sessions[j] : j \in 1 .. l} : Fits(filter, t, statuses[t])}
<1>1. /\ sessions \in Seq(Sessions) /\ k \in Nat /\ l \in Nat
      /\ \A i, j \in DOMAIN sessions : sessions[i] = sessions[j] => i = j
  BY DEF Recorded
<1>2. \A j \in 1 .. k : j \in DOMAIN sessions /\ sessions[j] \in Sessions
  BY <1>1
<1>3. \A j \in 1 .. l : j \in DOMAIN sessions /\ sessions[j] \in Sessions
  BY <1>1
<1>4. IsFiniteSet(A) /\ IsFiniteSet(B) /\ IsFiniteSet(C)
  <2>1. IsFiniteSet({sessions[j] : j \in 1 .. k}) /\ IsFiniteSet({sessions[j] : j \in 1 .. l})
    BY <1>1, FirstRowsFinite
  <2>2. /\ A \subseteq {sessions[j] : j \in 1 .. k}
        /\ B \subseteq {sessions[j] : j \in 1 .. l} /\ C \subseteq {sessions[j] : j \in 1 .. l}
    OBVIOUS
  <2> HIDE DEF A, B, C
  <2> QED BY <2>1, <2>2, FS_Subset
<1>5. Cardinality(A) \in Nat /\ Cardinality(B) \in Nat /\ Cardinality(C) \in Nat
  BY <1>4, FS_CardinalityType
<1>6. Cardinality(A) > n
  <2>1. Rank(filter, k) = Cardinality(A)
    BY DEF Rank, Shows
  <2> QED BY <1>5, <2>1
<1>7. CASE l < k
  <2>1. \A j \in 1 .. l : sessions[j] # sessions[k]
    BY <1>1, <1>3, <1>7
  <2>2. B = C
    BY <1>3, <2>1
  <2> QED BY <2>2 DEF RankIn
<1>8. CASE k < l
  <2> DEFINE rest == A \ {sessions[k]}
             D == rest \union {sessions[l]}
  <2>1. sessions[l] \notin A
    BY <1>1, <1>2, <1>8
  <2>2. IsFiniteSet(rest) /\ Cardinality(rest) >= Cardinality(A) - 1
    BY <1>4, <1>5, FS_RemoveElement
  <2>3. Cardinality(rest) \in Nat
    BY <2>2, FS_CardinalityType
  <2>4. IsFiniteSet(D) /\ Cardinality(D) = Cardinality(rest) + 1
    BY <2>1, <2>2, FS_AddElement
  <2>5. D \subseteq B
    <3>1. \A t \in rest : t \in B
      <4> SUFFICES ASSUME NEW t \in rest PROVE t \in B
        OBVIOUS
      <4>1. PICK j \in 1 .. k : t = sessions[j]
        OBVIOUS
      <4>2. j \in 1 .. l /\ st[t] = statuses[t] /\ Fits(filter, t, statuses[t])
        BY <1>1, <1>2, <1>8, <4>1
      <4> QED BY <4>1, <4>2
    <3>2. sessions[l] \in B
      <4>1. l \in 1 .. l /\ sessions[l] # sessions[k]
        BY <1>1
      <4>2. st[sessions[l]] = statuses[sessions[l]]
        BY <1>3, <4>1
      <4> QED BY <4>1, <4>2
    <3> QED BY <3>1, <3>2
  <2> HIDE DEF A, B, rest, D
  <2>6. Cardinality(D) <= Cardinality(B)
    BY <1>4, <2>5, FS_Subset
  <2>7. Cardinality(B) > n
    BY <1>5, <1>6, <2>2, <2>3, <2>4, <2>6
  <2> QED BY <2>7 DEF RankIn, B
<1> QED BY <1>1, <1>7, <1>8

LEMMA PageInv ==
    ASSUME QueriesInv, NEW i \in Readers, PageAnswered(i)
    PROVE  QueriesInv'
<1> DEFINE x == reader[i]
           matching == {k \in DOMAIN sessions : Shows(x.filter, sessions[k])}
           page == {k \in matching : Rank(x.filter, k) \in x.offset + 1 .. x.offset + Limit}
           full == \E k \in matching : Rank(x.filter, k) >= x.offset + Limit
           read == {sessions[k] : k \in page}
<1>1. x.pc = "paging" /\ ReaderOK(x, sessions, statuses, Made) /\ Recorded
  BY DEF QueriesInv, PageAnswered
<1>2. PagesOK(x, sessions, statuses)
  BY <1>1 DEF ReaderOK, NotReading, ViewOK, ResolvesOK, SearchOK, FoundOK
<1>3. PICK y :
         /\ y = [x EXCEPT !.pc = IF full THEN "paging" ELSE "paged", !.offset = @ + Limit, !.seen = @ \union read]
         /\ ReaderGoes(i, y)
  BY DEF PageAnswered
<1> HIDE DEF full
<1>8. y = [pc |-> IF full THEN "paging" ELSE "paged", filter |-> x.filter, offset |-> x.offset + Limit,
           seen |-> x.seen \union read, shifted |-> x.shifted, there |-> x.there]
  <2>1. x = [pc |-> x.pc, filter |-> x.filter, offset |-> x.offset, seen |-> x.seen,
             shifted |-> x.shifted, there |-> x.there]
    BY <1>2 DEF PagesOK
  <2> QED BY <1>3, <2>1, PagesGo
<1>4. ASSUME ~ x.shifted, NEW s \in x.there \ (x.seen \union read)
      PROVE  \E k \in DOMAIN sessions :
                /\ sessions[k] = s /\ Fits(x.filter, s, statuses[s]) /\ k \in matching
                /\ Rank(x.filter, k) > x.offset + Limit
                /\ RankIn(x.filter, k, sessions, statuses) > x.offset + Limit
  <2>1. PICK k \in DOMAIN sessions :
           /\ sessions[k] = s /\ Fits(x.filter, s, statuses[s])
           /\ RankIn(x.filter, k, sessions, statuses) > x.offset
    BY <1>1, <1>2, <1>4 DEF PagesOK
  <2>2. Rank(x.filter, k) = RankIn(x.filter, k, sessions, statuses) /\ Rank(x.filter, k) \in Nat
    BY <1>1, RankIsNat
  <2>3. k \in matching
    BY <2>1 DEF Shows
  <2>4. Rank(x.filter, k) \notin x.offset + 1 .. x.offset + Limit
    BY <2>1, <2>3, <1>4
  <2>5. Rank(x.filter, k) > x.offset + Limit
    BY <1>2, <2>1, <2>2, <2>4, LimitAssumption DEF PagesOK
  <2> QED BY <2>1, <2>2, <2>3, <2>5
<1>5. ~ full /\ ~ x.shifted => x.there \subseteq x.seen \union read
  <2> SUFFICES ASSUME ~ full, ~ x.shifted, NEW s \in x.there \ (x.seen \union read) PROVE FALSE
    OBVIOUS
  <2>1. PICK k \in matching : Rank(x.filter, k) > x.offset + Limit
    BY <1>4
  <2>2. Rank(x.filter, k) \in Nat /\ x.offset \in Nat
    BY <1>1, <1>2, <2>1, RankIsNat DEF PagesOK
  <2>3. Rank(x.filter, k) >= x.offset + Limit
    BY <2>1, <2>2, LimitAssumption
  <2> QED BY <2>1, <2>3 DEF full
<1>6. x.offset + Limit \in Nat /\ x.shifted \in BOOLEAN
  BY <1>2, LimitAssumption DEF PagesOK
<1> HIDE DEF read, matching
<1>7. PagesOK(y, sessions, statuses)
  BY <1>4, <1>5, <1>6, <1>8 DEF PagesOK
<1> QED
  BY <1>3, <1>7, ReaderWent DEF ReaderGoes, ReaderOK

LEMMA ResolvedInv ==
    ASSUME QueriesInv, NEW i \in Readers, SearchResolved(i)
    PROVE  QueriesInv'
<1> DEFINE x == reader[i]
           s == [x EXCEPT !.explicit = Canonicalise(@)]
           may == {r \in s.grants : \E ref \in s.research \union s.explicit : ref.realm = r}
                      \union {ref.realm : ref \in s.current}
           y == [pc |-> "canonical", by |-> "agent", may |-> may, realms |-> ResolveSearchScope(s)]
<1>1. x.pc = "resolving" /\ ReaderOK(x, sessions, statuses, Made) /\ ScopesOK
  BY DEF QueriesInv, SearchResolved
<1>2. ResolvesOK(x)
  BY <1>1 DEF ReaderOK, NotReading, ViewOK, PagesOK, SearchOK, FoundOK
<1>3. ReaderGoes(i, y)
  BY DEF SearchResolved
<1>4. /\ s.grants = x.grants /\ s.research = x.research /\ s.current = x.current
      /\ s.explicit = Canonicalise(x.explicit)
  <2>1. x = [pc |-> x.pc, grants |-> x.grants, explicit |-> x.explicit, research |-> x.research,
             current |-> x.current]
    BY <1>2 DEF ResolvesOK
  <2> QED BY <2>1
<1>5. /\ s.grants \subseteq Realms /\ s.research \subseteq Slugs(Realms) /\ s.current \subseteq Slugs(Realms)
      /\ Proper(s.explicit) /\ Canonical(s.explicit)
  BY <1>1, <1>2, <1>4, CanonicalRefs DEF ResolvesOK
<1> HIDE DEF s
<1> DEFINE found == ((s.research \union s.explicit) \cap Slugs(s.grants)) \union s.current
<1>6. ASSUME NEW ref \in found
      PROVE  ref \in [realm : Realms, number : 0 .. 2] /\ ref.number = 0 /\ ref.realm \in may
  <2>1. ref \in Slugs(Realms)
    BY <1>5, <1>6 DEF Slugs
  <2>2. PICK r \in Realms : ref = [realm |-> r, number |-> 0]
    BY <2>1 DEF Slugs, Ref
  <2>3. ref \in s.current \/ (ref \in s.research \union s.explicit /\ r \in s.grants)
    BY <1>6, <2>2 DEF Slugs, Ref
  <2> QED BY <2>2, <2>3
<1>7. ASSUME NEW r \in may \cap Steady
      PROVE  \E ref \in found : ref.realm = r
  <2>1. CASE r \in {ref.realm : ref \in s.current}
    BY <2>1
  <2>2. ASSUME r \in s.grants, NEW ref \in s.research \union s.explicit, ref.realm = r
        PROVE  \E other \in found : other.realm = r
    <3>1. ref = Ref(r, 0)
      <4>1. CASE ref \in s.research
        BY <1>5, <2>2, <4>1 DEF Slugs, Ref
      <4>2. CASE ref \in s.explicit
        <5>1. ref = [realm |-> ref.realm, number |-> ref.number] /\ ref.number = 0
          BY <1>5, <1>7, <2>2, <4>2 DEF Proper, Canonical
        <5> QED BY <2>2, <5>1 DEF Ref
      <4> QED BY <2>2, <4>1, <4>2
    <3> QED BY <2>2, <3>1 DEF Slugs
  <2> QED BY <2>1, <2>2
<1>8. ResolveSearchScope(s) = found
  BY DEF ResolveSearchScope
<1> HIDE DEF may, found
<1>9. y.pc = "canonical" /\ y.realms = found /\ y.may = may /\ y.by = "agent"
  BY <1>8
<1>10. y = [pc |-> y.pc, by |-> y.by, may |-> y.may, realms |-> y.realms]
  OBVIOUS
<1> HIDE DEF y
<1>11. SearchOK(y)
  BY <1>6, <1>7, <1>9, <1>10 DEF SearchOK, Proper
<1> QED
  BY <1>3, <1>11, ReaderWent DEF ReaderGoes, ReaderOK

LEMMA CanonicalisedInv ==
    ASSUME QueriesInv, NEW i \in Readers, SearchCanonicalised(i)
    PROVE  QueriesInv'
<1> DEFINE x == reader[i]
           refs == Canonicalise(x.realms)
<1>1. x.pc = "canonical" /\ ReaderOK(x, sessions, statuses, Made) /\ ScopesOK
  BY DEF QueriesInv, SearchCanonicalised
<1>2. SearchOK(x)
  BY <1>1 DEF ReaderOK, NotReading, ViewOK, PagesOK, ResolvesOK, FoundOK
<1>3. PICK y : y = [x EXCEPT !.pc = "querying", !.realms = Canonicalise(@)] /\ ReaderGoes(i, y)
  BY DEF SearchCanonicalised
<1>4. Proper(x.realms)
  BY <1>2 DEF SearchOK
<1>5. /\ Proper(refs) /\ Canonical(refs)
      /\ \A c \in refs : \E ref \in x.realms : c.realm = ref.realm
      /\ \A ref \in x.realms : \E c \in refs : c.realm = ref.realm
  BY <1>1, <1>4, CanonicalRefs
<1>6. y = [pc |-> "querying", by |-> x.by, may |-> x.may, realms |-> refs]
  <2>1. x = [pc |-> x.pc, by |-> x.by, may |-> x.may, realms |-> x.realms]
    BY <1>2 DEF SearchOK
  <2> QED BY <1>3, <2>1, SearchGoes
<1> HIDE DEF refs
<1>7. \A r \in x.may \cap Steady : \E ref \in refs : ref.realm = r
  <2> SUFFICES ASSUME NEW r \in x.may \cap Steady PROVE \E ref \in refs : ref.realm = r
    OBVIOUS
  <2>1. PICK ref \in x.realms : ref.realm = r
    BY <1>2 DEF SearchOK
  <2> QED BY <1>5, <2>1
<1>8. \A ref \in refs : ref.realm \in x.may
  BY <1>2, <1>5 DEF SearchOK
<1>9. SearchOK(y)
  BY <1>5, <1>6, <1>7, <1>8 DEF SearchOK
<1> QED
  BY <1>3, <1>9, ReaderWent DEF ReaderGoes, ReaderOK

LEMMA AnsweredInv ==
    ASSUME QueriesInv, NEW i \in Readers, NEW match \in BOOLEAN, SearchAnswered(i, match)
    PROVE  QueriesInv'
<1> DEFINE s == reader[i]
           matching == IF match THEN Documents ELSE {}
           found == {d \in matching : s.by = "anyone" \/ InScope(d, s.realms)}
           missed == s.by = "agent" /\ found = {}
           y == [pc |-> IF missed THEN "missed" ELSE "found",
                 realms |-> IF missed THEN s.realms ELSE {},
                 lost |-> (matching \cap Wanted(i)) \ found,
                 leaked |-> IF s.by = "anyone" THEN {} ELSE found \ Allowed(i)]
<1>1. s.pc = "querying" /\ ReaderOK(s, sessions, statuses, Made) /\ ScopesOK
  BY DEF QueriesInv, SearchAnswered
<1>2. SearchOK(s)
  BY <1>1 DEF ReaderOK, NotReading, ViewOK, PagesOK, ResolvesOK, FoundOK
<1>3. ReaderGoes(i, y)
  BY DEF SearchAnswered
<1>4. ASSUME NEW d \in Documents
      PROVE  /\ d \in Wanted(i) => InScope(d, s.realms)
             /\ InScope(d, s.realms) => d \in Allowed(i)
  <2>1. ScopedTo(scopes[d], scoped[d])
    BY <1>1 DEF ScopesOK
  <2> QED BY <1>1, <1>2, <2>1, ScopeIsExact DEF Wanted, Allowed, InScope
<1>5. (matching \cap Wanted(i)) \ found = {}
  BY <1>4
<1>6. s.by # "anyone" => found \ Allowed(i) = {}
  BY <1>4
<1> HIDE DEF matching, found
<1>7. FoundOK(y)
  BY <1>5, <1>6 DEF FoundOK
<1> HIDE DEF y
<1> QED
  BY <1>3, <1>7, ReaderWent DEF ReaderGoes, ReaderOK

LEMMA AskedInv ==
    ASSUME QueriesInv, NEW i \in Readers,
           \/ \E view \in Views, windowed \in BOOLEAN : ViewAsked(i, view, windowed)
           \/ \E status, window : PagingBegins(i, [status |-> status, window |-> window])
           \/ \E asked \in Searches : SearchAsked(i, asked)
           \/ \E ref \in Refs, all \in BOOLEAN : SearchAskedByApi(i, {ref}, all)
    PROVE  QueriesInv'
<1>1. CASE \E view \in Views, windowed \in BOOLEAN : ViewAsked(i, view, windowed)
  <2>1. PICK view \in Views, windowed \in BOOLEAN : ViewAsked(i, view, windowed)
    BY <1>1
  <2> DEFINE y == [pc |-> "viewing", view |-> view, windowed |-> windowed, left |-> view,
                   counted |-> 0, shown |-> 0]
  <2>2. ViewOK(y, Made)
    BY DEF ViewOK
  <2>3. ReaderGoes(i, y)
    BY <2>1 DEF ViewAsked
  <2> HIDE DEF y
  <2> QED BY <2>2, <2>3, ReaderWent DEF ReaderGoes, ReaderOK
<1>2. CASE \E status, window : PagingBegins(i, [status |-> status, window |-> window])
  <2>1. PICK filter : PagingBegins(i, filter)
    BY <1>2
  <2> DEFINE y == [pc |-> "paging", filter |-> filter, offset |-> 0, seen |-> {}, shifted |-> FALSE,
                   there |-> {s \in Range(sessions) : Shows(filter, s)}]
  <2>2. ASSUME NEW s \in Range(sessions), Shows(filter, s)
        PROVE  \E k \in DOMAIN sessions :
                  /\ sessions[k] = s /\ Fits(filter, s, statuses[s])
                  /\ RankIn(filter, k, sessions, statuses) > 0
    <3>1. PICK k \in DOMAIN sessions : sessions[k] = s
      BY DEF Range
    <3>2. Fits(filter, s, statuses[s]) /\ k \in 1 .. k /\ k \in Nat
      BY <2>2 DEF Shows, QueriesInv, Recorded
    <3> DEFINE A == {t \in {sessions[l] : l \in 1 .. k} : Fits(filter, t, statuses[t])}
    <3>3. IsFiniteSet(A)
      <4>1. IsFiniteSet({sessions[l] : l \in 1 .. k})
        BY <3>2, FirstRowsFinite
      <4> QED BY <4>1, FS_Subset
    <3>4. s \in A
      BY <3>1, <3>2
    <3> HIDE DEF A
    <3>5. Cardinality(A) \in Nat /\ Cardinality(A) # 0
      BY <3>3, <3>4, FS_CardinalityType, FS_EmptySet
    <3>6. RankIn(filter, k, sessions, statuses) = Cardinality(A)
      BY DEF RankIn, A
    <3>7. RankIn(filter, k, sessions, statuses) > 0
      BY <3>5, <3>6
    <3> QED BY <3>1, <3>2, <3>7
  <2>3. PagesOK(y, sessions, statuses)
    BY <2>2 DEF PagesOK
  <2>4. ReaderGoes(i, y)
    BY <2>1 DEF PagingBegins
  <2> HIDE DEF y
  <2> QED BY <2>3, <2>4, ReaderWent DEF ReaderGoes, ReaderOK
<1>3. CASE \E asked \in Searches : SearchAsked(i, asked)
  <2>1. PICK asked \in Searches : SearchAsked(i, asked)
    BY <1>3
  <2> DEFINE y == [pc |-> "resolving", grants |-> asked.grants, explicit |-> asked.explicit,
                   research |-> Slugs(asked.research), current |-> Slugs(asked.present)]
  <2>2. asked.grants \subseteq Realms /\ asked.explicit \subseteq Refs /\ asked.research \subseteq Realms
          /\ asked.present \subseteq Realms
    BY InputsAssumption
  <2>3. Slugs(asked.research) \subseteq Slugs(Realms) /\ Slugs(asked.present) \subseteq Slugs(Realms)
    BY <2>2 DEF Slugs
  <2>4. Proper(asked.explicit)
    BY <2>2, RefsAssumption DEF Proper
  <2>5. ResolvesOK(y)
    BY <2>2, <2>3, <2>4 DEF ResolvesOK
  <2>6. ReaderGoes(i, y)
    BY <2>1 DEF SearchAsked
  <2> HIDE DEF y
  <2> QED BY <2>5, <2>6, ReaderWent DEF ReaderGoes, ReaderOK
<1>4. CASE \E ref \in Refs, all \in BOOLEAN : SearchAskedByApi(i, {ref}, all)
  <2>1. PICK ref \in Refs, all \in BOOLEAN : SearchAskedByApi(i, {ref}, all)
    BY <1>4
  <2> DEFINE y == [pc |-> "canonical", by |-> IF all THEN "anyone" ELSE "api",
                   may |-> {r.realm : r \in {ref}}, realms |-> {ref}]
  <2>2. Proper({ref})
    BY RefsAssumption DEF Proper
  <2>3. SearchOK(y)
    BY <2>2 DEF SearchOK
  <2>4. ReaderGoes(i, y)
    BY <2>1 DEF SearchAskedByApi
  <2> HIDE DEF y
  <2> QED BY <2>3, <2>4, ReaderWent DEF ReaderGoes, ReaderOK
<1> QED BY <1>1, <1>2, <1>3, <1>4

LEMMA ReadingInv ==
    ASSUME QueriesInv, NEW i \in Readers, Reading(i)
    PROVE  QueriesInv'
<1>1. CASE NotFound(i) \/ ReadEnds(i) \/ RecordKnowledgeGap(i)
  <2>1. reader' = [reader EXCEPT ![i] = NotReading]
          /\ UNCHANGED <<sessions, statuses, contributions, realms, scopes, scoped, setting>>
    BY <1>1 DEF NotFound, ReadEnds, RecordKnowledgeGap, ReaderGoes
  <2>2. ReaderOK(NotReading, sessions, statuses, Made)
    BY DEF ReaderOK
  <2> QED BY <2>1, <2>2, ReaderWent
<1> QED
  BY <1>1, AskedInv, StatementInv, PageInv, ResolvedInv, CanonicalisedInv, AnsweredInv DEF Reading

------------------------------------------------------------------------------

\* Inserting a session moves none towards the first page.
LEMMA InsertedBehind ==
    ASSUME NEW ss \in Seq(Sessions), NEW i \in 1 .. Len(ss) + 1, NEW s \in Sessions
    PROVE  /\ InsertAt(ss, i, s) \in Seq(Sessions)
           /\ Len(InsertAt(ss, i, s)) = Len(ss) + 1
           /\ \A k \in 1 .. i - 1 : InsertAt(ss, i, s)[k] = ss[k]
           /\ InsertAt(ss, i, s)[i] = s
           /\ \A k \in i .. Len(ss) : InsertAt(ss, i, s)[k + 1] = ss[k]
<1> DEFINE before == SubSeq(ss, 1, i - 1)
           after == SubSeq(ss, i, Len(ss))
           new == before \o <<s>> \o after
<1>1. before \in Seq(Sessions) /\ Len(before) = i - 1 /\ \A k \in 1 .. i - 1 : before[k] = ss[k]
  OBVIOUS
<1>2. after \in Seq(Sessions) /\ Len(after) = Len(ss) - i + 1
        /\ \A k \in 1 .. Len(ss) - i + 1 : after[k] = ss[k + i - 1]
  OBVIOUS
<1> HIDE DEF before, after
<1> DEFINE head == before \o <<s>>
<1>3. head \in Seq(Sessions) /\ Len(head) = i /\ head[i] = s
        /\ \A k \in 1 .. i - 1 : head[k] = ss[k]
  <2>1. <<s>> \in Seq(Sessions) /\ Len(<<s>>) = 1 /\ <<s>>[1] = s
    OBVIOUS
  <2> QED BY <1>1, <2>1, ConcatProperties
<1> HIDE DEF head
<1>4. new = head \o after
  BY DEF head
<1> HIDE DEF new
<1>5. /\ new \in Seq(Sessions) /\ Len(new) = Len(ss) + 1
      /\ \A k \in 1 .. Len(ss) + 1 : new[k] = IF k <= i THEN head[k] ELSE after[k - i]
  <2>1. /\ head \o after \in Seq(Sessions) /\ Len(head \o after) = Len(head) + Len(after)
        /\ \A k \in 1 .. Len(head) + Len(after) :
               (head \o after)[k] = IF k <= Len(head) THEN head[k] ELSE after[k - Len(head)]
    BY <1>2, <1>3, ConcatProperties
  <2>2. Len(head) = i /\ Len(head) + Len(after) = Len(ss) + 1
    BY <1>2, <1>3
  <2> QED BY <1>4, <2>1, <2>2
<1>6. \A k \in 1 .. i - 1 : new[k] = ss[k]
  BY <1>3, <1>5
<1>7. \A k \in i .. Len(ss) : new[k + 1] = ss[k]
  <2> SUFFICES ASSUME NEW k \in i .. Len(ss) PROVE new[k + 1] = ss[k]
    OBVIOUS
  <2>1. new[k + 1] = after[k + 1 - i]
    BY <1>5
  <2>2. k + 1 - i \in 1 .. Len(ss) - i + 1 /\ (k + 1 - i) + i - 1 = k
    OBVIOUS
  <2> QED BY <1>2, <2>1, <2>2
<1>8. new[i] = s
  BY <1>3, <1>5
<1>9. InsertAt(ss, i, s) = new
  BY DEF InsertAt, before, after, new
<1> QED BY <1>5, <1>6, <1>7, <1>8, <1>9

\* The rows that were there keep their order when one comes among them.
Among(ss, ts) ==
    \A k \in DOMAIN ss : \E l \in DOMAIN ts :
       ts[l] = ss[k] /\ \A j \in 1 .. k : \E m \in 1 .. l : ts[m] = ss[j]

LEMMA AddedAmong ==
    ASSUME Recorded, NEW s \in Sessions, s \notin Range(sessions), NEW i \in 1 .. Len(sessions) + 1,
           sessions' \in Seq(Sessions), Len(sessions') = Len(sessions) + 1,
           \A k \in 1 .. i - 1 : sessions'[k] = sessions[k],
           sessions'[i] = s,
           \A k \in i .. Len(sessions) : sessions'[k + 1] = sessions[k],
           NEW status, statuses' = [statuses EXCEPT ![s] = status]
    PROVE  /\ Recorded' /\ Among(sessions, sessions')
           /\ \A k \in DOMAIN sessions : statuses'[sessions[k]] = statuses[sessions[k]]
<1> DEFINE At(k) == IF k < i THEN k ELSE k + 1
           From(k) == IF k < i THEN k ELSE k - 1
<1>1. sessions \in Seq(Sessions) /\ statuses = [t \in Sessions |-> statuses[t]]
        /\ \A k, l \in DOMAIN sessions : sessions[k] = sessions[l] => k = l
  BY DEF Recorded
<1>2. \A k \in DOMAIN sessions : At(k) \in DOMAIN sessions' /\ sessions'[At(k)] = sessions[k]
  BY <1>1
<1>3. \A k \in DOMAIN sessions : \A j \in 1 .. k : j \in DOMAIN sessions /\ At(j) \in 1 .. At(k)
  BY <1>1
<1>4. Among(sessions, sessions')
  <2> SUFFICES ASSUME NEW k \in DOMAIN sessions
               PROVE  \E l \in DOMAIN sessions' :
                         sessions'[l] = sessions[k] /\ \A j \in 1 .. k : \E m \in 1 .. l : sessions'[m] = sessions[j]
    BY DEF Among
  <2> HIDE DEF At
  <2>1. \A j \in 1 .. k : At(j) \in 1 .. At(k) /\ sessions'[At(j)] = sessions[j]
    BY <1>2, <1>3
  <2> QED BY <1>2, <2>1
<1>5. \A k \in DOMAIN sessions : sessions[k] # s /\ sessions[k] \in Sessions
  BY <1>1 DEF Range
<1>6. \A k \in DOMAIN sessions' : k # i => From(k) \in DOMAIN sessions /\ sessions'[k] = sessions[From(k)]
  <2> SUFFICES ASSUME NEW k \in DOMAIN sessions', k # i
               PROVE  From(k) \in DOMAIN sessions /\ sessions'[k] = sessions[From(k)]
    OBVIOUS
  <2>1. k \in 1 .. Len(sessions) + 1 /\ Len(sessions) \in Nat /\ DOMAIN sessions = 1 .. Len(sessions)
    BY <1>1
  <2>2. CASE k < i
    <3>1. k \in 1 .. i - 1 /\ From(k) = k /\ k \in 1 .. Len(sessions)
      BY <2>1, <2>2
    <3> QED BY <2>1, <3>1
  <2>3. CASE k > i
    <3>1. k - 1 \in i .. Len(sessions) /\ From(k) = k - 1 /\ k - 1 \in 1 .. Len(sessions) /\ (k - 1) + 1 = k
      BY <2>1, <2>3
    <3>2. sessions'[(k - 1) + 1] = sessions[k - 1]
      BY <3>1
    <3> QED BY <2>1, <3>1, <3>2
  <2> QED BY <2>1, <2>2, <2>3
<1>7. ASSUME NEW k \in DOMAIN sessions', NEW l \in DOMAIN sessions', sessions'[k] = sessions'[l]
      PROVE  k = l
  <2>1. k = i <=> l = i
    BY <1>5, <1>6, <1>7
  <2>2. ASSUME k # i, l # i PROVE k = l
    <3>1. From(k) = From(l)
      BY <1>1, <1>6, <1>7, <2>2
    <3>2. k \in Nat /\ l \in Nat /\ i \in Nat
      BY <1>1
    <3> QED BY <2>2, <3>1, <3>2
  <2> QED BY <2>1, <2>2
<1>8. statuses' = [t \in Sessions |-> statuses'[t]]
        /\ \A t \in Sessions : t # s => statuses'[t] = statuses[t]
  BY <1>1
<1> QED BY <1>4, <1>5, <1>7, <1>8 DEF Recorded

\* Readers do not mind sessions that are added, nor contributions.
LEMMA ReaderStaysOK ==
    ASSUME NEW x, NEW ss, NEW ts, NEW st, NEW tt, NEW m \in Nat, NEW n \in Nat, m <= n,
           ReaderOK(x, ss, st, m), ss \in Seq(Sessions), ts \in Seq(Sessions), Among(ss, ts),
           \A k \in DOMAIN ss : tt[ss[k]] = st[ss[k]]
    PROVE  ReaderOK(x, ts, tt, n)
<1>1. ViewOK(x, m) => ViewOK(x, n)
  BY DEF ViewOK
<1>2. PagesOK(x, ss, st) => PagesOK(x, ts, tt)
  <2> SUFFICES ASSUME PagesOK(x, ss, st), x.pc = "paging", ~ x.shifted, NEW s \in x.there \ x.seen
               PROVE  \E l \in DOMAIN ts :
                         ts[l] = s /\ Fits(x.filter, s, tt[s]) /\ RankIn(x.filter, l, ts, tt) > x.offset
    BY DEF PagesOK
  <2>1. PICK k \in DOMAIN ss :
           ss[k] = s /\ Fits(x.filter, s, st[s]) /\ RankIn(x.filter, k, ss, st) > x.offset
    BY DEF PagesOK
  <2>2. PICK l \in DOMAIN ts : ts[l] = ss[k] /\ \A j \in 1 .. k : \E q \in 1 .. l : ts[q] = ss[j]
    BY <2>1 DEF Among
  <2>3. k \in Nat /\ l \in Nat /\ \A j \in 1 .. k : j \in DOMAIN ss
    BY <2>1, <2>2
  <2>4. \A j \in 1 .. k : Fits(x.filter, ss[j], st[ss[j]]) => Fits(x.filter, ss[j], tt[ss[j]])
    BY <2>3
  <2>5. /\ RankIn(x.filter, k, ss, st) \in Nat /\ RankIn(x.filter, l, ts, tt) \in Nat
        /\ RankIn(x.filter, k, ss, st) <= RankIn(x.filter, l, ts, tt)
    BY <2>2, <2>3, <2>4, RankGrows
  <2>6. x.offset \in Nat
    BY DEF PagesOK
  <2>7. RankIn(x.filter, l, ts, tt) > x.offset
    BY <2>1, <2>5, <2>6
  <2> QED BY <2>1, <2>2, <2>7
<1> QED BY <1>1, <1>2 DEF ReaderOK

LEMMA AddedInv ==
    ASSUME QueriesInv, Recorded', Counted', Made <= Made', Among(sessions, sessions'),
           \A k \in DOMAIN sessions : statuses'[sessions[k]] = statuses[sessions[k]],
           UNCHANGED <<realms, scopes, scoped, setting, reader>>
    PROVE  QueriesInv'
<1>1. Made \in Nat /\ Made' \in Nat /\ sessions \in Seq(Sessions) /\ sessions' \in Seq(Sessions)
  BY DEF QueriesInv, Counted, Made, Recorded
<1>2. \A i \in Readers : ReaderOK(reader[i], sessions', statuses', Made')
  BY <1>1, ReaderStaysOK DEF QueriesInv
<1>3. ScopesOK'
  BY DEF QueriesInv, ScopesOK, SettingOK
<1> QED BY <1>2, <1>3 DEF QueriesInv

LEMMA StaysAmong == ASSUME Recorded PROVE Among(sessions, sessions)
BY DEF Recorded, Among

\* Writes that concern scopes.
LEMMA ScopesInv ==
    ASSUME QueriesInv, ScopesOK', UNCHANGED <<sessions, statuses, contributions, reader>>
    PROVE  QueriesInv'
<1>1. Recorded' /\ Counted' /\ Made' = Made
  BY DEF QueriesInv, Recorded, Counted, Made
<1> QED BY <1>1 DEF QueriesInv

LEMMA SettingInv ==
    ASSUME QueriesInv,
           \/ \E d \in Documents, refs \in Scopings : SetItemScopesCalled(d, refs)
           \/ ScopesCanonicalised \/ ScopesReplaced \/ ScopesRefused
    PROVE  QueriesInv'
<1>1. ScopesOK /\ SettingOK
  BY DEF QueriesInv, ScopesOK
<1>2. CASE \E d \in Documents, refs \in Scopings : SetItemScopesCalled(d, refs)
  <2>1. PICK d \in Documents, refs \in Scopings : SetItemScopesCalled(d, refs)
    BY <1>2
  <2>2. Proper(refs)
    BY InputsAssumption, RefsAssumption DEF Proper
  <2>3. setting' = [pc |-> "asserted", document |-> d, refs |-> refs]
    BY <2>1 DEF SetItemScopesCalled
  <2>4. SettingOK'
    BY <2>2, <2>3 DEF SettingOK
  <2>5. UNCHANGED <<sessions, statuses, contributions, realms, scopes, scoped, reader>>
    BY <2>1 DEF SetItemScopesCalled
  <2> QED BY <1>1, <2>4, <2>5, ScopesInv DEF ScopesOK
<1>3. CASE ScopesCanonicalised
  <2>1. setting' = [setting EXCEPT !.pc = "canonical", !.refs = Canonicalise(@)]
    BY <1>3 DEF ScopesCanonicalised
  <2>2. setting' = [pc |-> "canonical", document |-> setting.document, refs |-> Canonicalise(setting.refs)]
    BY <1>1, <2>1 DEF SettingOK
  <2>3. Proper(setting.refs)
    BY <1>1 DEF SettingOK
  <2> DEFINE refs == Canonicalise(setting.refs)
  <2>4. Proper(refs) /\ Canonical(refs)
    BY <1>1, <2>3, CanonicalRefs
  <2> HIDE DEF refs
  <2>5. SettingOK'
    BY <2>2, <2>4 DEF SettingOK, refs
  <2>6. UNCHANGED <<sessions, statuses, contributions, realms, scopes, scoped, reader>>
    BY <1>3 DEF ScopesCanonicalised
  <2> QED BY <1>1, <2>5, <2>6, ScopesInv DEF ScopesOK
<1>4. NotSetting = [pc |-> NotSetting.pc, document |-> NotSetting.document, refs |-> NotSetting.refs]
         /\ Proper(NotSetting.refs) /\ NotSetting.pc = "off"
  BY DEF NotSetting, Proper
<1>5. CASE ScopesReplaced
  <2> DEFINE given == IF setting.refs = {} THEN {Everywhere} ELSE setting.refs
             rs == IF setting.refs = {} THEN {Global} ELSE {ref.realm : ref \in setting.refs}
  <2>1. /\ scopes' = [scopes EXCEPT ![setting.document] = given]
        /\ scoped' = [scoped EXCEPT ![setting.document] = rs]
        /\ setting' = NotSetting /\ UNCHANGED <<sessions, statuses, contributions, realms, reader>>
    BY <1>5 DEF ScopesReplaced
  <2>2. Proper(setting.refs) /\ Canonical(setting.refs)
    BY <1>1, <1>5 DEF SettingOK, ScopesReplaced
  <2>3. ScopedTo(given, rs)
    BY <2>2 DEF ScopedTo
  <2> HIDE DEF given, rs
  <2>4. ASSUME NEW d \in Documents
        PROVE  ScopedTo(scopes'[d], scoped'[d])
    <3>1. ScopedTo(scopes[d], scoped[d])
      BY <1>1 DEF ScopesOK
    <3>2. CASE d = setting.document
      <4>1. scopes'[d] = given /\ scoped'[d] = rs
        BY <1>1, <2>1, <3>2 DEF ScopesOK
      <4> QED BY <2>3, <4>1
    <3>3. CASE d # setting.document
      <4>1. scopes'[d] = scopes[d] /\ scoped'[d] = scoped[d]
        BY <1>1, <2>1, <3>3 DEF ScopesOK
      <4> QED BY <3>1, <4>1
    <3> QED BY <3>2, <3>3
  <2>5. scopes' = [d \in Documents |-> scopes'[d]] /\ scoped' = [d \in Documents |-> scoped'[d]]
    BY <1>1, <2>1 DEF ScopesOK
  <2>6. SettingOK'
    BY <1>4, <2>1 DEF SettingOK
  <2> QED BY <1>1, <2>1, <2>4, <2>5, <2>6, ScopesInv DEF ScopesOK
<1>6. CASE ScopesRefused
  <2>1. SettingOK'
    BY <1>4, <1>6 DEF SettingOK, ScopesRefused
  <2> QED BY <1>1, <1>6, <2>1, ScopesInv DEF ScopesOK, ScopesRefused
<1> QED BY <1>2, <1>3, <1>5, <1>6

\* A row that stops matching takes its place away, and the reader knows of it;
\* one that begins to, or goes on, moves none towards the first page.
LEMMA UpdatedInv ==
    ASSUME QueriesInv, NEW s \in Sessions, NEW status \in Statuses, Updated(s, status),
           statuses' = [statuses EXCEPT ![s] = status],
           UNCHANGED <<contributions, realms, scopes, scoped, setting>>
    PROVE  QueriesInv'
<1>1. Recorded /\ Counted /\ ScopesOK /\ reader = [i \in Readers |-> reader[i]]
  BY DEF QueriesInv
<1>2. PICK k \in DOMAIN sessions :
         /\ sessions[k] = s
         /\ reader' = [i \in Readers |->
               IF /\ reader[i].pc = "paging"
                  /\ Shows(reader[i].filter, s) /\ ~ Fits(reader[i].filter, s, status)
               THEN Loses(reader[i], k) ELSE reader[i]]
  BY DEF Updated
<1>3. sessions' = sessions /\ sessions \in Seq(Sessions)
        /\ \A l, m \in DOMAIN sessions : sessions[l] = sessions[m] => l = m
  BY <1>1 DEF Updated, Recorded
<1>4. statuses' = [t \in Sessions |-> statuses'[t]] /\ statuses'[s] = status
        /\ \A t \in Sessions : t # s => statuses'[t] = statuses[t]
  BY <1>1 DEF Recorded
<1>5. Recorded' /\ Counted' /\ ScopesOK' /\ Made' = Made
  BY <1>1, <1>3, <1>4 DEF Recorded, Counted, ScopesOK, SettingOK, Made
<1>6. ASSUME NEW i \in Readers
      PROVE  ReaderOK(reader'[i], sessions, statuses', Made)
  <2> DEFINE x == reader[i]
             y == reader'[i]
             lost == x.pc = "paging" /\ Shows(x.filter, s) /\ ~ Fits(x.filter, s, status)
  <2>1. ReaderOK(x, sessions, statuses, Made)
    BY DEF QueriesInv
  <2>2. y = IF lost THEN Loses(x, k) ELSE x
    BY <1>2
  <2>3. CASE x.pc # "paging"
    <3>1. y = x
      BY <2>2, <2>3
    <3> HIDE DEF x, y
    <3>2. PagesOK(x, sessions, statuses) => PagesOK(x, sessions, statuses')
      BY <2>3 DEF PagesOK
    <3> QED BY <2>1, <3>1, <3>2 DEF ReaderOK, y
  <2>4. CASE x.pc = "paging"
    <3>1. PagesOK(x, sessions, statuses)
      BY <2>1, <2>4 DEF ReaderOK, NotReading, ViewOK, ResolvesOK, SearchOK, FoundOK
    <3>2. \A l \in DOMAIN sessions : l \in Nat /\ \A j \in 1 .. l : j \in DOMAIN sessions /\ sessions[j] \in Sessions
      BY <1>3
    <3>3. CASE ~ lost
      <4>1. y = x
        BY <2>2, <3>3
      <4>2. \A j \in DOMAIN sessions :
               Fits(x.filter, sessions[j], statuses[sessions[j]]) => Fits(x.filter, sessions[j], statuses'[sessions[j]])
        BY <1>3, <1>4, <2>4, <3>3 DEF Shows
      <4> HIDE DEF x, y
      <4>3. ASSUME NEW l \in DOMAIN sessions
            PROVE  /\ RankIn(x.filter, l, sessions, statuses) \in Nat
                   /\ RankIn(x.filter, l, sessions, statuses') \in Nat
                   /\ RankIn(x.filter, l, sessions, statuses) <= RankIn(x.filter, l, sessions, statuses')
        <5>1. \A j \in 1 .. l : Fits(x.filter, sessions[j], statuses[sessions[j]])
                                   => Fits(x.filter, sessions[j], statuses'[sessions[j]])
          BY <3>2, <4>2
        <5> QED BY <3>2, <5>1, RankGrows
      <4>4. x.pc = "paging" /\ ~ x.shifted =>
               \A t \in x.there \ x.seen : \E l \in DOMAIN sessions :
                  /\ sessions[l] = t /\ Fits(x.filter, t, statuses'[t])
                  /\ RankIn(x.filter, l, sessions, statuses') > x.offset
        <5> SUFFICES ASSUME x.pc = "paging", ~ x.shifted, NEW t \in x.there \ x.seen
                     PROVE  \E l \in DOMAIN sessions :
                               /\ sessions[l] = t /\ Fits(x.filter, t, statuses'[t])
                               /\ RankIn(x.filter, l, sessions, statuses') > x.offset
          OBVIOUS
        <5>1. PICK l \in DOMAIN sessions :
                 sessions[l] = t /\ Fits(x.filter, t, statuses[t])
                   /\ RankIn(x.filter, l, sessions, statuses) > x.offset
          BY <3>1 DEF PagesOK
        <5>2. x.offset \in Nat
          BY <3>1 DEF PagesOK
        <5>3. RankIn(x.filter, l, sessions, statuses') > x.offset
          <6> DEFINE before == RankIn(x.filter, l, sessions, statuses)
                     after == RankIn(x.filter, l, sessions, statuses')
          <6>1. before \in Nat /\ after \in Nat /\ before <= after
            BY <4>3
          <6>2. before > x.offset
            BY <5>1
          <6> HIDE DEF before, after
          <6>3. after > x.offset
            BY <5>2, <6>1, <6>2
          <6> QED BY <6>3 DEF after
        <5>4. Fits(x.filter, t, statuses'[t])
          BY <4>2, <5>1
        <5> QED BY <5>1, <5>3, <5>4
      <4>5. PagesOK(x, sessions, statuses')
        BY <3>1, <4>4 DEF PagesOK
      <4> QED BY <4>1, <4>5 DEF ReaderOK, y
    <3>4. CASE lost
      <4> DEFINE before == Rank(x.filter, k) <= x.offset
                 there == x.there \ {s}
                 shifted == x.shifted \/ before
      <4>1. y = [x EXCEPT !.there = there, !.shifted = shifted]
        BY <1>2, <2>2, <3>4 DEF Loses
      <4>2. x = [pc |-> x.pc, filter |-> x.filter, offset |-> x.offset, seen |-> x.seen,
                 shifted |-> x.shifted, there |-> x.there]
              /\ x.offset \in Nat /\ x.shifted \in BOOLEAN
        BY <3>1 DEF PagesOK
      <4>3. shifted \in BOOLEAN
        OBVIOUS
      <4> HIDE DEF shifted, there, y
      <4>4. y = [pc |-> x.pc, filter |-> x.filter, offset |-> x.offset, seen |-> x.seen,
                 shifted |-> shifted, there |-> there]
        BY <4>1, <4>2, <4>3, PagesLose
      <4>5. ASSUME ~ shifted, NEW t \in there \ x.seen
            PROVE  \E l \in DOMAIN sessions :
                      /\ sessions[l] = t /\ Fits(x.filter, t, statuses'[t])
                      /\ RankIn(x.filter, l, sessions, statuses') > x.offset
        <5>1. ~ x.shifted /\ ~ before /\ t # s /\ t \in x.there \ x.seen
          BY <4>5 DEF shifted, there
        <5>2. PICK l \in DOMAIN sessions :
                 sessions[l] = t /\ Fits(x.filter, t, statuses[t])
                   /\ RankIn(x.filter, l, sessions, statuses) > x.offset
          BY <3>1, <2>4, <5>1 DEF PagesOK
        <5>3. Fits(x.filter, t, statuses'[t])
          BY <1>3, <1>4, <5>1, <5>2
        <5>4. RankIn(x.filter, l, sessions, statuses') > x.offset
          BY <1>1, <1>2, <1>3, <1>4, <3>2, <4>2, <5>1, <5>2, RankLost DEF before
        <5> QED BY <5>2, <5>3, <5>4
      <4> HIDE DEF x
      <4>6. PagesOK(y, sessions, statuses')
        BY <2>4, <4>2, <4>3, <4>4, <4>5 DEF PagesOK
      <4> QED BY <4>6 DEF ReaderOK, y
    <3> QED BY <3>3, <3>4
  <2> QED BY <2>3, <2>4
<1>7. reader' = [i \in Readers |-> reader'[i]]
  BY <1>2
<1> QED BY <1>3, <1>5, <1>6, <1>7 DEF QueriesInv

LEMMA WritingInv ==
    ASSUME QueriesInv, Writing
    PROVE  QueriesInv'
<1>1. Recorded /\ Counted /\ ScopesOK
  BY DEF QueriesInv
<1>2. ASSUME NEW s \in Sessions, EnsureSessionRecord(s) PROVE QueriesInv'
  <2>1. s \notin Range(sessions) /\ sessions' = <<s>> \o sessions /\ sessions \in Seq(Sessions)
          /\ statuses' = [statuses EXCEPT ![s] = "in_progress"]
          /\ UNCHANGED <<contributions, realms, scopes, scoped, setting, reader>>
    BY <1>1, <1>2 DEF EnsureSessionRecord, Recorded
  <2>2. sessions' \in Seq(Sessions) /\ Len(sessions') = Len(sessions) + 1 /\ sessions'[1] = s
          /\ \A k \in 1 .. Len(sessions) : sessions'[k + 1] = sessions[k]
    BY <2>1
  <2>3. 1 \in 1 .. Len(sessions) + 1 /\ 1 .. 1 - 1 = {}
    BY <2>1
  <2>4. /\ Recorded' /\ Among(sessions, sessions')
        /\ \A k \in DOMAIN sessions : statuses'[sessions[k]] = statuses[sessions[k]]
    BY <1>1, <2>1, <2>2, <2>3, AddedAmong
  <2>5. Counted' /\ Made <= Made'
    BY <1>1, <2>1 DEF Counted, Made
  <2> QED BY <2>1, <2>4, <2>5, AddedInv
<1>3. Among(sessions, sessions)
  BY <1>1, StaysAmong
<1>4. ASSUME NEW s \in Sessions, PersistSession(s) PROVE QueriesInv'
  <2>1. PICK status \in Statuses :
           statuses' = [statuses EXCEPT ![s] = status] /\ (Updated(s, status) \/ Inserted(s))
    BY <1>4 DEF PersistSession
  <2>2. UNCHANGED <<contributions, realms, scopes, scoped, setting>>
    BY <1>4 DEF PersistSession
  <2>3. CASE Updated(s, status)
    BY <2>1, <2>2, <2>3, UpdatedInv
  <2>4. CASE Inserted(s)
    <3>1. s \notin Range(sessions) /\ sessions \in Seq(Sessions) /\ UNCHANGED reader
      BY <1>1, <2>4 DEF Inserted, Recorded
    <3>2. PICK i \in 1 .. Len(sessions) + 1 : sessions' = InsertAt(sessions, i, s)
      BY <2>4 DEF Inserted
    <3>3. /\ sessions' \in Seq(Sessions) /\ Len(sessions') = Len(sessions) + 1
          /\ \A k \in 1 .. i - 1 : sessions'[k] = sessions[k]
          /\ sessions'[i] = s
          /\ \A k \in i .. Len(sessions) : sessions'[k + 1] = sessions[k]
      BY <3>1, <3>2, InsertedBehind
    <3>4. /\ Recorded' /\ Among(sessions, sessions')
          /\ \A k \in DOMAIN sessions : statuses'[sessions[k]] = statuses[sessions[k]]
      BY <1>1, <2>1, <3>1, <3>3, AddedAmong
    <3>5. Counted' /\ Made <= Made'
      BY <1>1, <2>2 DEF Counted, Made
    <3> QED BY <2>2, <3>1, <3>4, <3>5, AddedInv
  <2> QED BY <2>1, <2>3, <2>4
<1>5. CASE ContributionRecorded
  <2>1. UNCHANGED <<sessions, statuses, realms, scopes, scoped, setting, reader>> /\ Counted' /\ Made <= Made'
    <3>1. contributions \in [{"inside", "outside"} -> Nat]
      BY <1>1 DEF Counted
    <3> QED BY <1>5, <3>1 DEF ContributionRecorded, Counted, Made
  <2> QED BY <1>1, <1>3, <2>1, AddedInv DEF Recorded
<1>6. ASSUME NEW r \in Realms, RealmChanges(r) PROVE QueriesInv'
  <2>1. UNCHANGED <<sessions, statuses, contributions, scopes, scoped, setting, reader>>
    BY <1>6 DEF RealmChanges
  <2>2. realms' \in [Realms -> 0 .. 2] /\ \A q \in Realms : q # r => realms'[q] = realms[q]
    BY <1>1, <1>6 DEF RealmChanges, ScopesOK
  <2>3. \A q \in Steady : realms'[q] = 1
    BY <1>1, <1>6, <2>2, SteadyAssumption DEF RealmChanges, ScopesOK
  <2> QED BY <1>1, <2>1, <2>2, <2>3, ScopesInv DEF ScopesOK, SettingOK
<1>7. ASSUME NEW g \in gaps, NEW status, ResolveKnowledgeGap(g, status) PROVE QueriesInv'
  <2>1. UNCHANGED <<sessions, statuses, contributions, realms, scopes, scoped, setting, reader>>
    BY <1>7 DEF ResolveKnowledgeGap
  <2>2. Recorded' /\ Counted' /\ Made' = Made /\ Made \in Nat
    BY <1>1, <2>1 DEF Recorded, Counted, Made
  <2> QED BY <1>1, <1>3, <2>1, <2>2, AddedInv
<1> QED
  BY <1>2, <1>4, <1>5, <1>6, <1>7, SettingInv DEF Writing

LEMMA QueriesStart == WorldTreeInit => QueriesInv
<1> SUFFICES ASSUME WorldTreeInit PROVE QueriesInv
  OBVIOUS
<1>1. Recorded /\ Counted
  BY DEF WorldTreeInit, Recorded, Counted
<1>2. ScopesOK
  <2>1. SettingOK
    BY DEF WorldTreeInit, SettingOK, NotSetting, Proper
  <2>2. realms \in [Realms -> 0 .. 2] /\ \A r \in Steady : realms[r] = 1
    BY SteadyAssumption DEF WorldTreeInit
  <2>3. \A d \in Documents : ScopedTo(scopes[d], scoped[d])
    BY DEF WorldTreeInit, ScopedTo
  <2> QED BY <2>1, <2>2, <2>3 DEF WorldTreeInit, ScopesOK
<1> QED
  BY <1>1, <1>2 DEF WorldTreeInit, QueriesInv, ReaderOK

LEMMA QueriesStep == QueriesInv /\ [WorldTreeNext]_wtvars => QueriesInv'
<1> SUFFICES ASSUME QueriesInv, [WorldTreeNext]_wtvars PROVE QueriesInv'
  OBVIOUS
<1>1. CASE UNCHANGED wtvars
  BY <1>1 DEF wtvars, QueriesInv, ScopesOK, SettingOK, Recorded, Counted, Made
<1> QED
  BY <1>1, WritingInv, ReadingInv DEF WorldTreeNext

LEMMA QueriesAlways == WorldTreeSpec => []QueriesInv
BY QueriesStart, QueriesStep, PTL DEF WorldTreeSpec

\* No session that matched throughout is skipped between two pages, however
\* many are added or begin to match meanwhile, unless one before the reader's
\* place stopped matching; and the timeline of an agent's activity is full or
\* shows what its summary counts; for any page size and number of readers.
THEOREM PagesMissNothing == WorldTreeSpec => []ReadsMissNothing
<1>1. QueriesInv => ReadsMissNothing
  <2> SUFFICES ASSUME QueriesInv, NEW i \in Readers
               PROVE  /\ reader[i].pc = "paged" /\ ~ reader[i].shifted =>
                            reader[i].there \subseteq reader[i].seen
                      /\ reader[i].pc = "viewed" /\ reader[i].view = AgentActivity /\ ~ reader[i].windowed =>
                            reader[i].counted <= reader[i].shown \/ reader[i].shown = TimelineLimit
    BY DEF ReadsMissNothing
  <2>1. ReaderOK(reader[i], sessions, statuses, Made)
    BY DEF QueriesInv
  <2> QED BY <2>1 DEF ReaderOK, NotReading, ViewOK, PagesOK, ResolvesOK, SearchOK, FoundOK
<1> QED
  BY <1>1, QueriesAlways, PTL

\* A search finds all that is scoped to the realms it is for and nothing of
\* others, for any realms, grants and scopings, while realms come and go.
THEOREM SearchesFindTheirScope == WorldTreeSpec => []FindsItsScope
<1>1. QueriesInv => FindsItsScope
  <2> SUFFICES ASSUME QueriesInv, NEW i \in Readers, reader[i].pc \in {"found", "missed"}
               PROVE  reader[i].lost = {} /\ reader[i].leaked = {}
    BY DEF FindsItsScope
  <2>1. ReaderOK(reader[i], sessions, statuses, Made)
    BY DEF QueriesInv
  <2> QED BY <2>1 DEF ReaderOK, NotReading, ViewOK, PagesOK, ResolvesOK, SearchOK, FoundOK
<1> QED
  BY <1>1, QueriesAlways, PTL
==============================================================================
