--------------------------- MODULE Clients_proofs ---------------------------
(***************************************************************************)
(* Proofs about the two programs that work through a list of steps for     *)
(* somebody else: the executions of a scenario's phases and the tools of   *)
(* the MCP server.                                                         *)
(*                                                                         *)
(* An execution's results follow its plan because of ExecInv: the results  *)
(* are those of the phases before the current one, in order and each       *)
(* answered for as the plan asks, and then those of the current phase so   *)
(* far.  A tool's answer is whole because of McpInv: what the application  *)
(* did for a call and what the rest of its program does are together what  *)
(* the tool promises.                                                      *)
(***************************************************************************)
EXTENDS Executions, McpServer, FiniteSetTheorems, SequenceTheorems, WellFoundedInduction, TLAPS

------------------------------------------------------------------------------
(***************************************************************************)
(* Results, phase by phase                                                 *)
(***************************************************************************)

PhaseType == [tasks : Nat, parallel : BOOLEAN, continueOnFailure : BOOLEAN]
Outcomes == {"completed", "failed"}
ResultType == [phase : Nat, task : Nat, status : Outcomes]

OfPhase(results, p) == {i \in DOMAIN results : results[i].phase = p}
Ordered(results) == \A i, j \in DOMAIN results : i < j => Before(results[i], results[j])

\* The results answer for phase p of a body.
PhaseDone(phases, results, p) ==
    Cardinality(OfPhase(results, p)) = AnsweredTasks(phases[p], p, results)

\* Results of one phase added to results: those of the other phases are those
\* there were, those of this one are as many more.
LEMMA ResultsAdded ==
    ASSUME NEW old \in Seq(ResultType), NEW new \in Seq(ResultType), NEW q \in Nat,
           \A i \in DOMAIN new : new[i].phase = q
    PROVE  /\ old \o new \in Seq(ResultType)
           /\ \A p \in Nat \ {q} : OfPhase(old \o new, p) = OfPhase(old, p)
           /\ OfPhase(old \o new, q) = OfPhase(old, q) \union (Len(old) + 1 .. Len(old) + Len(new))
           /\ Cardinality(OfPhase(old \o new, q)) = Cardinality(OfPhase(old, q)) + Len(new)
           /\ Range(old \o new) = Range(old) \union Range(new)
<1> DEFINE all == old \o new
           n == Len(old)
           m == Len(new)
<1>1. /\ all \in Seq(ResultType) /\ Len(all) = n + m /\ n \in Nat /\ m \in Nat
      /\ DOMAIN all = 1 .. n + m /\ DOMAIN old = 1 .. n /\ DOMAIN new = 1 .. m
      /\ \A i \in 1 .. n + m : all[i] = IF i <= n THEN old[i] ELSE new[i - n]
  BY ConcatProperties, LenProperties
<1> HIDE DEF all
<1>2. ASSUME NEW p \in Nat \ {q} PROVE OfPhase(all, p) = OfPhase(old, p)
  <2>1. ASSUME NEW i \in 1 .. n + m, i > n PROVE all[i].phase = q
    <3>1. i - n \in 1 .. m
      BY <1>1, <2>1
    <3>2. i - n \in DOMAIN new
      BY <1>1, <3>1
    <3>3. new[i - n].phase = q
      BY <3>2
    <3>4. all[i] = new[i - n]
      BY <1>1, <2>1
    <3> QED BY <3>3, <3>4
  <2>2. \A i \in 1 .. n : all[i] = old[i] /\ i \in 1 .. n + m
    BY <1>1
  <2>3. \A i \in OfPhase(all, p) : i \in OfPhase(old, p)
    BY <1>1, <2>1, <2>2 DEF OfPhase
  <2>4. \A i \in OfPhase(old, p) : i \in OfPhase(all, p)
    BY <1>1, <2>2 DEF OfPhase
  <2> QED BY <2>3, <2>4
<1>3. OfPhase(all, q) = OfPhase(old, q) \union (n + 1 .. n + m)
  <2>1. ASSUME NEW i \in n + 1 .. n + m PROVE i \in 1 .. n + m /\ all[i].phase = q
    <3>1. i - n \in 1 .. m /\ i \in 1 .. n + m /\ ~(i <= n)
      BY <1>1
    <3> QED BY <1>1, <3>1
  <2>2. \A i \in 1 .. n : all[i] = old[i] /\ i \in 1 .. n + m
    BY <1>1
  <2>3. ASSUME NEW i \in OfPhase(all, q), i \notin n + 1 .. n + m PROVE i \in OfPhase(old, q)
    <3>1. i \in 1 .. n /\ all[i].phase = q
      BY <1>1, <2>3 DEF OfPhase
    <3> QED BY <1>1, <2>2, <3>1 DEF OfPhase
  <2>4. ASSUME NEW i \in OfPhase(old, q) PROVE i \in OfPhase(all, q)
    BY <1>1, <2>2, <2>4 DEF OfPhase
  <2>5. ASSUME NEW i \in n + 1 .. n + m PROVE i \in OfPhase(all, q)
    BY <1>1, <2>1, <2>5 DEF OfPhase
  <2> QED BY <2>3, <2>4, <2>5
<1>4. Cardinality(OfPhase(all, q)) = Cardinality(OfPhase(old, q)) + m
  <2>1. OfPhase(old, q) \in SUBSET (1 .. n)
    BY <1>1 DEF OfPhase
  <2>2. IsFiniteSet(1 .. n) /\ IsFiniteSet(n + 1 .. n + m) /\ Cardinality(n + 1 .. n + m) = m
    <3> DEFINE a == n + 1
               b == n + m
    <3>1. a \in Int /\ b \in Int /\ 1 \in Int /\ n \in Int
      BY <1>1
    <3>2. IsFiniteSet(1 .. n)
      BY <3>1, FS_Interval
    <3>3. (IF a > b THEN 0 ELSE b - a + 1) = m
      BY <1>1
    <3> HIDE DEF a, b
    <3>4. IsFiniteSet(a .. b) /\ Cardinality(a .. b) = IF a > b THEN 0 ELSE b - a + 1
      BY <3>1, FS_Interval
    <3> QED BY <3>2, <3>3, <3>4 DEF a, b
  <2>3. IsFiniteSet(OfPhase(old, q))
    BY <2>1, <2>2, FS_Subset
  <2>4. OfPhase(old, q) \cap (n + 1 .. n + m) = {}
    BY <1>1, <2>1
  <2>5. Cardinality(OfPhase(old, q)) \in Nat /\ Cardinality({}) = 0
    BY <2>3, FS_CardinalityType, FS_EmptySet
  <2>6. Cardinality(OfPhase(old, q) \union (n + 1 .. n + m)) =
          Cardinality(OfPhase(old, q)) + Cardinality(n + 1 .. n + m)
            - Cardinality(OfPhase(old, q) \cap (n + 1 .. n + m))
    BY <2>2, <2>3, FS_Union
  <2>7. Cardinality(OfPhase(old, q) \cap (n + 1 .. n + m)) = 0
    BY <2>4, <2>5
  <2>8. Cardinality(OfPhase(all, q)) = Cardinality(OfPhase(old, q)) + m - 0
    BY <1>3, <2>2, <2>6, <2>7
  <2> QED BY <1>1, <2>5, <2>8
<1>5. Range(all) = Range(old) \union Range(new)
  <2>1. \A i \in 1 .. n : all[i] = old[i] /\ i \in 1 .. n + m
    BY <1>1
  <2>2. \A i \in 1 .. m : all[i + n] = new[i] /\ i + n \in 1 .. n + m
    BY <1>1
  <2>3. ASSUME NEW r \in Range(all) PROVE r \in Range(old) \union Range(new)
    <3>1. PICK i \in 1 .. n + m : r = all[i]
      BY <1>1, <2>3 DEF Range
    <3>2. CASE i <= n
      BY <1>1, <3>1, <3>2 DEF Range
    <3>3. CASE i > n
      <4>1. i - n \in 1 .. m
        BY <1>1, <3>3
      <4>2. r = new[i - n]
        BY <1>1, <3>1, <3>3
      <4> QED BY <1>1, <4>1, <4>2 DEF Range
    <3> QED BY <1>1, <3>2, <3>3
  <2>4. ASSUME NEW r \in Range(old) \union Range(new) PROVE r \in Range(all)
    <3>1. CASE r \in Range(old)
      <4>1. PICK i \in 1 .. n : r = old[i]
        BY <1>1, <3>1 DEF Range
      <4> QED BY <1>1, <2>1, <4>1 DEF Range
    <3>2. CASE r \in Range(new)
      <4>1. PICK i \in 1 .. m : r = new[i]
        BY <1>1, <3>2 DEF Range
      <4>2. r = all[i + n] /\ i + n \in DOMAIN all
        BY <1>1, <2>2, <4>1
      <4> QED BY <4>2 DEF Range
    <3> QED BY <3>1, <3>2
  <2> QED BY <2>3, <2>4
<1> QED BY <1>1, <1>2, <1>3, <1>4, <1>5 DEF all

\* A phase before the one results are added to stays done.
LEMMA DoneStays ==
    ASSUME NEW phases, NEW old \in Seq(ResultType), NEW new \in Seq(ResultType), NEW q \in Nat,
           \A i \in DOMAIN new : new[i].phase = q,
           NEW p \in Nat \ {q}, PhaseDone(phases, old, p)
    PROVE  PhaseDone(phases, old \o new, p)
<1>1. OfPhase(old \o new, p) = OfPhase(old, p)
  BY SMTT(30), ResultsAdded
<1>a. Range(old \o new) = Range(old) \union Range(new)
  BY ResultsAdded
<1>2. \A t : [phase |-> p, task |-> t, status |-> "failed"] \notin Range(new)
  <2> SUFFICES ASSUME NEW t, NEW i \in DOMAIN new,
                      new[i] = [phase |-> p, task |-> t, status |-> "failed"]
               PROVE  FALSE
    BY DEF Range
  <2> QED OBVIOUS
<1>3. AnsweredTasks(phases[p], p, old \o new) = AnsweredTasks(phases[p], p, old)
  <2>1. \A t : [phase |-> p, task |-> t, status |-> "failed"] \in Range(old \o new)
                 <=> [phase |-> p, task |-> t, status |-> "failed"] \in Range(old)
    BY <1>a, <1>2
  <2>2. {t \in 1 .. phases[p].tasks : [phase |-> p, task |-> t, status |-> "failed"] \in Range(old \o new)}
          = {t \in 1 .. phases[p].tasks : [phase |-> p, task |-> t, status |-> "failed"] \in Range(old)}
    BY <2>1
  <2> DEFINE Failed(res) ==
        {t \in 1 .. phases[p].tasks : [phase |-> p, task |-> t, status |-> "failed"] \in Range(res)}
  <2>3. ASSUME NEW res
        PROVE  AnsweredTasks(phases[p], p, res) =
                 IF phases[p].parallel \/ phases[p].continueOnFailure \/ Failed(res) = {}
                 THEN phases[p].tasks
                 ELSE CHOOSE t \in Failed(res) : \A u \in Failed(res) : t <= u
    BY DEF AnsweredTasks
  <2>4. Failed(old \o new) = Failed(old)
    BY <2>2
  <2> HIDE DEF Failed
  <2> QED BY <2>3, <2>4
<1> QED BY <1>1, <1>3 DEF PhaseDone

\* Results in order stay so when later ones, in order, are added.
LEMMA OrderedAdded ==
    ASSUME NEW old \in Seq(ResultType), NEW new \in Seq(ResultType), Ordered(old), Ordered(new),
           \A i \in DOMAIN old, j \in DOMAIN new : Before(old[i], new[j])
    PROVE  Ordered(old \o new)
<1> DEFINE all == old \o new
           n == Len(old)
           m == Len(new)
<1>1. /\ n \in Nat /\ m \in Nat
      /\ DOMAIN all = 1 .. n + m /\ DOMAIN old = 1 .. n /\ DOMAIN new = 1 .. m
      /\ \A i \in 1 .. n + m : all[i] = IF i <= n THEN old[i] ELSE new[i - n]
  BY ConcatProperties, LenProperties
<1> HIDE DEF all
<1>2. ASSUME NEW i \in 1 .. n + m, NEW j \in 1 .. n + m, i < j PROVE Before(all[i], all[j])
  <2>1. CASE j <= n
    BY <1>1, <1>2, <2>1 DEF Ordered
  <2>2. CASE i <= n /\ j > n
    <3>1. j - n \in 1 .. m /\ i \in 1 .. n
      BY <1>1, <2>2
    <3> QED BY <1>1, <2>2, <3>1
  <2>3. CASE i > n
    <3>1. i - n \in 1 .. m /\ j - n \in 1 .. m /\ i - n < j - n /\ ~(i <= n) /\ ~(j <= n)
      BY <1>1, <1>2, <2>3
    <3> QED BY <1>1, <3>1 DEF Ordered
  <2> QED BY <1>1, <2>1, <2>2, <2>3
<1> QED BY <1>1, <1>2 DEF Ordered, all

\* NextPhase finds the first phase with tasks, or none.
LEMMA NextPhaseFacts ==
    ASSUME NEW x, NEW p \in Nat, x.body.phases \in Seq(PhaseType),
           1 <= p, p <= Len(x.body.phases) + 1
    PROVE  /\ NextPhase(x, p) \in p .. Len(x.body.phases) + 1
           /\ \A r \in p .. NextPhase(x, p) - 1 : x.body.phases[r].tasks = 0
           /\ NextPhase(x, p) <= Len(x.body.phases) => x.body.phases[NextPhase(x, p)].tasks > 0
<1> DEFINE phases == x.body.phases
           n == Len(phases)
           S == {q \in p .. n : phases[q].tasks > 0}
<1>1. n \in Nat /\ \A r \in 1 .. n : phases[r] \in PhaseType
  BY LenProperties
<1>2. NextPhase(x, p) = IF S = {} THEN n + 1 ELSE CHOOSE q \in S : \A r \in S : q <= r
  BY DEF NextPhase
<1> HIDE DEF phases
<1>3. \A r \in 1 .. n : phases[r].tasks \in Nat
  BY <1>1 DEF PhaseType
<1>4. CASE S = {}
  <2>1. \A r \in p .. n : phases[r].tasks = 0
    <3> SUFFICES ASSUME NEW r \in p .. n PROVE phases[r].tasks = 0
      OBVIOUS
    <3>1. r \in 1 .. n /\ ~(phases[r].tasks > 0)
      BY <1>1, <1>4
    <3> QED BY <1>3, <3>1
  <2> HIDE DEF S
  <2>2. NextPhase(x, p) = n + 1
    BY <1>2, <1>4
  <2> QED BY <1>1, <2>1, <2>2 DEF phases
<1>5. CASE S # {}
  <2>1. S \subseteq Nat /\ S # {}
    BY <1>1, <1>5
  <2>2. PICK q \in S : \A r \in S : ~(r < q)
    <3> DEFINE R == OpToRel(<, Nat)
    <3>1. IsWellFoundedOn(R, Nat)
      BY NatLessThanWellFounded
    <3> HIDE DEF S
    <3>2. PICK q \in S : \A r \in S : ~(<<r, q>> \in R)
      BY <2>1, <3>1, WFMin
    <3> QED BY <2>1, <3>2 DEF OpToRel
  <2>3. \A r \in S : q <= r
    BY <2>1, <2>2
  <2> DEFINE c == CHOOSE q1 \in S : \A r \in S : q1 <= r
  <2>4. c \in S /\ \A r \in S : c <= r
    BY <2>3
  <2>5. NextPhase(x, p) = c
    BY <1>2, <1>5
  <2> HIDE DEF c
  <2>6. c \in p .. n /\ phases[c].tasks > 0
    BY <2>4
  <2>7. ASSUME NEW r \in p .. c - 1 PROVE phases[r].tasks = 0
    <3>1. r \in p .. n /\ r \notin S /\ r \in 1 .. n
      BY <1>1, <2>4, <2>6
    <3> QED BY <1>3, <3>1
  <2> QED BY <1>1, <2>5, <2>6, <2>7 DEF phases
<1> QED BY <1>4, <1>5

\* An empty phase is done when nothing is recorded of it.
LEMMA EmptyDone ==
    ASSUME NEW phases, NEW results \in Seq(ResultType), NEW p \in Nat,
           phases[p].tasks = 0, \A i \in DOMAIN results : results[i].phase # p
    PROVE  PhaseDone(phases, results, p)
<1>1. OfPhase(results, p) = {}
  BY DEF OfPhase
<1>2. AnsweredTasks(phases[p], p, results) = 0
  <2>1. 1 .. phases[p].tasks = {}
    OBVIOUS
  <2> QED BY <2>1 DEF AnsweredTasks
<1> QED BY <1>1, <1>2, FS_EmptySet DEF PhaseDone
\* The tasks of a phase that failed; AnsweredTasks stops at the first of them.
FailedTasks(ph, p, results) ==
    {t \in 1 .. ph.tasks : [phase |-> p, task |-> t, status |-> "failed"] \in Range(results)}

LEMMA AnsweredIs ==
    ASSUME NEW ph, NEW p, NEW results
    PROVE  AnsweredTasks(ph, p, results) =
             IF ph.parallel \/ ph.continueOnFailure \/ FailedTasks(ph, p, results) = {}
             THEN ph.tasks
             ELSE CHOOSE t \in FailedTasks(ph, p, results) :
                    \A u \in FailedTasks(ph, p, results) : t <= u
BY DEF AnsweredTasks, FailedTasks

------------------------------------------------------------------------------
(***************************************************************************)
(* An execution                                                            *)
(***************************************************************************)

\* An execution is a record of its fields.
Shaped(x) ==
    x = [status |-> x.status, scenario |-> x.scenario, body |-> x.body, pc |-> x.pc,
         progress |-> x.progress, assigned |-> x.assigned, phase |-> x.phase,
         settled |-> x.settled, completedPhases |-> x.completedPhases, results |-> x.results]

\* In a phase of tasks asked one by one, the first k are settled and recorded,
\* none of them as failed if a failure ends the phase; of a parallel phase
\* nothing is recorded.
OneByOne(x, k) ==
    /\ \A t \in DOMAIN x.settled : x.settled[t] = "asked" <=> t > k
    /\ Cardinality(OfPhase(x.results, x.phase)) = k
    /\ \A i \in DOMAIN x.results : x.results[i].phase = x.phase => x.results[i].task <= k
    /\ ~ x.body.phases[x.phase].continueOnFailure =>
         \A i \in OfPhase(x.results, x.phase) : x.results[i].status # "failed"

InPhase(x) ==
    LET ph == x.body.phases[x.phase]
    IN  /\ x.phase \in 1 .. Len(x.body.phases)
        /\ ph.tasks > 0
        /\ x.settled \in [1 .. ph.tasks -> {"asked"} \union Outcomes]
        /\ \A i \in DOMAIN x.results : x.results[i].phase <= x.phase
        /\ \A p \in 1 .. x.phase - 1 : PhaseDone(x.body.phases, x.results, p)
        /\ ph.parallel => \A i \in DOMAIN x.results : x.results[i].phase # x.phase
        /\ ~ ph.parallel => \E k \in 0 .. ph.tasks - 1 : OneByOne(x, k)

AllDone(x) == \A p \in 1 .. Len(x.body.phases) : PhaseDone(x.body.phases, x.results, p)

Sound(x) ==
    /\ Shaped(x)
    /\ x.body.phases \in Seq(PhaseType)
    /\ x.results \in Seq(ResultType)
    /\ Ordered(x.results)
    /\ x.pc = "over" <=> x.status \in Outcomes
    /\ x.pc \in {"initializing", "discovering", "assigned"} => x.results = <<>>
    /\ x.pc = "tasks" => InPhase(x)
    /\ x.pc = "collecting" \/ x.status = "completed" => AllDone(x)

LEMMA ResultPhases ==
    ASSUME NEW results \in Seq(ResultType)
    PROVE  \A i \in DOMAIN results : results[i] \in ResultType /\ results[i].phase \in Nat
<1>1. \A i \in DOMAIN results : results[i] \in ResultType
  BY LenProperties
<1> QED BY <1>1 DEF ResultType

\* An execution that goes on, but for what it changes.
LEMMA LeftFields ==
    ASSUME NEW x, Shaped(x), NEW new, NEW done, NEW progress, NEW y,
           y = [x EXCEPT !.results = @ \o new, !.completedPhases = done, !.progress = progress]
    PROVE  y = [status |-> x.status, scenario |-> x.scenario, body |-> x.body, pc |-> x.pc,
                progress |-> progress, assigned |-> x.assigned, phase |-> x.phase,
                settled |-> x.settled, completedPhases |-> done, results |-> x.results \o new]
<1> DEFINE r == x.results \o new
<1>1. y = [x EXCEPT !.results = r, !.completedPhases = done, !.progress = progress]
  OBVIOUS
<1> HIDE DEF r
<1> SUFFICES y = [status |-> x.status, scenario |-> x.scenario, body |-> x.body, pc |-> x.pc,
                progress |-> progress, assigned |-> x.assigned, phase |-> x.phase,
                settled |-> x.settled, completedPhases |-> done, results |-> r]
  BY DEF r
<1> QED BY <1>1 DEF Shaped

\* Entering a phase with all before it done.
LEMMA EntersSound ==
    ASSUME NEW x, Shaped(x), x.body.phases \in Seq(PhaseType), x.results \in Seq(ResultType),
           Ordered(x.results), x.status \notin Outcomes,
           NEW p \in Nat, 1 <= p, p <= Len(x.body.phases) + 1,
           \A r \in 1 .. p - 1 : PhaseDone(x.body.phases, x.results, r),
           \A i \in DOMAIN x.results : x.results[i].phase < p
    PROVE  Sound(EntersPhase(x, p))
<1> DEFINE q == NextPhase(x, p)
           n == Len(x.body.phases)
           y == EntersPhase(x, p)
<1>1. /\ q \in p .. n + 1
      /\ \A r \in p .. q - 1 : x.body.phases[r].tasks = 0
      /\ q <= n => x.body.phases[q].tasks > 0
  BY NextPhaseFacts
<1>a. n \in Nat
  BY LenProperties
<1>b. \A i \in DOMAIN x.results : x.results[i].phase \in Nat
  BY ResultPhases
<1>2. n \in Nat /\ \A i \in DOMAIN x.results : x.results[i].phase \in Nat
  BY <1>a, <1>b
<1>3. y = IF q > n
          THEN [x EXCEPT !.pc = "collecting", !.phase = 0, !.settled = <<>>, !.progress = 90]
          ELSE [x EXCEPT !.pc = "tasks", !.phase = q,
                         !.settled = [t \in 1 .. x.body.phases[q].tasks |-> "asked"]]
  BY DEF EntersPhase
<1> HIDE DEF q, y
<1>4. CASE q > n
  <2>1. y = [status |-> x.status, scenario |-> x.scenario, body |-> x.body, pc |-> "collecting",
             progress |-> 90, assigned |-> x.assigned, phase |-> 0,
             settled |-> <<>>, completedPhases |-> x.completedPhases, results |-> x.results]
    <3>1. y = [x EXCEPT !.pc = "collecting", !.phase = 0, !.settled = <<>>, !.progress = 90]
      BY <1>3, <1>4
    <3> QED BY <3>1 DEF Shaped
  <2>2. ASSUME NEW r \in 1 .. n PROVE PhaseDone(x.body.phases, x.results, r)
    <3>1. CASE r < p
      BY <3>1
    <3>2. CASE r >= p
      <4>1. r \in p .. q - 1
        BY <1>1, <1>2, <1>4, <3>2
      <4>2. \A i \in DOMAIN x.results : x.results[i].phase # r
        BY <1>2, <3>2
      <4> QED BY <1>1, <4>1, <4>2, EmptyDone
    <3> QED BY <3>1, <3>2
  <2>3. AllDone(y)
    BY <2>1, <2>2 DEF AllDone
  <2> QED BY <2>1, <2>3 DEF Sound, Shaped, Outcomes, y
<1>5. CASE q <= n
  <2> DEFINE m == x.body.phases[q].tasks
             untouched == [t \in 1 .. m |-> "asked"]
  <2>1. y = [status |-> x.status, scenario |-> x.scenario, body |-> x.body, pc |-> "tasks",
             progress |-> x.progress, assigned |-> x.assigned, phase |-> q,
             settled |-> untouched, completedPhases |-> x.completedPhases, results |-> x.results]
    <3> HIDE DEF untouched
    <3>1. y = [x EXCEPT !.pc = "tasks", !.phase = q, !.settled = untouched]
      BY <1>1, <1>2, <1>3, <1>5 DEF untouched
    <3> QED BY <3>1 DEF Shaped
  <2>a. q \in 1 .. n /\ m > 0
    BY <1>1, <1>2, <1>5
  <2>b. x.body.phases[q] \in PhaseType
    BY <2>a, ElementOfSeq
  <2>2. /\ q \in 1 .. n /\ m > 0 /\ m \in Nat
        /\ x.body.phases[q] \in PhaseType
    BY <2>a, <2>b DEF PhaseType
  <2>3. \A i \in DOMAIN x.results : x.results[i].phase < q
    BY <1>1, <1>2
  <2>4. ASSUME NEW r \in 1 .. q - 1 PROVE PhaseDone(x.body.phases, x.results, r)
    <3>1. CASE r < p
      BY <3>1
    <3>2. CASE r >= p
      <4>1. r \in p .. q - 1
        BY <1>1, <1>2, <1>5, <3>2
      <4>2. \A i \in DOMAIN x.results : x.results[i].phase # r
        BY <1>2, <3>2
      <4> QED BY <1>1, <4>1, <4>2, EmptyDone
    <3> QED BY <3>1, <3>2
  <2>5. OneByOne(y, 0)
    <3>1. OfPhase(x.results, q) = {}
      BY <1>2, <2>3 DEF OfPhase
    <3>2. \A i \in DOMAIN x.results : x.results[i].phase # q
      BY <1>2, <2>2, <2>3
    <3>3. \A t \in DOMAIN untouched : untouched[t] = "asked" /\ t > 0
      BY <2>2
    <3> HIDE DEF untouched
    <3> QED BY <2>1, <3>1, <3>2, <3>3, FS_EmptySet DEF OneByOne
  <2>6. untouched \in [1 .. m -> {"asked"} \union Outcomes]
    OBVIOUS
  <2>7. InPhase(y)
    <3>1. 0 \in 0 .. m - 1
      BY <2>2
    <3>2. \A i \in DOMAIN x.results : x.results[i].phase <= q /\ x.results[i].phase # q
      BY <1>2, <2>2, <2>3
    <3> HIDE DEF untouched
    <3> QED BY <2>1, <2>2, <2>4, <2>5, <2>6, <3>1, <3>2 DEF InPhase
  <2> HIDE DEF untouched
  <2> QED BY <2>1, <2>7 DEF Sound, Shaped, Outcomes, y
<1> QED BY <1>1, <1>2, <1>4, <1>5

\* Leaving a phase with the results that make it done.
LEMMA LeavesSound ==
    ASSUME NEW x, Sound(x), x.pc = "tasks", NEW new \in Seq(ResultType),
           \A i \in DOMAIN new : new[i].phase = x.phase,
           Ordered(x.results \o new),
           PhaseDone(x.body.phases, x.results \o new, x.phase)
    PROVE  Sound(LeavesPhase(x, new))
<1> DEFINE done == x.completedPhases + 1
           progress == ProgressAfter(done, Len(x.body.phases))
           all == x.results \o new
           y == [x EXCEPT !.results = @ \o new, !.completedPhases = done, !.progress = progress]
<1>1. y = [status |-> x.status, scenario |-> x.scenario, body |-> x.body, pc |-> x.pc,
           progress |-> progress, assigned |-> x.assigned, phase |-> x.phase,
           settled |-> x.settled, completedPhases |-> done, results |-> all]
  <2> HIDE DEF done, progress
  <2>1. Shaped(x)
    BY DEF Sound
  <2> QED BY <2>1, LeftFields
<1>2. LeavesPhase(x, new) = EntersPhase(y, x.phase + 1)
  BY DEF LeavesPhase
<1>3. /\ InPhase(x) /\ x.results \in Seq(ResultType) /\ x.body.phases \in Seq(PhaseType)
      /\ x.status \notin Outcomes
  BY DEF Sound
<1> HIDE DEF y, done, progress
<1>4. /\ x.phase \in 1 .. Len(x.body.phases) /\ x.phase \in Nat
      /\ \A i \in DOMAIN x.results : x.results[i].phase <= x.phase
      /\ \A p \in 1 .. x.phase - 1 : PhaseDone(x.body.phases, x.results, p)
  BY <1>3, LenProperties DEF InPhase
<1>5. /\ all \in Seq(ResultType)
      /\ Range(all) = Range(x.results) \union Range(new)
  BY <1>3, <1>4, ResultsAdded
<1>6. \A i \in DOMAIN all : all[i].phase < x.phase + 1
  <2> SUFFICES ASSUME NEW i \in DOMAIN all PROVE all[i].phase < x.phase + 1
    OBVIOUS
  <2>1. all[i] \in Range(x.results) \/ all[i] \in Range(new)
    BY <1>5 DEF Range
  <2>2. all[i].phase <= x.phase
    BY <1>4, <2>1 DEF Range
  <2>3. all[i].phase \in Nat
    BY <1>5, ResultPhases
  <2> QED BY <1>4, <2>2, <2>3
<1>7. ASSUME NEW p \in 1 .. x.phase PROVE PhaseDone(x.body.phases, all, p)
  <2>1. CASE p = x.phase
    BY <2>1
  <2>2. CASE p # x.phase
    <3>1. p \in Nat \ {x.phase} /\ PhaseDone(x.body.phases, x.results, p)
      BY <1>4, <2>2
    <3> QED BY <1>3, <1>4, <3>1, DoneStays
  <2> QED BY <2>1, <2>2
<1>8. /\ Shaped(y) /\ y.body = x.body /\ y.results = all /\ y.status = x.status
  <2> HIDE DEF all
  <2> QED BY <1>1 DEF Shaped
<1>9. /\ x.phase + 1 \in Nat /\ 1 <= x.phase + 1 /\ x.phase + 1 <= Len(x.body.phases) + 1
      /\ x.phase + 1 - 1 = x.phase
  BY <1>3, <1>4, LenProperties
<1> HIDE DEF all
<1>10. Ordered(all)
  BY DEF all
<1>11. /\ y.body.phases \in Seq(PhaseType) /\ y.results \in Seq(ResultType)
       /\ Ordered(y.results) /\ y.status \notin Outcomes
       /\ x.phase + 1 <= Len(y.body.phases) + 1
       /\ \A r \in 1 .. (x.phase + 1) - 1 : PhaseDone(y.body.phases, y.results, r)
       /\ \A i \in DOMAIN y.results : y.results[i].phase < x.phase + 1
  <2>1. \A r \in 1 .. (x.phase + 1) - 1 : PhaseDone(x.body.phases, all, r)
    <3>1. 1 .. (x.phase + 1) - 1 = 1 .. x.phase
      BY <1>4
    <3> QED BY <1>7, <3>1
  <2>2. y.body.phases = x.body.phases /\ y.results = all
    BY <1>8
  <2> QED BY <1>3, <1>5, <1>6, <1>8, <1>9, <1>10, <2>1, <2>2
<1> QED BY <1>2, <1>8, <1>9, <1>11, EntersSound
LEMMA SettledFields ==
    ASSUME NEW x, Shaped(x), NEW s, NEW y, y = [x EXCEPT !.settled = s]
    PROVE  y = [status |-> x.status, scenario |-> x.scenario, body |-> x.body, pc |-> x.pc,
                progress |-> x.progress, assigned |-> x.assigned, phase |-> x.phase,
                settled |-> s, completedPhases |-> x.completedPhases, results |-> x.results]
BY DEF Shaped

LEMMA RecordedFields ==
    ASSUME NEW x, Shaped(x), NEW s, NEW r, NEW y, y = [x EXCEPT !.settled = s, !.results = r]
    PROVE  y = [status |-> x.status, scenario |-> x.scenario, body |-> x.body, pc |-> x.pc,
                progress |-> x.progress, assigned |-> x.assigned, phase |-> x.phase,
                settled |-> s, completedPhases |-> x.completedPhases, results |-> r]
BY DEF Shaped

\* One result more of the current phase.
LEMMA ResultIs ==
    ASSUME NEW x, Sound(x), x.pc = "tasks", NEW t \in Nat, NEW outcome \in Outcomes
    PROVE  /\ Result(x, t, outcome) \in ResultType
           /\ Result(x, t, outcome).phase = x.phase /\ Result(x, t, outcome).task = t
           /\ Result(x, t, outcome).status = outcome
           /\ <<Result(x, t, outcome)>> \in Seq(ResultType)
           /\ Len(<<Result(x, t, outcome)>>) = 1 /\ DOMAIN <<Result(x, t, outcome)>> = 1 .. 1
           /\ <<Result(x, t, outcome)>>[1] = Result(x, t, outcome)
<1>1. x.phase \in Nat
  BY LenProperties DEF Sound, InPhase
<1>2. Result(x, t, outcome) \in ResultType
  BY <1>1 DEF Result, ResultType
<1> QED BY <1>2 DEF Result

\* A task asked alone: what it leaves behind, whether the phase goes on or ends.
LEMMA SequentialSound ==
    ASSUME NEW x, Sound(x), x.pc = "tasks", ~ x.body.phases[x.phase].parallel,
           NEW outcome \in Outcomes, NEW t,
           t = CHOOSE i \in 1 .. x.body.phases[x.phase].tasks :
                /\ x.settled[i] = "asked"
                /\ \A j \in 1 .. i - 1 : x.settled[j] # "asked"
    PROVE  IF t = x.body.phases[x.phase].tasks
                \/ (outcome = "failed" /\ ~ x.body.phases[x.phase].continueOnFailure)
           THEN Sound(LeavesPhase(x, <<Result(x, t, outcome)>>))
           ELSE Sound([x EXCEPT !.settled[t] = outcome,
                                !.results = Append(@, Result(x, t, outcome))])
<1> DEFINE ph == x.body.phases[x.phase]
           q == x.phase
           old == x.results
           n == ph.tasks
<1>1. /\ Shaped(x) /\ InPhase(x) /\ old \in Seq(ResultType) /\ x.body.phases \in Seq(PhaseType)
      /\ x.status \notin Outcomes /\ Ordered(old)
  BY DEF Sound
<1>2. /\ q \in 1 .. Len(x.body.phases) /\ n > 0
      /\ x.settled \in [1 .. n -> {"asked"} \union Outcomes]
      /\ \A i \in DOMAIN old : old[i].phase <= q
      /\ \A p \in 1 .. q - 1 : PhaseDone(x.body.phases, old, p)
  BY <1>1 DEF InPhase
<1>3. PICK k \in 0 .. n - 1 : OneByOne(x, k)
  BY <1>1 DEF InPhase
<1>4. q \in Nat /\ ph \in PhaseType
  <2>1. Len(x.body.phases) \in Nat
    BY <1>1, LenProperties
  <2> QED BY <1>1, <1>2, <2>1, ElementOfSeq
<1>5. n \in Nat /\ k \in Nat /\ k + 1 \in 1 .. n
  BY <1>2, <1>3, <1>4 DEF PhaseType
<1>6. /\ \A i \in 1 .. n : x.settled[i] = "asked" <=> i > k
      /\ Cardinality(OfPhase(old, q)) = k
      /\ \A i \in DOMAIN old : old[i].phase = q => old[i].task <= k
      /\ ~ ph.continueOnFailure => \A i \in OfPhase(old, q) : old[i].status # "failed"
  BY <1>2, <1>3 DEF OneByOne
<1>7. t = k + 1
  <2> DEFINE Good(i) == x.settled[i] = "asked" /\ \A j \in 1 .. i - 1 : x.settled[j] # "asked"
  <2>1. Good(k + 1)
    BY <1>5, <1>6
  <2>2. \A i \in 1 .. n : Good(i) => i = k + 1
    <3> SUFFICES ASSUME NEW i \in 1 .. n, Good(i), i # k + 1 PROVE FALSE
      OBVIOUS
    <3>1. i > k
      BY <1>6
    <3>2. k + 1 \in 1 .. i - 1
      BY <1>5, <3>1
    <3> QED BY <1>5, <1>6, <3>2
  <2>3. t = CHOOSE i \in 1 .. n : Good(i)
    OBVIOUS
  <2> HIDE DEF Good
  <2> QED BY <1>5, <2>1, <2>2, <2>3
<1> DEFINE r == Result(x, t, outcome)
           new == <<r>>
           all == old \o new
<1>8. /\ r \in ResultType /\ r.phase = q /\ r.task = k + 1 /\ r.status = outcome
      /\ new \in Seq(ResultType) /\ Len(new) = 1 /\ DOMAIN new = 1 .. 1 /\ new[1] = r
  <2>1. t \in Nat
    <3>1. k + 1 \in Nat
      BY <1>5
    <3> QED BY <1>7, <3>1, Zenon
  <2>2. r.task = t
    <3>1. \A u \in Nat : Result(x, u, outcome).task = u
      BY ResultIs
    <3> QED BY <2>1, <3>1
  <2>3. /\ r \in ResultType /\ r.phase = q /\ r.status = outcome
        /\ new \in Seq(ResultType) /\ Len(new) = 1 /\ DOMAIN new = 1 .. 1 /\ new[1] = r
    BY <2>1, ResultIs
  <2> HIDE DEF r, new
  <2> QED BY <1>7, <2>2, <2>3
<1> HIDE DEF r, new
<1>9. \A i \in DOMAIN new : new[i].phase = q
  BY <1>8
<1>10. /\ all \in Seq(ResultType)
       /\ \A p \in Nat \ {q} : OfPhase(all, p) = OfPhase(old, p)
       /\ Cardinality(OfPhase(all, q)) = Cardinality(OfPhase(old, q)) + Len(new)
       /\ Range(all) = Range(old) \union Range(new)
  BY <1>1, <1>4, <1>8, <1>9, ResultsAdded
<1>11. Range(new) = {r}
  BY <1>8 DEF Range
<1> HIDE DEF all
<1>12. Cardinality(OfPhase(all, q)) = k + 1
  BY <1>6, <1>8, <1>10
<1>13. Ordered(all)
  <2>1. ASSUME NEW i \in DOMAIN old PROVE Before(old[i], r)
    <3>1. old[i].phase <= q /\ old[i].phase \in Nat /\ old[i] \in ResultType
      BY <1>1, <1>2, ResultPhases
    <3>2. old[i].task \in Nat
      BY <3>1 DEF ResultType
    <3> QED BY <1>4, <1>5, <1>6, <1>8, <3>1, <3>2 DEF Before
  <2>2. Ordered(new)
    BY <1>8 DEF Ordered
  <2>3. \A i \in DOMAIN old, j \in DOMAIN new : Before(old[i], new[j])
    BY <1>8, <2>1
  <2> QED BY <1>1, <1>8, <2>2, <2>3, OrderedAdded DEF all
<1>14. \A i \in DOMAIN all : all[i] \in Range(old) \/ all[i] = r
  BY <1>10, <1>11 DEF Range
<1>15. ~ ph.continueOnFailure =>
         FailedTasks(ph, q, all) = IF outcome = "failed" THEN {k + 1} ELSE {}
  <2> SUFFICES ASSUME ~ ph.continueOnFailure
               PROVE  FailedTasks(ph, q, all) = IF outcome = "failed" THEN {k + 1} ELSE {}
    OBVIOUS
  <2>1. \A u : [phase |-> q, task |-> u, status |-> "failed"] \notin Range(old)
    <3> SUFFICES ASSUME NEW u, NEW i \in DOMAIN old,
                        old[i] = [phase |-> q, task |-> u, status |-> "failed"]
                 PROVE  FALSE
      BY DEF Range
    <3> QED BY <1>6 DEF OfPhase
  <2>2. r = [phase |-> q, task |-> k + 1, status |-> outcome]
    BY <1>7 DEF Result, r
  <2>3. \A u \in 1 .. n : [phase |-> q, task |-> u, status |-> "failed"] \in Range(all)
                             <=> outcome = "failed" /\ u = k + 1
    BY <1>10, <1>11, <2>1, <2>2
  <2> QED BY <1>5, <2>3 DEF FailedTasks
<1>16. CASE t = n \/ (outcome = "failed" /\ ~ ph.continueOnFailure)
  <2>1. AnsweredTasks(ph, q, all) = k + 1
    <3>1. CASE ph.continueOnFailure \/ FailedTasks(ph, q, all) = {}
      <4>1. t = n
        BY <1>15, <1>16, <3>1
      <4> QED BY <1>7, <3>1, <4>1, AnsweredIs
    <3>2. CASE ~ ph.continueOnFailure /\ FailedTasks(ph, q, all) # {}
      <4>1. FailedTasks(ph, q, all) = {k + 1}
        BY <1>15, <3>2
      <4>2. (CHOOSE u \in {k + 1} : \A v \in {k + 1} : u <= v) = k + 1
        BY <1>5
      <4> QED BY <3>2, <4>1, <4>2, AnsweredIs
    <3> QED BY <3>1, <3>2
  <2>2. PhaseDone(x.body.phases, all, q)
    BY <1>12, <2>1 DEF PhaseDone
  <2>3. Sound(LeavesPhase(x, new))
    BY <1>8, <1>9, <1>13, <2>2, LeavesSound DEF all
  <2> QED BY <1>16, <2>3 DEF new, r
<1>17. CASE ~ (t = n \/ (outcome = "failed" /\ ~ ph.continueOnFailure))
  <2> DEFINE s == [x.settled EXCEPT ![t] = outcome]
             y == [x EXCEPT !.settled[t] = outcome, !.results = Append(@, r)]
  <2>1. Append(old, r) = all
    BY <1>1, <1>8, AppendIsConcat DEF all, new
  <2>2. y = [x EXCEPT !.settled = s, !.results = all]
    BY <2>1
  <2>3. y = [status |-> x.status, scenario |-> x.scenario, body |-> x.body, pc |-> x.pc,
             progress |-> x.progress, assigned |-> x.assigned, phase |-> x.phase,
             settled |-> s, completedPhases |-> x.completedPhases, results |-> all]
    <3> HIDE DEF s, y
    <3> QED BY <1>1, <2>2, RecordedFields
  <2> HIDE DEF y
  <2>4. s \in [1 .. n -> {"asked"} \union Outcomes] /\ DOMAIN s = 1 .. n
        /\ \A i \in 1 .. n : s[i] = "asked" <=> i > k + 1
    <3>1. t \in 1 .. n /\ outcome # "asked" /\ outcome \in {"asked"} \union Outcomes
      BY <1>5, <1>7 DEF Outcomes
    <3>2. s \in [1 .. n -> {"asked"} \union Outcomes] /\ DOMAIN s = 1 .. n
          /\ \A i \in 1 .. n : s[i] = IF i = t THEN outcome ELSE x.settled[i]
      BY <1>2, <3>1
    <3> HIDE DEF s
    <3>3. ASSUME NEW i \in 1 .. n PROVE s[i] = "asked" <=> i > k + 1
      <4>1. CASE i = t
        <5>1. s[i] = outcome
          BY <3>2, <4>1
        <5>2. ~ (i > k + 1)
          BY <1>5, <1>7, <4>1
        <5> QED BY <3>1, <5>1, <5>2
      <4>2. CASE i # t
        <5>1. i # k + 1
          BY <1>7, <4>2
        <5>2. s[i] = x.settled[i]
          BY <3>2, <4>2
        <5>3. i > k <=> i > k + 1
          BY <1>5, <5>1
        <5> QED BY <1>6, <5>2, <5>3
      <4> QED BY <4>1, <4>2
    <3> QED BY <3>2, <3>3
  <2> HIDE DEF s
  <2>5. OneByOne(y, k + 1)
    <3>1. \A i \in DOMAIN all : all[i].phase = q => all[i].task <= k + 1
      <4> SUFFICES ASSUME NEW i \in DOMAIN all, all[i].phase = q PROVE all[i].task <= k + 1
        OBVIOUS
      <4>1. CASE all[i] = r
        BY <1>5, <1>8, <4>1
      <4>2. CASE all[i] \in Range(old)
        <5>1. PICK j \in DOMAIN old : all[i] = old[j]
          BY <4>2 DEF Range
        <5>2. old[j].task <= k /\ old[j].task \in Nat
          BY <1>1, <1>6, <5>1, ResultPhases DEF ResultType
        <5> QED BY <1>5, <5>1, <5>2
      <4> QED BY <1>14, <4>1, <4>2
    <3>2. ~ ph.continueOnFailure => \A i \in OfPhase(all, q) : all[i].status # "failed"
      <4> SUFFICES ASSUME ~ ph.continueOnFailure, NEW i \in OfPhase(all, q)
                   PROVE  all[i].status # "failed"
        OBVIOUS
      <4>1. CASE all[i] = r
        BY <1>8, <1>17, <4>1
      <4>2. CASE all[i] \in Range(old)
        <5>1. PICK j \in DOMAIN old : all[i] = old[j]
          BY <4>2 DEF Range
        <5>2. j \in OfPhase(old, q)
          BY <5>1 DEF OfPhase
        <5> QED BY <1>6, <5>1, <5>2
      <4> QED BY <1>14, <4>1, <4>2 DEF OfPhase
    <3> QED BY <1>12, <2>3, <2>4, <3>1, <3>2 DEF OneByOne
  <2>6. InPhase(y)
    <3>1. \A i \in DOMAIN all : all[i].phase <= q
      <4> SUFFICES ASSUME NEW i \in DOMAIN all PROVE all[i].phase <= q
        OBVIOUS
      <4> QED BY <1>2, <1>4, <1>8, <1>14 DEF Range
    <3>2. ASSUME NEW p \in 1 .. q - 1 PROVE PhaseDone(x.body.phases, all, p)
      <4>1. p \in Nat \ {q} /\ PhaseDone(x.body.phases, old, p)
        BY <1>2, <1>4
      <4> QED BY <1>1, <1>4, <1>8, <1>9, <4>1, DoneStays DEF all
    <3>3. k + 1 \in 0 .. n - 1
      BY <1>5, <1>7, <1>17
    <3> QED BY <1>2, <2>3, <2>4, <2>5, <3>1, <3>2, <3>3 DEF InPhase
  <2>7. Sound(y)
    BY <1>1, <1>10, <1>13, <2>3, <2>6 DEF Sound, Shaped, Outcomes
  <2> QED BY <1>17, <2>7 DEF y, r
<1> QED BY <1>16, <1>17

\* A task of a parallel phase: the last to settle leaves the results of all.
LEMMA ParallelSound ==
    ASSUME NEW x, Sound(x), x.pc = "tasks", x.body.phases[x.phase].parallel,
           NEW outcome \in Outcomes, NEW t \in DOMAIN x.settled, NEW settled,
           settled = [x.settled EXCEPT ![t] = outcome]
    PROVE  IF AllSettled(settled) THEN Sound(LeavesPhase(x, ResultsOf(x, settled)))
                                  ELSE Sound([x EXCEPT !.settled = settled])
<1> DEFINE ph == x.body.phases[x.phase]
           q == x.phase
           old == x.results
           n == ph.tasks
<1>1. /\ Shaped(x) /\ InPhase(x) /\ old \in Seq(ResultType) /\ x.body.phases \in Seq(PhaseType)
      /\ x.status \notin Outcomes /\ Ordered(old)
  BY DEF Sound
<1>2. /\ q \in 1 .. Len(x.body.phases) /\ n > 0
      /\ x.settled \in [1 .. n -> {"asked"} \union Outcomes]
      /\ \A i \in DOMAIN old : old[i].phase <= q /\ old[i].phase # q
      /\ \A p \in 1 .. q - 1 : PhaseDone(x.body.phases, old, p)
  BY <1>1 DEF InPhase
<1>3. q \in Nat /\ ph \in PhaseType
  <2>1. Len(x.body.phases) \in Nat
    BY <1>1, LenProperties
  <2> QED BY <1>1, <1>2, <2>1, ElementOfSeq
<1>4. n \in Nat
  BY <1>3 DEF PhaseType
<1>5. settled \in [1 .. n -> {"asked"} \union Outcomes]
  BY <1>2
<1>6. CASE AllSettled(settled)
  <2> DEFINE new == ResultsOf(x, settled)
             all == old \o new
  <2>1. \A i \in 1 .. n : settled[i] \in Outcomes
    BY <1>5, <1>6 DEF AllSettled
  <2>2. \A i \in 1 .. n : Result(x, i, settled[i]) \in ResultType
    BY <1>3, <2>1 DEF Result, ResultType
  <2>3. new = [i \in 1 .. n |-> Result(x, i, settled[i])]
    BY <1>5 DEF ResultsOf
  <2>4. new \in Seq(ResultType) /\ Len(new) = n /\ DOMAIN new = 1 .. n
        /\ \A i \in 1 .. n : new[i] = Result(x, i, settled[i])
    <3>1. new \in [1 .. n -> ResultType]
      BY <2>2, <2>3
    <3>2. new \in Seq(ResultType)
      BY <1>4, <3>1, SeqDef
    <3>3. DOMAIN new = 1 .. n /\ DOMAIN new = 1 .. Len(new) /\ Len(new) \in Nat
      BY <2>3, <3>2, LenProperties
    <3>4. Len(new) = n
      BY <1>4, <3>3
    <3> QED BY <2>3, <3>2, <3>3, <3>4
  <2> HIDE DEF new
  <2>5. \A i \in DOMAIN new : new[i].phase = q /\ new[i].task = i
    <3>1. \A i : Result(x, i, settled[i]).phase = q /\ Result(x, i, settled[i]).task = i
      BY DEF Result
    <3> QED BY <2>4, <3>1
  <2>6. /\ all \in Seq(ResultType)
        /\ Cardinality(OfPhase(all, q)) = Cardinality(OfPhase(old, q)) + Len(new)
    BY <1>1, <1>3, <2>4, <2>5, ResultsAdded
  <2>7. OfPhase(old, q) = {}
    BY <1>2 DEF OfPhase
  <2>8. Cardinality(OfPhase(all, q)) = n
    BY <1>4, <2>4, <2>6, <2>7, FS_EmptySet
  <2>9. AnsweredTasks(ph, q, all) = n
    BY AnsweredIs
  <2>10. PhaseDone(x.body.phases, all, q)
    BY <2>8, <2>9 DEF PhaseDone
  <2>11. Ordered(all)
    <3>1. \A i \in DOMAIN old : old[i].phase < q
      <4>1. \A i \in DOMAIN old : old[i].phase \in Nat
        BY <1>1, ResultPhases
      <4> QED BY <1>2, <1>3, <4>1
    <3>2. \A i \in DOMAIN old, j \in DOMAIN new : Before(old[i], new[j])
      BY <2>5, <3>1 DEF Before
    <3>3. Ordered(new)
      BY <2>5 DEF Ordered, Before
    <3> QED BY <1>1, <2>4, <3>2, <3>3, OrderedAdded
  <2>12. \A i \in DOMAIN new : new[i].phase = x.phase
    BY <2>5
  <2> HIDE DEF all
  <2>13. Sound(LeavesPhase(x, new))
    BY <2>4, <2>10, <2>11, <2>12, LeavesSound DEF all
  <2> QED BY <1>6, <2>13 DEF new
<1>7. CASE ~ AllSettled(settled)
  <2> DEFINE y == [x EXCEPT !.settled = settled]
  <2>1. y = [status |-> x.status, scenario |-> x.scenario, body |-> x.body, pc |-> x.pc,
             progress |-> x.progress, assigned |-> x.assigned, phase |-> x.phase,
             settled |-> settled, completedPhases |-> x.completedPhases, results |-> x.results]
    BY <1>1, SettledFields
  <2> HIDE DEF y
  <2>2. InPhase(y)
    BY <1>2, <1>5, <2>1 DEF InPhase
  <2>3. Sound(y)
    BY <1>1, <2>1, <2>2 DEF Sound, Shaped, Outcomes
  <2> QED BY <1>7, <2>3 DEF y
<1> QED BY <1>6, <1>7
------------------------------------------------------------------------------
(***************************************************************************)
(* Both services                                                           *)
(***************************************************************************)

ExecInv ==
    /\ \A s \in Listed : scenarios[s] \in Bodies
    /\ executions = [e \in ExecutionIds |-> executions[e]]
    /\ \A e \in ExecutionIds : Sound(executions[e])
    /\ Recorded \subseteq RecordIds
    /\ \A r \in Recorded : records[r] \in [status : Statuses, results : BOOLEAN]

\* What becomes of an execution outside its phases.
LEMMA StartedFields ==
    ASSUME NEW s, NEW b, NEW x,
           x = [NoExecution EXCEPT !.status = "running", !.scenario = s, !.body = b,
                                   !.pc = "initializing", !.progress = 15]
    PROVE  x = [status |-> "running", scenario |-> s, body |-> b, pc |-> "initializing",
                progress |-> 15, assigned |-> 0, phase |-> 0, settled |-> <<>>,
                completedPhases |-> 0, results |-> <<>>]
BY DEF NoExecution

LEMMA PlacedFields ==
    ASSUME NEW x, Shaped(x), NEW p, NEW v, NEW y, y = [x EXCEPT !.pc = p, !.progress = v]
    PROVE  y = [status |-> x.status, scenario |-> x.scenario, body |-> x.body, pc |-> p,
                progress |-> v, assigned |-> x.assigned, phase |-> x.phase,
                settled |-> x.settled, completedPhases |-> x.completedPhases,
                results |-> x.results]
BY DEF Shaped

LEMMA AssignedFields ==
    ASSUME NEW x, Shaped(x), NEW n, NEW y, y = [x EXCEPT !.assigned = n]
    PROVE  y = [status |-> x.status, scenario |-> x.scenario, body |-> x.body, pc |-> x.pc,
                progress |-> x.progress, assigned |-> n, phase |-> x.phase,
                settled |-> x.settled, completedPhases |-> x.completedPhases,
                results |-> x.results]
BY DEF Shaped

LEMMA MovedFields ==
    ASSUME NEW x, Shaped(x), NEW p, NEW y, y = [x EXCEPT !.pc = p]
    PROVE  y = [status |-> x.status, scenario |-> x.scenario, body |-> x.body, pc |-> p,
                progress |-> x.progress, assigned |-> x.assigned, phase |-> x.phase,
                settled |-> x.settled, completedPhases |-> x.completedPhases,
                results |-> x.results]
BY DEF Shaped

LEMMA ProgressFields ==
    ASSUME NEW x, Shaped(x), NEW v, NEW y, y = [x EXCEPT !.progress = v]
    PROVE  y = [status |-> x.status, scenario |-> x.scenario, body |-> x.body, pc |-> x.pc,
                progress |-> v, assigned |-> x.assigned, phase |-> x.phase,
                settled |-> x.settled, completedPhases |-> x.completedPhases,
                results |-> x.results]
BY DEF Shaped

LEMMA FailedFields ==
    ASSUME NEW x, Shaped(x), NEW y, y = [x EXCEPT !.status = "failed", !.pc = "over"]
    PROVE  y = [status |-> "failed", scenario |-> x.scenario, body |-> x.body, pc |-> "over",
                progress |-> x.progress, assigned |-> x.assigned, phase |-> x.phase,
                settled |-> x.settled, completedPhases |-> x.completedPhases,
                results |-> x.results]
BY DEF Shaped

LEMMA CompletedFields ==
    ASSUME NEW x, Shaped(x), NEW y,
           y = [x EXCEPT !.status = "completed", !.pc = "over", !.progress = 100]
    PROVE  y = [status |-> "completed", scenario |-> x.scenario, body |-> x.body, pc |-> "over",
                progress |-> 100, assigned |-> x.assigned, phase |-> x.phase,
                settled |-> x.settled, completedPhases |-> x.completedPhases,
                results |-> x.results]
BY DEF Shaped

LEMMA EmptyResults ==
    /\ << >> \in Seq(ResultType) /\ Ordered(<< >>) /\ << >> \in Seq(PhaseType)
BY DEF Ordered

\* Every step of an execution leaves it sound, and takes it from no final status.
LEMMA ProceedSound ==
    ASSUME ExecInv, NEW e \in ExecutionIds, Proceed(e)
    PROVE  \E y : Goes(e, y) /\ Sound(y) /\ executions[e].status \notin Outcomes
<1> DEFINE x == executions[e]
<1>1. Sound(x) /\ Shaped(x) /\ x.body.phases \in Seq(PhaseType)
      /\ x.results \in Seq(ResultType) /\ Ordered(x.results)
      /\ (x.pc \in {"initializing", "discovering", "assigned"} => x.results = <<>>)
      /\ (x.pc = "collecting" => AllDone(x))
      /\ (x.pc = "over" <=> x.status \in Outcomes)
  BY DEF ExecInv, Sound
<1>2. CASE Discover(e)
  <2> DEFINE y == [x EXCEPT !.pc = "discovering", !.progress = 30]
  <2>1. Goes(e, y) /\ x.pc = "initializing"
    BY <1>2 DEF Discover, Waits, Execution
  <2>2. y = [status |-> x.status, scenario |-> x.scenario, body |-> x.body, pc |-> "discovering",
             progress |-> 30, assigned |-> x.assigned, phase |-> x.phase,
             settled |-> x.settled, completedPhases |-> x.completedPhases, results |-> x.results]
    BY ZenonT(60), <1>1, PlacedFields
  <2> HIDE DEF y
  <2>3. Sound(y) /\ x.status \notin Outcomes
    BY <1>1, <2>1, <2>2 DEF Sound, Shaped, Outcomes
  <2> QED BY <2>1, <2>3
<1>3. CASE \E n \in 0 .. MostAgents : AgentsAssigned(e, n)
  <2>1. PICK n \in 0 .. MostAgents : AgentsAssigned(e, n)
    BY <1>3
  <2> DEFINE a == [x EXCEPT !.assigned = n]
  <2>2. /\ x.pc = "discovering"
        /\ ExecutionFailed(e, a) \/ Goes(e, [a EXCEPT !.pc = "assigned"])
    BY <2>1 DEF AgentsAssigned, Waits, Execution
  <2>3. a = [status |-> x.status, scenario |-> x.scenario, body |-> x.body, pc |-> x.pc,
             progress |-> x.progress, assigned |-> n, phase |-> x.phase,
             settled |-> x.settled, completedPhases |-> x.completedPhases, results |-> x.results]
    BY <1>1, AssignedFields
  <2> HIDE DEF a
  <2>4. Shaped(a) /\ a.body = x.body /\ a.results = x.results /\ a.status = x.status
    BY <2>3 DEF Shaped
  <2>5. CASE ExecutionFailed(e, a)
    <3> DEFINE y == [a EXCEPT !.status = "failed", !.pc = "over"]
    <3>1. Goes(e, y)
      BY <2>5 DEF ExecutionFailed
    <3>2. y = [status |-> "failed", scenario |-> a.scenario, body |-> a.body, pc |-> "over",
               progress |-> a.progress, assigned |-> a.assigned, phase |-> a.phase,
               settled |-> a.settled, completedPhases |-> a.completedPhases,
               results |-> a.results]
      BY <2>4, FailedFields
    <3> HIDE DEF y
    <3>3. Sound(y) /\ x.status \notin Outcomes
      BY <1>1, <2>2, <2>4, <3>2 DEF Sound, Shaped, Outcomes
    <3> QED BY <3>1, <3>3
  <2>6. CASE Goes(e, [a EXCEPT !.pc = "assigned"])
    <3> DEFINE y == [a EXCEPT !.pc = "assigned"]
    <3>2. y = [status |-> a.status, scenario |-> a.scenario, body |-> a.body, pc |-> "assigned",
               progress |-> a.progress, assigned |-> a.assigned, phase |-> a.phase,
               settled |-> a.settled, completedPhases |-> a.completedPhases,
               results |-> a.results]
      BY <2>4, MovedFields
    <3>1. Goes(e, y)
      BY <2>6
    <3> HIDE DEF y
    <3>3. Sound(y) /\ x.status \notin Outcomes
      BY <1>1, <2>2, <2>4, <3>2 DEF Sound, Shaped, Outcomes
    <3> QED BY <3>1, <3>3
  <2> QED BY <2>2, <2>5, <2>6
<1>4. CASE NoAgents(e)
  <2> DEFINE y == [x EXCEPT !.status = "failed", !.pc = "over"]
  <2>1. Goes(e, y) /\ x.pc = "assigned"
    BY <1>4 DEF NoAgents, ExecutionFailed, Waits, Execution
  <2>2. y = [status |-> "failed", scenario |-> x.scenario, body |-> x.body, pc |-> "over",
             progress |-> x.progress, assigned |-> x.assigned, phase |-> x.phase,
             settled |-> x.settled, completedPhases |-> x.completedPhases, results |-> x.results]
    BY <1>1, FailedFields
  <2> HIDE DEF y
  <2>3. Sound(y) /\ x.status \notin Outcomes
    BY <1>1, <2>1, <2>2 DEF Sound, Shaped, Outcomes
  <2> QED BY <2>1, <2>3
<1>5. CASE StartPhases(e)
  <2> DEFINE a == [x EXCEPT !.progress = 30]
  <2>1. Goes(e, EntersPhase(a, 1)) /\ x.pc = "assigned"
    BY <1>5 DEF StartPhases, Waits, Execution
  <2>2. a = [status |-> x.status, scenario |-> x.scenario, body |-> x.body, pc |-> x.pc,
             progress |-> 30, assigned |-> x.assigned, phase |-> x.phase,
             settled |-> x.settled, completedPhases |-> x.completedPhases, results |-> x.results]
    BY ZenonT(60), <1>1, ProgressFields
  <2> HIDE DEF a
  <2>3. /\ Shaped(a) /\ a.body = x.body /\ a.results = << >> /\ a.status = x.status
        /\ x.status \notin Outcomes
    BY <1>1, <2>1, <2>2 DEF Shaped
  <2>4. Len(a.body.phases) \in Nat /\ a.body.phases \in Seq(PhaseType)
    BY <1>1, <2>3, LenProperties
  <2>5. /\ 1 \in Nat /\ 1 <= Len(a.body.phases) + 1
        /\ \A r \in 1 .. 1 - 1 : PhaseDone(a.body.phases, a.results, r)
        /\ \A i \in DOMAIN a.results : a.results[i].phase < 1
        /\ a.results \in Seq(ResultType) /\ Ordered(a.results)
    BY <2>3, <2>4, EmptyResults
  <2>a. a.status \notin Outcomes /\ Shaped(a)
    BY <2>3
  <2>6. Sound(EntersPhase(a, 1))
    BY <2>a, <2>4, <2>5, EntersSound
  <2> QED BY <2>1, <2>3, <2>6
<1>6. CASE \E outcome \in Outcomes : SequentialTask(e, outcome)
  <2>1. PICK outcome \in Outcomes : SequentialTask(e, outcome)
    BY <1>6
  <2> DEFINE ph == x.body.phases[x.phase]
             t == CHOOSE i \in 1 .. ph.tasks :
                    /\ x.settled[i] = "asked"
                    /\ \A j \in 1 .. i - 1 : x.settled[j] # "asked"
             r == Result(x, t, outcome)
             y == [x EXCEPT !.settled[t] = outcome, !.results = Append(@, r)]
             z == LeavesPhase(x, <<r>>)
  <2>2. /\ x.pc = "tasks" /\ ~ ph.parallel
        /\ IF t = ph.tasks \/ (outcome = "failed" /\ ~ ph.continueOnFailure)
           THEN Goes(e, z) ELSE Goes(e, y)
    BY <2>1 DEF SequentialTask, Waits, Execution
  <2>3. IF t = ph.tasks \/ (outcome = "failed" /\ ~ ph.continueOnFailure)
        THEN Sound(z) ELSE Sound(y)
    BY <1>1, <2>2, SequentialSound
  <2>4. x.status \notin Outcomes
    BY <1>1, <2>2
  <2> HIDE DEF y, z, t
  <2> QED BY <2>2, <2>3, <2>4
<1>7. CASE \E outcome \in Outcomes, t \in 1 .. MostTasks : ParallelTask(e, t, outcome)
  <2>1. PICK outcome \in Outcomes, t \in 1 .. MostTasks : ParallelTask(e, t, outcome)
    BY <1>7
  <2> DEFINE settled == [x.settled EXCEPT ![t] = outcome]
             y == [x EXCEPT !.settled = settled]
             z == LeavesPhase(x, ResultsOf(x, settled))
  <2>2. /\ x.pc = "tasks" /\ x.body.phases[x.phase].parallel /\ t \in DOMAIN x.settled
        /\ IF AllSettled(settled) THEN Goes(e, z) ELSE Goes(e, y)
    BY <2>1 DEF ParallelTask, Waits, Execution
  <2>3. IF AllSettled(settled) THEN Sound(z) ELSE Sound(y)
    BY <1>1, <2>2, ParallelSound
  <2>4. x.status \notin Outcomes
    BY <1>1, <2>2
  <2> HIDE DEF y, z
  <2> QED BY <2>2, <2>3, <2>4
<1>8. CASE ExecutionCompleted(e)
  <2> DEFINE y == [x EXCEPT !.status = "completed", !.pc = "over", !.progress = 100]
  <2>1. Goes(e, y) /\ x.pc = "collecting"
    BY <1>8 DEF ExecutionCompleted, Waits, Execution
  <2>2. y = [status |-> "completed", scenario |-> x.scenario, body |-> x.body, pc |-> "over",
             progress |-> 100, assigned |-> x.assigned, phase |-> x.phase,
             settled |-> x.settled, completedPhases |-> x.completedPhases, results |-> x.results]
    <3>1. Shaped(x)
      BY <1>1
    <3> HIDE DEF x
    <3> QED BY ZenonT(60), <3>1, CompletedFields
  <2> HIDE DEF y
  <2>3. AllDone(y)
    BY <1>1, <2>1, <2>2 DEF AllDone
  <2>4. Sound(y) /\ x.status \notin Outcomes
    BY <1>1, <2>1, <2>2, <2>3 DEF Sound, Shaped, Outcomes
  <2> QED BY <2>1, <2>4
<1> QED BY <1>2, <1>3, <1>4, <1>5, <1>6, <1>7, <1>8 DEF Proceed, Outcomes

\* Every step of the service leaves the executions alone or takes one, not in a
\* final status, to a sound one.
LEMMA ServiceSteps ==
    ASSUME ExecInv, ServiceNext
    PROVE  /\ \A s \in Listed' : scenarios'[s] \in Bodies
           /\ \/ UNCHANGED executions
              \/ \E e \in ExecutionIds : \E y :
                    Goes(e, y) /\ Sound(y) /\ executions[e].status \notin Outcomes
<1>1. CASE \E s \in ScenarioIds : \E body \in Bodies : CreateScenario(s, body) \/ UpdateScenario(s, body)
  BY <1>1 DEF CreateScenario, UpdateScenario, ExecInv, Listed
<1>2. CASE \E s \in ScenarioIds : DeleteScenario(s)
  BY <1>2 DEF DeleteScenario, ExecInv, Listed
<1>3. CASE \E s \in ScenarioIds : \E e \in ExecutionIds : ExecuteScenario(e, s)
  <2>1. PICK s \in ScenarioIds, e \in ExecutionIds : ExecuteScenario(e, s)
    BY <1>3
  <2> DEFINE y == [NoExecution EXCEPT !.status = "running", !.scenario = s, !.body = scenarios[s],
                                      !.pc = "initializing", !.progress = 15]
  <2>2. /\ s \in Listed /\ executions[e].status = "none" /\ Goes(e, y) /\ scenarios' = scenarios
    BY <2>1 DEF ExecuteScenario
  <2>3. y = [status |-> "running", scenario |-> s, body |-> scenarios[s], pc |-> "initializing",
             progress |-> 15, assigned |-> 0, phase |-> 0, settled |-> <<>>,
             completedPhases |-> 0, results |-> <<>>]
    BY StartedFields
  <2> HIDE DEF y
  <2>4. scenarios[s].phases \in Seq(PhaseType)
    BY <2>2, BodiesAssumption DEF ExecInv, PhaseType
  <2>5. Sound(y)
    BY <2>3, <2>4, EmptyResults DEF Sound, Shaped, Outcomes
  <2>6. \A u \in Listed' : scenarios'[u] \in Bodies
    BY <2>2 DEF ExecInv, Listed
  <2> QED BY <2>2, <2>5, <2>6 DEF Outcomes
<1>4. CASE \E e \in ExecutionIds : Proceed(e)
  <2>1. PICK e \in ExecutionIds : Proceed(e)
    BY <1>4
  <2>2. scenarios' = scenarios
    BY <2>1 DEF Proceed, Discover, AgentsAssigned, NoAgents, ExecutionFailed, StartPhases,
       SequentialTask, ParallelTask, ExecutionCompleted
  <2>3. \E y : Goes(e, y) /\ Sound(y) /\ executions[e].status \notin Outcomes
    BY <2>1, ProceedSound
  <2>4. \A u \in Listed' : scenarios'[u] \in Bodies
    BY <2>2 DEF ExecInv, Listed
  <2> QED BY <2>3, <2>4
<1> QED BY <1>1, <1>2, <1>3, <1>4 DEF ServiceNext

\* The route keeps its records, and no record in a final status but by deletion.
LEMMA RouteSteps ==
    ASSUME ExecInv, RouteNext
    PROVE  /\ Recorded' \subseteq RecordIds
           /\ \A r \in Recorded' : records'[r] \in [status : Statuses, results : BOOLEAN]
           /\ \A r \in Recorded : IsFinal(r) => r \notin Recorded' \/ records'[r].status = records[r].status
<1>1. PICK r \in RecordIds :
        \/ StartRecord(r)
        \/ TimerFires(r)
        \/ \E status \in Statuses : UpdateStatus(r, status)
        \/ DeleteRecord(r)
        \/ \E old \in RecordIds : RerunRecord(old, r)
        \/ PurgeRecord(r)
  BY DEF RouteNext
<1>2. \A q \in Recorded : q \in RecordIds /\ records[q] \in [status : Statuses, results : BOOLEAN]
  BY DEF ExecInv
<1>3. ASSUME NEW x \in [status : Statuses, results : BOOLEAN], SetsRecord(r, x),
             r \in Recorded /\ IsFinal(r) => x.status = records[r].status
      PROVE  /\ Recorded' \subseteq RecordIds
             /\ \A q \in Recorded' : records'[q] \in [status : Statuses, results : BOOLEAN]
             /\ \A q \in Recorded : IsFinal(q) => records'[q].status = records[q].status
  <2>1. Recorded' = Recorded \union {r}
        /\ \A q \in Recorded \union {r} : records'[q] = IF q = r THEN x ELSE records[q]
    BY <1>3 DEF SetsRecord, Recorded
  <2> QED BY <1>2, <1>3, <2>1
<1>4. CASE StartRecord(r) \/ \E old \in RecordIds : RerunRecord(old, r)
  <2>1. r \notin Recorded /\ SetsRecord(r, [status |-> "starting", results |-> FALSE])
    BY <1>4 DEF StartRecord, RerunRecord, Unused
  <2>2. [status |-> "starting", results |-> FALSE] \in [status : Statuses, results : BOOLEAN]
    BY DEF Statuses
  <2> QED BY <1>3, <2>1, <2>2
<1>5. CASE UNCHANGED records
  BY <1>2, <1>5 DEF Recorded
<1>6. CASE TimerFires(r)
  <2>1. CASE r \in Recorded /\ records[r].status = "starting"
    <3>1. SetsRecord(r, [records[r] EXCEPT !.status = "running"])
      BY <1>6, <2>1 DEF TimerFires
    <3>2. [records[r] EXCEPT !.status = "running"] \in [status : Statuses, results : BOOLEAN]
      BY <1>2, <2>1 DEF Statuses
    <3>3. ~ IsFinal(r)
      BY <2>1 DEF IsFinal
    <3> QED BY <1>3, <3>1, <3>2, <3>3
  <2> QED BY <1>5, <1>6, <2>1 DEF TimerFires
<1>7. CASE \E status \in Statuses : UpdateStatus(r, status)
  <2>1. PICK status \in Statuses : UpdateStatus(r, status)
    BY <1>7
  <2>2. r \in Recorded /\ ~ IsFinal(r) /\ SetsRecord(r, [records[r] EXCEPT !.status = status])
    BY <2>1 DEF UpdateStatus
  <2>3. [records[r] EXCEPT !.status = status] \in [status : Statuses, results : BOOLEAN]
    BY <1>2, <2>2
  <2> QED BY <1>3, <2>2, <2>3
<1>8. CASE DeleteRecord(r)
  <2>1. records' = [q \in Recorded \ {r} |-> records[q]]
    BY <1>8 DEF DeleteRecord
  <2>2. Recorded' = Recorded \ {r} /\ \A q \in Recorded \ {r} : records'[q] = records[q]
    BY <2>1 DEF Recorded
  <2> QED BY <1>2, <2>2
<1>9. CASE PurgeRecord(r)
  <2>1. r \in Recorded /\ SetsRecord(r, [records[r] EXCEPT !.results = FALSE])
    BY <1>9 DEF PurgeRecord
  <2>2. /\ [records[r] EXCEPT !.results = FALSE] \in [status : Statuses, results : BOOLEAN]
        /\ [records[r] EXCEPT !.results = FALSE].status = records[r].status
    BY <1>2, <2>1
  <2> QED BY <1>3, <2>1, <2>2
<1> QED BY <1>1, <1>4, <1>6, <1>7, <1>8, <1>9

LEMMA ExecutionsSound == Spec => []ExecInv
<1>1. Init => ExecInv
  <2> SUFFICES ASSUME Init PROVE ExecInv
    OBVIOUS
  <2>1. Sound(NoExecution)
    BY EmptyResults DEF Sound, Shaped, Outcomes, NoExecution, NoBody
  <2>2. Recorded = {demoCompleted} /\ records[demoCompleted] = [status |-> "completed", results |-> TRUE]
    BY DEF Init, InitializeDefaultExecutions, Recorded
  <2>3. [status |-> "completed", results |-> TRUE] \in [status : Statuses, results : BOOLEAN]
    BY DEF Statuses
  <2> QED BY <2>1, <2>2, <2>3, DemoAssumption DEF Init, ServiceInit, ExecInv, Listed
<1>2. ExecInv /\ [Next]_vars => ExecInv'
  <2> SUFFICES ASSUME ExecInv, [Next]_vars PROVE ExecInv'
    OBVIOUS
  <2>1. CASE ServiceNext /\ UNCHANGED rvars
    <3>1. CASE UNCHANGED executions
      BY <2>1, <3>1, ServiceSteps DEF ExecInv, rvars, Recorded
    <3>2. CASE \E e \in ExecutionIds : \E y :
                 Goes(e, y) /\ Sound(y) /\ executions[e].status \notin Outcomes
      <4>1. PICK e \in ExecutionIds : \E y : Goes(e, y) /\ Sound(y)
        BY <3>2
      <4>2. PICK y : Goes(e, y) /\ Sound(y)
        BY <4>1
      <4>3. /\ executions' = [f \in ExecutionIds |-> executions'[f]]
            /\ \A f \in ExecutionIds : executions'[f] = IF f = e THEN y ELSE executions[f]
        BY <4>2 DEF Goes, ExecInv
      <4>4. \A f \in ExecutionIds : Sound(executions'[f])
        BY <4>2, <4>3 DEF ExecInv
      <4>5. Recorded' = Recorded /\ records' = records
        BY <2>1 DEF rvars, Recorded
      <4> QED BY <2>1, <4>3, <4>4, <4>5, ServiceSteps DEF ExecInv
    <3> QED BY <2>1, <3>1, <3>2, ServiceSteps
  <2>2. CASE RouteNext /\ UNCHANGED svars
    BY <2>2, RouteSteps DEF ExecInv, svars, Listed
  <2>3. CASE UNCHANGED vars
    BY <2>3 DEF ExecInv, vars, svars, rvars, Listed, Recorded
  <2> QED BY <2>1, <2>2, <2>3 DEF Next
<1> QED BY <1>1, <1>2, PTL DEF Spec

\* The results of an execution follow the plan it was started with
\* (performAsyncExecution, executePhases).
THEOREM ResultsFollowPlans == Spec => []ResultsFollowThePlan
<1>1. ExecInv => ResultsFollowThePlan
  <2> SUFFICES ASSUME ExecInv, NEW e \in ExecutionIds
               PROVE  LET x == executions[e]
                          res == x.results
                      IN  /\ \A i, j \in DOMAIN res : i < j => Before(res[i], res[j])
                          /\ x.status = "completed" =>
                               \A p \in DOMAIN x.body.phases :
                                   Cardinality({i \in DOMAIN res : res[i].phase = p})
                                       = AnsweredTasks(x.body.phases[p], p, res)
    BY DEF ResultsFollowThePlan
  <2> DEFINE x == executions[e]
  <2>1. /\ Ordered(x.results) /\ x.body.phases \in Seq(PhaseType)
        /\ x.status = "completed" => AllDone(x)
    BY DEF ExecInv, Sound
  <2>2. DOMAIN x.body.phases = 1 .. Len(x.body.phases)
    BY <2>1, LenProperties
  <2> QED BY <2>1, <2>2 DEF Ordered, AllDone, PhaseDone, OfPhase
<1> QED BY <1>1, ExecutionsSound, PTL

\* What was shown as completed or failed is shown as that until it is deleted
\* (GET /executions/:executionId).
THEOREM WhatIsFinalStays == Spec => FinalStaysFinal
<1>1. ExecInv /\ ExecInv' /\ [Next]_vars =>
        [\A id \in ExecutionIds \union RecordIds :
           StatusShown(id) \in {"completed", "failed"} =>
              StatusShown(id)' \in {StatusShown(id), "absent"}]_vars
  <2> SUFFICES ASSUME ExecInv, ExecInv', Next, NEW id \in ExecutionIds \union RecordIds,
                      StatusShown(id) \in {"completed", "failed"}
               PROVE  StatusShown(id)' \in {StatusShown(id), "absent"}
    OBVIOUS
  <2>1. Recorded \subseteq RecordIds /\ Recorded' \subseteq RecordIds
    BY DEF ExecInv
  <2>2. CASE id \in ExecutionIds
    <3>1. id \notin Recorded /\ id \notin Recorded'
      BY <2>1, <2>2, IdsAssumption
    <3>2. executions[id].status \in Outcomes /\ StatusShown(id) = executions[id].status
      BY <2>2, <3>1 DEF StatusShown, Outcomes
    <3>3. executions'[id] = executions[id]
      <4>1. CASE RouteNext /\ UNCHANGED svars
        BY <4>1 DEF svars
      <4>2. CASE ServiceNext
        <5>1. CASE UNCHANGED executions
          BY <5>1
        <5>2. CASE \E e \in ExecutionIds : \E y :
                     Goes(e, y) /\ Sound(y) /\ executions[e].status \notin Outcomes
          <6>1. PICK e \in ExecutionIds : \E y : Goes(e, y) /\ executions[e].status \notin Outcomes
            BY <5>2
          <6>2. PICK y : Goes(e, y)
            BY <6>1
          <6>3. e # id
            BY <3>2, <6>1
          <6> QED BY <2>2, <6>2, <6>3 DEF Goes, ExecInv
        <5> QED BY <4>2, <5>1, <5>2, ServiceSteps
      <4> QED BY <4>1, <4>2 DEF Next
    <3> QED BY <2>2, <3>1, <3>2, <3>3 DEF StatusShown
  <2>3. CASE id \in RecordIds
    <3>1. id \notin ExecutionIds
      BY <2>3, IdsAssumption
    <3>2. id \in Recorded /\ StatusShown(id) = records[id].status /\ IsFinal(id)
      BY <3>1 DEF StatusShown, IsFinal
    <3>3. id \notin Recorded' \/ records'[id].status = records[id].status
      <4>1. CASE RouteNext
        BY <3>2, <4>1, RouteSteps
      <4>2. CASE UNCHANGED rvars
        BY <4>2 DEF rvars
      <4> QED BY <4>1, <4>2 DEF Next
    <3> QED BY <3>1, <3>2, <3>3 DEF StatusShown
  <2> QED BY <2>2, <2>3
<1> QED BY <1>1, ExecutionsSound, PTL DEF Spec, FinalStaysFinal
------------------------------------------------------------------------------
(***************************************************************************)
(* The tools of the MCP server                                             *)
(***************************************************************************)

Effects ==
    {"nothing", "create agent", "create realm", "create scenario", "execute scenario",
     "run agent", "update scenario", "ask", "coordinate", "start agent", "create coordinator",
     "travel", "ingest"}

StepType == [does : Effects, answered : 0 .. 2, failed : 0 .. 2]
EffectType == [does : Effects, as : Users \union {Nobody}]

\* What the steps of a program do, and how often.
PromisedBy(tool) == Range(Promised(tool))
Pending(left, e) == Cardinality({i \in DOMAIN left : left[i].does = e})

\* A step whose failure is tolerated, and one that is skipped, are promised by nobody.
Keeps(left, promised) ==
    \A i \in DOMAIN left :
        /\ left[i].failed # 0 => left[i].does \notin promised
        /\ 2 \in {left[i].answered, left[i].failed} =>
              i < Len(left) /\ {left[i].does, left[i + 1].does} \cap promised = {}

Fulfils(program, tool) ==
    /\ Keeps(program, PromisedBy(tool))
    /\ \A e \in PromisedBy(tool) : Pending(program, e) = CountPromised(tool, e)

CallType == [tool : Tools \union {"none"}, user : Users \union {Nobody}, left : Seq(StepType),
             made : Seq(EffectType), answer : {"none", "success", "error"}]

CountIn(did, entry) == Cardinality({i \in DOMAIN did : did[i] = entry})

\* What was done for a call and what is left to do are together what its tool
\* promises; only an asynchronous ask asks.
Whole(x) ==
    LET promised == PromisedBy(x.tool)
        Done(e) == CountIn(x.made, [does |-> e, as |-> x.user])
    IN  /\ x \in CallType
        /\ x.tool # "none" /\ x.answer = "none" =>
              /\ x.left # << >>
              /\ \/ x.left = <<Misread>>
                 \/ /\ Keeps(x.left, promised)
                    /\ \A e \in promised : Done(e) + Pending(x.left, e) = CountPromised(x.tool, e)
              /\ IF x.tool = "ask_agent_async" THEN x.left = <<Does("ask")>>
                 ELSE \A i \in DOMAIN x.left : x.left[i].does # "ask"
        /\ x.answer = "success" =>
              \A e \in promised : Done(e) = CountPromised(x.tool, e)

\* The work on an ask: its agent is run once, after the ask was recorded and
\* before it is completed.
WorkType == [at : {"off", "processing", "get", "execute", "complete", "fail", "done"},
             user : Users \union {Nobody}]

WorkSound(work, ask, ran) ==
    /\ work \in WorkType
    /\ ran \in Seq(Users \union {Nobody}) /\ Len(ran) <= 1
    /\ \A i \in DOMAIN ran : ran[i] = work.user
    /\ ask = "none" => work.at = "off"
    /\ work.at \in {"off", "processing", "get", "execute"} => ran = << >>
    /\ work.at = "complete" \/ ask = "completed" => Len(ran) = 1

McpInv ==
    /\ DOMAIN calls = Calls /\ DOMAIN background = Calls
    /\ DOMAIN asked = Calls /\ DOMAIN ranAs = Calls
    /\ \A c \in Calls :
          /\ Whole(calls[c])
          /\ Running(c) /\ calls[c].tool = "ask_agent_async" => asked[c] = "none"
          /\ WorkSound(background[c], asked[c], ranAs[c])

------------------------------------------------------------------------------

LEMMA PendingIsFinite ==
    ASSUME NEW s \in Seq(StepType), NEW e
    PROVE  IsFiniteSet({i \in DOMAIN s : s[i].does = e}) /\ Pending(s, e) \in Nat
<1> DEFINE P == {i \in DOMAIN s : s[i].does = e}
<1>1. IsFiniteSet(1 .. Len(s)) /\ P \subseteq 1 .. Len(s)
  BY FS_Interval
<1>2. IsFiniteSet(P)
  BY <1>1, FS_Subset
<1> QED BY <1>2, FS_CardinalityType DEF Pending

\* One program after the other.
LEMMA Joined ==
    ASSUME NEW s \in Seq(StepType), NEW t \in Seq(StepType)
    PROVE  /\ s \o t \in Seq(StepType)
           /\ \A e : Pending(s \o t, e) = Pending(s, e) + Pending(t, e)
           /\ \A promised : Keeps(s, promised) /\ Keeps(t, promised) => Keeps(s \o t, promised)
<1> DEFINE st == s \o t
           n == Len(s)
           m == Len(t)
<1>1. /\ st \in Seq(StepType) /\ Len(st) = n + m /\ n \in Nat /\ m \in Nat
      /\ \A i \in 1 .. n : st[i] = s[i]
      /\ \A i \in 1 .. m : st[n + i] = t[i]
      /\ \A i \in n + 1 .. n + m : st[i] = t[i - n]
  BY ConcatProperties
<1> HIDE DEF st
<1>2. DOMAIN st = 1 .. n + m /\ DOMAIN s = 1 .. n /\ DOMAIN t = 1 .. m
  BY <1>1
<1>3. ASSUME NEW e PROVE Pending(st, e) = Pending(s, e) + Pending(t, e)
  <2> DEFINE A == {i \in DOMAIN s : s[i].does = e}
             B == {i \in DOMAIN t : t[i].does = e}
             C == {i \in n + 1 .. n + m : st[i].does = e}
             f == [i \in B |-> n + i]
  <2>1. IsFiniteSet(A) /\ IsFiniteSet(B)
    BY PendingIsFinite
  <2>2. {i \in DOMAIN st : st[i].does = e} = A \union C /\ A \cap C = {}
    BY <1>1, <1>2
  <2>3. f \in Bijection(B, C)
    <3>1. \A i \in B : i \in 1 .. m /\ n + i \in C
      BY <1>1, <1>2
    <3>2. \A j \in C : j - n \in B /\ n + (j - n) = j
      BY <1>1, <1>2
    <3>3. \A i, j \in B : n + i = n + j => i = j
      BY <1>1, <1>2
    <3> HIDE DEF B, C
    <3>4. f \in [B -> C] /\ \A i \in B : f[i] = n + i
      BY <3>1
    <3> HIDE DEF f
    <3>5. \A j \in C : \E i \in B : f[i] = j
      BY <3>2, <3>4
    <3> QED BY <3>3, <3>4, <3>5 DEF Bijection, Injection, Surjection, IsInjective
  <2>4. IsFiniteSet(C) /\ Cardinality(C) = Cardinality(B)
    <3> HIDE DEF B, C, f
    <3> QED BY <2>1, <2>3, FS_Bijection DEF ExistsBijection
  <2>5. Cardinality(A \union C) = Cardinality(A) + Cardinality(C)
    <3>1. Cardinality(A \union C) = Cardinality(A) + Cardinality(C) - Cardinality({})
      <4> HIDE DEF A, B, C
      <4> QED BY <2>1, <2>2, <2>4, FS_Union
    <3>2. Cardinality(A) \in Nat /\ Cardinality(C) \in Nat
      <4> HIDE DEF A, B, C
      <4> QED BY <2>1, <2>4, FS_CardinalityType
    <3> QED BY <3>1, <3>2, FS_EmptySet
  <2> QED BY <2>2, <2>4, <2>5 DEF Pending
<1>4. ASSUME NEW promised, Keeps(s, promised), Keeps(t, promised) PROVE Keeps(st, promised)
  <2> SUFFICES ASSUME NEW i \in DOMAIN st
               PROVE  /\ st[i].failed # 0 => st[i].does \notin promised
                      /\ 2 \in {st[i].answered, st[i].failed} =>
                           i < Len(st) /\ {st[i].does, st[i + 1].does} \cap promised = {}
    BY DEF Keeps
  <2>1. CASE i \in 1 .. n
    <3>1. st[i] = s[i] /\ (i < n => st[i + 1] = s[i + 1])
      BY <1>1, <2>1
    <3> QED BY <1>1, <1>2, <1>4, <2>1, <3>1 DEF Keeps
  <2>2. CASE i \in n + 1 .. n + m
    <3> DEFINE j == i - n
    <3>1. j \in 1 .. m /\ i = n + j
      BY <1>1, <2>2
    <3>2. st[i] = t[j] /\ (j < m => st[i + 1] = t[j + 1])
      BY <1>1, <2>2
    <3> QED BY <1>1, <1>2, <1>4, <3>1, <3>2 DEF Keeps
  <2> QED BY <1>1, <1>2, <2>1, <2>2
<1> QED BY <1>1, <1>3, <1>4 DEF st

LEMMA OneStep ==
    ASSUME NEW a \in StepType
    PROVE  /\ <<a>> \in Seq(StepType)
           /\ \A e : Pending(<<a>>, e) = IF a.does = e THEN 1 ELSE 0
           /\ \A promised : 2 \notin {a.answered, a.failed} /\ (a.failed = 0 \/ a.does \notin promised)
                               => Keeps(<<a>>, promised)
<1>1. <<a>> \in Seq(StepType) /\ DOMAIN <<a>> = {1} /\ <<a>>[1] = a
  OBVIOUS
<1>2. ASSUME NEW e PROVE Pending(<<a>>, e) = IF a.does = e THEN 1 ELSE 0
  <2>1. CASE a.does = e
    <3>1. {i \in DOMAIN <<a>> : <<a>>[i].does = e} = {1}
      BY <1>1, <2>1
    <3> QED BY <2>1, <3>1, FS_Singleton DEF Pending
  <2>2. CASE a.does # e
    <3>1. {i \in DOMAIN <<a>> : <<a>>[i].does = e} = {}
      BY <1>1, <2>2
    <3> QED BY <2>2, <3>1, FS_EmptySet DEF Pending
  <2> QED BY <2>1, <2>2
<1>3. ASSUME NEW promised, 2 \notin {a.answered, a.failed}, a.failed = 0 \/ a.does \notin promised
      PROVE  Keeps(<<a>>, promised)
  BY <1>1, <1>3 DEF Keeps
<1> QED BY <1>1, <1>2, <1>3

\* What is left when a step is done, and when the next is skipped too.
LEMMA Shortened ==
    ASSUME NEW s \in Seq(StepType), s # << >>
    PROVE  /\ Tail(s) = SubSeq(s, 2, Len(s)) /\ Tail(s) \in Seq(StepType)
           /\ Head(s) \in StepType
           /\ \A e : Pending(s, e) = Pending(Tail(s), e) + IF Head(s).does = e THEN 1 ELSE 0
           /\ \A promised : Keeps(s, promised) => Keeps(Tail(s), promised)
<1> DEFINE t == Tail(s)
<1>1. /\ Head(s) \in StepType /\ t \in Seq(StepType) /\ Len(t) = Len(s) - 1
      /\ \A i \in 1 .. Len(t) : t[i] = s[i + 1]
  BY HeadTailProperties
<1>2. Tail(s) = SubSeq(s, 2, Len(s)) /\ Head(s) = s[1]
  OBVIOUS
<1>3. s = <<Head(s)>> \o t
  OBVIOUS
<1>4. ASSUME NEW e PROVE Pending(s, e) = Pending(t, e) + IF Head(s).does = e THEN 1 ELSE 0
  <2> DEFINE h == Head(s)
  <2>1. h \in StepType /\ t \in Seq(StepType) /\ s = <<h>> \o t
    BY <1>1, <1>3
  <2> HIDE DEF h, t
  <2>2. <<h>> \in Seq(StepType) /\ Pending(<<h>>, e) = IF h.does = e THEN 1 ELSE 0
    BY <2>1, OneStep
  <2>3. Pending(<<h>> \o t, e) = Pending(<<h>>, e) + Pending(t, e)
    BY <2>1, <2>2, Joined
  <2>4. Pending(t, e) \in Nat
    BY <2>1, PendingIsFinite
  <2>5. Pending(s, e) = Pending(t, e) + IF h.does = e THEN 1 ELSE 0
    BY <2>1, <2>2, <2>3, <2>4
  <2> QED BY <2>5 DEF h
<1>5. ASSUME NEW promised, Keeps(s, promised) PROVE Keeps(t, promised)
  <2> SUFFICES ASSUME NEW i \in DOMAIN t
               PROVE  /\ t[i].failed # 0 => t[i].does \notin promised
                      /\ 2 \in {t[i].answered, t[i].failed} =>
                           i < Len(t) /\ {t[i].does, t[i + 1].does} \cap promised = {}
    BY DEF Keeps
  <2> HIDE DEF t
  <2>1. i \in 1 .. Len(t) /\ i + 1 \in DOMAIN s /\ t[i] = s[i + 1]
        /\ (i < Len(t) => t[i + 1] = s[i + 2])
    BY <1>1
  <2> QED BY <1>1, <1>5, <2>1 DEF Keeps
<1> QED BY <1>1, <1>2, <1>4, <1>5
------------------------------------------------------------------------------

LEMMA Steps ==
    /\ \A e \in Effects : Does(e) \in StepType /\ Tries(e) \in StepType
    /\ Reads \in StepType /\ Misread \in StepType
    /\ \A a, f \in 0 .. 2 : Step("nothing", a, f) \in StepType
<1>1. \A e \in Effects, a, f \in 0 .. 2 : Step(e, a, f) \in StepType
  BY DEF Step, StepType
<1>2. "nothing" \in Effects
  BY DEF Effects
<1>3. 0 \in 0 .. 2 /\ 1 \in 0 .. 2
  OBVIOUS
<1>4. \A e \in Effects : Step(e, 1, 0) \in StepType /\ Step(e, 1, 1) \in StepType
  BY <1>1, <1>3
<1>5. Step("nothing", 1, 0) \in StepType /\ Step("nothing", 0, 0) \in StepType
  BY <1>1, <1>2, <1>3
<1>6. \A a, f \in 0 .. 2 : Step("nothing", a, f) \in StepType
  BY <1>1, <1>2
<1> QED BY <1>4, <1>5, <1>6 DEF Does, Tries, Reads, Misread

LEMMA ProgramTable ==
    /\ Programs["agent_create"] = AgentCreate
    /\ Programs["realm_create"] = RealmCreate
    /\ Programs["scenario_create"] = ScenarioCreate
    /\ Programs["scenario_execute"] = ScenarioExecute
    /\ Programs["agent_execute"] = AgentExecute
    /\ Programs["assign_task"] = AssignTask
    /\ Programs["create_coordinator"] = CreateCoordinator
    /\ Programs["create_collaboration"] = CreateCollaboration
    /\ Programs["create_agent_team"] = CreateAgentTeam
    /\ Programs["activate_collaboration"] = ActivateCollaboration
    /\ Programs["ask_agent_async"] = AskAgentAsync
    /\ Programs["start_coordination"] = StartCoordination
    /\ Programs["start_orchestrated_coordination"] = StartOrchestrated
    /\ Programs["coordinate_project"] = CoordinateProject
BY DEF Programs

Promising ==
    {"agent_create", "realm_create", "scenario_create", "scenario_execute", "agent_execute",
     "assign_task", "create_coordinator", "create_collaboration", "create_agent_team",
     "activate_collaboration", "ask_agent_async", "start_coordination",
     "start_orchestrated_coordination", "coordinate_project"}

LEMMA OtherPrograms ==
    ASSUME NEW tool \in Tools \ Promising
    PROVE  Programs[tool] \in
             {AgentList, RealmList, ScenarioList, ScenarioStatus, ExecutionStatus, AgentStart,
              AgentReassign, GetCollaborationStatus, AskAgent, AsyncResultTools, CheckAsyncReady,
              GetCoordinationSession, GetPublishedContent, ListPublishedContent,
              GetScenarioExecutionResult, CoordinatorTools, TravelToRealm, RealmTools,
              InteractWithAgent, LocalTools, WorldTreeTools, ResourceRead}
BY DEF Programs, Tools, Promising
------------------------------------------------------------------------------

\* A program whose steps do p k times, and never where it may be left undone.
Worth(s, p, k) == s \in Seq(StepType) /\ Keeps(s, {p}) /\ Pending(s, p) = k

LEMMA WorthJoined ==
    ASSUME NEW p, NEW s, NEW t, NEW k \in Nat, NEW l \in Nat, Worth(s, p, k), Worth(t, p, l)
    PROVE  Worth(s \o t, p, k + l)
BY Joined DEF Worth

LEMMA WorthOfStep ==
    ASSUME NEW p \in Effects \ {"nothing"}
    PROVE  /\ Worth(<< >>, p, 0) /\ Worth(<<Reads>>, p, 0) /\ Worth(<<Misread>>, p, 0)
           /\ Worth(<<Step("nothing", 1, 1)>>, p, 0)
           /\ Worth(<<Does(p)>>, p, 1)
           /\ \A e \in Effects \ {p} : Worth(<<Does(e)>>, p, 0) /\ Worth(<<Tries(e)>>, p, 0)
           /\ Worth(<<Step("nothing", 2, 1), Reads>>, p, 0)
           /\ Worth(<<Step("nothing", 2, 1), Misread>>, p, 0)
           /\ p # "start agent" => Worth(<<Step("nothing", 1, 2), Tries("start agent")>>, p, 0)
<1>1. ASSUME NEW a \in StepType, 2 \notin {a.answered, a.failed}, a.failed = 0 \/ a.does # p
      PROVE  Worth(<<a>>, p, IF a.does = p THEN 1 ELSE 0)
  BY <1>1, OneStep DEF Worth
<1>2. ASSUME NEW a \in StepType, NEW b \in StepType, a.does # p, b.does # p,
             2 \notin {b.answered, b.failed}
      PROVE  Worth(<<a, b>>, p, 0)
  <2> DEFINE s == <<a, b>>
  <2>1. s \in Seq(StepType) /\ Len(s) = 2 /\ s[1] = a /\ s[2] = b /\ DOMAIN s = {1, 2}
    OBVIOUS
  <2> HIDE DEF s
  <2>2. Keeps(s, {p})
    BY <1>2, <2>1 DEF Keeps
  <2>3. {i \in DOMAIN s : s[i].does = p} = {}
    BY <1>2, <2>1
  <2>4. Pending(s, p) = 0
    BY <2>3, FS_EmptySet DEF Pending
  <2> QED BY <2>1, <2>2, <2>4 DEF Worth, s
<1>3. Worth(<< >>, p, 0)
  <2>1. << >> \in Seq(StepType) /\ DOMAIN << >> = {}
    OBVIOUS
  <2>2. {i \in DOMAIN << >> : << >>[i].does = p} = {}
    BY <2>1
  <2>3. Pending(<< >>, p) = 0
    BY <2>2, FS_EmptySet DEF Pending
  <2> QED BY <2>1, <2>3 DEF Worth, Keeps
<1>4. \A a, f \in 0 .. 2 : /\ Step("nothing", a, f).does = "nothing"
                           /\ Step("nothing", a, f).answered = a /\ Step("nothing", a, f).failed = f
  BY DEF Step
<1>5. \A e \in Effects : /\ Does(e).does = e /\ Does(e).answered = 1 /\ Does(e).failed = 0
                         /\ Tries(e).does = e /\ Tries(e).answered = 1 /\ Tries(e).failed = 1
  BY DEF Does, Tries, Step
<1>6. Reads = Step("nothing", 1, 0) /\ Misread = Step("nothing", 0, 0)
  BY DEF Reads, Misread, Does
<1>7. Worth(<<Reads>>, p, 0) /\ Worth(<<Misread>>, p, 0) /\ Worth(<<Step("nothing", 1, 1)>>, p, 0)
  <2>1. \A a, f \in 0 .. 1 : Worth(<<Step("nothing", a, f)>>, p, 0)
    BY <1>1, <1>4, Steps
  <2> QED BY <1>6, <2>1
<1>8. Worth(<<Does(p)>>, p, 1)
  BY <1>1, <1>5, Steps
<1>9. ASSUME NEW e \in Effects \ {p} PROVE Worth(<<Does(e)>>, p, 0) /\ Worth(<<Tries(e)>>, p, 0)
  BY <1>1, <1>5, Steps
<1>10. Worth(<<Step("nothing", 2, 1), Reads>>, p, 0) /\ Worth(<<Step("nothing", 2, 1), Misread>>, p, 0)
  <2>1. \A a, f \in 0 .. 1 : Worth(<<Step("nothing", 2, 1), Step("nothing", a, f)>>, p, 0)
    BY <1>2, <1>4, Steps
  <2> QED BY <1>6, <2>1
<1>11. ASSUME p # "start agent"
       PROVE  Worth(<<Step("nothing", 1, 2), Tries("start agent")>>, p, 0)
  <2> DEFINE a == Step("nothing", 1, 2)
             b == Tries("start agent")
  <2>1. "start agent" \in Effects
    BY DEF Effects
  <2>2. a \in StepType /\ a.does # p
    BY <1>4, Steps
  <2>3. b \in StepType /\ b.does # p /\ 2 \notin {b.answered, b.failed}
    <3>1. b.does = "start agent" /\ b.answered = 1 /\ b.failed = 1
      BY <1>5, <2>1
    <3>2. b \in StepType
      BY <2>1, Steps
    <3>3. b.does # p
      BY ONLY <1>11, <3>1
    <3>4. 2 \notin {b.answered, b.failed}
      BY DEF Tries, Step
    <3> QED BY ONLY <3>2, <3>3, <3>4
  <2> HIDE DEF a, b
  <2>4. Worth(<<a, b>>, p, 0)
    BY <1>2, <2>2, <2>3
  <2> QED BY <2>4 DEF a, b
<1> QED BY <1>3, <1>7, <1>8, <1>9, <1>10, <1>11

\* Programs of several steps, from those of fewer.
LEMMA WorthTuples ==
    ASSUME NEW p, NEW a, NEW b, NEW k \in Nat, NEW l \in Nat, Worth(<<a>>, p, k), Worth(<<b>>, p, l)
    PROVE  /\ Worth(<<a, b>>, p, k + l)
           /\ \A c : \A m \in Nat : Worth(<<c>>, p, m) => Worth(<<a, b, c>>, p, k + l + m)
           /\ \A c, d : Worth(<<c, d>>, p, 0) => Worth(<<c, d, a>>, p, k)
<1>a. a \in StepType /\ b \in StepType
  BY DEF Worth
<1>1. Worth(<<a, b>>, p, k + l)
  <2> DEFINE s == <<a>> \o <<b>>
  <2>a. <<a>> \in Seq(StepType) /\ <<b>> \in Seq(StepType) /\ <<a, b>> \in Seq(StepType)
    BY <1>a
  <2>b. s \in Seq(StepType) /\ Len(s) = 2 /\ s[1] = a /\ s[2] = b
    BY <2>a, ConcatProperties
  <2> HIDE DEF s
  <2>1. <<a, b>> = s
    BY <2>a, <2>b, SeqEqual
  <2> QED BY <2>1, WorthJoined DEF s
<1>2. ASSUME NEW c, NEW m \in Nat, Worth(<<c>>, p, m) PROVE Worth(<<a, b, c>>, p, k + l + m)
  <2>a. c \in StepType
    BY <1>2 DEF Worth
  <2>1. <<a, b, c>> = <<a, b>> \o <<c>>
    BY <1>a, <2>a
  <2> DEFINE n == k + l
  <2>2. n \in Nat /\ Worth(<<a, b>>, p, n)
    BY <1>1
  <2> HIDE DEF n
  <2>3. Worth(<<a, b, c>>, p, n + m)
    BY <1>2, <2>1, <2>2, WorthJoined
  <2> QED BY <2>3 DEF n
<1>3. ASSUME NEW c, NEW d, Worth(<<c, d>>, p, 0) PROVE Worth(<<c, d, a>>, p, k)
  <2>1. <<c, d, a>> = <<c, d>> \o <<a>>
    OBVIOUS
  <2>2. Worth(<<c, d, a>>, p, 0 + k)
    BY <1>3, <2>1, WorthJoined
  <2> QED BY <2>2
<1> QED BY <1>1, <1>2, <1>3
\* How often a step that does e does p.
Weight(e, p) == IF e = p THEN 1 ELSE 0

LEMMA WeightIs ==
    /\ \A e, p : Weight(e, p) \in Nat
    /\ \A e : Weight(e, e) = 1
    /\ \A e, p : e # p => Weight(e, p) = 0
BY DEF Weight

\* The programs of the tools that promise something.
LEMMA PromisingPrograms ==
    ASSUME NEW p \in Effects \ {"nothing"}
    PROVE  /\ \A s \in AgentCreate : Worth(s, p, Weight("create agent", p))
           /\ \A s \in RealmCreate : Worth(s, p, Weight("create realm", p))
           /\ \A s \in ScenarioCreate : Worth(s, p, Weight("create scenario", p))
           /\ \A s \in ScenarioExecute : Worth(s, p, Weight("execute scenario", p))
           /\ \A s \in AgentExecute : Worth(s, p, Weight("run agent", p))
           /\ \A s \in AssignTask \ {<<Misread>>} : Worth(s, p, Weight("run agent", p))
           /\ \A s \in CreateCoordinator : Worth(s, p, Weight("create coordinator", p))
           /\ \A s \in CreateCollaboration :
                 Worth(s, p, Weight("create scenario", p) + Weight("execute scenario", p))
           /\ \A s \in CreateAgentTeam :
                 Worth(s, p, Weight("create agent", p) + Weight("create agent", p))
           /\ \A s \in ActivateCollaboration : Worth(s, p, Weight("update scenario", p))
           /\ \A s \in AskAgentAsync : Worth(s, p, Weight("ask", p))
           /\ \A s \in StartCoordination : Worth(s, p, Weight("coordinate", p))
           /\ \A s \in StartOrchestrated : Worth(s, p, Weight("coordinate", p))
<1> DEFINE w(e) == Weight(e, p)
<1>1. \A e : w(e) \in Nat
  BY WeightIs
<1>2. \A e \in Effects : Worth(<<Does(e)>>, p, w(e))
  <2>1. ASSUME NEW e \in Effects PROVE Worth(<<Does(e)>>, p, w(e))
    <3>1. CASE e = p
      BY <3>1, WeightIs, WorthOfStep
    <3>2. CASE e # p
      BY <3>2, WeightIs, WorthOfStep
    <3> QED BY <3>1, <3>2
  <2> QED BY <2>1
<1>3. /\ "nothing" \in Effects /\ "create agent" \in Effects /\ "create realm" \in Effects
      /\ "create scenario" \in Effects /\ "execute scenario" \in Effects /\ "run agent" \in Effects
      /\ "create coordinator" \in Effects /\ "update scenario" \in Effects /\ "ask" \in Effects
      /\ "coordinate" \in Effects
  BY DEF Effects
<1>4. /\ Worth(<<Reads>>, p, 0) /\ Worth(<<Tries("nothing")>>, p, 0)
      /\ Worth(<<Step("nothing", 1, 1)>>, p, 0) /\ Worth(<<Step("nothing", 2, 1), Reads>>, p, 0)
  BY <1>3, WorthOfStep
<1> HIDE DEF w
<1>5. ASSUME NEW a, NEW n \in Nat, Worth(<<a>>, p, n)
      PROVE  /\ \A z : Worth(<<z>>, p, 0) => Worth(<<z, a>>, p, n) /\ Worth(<<a, z>>, p, n)
             /\ Worth(<<Step("nothing", 2, 1), Reads, a>>, p, n)
  <2>1. ASSUME NEW z, Worth(<<z>>, p, 0) PROVE Worth(<<z, a>>, p, n) /\ Worth(<<a, z>>, p, n)
    <3>1. Worth(<<z, a>>, p, 0 + n) /\ Worth(<<a, z>>, p, n + 0)
      BY <1>5, <2>1, WorthTuples
    <3> QED BY <3>1
  <2>2. Worth(<<Step("nothing", 2, 1), Reads, a>>, p, n)
    BY <1>4, <1>5, WorthTuples
  <2> QED BY <2>1, <2>2
<1>6. \A s \in AgentCreate : Worth(s, p, w("create agent"))
  BY <1>1, <1>2, <1>3, <1>4, <1>5 DEF AgentCreate
<1>7. /\ \A s \in RealmCreate : Worth(s, p, w("create realm"))
      /\ \A s \in ScenarioCreate : Worth(s, p, w("create scenario"))
      /\ \A s \in ScenarioExecute : Worth(s, p, w("execute scenario"))
      /\ \A s \in AgentExecute : Worth(s, p, w("run agent"))
      /\ \A s \in CreateCoordinator : Worth(s, p, w("create coordinator"))
      /\ \A s \in ActivateCollaboration : Worth(s, p, w("update scenario"))
      /\ \A s \in AskAgentAsync : Worth(s, p, w("ask"))
      /\ \A s \in StartCoordination : Worth(s, p, w("coordinate"))
  BY <1>2, <1>3 DEF RealmCreate, ScenarioCreate, ScenarioExecute, AgentExecute, CreateCoordinator,
     ActivateCollaboration, AskAgentAsync, StartCoordination
<1>8. \A s \in AssignTask \ {<<Misread>>} : Worth(s, p, w("run agent"))
  BY <1>1, <1>2, <1>3, <1>4, <1>5 DEF AssignTask
<1>9. \A s \in StartOrchestrated : Worth(s, p, w("coordinate"))
  BY <1>1, <1>2, <1>3, <1>4, <1>5 DEF StartOrchestrated
<1>10. \A s \in CreateCollaboration : Worth(s, p, w("create scenario") + w("execute scenario"))
  <2> DEFINE k == w("create scenario")
             l == w("execute scenario")
  <2>1. k \in Nat /\ l \in Nat /\ Worth(<<Does("create scenario")>>, p, k)
        /\ Worth(<<Does("execute scenario")>>, p, l)
    BY <1>1, <1>2, <1>3
  <2> HIDE DEF k, l
  <2>2. Worth(<<Reads, Does("create scenario"), Does("execute scenario")>>, p, 0 + k + l)
    BY <1>4, <2>1, WorthTuples
  <2>a. k \in Nat /\ l \in Nat
    BY <2>1
  <2>3. 0 + k + l = k + l
    BY ONLY <2>a
  <2> QED BY <2>2, <2>3 DEF CreateCollaboration, k, l
<1>11. \A s \in CreateAgentTeam : Worth(s, p, w("create agent") + w("create agent"))
  <2> DEFINE k == w("create agent")
             two == <<Does("create agent"), Tries("nothing")>>
             four == <<Does("create agent"), Tries("nothing"), Does("create agent"), Tries("nothing")>>
  <2>1. k \in Nat /\ Worth(two, p, k)
    BY <1>1, <1>2, <1>3, <1>4, <1>5
  <2>2. four = two \o two
    <3> DEFINE a == Does("create agent")
               z == Tries("nothing")
               both == two \o two
    <3>1. a \in StepType /\ z \in StepType
      BY <1>3, Steps
    <3>2. two = <<a, z>> /\ four = <<a, z, a, z>>
      OBVIOUS
    <3> HIDE DEF a, z, two, four
    <3>3. /\ two \in Seq(StepType) /\ Len(two) = 2 /\ two[1] = a /\ two[2] = z
          /\ four \in Seq(StepType) /\ Len(four) = 4
          /\ four[1] = a /\ four[2] = z /\ four[3] = a /\ four[4] = z
      BY <3>1, <3>2
    <3>4. /\ both \in Seq(StepType) /\ Len(both) = 4
          /\ \A i \in 1 .. 4 : both[i] = IF i <= 2 THEN two[i] ELSE two[i - 2]
      <4>1. /\ both \in Seq(StepType) /\ Len(both) = Len(two) + Len(two)
            /\ \A i \in 1 .. Len(two) + Len(two) :
                  both[i] = IF i <= Len(two) THEN two[i] ELSE two[i - Len(two)]
        BY <3>3, ConcatProperties
      <4> HIDE DEF both
      <4>2. Len(two) = 2 /\ Len(two) + Len(two) = 4
        BY <3>3
      <4> QED BY <4>1, <4>2
    <3> HIDE DEF both
    <3>5. /\ both[1] = a /\ both[2] = z /\ both[3] = a /\ both[4] = z
      BY <3>3, <3>4
    <3>6. ASSUME NEW i \in 1 .. 4 PROVE four[i] = both[i]
      <4>1. i = 1 \/ i = 2 \/ i = 3 \/ i = 4
        OBVIOUS
      <4> QED BY <3>3, <3>5, <4>1
    <3>7. four = both
      BY <3>3, <3>4, <3>6, SeqEqual
    <3> QED BY <3>7 DEF both
  <2> HIDE DEF two, k
  <2>3. Worth(four, p, k + k)
    <3> HIDE DEF four
    <3> QED BY <2>1, <2>2, WorthJoined
  <2> QED BY <2>3 DEF CreateAgentTeam, k
<1> QED BY <1>6, <1>7, <1>8, <1>9, <1>10, <1>11 DEF w
LEMMA CoordinateProjectPrograms ==
    ASSUME NEW p \in {"coordinate", "ask"}, NEW s \in CoordinateProject
    PROVE  Worth(s, p, Weight("coordinate", p))
<1>1. p \in Effects \ {"nothing"} /\ p # "start agent"
  BY DEF Effects
<1>2. /\ "run agent" \in Effects \ {p} /\ "create agent" \in Effects \ {p}
      /\ "nothing" \in Effects \ {p} /\ "start agent" \in Effects \ {p}
      /\ "coordinate" \in Effects
  BY DEF Effects
<1>3. ASSUME NEW t, NEW u, NEW k \in Nat, Worth(t, p, 0), Worth(u, p, k)
      PROVE  Worth(t \o u, p, k)
  <2>1. Worth(t \o u, p, 0 + k)
    BY <1>3, WorthJoined
  <2> QED BY <2>1
<1>4. PICK analysis \in Analysed, found \in Detected, activation \in Activation :
        s = Coordinates(analysis, found, activation)
  BY DEF CoordinateProject
<1>5. Worth(analysis, p, 0)
  BY <1>1, <1>2, WorthOfStep DEF Analysed
<1>6. Worth(found, p, 0)
  BY <1>1, <1>2, WorthOfStep DEF Detected
<1>7. Worth(activation, p, 0)
  BY <1>1, <1>2, WorthOfStep DEF Activation
<1>8. Worth(<<Does("coordinate")>>, p, Weight("coordinate", p)) /\ Weight("coordinate", p) \in Nat
  <2>1. CASE p = "coordinate"
    BY <1>1, <2>1, WeightIs, WorthOfStep
  <2>2. CASE p = "ask"
    <3>1. "coordinate" # p
      BY <2>2
    <3> QED BY <1>1, <1>2, <3>1, WeightIs, WorthOfStep
  <2> QED BY <2>1, <2>2
<1>9. Worth(<<Reads>>, p, 0)
  BY <1>1, WorthOfStep
<1>10. Worth(<<Reads>> \o analysis, p, 0)
  BY <1>3, <1>5, <1>9
<1>11. Worth(<<Reads>> \o analysis \o <<Reads>>, p, 0)
  BY <1>3, <1>9, <1>10
<1>12. Worth(<<Reads>> \o analysis \o <<Reads>> \o found, p, 0)
  BY <1>3, <1>6, <1>11
<1>13. Worth(<<Reads>> \o analysis \o <<Reads>> \o found \o activation, p, 0)
  BY <1>3, <1>7, <1>12
<1>14. Worth(<<Reads>> \o analysis \o <<Reads>> \o found \o activation \o <<Does("coordinate")>>,
             p, Weight("coordinate", p))
  BY <1>3, <1>8, <1>13
<1> QED BY <1>4, <1>14 DEF Coordinates

\* The others ask nothing.
LEMMA QuietPrograms ==
    ASSUME NEW tool \in Tools \ {"ask_agent_async"}, NEW s \in Programs[tool]
    PROVE  Worth(s, "ask", 0)
<1> DEFINE Quiet(S) == \A t \in S : Worth(t, "ask", 0)
<1>1. /\ "ask" \in Effects \ {"nothing"} /\ "nothing" \in Effects \ {"ask"}
      /\ "run agent" \in Effects \ {"ask"} /\ "travel" \in Effects \ {"ask"}
      /\ "ingest" \in Effects \ {"ask"}
  BY DEF Effects
<1>2. ASSUME NEW a, NEW b, Worth(<<a>>, "ask", 0), Worth(<<b>>, "ask", 0)
      PROVE  /\ Worth(<<a, b>>, "ask", 0)
             /\ \A c : Worth(<<c>>, "ask", 0) => Worth(<<a, b, c>>, "ask", 0)
  <2>1. Worth(<<a, b>>, "ask", 0 + 0)
    BY <1>2, WorthTuples
  <2>2. ASSUME NEW c, Worth(<<c>>, "ask", 0) PROVE Worth(<<a, b, c>>, "ask", 0)
    <3>1. Worth(<<a, b, c>>, "ask", 0 + 0 + 0)
      BY <1>2, <2>2, WorthTuples
    <3> QED BY <3>1
  <2> QED BY <2>1, <2>2
<1>3. /\ Worth(<< >>, "ask", 0) /\ Worth(<<Reads>>, "ask", 0) /\ Worth(<<Misread>>, "ask", 0)
      /\ Worth(<<Tries("nothing")>>, "ask", 0) /\ Worth(<<Does("run agent")>>, "ask", 0)
      /\ Worth(<<Does("travel")>>, "ask", 0) /\ Worth(<<Does("ingest")>>, "ask", 0)
      /\ Worth(<<Step("nothing", 2, 1), Misread>>, "ask", 0)
  BY <1>1, WorthOfStep
<1>4. /\ Quiet(RealmList) /\ Quiet(ScenarioList) /\ Quiet(ScenarioStatus) /\ Quiet(ExecutionStatus)
      /\ Quiet(AgentStart) /\ Quiet(AgentReassign) /\ Quiet(AsyncResultTools)
      /\ Quiet(GetCoordinationSession) /\ Quiet(GetScenarioExecutionResult)
      /\ Quiet(CoordinatorTools) /\ Quiet(TravelToRealm) /\ Quiet(RealmTools)
      /\ Quiet(InteractWithAgent) /\ Quiet(LocalTools) /\ Quiet(WorldTreeTools)
      /\ Quiet(ResourceRead) /\ Quiet(ListPublishedContent) /\ Quiet(GetPublishedContent)
  BY <1>3 DEF RealmList, ScenarioList, ScenarioStatus, ExecutionStatus, AgentStart, AgentReassign,
     AsyncResultTools, GetCoordinationSession, GetScenarioExecutionResult, CoordinatorTools,
     TravelToRealm, RealmTools, InteractWithAgent, LocalTools, WorldTreeTools, ResourceRead,
     ListPublishedContent, GetPublishedContent
<1>5. Quiet(AgentList) /\ Quiet(GetCollaborationStatus) /\ Quiet(AskAgent) /\ Quiet(CheckAsyncReady)
  BY <1>2, <1>3 DEF AgentList, GetCollaborationStatus, AskAgent, TakenAsync, CheckAsyncReady
<1>6. CASE tool \notin Promising
  <2>1. Quiet(Programs[tool])
    BY <1>4, <1>5, <1>6, OtherPrograms
  <2> QED BY <2>1
<1>7. CASE tool \in Promising
  <2>1. /\ Weight("create agent", "ask") = 0 /\ Weight("create realm", "ask") = 0
        /\ Weight("create scenario", "ask") = 0 /\ Weight("execute scenario", "ask") = 0
        /\ Weight("run agent", "ask") = 0 /\ Weight("create coordinator", "ask") = 0
        /\ Weight("update scenario", "ask") = 0 /\ Weight("coordinate", "ask") = 0
    BY DEF Weight
  <2>2. /\ Quiet(AgentCreate) /\ Quiet(RealmCreate) /\ Quiet(ScenarioCreate)
        /\ Quiet(ScenarioExecute) /\ Quiet(AgentExecute) /\ Quiet(CreateCoordinator)
        /\ Quiet(ActivateCollaboration) /\ Quiet(StartCoordination) /\ Quiet(StartOrchestrated)
        /\ Quiet(AssignTask \ {<<Misread>>}) /\ Quiet(CreateCollaboration)
        /\ Quiet(CreateAgentTeam)
    <3>1. 0 + 0 = 0
      OBVIOUS
    <3> QED BY <1>1, <2>1, <3>1, PromisingPrograms
  <2>3. Quiet(CoordinateProject)
    BY <2>1, CoordinateProjectPrograms
  <2>4. Quiet(AssignTask)
    BY <1>3, <2>2
  <2> QED BY <1>7, <2>2, <2>3, <2>4, ProgramTable DEF Promising
<1> QED BY <1>6, <1>7

------------------------------------------------------------------------------

\* What a tool promises is what its programs, if they can be answered, do.
LEMMA PromiseKept ==
    ASSUME NEW tool, NEW s
    PROVE  /\ Promised(tool) = << >> /\ Worth(s, "ask", 0) => Fulfils(s, tool)
           /\ \A p : Promised(tool) = <<p>> /\ Worth(s, p, 1) => Fulfils(s, tool)
           /\ \A p : Promised(tool) = <<p, p>> /\ Worth(s, p, 2) => Fulfils(s, tool)
           /\ \A p, q : Promised(tool) = <<p, q>> /\ p # q /\ Worth(s, p, 1) /\ Worth(s, q, 1)
                          => Fulfils(s, tool)
<1>1. ASSUME Promised(tool) = << >>, Worth(s, "ask", 0) PROVE Fulfils(s, tool)
  <2>1. PromisedBy(tool) = {}
    BY <1>1 DEF PromisedBy, Range
  <2> QED BY <1>1, <2>1 DEF Fulfils, Worth, Keeps
<1>2. ASSUME NEW p, Promised(tool) = <<p>>, Worth(s, p, 1) PROVE Fulfils(s, tool)
  <2>1. PromisedBy(tool) = {p}
    BY <1>2 DEF PromisedBy, Range
  <2>2. {i \in DOMAIN Promised(tool) : Promised(tool)[i] = p} = {1}
    BY <1>2
  <2>3. CountPromised(tool, p) = 1
    BY <2>2, FS_Singleton DEF CountPromised
  <2> QED BY <1>2, <2>1, <2>3 DEF Fulfils, Worth
<1>3. ASSUME NEW p, Promised(tool) = <<p, p>>, Worth(s, p, 2) PROVE Fulfils(s, tool)
  <2>1. PromisedBy(tool) = {p}
    BY <1>3 DEF PromisedBy, Range
  <2>2. {i \in DOMAIN Promised(tool) : Promised(tool)[i] = p} = 1 .. 2
    BY <1>3
  <2>3. Cardinality(1 .. 2) = 2
    <3>1. 1 \in Int /\ 2 \in Int /\ ~ (1 > 2) /\ 2 - 1 + 1 = 2
      OBVIOUS
    <3> QED BY <3>1, FS_Interval
  <2>4. CountPromised(tool, p) = 2
    BY <2>2, <2>3 DEF CountPromised
  <2> QED BY <1>3, <2>1, <2>4 DEF Fulfils, Worth
<1>4. ASSUME NEW p, NEW q, Promised(tool) = <<p, q>>, p # q, Worth(s, p, 1), Worth(s, q, 1)
      PROVE  Fulfils(s, tool)
  <2>1. PromisedBy(tool) = {p, q}
    BY <1>4 DEF PromisedBy, Range
  <2>2. {i \in DOMAIN Promised(tool) : Promised(tool)[i] = p} = {1}
    BY <1>4
  <2>3. {i \in DOMAIN Promised(tool) : Promised(tool)[i] = q} = {2}
    BY <1>4
  <2>4. CountPromised(tool, p) = 1 /\ CountPromised(tool, q) = 1
    BY <2>2, <2>3, FS_Singleton DEF CountPromised
  <2>5. Keeps(s, {p, q})
    <3>1. Keeps(s, {p}) /\ Keeps(s, {q})
      BY <1>4 DEF Worth
    <3> QED BY <3>1 DEF Keeps
  <2> QED BY <1>4, <2>1, <2>4, <2>5 DEF Fulfils, Worth
<1>5. \A p : Promised(tool) = <<p>> /\ Worth(s, p, 1) => Fulfils(s, tool)
  BY <1>2
<1>6. \A p : Promised(tool) = <<p, p>> /\ Worth(s, p, 2) => Fulfils(s, tool)
  BY <1>3
<1>7. \A p, q : Promised(tool) = <<p, q>> /\ p # q /\ Worth(s, p, 1) /\ Worth(s, q, 1)
                 => Fulfils(s, tool)
  BY <1>4
<1> QED BY <1>1, <1>5, <1>6, <1>7

LEMMA PromiseTable ==
    /\ Promised("agent_create") = <<"create agent">>
    /\ Promised("realm_create") = <<"create realm">>
    /\ Promised("scenario_create") = <<"create scenario">>
    /\ Promised("scenario_execute") = <<"execute scenario">>
    /\ Promised("agent_execute") = <<"run agent">>
    /\ Promised("assign_task") = <<"run agent">>
    /\ Promised("create_coordinator") = <<"create coordinator">>
    /\ Promised("create_collaboration") = <<"create scenario", "execute scenario">>
    /\ Promised("create_agent_team") = <<"create agent", "create agent">>
    /\ Promised("activate_collaboration") = <<"update scenario">>
    /\ Promised("ask_agent_async") = <<"ask">>
    /\ Promised("start_coordination") = <<"coordinate">>
    /\ Promised("start_orchestrated_coordination") = <<"coordinate">>
    /\ Promised("coordinate_project") = <<"coordinate">>
    /\ \A tool \in Tools \ Promising : Promised(tool) = << >>
BY DEF Promised, Promising, Tools

LEMMA ProgramsFulfil ==
    ASSUME NEW tool \in Tools, NEW s \in Programs[tool], s # <<Misread>>
    PROVE  s \in Seq(StepType) /\ Fulfils(s, tool)
<1>1. CASE tool \notin Promising
  <2>1. Worth(s, "ask", 0)
    BY <1>1, QuietPrograms DEF Promising
  <2> QED BY <1>1, <2>1, PromiseTable, PromiseKept DEF Worth
<1>2. CASE tool \in Promising
  <2>1. \E p \in Effects \ {"nothing"} :
           \/ Promised(tool) = <<p>> /\ Worth(s, p, 1)
           \/ Promised(tool) = <<p, p>> /\ Worth(s, p, 2)
           \/ \E q : /\ Promised(tool) = <<p, q>> /\ p # q
                     /\ Worth(s, p, 1) /\ Worth(s, q, 1)
    <3>1. CASE tool = "create_collaboration"
      <4> DEFINE p == "create scenario"
                 q == "execute scenario"
      <4>1. p \in Effects \ {"nothing"} /\ q \in Effects \ {"nothing"} /\ p # q
        BY DEF Effects
      <4>2. /\ Weight("create scenario", p) + Weight("execute scenario", p) = 1
            /\ Weight("create scenario", q) + Weight("execute scenario", q) = 1
        BY DEF Weight
      <4>3. s \in CreateCollaboration
        BY <3>1, ProgramTable
      <4>4. Worth(s, p, 1) /\ Worth(s, q, 1)
        BY <4>1, <4>2, <4>3, PromisingPrograms
      <4> QED BY <3>1, <4>1, <4>4, PromiseTable
    <3>2. CASE tool = "create_agent_team"
      <4>1. "create agent" \in Effects \ {"nothing"}
        BY DEF Effects
      <4>2. Weight("create agent", "create agent") + Weight("create agent", "create agent") = 2
        BY DEF Weight
      <4>3. s \in CreateAgentTeam
        BY <3>2, ProgramTable
      <4>4. Worth(s, "create agent", 2)
        BY <4>1, <4>2, <4>3, PromisingPrograms
      <4> QED BY <3>2, <4>1, <4>4, PromiseTable
    <3>3. CASE tool = "coordinate_project"
      <4>1. "coordinate" \in Effects \ {"nothing"}
        BY DEF Effects
      <4>2. Worth(s, "coordinate", 1)
        BY <3>3, ProgramTable, CoordinateProjectPrograms, WeightIs
      <4> QED BY <3>3, <4>1, <4>2, PromiseTable
    <3>4. CASE tool \notin {"create_collaboration", "create_agent_team", "coordinate_project"}
      <4>1. PICK p \in Effects \ {"nothing"} :
               Promised(tool) = <<p>> /\ \A t \in Programs[tool] \ {<<Misread>>} : Worth(t, p, Weight(p, p))
        <5>1. /\ "create agent" \in Effects \ {"nothing"}
              /\ "create realm" \in Effects \ {"nothing"}
              /\ "create scenario" \in Effects \ {"nothing"}
              /\ "execute scenario" \in Effects \ {"nothing"}
              /\ "run agent" \in Effects \ {"nothing"}
              /\ "create coordinator" \in Effects \ {"nothing"}
              /\ "update scenario" \in Effects \ {"nothing"}
              /\ "ask" \in Effects \ {"nothing"}
              /\ "coordinate" \in Effects \ {"nothing"}
          BY DEF Effects
        <5>2. /\ \A t \in AgentCreate : Worth(t, "create agent", Weight("create agent", "create agent"))
              /\ \A t \in RealmCreate : Worth(t, "create realm", Weight("create realm", "create realm"))
              /\ \A t \in ScenarioCreate : Worth(t, "create scenario", Weight("create scenario", "create scenario"))
              /\ \A t \in ScenarioExecute : Worth(t, "execute scenario", Weight("execute scenario", "execute scenario"))
              /\ \A t \in AgentExecute : Worth(t, "run agent", Weight("run agent", "run agent"))
              /\ \A t \in AssignTask \ {<<Misread>>} : Worth(t, "run agent", Weight("run agent", "run agent"))
              /\ \A t \in CreateCoordinator : Worth(t, "create coordinator", Weight("create coordinator", "create coordinator"))
              /\ \A t \in ActivateCollaboration : Worth(t, "update scenario", Weight("update scenario", "update scenario"))
              /\ \A t \in AskAgentAsync : Worth(t, "ask", Weight("ask", "ask"))
              /\ \A t \in StartCoordination : Worth(t, "coordinate", Weight("coordinate", "coordinate"))
              /\ \A t \in StartOrchestrated : Worth(t, "coordinate", Weight("coordinate", "coordinate"))
          BY <5>1, PromisingPrograms
        <5> QED BY <1>2, <3>4, <5>1, <5>2, ProgramTable, PromiseTable DEF Promising
      <4> QED BY <4>1, WeightIs
    <3> QED BY <3>1, <3>2, <3>3, <3>4
  <2>2. s \in Seq(StepType)
    BY <2>1 DEF Worth
  <2> QED BY <2>1, <2>2, PromiseKept
<1> QED BY <1>1, <1>2
------------------------------------------------------------------------------

LEMMA PromisedEffects ==
    ASSUME NEW tool \in Tools
    PROVE  "nothing" \notin PromisedBy(tool) /\ PromisedBy(tool) \subseteq Effects
<1>1. CASE tool \notin Promising
  <2>1. Promised(tool) = << >>
    BY <1>1, PromiseTable
  <2> QED BY <2>1 DEF PromisedBy, Range
<1>a. ASSUME NEW p, NEW q, Promised(tool) = <<p, q>> PROVE PromisedBy(tool) = {p, q}
  BY <1>a DEF PromisedBy, Range
<1>2. CASE tool \in Promising
  <2> DEFINE E == Effects \ {"nothing"}
  <2>1. /\ "create agent" \in E /\ "create realm" \in E /\ "create scenario" \in E
        /\ "execute scenario" \in E /\ "run agent" \in E /\ "create coordinator" \in E
        /\ "update scenario" \in E /\ "ask" \in E /\ "coordinate" \in E
    BY DEF Effects
  <2> HIDE DEF E
  <2>2. CASE tool = "create_collaboration"
    <3>1. Promised(tool) = <<"create scenario", "execute scenario">>
      BY <2>2, PromiseTable
    <3>2. PromisedBy(tool) = {"create scenario", "execute scenario"}
      BY <1>a, <3>1
    <3>3. PromisedBy(tool) \subseteq E
      BY <2>1, <3>2
    <3> QED BY <3>3 DEF E
  <2>3. CASE tool = "create_agent_team"
    <3>1. Promised(tool) = <<"create agent", "create agent">>
      BY <2>3, PromiseTable
    <3>2. PromisedBy(tool) = {"create agent"}
      BY <1>a, <3>1
    <3>3. PromisedBy(tool) \subseteq E
      BY <2>1, <3>2
    <3> QED BY <3>3 DEF E
  <2>4. CASE tool \notin {"create_collaboration", "create_agent_team"}
    <3>1. PICK p \in E : Promised(tool) = <<p>>
      BY <1>2, <2>1, <2>4, PromiseTable DEF Promising
    <3>2. PromisedBy(tool) = {p}
      BY <3>1 DEF PromisedBy, Range
    <3>3. PromisedBy(tool) \subseteq E
      BY <3>1, <3>2
    <3> QED BY <3>3 DEF E
  <2> QED BY <2>2, <2>3, <2>4
<1> QED BY <1>1, <1>2

\* One more done.
LEMMA OneMore ==
    ASSUME NEW did \in Seq(EffectType), NEW a \in EffectType
    PROVE  /\ Append(did, a) \in Seq(EffectType)
           /\ \A e : /\ CountIn(did, e) \in Nat
                     /\ CountIn(Append(did, a), e) = CountIn(did, e) + IF a = e THEN 1 ELSE 0
<1> DEFINE new == Append(did, a)
           n == Len(did)
<1>1. /\ new \in Seq(EffectType) /\ n \in Nat /\ DOMAIN did = 1 .. n /\ DOMAIN new = 1 .. n + 1
      /\ \A i \in 1 .. n : new[i] = did[i]
      /\ new[n + 1] = a
  BY AppendProperties
<1> HIDE DEF new
<1>2. ASSUME NEW e
      PROVE  CountIn(did, e) \in Nat /\ CountIn(new, e) = CountIn(did, e) + IF a = e THEN 1 ELSE 0
  <2> DEFINE D == {i \in DOMAIN did : did[i] = e}
             N == {i \in DOMAIN new : new[i] = e}
  <2>1. IsFiniteSet(D)
    <3>1. IsFiniteSet(1 .. n) /\ D \subseteq 1 .. n
      BY <1>1, FS_Interval
    <3> QED BY <3>1, FS_Subset
  <2>2. Cardinality(D) \in Nat
    BY <2>1, FS_CardinalityType
  <2>3. CASE a = e
    <3>1. N = D \union {n + 1} /\ n + 1 \notin D
      BY <1>1, <2>3
    <3>2. Cardinality(D \union {n + 1}) = Cardinality(D) + 1
      <4> HIDE DEF D, n
      <4> QED BY <2>1, <3>1, FS_AddElement
    <3> QED BY <2>2, <2>3, <3>1, <3>2 DEF CountIn
  <2>4. CASE a # e
    <3>1. N = D
      BY <1>1, <2>4
    <3>2. CountIn(new, e) = Cardinality(D) /\ CountIn(did, e) = Cardinality(D)
      BY <3>1 DEF CountIn
    <3> QED BY <2>2, <2>4, <3>2
  <2> QED BY <2>3, <2>4
<1> QED BY <1>1, <1>2 DEF new

\* What a program has left after a step was answered, failed or was lost.
Rest(s, on) == SubSeq(s, on + 1, Len(s))

LEMMA RestOf ==
    ASSUME NEW s \in Seq(StepType), s # << >>, NEW on \in {Head(s).answered, Head(s).failed}, on # 0
    PROVE  /\ Rest(s, on) \in Seq(StepType)
           /\ \A i \in DOMAIN Rest(s, on) : \E j \in DOMAIN s : Rest(s, on)[i] = s[j]
           /\ \A promised : Keeps(s, promised) =>
                 /\ Keeps(Rest(s, on), promised)
                 /\ on = Head(s).failed => Head(s).does \notin promised
                 /\ \A e \in promised :
                       Pending(s, e) = Pending(Rest(s, on), e) + IF Head(s).does = e THEN 1 ELSE 0
<1>1. /\ Head(s) \in StepType /\ Head(s) = s[1] /\ 1 \in DOMAIN s /\ Len(s) \in Nat \ {0}
      /\ DOMAIN s = 1 .. Len(s) /\ \A i \in DOMAIN s : s[i] \in StepType
  OBVIOUS
<1>2. on \in {1, 2}
  BY <1>1 DEF StepType
<1>3. /\ Rest(s, on) \in Seq(StepType)
      /\ \A i \in DOMAIN Rest(s, on) : \E j \in DOMAIN s : Rest(s, on)[i] = s[j]
  <2> DEFINE m == on + 1
             n == Len(s)
  <2>1. m \in Int /\ n \in Int /\ m > 0 /\ \A i \in m .. n : s[i] \in StepType /\ i \in DOMAIN s
    BY <1>1, <1>2
  <2> HIDE DEF m, n
  <2>2. /\ SubSeq(s, m, n) \in Seq(StepType)
        /\ Len(SubSeq(s, m, n)) = IF m <= n THEN n - m + 1 ELSE 0
        /\ \A i \in 1 .. n - m + 1 : SubSeq(s, m, n)[i] = s[m + i - 1]
    BY <2>1, SubSeqProperties
  <2>3. ASSUME NEW i \in DOMAIN SubSeq(s, m, n)
        PROVE \E j \in DOMAIN s : SubSeq(s, m, n)[i] = s[j]
    <3>1. i \in 1 .. n - m + 1 /\ m + i - 1 \in m .. n
      BY <2>1, <2>2
    <3> QED BY <2>1, <2>2, <3>1
  <2> QED BY <2>2, <2>3 DEF Rest, m, n
<1>4. CASE on = 1
  <2>1. Rest(s, on) = Tail(s)
    BY <1>4, Shortened DEF Rest
  <2>2. ASSUME NEW promised, Keeps(s, promised)
        PROVE on = Head(s).failed => Head(s).does \notin promised
    BY <1>1, <1>4, <2>2 DEF Keeps
  <2> QED BY <1>3, <2>1, <2>2, Shortened
<1>5. CASE on = 2
  <2>1. ASSUME NEW promised, Keeps(s, promised)
        PROVE  /\ Keeps(Rest(s, on), promised)
               /\ Head(s).does \notin promised
               /\ \A e \in promised : Pending(s, e) = Pending(Rest(s, on), e)
    <3>1. 1 < Len(s) /\ {s[1].does, s[2].does} \cap promised = {}
      BY <1>1, <1>5, <2>1 DEF Keeps
    <3> DEFINE t == Tail(s)
    <3>a. t \in Seq(StepType) /\ Len(t) = Len(s) - 1 /\ \A i \in 1 .. Len(t) : t[i] = s[i + 1]
      BY HeadTailProperties
    <3>b. t # << >> /\ Head(t) = s[2]
      <4> HIDE DEF t
      <4> QED BY <1>1, <3>1, <3>a
    <3>c. Tail(t) = Rest(s, on)
      <4>1. Tail(t) = SubSeq(t, 2, Len(t)) /\ t = SubSeq(s, 2, Len(s))
        BY <3>a, <3>b
      <4> QED BY <1>1, <1>5, <3>1, <3>a, <4>1 DEF Rest
    <3>2. t \in Seq(StepType) /\ t # << >> /\ Head(t) = s[2] /\ Tail(t) = Rest(s, on)
      BY <3>a, <3>b, <3>c
    <3>3. Keeps(t, promised) /\ \A e \in promised : Pending(s, e) = Pending(t, e) + 0
      BY <1>1, <2>1, <3>1, Shortened
    <3> HIDE DEF t
    <3>4. Keeps(Tail(t), promised) /\ \A e \in promised : Pending(t, e) = Pending(Tail(t), e) + 0
      BY <3>1, <3>2, <3>3, Shortened
    <3>5. \A e \in promised : Pending(t, e) \in Nat /\ Pending(Tail(t), e) \in Nat
      BY <1>3, <3>2, PendingIsFinite
    <3>6. Head(s).does \notin promised
      BY <1>1, <3>1
    <3>7. ASSUME NEW e \in promised PROVE Pending(s, e) = Pending(Rest(s, on), e)
      <4>1. Pending(s, e) = Pending(t, e) + 0 /\ Pending(t, e) = Pending(Tail(t), e) + 0
        BY <3>3, <3>4
      <4>2. Pending(t, e) \in Nat /\ Pending(Tail(t), e) \in Nat
        BY <3>5
      <4>3. Pending(s, e) = Pending(Tail(t), e)
        BY <4>1, <4>2
      <4> QED BY <3>2, <4>3
    <3> QED BY <3>2, <3>4, <3>6, <3>7
  <2>2. ASSUME NEW promised, Keeps(s, promised), NEW e \in promised
        PROVE Pending(s, e) = Pending(Rest(s, on), e) + IF Head(s).does = e THEN 1 ELSE 0
    <3>1. Pending(Rest(s, on), e) \in Nat
      BY <1>3, PendingIsFinite
    <3> QED BY <2>1, <2>2, <3>1
  <2> QED BY <1>3, <2>1, <2>2
<1> QED BY <1>2, <1>4, <1>5
------------------------------------------------------------------------------

\* A call whose step was answered (made tells what it did), or failed, in which
\* case it may have been done nevertheless.
LEMMA CallGoesOn ==
    ASSUME NEW x, Whole(x), x.tool # "none", x.answer = "none",
           NEW on, NEW did,
           \/ on = Head(x.left).answered
              /\ did = (IF Head(x.left).does = "nothing" THEN x.made
                        ELSE Append(x.made, [does |-> Head(x.left).does, as |-> x.user]))
           \/ on = Head(x.left).failed
              /\ did \in {x.made, Append(x.made, [does |-> Head(x.left).does, as |-> x.user])},
           NEW y,
           y = [x EXCEPT !.left = IF on = 0 THEN << >> ELSE Rest(x.left, on), !.made = did,
                         !.answer = IF on = 0 THEN "error"
                                    ELSE IF Rest(x.left, on) = << >> THEN "success" ELSE x.answer]
    PROVE  Whole(y) /\ (x.tool = "ask_agent_async" => y.answer # "none")
<1> DEFINE h == Head(x.left)
           a == [does |-> h.does, as |-> x.user]
           promised == PromisedBy(x.tool)
           rest == Rest(x.left, on)
           Done(made, e) == CountIn(made, [does |-> e, as |-> x.user])
<1>1. /\ x \in CallType /\ x.left \in Seq(StepType) /\ x.left # << >>
      /\ x.tool \in Tools /\ x.user \in Users \union {Nobody} /\ x.made \in Seq(EffectType)
  BY DEF Whole, CallType
<1>2. h \in StepType /\ h.does \in Effects /\ h.answered \in 0 .. 2 /\ h.failed \in 0 .. 2
  <2>1. h \in StepType
    BY <1>1, HeadTailProperties
  <2> HIDE DEF h
  <2> QED BY <2>1 DEF StepType
<1>3. on \in {h.answered, h.failed}
  OBVIOUS
<1>4. a \in EffectType
  BY <1>1, <1>2 DEF EffectType
<1>5. did \in Seq(EffectType) /\ did \in {x.made, Append(x.made, a)}
  BY <1>1, <1>4, OneMore
<1>6. y = [tool |-> x.tool, user |-> x.user, left |-> IF on = 0 THEN << >> ELSE rest, made |-> did,
           answer |-> IF on = 0 THEN "error" ELSE IF rest = << >> THEN "success" ELSE "none"]
  BY <1>1 DEF CallType
<1> HIDE DEF h, a, rest, promised
<1>7. CASE on = 0
  <2>1. y = [tool |-> x.tool, user |-> x.user, left |-> << >>, made |-> did, answer |-> "error"]
    BY <1>6, <1>7
  <2>2. y.answer = "error" /\ y \in CallType
    <3> DEFINE empty == << >>
    <3>1. empty \in Seq(StepType) /\ x.tool \in Tools \union {"none"}
      BY <1>1
    <3>a. y = [tool |-> x.tool, user |-> x.user, left |-> empty, made |-> did, answer |-> "error"]
      BY <2>1
    <3> HIDE DEF empty
    <3>2. y \in CallType
      BY <1>1, <1>5, <3>1, <3>a DEF CallType
    <3>3. y.answer = "error"
      BY ONLY <2>1
    <3> QED BY <3>2, <3>3
  <2> QED BY <2>2 DEF Whole
<1>8. CASE on # 0
  <2>1. /\ rest \in Seq(StepType)
        /\ \A i \in DOMAIN rest : \E j \in DOMAIN x.left : rest[i] = x.left[j]
    BY ZenonT(60), <1>1, <1>3, <1>8, RestOf DEF rest, h
  <2>2. x.left # <<Misread>>
    <3>1. Misread.answered = 0 /\ Misread.failed = 0
      BY DEF Misread, Step
    <3>2. x.left = <<Misread>> => h = Misread
      BY DEF h
    <3> QED BY <1>3, <1>8, <3>1, <3>2
  <2>3. Keeps(x.left, promised) /\ \A e \in promised : Done(x.made, e) + Pending(x.left, e) = CountPromised(x.tool, e)
    BY <2>2 DEF Whole, promised
  <2>4. /\ Keeps(rest, promised)
        /\ on = h.failed => h.does \notin promised
        /\ \A e \in promised : Pending(x.left, e) = Pending(rest, e) + IF h.does = e THEN 1 ELSE 0
    BY <1>1, <1>3, <1>8, <2>3, RestOf DEF rest, h
  <2>5. ASSUME NEW e \in promised
        PROVE  Done(did, e) + Pending(rest, e) = CountPromised(x.tool, e)
               /\ Done(did, e) \in Nat /\ Pending(rest, e) \in Nat
    <3>1. Pending(rest, e) \in Nat
      BY <2>1, PendingIsFinite
    <3>2. /\ Done(x.made, e) \in Nat
          /\ Done(Append(x.made, a), e) = Done(x.made, e) + IF h.does = e THEN 1 ELSE 0
      <4> DEFINE b == [does |-> e, as |-> x.user]
      <4>1. a = b <=> h.does = e
        BY DEF a
      <4> HIDE DEF b
      <4>2. /\ CountIn(x.made, b) \in Nat
            /\ CountIn(Append(x.made, a), b) = CountIn(x.made, b) + IF a = b THEN 1 ELSE 0
        BY <1>1, <1>4, OneMore
      <4> QED BY <4>1, <4>2 DEF b
    <3>3. e # "nothing"
      BY <1>1, PromisedEffects DEF promised
    <3>4. Done(did, e) = Done(x.made, e) + IF h.does = e THEN 1 ELSE 0
      <4>1. CASE did = Append(x.made, a)
        BY <3>2, <4>1
      <4>2. CASE did = x.made /\ h.does # e
        BY <3>2, <4>2
      <4>3. CASE h.does = e
        <5>1. on # h.failed
          BY <2>4, <4>3
        <5>2. did = Append(x.made, a)
          BY <3>3, <4>3, <5>1 DEF h, a
        <5> QED BY <4>1, <5>2
      <4> QED BY <1>5, <4>1, <4>2, <4>3
    <3> HIDE DEF Done
    <3>5. Done(x.made, e) \in Nat
      BY <3>2
    <3>6. Pending(x.left, e) = Pending(rest, e) + IF h.does = e THEN 1 ELSE 0
      BY <2>4
    <3>7. Done(did, e) + Pending(rest, e) = Done(x.made, e) + Pending(x.left, e) /\ Done(did, e) \in Nat
      <4>1. CASE h.does = e
        BY <3>1, <3>4, <3>5, <3>6, <4>1
      <4>2. CASE h.does # e
        BY <3>1, <3>4, <3>5, <3>6, <4>2
      <4> QED BY <4>1, <4>2
    <3> QED BY <2>3, <3>1, <3>7
  <2>6. x.tool = "ask_agent_async" => rest = << >>
    <3> SUFFICES ASSUME x.tool = "ask_agent_async" PROVE rest = << >>
      OBVIOUS
    <3>1. x.left = <<Does("ask")>>
      BY DEF Whole
    <3>2. Does("ask").answered = 1 /\ Does("ask").failed = 0
      BY DEF Does, Step
    <3>3. h = Does("ask")
      BY <3>1 DEF h
    <3>4. on = 1
      BY <1>3, <1>8, <3>2, <3>3
    <3> QED BY <3>1, <3>4 DEF rest, Rest
  <2>7. y = [tool |-> x.tool, user |-> x.user, left |-> rest, made |-> did,
             answer |-> IF rest = << >> THEN "success" ELSE "none"]
    BY <1>6, <1>8
  <2>8. y \in CallType
    BY <1>1, <1>5, <2>1, <2>7 DEF CallType
  <2>9. CASE rest = << >>
    <3>1. y.answer = "success" /\ y.tool = x.tool /\ y.user = x.user /\ y.made = did
      <4>1. y = [tool |-> x.tool, user |-> x.user, left |-> rest, made |-> did, answer |-> "success"]
        BY <2>7, <2>9
      <4> QED BY ONLY <4>1
    <3>2. ASSUME NEW e \in promised PROVE Done(did, e) = CountPromised(x.tool, e)
      <4>1. Pending(rest, e) = 0
        <5>1. {i \in DOMAIN rest : rest[i].does = e} = {}
          BY <2>9
        <5> QED BY <5>1, FS_EmptySet DEF Pending
      <4> HIDE DEF Done
      <4>2. Done(did, e) + 0 = CountPromised(x.tool, e) /\ Done(did, e) \in Nat
        BY <2>5, <4>1
      <4> QED BY <4>2
    <3> QED BY <2>8, <3>1, <3>2 DEF Whole, promised
  <2>10. CASE rest # << >>
    <3>1. y.answer = "none" /\ y.tool = x.tool /\ y.user = x.user /\ y.made = did /\ y.left = rest
      <4>1. y = [tool |-> x.tool, user |-> x.user, left |-> rest, made |-> did, answer |-> "none"]
        BY <2>7, <2>10
      <4> QED BY ONLY <4>1
    <3>2. x.tool # "ask_agent_async"
      BY <2>6, <2>10
    <3>3. \A i \in DOMAIN rest : rest[i].does # "ask"
      <4>1. \A i \in DOMAIN x.left : x.left[i].does # "ask"
        BY <3>2 DEF Whole
      <4> QED BY <2>1, <4>1
    <3> QED BY <2>4, <2>5, <2>8, <2>10, <3>1, <3>2, <3>3 DEF Whole, promised
  <2> QED BY <2>9, <2>10
<1> QED BY <1>7, <1>8
LEMMA NothingDone == Whole(NoCall)
<1>1. NoCall \in CallType
  BY DEF NoCall, CallType
<1>2. NoCall.tool = "none" /\ NoCall.answer = "none"
  BY DEF NoCall
<1> QED BY <1>1, <1>2 DEF Whole

LEMMA CallStarts ==
    ASSUME NEW tool \in Tools, NEW user \in Users, NEW s \in Programs[tool], NEW y,
           y = [tool |-> tool, user |-> user, left |-> s, made |-> << >>,
                answer |-> IF s = << >> THEN "success" ELSE "none"]
    PROVE  Whole(y) /\ y.tool = tool
<1> DEFINE promised == PromisedBy(tool)
           Done(e) == CountIn(<< >>, [does |-> e, as |-> user])
<1>1. tool # "ask_agent_async" => Worth(s, "ask", 0)
  BY QuietPrograms
<1>2. tool = "ask_agent_async" => s = <<Does("ask")>>
  BY ProgramTable DEF AskAgentAsync
<1>3. Does("ask") \in StepType /\ Does("ask") # Misread
  <2>1. "ask" \in Effects
    BY DEF Effects
  <2>2. Does("ask") \in StepType
    BY <2>1, Steps
  <2>3. Does("ask").does = "ask" /\ Misread.does = "nothing"
    BY DEF Does, Misread, Step
  <2> QED BY <2>2, <2>3
<1>4. s \in Seq(StepType)
  <2>1. CASE tool # "ask_agent_async"
    BY <1>1, <2>1 DEF Worth
  <2>2. CASE tool = "ask_agent_async"
    BY <1>2, <1>3, <2>2, OneStep
  <2> QED BY <2>1, <2>2
<1>5. tool # "ask_agent_async" => \A i \in DOMAIN s : s[i].does # "ask"
  <2> SUFFICES ASSUME tool # "ask_agent_async" PROVE \A i \in DOMAIN s : s[i].does # "ask"
    OBVIOUS
  <2> DEFINE A == {i \in DOMAIN s : s[i].does = "ask"}
  <2>1. IsFiniteSet(A)
    BY <1>4, PendingIsFinite
  <2>2. Cardinality(A) = 0
    BY <1>1 DEF Worth, Pending
  <2>3. A = {}
    <3> HIDE DEF A
    <3> QED BY <2>1, <2>2, FS_EmptySet
  <2> QED BY <2>3
<1>6. \A e : Done(e) = 0
  <2>1. ASSUME NEW b PROVE CountIn(<< >>, b) = 0
    <3>1. {i \in DOMAIN << >> : << >>[i] = b} = {}
      OBVIOUS
    <3> QED BY <3>1, FS_EmptySet DEF CountIn
  <2> QED BY <2>1
<1>7. ASSUME s # <<Misread>>
      PROVE  /\ Keeps(s, promised)
             /\ \A e \in promised : Done(e) + Pending(s, e) = CountPromised(tool, e)
  <2>1. Fulfils(s, tool)
    BY <1>7, ProgramsFulfil
  <2>2. \A e \in promised : Pending(s, e) \in Nat
    BY <1>4, PendingIsFinite
  <2> HIDE DEF Done
  <2>3. ASSUME NEW e \in promised PROVE Done(e) + Pending(s, e) = CountPromised(tool, e)
    <3>1. Pending(s, e) = CountPromised(tool, e)
      BY <2>1 DEF Fulfils
    <3>2. Pending(s, e) \in Nat /\ Done(e) = 0
      BY <1>6, <2>2
    <3> QED BY <3>1, <3>2
  <2> QED BY <2>1, <2>3 DEF Fulfils
<1>8. CASE s # << >>
  <2>1. y = [tool |-> tool, user |-> user, left |-> s, made |-> << >>, answer |-> "none"]
    BY <1>8
  <2>2. y.tool = tool /\ y.user = user /\ y.left = s /\ y.made = << >> /\ y.answer = "none"
    BY ONLY <2>1
  <2>3. y \in CallType
    <3> DEFINE empty == << >>
    <3>1. empty \in Seq(EffectType) /\ y = [tool |-> tool, user |-> user, left |-> s, made |-> empty, answer |-> "none"]
      BY <2>1
    <3> HIDE DEF empty
    <3> QED BY <1>4, <3>1 DEF CallType
  <2> QED BY <1>2, <1>5, <1>7, <1>8, <2>2, <2>3 DEF Whole
<1>9. CASE s = << >>
  <2>1. y = [tool |-> tool, user |-> user, left |-> s, made |-> << >>, answer |-> "success"]
    BY <1>9
  <2>2. y.tool = tool /\ y.user = user /\ y.left = s /\ y.made = << >> /\ y.answer = "success"
    BY ONLY <2>1
  <2>3. y \in CallType
    <3> DEFINE empty == << >>
    <3>1. empty \in Seq(EffectType) /\ y = [tool |-> tool, user |-> user, left |-> s, made |-> empty, answer |-> "success"]
      BY <2>1
    <3> HIDE DEF empty
    <3> QED BY <1>4, <3>1 DEF CallType
  <2>4. s # <<Misread>>
    BY <1>9
  <2>5. ASSUME NEW e \in promised PROVE Done(e) = CountPromised(tool, e)
    <3>1. {i \in DOMAIN s : s[i].does = e} = {}
      BY <1>9
    <3>2. Pending(s, e) = 0
      BY <3>1, FS_EmptySet DEF Pending
    <3>3. 0 + 0 = CountPromised(tool, e)
      BY <1>6, <1>7, <2>4, <3>2
    <3> QED BY <1>6, <3>3
  <2> QED BY <2>2, <2>3, <2>5 DEF Whole
<1> QED BY <1>8, <1>9

------------------------------------------------------------------------------

\* The work on an ask goes on, or the ask is taken on.
LEMMA WorkGoesOn ==
    ASSUME NEW work, NEW ask, NEW ran, WorkSound(work, ask, ran), work.at \in DOMAIN After,
           NEW next, NEW asks, NEW runs,
           \/ /\ next \in {After[work.at], "fail", "done"}
              /\ asks = CASE work.at = "processing" -> "processing"
                          [] work.at = "complete" -> "completed"
                          [] work.at = "fail" -> "failed"
                          [] OTHER -> ask
              /\ runs = IF work.at = "execute" THEN Append(ran, work.user) ELSE ran
           \/ next \in {"fail", "done"} /\ asks = ask /\ runs = ran
    PROVE  WorkSound([work EXCEPT !.at = next], asks, runs)
<1> DEFINE w == [work EXCEPT !.at = next]
<1> SUFFICES WorkSound(w, asks, runs)
  OBVIOUS
<1>1. work \in WorkType /\ work.user \in Users \union {Nobody}
  BY DEF WorkSound, WorkType
<1>2. /\ work.at \in {"processing", "get", "execute", "complete", "fail"}
      /\ ask # "none"
      /\ ran \in Seq(Users \union {Nobody}) /\ Len(ran) <= 1
      /\ \A i \in DOMAIN ran : ran[i] = work.user
      /\ work.at \in {"processing", "get", "execute"} => ran = << >>
      /\ work.at = "complete" \/ ask = "completed" => Len(ran) = 1
  BY DEF WorkSound, After
<1>3. /\ After["processing"] = "get" /\ After["get"] = "execute" /\ After["execute"] = "complete"
      /\ After["complete"] = "done" /\ After["fail"] = "done"
  BY DEF After
<1>4. next \in {"get", "execute", "complete", "fail", "done"}
  BY <1>2, <1>3
<1>5. w \in WorkType /\ w.at = next /\ w.user = work.user
  BY <1>1, <1>4 DEF WorkType
<1>6. /\ Append(<< >>, work.user) \in Seq(Users \union {Nobody})
      /\ Len(Append(<< >>, work.user)) = 1
      /\ \A i \in DOMAIN Append(<< >>, work.user) : Append(<< >>, work.user)[i] = work.user
  BY <1>1
<1> HIDE DEF w
<1>7. asks # "none"
  BY <1>2
<1>8. CASE runs = ran
  <2>1. next \in {"get", "execute"} => work.at \in {"processing", "get"}
    BY <1>2, <1>3
  <2>2. next # "complete"
    BY <1>2, <1>3, <1>8
  <2>3. asks = "completed" => Len(ran) = 1
    BY <1>2
  <2>4. w.at \in {"off", "processing", "get", "execute"} => runs = << >>
    <3>1. w.at \notin {"off", "processing"}
      BY <1>4, <1>5
    <3> QED BY <1>2, <1>5, <1>8, <2>1, <3>1
  <2>5. w.at = "complete" \/ asks = "completed" => Len(runs) = 1
    BY <1>5, <1>8, <2>2, <2>3
  <2>6. runs \in Seq(Users \union {Nobody}) /\ Len(runs) <= 1 /\ \A i \in DOMAIN runs : runs[i] = w.user
    BY <1>2, <1>5, <1>8
  <2> QED BY <1>5, <1>7, <2>4, <2>5, <2>6 DEF WorkSound
<1>9. CASE work.at = "execute" /\ runs = Append(<< >>, work.user)
  <2>1. next \in {"complete", "fail", "done"}
    BY <1>2, <1>3, <1>9
  <2>2. w.at \notin {"off", "processing", "get", "execute"}
    BY <1>5, <2>1
  <2>3. runs \in Seq(Users \union {Nobody}) /\ Len(runs) = 1 /\ \A i \in DOMAIN runs : runs[i] = w.user
    BY <1>5, <1>6, <1>9
  <2>4. Len(runs) <= 1
    BY <2>3
  <2> QED BY <1>5, <1>7, <2>2, <2>3, <2>4 DEF WorkSound
<1>10. runs = ran \/ (work.at = "execute" /\ runs = Append(<< >>, work.user))
  <2>1. work.at = "execute" => ran = << >>
    BY <1>2
  <2>2. CASE work.at = "execute"
    BY <2>1, <2>2
  <2>3. CASE work.at # "execute"
    BY <2>3
  <2> QED BY <2>2, <2>3
<1> QED BY <1>8, <1>9, <1>10

LEMMA WorkStarts ==
    ASSUME NEW work, NEW ran, WorkSound(work, "none", ran), NEW user \in Users \union {Nobody}
    PROVE  /\ WorkSound([at |-> "processing", user |-> user], "pending", ran)
           /\ WorkSound(work, "pending", ran)
<1>1. work.at = "off" /\ ran = << >> /\ ran \in Seq(Users \union {Nobody}) /\ work \in WorkType
  BY DEF WorkSound
<1>2. [at |-> "processing", user |-> user] \in WorkType
  BY DEF WorkType
<1>3. Len(ran) = 0 /\ DOMAIN ran = {}
  BY <1>1
<1> QED BY <1>1, <1>2, <1>3 DEF WorkSound
LEMMA McpStarts == McpInit => McpInv
<1> SUFFICES ASSUME McpInit PROVE McpInv
  OBVIOUS
<1>1. /\ DOMAIN calls = Calls /\ DOMAIN background = Calls
      /\ DOMAIN asked = Calls /\ DOMAIN ranAs = Calls
      /\ \A c \in Calls : /\ calls[c] = NoCall /\ background[c] = NoWork
                          /\ asked[c] = "none" /\ ranAs[c] = << >>
  BY DEF McpInit
<1>2. WorkSound(NoWork, "none", << >>)
  <2>1. NoWork.at = "off" /\ NoWork \in WorkType
    BY DEF NoWork, WorkType
  <2> QED BY <2>1 DEF WorkSound
<1> QED BY <1>1, <1>2, NothingDone DEF McpInv

\* Nothing is left of a process that ended but its history.
LEMMA EndedSound ==
    ASSUME McpInv, ProcessEnds,
           \/ UNCHANGED <<asked, ranAs>>
           \/ \E c \in Calls : background[c].at = "fail" /\ TakesEffect(c)
    PROVE  McpInv'
<1>1. /\ DOMAIN calls' = Calls /\ DOMAIN background' = Calls
      /\ DOMAIN asked' = Calls /\ DOMAIN ranAs' = Calls
  BY DEF McpInv, ProcessEnds, TakesEffect
<1> SUFFICES ASSUME NEW d \in Calls
             PROVE  /\ Whole(calls[d])'
                    /\ (Running(d) /\ calls[d].tool = "ask_agent_async" => asked[d] = "none")'
                    /\ WorkSound(background'[d], asked'[d], ranAs'[d])
  BY <1>1 DEF McpInv
<1>2. calls'[d] = NoCall /\ NoCall.tool = "none"
  BY DEF ProcessEnds, NoCall
<1>3. background'[d] = [background[d] EXCEPT !.at = IF Works(d) THEN "done" ELSE @]
  BY DEF ProcessEnds
<1>4. WorkSound(background[d], asked[d], ranAs[d])
  BY DEF McpInv
<1>5. CASE Works(d)
  <2>1. background'[d] = [background[d] EXCEPT !.at = "done"]
    BY <1>3, <1>5
  <2>2. \/ asked'[d] = asked[d] /\ ranAs'[d] = ranAs[d]
        \/ background[d].at = "fail" /\ asked'[d] = "failed" /\ ranAs'[d] = ranAs[d]
    BY DEF TakesEffect, McpInv
  <2>3. WorkSound([background[d] EXCEPT !.at = "done"], asked'[d], ranAs'[d])
    BY <1>4, <1>5, <2>2, WorkGoesOn DEF Works
  <2> QED BY <1>2, <2>1, <2>3, NothingDone DEF Running
<1>6. CASE ~ Works(d)
  <2>1. background'[d] = background[d]
    BY <1>3, <1>4, <1>6 DEF WorkSound, WorkType
  <2>2. asked'[d] = asked[d] /\ ranAs'[d] = ranAs[d]
    <3>1. background[d].at # "fail"
      BY <1>6 DEF Works, After
    <3> QED BY <3>1 DEF TakesEffect, McpInv
  <2> QED BY <1>2, <1>4, <2>1, <2>2, NothingDone DEF Running
<1> QED BY <1>5, <1>6

LEMMA McpSteps == McpInv /\ [McpNext]_mcpvars => McpInv'
<1> SUFFICES ASSUME McpInv, [McpNext]_mcpvars PROVE McpInv'
  OBVIOUS
<1> DEFINE Fine(d) == /\ Whole(calls[d])
                      /\ Running(d) /\ calls[d].tool = "ask_agent_async" => asked[d] = "none"
                      /\ WorkSound(background[d], asked[d], ranAs[d])
<1>1. /\ DOMAIN calls = Calls /\ DOMAIN background = Calls
      /\ DOMAIN asked = Calls /\ DOMAIN ranAs = Calls
      /\ \A d \in Calls : Fine(d)
  BY DEF McpInv
\* A step of one call leaves the others alone.
<1>2. ASSUME NEW c \in Calls, DOMAIN calls' = Calls, DOMAIN background' = Calls,
             DOMAIN asked' = Calls, DOMAIN ranAs' = Calls,
             \A d \in Calls \ {c} : /\ calls'[d] = calls[d] /\ background'[d] = background[d]
                                    /\ asked'[d] = asked[d] /\ ranAs'[d] = ranAs[d],
             Whole(calls'[c]),
             calls'[c].tool = "ask_agent_async" /\ calls'[c].answer = "none" => asked'[c] = "none",
             WorkSound(background'[c], asked'[c], ranAs'[c])
      PROVE  McpInv'
  BY <1>1, <1>2 DEF McpInv, Running
<1>3. ASSUME NEW c \in Calls, NEW tool \in Tools, ToolCalled(c, tool) PROVE McpInv'
  <2>1. PICK user \in Users, s \in Programs[tool] :
          calls' = [calls EXCEPT ![c] =
              [tool |-> tool, user |-> user, left |-> s, made |-> << >>,
               answer |-> IF s = << >> THEN "success" ELSE "none"]]
    BY <1>3 DEF ToolCalled
  <2>2. Whole(calls'[c]) /\ calls'[c].tool = tool
    BY <1>1, <2>1, CallStarts
  <2>3. DOMAIN calls' = Calls /\ \A d \in Calls \ {c} : calls'[d] = calls[d]
    BY <1>1, <2>1
  <2>4. UNCHANGED <<background, asked, ranAs>> /\ (tool = "ask_agent_async" => asked[c] = "none")
    BY <1>3 DEF ToolCalled
  <2> QED BY <1>1, <1>2, <2>2, <2>3, <2>4
<1>4. ASSUME NEW c \in Calls, Running(c), NEW on, NEW did, GoesOn(c, on, did),
             LET h == Head(calls[c].left)
                 more == Append(calls[c].made, [does |-> h.does, as |-> calls[c].user])
             IN  \/ on = h.answered /\ did = (IF h.does = "nothing" THEN calls[c].made ELSE more)
                 \/ on = h.failed /\ did \in {calls[c].made, more}
      PROVE  /\ DOMAIN calls' = Calls /\ \A d \in Calls \ {c} : calls'[d] = calls[d]
             /\ Whole(calls'[c])
             /\ calls'[c].tool = "ask_agent_async" => calls'[c].answer # "none"
             /\ Head(calls[c].left).does = "ask" => asked[c] = "none"
  <2> DEFINE x == calls[c]
             y == [x EXCEPT !.left = IF on = 0 THEN << >> ELSE Rest(x.left, on), !.made = did,
                            !.answer = IF on = 0 THEN "error"
                                       ELSE IF Rest(x.left, on) = << >> THEN "success" ELSE x.answer]
  <2>1. Whole(x) /\ x.tool # "none" /\ x.answer = "none"
    BY <1>1, <1>4 DEF Running
  <2>2. calls' = [calls EXCEPT ![c] = y]
    BY <1>4 DEF GoesOn, Rest
  <2>3. Whole(y) /\ (x.tool = "ask_agent_async" => y.answer # "none")
    BY <1>4, <2>1, CallGoesOn
  <2>4. y.tool = x.tool
    BY <2>1 DEF Whole, CallType
  <2>5. calls'[c] = y /\ DOMAIN calls' = Calls /\ \A d \in Calls \ {c} : calls'[d] = calls[d]
    BY <1>1, <2>2
  <2>6. Head(x.left).does = "ask" => x.tool = "ask_agent_async"
    <3>1. x.left \in Seq(StepType) /\ x.left # << >>
      BY <2>1 DEF Whole, CallType
    <3>2. 1 \in DOMAIN x.left /\ Head(x.left) = x.left[1]
      BY <3>1
    <3> QED BY <2>1, <3>2 DEF Whole
  <2>7. Head(x.left).does = "ask" => asked[c] = "none"
    BY <1>1, <1>4, <2>6
  <2> HIDE DEF y
  <2> QED BY <2>3, <2>4, <2>5, <2>7
<1>5. ASSUME NEW c \in Calls, Answered(c) PROVE McpInv'
  <2>1. /\ DOMAIN calls' = Calls /\ \A d \in Calls \ {c} : calls'[d] = calls[d]
        /\ Whole(calls'[c])
        /\ calls'[c].tool = "ask_agent_async" => calls'[c].answer # "none"
        /\ Head(calls[c].left).does = "ask" => asked[c] = "none"
    BY <1>4, <1>5 DEF Answered, Made, ActingToken
  <2>2. WorkSound(background[c], asked[c], ranAs[c]) /\ calls[c].user \in Users \union {Nobody}
    BY <1>1 DEF Whole, CallType
  <2>3. CASE Head(calls[c].left).does = "ask"
    <3>1. /\ asked' = [asked EXCEPT ![c] = "pending"] /\ ranAs' = ranAs
          /\ background' = [background EXCEPT ![c] = [at |-> "processing", user |-> calls[c].user]]
      BY <1>5, <2>3 DEF Answered, AskRecorded
    <3>2. WorkSound([at |-> "processing", user |-> calls[c].user], "pending", ranAs[c])
      BY <2>1, <2>2, <2>3, WorkStarts
    <3> QED BY <1>1, <1>2, <2>1, <3>1, <3>2
  <2>4. CASE Head(calls[c].left).does # "ask"
    <3>1. UNCHANGED <<background, asked, ranAs>>
      BY <1>5, <2>4 DEF Answered, AskRecorded
    <3> QED BY <1>1, <1>2, <2>1, <2>2, <3>1
  <2> QED BY <2>3, <2>4
<1>6. ASSUME NEW c \in Calls, Refused(c) PROVE McpInv'
  <2>1. /\ DOMAIN calls' = Calls /\ \A d \in Calls \ {c} : calls'[d] = calls[d]
        /\ Whole(calls'[c])
        /\ calls'[c].tool = "ask_agent_async" => calls'[c].answer # "none"
    BY <1>4, <1>6 DEF Refused
  <2>2. UNCHANGED <<background, asked, ranAs>>
    BY <1>6 DEF Refused
  <2> QED BY <1>1, <1>2, <2>1, <2>2
<1>7. ASSUME NEW c \in Calls, AnswerLost(c) PROVE McpInv'
  <2>1. /\ DOMAIN calls' = Calls /\ \A d \in Calls \ {c} : calls'[d] = calls[d]
        /\ Whole(calls'[c])
        /\ calls'[c].tool = "ask_agent_async" => calls'[c].answer # "none"
        /\ Head(calls[c].left).does = "ask" => asked[c] = "none"
    BY <1>4, <1>7 DEF AnswerLost, Made, ActingToken
  <2>2. WorkSound(background[c], asked[c], ranAs[c])
    BY <1>1
  <2>3. CASE Head(calls[c].left).does = "ask"
    <3>1. asked' = [asked EXCEPT ![c] = "pending"] /\ UNCHANGED <<background, ranAs>>
      BY <1>7, <2>3 DEF AnswerLost, AskRecorded
    <3>2. WorkSound(background[c], "pending", ranAs[c])
      BY <2>1, <2>2, <2>3, WorkStarts DEF WorkSound
    <3> QED BY <1>1, <1>2, <2>1, <3>1, <3>2
  <2>4. CASE Head(calls[c].left).does # "ask"
    <3>1. UNCHANGED <<background, asked, ranAs>>
      BY <1>7, <2>4 DEF AnswerLost, AskRecorded
    <3> QED BY <1>1, <1>2, <2>1, <2>2, <3>1
  <2> QED BY <2>3, <2>4
\* The work on the ask of one call.
<1>8. ASSUME NEW c \in Calls, Works(c), NEW next, Advances(c, next), UNCHANGED calls,
             \/ TakesEffect(c) /\ next \in {After[background[c].at], "fail"}
             \/ UNCHANGED <<asked, ranAs>> /\ next = "fail"
      PROVE  McpInv'
  <2> DEFINE work == background[c]
  <2>1. WorkSound(work, asked[c], ranAs[c]) /\ work.at \in DOMAIN After
    BY <1>1, <1>8 DEF Works
  <2>2. background'[c] = [work EXCEPT !.at = next] /\ DOMAIN background' = Calls
        /\ \A d \in Calls \ {c} : background'[d] = background[d]
    BY <1>1, <1>8 DEF Advances
  <2>3. /\ DOMAIN asked' = Calls /\ DOMAIN ranAs' = Calls
        /\ \A d \in Calls \ {c} : asked'[d] = asked[d] /\ ranAs'[d] = ranAs[d]
    BY <1>1, <1>8 DEF TakesEffect
  <2>4. \/ /\ next \in {After[work.at], "fail", "done"}
           /\ asked'[c] = CASE work.at = "processing" -> "processing"
                            [] work.at = "complete" -> "completed"
                            [] work.at = "fail" -> "failed"
                            [] OTHER -> asked[c]
           /\ ranAs'[c] = IF work.at = "execute" THEN Append(ranAs[c], work.user) ELSE ranAs[c]
        \/ next \in {"fail", "done"} /\ asked'[c] = asked[c] /\ ranAs'[c] = ranAs[c]
    BY <1>1, <1>8 DEF TakesEffect, ActingToken
  <2>5. WorkSound([work EXCEPT !.at = next], asked'[c], ranAs'[c])
    BY <2>1, <2>4, WorkGoesOn
  <2>6. asked[c] # "none"
    BY <2>1 DEF WorkSound, After
  <2>7. Whole(calls'[c]) /\ ~ (calls'[c].tool = "ask_agent_async" /\ calls'[c].answer = "none")
    BY <1>1, <1>8, <2>6 DEF Running
  <2> QED BY <1>1, <1>2, <1>8, <2>2, <2>3, <2>5, <2>7
<1>9. ASSUME NEW c \in Calls, BackgroundAnswered(c) PROVE McpInv'
  BY <1>8, <1>9 DEF BackgroundAnswered
<1>10. ASSUME NEW c \in Calls, BackgroundRefused(c) PROVE McpInv'
  <2>1. CASE background[c].at = "fail"
    BY <1>10, <2>1, EndedSound DEF BackgroundRefused, CallFails, NoEffect
  <2>2. CASE background[c].at # "fail"
    BY <1>8, <1>10, <2>2 DEF BackgroundRefused, CallFails, NoEffect, Reports
  <2> QED BY <2>1, <2>2
<1>11. ASSUME NEW c \in Calls, BackgroundAnswerLost(c) PROVE McpInv'
  <2>1. CASE background[c].at = "fail"
    BY <1>11, <2>1, EndedSound DEF BackgroundAnswerLost, CallFails
  <2>2. CASE background[c].at # "fail"
    BY <1>8, <1>11, <2>2 DEF BackgroundAnswerLost, CallFails, Reports
  <2> QED BY <2>1, <2>2
<1>12. CASE Killed
  BY <1>12, EndedSound DEF Killed, NoEffect
<1>13. CASE UNCHANGED mcpvars
  BY <1>13 DEF McpInv, mcpvars, Running
<1> QED BY <1>3, <1>5, <1>6, <1>7, <1>9, <1>10, <1>11, <1>12, <1>13 DEF McpNext

\* In every reachable state of the process of SimpleMCPServer, each call's record
\* and the work on each ask are sound.
THEOREM McpSound == McpSpec => []McpInv
BY McpStarts, McpSteps, PTL DEF McpSpec

\* A tool that says it did something did it exactly once, as its caller: what
\* was done and what is left are together what the tool promises, and a tool
\* that is done has nothing left.
THEOREM ToolsKeepTheirWord == McpSpec => []SuccessIsWhole
<1>1. McpInv => SuccessIsWhole
  BY DEF McpInv, Whole, SuccessIsWhole, PromisedBy, Range, Count, CountIn
<1> QED BY <1>1, McpSound, PTL

\* An ask is completed by one run of its agent, as the one who asked: it is
\* recorded before its work begins, and each ask is worked on once.
THEOREM AsksAreAnsweredForTheirAskers == McpSpec => []AnsweredForItsAsker
<1>1. McpInv => AnsweredForItsAsker
  BY DEF McpInv, WorkSound, AnsweredForItsAsker
<1> QED BY <1>1, McpSound, PTL
=============================================================================
