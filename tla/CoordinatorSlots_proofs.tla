----------------------- MODULE CoordinatorSlots_proofs -----------------------
(***************************************************************************)
(* Proofs about the concurrency manager and about the routes that start    *)
(* sessions over it. The manager's two maps stay well-formed and agree, no *)
(* coordinator exceeds its limit, and the manager implements LeasePool,    *)
(* for every number of sessions and coordinators, every limit and every    *)
(* timeout. The routes drive the manager as its specification allows, an   *)
(* answer tells the truth of the session it was about, and a listed        *)
(* session fits its plan, for any callers, requests and agents.            *)
(*                                                                         *)
(* IndexConsistent is what makes the limit inductive: canStartSession      *)
(* counts one map while endSession is driven by the other, so the count is *)
(* the number of sessions only as long as the two agree.                   *)
(*                                                                         *)
(* StartingInv is what makes the answers inductive: session ids are given  *)
(* out once, so that nobody but its call lists a session, and at each      *)
(* stage the call knows who joined, who was mapped and what was planned so *)
(* far.                                                                    *)
(***************************************************************************)
EXTENDS Starting, FiniteSetTheorems, TLAPS

IInv == TypeOK /\ IndexConsistent /\ WithinLimit

\* What an index map says of coordinator c.
Entry(index, c) == IF c \in DOMAIN index THEN index[c] ELSE {}

------------------------------------------------------------------------------
(***************************************************************************)
(* Lemmas about the ends of sessions                                       *)
(***************************************************************************)

\* After endSession for all of S, a coordinator's set lacks exactly those of
\* its sessions that were in S, whether its entry was deleted or not.
LEMMA EntryAfterEnd ==
    ASSUME NEW S, NEW c
    PROVE  Entry(IndexAfterEnd(S), c) = SessionsOf(c) \ EndedOf(c, S)
BY DEF Entry, IndexAfterEnd, SessionsOf, EndedOf

\* ... which by consistency are the sessions that stay active.
LEMMA EntryIsActiveRest ==
    ASSUME IndexConsistent, NEW S, NEW c \in Coordinators
    PROVE  SessionsOf(c) \ EndedOf(c, S) =
              {s \in DOMAIN activeSessions \ S : activeSessions[s].coordinatorId = c}
BY DEF IndexConsistent, EndedOf

\* The index after the ends has the type of an index and no empty entry.
LEMMA IndexAfterEndShape ==
    ASSUME TypeOK, IndexConsistent, NEW S
    PROVE  LET index == IndexAfterEnd(S)
           IN  /\ DOMAIN index \subseteq Coordinators
               /\ index = [c \in DOMAIN index |-> index[c]]
               /\ \A c \in DOMAIN index : index[c] \subseteq Sessions /\ index[c] # {}
<1>1. \A c \in DOMAIN sessionsByCoordinator : EndedOf(c, S) \subseteq sessionsByCoordinator[c]
  BY DEF TypeOK, IndexConsistent, EndedOf, SessionsOf
<1>2. DOMAIN IndexAfterEnd(S) =
        {d \in DOMAIN sessionsByCoordinator :
            EndedOf(d, S) = {} \/ sessionsByCoordinator[d] # EndedOf(d, S)}
  BY DEF IndexAfterEnd
<1>3. \A c \in DOMAIN IndexAfterEnd(S) :
        IndexAfterEnd(S)[c] = sessionsByCoordinator[c] \ EndedOf(c, S)
  BY DEF IndexAfterEnd
<1>4. IndexAfterEnd(S) = [c \in DOMAIN IndexAfterEnd(S) |-> IndexAfterEnd(S)[c]]
  BY DEF IndexAfterEnd
<1>5. DOMAIN IndexAfterEnd(S) \subseteq Coordinators
  BY <1>2 DEF TypeOK
<1>6. ASSUME NEW c \in DOMAIN IndexAfterEnd(S)
      PROVE  IndexAfterEnd(S)[c] \subseteq Sessions /\ IndexAfterEnd(S)[c] # {}
  BY <1>1, <1>2, <1>3 DEF TypeOK, IndexConsistent
<1> QED
  BY <1>4, <1>5, <1>6

\* A part of a coordinator's set is within its limit when the set is.
LEMMA PartWithinLimit ==
    ASSUME WithinLimit, NEW c \in Coordinators, NEW T, T \subseteq SessionsOf(c)
    PROVE  IsFiniteSet(T) /\ Cardinality(T) <= MaxConcurrent
<1>1. IsFiniteSet(SessionsOf(c)) /\ Cardinality(SessionsOf(c)) <= MaxConcurrent
  BY DEF WithinLimit
<1>2. IsFiniteSet(T) /\ Cardinality(T) <= Cardinality(SessionsOf(c))
  BY <1>1, FS_Subset
<1>3. Cardinality(T) \in Nat /\ Cardinality(SessionsOf(c)) \in Nat
  BY <1>1, <1>2, FS_CardinalityType
<1> QED
  BY <1>1, <1>2, <1>3, LimitAssumption

\* Ending any set of sessions preserves the invariant.
LEMMA EndSessionsPreserves ==
    ASSUME IInv, NEW S, EndSessions(S)
    PROVE  IInv'
<1> USE DEF IInv
<1>1. /\ activeSessions' = [s \in DOMAIN activeSessions \ S |-> activeSessions[s]]
      /\ sessionsByCoordinator' = IndexAfterEnd(S)
  BY DEF EndSessions, ActiveAfterEnd
<1>2. \A c \in Coordinators : SessionsOf(c)' = SessionsOf(c) \ EndedOf(c, S)
  BY <1>1, EntryAfterEnd DEF SessionsOf, Entry
<1>3. TypeOK'
  BY <1>1, IndexAfterEndShape DEF TypeOK
<1>4. IndexConsistent'
  <2>1. \A c \in DOMAIN sessionsByCoordinator' : sessionsByCoordinator'[c] # {}
    BY <1>1, IndexAfterEndShape
  <2>2. ASSUME NEW c \in Coordinators
        PROVE  SessionsOf(c)' =
                  {s \in DOMAIN activeSessions' : activeSessions'[s].coordinatorId = c}
    BY <1>1, <1>2, EntryIsActiveRest
  <2> QED
    BY <2>1, <2>2 DEF IndexConsistent
<1>5. WithinLimit'
  BY <1>2, PartWithinLimit DEF WithinLimit
<1> QED
  BY <1>3, <1>4, <1>5

------------------------------------------------------------------------------
(***************************************************************************)
(* The actions                                                             *)
(***************************************************************************)

\* What startSession does to every coordinator's set: what timed out goes, and
\* the new session joins its coordinator.
LEMMA SetsAfterStart ==
    ASSUME NEW s, NEW c, StartSession(s, c), NEW d
    PROVE  SessionsOf(d)' =
              (SessionsOf(d) \ EndedOf(d, TimedOut)) \union (IF d = c THEN {s} ELSE {})
<1>1. sessionsByCoordinator' =
        [e \in DOMAIN IndexAfterEnd(TimedOut) \union {c} |->
            Entry(IndexAfterEnd(TimedOut), e) \union (IF e = c THEN {s} ELSE {})]
  BY DEF StartSession, Entry
<1>2. SessionsOf(d)' =
        Entry(IndexAfterEnd(TimedOut), d) \union (IF d = c THEN {s} ELSE {})
  BY <1>1 DEF SessionsOf, Entry
<1> QED
  BY <1>2, EntryAfterEnd

LEMMA StartSessionPreserves ==
    ASSUME IInv, NEW s \in Sessions \ DOMAIN activeSessions, NEW c \in Coordinators,
           StartSession(s, c)
    PROVE  IInv'
<1> USE DEF IInv
<1> DEFINE index == IndexAfterEnd(TimedOut)
           stay == DOMAIN activeSessions \ TimedOut
<1>1. /\ CanStartSession(c)
      /\ activeSessions' =
            [t \in stay \union {s} |->
                IF t = s THEN [coordinatorId |-> c, idle |-> 0] ELSE activeSessions[t]]
      /\ sessionsByCoordinator' =
            [d \in DOMAIN index \union {c} |->
                Entry(index, d) \union (IF d = c THEN {s} ELSE {})]
  BY DEF StartSession, Entry
<1>2. s \notin stay
  OBVIOUS
<1>3. /\ DOMAIN index \subseteq Coordinators
      /\ \A d \in DOMAIN index : index[d] \subseteq Sessions /\ index[d] # {}
  BY IndexAfterEndShape
<1>4. TypeOK'
  <2>1. [coordinatorId |-> c, idle |-> 0] \in SessionInfo
    BY TimeoutAssumption DEF SessionInfo, Idle
  <2>2. \A t \in DOMAIN activeSessions' : activeSessions'[t] \in SessionInfo
    BY <1>1, <2>1 DEF TypeOK
  <2>3. DOMAIN activeSessions' \subseteq Sessions
    BY <1>1 DEF TypeOK
  <2>4. activeSessions' = [t \in DOMAIN activeSessions' |-> activeSessions'[t]]
    BY <1>1
  <2>5. DOMAIN sessionsByCoordinator' \subseteq Coordinators
    BY <1>1, <1>3
  <2>6. \A d \in DOMAIN sessionsByCoordinator' : sessionsByCoordinator'[d] \subseteq Sessions
    BY <1>1, <1>3 DEF Entry
  <2>7. sessionsByCoordinator' =
          [d \in DOMAIN sessionsByCoordinator' |-> sessionsByCoordinator'[d]]
    BY <1>1
  <2> QED
    BY <2>2, <2>3, <2>4, <2>5, <2>6, <2>7 DEF TypeOK
<1>5. IndexConsistent'
  <2>1. \A d \in DOMAIN sessionsByCoordinator' : sessionsByCoordinator'[d] # {}
    BY <1>1, <1>3 DEF Entry
  <2>2. ASSUME NEW d \in Coordinators
        PROVE  SessionsOf(d)' =
                  {t \in DOMAIN activeSessions' : activeSessions'[t].coordinatorId = d}
    <3>1. SessionsOf(d) \ EndedOf(d, TimedOut) =
            {t \in stay : activeSessions[t].coordinatorId = d}
      BY EntryIsActiveRest
    <3>2. SessionsOf(d)' =
            {t \in stay : activeSessions[t].coordinatorId = d}
              \union (IF d = c THEN {s} ELSE {})
      BY <3>1, SetsAfterStart
    <3>3. {t \in DOMAIN activeSessions' : activeSessions'[t].coordinatorId = d} =
            {t \in stay : activeSessions[t].coordinatorId = d}
              \union (IF d = c THEN {s} ELSE {})
      BY <1>1, <1>2
    <3> QED
      BY <3>2, <3>3
  <2> QED
    BY <2>1, <2>2 DEF IndexConsistent
<1>6. WithinLimit'
  <2> SUFFICES ASSUME NEW d \in Coordinators
               PROVE  IsFiniteSet(SessionsOf(d)') /\ Cardinality(SessionsOf(d)') <= MaxConcurrent
    BY DEF WithinLimit
  <2> DEFINE T == SessionsOf(d) \ EndedOf(d, TimedOut)
  <2>1. IsFiniteSet(T) /\ Cardinality(T) <= MaxConcurrent
    BY PartWithinLimit
  <2>2. CASE d # c
    BY <2>1, <2>2, SetsAfterStart
  <2>3. CASE d = c
    <3>1. SessionsOf(d)' = T \union {s}
      BY <2>3, SetsAfterStart
    <3>2. s \notin T
      BY DEF IndexConsistent
    <3>3. IsFiniteSet(T \union {s}) /\ Cardinality(T \union {s}) = Cardinality(T) + 1
      BY <2>1, <3>2, FS_AddElement
    <3>4. Cardinality(T) < MaxConcurrent
      BY <1>1, <2>3 DEF CanStartSession
    <3>5. Cardinality(T) \in Nat
      BY <2>1, FS_CardinalityType
    <3> HIDE DEF T
    <3> QED
      BY <3>1, <3>3, <3>4, <3>5, LimitAssumption
  <2> QED
    BY <2>2, <2>3
<1> QED
  BY <1>4, <1>5, <1>6

\* Activity and the clock change idle times only, which the index and the
\* limit do not see.
LEMMA IdleOnlyPreserves ==
    ASSUME IInv,
           UNCHANGED sessionsByCoordinator,
           DOMAIN activeSessions' = DOMAIN activeSessions,
           activeSessions' = [s \in DOMAIN activeSessions' |-> activeSessions'[s]],
           \A s \in DOMAIN activeSessions :
              /\ activeSessions'[s] \in SessionInfo
              /\ activeSessions'[s].coordinatorId = activeSessions[s].coordinatorId
    PROVE  IInv'
<1> USE DEF IInv
<1>1. \A c : SessionsOf(c)' = SessionsOf(c)
  BY DEF SessionsOf
<1>2. TypeOK'
  BY DEF TypeOK
<1>3. IndexConsistent'
  BY <1>1 DEF IndexConsistent
<1>4. WithinLimit'
  BY <1>1 DEF WithinLimit
<1> QED
  BY <1>2, <1>3, <1>4

LEMMA UpdateSessionActivityPreserves ==
    ASSUME IInv, NEW s, UpdateSessionActivity(s)
    PROVE  IInv'
<1>1. \A i \in SessionInfo :
        /\ [i EXCEPT !.idle = 0] \in SessionInfo
        /\ [i EXCEPT !.idle = 0].coordinatorId = i.coordinatorId
  BY TimeoutAssumption DEF SessionInfo, Idle
<1>2. \A t \in DOMAIN activeSessions : activeSessions[t] \in SessionInfo
  BY DEF IInv, TypeOK
<1> QED
  BY <1>1, <1>2, IdleOnlyPreserves DEF UpdateSessionActivity

LEMMA TickPreserves ==
    ASSUME IInv, Tick
    PROVE  IInv'
<1>1. ASSUME NEW i \in SessionInfo
      PROVE  LET j == [i EXCEPT !.idle = IF @ > SessionTimeout THEN @ ELSE @ + 1]
             IN  j \in SessionInfo /\ j.coordinatorId = i.coordinatorId
  BY TimeoutAssumption DEF SessionInfo, Idle
<1>2. \A t \in DOMAIN activeSessions : activeSessions[t] \in SessionInfo
  BY DEF IInv, TypeOK
<1> QED
  BY <1>1, <1>2, IdleOnlyPreserves DEF Tick

------------------------------------------------------------------------------
(***************************************************************************)
(* The invariant of the specification                                      *)
(***************************************************************************)

LEMMA InitIInv == Init => IInv
<1> SUFFICES ASSUME Init PROVE IInv
  OBVIOUS
<1>1. \A c : SessionsOf(c) = {}
  BY DEF Init, SessionsOf
<1>2. TypeOK /\ IndexConsistent
  BY <1>1 DEF Init, TypeOK, IndexConsistent
<1>3. WithinLimit
  BY <1>1, FS_EmptySet, LimitAssumption DEF WithinLimit
<1> QED
  BY <1>2, <1>3 DEF IInv

LEMMA NextIInv == IInv /\ [Next]_vars => IInv'
<1> SUFFICES ASSUME IInv, [Next]_vars PROVE IInv'
  OBVIOUS
<1>1. ASSUME NEW s \in Sessions \ DOMAIN activeSessions, NEW c \in Coordinators,
             StartSession(s, c)
      PROVE  IInv'
  BY <1>1, StartSessionPreserves
<1>2. ASSUME NEW c \in Coordinators, RefuseSession(c) PROVE IInv'
  BY <1>2, EndSessionsPreserves DEF RefuseSession, CleanupTimeoutSessions
<1>3. ASSUME NEW s \in Sessions, UpdateSessionActivity(s) PROVE IInv'
  BY <1>3, UpdateSessionActivityPreserves
<1>4. ASSUME NEW s \in Sessions, EndSession(s) PROVE IInv'
  BY <1>4, EndSessionsPreserves DEF EndSession
<1>5. CASE CleanupTimeoutSessions
  BY <1>5, EndSessionsPreserves DEF CleanupTimeoutSessions
<1>6. CASE Tick
  BY <1>6, TickPreserves
<1>7. CASE UNCHANGED vars
  <2>1. \A c : SessionsOf(c)' = SessionsOf(c)
    BY <1>7 DEF vars, SessionsOf
  <2> QED
    BY <1>7, <2>1 DEF vars, IInv, TypeOK, IndexConsistent, WithinLimit
<1> QED
  BY <1>1, <1>2, <1>3, <1>4, <1>5, <1>6, <1>7 DEF Next

\* The inductive invariant holds in every behaviour of the manager.
THEOREM SlotsInvariant == Spec => []IInv
  BY InitIInv, NextIInv, PTL DEF Spec

\* Both maps of CoordinatorConcurrencyManager are always partial functions
\* from session ids to registrations and from coordinators to session sets.
THEOREM SlotsTypeOK == Spec => []TypeOK
<1>1. IInv => TypeOK
  BY DEF IInv
<1> QED
  BY <1>1, SlotsInvariant, PTL

\* The sessions counted for a coordinator are exactly its active sessions,
\* after any mix of starts, ends, activity and timeouts, and an emptied entry
\* is gone.
THEOREM SlotsIndexConsistent == Spec => []IndexConsistent
<1>1. IInv => IndexConsistent
  BY DEF IInv
<1> QED
  BY <1>1, SlotsInvariant, PTL

\* No coordinator ever has more active sessions than maxConcurrentScenarios.
THEOREM SlotsWithinLimit == Spec => []WithinLimit
<1>1. IInv => WithinLimit
  BY DEF IInv
<1> QED
  BY <1>1, SlotsInvariant, PTL

------------------------------------------------------------------------------
(***************************************************************************)
(* The manager implements a pool of leases                                 *)
(***************************************************************************)

LEMMA InitPool == Init => Pool!Init
  BY DEF Init, Pool!Init, SessionsOf

\* Ends revoke the leases of the ended sessions.
LEMMA EndSessionsRevokes ==
    ASSUME IInv, NEW S, EndSessions(S)
    PROVE  \E R \in SUBSET Sessions : Pool!Revoke(R)
<1> DEFINE R == S \intersect DOMAIN activeSessions
<1>1. R \in SUBSET Sessions
  BY DEF IInv, TypeOK
<1>2. ASSUME NEW c \in Coordinators
      PROVE  SessionsOf(c)' = SessionsOf(c) \ R
  <2>1. SessionsOf(c)' = SessionsOf(c) \ EndedOf(c, S)
    BY EntryAfterEnd DEF EndSessions, SessionsOf, Entry
  <2>2. SessionsOf(c) \ EndedOf(c, S) = SessionsOf(c) \ R
    BY DEF IInv, IndexConsistent, EndedOf
  <2> QED
    BY <2>1, <2>2
<1>3. Pool!Revoke(R)
  BY <1>2 DEF Pool!Revoke, Pool!Revoked
<1> QED
  BY <1>1, <1>3

\* A start grants a lease, and takes back those that timed out.
LEMMA StartSessionGrants ==
    ASSUME IInv, NEW s \in Sessions \ DOMAIN activeSessions, NEW c \in Coordinators,
           StartSession(s, c)
    PROVE  \E R \in SUBSET Sessions : Pool!Grant(s, c, R)
<1>1. TimedOut \in SUBSET Sessions
  BY DEF IInv, TypeOK, TimedOut
<1>2. \A d \in Coordinators : SessionsOf(d) \ EndedOf(d, TimedOut) = SessionsOf(d) \ TimedOut
  BY DEF IInv, IndexConsistent, EndedOf, TimedOut
<1>3. \A d \in Coordinators :
        SessionsOf(d)' = (SessionsOf(d) \ TimedOut) \union (IF d = c THEN {s} ELSE {})
  BY <1>2, SetsAfterStart
<1>4. s \notin Pool!Held
  BY DEF IInv, IndexConsistent, Pool!Held
<1>5. [d \in Coordinators |-> SessionsOf(d)]' =
        [Pool!Revoked(TimedOut) EXCEPT ![c] = @ \union {s}]
  BY <1>3 DEF Pool!Revoked
<1>6. Cardinality([d \in Coordinators |-> SessionsOf(d)]'[c]) <= MaxConcurrent
  BY StartSessionPreserves DEF IInv, WithinLimit
<1>7. \A T : Pool!Cardinality(T) = Cardinality(T)
  BY DEF Pool!Cardinality, Cardinality
<1>8. Pool!Grant(s, c, TimedOut)
  BY <1>4, <1>5, <1>6, <1>7 DEF Pool!Grant
<1> QED
  BY <1>1, <1>8

LEMMA NextPool ==
    IInv /\ [Next]_vars => [Pool!Next]_[c \in Coordinators |-> SessionsOf(c)]
<1> SUFFICES ASSUME IInv, [Next]_vars
             PROVE  [Pool!Next]_[c \in Coordinators |-> SessionsOf(c)]
  OBVIOUS
<1>1. ASSUME NEW s \in Sessions \ DOMAIN activeSessions, NEW c \in Coordinators,
             StartSession(s, c)
      PROVE  Pool!Next
  BY <1>1, StartSessionGrants DEF Pool!Next
<1>2. ASSUME NEW S, EndSessions(S) PROVE Pool!Next
  BY <1>2, EndSessionsRevokes DEF Pool!Next
<1>3. ASSUME UNCHANGED sessionsByCoordinator
      PROVE  UNCHANGED [c \in Coordinators |-> SessionsOf(c)]
  BY <1>3 DEF SessionsOf
<1> QED
  BY <1>1, <1>2, <1>3
     DEF Next, vars, RefuseSession, CleanupTimeoutSessions, EndSession,
         UpdateSessionActivity, Tick

\* Whatever is known of a pool of leases is true of the manager: its maps, its
\* two-step ends and its clock implement one.
THEOREM SlotsImplementPool == Spec => ImplementsPool
<1>1. Init /\ [][Next]_vars => Pool!Spec
  BY InitPool, NextPool, SlotsInvariant, PTL DEF Spec, Pool!Spec
<1> QED
  BY <1>1 DEF Spec, ImplementsPool

------------------------------------------------------------------------------
(***************************************************************************)
(* The routes that start sessions: their invariant                         *)
(***************************************************************************)

Refs == [by : {"id", "name"}, agent : AgentIds]
StepRecords == [number : Nat, agents : SUBSET AgentIds]

ById(refs) == {p.agent : p \in {q \in refs : q.by = "id"}}
Parts(c) == {c.participants[j] : j \in DOMAIN c.participants}

\* The session that a call got an id for.
HeldBy(c) == IF c.pc = "off" THEN {} ELSE c.session

\* What an answer says is true of the sessions listed.
Truthful(c, l) ==
    /\ c.pc = "answered" /\ c.code \in Nat
    /\ c.kind \in {"coordinate", "plan"} =>
          /\ c.code >= 400 => c.session \intersect DOMAIN l = {}
          /\ c.code < 400 => c.session # {}
          /\ c.code = 201 => \A s \in c.session \intersect DOMAIN l : l[s].plan.there

IsCall(c) ==
    c = [pc |-> c.pc, i |-> c.i, participants |-> c.participants, request |-> c.request,
         session |-> c.session, scope |-> c.scope, joined |-> c.joined, mapped |-> c.mapped,
         realms |-> c.realms, steps |-> c.steps]

\* Where a call may be, and what its counter counts.
Placed(c) ==
    /\ IsCall(c)
    /\ c.pc \in {"assuming", "resolving", "room", "scoping", "joining", "planning", "mapping", "parsing"}
    /\ c.request \in Requests
    /\ c.participants \in Seq(Refs) /\ c.i \in Nat \ {0}
    /\ c.pc # "parsing" => c.i = 1 \/ c.i <= Len(c.participants)
    /\ c.pc \in {"scoping", "joining", "planning", "mapping", "parsing"} => c.session # {}

\* A session is listed as its call goes on: an orchestration before it is
\* planned, any other at the end.
ListedSoFar(c, l) ==
    /\ c.request.kind # "orchestrate" => c.session \intersect DOMAIN l = {}
    /\ c.pc \in {"planning", "mapping", "parsing"} =>
          \A s \in c.session \intersect DOMAIN l : l[s].participants = Parts(c)

\* The participants passed by id have joined, or were not there.
JoinedSoFar(c, v) ==
    \A j \in DOMAIN c.participants :
        (c.pc = "joining" /\ j < c.i) \/ c.pc \in {"planning", "mapping", "parsing"} =>
            (c.participants[j].by = "id" => c.participants[j].agent \in c.joined \union v)

\* The plan of a diagram, as far as it was parsed.
PlannedSoFar(c) ==
    /\ c.pc \in {"assuming", "resolving", "room", "scoping", "joining"} => c.mapped = {}
    /\ c.pc # "parsing" => c.steps = <<>>
    /\ c.mapped \subseteq ById(Parts(c))
    /\ c.steps \in Seq(StepRecords)
    /\ \A n \in DOMAIN c.steps : c.steps[n].number = n /\ c.steps[n].agents \subseteq c.mapped

Sound(c, l, v) ==
    \/ c = NoCall
    \/ c.pc = "drawing" /\ c.request.kind = "convert" /\ c.session = {}
    \/ Truthful(c, l)
    \/ Placed(c) /\ ListedSoFar(c, l) /\ JoinedSoFar(c, v) /\ PlannedSoFar(c)

\* What PlanFitsItsSession says of one session.
Fits(e, v) ==
    /\ e.kind # "rerun" => ById(e.participants) \ v \subseteq e.joined
    /\ e.plan.diagram =>
          \A n \in DOMAIN e.plan.steps :
              e.plan.steps[n].number = n /\ e.plan.steps[n].agents \subseteq ById(e.participants)

SessionShape(e) ==
    e = [status |-> e.status, kind |-> e.kind, plan |-> e.plan, joined |-> e.joined,
         participants |-> e.participants]

AllFit(l, v) == \A s \in DOMAIN l : SessionShape(l[s]) /\ Fits(l[s], v)

\* Ids are given out once, so that no two calls hold the same session and
\* nobody but its call lists it.
OwnSessions(cs, l, given) ==
    /\ DOMAIN l \subseteq given
    /\ \A k \in Callers : HeldBy(cs[k]) \subseteq given
    /\ \A k, m \in Callers : k # m => HeldBy(cs[k]) \intersect HeldBy(cs[m]) = {}

StartingInv ==
    /\ AgentIds \ agents \subseteq vanished
    /\ calls = [k \in Callers |-> calls[k]]
    /\ OwnSessions(calls, listed, issued)
    /\ \A k \in Callers : Sound(calls[k], listed, vanished)
    /\ AllFit(listed, vanished)

------------------------------------------------------------------------------
(***************************************************************************)
(* The routes that start sessions: lemmas                                  *)
(***************************************************************************)

\* What is sound stays so while the sessions the call holds are not listed
\* anew, keep their participants and lose no plan, and agents come and go.
LEMMA SoundStays ==
    ASSUME NEW c, NEW l, NEW l2, NEW v, NEW v2, Sound(c, l, v), v \subseteq v2,
           \A s \in HeldBy(c) \intersect DOMAIN l2 :
               /\ s \in DOMAIN l
               /\ l2[s].participants = l[s].participants
               /\ l[s].plan.there => l2[s].plan.there
    PROVE  Sound(c, l2, v2)
<1>1. CASE c = NoCall
  BY <1>1 DEF Sound
<1>2. CASE c.pc = "drawing" /\ c.request.kind = "convert" /\ c.session = {}
  BY <1>2 DEF Sound
<1>3. CASE Truthful(c, l)
  <2>1. HeldBy(c) = c.session
    BY <1>3 DEF Truthful, HeldBy
  <2>2. Truthful(c, l2)
    BY <1>3, <2>1 DEF Truthful
  <2> QED
    BY <2>2 DEF Sound
<1>4. CASE Placed(c) /\ ListedSoFar(c, l) /\ JoinedSoFar(c, v) /\ PlannedSoFar(c)
  <2>1. HeldBy(c) = c.session
    BY <1>4 DEF Placed, HeldBy
  <2>2. ListedSoFar(c, l2)
    BY <1>4, <2>1 DEF ListedSoFar
  <2>3. JoinedSoFar(c, v2)
    BY <1>4 DEF JoinedSoFar
  <2> QED
    BY <1>4, <2>2, <2>3 DEF Sound
<1> QED
  BY <1>1, <1>2, <1>3, <1>4 DEF Sound

\* A session fits whoever is known to have vanished since.
LEMMA FitsStays ==
    ASSUME NEW e, NEW v, NEW v2, Fits(e, v), v \subseteq v2
    PROVE  Fits(e, v2)
BY DEF Fits

\* A call goes on to c: it holds what it held and ids given out just now, only
\* the sessions it held are listed otherwise than before, and they fit.
LEMMA CallMoves ==
    ASSUME StartingInv, NEW k \in Callers, NEW c, NEW l, NEW given,
           Goes(k, c), listed' = l, issued' = given, UNCHANGED <<agents, vanished>>,
           issued \subseteq given, HeldBy(c) \subseteq given,
           HeldBy(c) \intersect issued \subseteq HeldBy(calls[k]),
           DOMAIN l \subseteq given,
           \A s \in DOMAIN l \ HeldBy(calls[k]) : s \in DOMAIN listed /\ l[s] = listed[s],
           \A s \in DOMAIN l \intersect HeldBy(calls[k]) : SessionShape(l[s]) /\ Fits(l[s], vanished),
           Sound(c, l, vanished)
    PROVE  StartingInv'
<1>1. calls' = [m \in Callers |-> IF m = k THEN c ELSE calls[m]]
  BY DEF Goes, StartingInv
<1>2. calls'[k] = c /\ \A m \in Callers : m # k => calls'[m] = calls[m]
  BY <1>1
<1>3. calls' = [m \in Callers |-> calls'[m]]
  BY <1>1
<1>4. \A m \in Callers : m # k => HeldBy(calls[m]) \subseteq issued /\ HeldBy(calls[m]) \intersect HeldBy(calls[k]) = {}
  BY DEF StartingInv, OwnSessions
<1>5. OwnSessions(calls', listed', issued')
  <2>1. \A m \in Callers : HeldBy(calls'[m]) \subseteq given
    BY <1>2, <1>4
  <2>2. ASSUME NEW m \in Callers, NEW n \in Callers, m # n
        PROVE  HeldBy(calls'[m]) \intersect HeldBy(calls'[n]) = {}
    <3>1. CASE m # k /\ n # k
      BY <1>2, <2>2, <3>1 DEF StartingInv, OwnSessions
    <3>2. CASE m = k
      BY <1>2, <1>4, <2>2, <3>2
    <3>3. CASE n = k
      BY <1>2, <1>4, <2>2, <3>3
    <3> QED
      BY <3>1, <3>2, <3>3
  <2> QED
    BY <2>1, <2>2 DEF OwnSessions
<1>6. ASSUME NEW m \in Callers
      PROVE  Sound(calls'[m], listed', vanished')
  <2>1. CASE m = k
    BY <1>2, <2>1
  <2>2. CASE m # k
    <3>1. Sound(calls[m], listed, vanished)
      BY DEF StartingInv
    <3>2. \A s \in HeldBy(calls[m]) \intersect DOMAIN l : s \in DOMAIN listed /\ l[s] = listed[s]
      BY <1>4, <2>2
    <3>3. Sound(calls[m], l, vanished)
      BY <3>1, <3>2, SoundStays
    <3> QED
      BY <1>2, <2>2, <3>3
  <2> QED
    BY <2>1, <2>2
<1>7. AllFit(listed', vanished')
  BY DEF StartingInv, AllFit
<1> QED
  BY <1>3, <1>5, <1>6, <1>7 DEF StartingInv

\* The sessions listed change and no call does: each keeps its participants
\* and its plan, or has an id given out just now.
LEMMA ListMoves ==
    ASSUME StartingInv, NEW l, NEW given,
           listed' = l, issued' = given, UNCHANGED <<agents, vanished, calls>>,
           issued \subseteq given, DOMAIN l \subseteq given,
           \A s \in DOMAIN l \intersect issued :
               s \in DOMAIN listed /\ l[s].participants = listed[s].participants /\ l[s].plan = listed[s].plan,
           AllFit(l, vanished)
    PROVE  StartingInv'
<1>1. OwnSessions(calls', listed', issued')
  BY DEF StartingInv, OwnSessions
<1>2. ASSUME NEW k \in Callers
      PROVE  Sound(calls'[k], listed', vanished')
  <2>1. Sound(calls[k], listed, vanished) /\ HeldBy(calls[k]) \subseteq issued
    BY DEF StartingInv, OwnSessions
  <2>2. Sound(calls[k], l, vanished)
    BY <2>1, SoundStays
  <2> QED
    BY <2>2
<1> QED
  BY <1>1, <1>2 DEF StartingInv

Stages == {"assuming", "resolving", "room", "scoping", "joining", "planning", "mapping", "parsing"}

\* A field of a call is set, and it is still one.
LEMMA FieldSet ==
    ASSUME NEW o, IsCall(o), NEW x
    PROVE  /\ IsCall([o EXCEPT !.pc = x])
           /\ IsCall([o EXCEPT !.i = x])
           /\ IsCall([o EXCEPT !.participants = x])
           /\ IsCall([o EXCEPT !.session = x])
           /\ IsCall([o EXCEPT !.scope = x])
           /\ IsCall([o EXCEPT !.joined = x])
           /\ IsCall([o EXCEPT !.mapped = x])
           /\ IsCall([o EXCEPT !.realms = x])
           /\ IsCall([o EXCEPT !.steps = x])
<1>1. IsCall([o EXCEPT !.pc = x])
  BY DEF IsCall
<1>2. IsCall([o EXCEPT !.i = x])
  BY DEF IsCall
<1>3. IsCall([o EXCEPT !.participants = x])
  BY DEF IsCall
<1>4. IsCall([o EXCEPT !.session = x])
  BY DEF IsCall
<1>5. IsCall([o EXCEPT !.scope = x])
  BY DEF IsCall
<1>6. IsCall([o EXCEPT !.joined = x])
  BY DEF IsCall
<1>7. IsCall([o EXCEPT !.mapped = x])
  BY DEF IsCall
<1>8. IsCall([o EXCEPT !.realms = x])
  BY DEF IsCall
<1>9. IsCall([o EXCEPT !.steps = x])
  BY DEF IsCall
<1> QED
  BY <1>1, <1>2, <1>3, <1>4, <1>5, <1>6, <1>7, <1>8, <1>9

\* The answer to call c.
AnswerTo(c, code) == [pc |-> "answered", code |-> code, kind |-> c.request.kind, session |-> c.session]

\* A call at some stage is sound as such.
LEMMA AtStage ==
    ASSUME StartingInv, NEW k \in Callers, calls[k].pc \in Stages
    PROVE  /\ Placed(calls[k]) /\ ListedSoFar(calls[k], listed)
           /\ JoinedSoFar(calls[k], vanished) /\ PlannedSoFar(calls[k])
           /\ HeldBy(calls[k]) = calls[k].session /\ calls[k].session \subseteq issued
<1>1. Sound(calls[k], listed, vanished) /\ HeldBy(calls[k]) \subseteq issued
  BY DEF StartingInv, OwnSessions
<1>2. calls[k] # NoCall
  BY DEF NoCall, Stages
<1>3. calls[k].pc # "drawing" /\ calls[k].pc # "answered" /\ calls[k].pc # "off"
  BY DEF Stages
<1>4. HeldBy(calls[k]) = calls[k].session
  BY <1>3 DEF HeldBy
<1> QED
  BY <1>1, <1>2, <1>3, <1>4 DEF Sound, Truthful

\* A call that goes on and changes nothing else.
LEMMA CallGoesOn ==
    ASSUME StartingInv, NEW k \in Callers, NEW c, Goes(k, c),
           UNCHANGED <<agents, vanished, listed, issued>>,
           HeldBy(c) \subseteq HeldBy(calls[k]), Sound(c, listed, vanished)
    PROVE  StartingInv'
<1>1. HeldBy(calls[k]) \subseteq issued /\ DOMAIN listed \subseteq issued /\ AllFit(listed, vanished)
  BY DEF StartingInv, OwnSessions
<1> QED
  BY <1>1, CallMoves DEF AllFit

\* A call whose session is listed, or listed anew, as it goes on.
LEMMA CallLists ==
    ASSUME StartingInv, NEW k \in Callers, calls[k].pc \in Stages, NEW c, NEW l, Goes(k, c),
           listed' = l, UNCHANGED <<agents, vanished, issued>>,
           HeldBy(c) \subseteq calls[k].session, Sound(c, l, vanished),
           DOMAIN l \subseteq DOMAIN listed \union calls[k].session,
           \A s \in DOMAIN l \ calls[k].session : l[s] = listed[s],
           \A s \in DOMAIN l \intersect calls[k].session : SessionShape(l[s]) /\ Fits(l[s], vanished)
    PROVE  StartingInv'
<1>1. HeldBy(calls[k]) = calls[k].session /\ calls[k].session \subseteq issued
  BY AtStage
<1>2. DOMAIN listed \subseteq issued
  BY DEF StartingInv, OwnSessions
<1> QED
  BY <1>1, <1>2, CallMoves

\* A refusal leaves the sessions alone.
LEMMA CallRefused ==
    ASSUME StartingInv, NEW k \in Callers, calls[k].pc \in Stages, NEW code \in Nat, code >= 400,
           Answers(k, code), UNCHANGED <<agents, vanished, listed, issued>>
    PROVE  StartingInv'
<1> DEFINE c == AnswerTo(calls[k], code)
<1>1. Goes(k, c)
  BY DEF Answers, AnswerTo
<1>2. c.pc = "answered" /\ c.code = code /\ c.kind = calls[k].request.kind /\ c.session = calls[k].session
  BY DEF AnswerTo
<1>3. ListedSoFar(calls[k], listed) /\ HeldBy(calls[k]) = calls[k].session
  BY AtStage
<1>4. Truthful(c, listed)
  <2>1. ~ c.code < 400 /\ c.code # 201
    BY <1>2
  <2>2. c.kind \in {"coordinate", "plan"} => c.session \intersect DOMAIN listed = {}
    BY <1>2, <1>3 DEF ListedSoFar
  <2> HIDE DEF c
  <2> QED
    BY <1>2, <2>1, <2>2 DEF Truthful
<1>5. HeldBy(c) = HeldBy(calls[k])
  BY <1>2, <1>3 DEF HeldBy
<1> HIDE DEF c
<1> QED
  BY <1>1, <1>4, <1>5, CallGoesOn DEF Sound

------------------------------------------------------------------------------
(***************************************************************************)
(* The routes that start sessions: up to the scope                         *)
(***************************************************************************)

LEMMA StartCalledKeeps ==
    ASSUME StartingInv, NEW k \in Callers, NEW request \in Requests, StartCalled(k, request)
    PROVE  StartingInv'
<1> DEFINE c == [pc |-> "assuming", i |-> 1, participants |-> request.refs, request |-> request,
                 session |-> {}, scope |-> {}, joined |-> {}, mapped |-> {}, realms |-> {}, steps |-> <<>>]
<1>1. Goes(k, c) /\ UNCHANGED <<agents, vanished, listed, issued>>
  BY DEF StartCalled
<1>2. request.refs \in Seq(Refs)
  BY RequestsAssumption DEF Refs
<1>4. Placed(c)
  BY <1>2 DEF Placed, IsCall
<1>5. ListedSoFar(c, listed) /\ JoinedSoFar(c, vanished)
  BY DEF ListedSoFar, JoinedSoFar
<1>6. PlannedSoFar(c)
  <2>1. c.steps = <<>> /\ c.mapped = {} /\ c.pc = "assuming"
    OBVIOUS
  <2>2. <<>> \in Seq(StepRecords) /\ DOMAIN <<>> = {}
    OBVIOUS
  <2> HIDE DEF c
  <2> QED
    BY <2>1, <2>2 DEF PlannedSoFar
<1>7. HeldBy(c) = {}
  BY DEF HeldBy
<1> HIDE DEF c
<1> QED
  BY <1>1, <1>4, <1>5, <1>6, <1>7, CallGoesOn DEF Sound

LEMMA EnforceKeeps ==
    ASSUME StartingInv, NEW k \in Callers, EnforceAssumableParticipants(k)
    PROVE  StartingInv'
<1> DEFINE o == calls[k]
           next == IF o.request.kind = "orchestrate" THEN "room" ELSE "resolving"
           c == IF IsLast(k) THEN [o EXCEPT !.pc = next, !.i = 1] ELSE [o EXCEPT !.i = @ + 1]
<1>1. o.pc = "assuming" /\ o.pc \in Stages /\ UNCHANGED <<agents, vanished, listed, issued>>
  BY DEF EnforceAssumableParticipants, Stages
<1>2. CASE Answers(k, 403)
  BY <1>1, <1>2, CallRefused
<1>3. CASE Goes(k, c)
  <2>1. /\ Placed(o) /\ ListedSoFar(o, listed) /\ JoinedSoFar(o, vanished) /\ PlannedSoFar(o)
        /\ HeldBy(o) = o.session
    BY <1>1, AtStage
  <2>2. Len(o.participants) \in Nat /\ o.i \in Nat \ {0}
    BY <1>1, <2>1 DEF Placed, IsCall
  <2>3. /\ c.pc \in {"assuming", "room", "resolving"}
        /\ c.participants = o.participants /\ c.request = o.request /\ c.session = o.session
        /\ c.mapped = o.mapped /\ c.steps = o.steps
    BY <1>1, <2>1 DEF Placed, IsCall
  <2>4. c.i \in Nat \ {0} /\ (c.i = 1 \/ c.i <= Len(o.participants))
    BY <2>1, <2>2 DEF Placed, IsCall, IsLast
  <2>5. IsCall(c)
    BY <2>1 DEF Placed, IsCall
  <2> HIDE DEF c
  <2>6. Placed(c)
    BY <2>1, <2>3, <2>4, <2>5 DEF Placed
  <2>7. ListedSoFar(c, listed)
    BY <2>1, <2>3 DEF ListedSoFar
  <2>8. JoinedSoFar(c, vanished)
    BY <2>3 DEF JoinedSoFar
  <2>9. PlannedSoFar(c)
    BY <1>1, <2>1, <2>3 DEF PlannedSoFar, Parts
  <2>10. HeldBy(c) = HeldBy(o)
    BY <2>1, <2>3 DEF HeldBy
  <2> QED
    BY <1>1, <1>3, <2>6, <2>7, <2>8, <2>9, <2>10, CallGoesOn DEF Sound
<1> QED
  BY <1>2, <1>3 DEF EnforceAssumableParticipants, Proceeds

LEMMA ResolveKeeps ==
    ASSUME StartingInv, NEW k \in Callers, ResolveAgentId(k)
    PROVE  StartingInv'
<1> DEFINE o == calls[k]
           named == [i \in DOMAIN o.participants |->
                        IF i \in Turn(k) THEN [o.participants[i] EXCEPT !.by = "id"] ELSE o.participants[i]]
           found == [o EXCEPT !.participants = named]
           unknown == \E i \in Turn(k) : o.participants[i].agent \notin agents
<1>1. o.pc = "resolving" /\ o.pc \in Stages /\ UNCHANGED <<agents, vanished, listed>>
  BY DEF ResolveAgentId, Stages
<1>2. CASE unknown
  <2>1. Answers(k, 404) /\ UNCHANGED issued
    BY <1>2 DEF ResolveAgentId
  <2> QED
    BY <1>1, <2>1, CallRefused
<1>3. CASE ~ unknown
  <2>1. /\ Placed(o) /\ ListedSoFar(o, listed) /\ JoinedSoFar(o, vanished) /\ PlannedSoFar(o)
        /\ HeldBy(o) = o.session /\ o.session \subseteq issued
    BY <1>1, AtStage
  <2>2. o.participants \in Seq(Refs) /\ o.i \in Nat \ {0} /\ Len(o.participants) \in Nat
    BY <1>1, <2>1 DEF Placed, IsCall
  <2>3. \A i \in DOMAIN o.participants : named[i] \in Refs
    <3>1. ASSUME NEW i \in DOMAIN o.participants PROVE o.participants[i] \in Refs
      BY <2>2
    <3>2. ASSUME NEW r \in Refs PROVE [r EXCEPT !.by = "id"] \in Refs
      BY DEF Refs
    <3> QED
      BY <3>1, <3>2
  <2>4. named \in Seq(Refs) /\ Len(named) = Len(o.participants)
    <3>1. DOMAIN o.participants = 1 .. Len(o.participants)
      BY <2>2
    <3>2. named = [i \in DOMAIN o.participants |-> named[i]]
      OBVIOUS
    <3> HIDE DEF named
    <3> QED
      BY <2>2, <2>3, <3>1, <3>2
  <2> HIDE DEF named
  <2>6. found.participants = named
    BY <2>1 DEF Placed, IsCall
  <2>7. /\ found.pc = "resolving" /\ found.i = o.i /\ found.request = o.request
        /\ found.session = o.session /\ found.mapped = {} /\ found.steps = <<>>
    BY <1>1, <2>1 DEF Placed, IsCall, PlannedSoFar
  <2>8. IsCall(found)
    <3> QED
      BY <2>1, FieldSet DEF Placed
  <2> HIDE DEF found
  \* Nothing is planned yet.
  <2>9. ASSUME NEW c, c.mapped = {}, c.steps = <<>> PROVE PlannedSoFar(c)
    <3>1. <<>> \in Seq(StepRecords) /\ DOMAIN <<>> = {}
      OBVIOUS
    <3> QED
      BY <2>9, <3>1 DEF PlannedSoFar
  <2>10. CASE IsLast(k)
    <3>1. PICK s \in Sessions \ issued :
             /\ issued' = issued \union {s}
             /\ Proceeds(k, "scoping", [found EXCEPT !.session = {s}])
      BY <1>3, <2>10 DEF ResolveAgentId, found, named
    <3> DEFINE only == {s}
               c == [[found EXCEPT !.session = only] EXCEPT !.pc = "scoping", !.i = 1]
    <3>2. Goes(k, c)
      BY <2>10, <3>1 DEF Proceeds
    <3> HIDE DEF only
    <3>3. /\ c.pc = "scoping" /\ c.i = 1 /\ c.participants = found.participants /\ c.request = o.request
          /\ c.session = only /\ c.mapped = {} /\ c.steps = <<>>
      BY <2>7, <2>8 DEF IsCall
    <3>4. IsCall(c)
      <4>1. IsCall([found EXCEPT !.session = only])
        BY <2>8, FieldSet
      <4>2. IsCall([[found EXCEPT !.session = only] EXCEPT !.pc = "scoping"])
        BY <4>1, FieldSet
      <4>3. c = [[[found EXCEPT !.session = only] EXCEPT !.pc = "scoping"] EXCEPT !.i = 1]
        OBVIOUS
      <4> QED
        BY <4>2, <4>3, FieldSet
    <3> HIDE DEF c
    <3>5. Placed(c)
      BY <2>1, <2>4, <2>6, <3>3, <3>4 DEF Placed, only
    <3>6. ListedSoFar(c, listed)
      BY <3>1, <3>3 DEF only, ListedSoFar, StartingInv, OwnSessions
    <3>7. JoinedSoFar(c, vanished) /\ PlannedSoFar(c)
      BY <2>9, <3>3 DEF JoinedSoFar
    <3>8. HeldBy(c) = {s} /\ HeldBy(o) \subseteq issued
      BY <2>1, <3>3 DEF HeldBy, only
    <3>9. DOMAIN listed \subseteq issued /\ AllFit(listed, vanished)
      BY DEF StartingInv, OwnSessions
    <3>10. Sound(c, listed, vanished)
      BY <3>5, <3>6, <3>7 DEF Sound
    <3> QED
      BY <1>1, <3>1, <3>2, <3>8, <3>9, <3>10, CallMoves DEF AllFit
  <2>11. CASE ~ IsLast(k)
    <3> DEFINE c == [found EXCEPT !.i = @ + 1]
    <3>1. Goes(k, c) /\ UNCHANGED issued
      BY <1>3, <2>11 DEF ResolveAgentId, Proceeds, found, named
    <3>2. /\ c.pc = "resolving" /\ c.i = o.i + 1 /\ c.participants = found.participants /\ c.request = o.request
          /\ c.session = o.session /\ c.mapped = {} /\ c.steps = <<>>
      BY <2>7, <2>8 DEF IsCall
    <3>3. IsCall(c)
      BY <2>8, FieldSet
    <3>4. o.i < Len(o.participants)
      BY <2>2, <2>11 DEF IsLast
    <3> HIDE DEF c
    <3>5. c.i \in Nat \ {0} /\ c.i <= Len(c.participants)
      BY <2>2, <2>4, <2>6, <3>2, <3>4
    <3>6. Placed(c)
      BY <2>1, <2>4, <2>6, <3>2, <3>3, <3>5 DEF Placed
    <3>7. ListedSoFar(c, listed)
      BY <2>1, <3>2 DEF ListedSoFar
    <3>8. JoinedSoFar(c, vanished) /\ PlannedSoFar(c)
      BY <2>9, <3>2 DEF JoinedSoFar
    <3>9. HeldBy(c) = HeldBy(o)
      BY <2>1, <3>2 DEF HeldBy
    <3> QED
      BY <1>1, <3>1, <3>6, <3>7, <3>8, <3>9, CallGoesOn DEF Sound
  <2> QED
    BY <2>10, <2>11
<1> QED
  BY <1>2, <1>3

LEMMA AsksKeeps ==
    ASSUME StartingInv, NEW k \in Callers, AsksForRoom(k)
    PROVE  StartingInv'
<1> DEFINE o == calls[k]
<1>1. o.pc = "room" /\ o.pc \in Stages /\ UNCHANGED <<agents, vanished, listed>>
  BY DEF AsksForRoom, Stages
<1>2. CASE Answers(k, 500) /\ UNCHANGED issued
  BY <1>1, <1>2, CallRefused
<1>3. ASSUME NEW s \in Sessions \ issued, issued' = issued \union {s},
             Goes(k, [o EXCEPT !.pc = "scoping", !.session = {s}])
      PROVE  StartingInv'
  <2> DEFINE only == {s}
             c == [o EXCEPT !.pc = "scoping", !.session = only]
  <2>11. Goes(k, c)
    BY <1>3
  <2> HIDE DEF only
  <2>1. /\ Placed(o) /\ PlannedSoFar(o) /\ HeldBy(o) = o.session /\ o.session \subseteq issued
    BY <1>1, AtStage
  <2>2. /\ c.pc = "scoping" /\ c.i = o.i /\ c.participants = o.participants /\ c.request = o.request
        /\ c.session = only /\ c.mapped = o.mapped /\ c.steps = o.steps
    BY <2>1 DEF Placed, IsCall
  <2>3. IsCall(c)
    <3>1. IsCall([o EXCEPT !.pc = "scoping"])
      BY <2>1, FieldSet DEF Placed
    <3>2. c = [[o EXCEPT !.pc = "scoping"] EXCEPT !.session = only]
      OBVIOUS
    <3> QED
      BY <3>1, <3>2, FieldSet
  <2> HIDE DEF c
  <2>4. Placed(c)
    BY <1>1, <2>1, <2>2, <2>3 DEF Placed, only
  <2>5. ListedSoFar(c, listed)
    BY <1>3, <2>2 DEF only, ListedSoFar, StartingInv, OwnSessions
  <2>6. JoinedSoFar(c, vanished)
    BY <2>2 DEF JoinedSoFar
  <2>7. PlannedSoFar(c)
    BY <1>1, <2>1, <2>2 DEF PlannedSoFar, Parts
  <2>8. HeldBy(c) = {s}
    BY <2>2 DEF HeldBy, only
  <2>9. DOMAIN listed \subseteq issued /\ AllFit(listed, vanished)
    BY DEF StartingInv, OwnSessions
  <2>10. Sound(c, listed, vanished)
    BY <2>4, <2>5, <2>6, <2>7 DEF Sound
  <2> QED
    BY <1>1, <1>3, <2>1, <2>8, <2>9, <2>10, <2>11, CallMoves DEF AllFit
<1> QED
  BY <1>2, <1>3 DEF AsksForRoom

LEMMA ScopeKeeps ==
    ASSUME StartingInv, NEW k \in Callers, ResolveResearchRealms(k)
    PROVE  StartingInv'
<1> DEFINE o == calls[k]
           more == o.scope \union {BoundTo[a] : a \in {b \in Loaded(k) : ~ Druid(b)}}
           scoped == [o EXCEPT !.scope = more]
           c == IF o.request.realms # {}
                THEN [o EXCEPT !.pc = "joining", !.i = 1, !.scope = o.request.realms]
                ELSE IF IsLast(k) THEN [scoped EXCEPT !.pc = "joining", !.i = 1]
                                  ELSE [scoped EXCEPT !.i = @ + 1]
<1>1. o.pc = "scoping" /\ o.pc \in Stages /\ UNCHANGED <<agents, vanished, listed, issued>>
  BY DEF ResolveResearchRealms, Stages
<1>2. /\ Placed(o) /\ ListedSoFar(o, listed) /\ PlannedSoFar(o) /\ HeldBy(o) = o.session
  BY <1>1, AtStage
<1>3. Goes(k, c)
  BY <1>2 DEF ResolveResearchRealms, Proceeds, Placed
<1> HIDE DEF more
<1>4. scoped = [pc |-> o.pc, i |-> o.i, participants |-> o.participants, request |-> o.request,
                session |-> o.session, scope |-> more, joined |-> o.joined, mapped |-> o.mapped,
                realms |-> o.realms, steps |-> o.steps]
  BY <1>2 DEF Placed, IsCall
<1> HIDE DEF scoped
<1>5. Len(o.participants) \in Nat /\ o.i \in Nat \ {0}
  BY <1>1, <1>2 DEF Placed, IsCall
<1>6. /\ c.pc \in {"scoping", "joining"}
      /\ c.participants = o.participants /\ c.request = o.request /\ c.session = o.session
      /\ c.mapped = o.mapped /\ c.steps = o.steps
  BY <1>1, <1>2, <1>4 DEF Placed, IsCall
<1>7. /\ c.i \in Nat \ {0} /\ (c.i = 1 \/ c.i <= Len(o.participants))
      /\ c.pc = "joining" => c.i = 1
  BY <1>1, <1>2, <1>4, <1>5 DEF Placed, IsCall, IsLast
<1>8. IsCall(c)
  BY <1>2, <1>4 DEF Placed, IsCall
<1> HIDE DEF c
<1>9. Placed(c)
  BY <1>1, <1>2, <1>6, <1>7, <1>8 DEF Placed
<1>10. ListedSoFar(c, listed)
  BY <1>2, <1>6 DEF ListedSoFar
<1>11. JoinedSoFar(c, vanished)
  <2>1. \A j \in DOMAIN c.participants : j \in Nat \ {0}
    BY <1>9 DEF Placed
  <2> QED
    BY <1>6, <1>7, <2>1 DEF JoinedSoFar
<1>12. PlannedSoFar(c)
  BY <1>1, <1>2, <1>6 DEF PlannedSoFar, Parts
<1>13. HeldBy(c) = HeldBy(o)
  BY <1>2, <1>6 DEF HeldBy
<1> QED
  BY <1>1, <1>3, <1>9, <1>10, <1>11, <1>12, <1>13, CallGoesOn DEF Sound

------------------------------------------------------------------------------
(***************************************************************************)
(* The routes that start sessions: joining and planning                    *)
(***************************************************************************)

\* A session that is listed with the participants of its call fits, if those
\* by id joined and its plan keeps to them.
LEMMA SessionOfFits ==
    ASSUME StartingInv, NEW k \in Callers, NEW status, NEW joined, NEW plan,
           \A j \in DOMAIN calls[k].participants :
               calls[k].participants[j].by = "id" => calls[k].participants[j].agent \in joined \union vanished,
           plan.diagram =>
               \A n \in DOMAIN plan.steps :
                   plan.steps[n].number = n /\ plan.steps[n].agents \subseteq ById(Parts(calls[k]))
    PROVE  LET e == SessionOf(k, status, joined, plan)
           IN  /\ SessionShape(e) /\ Fits(e, vanished)
               /\ e.participants = Parts(calls[k]) /\ e.plan = plan
<1> DEFINE e == SessionOf(k, status, joined, plan)
<1>1. /\ e.participants = Parts(calls[k]) /\ e.plan = plan /\ e.joined = joined
  BY DEF SessionOf, Parts
<1>2. SessionShape(e)
  BY DEF SessionOf, SessionShape
<1>3. ById(Parts(calls[k])) \ vanished \subseteq joined
  <2>1. \A p \in Parts(calls[k]) : p.by = "id" => p.agent \in joined \union vanished
    BY DEF Parts
  <2> QED
    BY <2>1 DEF ById
<1> HIDE DEF e
<1>4. Fits(e, vanished)
  BY <1>1, <1>3 DEF Fits
<1> QED
  BY <1>1, <1>2, <1>4 DEF e

\* An accepted call is answered, and its sessions are there with what was
\* promised for them.
LEMMA CallAccepted ==
    ASSUME StartingInv, NEW k \in Callers, calls[k].pc \in Stages, calls[k].session # {},
           NEW code \in Nat, code < 400, Answers(k, code), NEW l,
           listed' = l, UNCHANGED <<agents, vanished, issued>>,
           DOMAIN l \subseteq DOMAIN listed \union calls[k].session,
           \A s \in DOMAIN l \ calls[k].session : l[s] = listed[s],
           \A s \in DOMAIN l \intersect calls[k].session : SessionShape(l[s]) /\ Fits(l[s], vanished),
           code = 201 => \A s \in calls[k].session \intersect DOMAIN l : l[s].plan.there
    PROVE  StartingInv'
<1> DEFINE c == AnswerTo(calls[k], code)
<1>1. Goes(k, c)
  BY DEF Answers, AnswerTo
<1>2. c.pc = "answered" /\ c.code = code /\ c.kind = calls[k].request.kind /\ c.session = calls[k].session
  BY DEF AnswerTo
<1> HIDE DEF c
<1>3. Truthful(c, l)
  <2>1. ~ c.code >= 400
    BY <1>2
  <2> QED
    BY <1>2, <2>1 DEF Truthful
<1>4. HeldBy(c) = calls[k].session
  BY <1>2 DEF HeldBy
<1>5. Sound(c, l, vanished)
  BY <1>3 DEF Sound
<1> QED
  BY <1>1, <1>4, <1>5, CallLists

\* Up to the one who joins now, the participants by id have joined, or were
\* not there.
LEMMA JoinsNow ==
    ASSUME StartingInv, NEW k \in Callers, calls[k].pc = "joining"
    PROVE  \A j \in DOMAIN calls[k].participants :
              j <= calls[k].i /\ calls[k].participants[j].by = "id" =>
                 calls[k].participants[j].agent \in calls[k].joined \union Joins(k) \union vanished
<1> DEFINE o == calls[k]
<1>1. Placed(o) /\ JoinedSoFar(o, vanished)
  BY AtStage DEF Stages
<1>2. o.participants \in Seq(Refs) /\ o.i \in Nat \ {0} /\ Len(o.participants) \in Nat
  BY <1>1 DEF Placed
<1>3. ASSUME NEW j \in DOMAIN o.participants, j <= o.i, o.participants[j].by = "id"
      PROVE  o.participants[j].agent \in o.joined \union Joins(k) \union vanished
  <2>1. j \in Nat
    BY <1>2
  <2>2. CASE j < o.i
    BY <1>1, <1>3, <2>2 DEF JoinedSoFar
  <2>3. CASE j = o.i
    <3>1. o.participants[j] \in Refs
      BY <1>2
    <3>2. o.participants[j].agent \in AgentIds
      BY <3>1 DEF Refs
    <3>3. CASE o.participants[j].agent \in agents
      BY <1>3, <2>3, <3>3 DEF Joins, Loaded, Turn, Loads
    <3>4. CASE o.participants[j].agent \notin agents
      BY <3>2, <3>4 DEF StartingInv
    <3> QED
      BY <3>3, <3>4
  <2> QED
    BY <1>2, <1>3, <2>1, <2>2, <2>3
<1> QED
  BY <1>3

LEMMA JoinKeeps ==
    ASSUME StartingInv, NEW k \in Callers, JoinSession(k)
    PROVE  StartingInv'
<1> DEFINE o == calls[k]
           joined == o.joined \union Joins(k)
           with == [o EXCEPT !.joined = joined]
           c == IF IsLast(k) THEN [with EXCEPT !.pc = "planning", !.i = 1]
                             ELSE [with EXCEPT !.i = @ + 1]
           kind == o.request.kind
<1>1. o.pc = "joining" /\ o.pc \in Stages /\ UNCHANGED <<agents, vanished, issued>>
  BY DEF JoinSession, Stages
<1>2. /\ Placed(o) /\ ListedSoFar(o, listed) /\ JoinedSoFar(o, vanished) /\ PlannedSoFar(o)
      /\ HeldBy(o) = o.session /\ o.session # {}
  BY <1>1, AtStage DEF Placed
<1>3. o.participants \in Seq(Refs) /\ o.i \in Nat \ {0} /\ Len(o.participants) \in Nat
  BY <1>1, <1>2 DEF Placed
<1>4. \A j \in DOMAIN o.participants :
         j <= o.i /\ o.participants[j].by = "id" => o.participants[j].agent \in joined \union vanished
  BY <1>1, JoinsNow
<1>5. IsLast(k) => \A j \in DOMAIN o.participants :
         o.participants[j].by = "id" => o.participants[j].agent \in joined \union vanished
  BY <1>3, <1>4 DEF IsLast
<1> HIDE DEF joined
<1>6. IsCall(with)
  BY <1>2, FieldSet DEF Placed
<1>7. /\ with.pc = "joining" /\ with.i = o.i /\ with.participants = o.participants /\ with.request = o.request
      /\ with.session = o.session /\ with.joined = joined /\ with.mapped = o.mapped /\ with.steps = o.steps
  BY <1>1, <1>2 DEF Placed, IsCall
<1> HIDE DEF with
<1>8. IsCall(c)
  <2>1. IsCall([with EXCEPT !.pc = "planning"]) /\ IsCall([with EXCEPT !.i = @ + 1])
    BY <1>6, FieldSet
  <2>2. IsCall([[with EXCEPT !.pc = "planning"] EXCEPT !.i = 1])
    BY <2>1, FieldSet
  <2>3. [with EXCEPT !.pc = "planning", !.i = 1] = [[with EXCEPT !.pc = "planning"] EXCEPT !.i = 1]
    OBVIOUS
  <2> QED
    BY <2>1, <2>2, <2>3
<1>9. /\ c.participants = o.participants /\ c.request = o.request
      /\ c.session = o.session /\ c.joined = joined /\ c.mapped = o.mapped /\ c.steps = o.steps
      /\ c.pc = IF IsLast(k) THEN "planning" ELSE "joining"
      /\ c.i = IF IsLast(k) THEN 1 ELSE o.i + 1
  BY <1>6, <1>7 DEF IsCall
<1>10. /\ Goes(k, c) /\ UNCHANGED listed /\ (IsLast(k) => kind = "plan")
       \/ /\ IsLast(k) /\ kind = "coordinate" /\ Answers(k, 202)
          /\ Lists(o.session, SessionOf(k, "pending", joined, NoPlan))
       \/ /\ IsLast(k) /\ kind \notin {"plan", "coordinate"} /\ Goes(k, c)
          /\ Lists(o.session, SessionOf(k, "in_progress", joined, NoPlan))
  BY DEF JoinSession, Proceeds, with, joined
<1> HIDE DEF c
<1>11. Placed(c)
  BY <1>2, <1>3, <1>8, <1>9 DEF Placed, IsLast
<1>12. JoinedSoFar(c, vanished)
  <2>1. ASSUME NEW j \in DOMAIN o.participants, o.participants[j].by = "id", IsLast(k) \/ j < o.i + 1
        PROVE  o.participants[j].agent \in joined \union vanished
    <3>1. j \in Nat /\ o.i \in Nat
      BY <1>3
    <3> QED
      BY <1>4, <1>5, <2>1, <3>1
  <2> QED
    BY <1>9, <2>1 DEF JoinedSoFar
<1>13. PlannedSoFar(c)
  BY <1>1, <1>2, <1>9 DEF PlannedSoFar, Parts
<1>14. HeldBy(c) = o.session
  BY <1>9 DEF HeldBy
<1>15. CASE Goes(k, c) /\ UNCHANGED listed /\ (IsLast(k) => kind = "plan")
  <2>1. ListedSoFar(c, listed)
    BY <1>2, <1>9, <1>15 DEF ListedSoFar
  <2>2. Sound(c, listed, vanished)
    BY <1>11, <1>12, <1>13, <2>1 DEF Sound
  <2> QED
    BY <1>1, <1>2, <1>14, <1>15, <2>2, CallGoesOn
<1>16. ASSUME NEW status, IsLast(k), Lists(o.session, SessionOf(k, status, joined, NoPlan)),
              \/ kind = "coordinate" /\ Answers(k, 202)
              \/ kind \notin {"plan", "coordinate"} /\ Goes(k, c)
       PROVE  StartingInv'
  <2> DEFINE e == SessionOf(k, status, joined, NoPlan)
             l == [t \in DOMAIN listed \union o.session |-> IF t \in o.session THEN e ELSE listed[t]]
  <2>1. listed' = l
    BY <1>16 DEF Lists
  <2>2. SessionShape(e) /\ Fits(e, vanished) /\ e.participants = Parts(o)
    BY <1>5, <1>16, SessionOfFits DEF NoPlan
  <2> HIDE DEF e
  <2>3. /\ DOMAIN l = DOMAIN listed \union o.session
        /\ \A s \in DOMAIN l \ o.session : l[s] = listed[s]
        /\ \A s \in DOMAIN l \intersect o.session : l[s] = e
    OBVIOUS
  <2> HIDE DEF l
  <2>4. CASE Answers(k, 202)
    BY <1>1, <1>2, <2>1, <2>2, <2>3, <2>4, CallAccepted
  <2>5. CASE Goes(k, c) /\ kind \notin {"plan", "coordinate"}
    <3>1. kind = "orchestrate"
      BY <1>2, <2>5, RequestsAssumption DEF Placed
    <3>2. Parts(c) = Parts(o)
      BY <1>9 DEF Parts
    <3>3. ListedSoFar(c, l)
      BY <1>9, <2>2, <2>3, <3>1, <3>2 DEF ListedSoFar
    <3>4. Sound(c, l, vanished)
      BY <1>11, <1>12, <1>13, <3>3 DEF Sound
    <3> QED
      BY <1>1, <1>2, <1>14, <2>1, <2>2, <2>3, <2>5, <3>4, CallLists
  <2> QED
    BY <1>16, <2>4, <2>5
<1> QED
  BY <1>10, <1>15, <1>16

\* A plan that keeps to the participants is listed, or given to the listed
\* orchestration.
LEMMA PlannedKeeps ==
    ASSUME StartingInv, NEW k \in Callers, calls[k].pc \in {"planning", "mapping", "parsing"}, NEW steps,
           calls[k].request.mode = "diagram" =>
               \A n \in DOMAIN steps : steps[n].number = n /\ steps[n].agents \subseteq ById(Parts(calls[k])),
           Planned(k, steps), UNCHANGED <<agents, vanished, issued>>
    PROVE  StartingInv'
<1> DEFINE o == calls[k]
           plan == [there |-> TRUE, steps |-> steps, diagram |-> o.request.mode = "diagram"]
<1>1. o.pc \in Stages
  BY DEF Stages
<1>2. /\ Placed(o) /\ ListedSoFar(o, listed) /\ JoinedSoFar(o, vanished)
      /\ o.session # {}
  BY <1>1, AtStage DEF Placed
<1>3. \A j \in DOMAIN o.participants :
         o.participants[j].by = "id" => o.participants[j].agent \in o.joined \union vanished
  BY <1>2 DEF JoinedSoFar
<1>4. plan.there /\ plan.steps = steps /\ (plan.diagram <=> o.request.mode = "diagram")
  OBVIOUS
<1>5. \/ Lists(o.session, SessionOf(k, "pending", o.joined, plan)) /\ Answers(k, 201)
      \/ /\ listed' = [t \in DOMAIN listed |->
                          IF t \in o.session THEN [listed[t] EXCEPT !.plan = plan] ELSE listed[t]]
         /\ Answers(k, 202)
  BY DEF Planned
<1> HIDE DEF plan
<1>6. plan.diagram =>
         \A n \in DOMAIN plan.steps : plan.steps[n].number = n /\ plan.steps[n].agents \subseteq ById(Parts(o))
  BY <1>4
<1>7. CASE Lists(o.session, SessionOf(k, "pending", o.joined, plan)) /\ Answers(k, 201)
  <2> DEFINE e == SessionOf(k, "pending", o.joined, plan)
             l == [t \in DOMAIN listed \union o.session |-> IF t \in o.session THEN e ELSE listed[t]]
  <2>1. listed' = l
    BY <1>7 DEF Lists
  <2>2. SessionShape(e) /\ Fits(e, vanished) /\ e.plan = plan
    BY <1>3, <1>6, SessionOfFits
  <2> HIDE DEF e
  <2>3. /\ DOMAIN l = DOMAIN listed \union o.session
        /\ \A s \in DOMAIN l \ o.session : l[s] = listed[s]
        /\ \A s \in DOMAIN l \intersect o.session : l[s] = e
    OBVIOUS
  <2> HIDE DEF l
  <2> QED
    BY <1>1, <1>2, <1>4, <1>7, <2>1, <2>2, <2>3, CallAccepted
<1>8. CASE /\ listed' = [t \in DOMAIN listed |->
                            IF t \in o.session THEN [listed[t] EXCEPT !.plan = plan] ELSE listed[t]]
           /\ Answers(k, 202)
  <2> DEFINE l == [t \in DOMAIN listed |->
                      IF t \in o.session THEN [listed[t] EXCEPT !.plan = plan] ELSE listed[t]]
  <2>1. listed' = l /\ DOMAIN l = DOMAIN listed /\ \A s \in DOMAIN l \ o.session : l[s] = listed[s]
    BY <1>8
  <2>2. ASSUME NEW s \in DOMAIN l \intersect o.session
        PROVE  SessionShape(l[s]) /\ Fits(l[s], vanished)
    <3>1. l[s] = [listed[s] EXCEPT !.plan = plan]
      BY <2>2
    <3>2. SessionShape(listed[s]) /\ Fits(listed[s], vanished)
      BY <2>1, <2>2 DEF StartingInv, AllFit
    <3>3. listed[s].participants = Parts(o)
      BY <1>2, <2>1, <2>2 DEF ListedSoFar
    <3> HIDE DEF l
    <3>4. SessionShape(l[s])
      BY <3>1, <3>2 DEF SessionShape
    <3>5. /\ l[s].kind = listed[s].kind /\ l[s].participants = listed[s].participants
          /\ l[s].joined = listed[s].joined /\ l[s].plan = plan
      BY <3>1, <3>2 DEF SessionShape
    <3>6. Fits(l[s], vanished)
      BY <1>6, <3>2, <3>3, <3>5 DEF Fits
    <3> QED
      BY <3>4, <3>6
  <2> HIDE DEF l
  <2> QED
    BY <1>1, <1>2, <1>8, <2>1, <2>2, CallAccepted
<1> QED
  BY <1>5, <1>7, <1>8

LEMMA TextPlannedKeeps ==
    ASSUME StartingInv, NEW k \in Callers, TextPlanned(k)
    PROVE  StartingInv'
<1>1. calls[k].pc = "planning" /\ calls[k].request.mode = "text" /\ UNCHANGED <<agents, vanished, issued>>
  BY DEF TextPlanned, Planning
<1>2. CASE Planned(k, <<>>)
  BY <1>1, <1>2, PlannedKeeps
<1>3. ASSUME NEW code \in {404, 500}, PlanFails(k, code)
      PROVE  StartingInv'
  BY <1>1, <1>3, CallRefused DEF PlanFails, Stages
<1> QED
  BY <1>2, <1>3 DEF TextPlanned

LEMMA NamesMappedKeeps ==
    ASSUME StartingInv, NEW k \in Callers, NamesMapped(k)
    PROVE  StartingInv'
<1> DEFINE o == calls[k]
           mapped == o.mapped \union Loaded(k)
           with == [o EXCEPT !.mapped = mapped]
           c == IF IsLast(k) THEN [with EXCEPT !.pc = "mapping", !.i = 1]
                             ELSE [with EXCEPT !.i = @ + 1]
<1>1. o.pc = "planning" /\ o.pc \in Stages /\ UNCHANGED <<agents, vanished, listed, issued>>
  BY DEF NamesMapped, Planning, Stages
<1>2. /\ Placed(o) /\ ListedSoFar(o, listed) /\ JoinedSoFar(o, vanished) /\ PlannedSoFar(o)
      /\ HeldBy(o) = o.session /\ o.session # {}
  BY <1>1, AtStage DEF Placed
<1>3. o.participants \in Seq(Refs) /\ o.i \in Nat \ {0} /\ Len(o.participants) \in Nat
  BY <1>1, <1>2 DEF Placed
<1>4. Goes(k, c)
  BY DEF NamesMapped, Proceeds
<1>5. mapped \subseteq ById(Parts(o))
  <2>1. Loaded(k) \subseteq ById(Parts(o))
    BY DEF Loaded, Turn, Loads, ById, Parts
  <2> QED
    BY <1>2, <2>1 DEF PlannedSoFar
<1> HIDE DEF mapped
<1>6. IsCall(with)
  BY <1>2, FieldSet DEF Placed
<1>7. /\ with.pc = "planning" /\ with.i = o.i /\ with.participants = o.participants /\ with.request = o.request
      /\ with.session = o.session /\ with.joined = o.joined /\ with.mapped = mapped /\ with.steps = o.steps
  BY <1>1, <1>2 DEF Placed, IsCall
<1> HIDE DEF with
<1>8. IsCall(c)
  <2>1. IsCall([with EXCEPT !.pc = "mapping"]) /\ IsCall([with EXCEPT !.i = @ + 1])
    BY <1>6, FieldSet
  <2>2. IsCall([[with EXCEPT !.pc = "mapping"] EXCEPT !.i = 1])
    BY <2>1, FieldSet
  <2>3. [with EXCEPT !.pc = "mapping", !.i = 1] = [[with EXCEPT !.pc = "mapping"] EXCEPT !.i = 1]
    OBVIOUS
  <2> QED
    BY <2>1, <2>2, <2>3
<1>9. /\ c.participants = o.participants /\ c.request = o.request
      /\ c.session = o.session /\ c.joined = o.joined /\ c.mapped = mapped /\ c.steps = o.steps
      /\ c.pc = IF IsLast(k) THEN "mapping" ELSE "planning"
      /\ c.i = IF IsLast(k) THEN 1 ELSE o.i + 1
  BY <1>6, <1>7 DEF IsCall
<1> HIDE DEF c
<1>10. Placed(c)
  BY <1>2, <1>3, <1>8, <1>9 DEF Placed, IsLast
<1>11. Parts(c) = Parts(o)
  BY <1>9 DEF Parts
<1>12. ListedSoFar(c, listed) /\ JoinedSoFar(c, vanished)
  BY <1>1, <1>2, <1>9, <1>11 DEF ListedSoFar, JoinedSoFar
<1>13. PlannedSoFar(c)
  <2>1. o.steps = <<>>
    BY <1>1, <1>2 DEF PlannedSoFar
  <2>2. <<>> \in Seq(StepRecords) /\ DOMAIN <<>> = {}
    OBVIOUS
  <2> QED
    BY <1>5, <1>9, <1>11, <2>1, <2>2 DEF PlannedSoFar
<1>14. HeldBy(c) = HeldBy(o)
  BY <1>2, <1>9 DEF HeldBy
<1> QED
  BY <1>1, <1>4, <1>10, <1>12, <1>13, <1>14, CallGoesOn DEF Sound

LEMMA RealmsMappedKeeps ==
    ASSUME StartingInv, NEW k \in Callers, RealmsMapped(k)
    PROVE  StartingInv'
<1> DEFINE o == calls[k]
<1>1. o.pc = "mapping" /\ o.pc \in Stages /\ UNCHANGED <<agents, vanished, listed, issued>>
  BY DEF RealmsMapped, Stages
<1>2. /\ Placed(o) /\ ListedSoFar(o, listed) /\ JoinedSoFar(o, vanished) /\ PlannedSoFar(o)
      /\ HeldBy(o) = o.session
  BY <1>1, AtStage
<1>3. PICK known \in {RealmIds, {}} : Goes(k, [o EXCEPT !.pc = "parsing", !.i = 1, !.realms = known])
  BY DEF RealmsMapped
<1> DEFINE c == [o EXCEPT !.pc = "parsing", !.i = 1, !.realms = known]
<1>4. IsCall(c)
  <2>1. IsCall([o EXCEPT !.pc = "parsing"])
    BY <1>2, FieldSet DEF Placed
  <2>2. IsCall([[o EXCEPT !.pc = "parsing"] EXCEPT !.i = 1])
    BY <2>1, FieldSet
  <2>3. c = [[[o EXCEPT !.pc = "parsing"] EXCEPT !.i = 1] EXCEPT !.realms = known]
    OBVIOUS
  <2> QED
    BY <2>2, <2>3, FieldSet
<1>5. /\ c.pc = "parsing" /\ c.i = 1 /\ c.participants = o.participants /\ c.request = o.request
      /\ c.session = o.session /\ c.joined = o.joined /\ c.mapped = o.mapped /\ c.steps = o.steps
  BY <1>2 DEF Placed, IsCall
<1>6. Goes(k, c)
  BY <1>3
<1> HIDE DEF c
<1>7. Placed(c)
  BY <1>1, <1>2, <1>4, <1>5 DEF Placed
<1>8. Parts(c) = Parts(o)
  BY <1>5 DEF Parts
<1>9. ListedSoFar(c, listed) /\ JoinedSoFar(c, vanished)
  BY <1>1, <1>2, <1>5, <1>8 DEF ListedSoFar, JoinedSoFar
<1>10. PlannedSoFar(c)
  BY <1>1, <1>2, <1>5, <1>8 DEF PlannedSoFar
<1>11. HeldBy(c) = HeldBy(o)
  BY <1>2, <1>5 DEF HeldBy
<1> QED
  BY <1>1, <1>6, <1>7, <1>9, <1>10, <1>11, CallGoesOn DEF Sound

\* A step gets the next number, and keeps to those mapped.
LEMMA StepFits ==
    ASSUME StartingInv, NEW k \in Callers, calls[k].pc = "parsing", ~ Skipped(k)
    PROVE  /\ Step(k) \in StepRecords
           /\ Step(k).number = Len(calls[k].steps) + 1 /\ Step(k).agents \subseteq calls[k].mapped
<1> DEFINE o == calls[k]
<1>1. Placed(o) /\ PlannedSoFar(o)
  BY AtStage DEF Stages
<1>2. Step(k).number = Len(o.steps) + 1 /\ Step(k).agents = {Arrow(k).from} \union Partner(k)
  BY DEF Step, StepNumber
<1>3. Step(k).agents \subseteq o.mapped
  BY <1>2 DEF Skipped, Partner
<1>4. ById(Parts(o)) \subseteq AgentIds
  <2>1. o.participants \in Seq(Refs)
    BY <1>1 DEF Placed
  <2>2. \A j \in DOMAIN o.participants : o.participants[j] \in Refs
    BY <2>1
  <2>3. \A p \in Parts(o) : p.agent \in AgentIds
    BY <2>2 DEF Parts, Refs
  <2> QED
    BY <2>3 DEF ById
<1>5. Len(o.steps) + 1 \in Nat /\ Step(k).agents \in SUBSET AgentIds
  BY <1>1, <1>3, <1>4 DEF PlannedSoFar
<1>6. Step(k) \in StepRecords
  BY <1>2, <1>5 DEF Step, StepRecords
<1> QED
  BY <1>2, <1>3, <1>6

LEMMA ArrowParsedKeeps ==
    ASSUME StartingInv, NEW k \in Callers, ArrowParsed(k)
    PROVE  StartingInv'
<1> DEFINE o == calls[k]
           steps == IF Skipped(k) THEN o.steps ELSE Append(o.steps, Step(k))
           c == [o EXCEPT !.i = @ + 1, !.steps = steps]
<1>1. o.pc = "parsing" /\ o.pc \in Stages /\ UNCHANGED <<agents, vanished, issued>>
  BY DEF ArrowParsed, Stages
<1>2. /\ Placed(o) /\ ListedSoFar(o, listed) /\ JoinedSoFar(o, vanished) /\ PlannedSoFar(o)
      /\ HeldBy(o) = o.session
  BY <1>1, AtStage
<1>3. CASE PlanFails(k, 404)
  BY <1>1, <1>3, CallRefused DEF PlanFails
<1>4. CASE Goes(k, c) /\ UNCHANGED listed
  <2>1. steps \in Seq(StepRecords) /\ \A n \in DOMAIN steps : steps[n].number = n /\ steps[n].agents \subseteq o.mapped
    <3>1. o.steps \in Seq(StepRecords)
          /\ \A n \in DOMAIN o.steps : o.steps[n].number = n /\ o.steps[n].agents \subseteq o.mapped
      BY <1>2 DEF PlannedSoFar
    <3>2. CASE Skipped(k)
      BY <3>1, <3>2
    <3>3. CASE ~ Skipped(k)
      <4> DEFINE new == Step(k)
      <4>1. new \in StepRecords /\ new.number = Len(o.steps) + 1 /\ new.agents \subseteq o.mapped
        BY <1>1, <3>3, StepFits
      <4>2. steps = Append(o.steps, new)
        BY <3>3
      <4> HIDE DEF new, steps
      <4>3. steps \in Seq(StepRecords) /\ DOMAIN steps = 1 .. Len(o.steps) + 1
        BY <3>1, <4>1, <4>2
      <4>4. ASSUME NEW n \in DOMAIN steps
            PROVE  steps[n].number = n /\ steps[n].agents \subseteq o.mapped
        <5>1. CASE n = Len(o.steps) + 1
          BY <3>1, <4>1, <4>2, <5>1
        <5>2. CASE n \in 1 .. Len(o.steps)
          <6>1. steps[n] = o.steps[n] /\ n \in DOMAIN o.steps
            BY <3>1, <4>1, <4>2, <5>2
          <6> QED
            BY <3>1, <6>1
        <5>3. Len(o.steps) \in Nat
          BY <3>1
        <5> QED
          BY <4>3, <4>4, <5>1, <5>2, <5>3
      <4> QED
        BY <4>3, <4>4
    <3> QED
      BY <3>2, <3>3
  <2> HIDE DEF steps
  <2>2. IsCall(c)
    <3>1. IsCall([o EXCEPT !.i = @ + 1])
      BY <1>2, FieldSet DEF Placed
    <3>2. c = [[o EXCEPT !.i = @ + 1] EXCEPT !.steps = steps]
      OBVIOUS
    <3> QED
      BY <3>1, <3>2, FieldSet
  <2>3. /\ c.pc = "parsing" /\ c.i = o.i + 1 /\ c.participants = o.participants /\ c.request = o.request
        /\ c.session = o.session /\ c.joined = o.joined /\ c.mapped = o.mapped /\ c.steps = steps
    BY <1>1, <1>2 DEF Placed, IsCall
  <2> HIDE DEF c
  <2>4. Placed(c)
    BY <1>1, <1>2, <2>2, <2>3 DEF Placed
  <2>5. Parts(c) = Parts(o)
    BY <2>3 DEF Parts
  <2>6. ListedSoFar(c, listed) /\ JoinedSoFar(c, vanished)
    BY <1>1, <1>2, <2>3, <2>5 DEF ListedSoFar, JoinedSoFar
  <2>7. PlannedSoFar(c)
    BY <1>1, <1>2, <2>1, <2>3, <2>5 DEF PlannedSoFar
  <2>8. HeldBy(c) = HeldBy(o)
    BY <1>2, <2>3 DEF HeldBy
  <2> QED
    BY <1>1, <1>4, <2>4, <2>6, <2>7, <2>8, CallGoesOn DEF Sound
<1>5. Goes(k, c) <=> Goes(k, [o EXCEPT !.i = @ + 1, !.steps = IF Skipped(k) THEN @ ELSE Append(@, Step(k))])
  OBVIOUS
<1> QED
  BY <1>3, <1>4, <1>5 DEF ArrowParsed

LEMMA DiagramPlannedKeeps ==
    ASSUME StartingInv, NEW k \in Callers, DiagramPlanned(k)
    PROVE  StartingInv'
<1>1. calls[k].pc = "parsing" /\ Planned(k, calls[k].steps) /\ UNCHANGED <<agents, vanished, issued>>
  BY DEF DiagramPlanned
<1>2. PlannedSoFar(calls[k])
  BY <1>1, AtStage DEF Stages
<1>3. \A n \in DOMAIN calls[k].steps :
         calls[k].steps[n].number = n /\ calls[k].steps[n].agents \subseteq ById(Parts(calls[k]))
  BY <1>2 DEF PlannedSoFar
<1> QED
  BY <1>1, <1>3, PlannedKeeps

LEMMA ConvertKeeps ==
    ASSUME StartingInv, NEW k \in Callers,
           ConvertToDiagram(k) \/ DiagramDrawn(k) \/ CallEnds(k)
    PROVE  StartingInv'
<1>1. UNCHANGED <<agents, vanished, listed, issued>>
  BY DEF ConvertToDiagram, DiagramDrawn, CallEnds
<1>2. Sound(calls[k], listed, vanished)
  BY DEF StartingInv
<1>3. CASE ConvertToDiagram(k)
  <2>1. PICK mapped : Goes(k, [pc |-> "drawing", request |-> [kind |-> "convert"], session |-> {}, mapped |-> mapped])
    BY <1>3 DEF ConvertToDiagram
  <2> DEFINE c == [pc |-> "drawing", request |-> [kind |-> "convert"], session |-> {}, mapped |-> mapped]
  <2>2. c.pc = "drawing" /\ c.request.kind = "convert" /\ c.session = {} /\ Goes(k, c)
    BY <2>1
  <2> HIDE DEF c
  <2>3. HeldBy(c) = {}
    BY <2>2 DEF HeldBy
  <2> QED
    BY <1>1, <2>2, <2>3, CallGoesOn DEF Sound
<1>4. CASE DiagramDrawn(k)
  <2>1. calls[k].pc = "drawing"
    BY <1>4 DEF DiagramDrawn
  <2>2. calls[k].request.kind = "convert" /\ calls[k].session = {}
    BY <1>2, <2>1 DEF Sound, NoCall, Truthful, Placed
  <2>3. PICK code \in {200, 500} : Answers(k, code)
    BY <1>4 DEF DiagramDrawn
  <2> DEFINE c == AnswerTo(calls[k], code)
  <2>4. c.pc = "answered" /\ c.code \in Nat /\ c.kind = "convert" /\ c.session = {} /\ Goes(k, c)
    BY <2>2, <2>3 DEF Answers, AnswerTo
  <2> HIDE DEF c
  <2>5. HeldBy(c) = {}
    BY <2>4 DEF HeldBy
  <2>6. Truthful(c, listed)
    BY <2>4 DEF Truthful
  <2> QED
    BY <1>1, <2>4, <2>5, <2>6, CallGoesOn DEF Sound
<1>5. CASE CallEnds(k)
  <2>1. Goes(k, NoCall) /\ HeldBy(NoCall) = {}
    BY <1>5 DEF CallEnds, HeldBy, NoCall
  <2> QED
    BY <1>1, <2>1, CallGoesOn DEF Sound
<1> QED
  BY <1>3, <1>4, <1>5

------------------------------------------------------------------------------
(***************************************************************************)
(* The routes that start sessions: listed sessions, agents, the theorems   *)
(***************************************************************************)

\* A change of status is none of plan and participants.
LEMMA StatusKeeps ==
    ASSUME StartingInv, NEW s \in DOMAIN listed, NEW status,
           listed' = [listed EXCEPT ![s].status = status],
           UNCHANGED <<agents, vanished, issued, calls>>
    PROVE  StartingInv'
<1> DEFINE e == [listed[s] EXCEPT !.status = status]
           l == [listed EXCEPT ![s] = e]
<1>1. listed' = l
  OBVIOUS
<1>2. SessionShape(listed[s]) /\ Fits(listed[s], vanished)
  BY DEF StartingInv, AllFit
<1>3. SessionShape(e)
  BY <1>2 DEF SessionShape
<1>4. e.kind = listed[s].kind /\ e.plan = listed[s].plan /\ e.joined = listed[s].joined
      /\ e.participants = listed[s].participants
  BY <1>2 DEF SessionShape
<1> HIDE DEF e
<1>5. Fits(e, vanished)
  BY <1>2, <1>4 DEF Fits
<1>6. DOMAIN l = DOMAIN listed /\ \A t \in DOMAIN listed : l[t] = IF t = s THEN e ELSE listed[t]
  OBVIOUS
<1> HIDE DEF l
<1>7. AllFit(l, vanished)
  BY <1>3, <1>5, <1>6 DEF StartingInv, AllFit
<1>8. \A t \in DOMAIN l : t \in DOMAIN listed /\ l[t].participants = listed[t].participants
                          /\ l[t].plan = listed[t].plan
  BY <1>4, <1>6
<1>9. DOMAIN l \subseteq issued
  BY <1>6 DEF StartingInv, OwnSessions
<1> QED
  BY <1>1, <1>7, <1>8, <1>9, ListMoves

\* The new session of a rerun has no plan and owes nobody a state.
LEMMA RerunKeeps ==
    ASSUME StartingInv, NEW s, NEW t, RerunCalled(s, t)
    PROVE  StartingInv'
<1> DEFINE e == [listed[s] EXCEPT !.status = "pending", !.kind = "rerun", !.plan = NoPlan, !.joined = {}]
           l == [u \in DOMAIN listed \union {t} |-> IF u \in {t} THEN e ELSE listed[u]]
<1>1. /\ s \in DOMAIN listed /\ t \notin issued /\ issued' = issued \union {t}
      /\ listed' = l /\ UNCHANGED <<agents, vanished, calls>>
  BY DEF RerunCalled, Over, Lists
<1>2. SessionShape(listed[s])
  BY <1>1 DEF StartingInv, AllFit
<1>3. e.kind = "rerun" /\ ~ e.plan.diagram
  BY <1>2 DEF SessionShape, NoPlan
<1>4. SessionShape(e)
  <2> DEFINE p == listed[s]
             none == NoPlan
             nobody == {}
  <2> HIDE DEF none, nobody
  <2>1. ASSUME NEW x, SessionShape(x), NEW y
        PROVE  /\ SessionShape([x EXCEPT !.status = y]) /\ SessionShape([x EXCEPT !.kind = y])
    <3>1. SessionShape([x EXCEPT !.status = y])
      BY <2>1 DEF SessionShape
    <3>2. SessionShape([x EXCEPT !.kind = y])
      BY <2>1 DEF SessionShape
    <3> QED
      BY <3>1, <3>2
  <2>2. ASSUME NEW x, SessionShape(x), NEW y
        PROVE  /\ SessionShape([x EXCEPT !.plan = y]) /\ SessionShape([x EXCEPT !.joined = y])
    <3>1. SessionShape([x EXCEPT !.plan = y])
      BY <2>2 DEF SessionShape
    <3>2. SessionShape([x EXCEPT !.joined = y])
      BY <2>2 DEF SessionShape
    <3> QED
      BY <3>1, <3>2
  <2>3. SessionShape([p EXCEPT !.status = "pending"])
    BY <1>2, <2>1
  <2>4. SessionShape([[p EXCEPT !.status = "pending"] EXCEPT !.kind = "rerun"])
    BY <2>1, <2>3
  <2>5. SessionShape([[[p EXCEPT !.status = "pending"] EXCEPT !.kind = "rerun"] EXCEPT !.plan = none])
    BY <2>2, <2>4
  <2>6. SessionShape([[[[p EXCEPT !.status = "pending"] EXCEPT !.kind = "rerun"] EXCEPT !.plan = none]
                         EXCEPT !.joined = nobody])
    BY <2>2, <2>5
  <2>7. [[[[p EXCEPT !.status = "pending"] EXCEPT !.kind = "rerun"] EXCEPT !.plan = none] EXCEPT !.joined = nobody]
        = [p EXCEPT !.status = "pending", !.kind = "rerun", !.plan = none, !.joined = nobody]
    OBVIOUS
  <2> QED
    BY <2>6, <2>7 DEF none, nobody
<1> HIDE DEF e
<1>5. Fits(e, vanished)
  BY <1>3 DEF Fits
<1>6. /\ DOMAIN l = DOMAIN listed \union {t} /\ l[t] = e
      /\ \A u \in DOMAIN listed : u # t => l[u] = listed[u]
  OBVIOUS
<1> HIDE DEF l
<1>7. AllFit(l, vanished)
  BY <1>4, <1>5, <1>6 DEF StartingInv, AllFit
<1>8. DOMAIN listed \subseteq issued
  BY DEF StartingInv, OwnSessions
<1>9. \A u \in DOMAIN l \intersect issued : u \in DOMAIN listed /\ l[u] = listed[u]
  BY <1>1, <1>6
<1> QED
  BY <1>1, <1>6, <1>7, <1>8, <1>9, ListMoves

LEMMA DeleteKeeps ==
    ASSUME StartingInv, NEW s, DeleteCalled(s)
    PROVE  StartingInv'
<1> DEFINE l == [t \in DOMAIN listed \ {s} |-> listed[t]]
<1>1. listed' = l /\ UNCHANGED <<agents, vanished, issued, calls>>
  BY DEF DeleteCalled
<1>2. DOMAIN l \subseteq DOMAIN listed /\ \A t \in DOMAIN l : l[t] = listed[t]
  OBVIOUS
<1> HIDE DEF l
<1>3. AllFit(l, vanished) /\ DOMAIN listed \subseteq issued
  BY <1>2 DEF StartingInv, OwnSessions, AllFit
<1> QED
  BY <1>1, <1>2, <1>3, ListMoves

LEMMA SessionsKeep ==
    ASSUME StartingInv, NEW s,
           \/ ApproveCalled(s) \/ CoordinationBegins(s) \/ CoordinationEnds(s) \/ OrchestrationEnds(s)
           \/ DeleteCalled(s)
           \/ \E t \in Sessions : RerunCalled(s, t)
    PROVE  StartingInv'
<1>1. ASSUME NEW status, s \in DOMAIN listed, Becomes(s, status)
      PROVE  StartingInv'
  BY <1>1, StatusKeeps DEF Becomes
<1>2. CASE ApproveCalled(s)
  BY <1>1, <1>2 DEF ApproveCalled
<1>3. CASE CoordinationBegins(s)
  BY <1>1, <1>3 DEF CoordinationBegins
<1>4. CASE CoordinationEnds(s)
  BY <1>1, <1>4 DEF CoordinationEnds
<1>5. CASE OrchestrationEnds(s)
  BY <1>5, StatusKeeps DEF OrchestrationEnds
<1> QED
  BY <1>2, <1>3, <1>4, <1>5, DeleteKeeps, RerunKeeps

\* Whoever is deleted is known to have been missing since.
LEMMA AgentsKeep ==
    ASSUME StartingInv, NEW a \in AgentIds, AgentCreated(a) \/ AgentDeleted(a)
    PROVE  StartingInv'
<1>1. /\ vanished \subseteq vanished' /\ AgentIds \ agents' \subseteq vanished'
      /\ UNCHANGED <<listed, issued, calls>>
  BY DEF AgentCreated, AgentDeleted, StartingInv
<1>2. ASSUME NEW k \in Callers
      PROVE  Sound(calls[k], listed, vanished')
  BY <1>1, SoundStays DEF StartingInv
<1>3. AllFit(listed, vanished')
  BY <1>1, FitsStays DEF StartingInv, AllFit
<1> QED
  BY <1>1, <1>2, <1>3 DEF StartingInv

LEMMA StartingInitial == StartingInit => StartingInv
<1> SUFFICES ASSUME StartingInit PROVE StartingInv
  OBVIOUS
<1>1. calls = [k \in Callers |-> NoCall] /\ listed = [s \in {} |-> NoCall] /\ issued = {}
      /\ vanished = AgentIds \ agents
  BY DEF StartingInit
<1>2. \A k \in Callers : calls[k] = NoCall /\ HeldBy(calls[k]) = {}
  BY <1>1 DEF HeldBy, NoCall
<1>3. DOMAIN listed = {}
  BY <1>1
<1>4. OwnSessions(calls, listed, issued)
  BY <1>2, <1>3 DEF OwnSessions
<1>5. \A k \in Callers : Sound(calls[k], listed, vanished)
  BY <1>2 DEF Sound
<1>6. AllFit(listed, vanished)
  BY <1>3 DEF AllFit
<1> QED
  BY <1>1, <1>2, <1>4, <1>5, <1>6 DEF StartingInv

LEMMA StartingSteps ==
    StartingInv /\ [StartingNext \/ (Next /\ UNCHANGED startvars)]_<<vars, startvars>> => StartingInv'
<1> SUFFICES ASSUME StartingInv, [StartingNext \/ (Next /\ UNCHANGED startvars)]_<<vars, startvars>>
             PROVE  StartingInv'
  OBVIOUS
<1>1. CASE UNCHANGED startvars
  BY <1>1 DEF startvars, StartingInv
<1>2. ASSUME NEW k \in Callers,
             \/ \E request \in Requests : StartCalled(k, request)
             \/ EnforceAssumableParticipants(k) \/ ResolveAgentId(k) \/ AsksForRoom(k)
             \/ ResolveResearchRealms(k) \/ JoinSession(k)
      PROVE  StartingInv'
  BY <1>2, StartCalledKeeps, EnforceKeeps, ResolveKeeps, AsksKeeps, ScopeKeeps, JoinKeeps
<1>3. ASSUME NEW k \in Callers,
             \/ TextPlanned(k) \/ NamesMapped(k) \/ RealmsMapped(k) \/ ArrowParsed(k) \/ DiagramPlanned(k)
             \/ ConvertToDiagram(k) \/ DiagramDrawn(k) \/ CallEnds(k)
      PROVE  StartingInv'
  BY <1>3, TextPlannedKeeps, NamesMappedKeeps, RealmsMappedKeeps, ArrowParsedKeeps, DiagramPlannedKeeps,
     ConvertKeeps
<1>4. ASSUME NEW s \in Sessions,
             \/ ApproveCalled(s) \/ CoordinationBegins(s) \/ CoordinationEnds(s) \/ OrchestrationEnds(s)
             \/ DeleteCalled(s)
             \/ \E t \in Sessions : RerunCalled(s, t)
      PROVE  StartingInv'
  BY <1>4, SessionsKeep
<1>5. ASSUME NEW a \in AgentIds, AgentCreated(a) \/ AgentDeleted(a)
      PROVE  StartingInv'
  BY <1>5, AgentsKeep
<1> QED
  BY <1>1, <1>2, <1>3, <1>4, <1>5 DEF StartingNext

LEMMA StartingAlways == StartingSpec => []StartingInv
<1>1. Init /\ StartingInit => StartingInv
  BY StartingInitial
<1> QED
  BY <1>1, StartingSteps, PTL DEF StartingSpec

\* A caller who was refused a coordination or a plan left no session behind,
\* at whatever stage it failed, and one who was accepted got one, with the
\* plan that was asked for.
THEOREM StartingAnswersTruthfully == StartingSpec => []AnswerTellsTheTruth
<1>1. StartingInv => AnswerTellsTheTruth
  <2> SUFFICES ASSUME StartingInv, NEW k \in Callers, calls[k].pc = "answered"
               PROVE  Truthful(calls[k], listed)
    BY DEF AnswerTellsTheTruth, Truthful
  <2> QED
    BY DEF StartingInv, Sound, NoCall, Placed
<1> QED
  BY <1>1, StartingAlways, PTL

\* Whatever its agents' comings and goings, a listed session has a state for
\* each participant it was given by id, unless that one was missing at some
\* time, and its diagram's steps are numbered densely and keep to them.
THEOREM PlansFitTheirSessions == StartingSpec => []PlanFitsItsSession
<1>1. StartingInv => PlanFitsItsSession
  BY DEF StartingInv, AllFit, Fits, ById, PlanFitsItsSession
<1> QED
  BY <1>1, StartingAlways, PTL

\* The routes call the manager only as its own specification allows: they
\* register an id that is not active, after asking for room, and end one.
THEOREM StartingDrivesSlots == StartingSpec => Spec
<1>1. StartingInv /\ [StartingNext \/ (Next /\ UNCHANGED startvars)]_<<vars, startvars>> => [Next]_vars
  <2> SUFFICES ASSUME StartingInv, StartingNext PROVE Next \/ UNCHANGED vars
    BY DEF vars
  <2>1. ASSUME NEW k \in Callers, AsksForRoom(k) PROVE Next
    <3>1. Placed(calls[k])
      BY <2>1, AtStage DEF AsksForRoom, Stages
    <3>2. calls[k].request.coordinator \in Coordinators
      BY <3>1, RequestsAssumption DEF Placed
    <3> QED
      BY <2>1, <3>2 DEF AsksForRoom, Next
  <2>2. ASSUME NEW s \in Sessions, OrchestrationEnds(s) PROVE Next
    BY <2>2 DEF OrchestrationEnds, Next
  <2>3. ASSUME NEW k \in Callers,
               \/ \E request \in Requests : StartCalled(k, request)
               \/ EnforceAssumableParticipants(k) \/ ResolveAgentId(k) \/ ResolveResearchRealms(k)
               \/ JoinSession(k) \/ TextPlanned(k) \/ NamesMapped(k) \/ RealmsMapped(k)
               \/ ArrowParsed(k) \/ DiagramPlanned(k)
               \/ ConvertToDiagram(k) \/ DiagramDrawn(k) \/ CallEnds(k)
        PROVE  UNCHANGED vars
    BY <2>3 DEF StartCalled, EnforceAssumableParticipants, ResolveAgentId, ResolveResearchRealms,
                JoinSession, TextPlanned, NamesMapped, RealmsMapped, ArrowParsed, DiagramPlanned,
                ConvertToDiagram, DiagramDrawn, CallEnds
  <2>4. ASSUME NEW s \in Sessions,
               \/ ApproveCalled(s) \/ CoordinationBegins(s) \/ CoordinationEnds(s) \/ DeleteCalled(s)
               \/ \E t \in Sessions : RerunCalled(s, t)
        PROVE  UNCHANGED vars
    BY <2>4 DEF ApproveCalled, CoordinationBegins, CoordinationEnds, DeleteCalled, RerunCalled, Becomes
  <2>5. ASSUME NEW a \in AgentIds, AgentCreated(a) \/ AgentDeleted(a) PROVE UNCHANGED vars
    BY <2>5 DEF AgentCreated, AgentDeleted
  <2> QED
    BY <2>1, <2>2, <2>3, <2>4, <2>5 DEF StartingNext
<1> QED
  BY <1>1, StartingAlways, PTL DEF StartingSpec, Spec
==============================================================================
