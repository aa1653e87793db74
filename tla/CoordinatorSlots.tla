-------------------------- MODULE CoordinatorSlots --------------------------
(***************************************************************************)
(* CoordinatorConcurrencyManager: how many orchestrated sessions one       *)
(* coordinator runs at a time.  The manager keeps two maps, one from a     *)
(* session to what is known of it and one from a coordinator to the set of *)
(* its sessions, and it forgets a session that showed no activity for      *)
(* longer than the session timeout.                                        *)
(*                                                                         *)
(* Time is measured in ticks: idle is the number of ticks since a          *)
(* session's lastActivity, counted up to one past the timeout, because the *)
(* code only compares it with the timeout.                                 *)
(*                                                                         *)
(* Coordination.tla instantiates this module; Spec below drives the        *)
(* manager alone, by any caller that registers no id that is active.        *)
(***************************************************************************)
EXTENDS Integers, FiniteSets

CONSTANTS
    Sessions,         \* session ids
    Coordinators,     \* coordinator ids
    MaxConcurrent,    \* maxConcurrentScenarios
    SessionTimeout    \* sessionTimeoutMs, in ticks

ASSUME LimitAssumption == MaxConcurrent \in Nat
ASSUME TimeoutAssumption == SessionTimeout \in Nat

VARIABLES
    activeSessions,          \* session id -> [coordinatorId, idle]
    sessionsByCoordinator    \* coordinator id -> set of session ids

vars == <<activeSessions, sessionsByCoordinator>>

Idle == 0 .. SessionTimeout + 1
SessionInfo == [coordinatorId : Coordinators, idle : Idle]

Init ==
    /\ activeSessions = [s \in {} |-> 0]
    /\ sessionsByCoordinator = [c \in {} |-> {}]

------------------------------------------------------------------------------

\* getActiveSessionCount counts this set.
SessionsOf(c) ==
    IF c \in DOMAIN sessionsByCoordinator THEN sessionsByCoordinator[c] ELSE {}

TimedOutNever ==    \* mutant: compared with a time no session reaches
    {s \in DOMAIN activeSessions : activeSessions[s].idle > SessionTimeout + 1}

\* The sessions cleanupTimeoutSessions ends: idle for more than the timeout.
TimedOut == {s \in DOMAIN activeSessions : activeSessions[s].idle > SessionTimeout}

\* The two maps after endSession was called for every session of S.  A session
\* that is not active is left alone, and a coordinator whose last session goes
\* loses its entry.
ActiveAfterEnd(S) == [s \in DOMAIN activeSessions \ S |-> activeSessions[s]]

EndedOf(c, S) ==
    {s \in S \intersect DOMAIN activeSessions : activeSessions[s].coordinatorId = c}

IndexAfterEnd(S) ==
    [c \in {d \in DOMAIN sessionsByCoordinator :
               EndedOf(d, S) = {} \/ sessionsByCoordinator[d] # EndedOf(d, S)}
        |-> sessionsByCoordinator[c] \ EndedOf(c, S)]

EndSessions(S) ==
    /\ activeSessions' = ActiveAfterEnd(S)
    /\ sessionsByCoordinator' = IndexAfterEnd(S)

EndSession(s) == EndSessions({s})

CleanupTimeoutSessions == EndSessions(TimedOut)

\* canStartSession cleans up first and then compares the count with the limit.
CanStartSession(c) ==
    Cardinality(SessionsOf(c) \ EndedOf(c, TimedOut)) < MaxConcurrent

StartUnasked(s, c) ==    \* mutant: registered without asking for room
    /\ activeSessions' = [t \in DOMAIN activeSessions \union {s} |->
          IF t = s THEN [coordinatorId |-> c, idle |-> 0] ELSE activeSessions[t]]
    /\ sessionsByCoordinator' = [d \in DOMAIN sessionsByCoordinator \union {c} |->
          SessionsOf(d) \union (IF d = c THEN {s} ELSE {})]

\* canStartSession followed by startSession.  Its only caller,
\* startOrchestatedCoordination, has no await between the two.
StartSession(s, c) ==
    /\ CanStartSession(c)
    /\ activeSessions' =
          [t \in (DOMAIN activeSessions \ TimedOut) \union {s} |->
              IF t = s THEN [coordinatorId |-> c, idle |-> 0] ELSE activeSessions[t]]
    /\ LET index == IndexAfterEnd(TimedOut)
       IN  sessionsByCoordinator' =
              [d \in DOMAIN index \union {c} |->
                  (IF d \in DOMAIN index THEN index[d] ELSE {})
                     \union (IF d = c THEN {s} ELSE {})]

\* canStartSession answered false; what it cleaned up stays cleaned up.
RefuseSession(c) ==
    /\ ~ CanStartSession(c)
    /\ CleanupTimeoutSessions

UpdateSessionActivity(s) ==
    /\ activeSessions' =
          [t \in DOMAIN activeSessions |->
              IF t = s THEN [activeSessions[t] EXCEPT !.idle = 0] ELSE activeSessions[t]]
    /\ UNCHANGED sessionsByCoordinator

\* One unit of time passes (no code: the wall clock the manager reads).
Tick ==
    /\ activeSessions' =
          [s \in DOMAIN activeSessions |->
              [activeSessions[s] EXCEPT !.idle = IF @ > SessionTimeout THEN @ ELSE @ + 1]]
    /\ UNCHANGED sessionsByCoordinator

Next ==
    \/ \E s \in Sessions \ DOMAIN activeSessions, c \in Coordinators : StartSession(s, c)
    \/ \E c \in Coordinators : RefuseSession(c)
    \/ \E s \in Sessions : UpdateSessionActivity(s) \/ EndSession(s)
    \/ CleanupTimeoutSessions
    \/ Tick

Spec == Init /\ [][Next]_vars

------------------------------------------------------------------------------
(***************************************************************************)
(* Properties                                                              *)
(***************************************************************************)

\* Both maps are partial functions of the expected type.
TypeOK ==
    /\ DOMAIN activeSessions \subseteq Sessions
    /\ DOMAIN sessionsByCoordinator \subseteq Coordinators
    /\ \A s \in DOMAIN activeSessions : activeSessions[s] \in SessionInfo
    /\ activeSessions = [s \in DOMAIN activeSessions |-> activeSessions[s]]
    /\ \A c \in DOMAIN sessionsByCoordinator :
          sessionsByCoordinator[c] \subseteq Sessions
    /\ sessionsByCoordinator =
          [c \in DOMAIN sessionsByCoordinator |-> sessionsByCoordinator[c]]

\* The two maps describe the same registrations: a coordinator's set holds
\* exactly the active sessions registered for it, and no entry is empty.
\* startSession and endSession each edit both maps by hand, and endSession
\* deletes an entry when it empties; a session left in one map only would
\* hold a slot nobody can release, or free one that is in use.
IndexConsistent ==
    /\ \A c \in Coordinators :
          SessionsOf(c) =
              {s \in DOMAIN activeSessions : activeSessions[s].coordinatorId = c}
    /\ \A c \in DOMAIN sessionsByCoordinator : sessionsByCoordinator[c] # {}

\* A coordinator never has more registered sessions than the limit, however
\* registrations, ends, activity and timeouts interleave.
WithinLimit ==
    \A c \in Coordinators :
        /\ IsFiniteSet(SessionsOf(c))
        /\ Cardinality(SessionsOf(c)) <= MaxConcurrent

\* The manager implements a pool of leases (LeasePool): its holders are the
\* sessions of each coordinator's set.
Pool == INSTANCE LeasePool WITH holders <- [c \in Coordinators |-> SessionsOf(c)]

ImplementsPool == Pool!Spec
==============================================================================
