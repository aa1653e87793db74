------------------------------ MODULE LeasePool ------------------------------
(***************************************************************************)
(* What the coordinator concurrency manager promises, without its two maps *)
(* and its clock: every coordinator has a pool of at most MaxConcurrent    *)
(* leases, a session holds at most one lease, and a lease is granted only  *)
(* to a session that holds none.  Leases may be taken back at any time,    *)
(* also in the very step that grants another one.                          *)
(***************************************************************************)
EXTENDS Naturals, FiniteSets

CONSTANTS
    Sessions,
    Coordinators,
    MaxConcurrent

VARIABLE holders    \* holders[c]: the sessions that hold a lease of c

Held == UNION {holders[c] : c \in Coordinators}

Init == holders = [c \in Coordinators |-> {}]

\* Take back the leases of the sessions in R.
Revoked(R) == [c \in Coordinators |-> holders[c] \ R]

Grant(s, c, R) ==
    /\ s \notin Held
    /\ holders' = [Revoked(R) EXCEPT ![c] = @ \union {s}]
    /\ Cardinality(holders'[c]) <= MaxConcurrent

Revoke(R) == holders' = Revoked(R)

Next ==
    \E R \in SUBSET Sessions :
        \/ \E s \in Sessions, c \in Coordinators : Grant(s, c, R)
        \/ Revoke(R)

Spec == Init /\ [][Next]_holders
==============================================================================
