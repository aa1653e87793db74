--------------------------- MODULE SubContributions ---------------------------
(***************************************************************************)
(* SessionPublicationService.recordSubContribution: how what an agent      *)
(* answered during a plan step gets the next free sub_step_number of that  *)
(* step, when several recorders do it at once.                             *)
(*                                                                         *)
(* One INSERT reads MAX(sub_step_number) and inserts at the next number.   *)
(* PostgreSQL takes the statement's snapshot first and enforces the unique *)
(* index when it inserts, so two statements may read one maximum; the      *)
(* loser gets error 23505 and the loop tries again, maxRetries times in    *)
(* all.  The module is about one step of one session: others share no row. *)
(***************************************************************************)
EXTENDS Integers, FiniteSetsExt

CONSTANTS
    Recorders,     \* the calls of recordSubContribution for the step
    maxRetries

ASSUME RecordersAssumption == IsFiniteSet(Recorders)
ASSUME RetriesAssumption == maxRetries \in Nat \ {0}

VARIABLES
    rows,       \* the rows of the step
    pc,         \* where each call is, or how it ended
    attempt,    \* the loop variable of each call
    next        \* the number the running statement of each call inserts at

vars == <<rows, pc, attempt, next>>

\* gaveUp: the last attempt conflicted; broken: any other error.
Ends == {"recorded", "gaveUp", "broken"}

Row(n, r) == [sub_step_number |-> n, by |-> r]
Numbers == {x.sub_step_number : x \in rows}
Owners == {x.by : x \in rows}

Init ==
    /\ rows = {}
    /\ pc = [r \in Recorders |-> "loop"]
    /\ attempt = [r \in Recorders |-> 0]
    /\ next = [r \in Recorders |-> 0]

AfterMaxOrOne == IF Numbers = {} THEN 2 ELSE Max(Numbers) + 1    \* mutant: COALESCE(..., 1)

\* COALESCE(MAX(sub_step_number), 0) + 1
AfterMax == IF Numbers = {} THEN 1 ELSE Max(Numbers) + 1

\* The statement starts, and its snapshot fixes the number.
ReadMax(r) ==
    /\ pc[r] = "loop"
    /\ next' = [next EXCEPT ![r] = AfterMax]
    /\ pc' = [pc EXCEPT ![r] = "insert"]
    /\ UNCHANGED <<rows, attempt>>

TakesRow(r) ==
    /\ next[r] \notin Numbers
    /\ rows' = rows \union {Row(next[r], r)}

Inserts(r) ==
    /\ pc[r] = "insert"
    /\ TakesRow(r)
    /\ pc' = [pc EXCEPT ![r] = "recorded"]
    /\ UNCHANGED <<attempt, next>>

Retry(r, limit) ==
    /\ pc[r] = "insert"
    /\ next[r] \in Numbers
    /\ IF attempt[r] < limit
       THEN /\ attempt' = [attempt EXCEPT ![r] = @ + 1]
            /\ pc' = [pc EXCEPT ![r] = "loop"]
       ELSE /\ pc' = [pc EXCEPT ![r] = "gaveUp"]
            /\ UNCHANGED attempt
    /\ UNCHANGED <<rows, next>>

RetryOnceLess(r) == Retry(r, maxRetries - 2)    \* mutant: off by one

\* Error 23505: continue, or throw when this was the last attempt.
Conflicts(r) == Retry(r, maxRetries - 1)

RetryAfterBreak(r) ==    \* mutant: every error is tried again
    /\ pc[r] = "insert"
    /\ UNCHANGED rows \/ TakesRow(r)
    /\ attempt[r] < maxRetries - 1
    /\ attempt' = [attempt EXCEPT ![r] = @ + 1]
    /\ pc' = [pc EXCEPT ![r] = "loop"]
    /\ UNCHANGED next

\* The connection breaks before or after the statement took effect: an error
\* other than 23505, thrown at once.
ConnectionBreaks(r) ==
    /\ pc[r] = "insert"
    /\ UNCHANGED rows \/ TakesRow(r)
    /\ pc' = [pc EXCEPT ![r] = "broken"]
    /\ UNCHANGED <<attempt, next>>

Next ==
    \E r \in Recorders : ReadMax(r) \/ Inserts(r) \/ Conflicts(r) \/ ConnectionBreaks(r)

Spec == Init /\ [][Next]_vars

------------------------------------------------------------------------------
(***************************************************************************)
(* Properties                                                              *)
(***************************************************************************)

\* The shape of the state: the loop variable stays below maxRetries, and no row
\* gets number 0, which is the step's own.
TypeOK ==
    /\ rows \subseteq [sub_step_number : Nat \ {0}, by : Recorders]
    /\ pc \in [Recorders -> {"loop", "insert"} \union Ends]
    /\ attempt \in [Recorders -> 0 .. maxRetries - 1]
    /\ next \in [Recorders -> Nat]

\* Whatever reads overlap, the step's sub-contributions are numbered from 1
\* without a gap and none shares its number.
NumbersDense ==
    /\ IsFiniteSet(rows)
    /\ Numbers = 1 .. Cardinality(rows)

\* A call that reports success left one row and no call left two, also when it
\* was not told that its statement took effect.
RecordedOnce ==
    /\ \A x, y \in rows : x.by = y.by => x = y
    /\ \A r \in Recorders : pc[r] = "recorded" => r \in Owners

\* With no more concurrent calls than attempts, no call gives up: an attempt
\* only fails because another call was recorded meanwhile.  What the retry
\* loop's comment claims ("works under concurrent inserts").
NoneGivesUp ==
    Cardinality(Recorders) <= maxRetries => \A r \in Recorders : pc[r] # "gaveUp"
==============================================================================
