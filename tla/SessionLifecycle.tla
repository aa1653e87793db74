-------------------------- MODULE SessionLifecycle --------------------------
(***************************************************************************)
(* What a client of the coordinators API may rely on about one session it  *)
(* sees listed: the order in which its status can change, and when it can  *)
(* disappear.  A session that waits or runs never disappears short of a    *)
(* loss of the whole process, and one that settled never runs again: a     *)
(* rerun is a session of its own.  A completed session may still turn out  *)
(* failed, because the service goes on working on it for a while.          *)
(***************************************************************************)
CONSTANT Sessions

VARIABLE status    \* what the API reports of each session; "absent" is a 404

Reported == {"absent", "pending", "in_progress", "completed", "failed"}
Terminal == {"completed", "failed"}

Init == status = [s \in Sessions |-> "absent"]

Moves(s, from, to) == status[s] \in from /\ status' = [status EXCEPT ![s] = to]

Create(s)  == \E to \in {"pending", "in_progress"} : Moves(s, {"absent"}, to)
Begin(s)   == Moves(s, {"pending"}, "in_progress")
Settle(s)  == \E to \in Terminal : Moves(s, {"pending", "in_progress"}, to)
FailLate(s) == Moves(s, {"completed"}, "failed")
Delete(s)  == Moves(s, Terminal, "absent")
LoseAll    == status' = [s \in Sessions |-> "absent"]

Next ==
    \/ \E s \in Sessions :
          Create(s) \/ Begin(s) \/ Settle(s) \/ FailLate(s) \/ Delete(s)
    \/ LoseAll

Spec == Init /\ [][Next]_status
==============================================================================
