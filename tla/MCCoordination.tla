--------------------------- MODULE MCCoordination ---------------------------
(***************************************************************************)
(* Instances of Coordination.  A cfg chooses which entry points clients    *)
(* use; the plans are named here because a cfg cannot write sequences.     *)
(***************************************************************************)
EXTENDS Coordination

\* No step, and two steps.
TwoStepPlans == {<<>>, <<1, 2>>}

\* Also two steps the planner gave one number.
NumberedPlans == TwoStepPlans \union {<<1, 1>>}

OneStepPlan == {<<1>>}
OneNumberPlan == {<<1, 1>>}
==============================================================================
