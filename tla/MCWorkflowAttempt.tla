-------------------------- MODULE MCWorkflowAttempt --------------------------
(* Bounded instances of WorkflowAttempt. *)
EXTENDS WorkflowAttempt

CONSTANTS random, ucb, ucb2

\* The Random baseline with one UCB challenger, or with two.
Two == <<random, ucb>>
Three == <<random, ucb, ucb2>>

\* Validation hands over the baseline and one challenger.
TwoSelections == {{random, ucb}}
ThreeSelections == {{random, ucb}, {random, ucb2}}

\* A workspace whose markers are not safe from the outside.
DamagedSpec == Init /\ [][Next \/ \E t \in Trials : Damage(t)]_vars
=============================================================================
