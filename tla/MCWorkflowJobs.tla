--------------------------- MODULE MCWorkflowJobs ---------------------------
(* Small workspaces for TLC.                                               *)
EXTENDS WorkflowJobs, TLC

\* Two kinds of plan: a light descriptive replay and a heavier protected one.
MCPlans == {[protected |-> FALSE, memory |-> 1, output |-> 1],
            [protected |-> TRUE,  memory |-> 2, output |-> 1]}

\* One kind of plan, for the runs about the queue of several jobs.
MCSmallPlans == {[protected |-> FALSE, memory |-> 1, output |-> 1]}

\* Two sizes of output, for the run about the directories.
MCOutputPlans == {[protected |-> FALSE, memory |-> 1, output |-> 1],
                  [protected |-> FALSE, memory |-> 1, output |-> 2]}

WorkerSymmetry == Permutations(Workers)
JobSymmetry == Permutations(Jobs) \cup Permutations(Workers)
=============================================================================
