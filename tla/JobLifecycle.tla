----------------------------- MODULE JobLifecycle -----------------------------
(***************************************************************************)
(* What the durable workflow service promises about its jobs, whoever the  *)
(* callers, coordinators and workers are: the transitions that the public  *)
(* view of each job (JobView.state, .stage, .invocations) may go through.  *)
(* One transaction may move several jobs, each by one transition.          *)
(***************************************************************************)
EXTENDS Naturals

CONSTANTS
  Jobs,
  MaxAttempts               \* limits.max_attempts of the plans

VARIABLES
  state,                    \* JobRecord.state; "absent" before admission
  stage,                    \* JobRecord.stage
  invocations               \* JobRecord.invocations: committed worker claims

vars == <<state, stage, invocations>>

Finished == {"completed", "failed", "cancelled", "interrupted",
             "awaiting_evaluation"}
Resumable == {"interrupted", "failed", "cancelled"}

Init ==
  /\ state = [j \in Jobs |-> "absent"]
  /\ stage \in [Jobs -> {"descriptive", "tuning"}]
  /\ invocations = [j \in Jobs |-> 0]

-----------------------------------------------------------------------------
Goes(j, from, to) ==
  /\ state[j] \in from
  /\ state'[j] = to

KeepsStage(j) == stage'[j] = stage[j]
KeepsCount(j) == invocations'[j] = invocations[j]

\* A job is admitted once, at the first stage of its plan.
Admit(j) ==
  /\ Goes(j, {"absent"}, "queued")
  /\ stage'[j] \in {"descriptive", "tuning"}
  /\ KeepsCount(j)

\* Only a claim spends an invocation, and there are MaxAttempts of them.
Claim(j) ==
  /\ Goes(j, {"queued"}, "running")
  /\ invocations[j] < MaxAttempts
  /\ invocations'[j] = invocations[j] + 1
  /\ KeepsStage(j)

Exhaust(j) ==
  /\ Goes(j, {"queued"}, "failed")
  /\ invocations[j] >= MaxAttempts
  /\ KeepsStage(j) /\ KeepsCount(j)

Stop(j) ==
  /\ \/ Goes(j, {"running"}, "interrupted")
     \/ Goes(j, {"running"}, "failed")
     \/ Goes(j, {"queued", "running"}, "cancelled")
  /\ KeepsStage(j) /\ KeepsCount(j)

Requeue(j) ==
  /\ Goes(j, Resumable, "queued")
  /\ invocations[j] < MaxAttempts
  /\ KeepsStage(j) /\ KeepsCount(j)

\* The tuning prefix ends; only an explicit freeze goes on from here.
Await(j) ==
  /\ Goes(j, {"running"}, "awaiting_evaluation")
  /\ stage[j] = "tuning"
  /\ KeepsStage(j) /\ KeepsCount(j)

Freeze(j) ==
  /\ Goes(j, {"awaiting_evaluation"}, "queued")
  /\ invocations[j] < MaxAttempts
  /\ stage[j] = "tuning"
  /\ stage'[j] = "evaluation"
  /\ KeepsCount(j)

Complete(j) ==
  /\ Goes(j, {"running"}, "completed")
  /\ stage[j] # "tuning"
  /\ KeepsStage(j) /\ KeepsCount(j)

Expire(j) ==
  /\ Goes(j, Finished, "expired")
  /\ KeepsStage(j) /\ KeepsCount(j)

Stays(j) == state'[j] = state[j] /\ KeepsStage(j) /\ KeepsCount(j)

Step(j) ==
  \/ Stays(j)
  \/ Admit(j) \/ Claim(j) \/ Exhaust(j) \/ Stop(j) \/ Requeue(j)
  \/ Await(j) \/ Freeze(j) \/ Complete(j) \/ Expire(j)

Next == \A j \in Jobs : Step(j)

Spec == Init /\ [][Next]_vars
=============================================================================
