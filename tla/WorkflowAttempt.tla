--------------------------- MODULE WorkflowAttempt ---------------------------
(***************************************************************************)
(* What the physical attempts at one durable job do to its trials: the     *)
(* worker's loop over the saved coordinates (workflow_worker.py), the      *)
(* retained attempt events and stage receipts (workflow_artifacts.py), the *)
(* handoff from the tuning prefix to the held-out builds                   *)
(* (workflow_evaluation.py), and below them the native engine's cycle of   *)
(* result rows, checkpoint pickle and progress marker (environment.py,     *)
(* checkpoint_store.py, workflow_checkpoint.py, results/recovery.py).      *)
(*                                                                         *)
(* WorkflowJobs shows that a job has one worker at a time, so there is one *)
(* here, and a claim waits until it is gone.  Native builds are counted    *)
(* from 1 to Horizon, the first Prefix of them being train and validation. *)
(* Plans save every build (checkpoint interval 1).                         *)
(***************************************************************************)
EXTENDS Naturals, Sequences, FiniteSets, Functions

CONSTANTS
  Coordinates,     \* plan.trials, in canonical order
  Protected,       \* plan.request.evaluation = "protected"
  Prefix,          \* _prefix_steps: eligible train and validation builds
  Horizon,         \* len(plan.dataset.build_ids)
  Selections,      \* the sets of trials a validation choice may hand over
  MaxAttempts,     \* limits.max_attempts
  MaxLosses,       \* bound on the damage done to markers from outside
  NoTrial

Trials == Range(Coordinates)

ASSUME CoordinatesAssumption ==
  /\ Coordinates \in Seq(Trials)
  /\ \A i, k \in DOMAIN Coordinates : Coordinates[i] = Coordinates[k] => i = k
  /\ Coordinates # << >>
  /\ NoTrial \notin Trials
ASSUME FrontierAssumption ==
  /\ Prefix \in Nat /\ Horizon \in Nat
  /\ 0 < Prefix /\ Prefix < Horizon
ASSUME SelectionsAssumption == Selections \subseteq (SUBSET Trials) \ {{}}
ASSUME BoundsAssumption ==
  /\ Protected \in BOOLEAN
  /\ MaxAttempts \in Nat \ {0} /\ MaxLosses \in Nat

VARIABLES
  \* the job's row
  state, stage, invocations,
  attempts,        \* JobRecord.attempts
  current,         \* JobRecord.current_trial
  step,            \* JobRecord.checkpoint_step
  done,            \* JobRecord.completed_trials
  \* the job's directory
  events,          \* events[t]: attempts/<t>/0001.json ... this many
  rows,            \* rows[t][s]: published result rows of native build s
  intact,          \* intact[t]: builds whose checkpoint pickle is complete
  marker,          \* marker[t]: step_committed of progress_ex1.json, 0 without it
  receipts,        \* <<t, stage>> with a published stage receipt
  handoff,         \* trials of evaluation-handoff.json, {} without it
  report,          \* physical attempts listed by complete.json, 0 without it
  \* the worker process
  pc,              \* "none" when there is no process
  snapshot,        \* the current_trial and checkpoint_step it began with
  idx,             \* position in its trial loop
  floor,           \* minimum_step
  at,              \* native builds learned by the process's agents
  \* history
  acked,           \* acked[t]: the furthest build the row ever acknowledged
  starts,          \* starts[t]: native executions begun
  losses           \* markers damaged so far

rowVars    == <<state, stage, invocations, attempts, current, step, done>>
nativeVars == <<rows, intact, marker>>
jobVars    == <<events, receipts, handoff, report>>
loopVars   == <<snapshot, idx, floor, at>>
history    == <<acked, starts, losses>>
vars == <<rowVars, jobVars, nativeVars, pc, loopVars, history>>

-----------------------------------------------------------------------------
Builds == 1..Horizon
Stages == {"descriptive", "tuning", "evaluation"}
States == {"absent", "queued", "running", "awaiting_evaluation", "completed",
           "failed", "cancelled", "interrupted"}
Learning == {"learning", "flushed", "saving", "marked"}
Phases == {"none", "starting", "reuse", "trial", "checked", "reserved",
           "recovering", "received", "report", "failing", "exiting"} \cup Learning

TypeOK ==
  /\ state \in States /\ stage \in Stages
  /\ invocations \in 0..MaxAttempts
  /\ attempts \in Nat /\ done \in 0..Len(Coordinates)
  /\ current \in Trials \cup {NoTrial}
  /\ step \in 0..Horizon
  /\ events \in [Trials -> 0..MaxAttempts]
  /\ rows \in [Trials -> [Builds -> Nat]]
  /\ intact \in [Trials -> SUBSET Builds]
  /\ marker \in [Trials -> 0..Horizon]
  /\ receipts \subseteq Trials \X Stages
  /\ handoff \subseteq Trials /\ report \in Nat
  /\ pc \in Phases
  /\ snapshot \in [current : Trials \cup {NoTrial}, step : 0..Horizon]
  /\ idx \in 1..(Len(Coordinates) + 1)
  /\ floor \in 0..Horizon /\ at \in 0..Horizon
  /\ acked \in [Trials -> 0..Horizon] /\ starts \in [Trials -> Nat]
  /\ losses \in 0..MaxLosses

Init ==
  /\ state = "absent"
  /\ stage = IF Protected THEN "tuning" ELSE "descriptive"
  /\ invocations = 0 /\ attempts = 0 /\ current = NoTrial /\ step = 0 /\ done = 0
  /\ events = [t \in Trials |-> 0]
  /\ rows = [t \in Trials |-> [s \in Builds |-> 0]]
  /\ intact = [t \in Trials |-> {}]
  /\ marker = [t \in Trials |-> 0]
  /\ receipts = {} /\ handoff = {} /\ report = 0
  /\ pc = "none"
  /\ snapshot = [current |-> NoTrial, step |-> 0]
  /\ idx = 1 /\ floor = 0 /\ at = 0
  /\ acked = [t \in Trials |-> 0] /\ starts = [t \in Trials |-> 0]
  /\ losses = 0

-----------------------------------------------------------------------------
(* Helpers.                                                                *)

\* The coordinates of the stage: plan.trials, or evaluation_trials, those of the
\* handoff in the same order.
Listed == {i \in DOMAIN Coordinates : stage = "evaluation" => Coordinates[i] \in handoff}

\* Where the loop over them goes from i; past the end when none is left.
After(i) ==
  {k \in Listed \cup {Len(Coordinates) + 1} :
     i < k /\ \A l \in Listed : i < l => k <= l}

Trial == Coordinates[idx]

\* Mutant: every stage runs the whole history.
StepsUnstaged == Horizon

\* The frontier of the stage.
Steps == IF stage = "tuning" THEN Prefix ELSE Horizon

\* read_attempts: the retained event files of every trial.
Retained ==
  Cardinality({f \in Trials \X (1..MaxAttempts) : f[2] <= events[f[1]]})

Larger(m, n) == IF m > n THEN m ELSE n

\* The worker goes on, having moved nothing but its own position.
Goto(phase) == pc' = phase

\* _transition: a worker changes the row of a running job only.
Running == state = "running"

\* Mutant: an off-by-one leaves the last coordinate out.
LoopDoneEarly == pc = "trial" /\ Len(Coordinates) + 1 \in {idx} \cup After(idx)

LoopDone == pc = "trial" /\ idx > Len(Coordinates)

-----------------------------------------------------------------------------
(* The callers and the coordinator, as far as one job shows them.          *)

Moves(from, to) ==
  /\ state \in from
  /\ state' = to
  /\ UNCHANGED <<stage, invocations, attempts, current, step, done, jobVars,
                 nativeVars, pc, loopVars, history>>

Execute == Moves({"absent"}, "queued")
Cancel  == Moves({"queued", "running"}, "cancelled")
Status  == pc = "none" /\ Moves({"running"}, "interrupted")
Resume  ==
  /\ pc = "none"
  /\ invocations < MaxAttempts
  /\ Moves({"failed", "cancelled", "interrupted"}, "queued")

\* prepare_evaluation: the choice is published once, from verified receipts.
Freeze ==
  /\ Protected
  /\ state = "awaiting_evaluation"
  /\ invocations < MaxAttempts
  /\ \A t \in Trials : <<t, "tuning">> \in receipts
  /\ \/ handoff # {} /\ UNCHANGED handoff
     \/ handoff = {} /\ handoff' \in Selections

Evaluate ==
  /\ Freeze
  /\ state' = "queued" /\ stage' = "evaluation"
  /\ done' = 0 /\ step' = 0 /\ current' = NoTrial
  /\ UNCHANGED <<invocations, attempts, events, receipts, report, nativeVars, pc,
                 loopVars, history>>

\* The transaction of evaluate fails after the handoff was published.
EvaluateAborted ==
  /\ Freeze
  /\ handoff = {}
  /\ UNCHANGED <<rowVars, events, receipts, report, nativeVars, pc, loopVars, history>>

Claim ==
  /\ pc = "none"
  /\ state = "queued"
  /\ invocations < MaxAttempts
  /\ state' = "running"
  /\ invocations' = invocations + 1
  /\ Goto("starting")
  /\ UNCHANGED <<stage, attempts, current, step, done, jobVars, nativeVars, loopVars,
                 history>>

-----------------------------------------------------------------------------
(* The worker: run_job, _produce_report and the loop of _trials.           *)

\* Count the retained events again, then start over from the receipts.
Begin ==
  /\ pc = "starting"
  /\ Running
  /\ attempts' = Retained
  /\ snapshot' = [current |-> current, step |-> step]
  /\ idx' \in After(0) /\ floor' = 0 /\ at' = 0
  /\ Goto(IF report > 0 THEN "reuse" ELSE "trial")
  /\ UNCHANGED <<state, stage, invocations, current, step, done, jobVars, nativeVars,
                 history>>

\* A complete.json whose transaction failed is verified and used as it is.
ReuseReport ==
  /\ pc = "reuse"
  /\ Running
  /\ report = Retained
  /\ \A i \in Listed : <<Coordinates[i], stage>> \in receipts
  /\ done' = Larger(done, Cardinality(Listed))
  /\ current' = NoTrial
  /\ Goto("report")
  /\ UNCHANGED <<state, stage, invocations, attempts, step, jobVars, nativeVars, loopVars,
                 history>>

\* Mutant: the loop's own count is stored, whatever an earlier attempt reached.
RecordTrialRestarting ==
  /\ done' = Cardinality({i \in Listed : i <= idx})
  /\ current' = NoTrial
  /\ idx' \in After(idx)
  /\ Goto("trial")
  /\ UNCHANGED <<state, stage, invocations, attempts, step, jobVars, nativeVars, snapshot,
                 floor, at, history>>

\* One more coordinate of the loop is complete.
RecordTrial ==
  /\ done' = Larger(done, Cardinality({i \in Listed : i <= idx}))
  /\ current' = NoTrial
  /\ idx' \in After(idx)
  /\ Goto("trial")
  /\ UNCHANGED <<state, stage, invocations, attempts, step, jobVars, nativeVars, snapshot,
                 floor, at, history>>

ReuseReceipt ==
  /\ pc = "trial"
  /\ idx \in Listed
  /\ <<Trial, stage>> \in receipts
  /\ Running
  /\ RecordTrial

\* _require_committed_progress, on the snapshot, and require_continuation.
CheckFrontier ==
  /\ pc = "trial"
  /\ idx \in Listed
  /\ <<Trial, stage>> \notin receipts
  /\ snapshot.current = Trial /\ snapshot.step > 0 => marker[Trial] > 0
  /\ stage = "evaluation" => marker[Trial] >= Prefix
  /\ Goto("checked")
  /\ UNCHANGED <<rowVars, jobVars, nativeVars, loopVars, history>>

\* Mutant: a retry of the coordinate it was stopped in keeps its old event.
ReserveReusingEvent ==
  /\ pc = "checked"
  /\ Running
  /\ events[Trial] < MaxAttempts
  /\ events' = IF snapshot.current = Trial THEN events
               ELSE [events EXCEPT ![Trial] = @ + 1]
  /\ attempts' = attempts + 1
  /\ current' = Trial
  /\ step' = IF snapshot.current = Trial THEN snapshot.step ELSE 0
  /\ Goto("reserved")
  /\ UNCHANGED <<state, stage, invocations, done, receipts, handoff, report, nativeVars,
                 loopVars, history>>

\* _reserve_attempt: the event file first, then the row, in one transaction.
Reserve ==
  /\ pc = "checked"
  /\ Running
  /\ events[Trial] < MaxAttempts
  /\ events' = [events EXCEPT ![Trial] = @ + 1]
  /\ attempts' = attempts + 1
  /\ current' = Trial
  /\ step' = IF snapshot.current = Trial THEN snapshot.step ELSE 0
  /\ Goto("reserved")
  /\ UNCHANGED <<state, stage, invocations, done, receipts, handoff, report, nativeVars,
                 loopVars, history>>

\* The same, rolled back: the event file stays behind.
ReserveAborted ==
  /\ pc = "checked"
  /\ Running
  /\ events[Trial] < MaxAttempts
  /\ events' = [events EXCEPT ![Trial] = @ + 1]
  /\ Goto("failing")
  /\ UNCHANGED <<rowVars, receipts, handoff, report, nativeVars, loopVars, history>>

-----------------------------------------------------------------------------
(* The native engine: execute_native down to the checkpoint store.         *)

\* _execute_trial's minimum_step.
MinimumStep ==
  LET seen == IF snapshot.current = Trial THEN snapshot.step ELSE 0 IN
  IF stage = "evaluation" THEN Larger(seen, Prefix) ELSE seen

\* WorkflowCheckpointStore.load: the newest marker, at or past the floor, with
\* its pickle; no marker at all is a fresh start where the floor allows one.
Load ==
  /\ pc = "reserved"
  /\ floor' = MinimumStep
  /\ marker[Trial] >= MinimumStep
  /\ marker[Trial] > 0 => marker[Trial] \in intact[Trial]
  /\ at' = marker[Trial]
  /\ starts' = [starts EXCEPT ![Trial] = @ + 1]
  /\ Goto("recovering")
  /\ UNCHANGED <<rowVars, jobVars, nativeVars, snapshot, idx, acked, losses>>

\* _recover_parquet_results removes the shards beyond the frontier one by one.
RecoverShard(s) ==
  /\ pc = "recovering"
  /\ s > at
  /\ rows[Trial][s] > 0
  /\ rows' = [rows EXCEPT ![Trial][s] = 0]
  /\ UNCHANGED <<rowVars, jobVars, intact, marker, pc, loopVars, history>>

\* Mutant: the run resumes beside the uncommitted rows of the one before.
RecoveredUntrimmed ==
  /\ pc = "recovering"
  /\ Goto("learning")
  /\ UNCHANGED <<rowVars, jobVars, nativeVars, loopVars, history>>

Recovered ==
  /\ pc = "recovering"
  /\ \A s \in Builds : s > at => rows[Trial][s] = 0
  /\ Goto("learning")
  /\ UNCHANGED <<rowVars, jobVars, nativeVars, loopVars, history>>

\* One build is learned and its rows are flushed.
FlushRows ==
  /\ pc = "learning"
  /\ at < Steps
  /\ at' = at + 1
  /\ rows' = [rows EXCEPT ![Trial][at + 1] = @ + 1]
  /\ Goto("flushed")
  /\ UNCHANGED <<rowVars, jobVars, intact, marker, snapshot, idx, floor, history>>

\* The pickle is rewritten in place, so it is broken until it is complete.
OpenPickle ==
  /\ pc = "flushed"
  /\ intact' = [intact EXCEPT ![Trial] = @ \ {at}]
  /\ Goto("saving")
  /\ UNCHANGED <<rowVars, jobVars, rows, marker, loopVars, history>>

\* Mutant: the row is told of a build before the marker is replaced.
CommitMarkerLate ==
  /\ pc = "saving"
  /\ marker' = [marker EXCEPT ![Trial] = at - 1]
  /\ intact' = [intact EXCEPT ![Trial] = @ \cup {at}]
  /\ Goto("marked")
  /\ UNCHANGED <<rowVars, jobVars, rows, loopVars, history>>

\* The pickle is complete, and the marker is replaced atomically.
CommitMarker ==
  /\ pc = "saving"
  /\ marker' = [marker EXCEPT ![Trial] = at]
  /\ intact' = [intact EXCEPT ![Trial] = @ \cup {at}]
  /\ Goto("marked")
  /\ UNCHANGED <<rowVars, jobVars, rows, loopVars, history>>

\* progress: the row acknowledges a build that is already durable.
Acknowledge ==
  /\ pc = "marked"
  /\ Running
  /\ step' = at
  /\ acked' = [acked EXCEPT ![Trial] = Larger(@, at)]
  /\ Goto("learning")
  /\ UNCHANGED <<state, stage, invocations, attempts, current, done, jobVars, nativeVars,
                 loopVars, starts, losses>>

\* publish_trial: exactly one row for every build of the stage, all committed.
PublishReceipt ==
  /\ pc = "learning"
  /\ at >= Steps
  /\ marker[Trial] = Steps
  /\ \A s \in Builds : rows[Trial][s] = IF s <= Steps THEN 1 ELSE 0
  /\ receipts' = receipts \cup {<<Trial, stage>>}
  /\ Goto("received")
  /\ UNCHANGED <<rowVars, events, handoff, report, nativeVars, loopVars, history>>

FinishTrial ==
  /\ pc = "received"
  /\ Running
  /\ RecordTrial

-----------------------------------------------------------------------------
(* The end of the attempt.                                                 *)

Await ==
  /\ LoopDone
  /\ stage = "tuning"
  /\ Running
  /\ state' = "awaiting_evaluation"
  /\ Goto("exiting")
  /\ UNCHANGED <<stage, invocations, attempts, current, step, done, jobVars, nativeVars,
                 loopVars, history>>

\* _publish_completion of a new report or of the reused one.
Publishable ==
  /\ \/ LoopDone /\ stage # "tuning" /\ report' = Retained
     \/ pc = "report" /\ UNCHANGED report
  /\ Running
  /\ UNCHANGED <<stage, invocations, attempts, current, step, done, events, receipts,
                 handoff, nativeVars, loopVars, history>>

PublishCompletion ==
  /\ Publishable
  /\ state' = "completed"
  /\ Goto("exiting")

\* complete.json was written, and the transaction around it failed.
PublishAborted ==
  /\ Publishable
  /\ Goto("failing")
  /\ UNCHANGED state

\* Any exception: a rejected frontier, a lost race against cancel, I/O, limits.
Raise ==
  /\ pc \notin {"none", "failing", "exiting"}
  /\ Goto("failing")
  /\ UNCHANGED <<rowVars, jobVars, nativeVars, loopVars, history>>

\* Mutant: the failure is recorded whatever the state has become.
RecordFailureBlindly ==
  /\ pc = "failing"
  /\ state' \in {"failed", "interrupted"}
  /\ Goto("exiting")
  /\ UNCHANGED <<stage, invocations, attempts, current, step, done, jobVars, nativeVars,
                 loopVars, history>>

\* The boundary of run_job, or a refusing guard: fail the job if it still runs.
RecordFailure ==
  /\ pc = "failing"
  /\ \/ Running /\ state' \in {"failed", "interrupted"}
     \/ ~Running /\ UNCHANGED state
  /\ Goto("exiting")
  /\ UNCHANGED <<stage, invocations, attempts, current, step, done, jobVars, nativeVars,
                 loopVars, history>>

\* The process ends or dies, at any point.
Die ==
  /\ pc # "none"
  /\ Goto("none")
  /\ snapshot' = [current |-> NoTrial, step |-> 0]
  /\ idx' = 1 /\ floor' = 0 /\ at' = 0
  /\ UNCHANGED <<rowVars, jobVars, nativeVars, history>>

\* Something outside the program removes a marker, or puts an older one back:
\* no step of the program, hence not in Next (see DamagedSpec of the MC module).
Damage(t) ==
  /\ losses < MaxLosses
  /\ losses' = losses + 1
  /\ \E m \in 0..Horizon :
       /\ m < marker[t]
       /\ marker' = [marker EXCEPT ![t] = m]
  /\ UNCHANGED <<rowVars, jobVars, rows, intact, pc, loopVars, acked, starts>>

-----------------------------------------------------------------------------
Caller == Execute \/ Cancel \/ Status \/ Resume \/ Evaluate \/ EvaluateAborted
Coordinator == Claim
Worker ==
  \/ Begin \/ ReuseReport \/ ReuseReceipt \/ CheckFrontier \/ Reserve \/ ReserveAborted
  \/ FinishTrial \/ Await \/ PublishCompletion \/ PublishAborted
  \/ Raise \/ RecordFailure \/ Die
Native ==
  \/ Load \/ Recovered \/ FlushRows \/ OpenPickle \/ CommitMarker \/ Acknowledge
  \/ PublishReceipt
  \/ \E s \in Builds : RecoverShard(s)

Next == Caller \/ Coordinator \/ Worker \/ Native

Spec == Init /\ [][Next]_vars
-----------------------------------------------------------------------------
(* Properties.                                                             *)

\* Every build a marker commits has its rows exactly once, through any number
\* of crashes between flush, pickle, marker and recovery (save_experiment).
CommittedRowsExact ==
  \A t \in Trials : \A s \in 1..marker[t] : rows[t][s] = 1

\* The row never acknowledges a build that a crash could still take back, and a
\* marker never names a pickle that is missing or cut off (save_periodically calls
\* progress after the commit; save_experiment writes the pickle, then the marker).
AcknowledgedIsDurable ==
  \A t \in Trials :
    /\ acked[t] <= marker[t]
    /\ marker[t] > 0 => marker[t] \in intact[t]

\* Native learning never goes on from a frontier behind the one the row has
\* acknowledged (_require_committed_progress, minimum_step).
NoSilentReset ==
  pc \in Learning \cup {"recovering"} => acked[Trial] <= at

\* Each native execution has a retained event of its own, and the row counts no
\* attempt that is not retained (_reserve_attempt, read_attempts).
AttemptsAccounted ==
  /\ \A t \in Trials : starts[t] <= events[t]
  /\ attempts <= Retained

\* A completed job has a receipt of its last stage for each trial of it, and
\* its report lists every physical attempt ever made.
CompletedIsBacked ==
  state = "completed" =>
    /\ \A i \in Listed : <<Coordinates[i], stage>> \in receipts
    /\ report > 0 /\ report = Retained

\* No held-out build is run before the choice is frozen, or for a trial that
\* was not chosen (_trials, _prefix_steps, evaluation_trials).
HeldOutIsProtected ==
  Protected =>
    \A t \in Trials, s \in Builds :
      s > Prefix /\ rows[t][s] > 0 => t \in handoff /\ stage = "evaluation"

\* No step of a caller, a worker, its recovery or a crash takes back what earlier
\* attempts achieved: within a stage the count of completed trials does not fall;
\* a marker does not fall, and recovery leaves the rows behind it alone; retained
\* events and receipts stay; the choice and the report are written once
\* (_trials, save_experiment, _recover_parquet_results, write_immutable).
ProgressKept ==
  [][/\ stage' = stage => done' >= done
     /\ \A t \in Trials :
          /\ marker'[t] >= marker[t]
          /\ \A s \in 1..marker[t] : rows'[t][s] = rows[t][s]
          /\ events'[t] >= events[t]
     /\ receipts \subseteq receipts'
     /\ handoff # {} => handoff' = handoff
     /\ report > 0 => report' = report]_vars

\* The job's row follows the lifecycle its callers are promised.
Life == INSTANCE JobLifecycle WITH
  Jobs <- {"job"},
  state <- [j \in {"job"} |-> state],
  stage <- [j \in {"job"} |-> stage],
  invocations <- [j \in {"job"} |-> invocations]

ImplementsLifecycle == Life!Spec
=============================================================================
