----------------------------- MODULE WorkflowJobs -----------------------------
(***************************************************************************)
(* The durable workflow jobs of one workspace: the callers' operations     *)
(* (execute, status, cancel, resume, evaluate, cleanup), the detached      *)
(* coordinator that claims queued jobs, and the worker processes that run  *)
(* them, over one SQLite database, one kernel lock per job and the job     *)
(* directories (src/coleman/application/workflows.py,                      *)
(* workflow_supervisor.py, workflow_worker.py, workflow_ownership.py).     *)
(*                                                                         *)
(* Every write transaction is BEGIN IMMEDIATE, so writers are serialized.  *)
(* The transactions of callers and workers are single steps here.  The     *)
(* coordinator's is several, because it starts worker processes before it  *)
(* commits and they read the database meanwhile.  What a worker computes   *)
(* is the subject of WorkflowAttempt.                                      *)
(***************************************************************************)
EXTENDS Naturals, FiniteSets, Sequences, Functions

CONSTANTS
  Jobs,            \* the request keys callers may use, one logical job each
  Plans,           \* saved plans: [protected: BOOLEAN, memory: Nat, output: Nat]
  Workers,         \* slots for worker processes
  NoPlan, NoJob,   \* the plan of no row, the job of a free slot
  MaxJobs,         \* HostPolicy.max_jobs
  MaxRunning,      \* HostPolicy.max_running
  MaxQueued,       \* HostPolicy.max_queued
  MaxMemory,       \* HostPolicy.max_active_memory_bytes
  MaxRetained,     \* HostPolicy.max_retained_bytes
  MaxAttempts      \* PlanningRequest.limits.max_attempts

ASSUME PlansAssumption ==
  /\ Plans \subseteq [protected : BOOLEAN, memory : Nat, output : Nat]
  /\ NoPlan \notin Plans
ASSUME JobsAssumption == IsFiniteSet(Jobs) /\ NoJob \notin Jobs
ASSUME LimitsAssumption ==
  /\ MaxJobs \in Nat /\ MaxRunning \in Nat /\ MaxQueued \in Nat
  /\ MaxMemory \in Nat /\ MaxRetained \in Nat /\ MaxAttempts \in Nat \ {0}

VARIABLES
  \* the jobs table
  admitted,        \* its rows in creation order (ORDER BY rowid)
  plan,            \* plan[j]: the saved plan j was admitted with
  state,           \* JobRecord.state, "absent" when j has no row
  stage,           \* JobRecord.stage
  invocations,     \* JobRecord.invocations
  \* the job directories
  bytes,           \* jobs whose directory exists
  complete,        \* jobs with a complete.json
  frozen,          \* jobs with an evaluation-handoff.json
  doomed,          \* expired jobs a cleanup call has still to remove
  \* the coordinator, and its transaction while supervisor = "open"
  supervisor,      \* "down", "idle" between polls, "open" inside _schedule
  active,          \* jobs whose lock was held when the transaction began
  cursor,          \* the position in admitted it visits next, 0 while not open
  claimed,         \* jobs it made running and spawned a worker for
  refused,         \* jobs it failed for want of invocations
  \* the worker processes: a live process holds the lock of the job it serves
  pc,              \* "free" when the slot has no process
  serves,          \* the job a process was spawned for
  claim,           \* the invocations it read in its job snapshot
  started          \* history: physical starts of native work, per job

tableVars  == <<admitted, plan, state, stage, invocations>>
fileVars   == <<bytes, complete, frozen, doomed>>
txVars     == <<active, cursor, claimed, refused>>
workerVars == <<pc, serves, claim, started>>
vars == <<tableVars, fileVars, supervisor, txVars, workerVars>>

-----------------------------------------------------------------------------
TERMINAL == {"completed", "failed", "cancelled", "interrupted", "expired",
             "awaiting_evaluation"}
States == TERMINAL \cup {"absent", "queued", "running"}
Stages == {"descriptive", "tuning", "evaluation"}
Phases == {"free", "spawned", "barrier", "working", "failing", "exiting"}

TypeOK ==
  /\ admitted \in Seq(Jobs)
  /\ plan \in [Jobs -> Plans \cup {NoPlan}]
  /\ state \in [Jobs -> States]
  /\ stage \in [Jobs -> Stages]
  /\ invocations \in [Jobs -> Nat]
  /\ bytes \subseteq Jobs /\ complete \subseteq Jobs
  /\ frozen \subseteq Jobs /\ doomed \subseteq Jobs
  /\ supervisor \in {"down", "idle", "open"}
  /\ active \subseteq Jobs /\ cursor \in Nat
  /\ claimed \subseteq Jobs /\ refused \subseteq Jobs
  /\ pc \in [Workers -> Phases]
  /\ serves \in [Workers -> Jobs \cup {NoJob}]
  /\ claim \in [Workers -> Nat]
  /\ started \in [Jobs -> Nat]

Init ==
  /\ admitted = <<>>
  /\ plan = [j \in Jobs |-> NoPlan]
  /\ state = [j \in Jobs |-> "absent"]
  /\ stage = [j \in Jobs |-> "descriptive"]
  /\ invocations = [j \in Jobs |-> 0]
  /\ bytes = {} /\ complete = {} /\ frozen = {} /\ doomed = {}
  /\ supervisor = "down"
  /\ active = {} /\ cursor = 0 /\ claimed = {} /\ refused = {}
  /\ pc = [w \in Workers |-> "free"]
  /\ serves = [w \in Workers |-> NoJob]
  /\ claim = [w \in Workers |-> 0]
  /\ started = [j \in Jobs |-> 0]

-----------------------------------------------------------------------------
(* Helpers.                                                                *)

\* Mutant: ownership is read off the row, so a cancelled worker owns nothing.
HeldIfRunning(j) == \E w \in Workers : serves[w] = j /\ state[j] = "running"

\* worker_active: some process holds the job's kernel lock.  A lock dies with
\* its last holder and nothing else releases it; no PID is ever consulted.
Held(j) == \E w \in Workers : serves[w] = j

\* BEGIN IMMEDIATE succeeds only while no other write transaction is open.
Unlocked == supervisor # "open"

Busy == {j \in Jobs : state[j] \in {"queued", "running"}}
QueueFull == Cardinality(Busy) >= MaxRunning + MaxQueued

MemoryOf(S) == FoldFunctionOnSet(+, 0, [j \in Jobs |-> plan[j].memory], S)
OutputOf(S) == FoldFunctionOnSet(+, 0, [j \in Jobs |-> plan[j].output], S)

\* Mutant: an expired row releases its bytes before they are removed.
ReservingLive == {j \in Jobs : state[j] \notin {"absent", "expired"}}

\* Rows that still reserve output bytes: an expired job does so for as long as
\* its directory is really there.
Reserving ==
  {j \in Jobs : /\ state[j] # "absent"
                /\ state[j] # "expired" \/ j \in bytes}

-----------------------------------------------------------------------------
(* The callers.  Each operation is one write transaction.                  *)

\* execute with a new request key.  A retry with the same key and payload finds
\* the row, and one with another payload is refused: neither changes the table.
Execute(j, p) ==
  /\ Unlocked
  /\ state[j] = "absent"
  /\ Len(admitted) < MaxJobs
  /\ ~QueueFull
  /\ OutputOf(Reserving) + p.output <= MaxRetained
  /\ admitted' = Append(admitted, j)
  /\ plan' = [plan EXCEPT ![j] = p]
  /\ state' = [state EXCEPT ![j] = "queued"]
  /\ stage' = [stage EXCEPT ![j] = IF p.protected THEN "tuning" ELSE "descriptive"]
  /\ UNCHANGED <<invocations, fileVars, supervisor, txVars, workerVars>>

\* status: a running job nobody owns becomes interrupted; nothing is restarted.
Status(j) ==
  /\ Unlocked
  /\ state[j] = "running"
  /\ ~Held(j)
  /\ state' = [state EXCEPT ![j] = "interrupted"]
  /\ UNCHANGED <<admitted, plan, stage, invocations, fileVars, supervisor, txVars,
                 workerVars>>

\* cancel: the worker, if any, lives on until its guard next looks.
Cancel(j) ==
  /\ Unlocked
  /\ state[j] \notin TERMINAL \cup {"absent"}
  /\ state' = [state EXCEPT ![j] = "cancelled"]
  /\ UNCHANGED <<admitted, plan, stage, invocations, fileVars, supervisor, txVars,
                 workerVars>>

\* Mutant: a resumed job is taken to keep the queue slot it once had.
RequeueUnbounded(j) ==
  /\ invocations[j] < MaxAttempts
  /\ state' = [state EXCEPT ![j] = "queued"]

Requeue(j) ==
  /\ invocations[j] < MaxAttempts
  /\ ~QueueFull
  /\ state' = [state EXCEPT ![j] = "queued"]

\* resume, after its own call of status.
Resume(j) ==
  /\ Unlocked
  /\ state[j] \notin {"absent", "completed", "queued", "running",
                      "awaiting_evaluation", "expired"}
  /\ ~Held(j)
  /\ Requeue(j)
  /\ UNCHANGED <<admitted, plan, stage, invocations, fileVars, supervisor, txVars,
                 workerVars>>

Freezable(j) ==
  /\ Unlocked
  /\ state[j] = "awaiting_evaluation"
  /\ plan[j].protected
  /\ stage[j] # "evaluation"

\* evaluate: publish the immutable handoff, then requeue for the last stage.
\* The tuning worker may still be alive: its lock is not looked at here.
Evaluate(j) ==
  /\ Freezable(j)
  /\ Requeue(j)
  /\ frozen' = frozen \cup {j}
  /\ stage' = [stage EXCEPT ![j] = "evaluation"]
  /\ UNCHANGED <<admitted, plan, invocations, bytes, complete, doomed, supervisor,
                 txVars, workerVars>>

\* The same, failing after the handoff file was written: the row rolls back and
\* the file stays.
EvaluateAborted(j) ==
  /\ Freezable(j)
  /\ invocations[j] < MaxAttempts
  /\ ~QueueFull
  /\ j \notin frozen
  /\ frozen' = frozen \cup {j}
  /\ UNCHANGED <<tableVars, bytes, complete, doomed, supervisor, txVars, workerVars>>

\* Mutant: a terminal state is taken to mean that no worker is left.
CleanupWithoutProbe(ripe) ==
  /\ Unlocked
  /\ \A j \in ripe : state[j] \in TERMINAL \ {"expired"}
  /\ doomed' = doomed \cup {j \in bytes : state[j] = "expired"} \cup (ripe \cap bytes)
  /\ state' = [j \in Jobs |-> IF j \in ripe THEN "expired" ELSE state[j]]
  /\ UNCHANGED <<admitted, plan, stage, invocations, bytes, complete, frozen,
                 supervisor, txVars, workerVars>>

\* cleanup's transaction.  The clock decides which terminal jobs are old enough
\* (ripe); expired ones whose directory survived an earlier call come again.
Cleanup(ripe) ==
  /\ Unlocked
  /\ \A j \in ripe : state[j] \in TERMINAL \ {"expired"} /\ ~Held(j)
  /\ LET again == {j \in bytes : state[j] = "expired" /\ ~Held(j)}
     IN  doomed' = doomed \cup again \cup (ripe \cap bytes)
  /\ state' = [j \in Jobs |-> IF j \in ripe THEN "expired" ELSE state[j]]
  /\ UNCHANGED <<admitted, plan, stage, invocations, bytes, complete, frozen,
                 supervisor, txVars, workerVars>>

\* cleanup's removals, outside the transaction.
RemoveDirectory(j) ==
  /\ j \in doomed
  /\ doomed' = doomed \ {j}
  /\ bytes' = bytes \ {j}
  /\ complete' = complete \ {j}
  /\ frozen' = frozen \ {j}
  /\ UNCHANGED <<tableVars, supervisor, txVars, workerVars>>

\* The cleaning process dies between its commit and its removals.
CleanerCrash ==
  /\ doomed # {}
  /\ doomed' = {}
  /\ UNCHANGED <<tableVars, bytes, complete, frozen, supervisor, txVars, workerVars>>

-----------------------------------------------------------------------------
(* The coordinator.  SupervisorHandshake models how it is started and how  *)
(* it retires; here any caller may start one while work is queued.         *)

StartSupervisor ==
  /\ supervisor = "down"
  /\ \E j \in Jobs : state[j] = "queued"
  /\ supervisor' = "idle"
  /\ UNCHANGED <<tableVars, fileVars, txVars, workerVars>>

\* Mutant: capacity is counted from the table instead of from the locks.
ScheduleBeginByState ==
  /\ supervisor = "idle"
  /\ supervisor' = "open"
  /\ active' = {j \in Jobs : state[j] = "running"}
  /\ cursor' = 1
  /\ UNCHANGED <<tableVars, fileVars, claimed, refused, workerVars>>

\* Nobody else writes the table while the transaction is open, so what the code
\* reads into its job list is the table itself until the commit.
ScheduleBegin ==
  /\ supervisor = "idle"
  /\ supervisor' = "open"
  /\ active' = {j \in Jobs : Held(j)}
  /\ cursor' = 1
  /\ UNCHANGED <<tableVars, fileVars, claimed, refused, workerVars>>

\* Mutant: a plan that fits the remaining memory exactly is skipped.
SkipExactFit(j) ==
  /\ \/ state[j] # "queued"
     \/ Cardinality(active \cup claimed) >= MaxRunning
     \/ MemoryOf(active \cup claimed) + plan[j].memory >= MaxMemory
     \/ Held(j)
  /\ UNCHANGED <<claimed, refused, workerVars>>

\* The visited job stays as it is: not queued, no slot, no memory, lock busy.
Skip(j) ==
  /\ \/ state[j] # "queued"
     \/ Cardinality(active \cup claimed) >= MaxRunning
     \/ MemoryOf(active \cup claimed) + plan[j].memory > MaxMemory
     \/ Held(j)
  /\ UNCHANGED <<claimed, refused, workerVars>>

\* The worker is a child process that inherits the lock just taken.
Spawn(j) ==
  \E w \in Workers :
    /\ pc[w] = "free"
    /\ pc' = [pc EXCEPT ![w] = "spawned"]
    /\ serves' = [serves EXCEPT ![w] = j]
    /\ UNCHANGED <<claim, started>>

\* Mutant: a queued row is taken to mean that its lock is free.
ClaimIgnoringLock(j) ==
  /\ state[j] = "queued"
  /\ Cardinality(active \cup claimed) < MaxRunning
  /\ MemoryOf(active \cup claimed) + plan[j].memory <= MaxMemory
  /\ invocations[j] < MaxAttempts
  /\ claimed' = claimed \cup {j}
  /\ Spawn(j)
  /\ UNCHANGED refused

\* The visited job is claimed and spawned for, or failed for want of invocations.
Claim(j) ==
  /\ state[j] = "queued"
  /\ Cardinality(active \cup claimed) < MaxRunning
  /\ MemoryOf(active \cup claimed) + plan[j].memory <= MaxMemory
  /\ ~Held(j)
  /\ \/ /\ invocations[j] >= MaxAttempts
        /\ refused' = refused \cup {j}
        /\ UNCHANGED <<claimed, workerVars>>
     \/ /\ invocations[j] < MaxAttempts
        /\ claimed' = claimed \cup {j}
        /\ Spawn(j)
        /\ UNCHANGED refused

ScheduleVisit ==
  /\ supervisor = "open"
  /\ cursor <= Len(admitted)
  /\ Skip(admitted[cursor]) \/ Claim(admitted[cursor])
  /\ cursor' = cursor + 1
  /\ UNCHANGED <<tableVars, fileVars, supervisor, active>>

CloseTransaction == active' = {} /\ cursor' = 0 /\ claimed' = {} /\ refused' = {}

\* Running jobs whose lock was free become interrupted (_reconcile_ownership).
\* With nothing queued and nobody active the coordinator retires.
ScheduleCommit ==
  /\ supervisor = "open"
  /\ cursor > Len(admitted)
  /\ state' = [j \in Jobs |->
                 IF j \in claimed THEN "running"
                 ELSE IF j \in refused THEN "failed"
                 ELSE IF state[j] = "running" /\ j \notin active THEN "interrupted"
                 ELSE state[j]]
  /\ invocations' = [j \in Jobs |-> IF j \in claimed THEN invocations[j] + 1
                                                     ELSE invocations[j]]
  /\ supervisor' = IF active # {} \/ \E j \in Jobs : state[j] = "queued"
                   THEN "idle" ELSE "down"
  /\ CloseTransaction
  /\ UNCHANGED <<admitted, plan, stage, fileVars, workerVars>>

\* The open transaction is rolled back: contention at COMMIT (the loop polls
\* again), any other error or the death of the coordinator.  The workers it has
\* spawned live on.
ScheduleRollback ==
  /\ supervisor = "open"
  /\ supervisor' \in {"idle", "down"}
  /\ CloseTransaction
  /\ UNCHANGED <<tableVars, fileVars, workerVars>>

SupervisorCrash ==
  /\ supervisor = "idle"
  /\ supervisor' = "down"
  /\ UNCHANGED <<tableVars, fileVars, txVars, workerVars>>

-----------------------------------------------------------------------------
(* The workers.                                                            *)

\* The process ends, and the kernel lock with it.
Exit(w) ==
  /\ pc' = [pc EXCEPT ![w] = "free"]
  /\ serves' = [serves EXCEPT ![w] = NoJob]
  /\ claim' = [claim EXCEPT ![w] = 0]
  /\ UNCHANGED started

\* run_job past _worker_context: the guard thread starts, the input is copied.
BeginWork(w) ==
  LET j == serves[w] IN
  /\ pc' = [pc EXCEPT ![w] = "working"]
  /\ claim' = [claim EXCEPT ![w] = invocations[j]]
  /\ started' = [started EXCEPT ![j] = @ + 1]
  /\ bytes' = bytes \cup {j}
  /\ UNCHANGED <<serves, complete, frozen, doomed>>

\* Mutant: the child trusts its spawn and runs a job it still reads as queued.
WorkerReadTrusting(w) ==
  /\ pc[w] = "spawned"
  /\ \/ /\ state[serves[w]] \in {"queued", "running"}
        /\ BeginWork(w)
     \/ /\ state[serves[w]] \notin {"queued", "running"}
        /\ Exit(w)
        /\ UNCHANGED fileVars
  /\ UNCHANGED <<tableVars, supervisor, txVars>>

\* Mutant: the child decides on its first snapshot, without the barrier.
WorkerReadHasty(w) ==
  /\ pc[w] = "spawned"
  /\ \/ /\ state[serves[w]] = "running"
        /\ BeginWork(w)
     \/ /\ state[serves[w]] # "running"
        /\ Exit(w)
        /\ UNCHANGED fileVars
  /\ UNCHANGED <<tableVars, supervisor, txVars>>

\* The first read is a snapshot: it may be older than the claim's commit.
WorkerRead(w) ==
  /\ pc[w] = "spawned"
  /\ \/ /\ state[serves[w]] = "running"
        /\ BeginWork(w)
     \/ /\ state[serves[w]] = "queued"
        /\ pc' = [pc EXCEPT ![w] = "barrier"]
        /\ UNCHANGED <<serves, claim, started, fileVars>>
     \/ /\ state[serves[w]] \notin {"queued", "running"}
        /\ Exit(w)
        /\ UNCHANGED fileVars
  /\ UNCHANGED <<tableVars, supervisor, txVars>>

\* A write transaction serializes the second read behind the coordinator's.
WorkerBarrier(w) ==
  /\ pc[w] = "barrier"
  /\ Unlocked
  /\ \/ /\ state[serves[w]] = "running"
        /\ BeginWork(w)
     \/ /\ state[serves[w]] # "running"
        /\ Exit(w)
        /\ UNCHANGED fileVars
  /\ UNCHANGED <<tableVars, supervisor, txVars>>

\* _transition and _publish_completion refuse a job that is no longer running.
Transition(w, to) ==
  LET j == serves[w] IN
  /\ Unlocked
  /\ state[j] = "running"
  /\ state' = [state EXCEPT ![j] = to]
  /\ pc' = [pc EXCEPT ![w] = "exiting"]
  /\ UNCHANGED <<admitted, plan, stage, invocations, serves, claim, started,
                 supervisor, txVars>>

WorkerAwait(w) ==
  /\ pc[w] = "working"
  /\ stage[serves[w]] = "tuning"
  /\ Transition(w, "awaiting_evaluation")
  /\ UNCHANGED fileVars

\* Mutant: a tuning prefix may publish the final report.
WorkerPublishAnyStage(w) ==
  /\ pc[w] = "working"
  /\ Transition(w, "completed")
  /\ complete' = complete \cup {serves[w]}
  /\ UNCHANGED <<bytes, frozen, doomed>>

\* complete.json is written inside the completing transaction, before it commits.
WorkerPublish(w) ==
  /\ pc[w] = "working"
  /\ stage[serves[w]] # "tuning"
  /\ Transition(w, "completed")
  /\ complete' = complete \cup {serves[w]}
  /\ UNCHANGED <<bytes, frozen, doomed>>

\* The same, failing after the file was written (output limit, failed COMMIT).
WorkerPublishAborted(w) ==
  /\ pc[w] = "working"
  /\ stage[serves[w]] # "tuning"
  /\ Unlocked
  /\ state[serves[w]] = "running"
  /\ complete' = complete \cup {serves[w]}
  /\ pc' = [pc EXCEPT ![w] = "failing"]
  /\ UNCHANGED <<tableVars, bytes, frozen, doomed, supervisor, txVars, serves, claim,
                 started>>

\* Any exception in the attempt, a refused transition included.
WorkerRaise(w) ==
  /\ pc[w] = "working"
  /\ pc' = [pc EXCEPT ![w] = "failing"]
  /\ UNCHANGED <<tableVars, fileVars, supervisor, txVars, serves, claim, started>>

\* The boundary records the failure if the job is still running.
WorkerRecordFailure(w) ==
  /\ pc[w] = "failing"
  /\ \/ \E to \in {"failed", "interrupted"} : Transition(w, to)
     \/ /\ Unlocked
        /\ state[serves[w]] # "running"
        /\ pc' = [pc EXCEPT ![w] = "exiting"]
        /\ UNCHANGED <<tableVars, supervisor, txVars, serves, claim, started>>
  /\ UNCHANGED fileVars

\* The guard thread sees the cancellation and ends the process.
GuardCancelled(w) ==
  /\ pc[w] \in {"working", "failing", "exiting"}
  /\ state[serves[w]] = "cancelled"
  /\ Exit(w)
  /\ UNCHANGED <<tableVars, fileVars, supervisor, txVars>>

\* Mutant: the guard records its refusal without looking at the state again.
GuardRefusedBlindly(w) ==
  /\ pc[w] \in {"working", "failing"}
  /\ Unlocked
  /\ state' = [state EXCEPT ![serves[w]] = "failed"]
  /\ Exit(w)
  /\ UNCHANGED <<admitted, plan, stage, invocations, fileVars, supervisor, txVars>>

\* The guard thread sees a resource limit or the deadline, fails the job if it
\* is still running and ends the process.
GuardRefused(w) ==
  /\ pc[w] \in {"working", "failing"}
  /\ Unlocked
  /\ state' = [state EXCEPT ![serves[w]] = IF @ = "running" THEN "failed" ELSE @]
  /\ Exit(w)
  /\ UNCHANGED <<admitted, plan, stage, invocations, fileVars, supervisor, txVars>>

WorkerExit(w) ==
  /\ pc[w] = "exiting"
  /\ Exit(w)
  /\ UNCHANGED <<tableVars, fileVars, supervisor, txVars>>

WorkerCrash(w) ==
  /\ pc[w] # "free"
  /\ Exit(w)
  /\ UNCHANGED <<tableVars, fileVars, supervisor, txVars>>

-----------------------------------------------------------------------------
Caller ==
  \/ \E j \in Jobs, p \in Plans : Execute(j, p)
  \/ \E j \in Jobs :
       \/ Status(j) \/ Cancel(j) \/ Resume(j)
       \/ Evaluate(j) \/ EvaluateAborted(j)
       \/ RemoveDirectory(j)
  \/ \E ripe \in SUBSET Jobs : Cleanup(ripe)

Coordinator ==
  StartSupervisor \/ ScheduleBegin \/ ScheduleVisit \/ ScheduleCommit

Worker(w) ==
  \/ WorkerRead(w) \/ WorkerBarrier(w)
  \/ WorkerAwait(w) \/ WorkerPublish(w) \/ WorkerPublishAborted(w)
  \/ WorkerRaise(w) \/ WorkerRecordFailure(w)
  \/ GuardCancelled(w) \/ GuardRefused(w) \/ WorkerExit(w)

Fault ==
  \/ ScheduleRollback \/ SupervisorCrash \/ CleanerCrash
  \/ \E w \in Workers : WorkerCrash(w)

Next ==
  \/ Caller
  \/ Coordinator
  \/ \E w \in Workers : Worker(w)
  \/ Fault

Spec == Init /\ [][Next]_vars
-----------------------------------------------------------------------------
(* Properties.                                                             *)

Live == {w \in Workers : pc[w] # "free"}

\* No job is ever served by two processes, whatever was rolled back, killed,
\* cancelled or resumed: _schedule takes the job's lock before it spawns, and
\* the lock outlives the transaction, the coordinator and the row's state.
ExclusiveOwnership ==
  \A v, w \in Live : serves[v] = serves[w] => v = w

\* The processes that are really alive never outnumber max_running: workers of
\* cancelled jobs and of rolled back claims count too (_schedule counts locks).
SlotsRespected == Cardinality(Live) <= MaxRunning

\* Nor do the memory allowances of the jobs they serve exceed
\* max_active_memory_bytes (the second capacity test of _schedule).
MemoryRespected == MemoryOf({j \in Jobs : Held(j)}) <= MaxMemory

\* Every physical start of native work is paid for by a committed claim, and a
\* job has at most max_attempts of them (the barrier of _worker_context).
WorkIsAccounted ==
  \A j \in Jobs : started[j] <= invocations[j] /\ invocations[j] <= MaxAttempts

\* A worker that can still move a running job was started by that job's latest
\* claim: no earlier attempt ever completes or fails a later one.
FreshWorker ==
  \A w \in Workers :
    /\ pc[w] \in {"working", "failing"}
    /\ state[serves[w]] = "running"
    => claim[w] = invocations[serves[w]]

\* A completed job can be reported: its directory and complete.json are there,
\* and a protected one went through the frozen handoff (_publish_completion,
\* cleanup, evaluate).
CompletedIsReadable ==
  \A j \in Jobs :
    state[j] = "completed" =>
      /\ j \in bytes \cap complete
      /\ plan[j].protected => stage[j] = "evaluation" /\ j \in frozen

\* execute, resume and evaluate together never overfill the queue.
QueueBounded == Cardinality(Busy) <= MaxRunning + MaxQueued

\* The directories on disk never outgrow max_retained_bytes, a cleanup that died
\* before it removed anything included (_admission_limits).
RetainedBounded == OutputOf(bytes) <= MaxRetained

\* A directory is only removed from an expired job that nobody is running.
CleanupSafety ==
  [][\A j \in bytes \ bytes' : state[j] = "expired" /\ ~Held(j)]_vars

\* Every job follows the lifecycle its callers are promised.
Life == INSTANCE JobLifecycle

ImplementsLifecycle == Life!Spec
=============================================================================
