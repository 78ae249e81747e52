# COLEMAN in TLA+

COLEMAN ranks and selects tests in continuous integration with bandit policies
(`src/coleman`). Most of it is numerical or parses data. What can go wrong in
ways that tests hardly reach is the machinery that runs experiments durably:
detached coordinators and workers over one SQLite database, kernel locks,
checkpoints beside result shards, and bounded local services. This directory
holds TLA+ models of that machinery, TLC runs, and proofs.

## 1. Inventory

| part | state it keeps | operations | how it meets the others |
|---|---|---|---|
| Durable workflows: callers (`application/workflows.py`, `workflow_store.py`) | the `jobs` table (state, stage, invocations, ...), job directories, `evaluation-handoff.json` | execute, status, cancel, resume, evaluate, cleanup, report | `BEGIN IMMEDIATE` transactions; probes kernel locks; starts the coordinator |
| Coordinator (`workflow_supervisor.py`, `baseline_lock.py`) | `supervisor.lock`, requested and observed generations | poll: reconcile, claim, spawn, retire | inherits its lock from the caller that spawned it; spawns workers inside its transaction |
| Worker (`workflow_worker.py`, `workflow_native.py`, `workflow_checkpoint.py`) | one kernel lock, attempt events, stage receipts, `complete.json` | read the claim, run trials, publish, fail, guard thread | its own short transactions on the row; drives the native engine |
| Protected workflow (`workflow_evaluation.py`, `workflow_exposure.py`) | handoff, import attempts, exposure markers, their maps, the source lock | freeze a choice, check the frontier, mark imports and replays, account for them before a comparison | under evaluate and the worker; writes into the audit chain |
| Native engine (`environment.py`, `runner.py`, `checkpoint/`, `results/`) | pickle checkpoints, progress marker, Parquet shards with an owner token | run a build, flush, save, recover | called once per trial, reports each committed build |
| Local command service (`application/service.py`, `worker.py`) | in-memory job table of one session, worker processes, a session directory | submit, status, cancel, result, import, close; supervisor thread | one lock; child processes |
| Row writer (`results/writer.py`), sinks | bounded queue, writer thread, buffers | start, enqueue, stop; write, flush | producer threads and one consumer |
| Audit (`evaluation/protected/audit.py`) | chain of immutable ordinal files, reports | access, history, evaluate, save a report | reserved before outcomes are read; used by evaluators under the source lock and by clients without one |
| Resource ledger and replay (`resources/`) | reservations, consumption, containment | admit, settle, retry, replay | pure, over recorded events |
| Shadow decisions (`shadow/`) | bounded journal, quarantine | ingest, decide | pure, over recorded events |
| Baseline matrix (`application/baselines.py`, `baseline_*.py`) | attempt events, observations, completions, reports, `complete.json`, two kernel locks | run a grid, reuse, retry, interrupt, publish | each cell runs in a pool process of the native engine, which outlives a killed invocation |
| Solvers, policies, metrics, rewards, statistics | none, or numerical agents | pure functions | called by the above |
| Corpus, transports, specifications, telemetry, command line | immutable files | parse, validate, project, publish | I/O at the border |

Hard behaviour, in the order of its weight:

1. Processes: a worker is spawned before the claim that pays for it commits, and
   outlives the coordinator, the transaction, and the row's state. Ownership is a
   kernel lock, never a PID.
2. Crashes: any process may be killed between two writes. Rows, pickle, marker,
   receipt, report and the database row are separate writes.
3. Stale reads: workers decide on snapshots and callers on lock probes.
4. Liveness: queued work must find a coordinator although coordinators retire.
5. Bounds: queue, slots, memory, disk and attempts are counted in several places.

What makes each part correct: a job has one process, physical work is paid for,
bounds hold for what is *really* there, a completed job is readable, committed
progress survives, held-out data is touched only after the freeze, every
admitted job is seen and ends. `PROJECT.json` lists each hazard at its line with
the properties that would notice it.

## 2. Modules and their order

| module | what it is | proofs |
|---|---|---|
| `JobLifecycle` | abstract: the transitions a job's public view may make | |
| `WorkflowJobs` | the jobs of a workspace: callers, coordinator, workers | `WorkflowJobs_proofs` |
| `WorkflowAttempt` | what the attempts at one job do to trials, rows, checkpoints, receipts, handoff, report | `WorkflowAttempt_proofs` |
| `SupervisorHandshake` | how queued work finds a coordinator | `SupervisorHandshake_proofs` |
| `ApplicationService` | one session of the command service | `ApplicationService_proofs` |
| `ResultsWriter` | queue, thread, stop and restart, batches of the Parquet sink | `ResultsWriter_proofs` |
| `AccessLog` | abstract: the log of accesses to one holdout | |
| `EvaluationAudit` | the access chain, the exposure markers and the source lock | `EvaluationAudit_proofs` |
| `BaselineMatrix` | one grid of cells, its invocations and their native processes | `BaselineMatrix_proofs` |
| `FoldFacts` | induction on sets, and what the folds of the community modules compute | itself |

`MC*` modules hold only values for TLC. `MCWorkflowLive` adds the moment after
which no fault happens, and `MCWorkflowAttempt` the damage from outside that
`attempt_reset` needs.

Three modules share one system. `WorkflowJobs` lets any caller start a
coordinator while work is queued; `SupervisorHandshake` shows what the callers
do for it. `WorkflowJobs` shows that a job has one process; `WorkflowAttempt`
takes that as given and opens up what the process does. Both implement
`JobLifecycle`. `EvaluationAudit` starts where a worker's evaluation stage reads
held-out outcomes, and implements `AccessLog`. `BaselineMatrix` runs the same
native engine outside the workflow; its `Commit` is the protocol that
`WorkflowAttempt` has in full.

## 3. How the models correspond to the code

`PROJECT.json` maps every definition to its lines. Conventions:

- A transaction of a caller or worker is one step: `BEGIN IMMEDIATE` serializes
  writers (`Unlocked`). The coordinator's transaction is several steps because it
  spawns processes inside it (`ScheduleBegin`, `ScheduleVisit`, `ScheduleCommit`
  or `ScheduleRollback`), and worker snapshots (`WorkerRead`) may fall between.
- A kernel lock is held by the processes that have a descriptor on it, and a
  process that ends drops it. `WorkflowJobs.Held` looks at the live processes;
  `SupervisorHandshake.copies` counts inherited descriptors.
- A file write and the row update that follows are separate outcomes:
  `WorkerPublishAborted`, `EvaluateAborted`, `ReserveAborted`, `PublishAborted`
  stand for a transaction that rolls back after its file was written.
- `write_immutable` is one step: it links a complete temporary file, and writing
  the same bytes again succeeds.
- Payloads, digests and wording are left out. Plans differ only in kind, memory
  and output; a trial is a model value.
- Clocks are nondeterministic: retention, deadlines and limits may pass at any
  moment that the code tests them.
- `ApplicationService` holds the whole table in one function, since its methods
  sweep the table under one lock; `Expire`, `StartReady`, `Sweep` and `Finish` are
  operators on it, composed the way the methods call each other.
- `WorkflowAttempt` walks the coordinates by position: `Listed` are the positions
  of the stage (all of the plan, or those of the frozen choice) and `After(i)` is
  where the loop of `_trials` goes from `i`.
- `EvaluationAudit`: an ordinal file appears whole, so a publication either is the
  next element of the chain or meets one that exists. `access` is a reading
  (`ReadHistory`) and an attempt to publish (`Publish`, `Conflict`) as two steps;
  `call` holds its local variables. `begun` and `read` are history. Every process
  may stop at any point (`Leave`, `Abandon`), by an exception or by death, and
  the kernel frees its lock. What a comparison calculates is left out.
- `BaselineMatrix`: each invocation starts a cell at most once, so an invocation
  and a cell name an attempt, its events and its native process. The process
  takes the cell's lock itself, goes on when its parent dies, and answers only a
  parent that still waits. `Die`, `Raise`, `Kill` and `Interrupt` are possible
  wherever the code can be left that way. The cells' measurements are left out;
  an observation is the attempt it names.
- `ResultsWriter`: a call that blocks (a full queue, a lock held over a wait, a
  join) is a disabled step. `start` and each method of the sink run under a lock
  without waiting, so each is one step; `enqueue` is two or three, since it looks
  at `_started` without the lock; `stop` is three and keeps the lock between. A
  flush raises before anything is published, or with some shards in place.
  `WorkflowAttempt` has the same sink in a process that dies there.

The refusal branch of `Claim` (a queued job without an invocation left) is never
reached: `resume` and `evaluate` test the same limit first. It stays because the
code has it, and the proofs cover it.

## 4. Runs

| run | bounds | what it shows |
|---|---|---|
| `jobs` | 2 jobs, plans of memory 1 and 2, capacity 2, 3 worker slots, 2 attempts | ownership, capacity in memory, paid work, fresh workers, readable completion, safe cleanup, refinement of `JobLifecycle` |
| `jobs_queue` | 3 jobs, 1 running, 1 queued, memory for two, outputs 1 and 2 in 3 units of disk, 1 attempt | slots, queue and disk bounds |
| `jobs_live` | 2 jobs, 1 slot, faults until `calm` | queued work is served, committed claims are run |
| `attempt` | 3 coordinates, 3 builds of which 2 precede the held-out one, 4 attempts | exact rows, durable acknowledgement and whole pickles, accounted attempts, complete reports, protected held-out builds, nothing achieved is taken back, refinement |
| `attempt_reset` | 2 coordinates, descriptive, 1 damaged marker | **violation**, see below |
| `handshake` | 2 callers, 2 coordinator slots, 3 generations, 1 failure | queued work is watched and seen, one coordinator, honest acknowledgement |
| `service` | 3 commands and 1 import, 3 places, 2 slots, 2 units of memory, 1 queue place | all limits of the policy at once, for running jobs and for workers still there, clean close, first terminal state wins, every admitted command ends |
| `writer` | 2 callers of 3 rows, queue of 2, batch of 2, 3 threads, 1 failing flush | rows are published once, in order and never lost; one background thread; stop drains and returns |
| `writer_stop` | the same | **violation**, see below |
| `baseline` | 3 invocations, 2 cells of 2 builds | one native process and one verdict per cell, attributed observations, an honest receipt |
| `baseline_receipt` | 3 invocations, 1 cell of 1 build | **violation**, see below |
| `audit` | 1 import, 1 replay, 2 evaluators, 1 client, 3 accesses, 2 tries | the chain is an exact log, receipts belong to those who use them, exposures are counted, contention is progress |

Why these bounds are enough for the questions asked: two jobs compete for one
place, and a third is needed only to overfill a queue; a spare worker slot
beyond `MaxRunning` leaves room for the worker that a wrong step would start;
two attempts give an old and a new worker of one job; two builds before the
held-out one distinguish a lost, a current and a future checkpoint; two callers
and two coordinators give one retiring and one arriving; three invocations give
an orphan, the retry that finds the cell taken or fails, and the one that comes
after the verdict; two evaluators and a client race for one ordinal, and three
accesses leave room for one that accounts and one that compares. Each property has a
mutant, a plausible bug in one definition, that TLC finds under the same bounds.

Deadlock is checked in `handshake`. Elsewhere the system may stop: all attempts
are spent, the session or every invocation is over, every access is made, or
nobody calls the writer.

### The violations

`workflow_worker.py:103-104` promises that "missing progress cannot silently turn
continuation into fresh learning". `_require_committed_progress` and
`minimum_step` recognise the trial by `current_trial` in the snapshot the worker
began with. A resumed worker that reuses an earlier trial's receipt writes
`current_trial=None` (line 211) before it reaches the interrupted trial; if it
dies there, the next worker's snapshot no longer names that trial, both guards
are skipped, and a marker that has been lost meanwhile is taken for an attempt
before the first checkpoint. Recovery at step 0 then deletes the committed rows.
It takes damage from outside the program to matter: without it `NoSilentReset`
holds, which is the theorem `ContinuationHonest`.

`writer.py:103` says that `stop` waits for the writer thread to drain. An
exception of the sink ends that thread and leaves `_started` set; `stop` then
puts its signal behind the rows that wait, joins the dead thread and returns
without an error, and those rows are still in the queue. They, and the old
signal, are what a restarted thread finds: it ends at the signal while
`_started` says it runs. Without a failing flush `StopDrains` and `StopReturns`
hold, and `RowsAccounted` and `OrderKept` hold with one. A row whose caller saw
`_started` just before a stop waits for the next start; if the queue is full
by then, so does its caller.

`baselines.py:216-217` says that retries "verify completed bytes, retain failed
cells and resume interrupted native checkpoints", and `baseline_lock.py:49-50`
that a killed parent cannot make running work look abandoned. That holds for a
native process that has its cell's lock. One that has not taken it yet when its
parent is killed is invisible: another attempt may run the cell, fail and have
the grid published, and then the late process takes the free lock, adds to the
observations and may complete the cell. `complete.json` no longer describes the
directory (`ReceiptStands`). What the receipt said of attempts, verdicts and
whole cells stays true (`ReceiptHonest`, proved).

## 5. Fairness

- `jobs_live`: after some moment nothing crashes. The coordinator is weakly fair
  (it polls every 50 ms, and a caller that retries restarts it); each worker is
  strongly fair, since its transactions retry `BEGIN` until its deadline and the
  coordinator releases the database between polls; native work ends because the
  guard ends it at `attempt_seconds`. Callers are not fair and may go on
  cancelling and resuming.
- `handshake`: a caller's steps inside `ensure_supervisor` are strongly fair
  (a `BEGIN` waits up to a second, polls leave 50 ms), a coordinator's weakly.
  What failed (`abandoned`) is promised nothing until a later poll commits or
  the same request is made again.
- `service`: the supervisor thread iterates and time passes; nothing is
  assumed of the workers.
- `writer`: the steps inside `put`, `stop` and the background thread are weakly
  fair. That a `put` is not overtaken for ever rests on the finitely many rows
  of the model: the queue promises its waiters no order. Nobody has to call.

## 6. Proofs

`WorkflowJobs_proofs` proves, for all jobs, plans, workers and limits that meet
the named assumptions of `WorkflowJobs` (finite `Jobs`, natural limits,
`MaxAttempts > 0`, `NoPlan` and `NoJob` outside their sets):

`TypeCorrect`, `OneProcessPerJob`, `WorkAccounted`, `NoStaleWorker`,
`CompletedReadable`, `CleanupIsSafe`, `SlotsNeverExceeded`, `QueueNeverOverfull`,
`MemoryNeverExceeded`, `RetentionNeverExceeded` and the refinement
`LifecycleImplemented`.

None of these invariants is inductive alone. The argument is in layers, each
preserved with the help of those before it:

1. `Shape`: types; a free slot serves no job; the cursor stands in `admitted`.
2. `Table`: a job is admitted once; a closed transaction holds no claims; what an
   open one claims or refuses is queued, lies behind the cursor, and has (or has
   not) an invocation left. This is what makes the commit a legal transition.
3. `Ownership`: one process per job; a process of an uncommitted claim has not
   begun; one that waits on a running row has an unspent invocation; one that
   works was started by the latest claim. The second part is why a rolled back
   claim never runs, the third why its start is paid for.
4. `Files`: an expired job has no process, only expired jobs are doomed, a working
   process has its directory, an evaluation stage has its handoff.
5. `Slots`: held locks never exceed `MaxRunning`, and while a transaction is open
   they are within what it counts, since locks are released but never taken
   outside it.
6. `QueueBounded` is inductive given 1 and 2.
7. `Rows` and `Memory`: whatever is held, counted, claimed or on disk belongs to a row,
   and the plan of a row does not change. While a transaction is open what it
   counts (`active`, `claimed`) covers the processes that live, and fits
   (`MemoryCounted`); locks are released but never taken outside it.
8. `Retained`: a row reserves its output from its admission until it has expired and
   its directory is gone, so only an admission adds to the sum, and that is
   where it is tested. The directories on disk are among what is reserved.

The refinement maps each step to a move of every job along `JobLifecycle`, with
layers 1, 2 and 4.

`WorkflowAttempt_proofs` proves, for any coordinates, selections, history and
number of attempts, `TypeCorrect`, `RowsExact`, `AcknowledgedDurable`,
`AttemptsRetained`, `CompletionBacked`, `HeldOutProtected`, `ProgressNeverLost`,
the refinement `LifecycleImplemented`, and `ContinuationHonest`: `NoSilentReset`
under `Spec`, which has no damage from outside. The invariant adds to the
properties what the process knows between two writes:

1. `Staged`: a live worker's row is running or cancelled, the trial it is at is one
   of the stage, and an evaluation stage has its handoff.
2. `Frontier`: in memory the process is at the marker, or one build ahead of it
   after a flush, and no row is published beyond that. So a commit publishes a
   build that has exactly one row, and recovery deletes only what no marker
   commits. That is all `RowsExact` needs, wherever a worker dies.
3. `Reserved`: a trial that runs has an event that no earlier run used.
4. `Receipted`: the loop leaves receipts behind it, and a report that is about to
   be published lists every retained attempt. A loop is entered only where no report
   was found, so a report is written once.

`ProgressNeverLost` is about steps. What earlier attempts achieved is in seven
places (the count of the row, marker, rows, events, receipts, handoff, report),
and no step of a caller, a worker or its recovery, nor a crash, takes any of it
back. `Frontier` gives it for markers and rows, `Receipted` for the report; the
count may only start over when the stage moves on, which `Staged` ties to an
awaiting job.

`FoldFacts` is what layers 7 and 8 and the next module stand on. Sums over a set and
`FoldLeft` are, in the community modules, recursive functions given by `CHOOSE` that
take one chosen element at a time. The library's induction theorems take an
operator as a parameter, which the provers here cannot instantiate;
`NatSetInduction` and `LeastSubset` say the same of a *set* of good numbers and of
a *set* of bad subsets, from the library's facts that `<` and strict inclusion
are well-founded. With them the recursion has a solution (`FoldExists`), it is
unique, and a sum over a finite set of numbers is a number, does not depend on
the order (`SumRemove`), grows by what is added (`SumAdd`), depends on the values
on the set only (`SumAgree`) and is monotone (`SumMonotone`).

`ApplicationService_proofs` proves `TypeCorrect`, `TerminalStays`,
`CloseLeavesNothing`, `QueueNeverExceeds`, `PolicyNeverBroken` and `DeadlineEnds`, for
any requests, imports, allowances and policy that meet `KeysAssumption` and `PolicyAssumption`
(no set needs to be finite: what was ever admitted is).

1. `StartReady` is a fold over the order of admission. `StartReadyRuns` turns it into
   a sequence of tables, one per visit; from there each fact about it is an
   induction on the visits: it touches queued jobs only, which start or end
   (`StartReadyEffect`), the job admitted last is visited last
   (`StartReadyLast`), and the caps hold after every visit (`StartReadyCapped`).
2. A step sweeps the whole table, up to three times (`_expire`, the loop of
   `_advance`, `_start_ready`). `MovesAfterExpire` and `ReadiedTwice` show that a
   job changes once at most in a step, and `Moves` is what such a change may do. All
   steps but admissions and the removal of the directory are `Quiet`: every
   job moves so. `FirstTerminalWins` and `ClosedIsClean` follow from `Moves` and `Base`
   (types; a process belongs to a running job, a receipt to a completed or expired
   one; a completed job has its result; exactly the admitted keys are in
   the table).
3. `AcceptedPending` is why a job may enter a full queue. `_admission` tested that
   it can start on a table the second `_start_ready` begins with. Either that call
   takes another job out of the queue, or it leaves the table as it is, and then
   the new job, visited last, finds the room that was tested.
4. `Capped` (running jobs and their memory) and `Retained` (reserved bytes) are
   kept by every step that starts and admits nothing, because their sums shrink.
   `PolicyRespected` counts the workers that are there too: by `Base` they are
   those of the running jobs, since `_finish` reaps before it ends a job.
5. `DeadlineEnds` is the half of `AdmittedEnds` that is about steps: a deadline that
   has passed stays with a pending job, and the next `Advance` ends that job. The
   other half is the fairness of `Advance` and of time.

`SupervisorHandshake_proofs` proves `TypeCorrect`, `OneCoordinator`,
`WorkIsWatched` and `AcknowledgementIsHonest`. `Lock` says who has a copy of the
locked descriptor: a caller between taking the lock and leaving the handoff, and
the coordinator that inherited it. `Transaction` says that a coordinator closes
its descriptor only inside a transaction in which nothing is queued. `Watched` is
the inductive form of `QueuedIsWatched`: queued work has a coordinator, or a
caller that is admitted, or one whose generation has not been observed.
`Acknowledged` ties an observed generation to a poll after the admission.

`EvaluationAudit_proofs` proves `TypeCorrect`, `ReceiptsAreOwned`,
`AccessIsLockFree`, `ExposuresAreCounted` and the refinement `ChainIsALog`. The
count needs `LockHeld` (an evaluator between its first look and its outcomes has
the source lock, so no marker appears meanwhile), `ReadIsMarked`, `MapsSound`
(maps name different protected receipts, hence at least as many accesses as
mapped exposures) and `Purposeful` (a comparison is asked for when every marker
is mapped). `AccessIsLockFree` needs `SeenBounded`: every conflict was seen in
the chain when it was read again.

`BaselineMatrix_proofs` proves `TypeCorrect`, `OneNativeProcess`,
`CellsJudgedOnce`, `ObservationsAttributed` and `ReceiptsHonest`, from `Held`
(only the holder of `matrix.lock` is under way), `Natives` (a working process
has its cell's lock and stands at the checkpoint; observations are at most one
build ahead; a completion stands on all builds), `Started` (a process, and an
invocation that waits for it, have a start in the ledger), `Judged` (an attempt is
under way only at a cell without a verdict), `Growing` (a report grows along the
grid) and `Settled` (after the receipt no attempt is under way).

`ResultsWriter_proofs` proves `WriterTypes`, `SingleDrainer`, `RowsConserved`,
`OrderPreserved` and `StopHasDrained` for any callers, capacities and failures.

1. Types need `Bounded` (a caller enters `enqueue` with a row to spare). That one
   thread lives needs `LockHeld` (who is inside `stop` has the lock) and
   `LastOnly` (threads before the last one have ended, and a writer that is not
   started has joined its last one), since `start` trusts `_started`.
2. `RowsInv` adds `HandsFull` (a thread holds the one row it writes) and `Located`
   (every row anywhere was put). A new row is then behind all rows of its caller,
   and a row that is taken leaves the queue for the hand of the only thread. The
   sink's outcomes are one lemma (`SinkOutcome`): some of the rows are published,
   and the rest stays in the buffer or, after a failure half way, counts no more.
3. `Draining`: while no flush fails the signal is in the queue behind the rows it
   owes, alone; once the thread has taken it none of them is waiting; and the
   thread ends by publishing its buffer.

Only model-checked: liveness (`QueuedServed`, `ClaimsAreRun`, `QueuedSeen`,
`AdmittedEnds`, `StopReturns`), since it needs `ENABLED` and fairness, which this
prover does not reason about. Every other property of a passing run is stated by
a theorem. `ReceiptStands`, `StopWaitsToDrain` and, under `DamagedSpec`,
`NoSilentReset` are false.

## 7. Not modelled, and the plan

Most of the repository is not in these models, and most of that should not be:
policies, bandits, rewards, inference and statistics are numerical; corpora,
transports, specifications and manifests are parsed, validated and published
once; the command line, telemetry and the notebooks present. The modelled part
is the code that keeps state across processes, threads and crashes.

Of that part these pieces are left out:

- An exception that no handler catches is a crash of its process.
- Contention when the COMMIT of a retiring poll is refused in WAL mode is assumed
  away, and so are files that cannot be removed: `service.py` forgets such a
  directory and what it still occupies.
- An invocation of a matrix whose pool process was killed by the system waits for
  ever (`Kill`, then only `Interrupt` or `Die`). The code promises no end there,
  so there is no property about it.
- The stand-alone runner with several executions at once, its hooks and agents.
- The DuckDB and ClickHouse sinks and the synchronous domain records.
- Registration, exports and downloads: bounded publications of immutable files.
- Some failures whose effect on the modelled state is one the models have anyway:
  files of a submission that cannot be written (`_publish`; the job is refused), a
  pool that is interrupted before it has spawned (`Interrupt` without a native
  process). `BaselineMatrix` takes an attempt's terminal event and the cell's
  result in one step, and leaves out the lock under which a report is read.
- A row that the sink refuses by raising in `write_row`, and a writer thread that
  cannot be started.
- That the retry of a request finds the row of its job: `SupervisorHandshake` has
  requests and generations but no identity of jobs. In `WorkflowJobs` a
  request is its job.

Next, in order:

1. `ResourceLedger`: conservation of capacity, sticky containment, retries.
2. The runner's pool with several executions and its hooks.
3. `CoverageSearch`: branch and bound against a brute-force reference; discrete
   metrics and credit assignment as functions.
4. `ShadowJournal`: the bounded journal, quarantine and deterministic admission.
