-------------------------- MODULE ApplicationService --------------------------
(***************************************************************************)
(* One session of the local command service: submissions with bounded      *)
(* admission, worker processes, deadlines, cancellation, receipts,         *)
(* retention and close (src/coleman/application/service.py, worker.py).    *)
(*                                                                         *)
(* Every public operation and every iteration of the supervisor thread     *)
(* runs under one lock, hence is one step; several of them sweep the whole *)
(* job table, so the table is a function and what the methods do to it are *)
(* operators on tables.  Worker processes and time move between the steps. *)
(* A deadline that passes within a step has the effect of one that passed  *)
(* just before it.                                                         *)
(***************************************************************************)
EXTENDS Naturals, FiniteSets, SequencesExt

CONSTANTS
  Requests,        \* request identities (caller, request_id)
  Imports,         \* identities of imported results
  Allowances,      \* effective limits: [memory: Nat, output: Nat]
  MaxJobs,         \* ServerPolicy.max_jobs
  MaxRunning,      \* ServerPolicy.max_running
  MaxQueued,       \* ServerPolicy.max_queued
  MaxMemory,       \* ServerPolicy.max_active_memory_bytes
  MaxRetained,     \* ServerPolicy.max_retained_bytes
  OutputCap        \* ServerPolicy.caps.max_output_bytes

ASSUME KeysAssumption == Requests \cap Imports = {}
ASSUME PolicyAssumption ==
  /\ Allowances \subseteq [memory : Nat, output : 0..OutputCap]
  /\ MaxJobs \in Nat /\ MaxRunning \in Nat /\ MaxQueued \in Nat
  /\ MaxMemory \in Nat /\ MaxRetained \in Nat /\ OutputCap \in Nat

VARIABLES
  jobs,            \* jobs[k]: the record of k, with the files in its directory
  admitted,        \* the keys of _jobs in insertion order
  session          \* "open", "closing", "joined" (thread ended), "removed"

vars == <<jobs, admitted, session>>

-----------------------------------------------------------------------------
Keys == Requests \cup Imports
TERMINAL == {"completed", "failed", "cancelled", "expired"}
Pending == {"queued", "running"}

Job == [state   : {"absent"} \cup Pending \cup TERMINAL,
        memory  : Nat,
        output  : Nat,
        process : {"none", "alive", "exit 0", "exit 1"},
        files   : {"none", "work", "valid"},   \* its directory, and result.json in it
        handle  : BOOLEAN,                               \* a receipt was issued
        late    : BOOLEAN,                               \* its deadline has passed
        aged    : BOOLEAN]                               \* so has retention_seconds

TypeOK ==
  /\ jobs \in [Keys -> Job]
  /\ admitted \in BoundedSeq(Keys, MaxJobs)
  /\ session \in {"open", "closing", "joined", "removed"}

Absent == [state |-> "absent", memory |-> 0, output |-> 0, process |-> "none",
           files |-> "none", handle |-> FALSE, late |-> FALSE, aged |-> FALSE]

Init ==
  /\ jobs = [k \in Keys |-> Absent]
  /\ admitted = <<>>
  /\ session = "open"

-----------------------------------------------------------------------------
(* What the private methods do to one job, and to a table of jobs.         *)

\* _finish: reap the child, commit the terminal state, delete what is not a result.
\* Nothing reads the clocks and the memory of a job that has ended.
Finish(job, to) ==
  [job EXCEPT !.state = to,
              !.process = "none",
              !.late = FALSE, !.aged = FALSE, !.memory = 0,
              !.files = IF to = "completed" THEN @ ELSE "none",
              !.handle = to = "completed" \/ (to = "expired" /\ @)]

\* _expire: results past their retention become tombstones.
Expire(table) ==
  [k \in Keys |-> IF table[k].state \in TERMINAL \ {"expired"} /\ table[k].aged
                  THEN Finish(table[k], "expired") ELSE table[k]]

\* _collect, of a stopped worker: a receipt needs exit code 0 and a bundle.  There
\* is trouble if it does not match the approved configuration, or if the work
\* files cannot be removed.
Collect(job, trouble) ==
  Finish(job, IF job.process = "exit 0" /\ job.files = "valid" /\ ~trouble
              THEN "completed" ELSE "failed")

In(table, state) == {k \in Keys : table[k].state = state}
Memory(table, S) == SumFunctionOnSet([k \in Keys |-> table[k].memory], S)
Output(table, S) == SumFunctionOnSet([k \in Keys |-> table[k].output], S)

CanStart(table, memory) ==
  /\ Cardinality(In(table, "running")) < MaxRunning
  /\ Memory(table, In(table, "running")) + memory <= MaxMemory

\* One visit of _start_ready.  Popen may fail, here for the keys in trouble.
Visit(table, k, trouble) ==
  LET job == table[k] IN
  IF job.state # "queued" THEN table
  ELSE IF job.late THEN [table EXCEPT ![k] = Finish(job, "expired")]
  ELSE IF ~CanStart(table, job.memory) THEN table
  ELSE IF k \in trouble THEN [table EXCEPT ![k] = Finish(job, "failed")]
  ELSE [table EXCEPT ![k].state = "running", ![k].process = "alive"]

\* _start_ready: in order of admission, passing over what does not fit.
StartReady(table, order, trouble) ==
  FoldLeft(LAMBDA t, k : Visit(t, k, trouble), table, order)

\* Mutant: the supervisor waits for the exit of a worker, whatever its deadline.
SweepPatiently(table, trouble) ==
  [k \in Keys |->
     IF table[k].state = "running" /\ table[k].process \in {"exit 0", "exit 1"}
     THEN Collect(table[k], k \in trouble)
     ELSE table[k]]

\* The loop of _advance: the deadline wins over a result that is there.
Sweep(table, trouble) ==
  [k \in Keys |->
     IF table[k].state \in Pending /\ table[k].late THEN Finish(table[k], "expired")
     ELSE IF table[k].state = "running" /\ table[k].process \in {"exit 0", "exit 1"}
     THEN Collect(table[k], k \in trouble)
     ELSE table[k]]

\* Mutant: a job is taken to start at once whenever a slot is free.
QueueFullBySlots(table, memory) ==
  /\ Cardinality(In(table, "running")) >= MaxRunning
  /\ Cardinality(In(table, "queued")) >= MaxQueued

\* _admission's test, on the table after its own call of _start_ready.
QueueFull(table, memory) ==
  ~CanStart(table, memory) /\ Cardinality(In(table, "queued")) >= MaxQueued

\* Tombstones keep their place in max_jobs and give their bytes back.
Roomy(table, output) ==
  /\ Len(admitted) < MaxJobs
  /\ Output(table, Range(admitted) \ In(table, "expired")) + output <= MaxRetained

\* At most one operating system call fails in a step.
Troubles == {{}} \cup {{k} : k \in Keys}

-----------------------------------------------------------------------------
(* The operations of callers.                                              *)

\* Mutant: a session that is closing still admits.
SubmitUnchecked(k, limits) ==
  /\ session # "removed"
  /\ jobs[k].state = "absent"
  /\ \E trouble \in Troubles :
       LET ready == StartReady(Expire(jobs), admitted, trouble)
           fresh == [Absent EXCEPT !.state = "queued", !.files = "work",
                       !.memory = limits.memory, !.output = limits.output]
       IN  IF /\ ~QueueFull(ready, limits.memory)
              /\ Roomy(ready, limits.output)
              /\ limits.memory <= MaxMemory
           THEN /\ admitted' = Append(admitted, k)
                /\ jobs' = StartReady([ready EXCEPT ![k] = fresh], admitted', trouble)
           ELSE jobs' = ready /\ UNCHANGED admitted
  /\ UNCHANGED session

\* submit of a new request: admitted, or refused after others were started.
Submit(k, limits) ==
  /\ session = "open"
  /\ jobs[k].state = "absent"
  /\ \E trouble \in Troubles :
       LET ready == StartReady(Expire(jobs), admitted, trouble)
           fresh == [Absent EXCEPT !.state = "queued", !.files = "work",
                       !.memory = limits.memory, !.output = limits.output]
       IN  IF /\ ~QueueFull(ready, limits.memory)
              /\ Roomy(ready, limits.output)
              /\ limits.memory <= MaxMemory
           THEN /\ admitted' = Append(admitted, k)
                /\ jobs' = StartReady([ready EXCEPT ![k] = fresh], admitted', trouble)
           ELSE jobs' = ready /\ UNCHANGED admitted
  /\ UNCHANGED session

\* status, wait, result, a repeated submit, a refused import: _expire, no more.
Access ==
  /\ session = "open"
  /\ jobs' = Expire(jobs)
  /\ UNCHANGED <<admitted, session>>

\* Mutant: the last caller wins.
CancelAlways(k) ==
  /\ session = "open"
  /\ jobs[k].state # "absent"
  /\ jobs' = [Expire(jobs) EXCEPT ![k] = Finish(@, "cancelled")]
  /\ UNCHANGED <<admitted, session>>

\* cancel: the slot is free at once, but only the supervisor starts another job.
Cancel(k) ==
  /\ session = "open"
  /\ jobs[k].state # "absent"
  /\ jobs' = [Expire(jobs) EXCEPT ![k] = IF @.state \in Pending
                                         THEN Finish(@, "cancelled") ELSE @]
  /\ UNCHANGED <<admitted, session>>

\* import_result: evidence under a receipt of its own, at the full output cap.
Import(k) ==
  /\ session = "open"
  /\ jobs[k].state = "absent"
  /\ LET table == Expire(jobs) IN
       /\ Roomy(table, OutputCap)
       /\ jobs' = [table EXCEPT ![k] = [Absent EXCEPT !.state = "completed",
                     !.files = "valid", !.handle = TRUE, !.output = OutputCap]]
  /\ admitted' = Append(admitted, k)
  /\ UNCHANGED session

\* close: nothing is admitted any more, every pending job is cancelled ...
Close ==
  /\ session = "open"
  /\ jobs' = [k \in Keys |-> IF jobs[k].state \in Pending
                             THEN Finish(jobs[k], "cancelled") ELSE jobs[k]]
  /\ session' = "closing"
  /\ UNCHANGED admitted

\* ... and when the supervisor thread has ended the session directory goes.
RemoveDirectory ==
  /\ session = "joined"
  /\ jobs' = [k \in Keys |-> [jobs[k] EXCEPT !.files = "none"]]
  /\ session' = "removed"
  /\ UNCHANGED admitted

-----------------------------------------------------------------------------
(* The supervisor thread, the worker processes, and time.                  *)

Advance ==
  /\ session = "open"
  /\ \E trouble \in Troubles :
       jobs' = StartReady(Sweep(Expire(jobs), trouble), admitted, trouble)
  /\ UNCHANGED <<admitted, session>>

SupervisorEnds ==
  /\ session = "closing"
  /\ session' = "joined"
  /\ UNCHANGED <<jobs, admitted>>

\* The worker publishes its bundle last, then exits.
WorkerWrites(k) ==
  /\ jobs[k].process = "alive" /\ jobs[k].files = "work"
  /\ jobs' = [jobs EXCEPT ![k].files = "valid"]
  /\ UNCHANGED <<admitted, session>>

WorkerExits(k) ==
  /\ jobs[k].process = "alive" /\ jobs[k].files # "work"
  /\ jobs' = [jobs EXCEPT ![k].process = "exit 0"]
  /\ UNCHANGED <<admitted, session>>

\* An exception, the guard's os._exit(74) or a signal, at any time.
WorkerDies(k) ==
  /\ jobs[k].process = "alive"
  /\ jobs' = [jobs EXCEPT ![k].process = "exit 1"]
  /\ UNCHANGED <<admitted, session>>

DeadlinePasses(k) ==
  /\ jobs[k].state \in Pending /\ ~jobs[k].late
  /\ jobs' = [jobs EXCEPT ![k].late = TRUE]
  /\ UNCHANGED <<admitted, session>>

RetentionPasses(k) ==
  /\ jobs[k].state \in TERMINAL \ {"expired"} /\ ~jobs[k].aged
  /\ jobs' = [jobs EXCEPT ![k].aged = TRUE]
  /\ UNCHANGED <<admitted, session>>

-----------------------------------------------------------------------------
Next ==
  \/ \E k \in Requests, limits \in Allowances : Submit(k, limits)
  \/ \E k \in Imports : Import(k)
  \/ \E k \in Keys :
       \/ Cancel(k)
       \/ WorkerWrites(k) \/ WorkerExits(k) \/ WorkerDies(k)
       \/ DeadlinePasses(k) \/ RetentionPasses(k)
  \/ Access \/ Close \/ RemoveDirectory \/ Advance \/ SupervisorEnds

Spec == Init /\ [][Next]_vars

\* The supervisor thread iterates every 20 ms, and time passes.  Nothing is
\* assumed of the workers.
FairSpec ==
  Spec /\ WF_vars(Advance) /\ \A k \in Keys : WF_vars(DeadlinePasses(k))
-----------------------------------------------------------------------------
(* Properties.                                                             *)

Processes == {k \in Keys : jobs[k].process # "none"}

\* However submissions, cancellations, failed starts and deadlines interleave,
\* no more than max_queued jobs wait: a job may be admitted to a full queue only
\* because it starts at once (_admission, _start_ready).
PendingBounded == Cardinality(In(jobs, "queued")) <= MaxQueued

\* The limits of the policy hold together at every moment, for the jobs that run and
\* for the workers that are really there: the worker of a job that ended, expired or
\* was cancelled is gone before its slot is given away (_reap_worker).  The bytes
\* of a result are reserved from its admission to its retention, and sweeps that
\* start, end and expire several jobs at once never lend them twice (_admission,
\* _finish, _expire).
PolicyRespected ==
  /\ PendingBounded
  /\ Cardinality(Processes \cup In(jobs, "running")) <= MaxRunning
  /\ Memory(jobs, Processes \cup In(jobs, "running")) <= MaxMemory
  /\ Output(jobs, Range(admitted) \ In(jobs, "expired")) <= MaxRetained

\* When close has begun nothing runs and nothing starts; when it has returned no
\* byte of the session is left, whoever was inside an operation (close).
ClosedIsClean ==
  /\ session # "open" => Processes = {} /\ In(jobs, "queued") = {}
  /\ session = "removed" => \A k \in Keys : jobs[k].files = "none"

\* The first terminal state wins, and only retention follows it; a receipt is
\* issued once, to a completed job, and names a matching result for as long as
\* the job is completed and the session lasts (_finish, _collect, cancel).
FirstTerminalWins ==
  [][\A k \in Keys :
       /\ jobs[k].state \in TERMINAL =>
            jobs'[k].state \in {jobs[k].state, "expired"}
       /\ jobs[k].handle => jobs'[k].handle
       /\ jobs'[k].handle /\ ~jobs[k].handle => jobs'[k].state = "completed"
       /\ jobs'[k].state = "completed" /\ session' # "removed" =>
            jobs'[k].handle /\ jobs'[k].files = "valid"]_vars

\* Every admitted job ends, even when its worker hangs or it never fits: its
\* deadline covers queueing too (_advance, _start_ready).
AdmittedEnds == \A k \in Requests : jobs[k].state \in Pending ~> jobs[k].state \in TERMINAL
=============================================================================
