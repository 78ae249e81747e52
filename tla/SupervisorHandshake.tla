-------------------------- MODULE SupervisorHandshake --------------------------
(***************************************************************************)
(* How queued work of a workspace always finds a coordinator: the          *)
(* generation handshake of ensure_supervisor, the kernel lock a coordinator *)
(* inherits from the caller that spawned it, and the way it retires        *)
(* (src/coleman/application/workflow_supervisor.py, baseline_lock.py).     *)
(*                                                                         *)
(* WorkflowJobs lets any caller start a coordinator while work is queued;  *)
(* this module shows what the callers really do for that.  Each caller has *)
(* one job.  The callers' write transactions are single steps, and the     *)
(* coordinator's is open between Open and its end.  SQLite in WAL mode     *)
(* answers contention at BEGIN IMMEDIATE, not at the COMMIT of a           *)
(* transaction that already holds the write lock, so a coordinator that    *)
(* has closed its descriptor commits or dies.                              *)
(***************************************************************************)
EXTENDS Naturals, FiniteSets

CONSTANTS
  Callers,         \* processes that execute or resume, each its own job
  Coordinators,    \* slots for coordinator processes
  NoOne,
  MaxRunning,      \* HostPolicy.max_running
  MaxGeneration,   \* _MAX_GENERATION
  MaxFaults        \* bound on deaths, rollbacks and timeouts

ASSUME NamesAssumption ==
  /\ Callers \cap Coordinators = {}
  /\ NoOne \notin Callers \cup Coordinators
ASSUME BoundsAssumption ==
  /\ MaxRunning \in Nat \ {0}
  /\ MaxGeneration \in Nat /\ MaxFaults \in Nat

VARIABLES
  job,             \* job[c]: the state of c's job
  busy,            \* jobs whose worker process is alive
  requested,       \* _SupervisionProgress.requested
  observed,        \* _SupervisionProgress.observed
  writer,          \* the coordinator inside its write transaction, or NoOne
  copies,          \* processes with an open copy of the locked descriptor
  at,              \* where each caller is in ensure_supervisor
  generation,      \* the generation it waits for
  phase,           \* where each coordinator process is
  seen,            \* history: jobs some committed poll saw since their admission
  acked,           \* history: callers told that their work was observed
  abandoned,       \* history: jobs that were queued when something failed
  faults           \* history: how much failed

jobVars  == <<job, busy>>
progress == <<requested, observed>>
history  == <<seen, acked, abandoned, faults>>
vars == <<jobVars, progress, writer, copies, at, generation, phase, history>>

-----------------------------------------------------------------------------
Queued == {c \in Callers : job[c] = "queued"}
Alive  == {s \in Coordinators : phase[s] # "none"}

TypeOK ==
  /\ job \in [Callers -> {"none", "queued", "running", "done"}]
  /\ busy \subseteq Callers
  /\ requested \in 0..MaxGeneration /\ observed \in 0..requested
  /\ writer \in Coordinators \cup {NoOne}
  /\ copies \subseteq Callers \cup Coordinators
  /\ at \in [Callers -> {"idle", "admitted", "waiting", "looked", "holding", "spawned"}]
  /\ generation \in [Callers -> 0..MaxGeneration]
  /\ phase \in [Coordinators -> {"none", "polling", "open", "closed"}]
  /\ seen \subseteq Callers /\ acked \subseteq Callers /\ abandoned \subseteq Callers
  /\ faults \in 0..MaxFaults

Init ==
  /\ job = [c \in Callers |-> "none"] /\ busy = {}
  /\ requested = 0 /\ observed = 0
  /\ writer = NoOne /\ copies = {}
  /\ at = [c \in Callers |-> "idle"]
  /\ generation = [c \in Callers |-> 0]
  /\ phase = [s \in Coordinators |-> "none"]
  /\ seen = {} /\ acked = {} /\ abandoned = {} /\ faults = 0

Unlocked == writer = NoOne

-----------------------------------------------------------------------------
(* The callers.                                                            *)

\* execute or resume commits a queued job, then calls _start.
Admit(c) ==
  /\ at[c] = "idle"
  /\ Unlocked
  /\ job[c] \in {"none", "done"} /\ c \notin busy
  /\ job' = [job EXCEPT ![c] = "queued"]
  /\ at' = [at EXCEPT ![c] = "admitted"]
  /\ seen' = seen \ {c} /\ acked' = acked \ {c} /\ abandoned' = abandoned \ {c}
  /\ UNCHANGED <<busy, progress, writer, copies, generation, phase, faults>>

\* The same request again, after a timeout or the death of the caller.
Retry(c) ==
  /\ at[c] = "idle"
  /\ Unlocked
  /\ job[c] = "queued"
  /\ at' = [at EXCEPT ![c] = "admitted"]
  /\ acked' = acked \ {c}
  /\ UNCHANGED <<jobVars, progress, writer, copies, generation, phase, seen, abandoned,
                 faults>>

Cancel(c) ==
  /\ Unlocked
  /\ job[c] \in {"queued", "running"}
  /\ job' = [job EXCEPT ![c] = "done"]
  /\ UNCHANGED <<busy, progress, writer, copies, at, generation, phase, history>>

\* Mutant: the generation on record is waited for, not a new one.
RequestReusing(c) ==
  /\ at[c] = "admitted"
  /\ Unlocked
  /\ \/ /\ Queued = {} \/ requested = MaxGeneration
        /\ at' = [at EXCEPT ![c] = "idle"]
        /\ abandoned' = abandoned \cup ({c} \cap Queued)
        /\ UNCHANGED <<requested, generation>>
     \/ /\ Queued # {} /\ requested < MaxGeneration
        /\ requested' = requested
        /\ generation' = [generation EXCEPT ![c] = requested]
        /\ at' = [at EXCEPT ![c] = "waiting"]
        /\ UNCHANGED abandoned
  /\ UNCHANGED <<jobVars, observed, writer, copies, phase, seen, acked, faults>>

\* _request_observation: nothing to wait for without queued work; the last
\* generation is refused rather than used twice.
Request(c) ==
  /\ at[c] = "admitted"
  /\ Unlocked
  /\ \/ /\ Queued = {} \/ requested = MaxGeneration
        /\ at' = [at EXCEPT ![c] = "idle"]
        /\ abandoned' = abandoned \cup ({c} \cap Queued)
        /\ UNCHANGED <<requested, generation>>
     \/ /\ Queued # {} /\ requested < MaxGeneration
        /\ requested' = requested + 1
        /\ generation' = [generation EXCEPT ![c] = requested + 1]
        /\ at' = [at EXCEPT ![c] = "waiting"]
        /\ UNCHANGED abandoned
  /\ UNCHANGED <<jobVars, observed, writer, copies, phase, seen, acked, faults>>

\* _observed, on a snapshot: acknowledged, or another look at the lock.
Look(c) ==
  /\ at[c] = "waiting"
  /\ \/ /\ observed >= generation[c]
        /\ at' = [at EXCEPT ![c] = "idle"]
        /\ generation' = [generation EXCEPT ![c] = 0]
        /\ acked' = acked \cup {c}
     \/ /\ observed < generation[c]
        /\ at' = [at EXCEPT ![c] = "looked"]
        /\ UNCHANGED <<generation, acked>>
  /\ UNCHANGED <<jobVars, progress, writer, copies, phase, seen, abandoned, faults>>

\* Mutant: a busy lock is taken for a coordinator that will see the work.
TryLockTrusting(c) ==
  /\ at[c] = "looked"
  /\ \/ /\ copies = {}
        /\ copies' = {c}
        /\ at' = [at EXCEPT ![c] = "holding"]
     \/ /\ copies # {}
        /\ at' = [at EXCEPT ![c] = "idle"]
        /\ UNCHANGED copies
  /\ UNCHANGED <<jobVars, progress, writer, generation, phase, history>>

\* baseline_lock: free only when the last copy of its descriptor is closed.
TryLock(c) ==
  /\ at[c] = "looked"
  /\ \/ /\ copies = {}
        /\ copies' = {c}
        /\ at' = [at EXCEPT ![c] = "holding"]
     \/ /\ copies # {}
        /\ at' = [at EXCEPT ![c] = "waiting"]
        /\ UNCHANGED copies
  /\ UNCHANGED <<jobVars, progress, writer, generation, phase, history>>

\* _spawn: the child inherits a copy.
Spawn(c, s) ==
  /\ at[c] = "holding"
  /\ phase[s] = "none"
  /\ phase' = [phase EXCEPT ![s] = "polling"]
  /\ copies' = copies \cup {s}
  /\ at' = [at EXCEPT ![c] = "spawned"]
  /\ UNCHANGED <<jobVars, progress, writer, generation, history>>

\* Mutant: the parent unlocks as it leaves, and the child's copy with it.
CloseCopyUnlocking(c) ==
  /\ at[c] = "spawned"
  /\ copies' = {}
  /\ at' = [at EXCEPT ![c] = "waiting"]
  /\ UNCHANGED <<jobVars, progress, writer, generation, phase, history>>

\* The parent leaves the handoff context: its own copy closes.
CloseCopy(c) ==
  /\ at[c] = "spawned"
  /\ copies' = copies \ {c}
  /\ at' = [at EXCEPT ![c] = "waiting"]
  /\ UNCHANGED <<jobVars, progress, writer, generation, phase, history>>

Fail == faults < MaxFaults /\ faults' = faults + 1

\* The deadline passes, the spawn fails or the caller dies.
GiveUp(c) ==
  /\ at[c] # "idle"
  /\ Fail
  /\ at' = [at EXCEPT ![c] = "idle"]
  /\ generation' = [generation EXCEPT ![c] = 0]
  /\ copies' = copies \ {c}
  /\ abandoned' = abandoned \cup Queued
  /\ UNCHANGED <<jobVars, progress, writer, phase, seen, acked>>

-----------------------------------------------------------------------------
(* The coordinators.                                                       *)

Open(s) ==
  /\ phase[s] = "polling"
  /\ Unlocked
  /\ writer' = s
  /\ phase' = [phase EXCEPT ![s] = "open"]
  /\ UNCHANGED <<jobVars, progress, copies, at, generation, history>>

\* Claims of one poll: in some order, until the work or the slots run out.
Claims ==
  {S \in SUBSET (Queued \ busy) :
     /\ Cardinality(busy \cup S) <= MaxRunning \/ S = {}
     /\ S = Queued \ busy \/ Cardinality(busy \cup S) >= MaxRunning}

\* The pending test reads the list of jobs the poll began with.
Pending == busy # {} \/ Queued # {}

Observe ==
  /\ observed' = requested
  /\ writer' = NoOne
  /\ seen' = {c \in Callers : job[c] # "none"}

\* A poll that goes on: jobs with a dead worker are interrupted, queued ones
\* claimed and their workers spawned.
Commit(s) ==
  /\ phase[s] = "open"
  /\ Pending
  /\ \E S \in Claims :
       /\ busy' = busy \cup S
       /\ job' = [c \in Callers |->
                    IF c \in S THEN "running"
                    ELSE IF job[c] = "running" /\ c \notin busy THEN "done"
                    ELSE job[c]]
  /\ Observe
  /\ abandoned' = {}
  /\ phase' = [phase EXCEPT ![s] = "polling"]
  /\ UNCHANGED <<requested, copies, at, generation, acked, faults>>

\* Nothing is queued and nobody works: the descriptor closes while admission is
\* still excluded ...
Close(s) ==
  /\ phase[s] = "open"
  /\ ~Pending
  /\ copies' = copies \ {s}
  /\ phase' = [phase EXCEPT ![s] = "closed"]
  /\ UNCHANGED <<jobVars, progress, writer, at, generation, history>>

\* ... and the last poll commits.
Retire(s) ==
  /\ phase[s] = "closed"
  /\ job' = [c \in Callers |-> IF job[c] = "running" THEN "done" ELSE job[c]]
  /\ Observe
  /\ phase' = [phase EXCEPT ![s] = "none"]
  /\ UNCHANGED <<busy, requested, copies, at, generation, acked, abandoned, faults>>

\* Contention: the poll is rolled back and made again.  Workers it had already
\* spawned live on until they see that their claim was taken back.
Rollback(s) ==
  /\ phase[s] = "open"
  /\ Fail
  /\ \E S \in Claims : busy' = busy \cup S
  /\ writer' = NoOne
  /\ phase' = [phase EXCEPT ![s] = "polling"]
  /\ UNCHANGED <<job, progress, copies, at, generation, seen, acked, abandoned>>

\* A coordinator dies: its lock and its transaction die with it.
Die(s) ==
  /\ phase[s] # "none"
  /\ Fail
  /\ phase' = [phase EXCEPT ![s] = "none"]
  /\ copies' = copies \ {s}
  /\ writer' = IF writer = s THEN NoOne ELSE writer
  /\ abandoned' = abandoned \cup Queued
  /\ UNCHANGED <<jobVars, progress, at, generation, seen, acked>>

\* A worker ends: it recorded its result, or it had none to record.
WorkerEnds(c) ==
  /\ c \in busy
  /\ Unlocked
  /\ busy' = busy \ {c}
  /\ job' = [job EXCEPT ![c] = IF @ = "running" THEN "done" ELSE @]
  /\ UNCHANGED <<progress, writer, copies, at, generation, phase, history>>

-----------------------------------------------------------------------------
Ensure(c) ==
  \/ Request(c) \/ Look(c) \/ TryLock(c) \/ CloseCopy(c)
  \/ \E s \in Coordinators : Spawn(c, s)

Coordinate(s) == Open(s) \/ Commit(s) \/ Close(s) \/ Retire(s)

Next ==
  \/ \E c \in Callers :
       \/ Admit(c) \/ Retry(c) \/ Cancel(c) \/ Ensure(c) \/ GiveUp(c) \/ WorkerEnds(c)
  \/ \E s \in Coordinators : Coordinate(s) \/ Rollback(s) \/ Die(s)

Spec == Init /\ [][Next]_vars

\* The loops of ensure_supervisor and _supervise go on.  A coordinator leaves
\* 50 ms between its transactions and a caller's BEGIN waits up to a second:
\* strong fairness for the caller.
Fairness ==
  /\ \A c \in Callers : SF_vars(Ensure(c))
  /\ \A s \in Coordinators : WF_vars(Coordinate(s))

FairSpec == Spec /\ Fairness
-----------------------------------------------------------------------------
(* Properties.                                                             *)

\* No queued job is ever stranded: unless something failed, a coordinator will
\* poll again or a caller is still on its way to one, however the retirement of
\* a coordinator and new admissions interleave.
QueuedIsWatched ==
  \A c \in Queued \ abandoned :
    \/ \E s \in Alive : phase[s] # "closed"
    \/ \E d \in Callers : at[d] # "idle"

\* At most one process coordinates: the lock a coordinator inherited is not
\* given up by the parent that took it.
SingleCoordinator == \A r, s \in Alive : phase[r] # "closed" /\ phase[s] # "closed" => r = s

\* An acknowledged caller's job has been seen by a poll that committed after its
\* admission, not merely by a process that held the lock.
AckedIsSeen == acked \subseteq seen

\* A queued job is seen by a committed poll, unless something failed meanwhile.
\* (That it is then claimed is QueuedServed of MCWorkflowLive.)
QueuedSeen ==
  \A c \in Callers : job[c] = "queued" ~> job[c] # "queued" \/ c \in seen \cup abandoned
=============================================================================
