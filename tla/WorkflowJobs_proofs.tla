------------------------- MODULE WorkflowJobs_proofs -------------------------
(***************************************************************************)
(* Theorems about WorkflowJobs, for any number of jobs, workers and        *)
(* attempts.                                                               *)
(***************************************************************************)
EXTENDS WorkflowJobs, FoldFacts, FiniteSetTheorems, TLAPS

(***************************************************************************)
(* Shape: types, a slot serves a job exactly while it has a process, and   *)
(* the coordinator's cursor stands on a row while its transaction is open. *)
(***************************************************************************)
SlotsMatch == \A w \in Workers : serves[w] = NoJob <=> pc[w] = "free"
CursorStands == supervisor = "open" => cursor >= 1

Shape == TypeOK /\ SlotsMatch /\ CursorStands

\* A row the cursor stands on is a job's.
LEMMA CursorJob ==
  ASSUME Shape, supervisor = "open", cursor <= Len(admitted)
  PROVE  admitted[cursor] \in Jobs
<1>1. cursor \in 1..Len(admitted)
  BY DEF Shape, CursorStands, TypeOK
<1> QED
  BY <1>1 DEF Shape, TypeOK

\* A process serves a job.
LEMMA ServedJob ==
  ASSUME Shape, NEW w \in Workers, pc[w] # "free"
  PROVE  serves[w] \in Jobs
BY DEF Shape, SlotsMatch, TypeOK

LEMMA ShapeInit == Init => Shape
<1> SUFFICES ASSUME Init PROVE Shape
  OBVIOUS
<1>1. TypeOK
  BY LimitsAssumption DEF Init, TypeOK, States, Stages, Phases, TERMINAL
<1>2. SlotsMatch /\ CursorStands
  BY DEF Init, SlotsMatch, CursorStands
<1> QED BY <1>1, <1>2 DEF Shape

\* The callers' operations and the faults outside workers.
LEMMA ShapeCaller ==
  ASSUME Shape, Caller
  PROVE  Shape'
<1> USE DEF Shape, TypeOK, SlotsMatch, CursorStands, workerVars, txVars, fileVars, tableVars,
            States, Stages, TERMINAL
<1>1. ASSUME NEW j \in Jobs, NEW p \in Plans, Execute(j, p) PROVE Shape'
  <2>1. admitted' \in Seq(Jobs)
    BY <1>1 DEF Execute
  <2> QED BY <1>1, <2>1 DEF Execute
<1>2. ASSUME NEW j \in Jobs, Status(j) PROVE Shape'
  BY <1>2 DEF Status
<1>3. ASSUME NEW j \in Jobs, Cancel(j) PROVE Shape'
  BY <1>3 DEF Cancel
<1>4. ASSUME NEW j \in Jobs, Resume(j) PROVE Shape'
  BY <1>4 DEF Resume, Requeue
<1>5. ASSUME NEW j \in Jobs, Evaluate(j) PROVE Shape'
  BY <1>5 DEF Evaluate, Requeue
<1>6. ASSUME NEW j \in Jobs, EvaluateAborted(j) PROVE Shape'
  BY <1>6 DEF EvaluateAborted
<1>7. ASSUME NEW j \in Jobs, RemoveDirectory(j) PROVE Shape'
  BY <1>7 DEF RemoveDirectory
<1>8. ASSUME NEW ripe \in SUBSET Jobs, Cleanup(ripe) PROVE Shape'
  BY <1>8 DEF Cleanup
<1> QED
  BY <1>1, <1>2, <1>3, <1>4, <1>5, <1>6, <1>7, <1>8 DEF Caller

\* The coordinator, its crashes and rollbacks.
LEMMA ShapeCoordinator ==
  ASSUME Shape, Coordinator \/ ScheduleRollback \/ SupervisorCrash \/ CleanerCrash
  PROVE  Shape'
<1> USE DEF Shape, TypeOK, SlotsMatch, CursorStands, workerVars, txVars, fileVars, tableVars
<1>1. CASE StartSupervisor
  BY <1>1 DEF StartSupervisor
<1>2. CASE ScheduleBegin
  BY <1>2 DEF ScheduleBegin
<1>3. CASE ScheduleVisit
  <2> DEFINE j == admitted[cursor]
  <2>1. j \in Jobs
    BY <1>3, CursorJob DEF ScheduleVisit
  <2>2. CASE Skip(j)
    BY <1>3, <2>2 DEF ScheduleVisit, Skip
  <2>3. CASE Claim(j)
    <3>1. CASE UNCHANGED workerVars /\ UNCHANGED claimed /\ refused' = refused \cup {j}
      BY <1>3, <2>1, <3>1 DEF ScheduleVisit
    <3>2. CASE claimed' = claimed \cup {j} /\ Spawn(j) /\ UNCHANGED refused
      BY <1>3, <2>1, <3>2, JobsAssumption DEF ScheduleVisit, Spawn, Phases
    <3> QED BY <2>3, <3>1, <3>2 DEF Claim
  <2> QED BY <1>3, <2>2, <2>3 DEF ScheduleVisit
<1>4. CASE ScheduleCommit
  <2>1. state' \in [Jobs -> States]
    BY <1>4 DEF ScheduleCommit, States, TERMINAL
  <2>2. invocations' \in [Jobs -> Nat]
    BY <1>4 DEF ScheduleCommit
  <2> QED BY <1>4, <2>1, <2>2 DEF ScheduleCommit, CloseTransaction
<1>5. CASE ScheduleRollback
  BY <1>5 DEF ScheduleRollback, CloseTransaction
<1>6. CASE SupervisorCrash
  BY <1>6 DEF SupervisorCrash
<1>7. CASE CleanerCrash
  BY <1>7 DEF CleanerCrash
<1> QED
  BY <1>1, <1>2, <1>3, <1>4, <1>5, <1>6, <1>7 DEF Coordinator

\* The workers.
LEMMA ShapeWorker ==
  ASSUME Shape, NEW w \in Workers, Worker(w) \/ WorkerCrash(w)
  PROVE  Shape'
<1> DEFINE j == serves[w]
<1> USE DEF Shape, TypeOK, SlotsMatch, CursorStands, workerVars, txVars, fileVars, tableVars
<1>1. ASSUME Exit(w), UNCHANGED <<tableVars, fileVars, supervisor, txVars>> PROVE Shape'
  BY <1>1, JobsAssumption DEF Exit, Phases
<1>2. ASSUME pc[w] # "free", BeginWork(w), UNCHANGED <<tableVars, supervisor, txVars>>
      PROVE  Shape'
  <2>1. j \in Jobs
    BY <1>2, ServedJob
  <2> QED BY <1>2, <2>1 DEF BeginWork, Phases
<1>3. ASSUME pc[w] # "free", NEW to \in States, Transition(w, to),
             bytes' = bytes /\ doomed' = doomed /\ frozen' = frozen,
             complete' \subseteq Jobs
      PROVE  Shape'
  BY <1>3 DEF Transition, Phases
<1>4. CASE WorkerRead(w)
  <2>1. CASE pc' = [pc EXCEPT ![w] = "barrier"] /\ UNCHANGED <<serves, claim, started, fileVars>>
    BY <1>4, <2>1 DEF WorkerRead, Phases
  <2> QED BY <1>1, <1>2, <1>4, <2>1 DEF WorkerRead
<1>5. CASE WorkerBarrier(w)
  BY <1>1, <1>2, <1>5 DEF WorkerBarrier
<1>6. CASE WorkerAwait(w)
  BY <1>3, <1>6 DEF WorkerAwait, States, TERMINAL
<1>7. CASE WorkerPublish(w)
  BY <1>3, <1>7, ServedJob DEF WorkerPublish, States, TERMINAL
<1>8. CASE WorkerPublishAborted(w)
  <2>1. j \in Jobs
    BY <1>8, ServedJob DEF WorkerPublishAborted
  <2> QED BY <1>8, <2>1 DEF WorkerPublishAborted, Phases
<1>9. CASE WorkerRaise(w)
  BY <1>9 DEF WorkerRaise, Phases
<1>10. CASE WorkerRecordFailure(w)
  <2>1. CASE \E to \in {"failed", "interrupted"} : Transition(w, to)
    BY <1>3, <1>10, <2>1 DEF WorkerRecordFailure, States, TERMINAL
  <2>2. CASE pc' = [pc EXCEPT ![w] = "exiting"] /\
             UNCHANGED <<tableVars, supervisor, txVars, serves, claim, started>>
    BY <1>10, <2>2 DEF WorkerRecordFailure, Phases
  <2> QED BY <1>10, <2>1, <2>2 DEF WorkerRecordFailure
<1>11. CASE GuardCancelled(w)
  BY <1>1, <1>11 DEF GuardCancelled
<1>12. CASE GuardRefused(w)
  <2>1. state' \in [Jobs -> States]
    BY <1>12 DEF GuardRefused, States, TERMINAL
  <2> QED BY <1>12, <2>1, JobsAssumption DEF GuardRefused, Exit, Phases
<1>13. CASE WorkerExit(w)
  BY <1>1, <1>13 DEF WorkerExit
<1>14. CASE WorkerCrash(w)
  BY <1>1, <1>14 DEF WorkerCrash
<1> QED
  BY <1>4, <1>5, <1>6, <1>7, <1>8, <1>9, <1>10, <1>11, <1>12, <1>13, <1>14 DEF Worker

LEMMA ShapeNext == Shape /\ [Next]_vars => Shape'
<1> SUFFICES ASSUME Shape, [Next]_vars PROVE Shape'
  OBVIOUS
<1>1. CASE UNCHANGED vars
  BY <1>1 DEF vars, Shape, TypeOK, SlotsMatch, CursorStands, workerVars, txVars, fileVars,
              tableVars
<1> QED
  BY <1>1, ShapeCaller, ShapeCoordinator, ShapeWorker DEF Next, Fault

LEMMA ShapeHolds == Spec => []Shape
BY ShapeInit, ShapeNext, PTL DEF Spec

\* Every reachable state has the types the module declares.
THEOREM TypeCorrect == Spec => []TypeOK
<1>1. Shape => TypeOK
  BY DEF Shape
<1> QED BY <1>1, ShapeHolds, PTL

(***************************************************************************)
(* Table: a job is admitted once, and an open transaction only ever claims *)
(* or refuses queued rows its cursor has passed; a claimed job has an      *)
(* invocation left and a refused one has none.                             *)
(***************************************************************************)
AdmittedOnce ==
  \A i, k \in 1..Len(admitted) : admitted[i] = admitted[k] => i = k
AdmittedRows == \A i \in 1..Len(admitted) : state[admitted[i]] # "absent"
ClosedEmpty == supervisor # "open" => active = {} /\ claimed = {} /\ refused = {}
Passed(j) == \E i \in 1..Len(admitted) : i < cursor /\ admitted[i] = j
TakenQueued == \A j \in claimed \cup refused : state[j] = "queued" /\ Passed(j)
TakenFunds ==
  /\ \A j \in claimed : invocations[j] < MaxAttempts
  /\ \A j \in refused : invocations[j] >= MaxAttempts

Table == AdmittedOnce /\ AdmittedRows /\ ClosedEmpty /\ TakenQueued /\ TakenFunds

LEMMA TableInit == Init => Table
BY DEF Init, Table, AdmittedOnce, AdmittedRows, ClosedEmpty, TakenQueued, TakenFunds

LEMMA TableCaller ==
  ASSUME Shape, Table, Caller
  PROVE  Table'
<1> USE DEF Table, Shape, TypeOK, AdmittedOnce, AdmittedRows, ClosedEmpty, TakenQueued,
            TakenFunds, Passed, Unlocked, workerVars, txVars, fileVars, tableVars
<1>1. ASSUME NEW j \in Jobs, NEW p \in Plans, Execute(j, p) PROVE Table'
  <2>1. /\ Len(admitted') = Len(admitted) + 1
        /\ \A i \in 1..Len(admitted) : admitted'[i] = admitted[i]
        /\ admitted'[Len(admitted) + 1] = j
    BY <1>1 DEF Execute
  <2>2. \A i \in 1..Len(admitted) : admitted[i] # j /\ admitted[i] \in Jobs
    BY <1>1 DEF Execute
  <2>3. AdmittedOnce'
    BY <1>1, <2>1, <2>2 DEF Execute
  <2>4. AdmittedRows'
    BY <1>1, <2>1, <2>2 DEF Execute
  <2> QED BY <1>1, <2>3, <2>4 DEF Execute
<1>2. ASSUME NEW j \in Jobs, Status(j) PROVE Table'
  BY <1>2 DEF Status
<1>3. ASSUME NEW j \in Jobs, Cancel(j) PROVE Table'
  BY <1>3 DEF Cancel
<1>4. ASSUME NEW j \in Jobs, Resume(j) PROVE Table'
  BY <1>4 DEF Resume, Requeue
<1>5. ASSUME NEW j \in Jobs, Evaluate(j) PROVE Table'
  BY <1>5 DEF Evaluate, Requeue, Freezable
<1>6. ASSUME NEW j \in Jobs, EvaluateAborted(j) PROVE Table'
  BY <1>6 DEF EvaluateAborted
<1>7. ASSUME NEW j \in Jobs, RemoveDirectory(j) PROVE Table'
  BY <1>7 DEF RemoveDirectory
<1>8. ASSUME NEW ripe \in SUBSET Jobs, Cleanup(ripe) PROVE Table'
  BY <1>8 DEF Cleanup
<1> QED
  BY <1>1, <1>2, <1>3, <1>4, <1>5, <1>6, <1>7, <1>8 DEF Caller

LEMMA TableCoordinator ==
  ASSUME Shape, Table, Coordinator \/ ScheduleRollback \/ SupervisorCrash \/ CleanerCrash
  PROVE  Table'
<1> USE DEF Table, Shape, TypeOK, AdmittedOnce, AdmittedRows, ClosedEmpty, TakenQueued,
            TakenFunds, Passed, workerVars, txVars, fileVars, tableVars
<1>1. CASE StartSupervisor
  BY <1>1 DEF StartSupervisor
<1>2. CASE ScheduleBegin
  BY <1>2 DEF ScheduleBegin
<1>3. CASE ScheduleVisit
  <2> DEFINE j == admitted[cursor]
  <2>1. /\ j \in Jobs
        /\ cursor \in 1..Len(admitted)
        /\ UNCHANGED <<tableVars, fileVars, supervisor, active>>
        /\ cursor' = cursor + 1
    BY <1>3, CursorJob DEF ScheduleVisit, CursorStands
  <2>2. CASE Skip(j)
    BY <2>1, <2>2 DEF Skip
  <2>3. CASE Claim(j)
    BY <2>1, <2>3, LimitsAssumption, <1>3 DEF Claim, ScheduleVisit
  <2> QED BY <1>3, <2>2, <2>3 DEF ScheduleVisit
<1>4. CASE ScheduleCommit
  BY <1>4 DEF ScheduleCommit, CloseTransaction
<1>5. CASE ScheduleRollback
  BY <1>5 DEF ScheduleRollback, CloseTransaction
<1>6. CASE SupervisorCrash
  BY <1>6 DEF SupervisorCrash
<1>7. CASE CleanerCrash
  BY <1>7 DEF CleanerCrash
<1> QED
  BY <1>1, <1>2, <1>3, <1>4, <1>5, <1>6, <1>7 DEF Coordinator

\* A worker leaves the rows alone, or changes the state of one that has one.
LEMMA TableWorker ==
  ASSUME Shape, Table, NEW w \in Workers, Worker(w) \/ WorkerCrash(w)
  PROVE  Table'
<1> DEFINE j == serves[w]
<1> USE DEF Table, Shape, TypeOK, AdmittedOnce, AdmittedRows, ClosedEmpty, TakenQueued,
            TakenFunds, Passed, Unlocked, workerVars, txVars, fileVars, tableVars
<1>1. ASSUME UNCHANGED <<tableVars, supervisor, txVars>> PROVE Table'
  BY <1>1
<1>2. ASSUME NEW to \in States, to # "absent", Transition(w, to) PROVE Table'
  BY <1>2 DEF Transition, States
<1>3. CASE WorkerRead(w)
  BY <1>1, <1>3 DEF WorkerRead
<1>4. CASE WorkerBarrier(w)
  BY <1>1, <1>4 DEF WorkerBarrier
<1>5. CASE WorkerAwait(w) \/ WorkerPublish(w)
  BY <1>2, <1>5 DEF WorkerAwait, WorkerPublish, States, TERMINAL
<1>6. CASE WorkerPublishAborted(w)
  BY <1>1, <1>6 DEF WorkerPublishAborted
<1>7. CASE WorkerRaise(w)
  BY <1>1, <1>7 DEF WorkerRaise
<1>8. CASE WorkerRecordFailure(w)
  BY <1>1, <1>2, <1>8 DEF WorkerRecordFailure, States, TERMINAL
<1>9. CASE GuardCancelled(w)
  BY <1>1, <1>9 DEF GuardCancelled
<1>10. CASE GuardRefused(w)
  BY <1>10 DEF GuardRefused
<1>11. CASE WorkerExit(w) \/ WorkerCrash(w)
  BY <1>1, <1>11 DEF WorkerExit, WorkerCrash
<1> QED
  BY <1>3, <1>4, <1>5, <1>6, <1>7, <1>8, <1>9, <1>10, <1>11 DEF Worker

LEMMA TableNext == Shape /\ Table /\ [Next]_vars => Table'
<1> SUFFICES ASSUME Shape, Table, [Next]_vars PROVE Table'
  OBVIOUS
<1>1. CASE UNCHANGED vars
  BY <1>1 DEF vars, Table, AdmittedOnce, AdmittedRows, ClosedEmpty, TakenQueued, TakenFunds,
              Passed, workerVars, txVars, fileVars, tableVars
<1> QED
  BY <1>1, TableCaller, TableCoordinator, TableWorker DEF Next, Fault

LEMMA TableHolds == Spec => []Table
BY TableInit, TableNext, ShapeHolds, PTL DEF Spec

(***************************************************************************)
(* Ownership: a job has one process; one that has not begun its work still *)
(* has an unspent invocation, and one that has begun it was started by the *)
(* latest claim.                                                           *)
(***************************************************************************)
Waiting == {"spawned", "barrier"}

ClaimedWaiting ==
  \A w \in Workers : pc[w] # "free" /\ serves[w] \in claimed => pc[w] \in Waiting
WaitingUnspent ==
  \A w \in Workers :
    pc[w] \in Waiting /\ state[serves[w]] = "running" =>
      started[serves[w]] < invocations[serves[w]]

Ownership ==
  /\ ExclusiveOwnership /\ WorkIsAccounted /\ FreshWorker
  /\ ClaimedWaiting /\ WaitingUnspent

LEMMA OwnershipInit == Init => Ownership
BY LimitsAssumption DEF Init, Ownership, ExclusiveOwnership, Live, WorkIsAccounted, FreshWorker,
   ClaimedWaiting, WaitingUnspent, Waiting

\* A step that leaves the processes and the invocations alone, starts nothing
\* and makes no job running, keeps all of it.
LEMMA OwnershipKept ==
  ASSUME Shape, Ownership,
         UNCHANGED <<invocations, workerVars, claimed>>,
         \A j \in Jobs : state'[j] = "running" => state[j] = "running"
  PROVE  Ownership'
BY DEF Shape, TypeOK, SlotsMatch, Ownership, ExclusiveOwnership, Live, WorkIsAccounted,
   FreshWorker, ClaimedWaiting, WaitingUnspent, Waiting, workerVars

LEMMA OwnershipCaller ==
  ASSUME Shape, Ownership, Caller
  PROVE  Ownership'
<1> USE DEF Shape, TypeOK, workerVars, txVars, fileVars, tableVars
<1>1. ASSUME NEW j \in Jobs, NEW p \in Plans, Execute(j, p) PROVE Ownership'
  BY <1>1, OwnershipKept DEF Execute
<1>2. ASSUME NEW j \in Jobs, Status(j) \/ Cancel(j) PROVE Ownership'
  BY <1>2, OwnershipKept DEF Status, Cancel
<1>3. ASSUME NEW j \in Jobs, Resume(j) \/ Evaluate(j) PROVE Ownership'
  BY <1>3, OwnershipKept DEF Resume, Evaluate, Requeue
<1>4. ASSUME NEW j \in Jobs, EvaluateAborted(j) \/ RemoveDirectory(j) PROVE Ownership'
  BY <1>4, OwnershipKept DEF EvaluateAborted, RemoveDirectory
<1>5. ASSUME NEW ripe \in SUBSET Jobs, Cleanup(ripe) PROVE Ownership'
  BY <1>5, OwnershipKept DEF Cleanup
<1> QED
  BY <1>1, <1>2, <1>3, <1>4, <1>5 DEF Caller

LEMMA OwnershipCoordinator ==
  ASSUME Shape, Table, Ownership,
         Coordinator \/ ScheduleRollback \/ SupervisorCrash \/ CleanerCrash
  PROVE  Ownership'
<1> USE DEF workerVars, txVars, fileVars, tableVars
<1>1. CASE StartSupervisor \/ ScheduleBegin \/ SupervisorCrash \/ CleanerCrash
  BY <1>1, OwnershipKept DEF StartSupervisor, ScheduleBegin, SupervisorCrash, CleanerCrash
<1>2. CASE ScheduleVisit
  <2> DEFINE j == admitted[cursor]
  <2>1. j \in Jobs /\ UNCHANGED tableVars
    BY <1>2, CursorJob DEF ScheduleVisit
  <2>2. CASE UNCHANGED <<claimed, workerVars>>
    BY <2>1, <2>2, OwnershipKept
  <2>3. CASE /\ claimed' = claimed \cup {j} /\ Spawn(j)
             /\ state[j] = "queued" /\ ~Held(j)
    BY <2>1, <2>3 DEF Spawn, Held, Shape, TypeOK, SlotsMatch, Ownership, ExclusiveOwnership,
       Live, WorkIsAccounted, FreshWorker, ClaimedWaiting, WaitingUnspent, Waiting
  <2> QED BY <1>2, <2>2, <2>3 DEF ScheduleVisit, Skip, Claim
<1>3. CASE ScheduleCommit
  <2> USE DEF Shape, TypeOK, SlotsMatch, Ownership
  <2>1. /\ \A k \in Jobs : invocations'[k] = IF k \in claimed THEN invocations[k] + 1
                                                              ELSE invocations[k]
        /\ \A k \in Jobs : state'[k] = "running" => k \in claimed \/ state[k] = "running"
        /\ UNCHANGED workerVars
        /\ claimed' = {}
    BY <1>3 DEF ScheduleCommit, CloseTransaction, Table, TakenQueued
  <2>2. \A k \in claimed : state[k] = "queued" /\ invocations[k] < MaxAttempts
    BY <1>3 DEF ScheduleCommit, Table, TakenQueued, TakenFunds
  <2>3. ExclusiveOwnership'
    BY <2>1 DEF ExclusiveOwnership, Live
  <2>4. WorkIsAccounted'
    <3> SUFFICES ASSUME NEW k \in Jobs
                 PROVE  started'[k] <= invocations'[k] /\ invocations'[k] <= MaxAttempts
      BY DEF WorkIsAccounted
    <3>1. started'[k] = started[k]
      BY <2>1
    <3>2. started[k] \in Nat /\ invocations[k] \in Nat /\ MaxAttempts \in Nat
      BY LimitsAssumption
    <3>3. started[k] <= invocations[k] /\ invocations[k] <= MaxAttempts
      BY DEF WorkIsAccounted
    <3>4. CASE k \in claimed
      BY <2>1, <2>2, <3>1, <3>2, <3>3, <3>4
    <3>5. CASE k \notin claimed
      BY <2>1, <3>1, <3>2, <3>3, <3>5
    <3> QED BY <3>4, <3>5
  <2>5. FreshWorker'
    BY <2>1, <2>2, ZenonT(40) DEF FreshWorker, ClaimedWaiting, Waiting
  <2>6. ClaimedWaiting'
    BY <2>1 DEF ClaimedWaiting
  <2>7. WaitingUnspent'
    <3> SUFFICES ASSUME NEW v \in Workers, pc[v] \in Waiting, state'[serves[v]] = "running"
                 PROVE  started[serves[v]] < invocations'[serves[v]]
      BY <2>1 DEF WaitingUnspent
    <3> DEFINE k == serves[v]
    <3>1. k \in Jobs
      BY ServedJob DEF Waiting
    <3>2. started[k] \in Nat /\ invocations[k] \in Nat /\ started[k] <= invocations[k]
      BY <3>1 DEF WorkIsAccounted
    <3>3. CASE k \in claimed
      BY <2>1, <3>1, <3>2, <3>3
    <3>4. CASE k \notin claimed
      BY <2>1, <3>1, <3>4 DEF WaitingUnspent
    <3> QED BY <3>3, <3>4
  <2> QED BY <2>3, <2>4, <2>5, <2>6, <2>7
<1>4. CASE ScheduleRollback
  BY <1>4 DEF ScheduleRollback, CloseTransaction, Shape, TypeOK, SlotsMatch, Ownership,
     ExclusiveOwnership, Live, WorkIsAccounted, FreshWorker, ClaimedWaiting, WaitingUnspent,
     Waiting
<1> QED
  BY <1>1, <1>2, <1>3, <1>4 DEF Coordinator

\* A worker begins its work only on a running job, so never on a claimed one.
LEMMA OwnershipWorker ==
  ASSUME Shape, Table, Ownership, NEW w \in Workers, Worker(w) \/ WorkerCrash(w)
  PROVE  Ownership'
<1> DEFINE j == serves[w]
<1> USE DEF Shape, TypeOK, SlotsMatch, workerVars, txVars, fileVars, tableVars,
            Ownership, ExclusiveOwnership, Live, WorkIsAccounted, FreshWorker, ClaimedWaiting,
            WaitingUnspent, Waiting
<1>1. ASSUME Exit(w), UNCHANGED <<invocations, claimed>>,
             \A k \in Jobs : state'[k] = "running" => state[k] = "running"
      PROVE  Ownership'
  BY <1>1 DEF Exit
<1>2. ASSUME pc[w] \in Waiting, state[j] = "running", BeginWork(w),
             UNCHANGED <<tableVars, supervisor, txVars>>
      PROVE  Ownership'
  <2>1. j \in Jobs
    BY <1>2, ServedJob
  <2>2. j \notin claimed
    BY <1>2 DEF Table, TakenQueued, ClosedEmpty
  <2> QED BY <1>2, <2>1, <2>2 DEF BeginWork
<1>3. ASSUME NEW to \in TERMINAL, pc[w] \notin Waiting, pc[w] # "free", Transition(w, to)
      PROVE  Ownership'
  BY <1>3 DEF Transition, TERMINAL
<1>4. ASSUME pc[w] \in {"working", "failing"}, NEW phase \in {"failing", "exiting"},
             pc' = [pc EXCEPT ![w] = phase], UNCHANGED <<tableVars, serves, claim, started, txVars>>
      PROVE  Ownership'
  BY <1>4
<1>5. CASE WorkerRead(w)
  <2>1. CASE pc' = [pc EXCEPT ![w] = "barrier"] /\ UNCHANGED <<serves, claim, started, fileVars>>
    BY <1>5, <2>1 DEF WorkerRead
  <2> QED BY <1>1, <1>2, <1>5, <2>1 DEF WorkerRead
<1>6. CASE WorkerBarrier(w)
  BY <1>1, <1>2, <1>6 DEF WorkerBarrier
<1>7. CASE WorkerAwait(w) \/ WorkerPublish(w)
  BY <1>3, <1>7 DEF WorkerAwait, WorkerPublish, TERMINAL
<1>8. CASE WorkerPublishAborted(w) \/ WorkerRaise(w)
  BY <1>4, <1>8 DEF WorkerPublishAborted, WorkerRaise
<1>9. CASE WorkerRecordFailure(w)
  <2>1. CASE \E to \in {"failed", "interrupted"} : Transition(w, to)
    BY <1>3, <1>9, <2>1 DEF WorkerRecordFailure, TERMINAL
  <2> QED BY <1>4, <1>9, <2>1 DEF WorkerRecordFailure
<1>10. CASE GuardCancelled(w) \/ WorkerExit(w) \/ WorkerCrash(w)
  BY <1>1, <1>10 DEF GuardCancelled, WorkerExit, WorkerCrash
<1>11. CASE GuardRefused(w)
  BY <1>1, <1>11 DEF GuardRefused
<1> QED
  BY <1>5, <1>6, <1>7, <1>8, <1>9, <1>10, <1>11 DEF Worker

LEMMA OwnershipNext == Shape /\ Table /\ Ownership /\ [Next]_vars => Ownership'
<1> SUFFICES ASSUME Shape, Table, Ownership, [Next]_vars PROVE Ownership'
  OBVIOUS
<1>1. CASE UNCHANGED vars
  BY <1>1, OwnershipKept DEF vars, tableVars, txVars
<1> QED
  BY <1>1, OwnershipCaller, OwnershipCoordinator, OwnershipWorker DEF Next, Fault

LEMMA OwnershipHolds == Spec => []Ownership
BY OwnershipInit, OwnershipNext, ShapeHolds, TableHolds, PTL DEF Spec

\* No job is ever served by two processes.
THEOREM OneProcessPerJob == Spec => []ExclusiveOwnership
<1>1. Ownership => ExclusiveOwnership
  BY DEF Ownership
<1> QED BY <1>1, OwnershipHolds, PTL

\* Native work starts at most once per committed claim, max_attempts in all.
THEOREM WorkAccounted == Spec => []WorkIsAccounted
<1>1. Ownership => WorkIsAccounted
  BY DEF Ownership
<1> QED BY <1>1, OwnershipHolds, PTL

\* Only the latest claim's process can still move a running job.
THEOREM NoStaleWorker == Spec => []FreshWorker
<1>1. Ownership => FreshWorker
  BY DEF Ownership
<1> QED BY <1>1, OwnershipHolds, PTL

(***************************************************************************)
(* Files: only expired jobs that nobody serves lose their directory, a     *)
(* process that works has one, and the handoff lasts as long as the job.   *)
(***************************************************************************)
ExpiredUnheld == \A j \in Jobs : state[j] = "expired" => ~Held(j)
DoomedExpired == \A j \in doomed : state[j] = "expired"
WorkHasDirectory ==
  \A w \in Workers : pc[w] \in {"working", "failing"} => serves[w] \in bytes
StageOfPlan ==
  \A j \in Jobs : state[j] # "absent" /\ plan[j].protected => stage[j] # "descriptive"
HandoffKept ==
  \A j \in Jobs : stage[j] = "evaluation" /\ state[j] # "expired" => j \in frozen

Files ==
  /\ ExpiredUnheld /\ DoomedExpired /\ WorkHasDirectory /\ StageOfPlan /\ HandoffKept
  /\ CompletedIsReadable

LEMMA FilesInit == Init => Files
BY DEF Init, Files, ExpiredUnheld, DoomedExpired, WorkHasDirectory, StageOfPlan, HandoffKept,
   CompletedIsReadable

LEMMA FilesCaller ==
  ASSUME Shape, Files, Caller
  PROVE  Files'
<1> USE DEF Shape, TypeOK, SlotsMatch, workerVars, txVars, fileVars, tableVars, TERMINAL,
            Files, ExpiredUnheld, DoomedExpired, WorkHasDirectory, StageOfPlan, HandoffKept,
            CompletedIsReadable, Held
<1>1. ASSUME NEW j \in Jobs, NEW p \in Plans, Execute(j, p) PROVE Files'
  BY <1>1, JobsAssumption DEF Execute
<1>2. ASSUME NEW j \in Jobs, Status(j) PROVE Files'
  BY <1>2 DEF Status
<1>3. ASSUME NEW j \in Jobs, Cancel(j) PROVE Files'
  BY <1>3 DEF Cancel
<1>4. ASSUME NEW j \in Jobs, Resume(j) PROVE Files'
  BY <1>4 DEF Resume, Requeue
<1>5. ASSUME NEW j \in Jobs, Evaluate(j) PROVE Files'
  BY <1>5 DEF Evaluate, Requeue, Freezable
<1>6. ASSUME NEW j \in Jobs, EvaluateAborted(j) PROVE Files'
  BY <1>6 DEF EvaluateAborted
<1>7. ASSUME NEW j \in Jobs, RemoveDirectory(j) PROVE Files'
  BY <1>7 DEF RemoveDirectory
<1>8. ASSUME NEW ripe \in SUBSET Jobs, Cleanup(ripe) PROVE Files'
  BY <1>8, ZenonT(40) DEF Cleanup
<1> QED
  BY <1>1, <1>2, <1>3, <1>4, <1>5, <1>6, <1>7, <1>8 DEF Caller

LEMMA FilesCoordinator ==
  ASSUME Shape, Table, Files, Coordinator \/ ScheduleRollback \/ SupervisorCrash \/ CleanerCrash
  PROVE  Files'
<1> USE DEF Shape, TypeOK, SlotsMatch, workerVars, txVars, fileVars, tableVars,
            Files, ExpiredUnheld, DoomedExpired, WorkHasDirectory, StageOfPlan, HandoffKept,
            CompletedIsReadable, Held
<1>1. CASE StartSupervisor \/ ScheduleBegin \/ SupervisorCrash
  BY <1>1 DEF StartSupervisor, ScheduleBegin, SupervisorCrash
<1>2. CASE ScheduleVisit
  <2> DEFINE j == admitted[cursor]
  <2>1. j \in Jobs /\ UNCHANGED <<tableVars, fileVars>>
    BY <1>2, CursorJob DEF ScheduleVisit
  <2>2. CASE UNCHANGED workerVars
    BY <2>1, <2>2
  <2>3. CASE Spawn(j) /\ state[j] = "queued"
    BY <2>1, <2>3 DEF Spawn
  <2> QED BY <1>2, <2>2, <2>3 DEF ScheduleVisit, Skip, Claim
<1>3. CASE ScheduleCommit
  <2>1. /\ UNCHANGED <<plan, stage, fileVars, workerVars>>
        /\ \A j \in Jobs : \/ state'[j] = state[j]
                           \/ state[j] \in {"queued", "running"} /\
                              state'[j] \in {"running", "failed", "interrupted"}
    BY <1>3 DEF ScheduleCommit, Table, TakenQueued
  <2> QED BY <2>1, ZenonT(40)
<1>4. CASE ScheduleRollback
  BY <1>4 DEF ScheduleRollback
<1>5. CASE CleanerCrash
  BY <1>5 DEF CleanerCrash
<1> QED
  BY <1>1, <1>2, <1>3, <1>4, <1>5 DEF Coordinator

LEMMA FilesExit ==
  ASSUME Shape, Files, NEW w \in Workers, Exit(w),
         plan' = plan, stage' = stage, UNCHANGED fileVars,
         \A k \in Jobs : state'[k] # state[k] => state[k] = "running" /\ state'[k] = "failed"
  PROVE  Files'
BY JobsAssumption, ZenonT(40) DEF Exit, Shape, TypeOK, SlotsMatch, fileVars, Files, ExpiredUnheld,
   DoomedExpired, WorkHasDirectory, StageOfPlan, HandoffKept, CompletedIsReadable, Held

LEMMA FilesWorker ==
  ASSUME Shape, Files, NEW w \in Workers, Worker(w) \/ WorkerCrash(w)
  PROVE  Files'
<1> DEFINE j == serves[w]
<1>1. ASSUME Exit(w), UNCHANGED <<tableVars, fileVars>> PROVE Files'
  BY <1>1, FilesExit DEF tableVars
<1>12. ASSUME GuardRefused(w) PROVE Files'
  <2>1. /\ Exit(w) /\ plan' = plan /\ stage' = stage /\ UNCHANGED fileVars
        /\ \A k \in Jobs : state'[k] # state[k] => state[k] = "running" /\ state'[k] = "failed"
    BY <1>12 DEF GuardRefused, Shape, TypeOK
  <2> QED BY <2>1, FilesExit
<1> USE DEF Shape, TypeOK, SlotsMatch, workerVars, txVars, fileVars, tableVars,
            Files, ExpiredUnheld, DoomedExpired, WorkHasDirectory, StageOfPlan, HandoffKept,
            CompletedIsReadable, Held
<1>2. ASSUME pc[w] # "free", BeginWork(w), UNCHANGED tableVars
      PROVE  Files'
  <2>1. j \in Jobs
    BY <1>2, ServedJob
  <2> QED BY <1>2, <2>1 DEF BeginWork
<1>3. ASSUME NEW to \in {"failed", "interrupted", "awaiting_evaluation"},
             Transition(w, to), UNCHANGED fileVars
      PROVE  Files'
  BY <1>3 DEF Transition
<1>4. ASSUME pc[w] \in {"working", "failing"}, NEW phase \in {"failing", "exiting"},
             pc' = [pc EXCEPT ![w] = phase], UNCHANGED <<tableVars, serves, bytes, frozen, doomed>>,
             complete \subseteq complete'
      PROVE  Files'
  BY <1>4
<1>5. CASE WorkerRead(w)
  <2>1. CASE pc' = [pc EXCEPT ![w] = "barrier"] /\ UNCHANGED <<serves, claim, started, fileVars>>
    BY <1>5, <2>1 DEF WorkerRead
  <2>2. CASE BeginWork(w)
    BY <1>2, <1>5, <2>2 DEF WorkerRead
  <2>3. CASE Exit(w) /\ UNCHANGED fileVars
    BY <1>1, <1>5, <2>3 DEF WorkerRead
  <2> QED BY <1>5, <2>1, <2>2, <2>3 DEF WorkerRead
<1>6. CASE WorkerBarrier(w)
  <2>1. CASE BeginWork(w)
    BY <1>2, <1>6, <2>1 DEF WorkerBarrier
  <2>2. CASE Exit(w) /\ UNCHANGED fileVars
    BY <1>1, <1>6, <2>2 DEF WorkerBarrier
  <2> QED BY <1>6, <2>1, <2>2 DEF WorkerBarrier
<1>7. CASE WorkerAwait(w)
  BY <1>3, <1>7 DEF WorkerAwait
<1>8. CASE WorkerPublish(w)
  <2>1. j \in Jobs /\ j \in bytes
    BY <1>8, ServedJob DEF WorkerPublish
  <2>2. plan[j].protected => stage[j] = "evaluation" /\ j \in frozen
    BY <1>8, <2>1 DEF WorkerPublish, Transition, Stages
  <2> QED BY <1>8, <2>1, <2>2 DEF WorkerPublish, Transition
<1>9. CASE WorkerPublishAborted(w) \/ WorkerRaise(w)
  BY <1>4, <1>9 DEF WorkerPublishAborted, WorkerRaise
<1>10. CASE WorkerRecordFailure(w)
  <2>1. CASE \E to \in {"failed", "interrupted"} : Transition(w, to)
    BY <1>3, <1>10, <2>1 DEF WorkerRecordFailure
  <2> QED BY <1>4, <1>10, <2>1 DEF WorkerRecordFailure
<1>11. CASE GuardCancelled(w) \/ WorkerExit(w) \/ WorkerCrash(w)
  BY <1>1, <1>11 DEF GuardCancelled, WorkerExit, WorkerCrash
<1> QED
  BY <1>5, <1>6, <1>7, <1>8, <1>9, <1>10, <1>11, <1>12 DEF Worker

LEMMA FilesNext == Shape /\ Table /\ Files /\ [Next]_vars => Files'
<1> SUFFICES ASSUME Shape, Table, Files, [Next]_vars PROVE Files'
  OBVIOUS
<1>1. CASE UNCHANGED vars
  BY <1>1 DEF vars, Files, ExpiredUnheld, DoomedExpired, WorkHasDirectory, StageOfPlan,
     HandoffKept, CompletedIsReadable, Held, workerVars, fileVars, tableVars
<1> QED
  BY <1>1, FilesCaller, FilesCoordinator, FilesWorker DEF Next, Fault

LEMMA FilesHolds == Spec => []Files
BY FilesInit, FilesNext, ShapeHolds, TableHolds, PTL DEF Spec

\* A completed job keeps its directory and its report, and a protected one went
\* through the frozen handoff.
THEOREM CompletedReadable == Spec => []CompletedIsReadable
<1>1. Files => CompletedIsReadable
  BY DEF Files
<1> QED BY <1>1, FilesHolds, PTL

\* Only RemoveDirectory removes bytes, and only of a job that is doomed.
LEMMA RemovalStep ==
  ASSUME Shape, Files, [Next]_vars, NEW j \in bytes \ bytes'
  PROVE  state[j] = "expired" /\ ~Held(j)
<1> USE DEF fileVars, workerVars
<1>1. bytes' = bytes \/ bytes \subseteq bytes' \/ \E k \in Jobs : RemoveDirectory(k)
  <2>1. CASE Caller
    BY <2>1 DEF Caller, Execute, Status, Cancel, Resume, Evaluate, EvaluateAborted, Cleanup
  <2>2. CASE Coordinator
    BY <2>2 DEF Coordinator, StartSupervisor, ScheduleBegin, ScheduleVisit, ScheduleCommit
  <2>3. ASSUME NEW w \in Workers, Worker(w) PROVE bytes \subseteq bytes'
    BY <2>3 DEF Worker, WorkerRead, WorkerBarrier, WorkerAwait, WorkerPublish,
       WorkerPublishAborted, WorkerRaise, WorkerRecordFailure, GuardCancelled, GuardRefused,
       WorkerExit, BeginWork
  <2>4. CASE Fault
    BY <2>4 DEF Fault, ScheduleRollback, SupervisorCrash, CleanerCrash, WorkerCrash
  <2>5. CASE UNCHANGED vars
    BY <2>5 DEF vars
  <2> QED BY <2>1, <2>2, <2>3, <2>4, <2>5 DEF Next
<1>2. PICK k \in Jobs : RemoveDirectory(k)
  BY <1>1
<1>3. j = k /\ j \in doomed /\ j \in Jobs
  BY <1>2 DEF RemoveDirectory, Shape, TypeOK
<1> QED
  BY <1>3 DEF Files, DoomedExpired, ExpiredUnheld

\* A directory is only removed from an expired job that nobody is running.
THEOREM CleanupIsSafe == Spec => CleanupSafety
<1>1. Shape /\ Files /\ [Next]_vars =>
        [\A j \in bytes \ bytes' : state[j] = "expired" /\ ~Held(j)]_vars
  BY RemovalStep
<1> QED BY <1>1, ShapeHolds, FilesHolds, PTL DEF Spec, CleanupSafety

(***************************************************************************)
(* Slots: the held locks never outnumber max_running.  While a transaction *)
(* is open a lock may be released but none is taken except by a claim, so  *)
(* what the coordinator counts covers the locks that are really held.      *)
(***************************************************************************)
HeldJobs == {j \in Jobs : Held(j)}
LocksBounded == Cardinality(HeldJobs) <= MaxRunning
CountCovers ==
  supervisor = "open" => /\ HeldJobs \subseteq active \cup claimed
                         /\ Cardinality(active \cup claimed) <= MaxRunning
Slots == LocksBounded /\ CountCovers

LEMMA SlotsInit == Init => Slots
<1> SUFFICES ASSUME Init PROVE Slots
  OBVIOUS
<1>1. HeldJobs = {}
  BY JobsAssumption DEF Init, HeldJobs, Held
<1>2. Cardinality(HeldJobs) = 0
  BY <1>1, FS_EmptySet
<1> QED BY <1>2, LimitsAssumption DEF Init, Slots, LocksBounded, CountCovers

\* Finite sets of jobs: a part has no more elements than the whole.
LEMMA FewerJobs ==
  ASSUME NEW T \in SUBSET Jobs, NEW S \in SUBSET T
  PROVE  /\ Cardinality(S) \in Nat /\ Cardinality(T) \in Nat
         /\ Cardinality(S) <= Cardinality(T)
<1>1. IsFiniteSet(T)
  BY JobsAssumption, FS_Subset
<1>2. IsFiniteSet(S) /\ Cardinality(S) <= Cardinality(T)
  BY <1>1, FS_Subset
<1> QED BY <1>1, <1>2, FS_CardinalityType

LEMMA OneMore ==
  ASSUME NEW S, NEW x, IsFiniteSet(S)
  PROVE  Cardinality(S) \in Nat /\ Cardinality(S \cup {x}) <= Cardinality(S) + 1
<1>1. Cardinality(S) \in Nat
  BY FS_CardinalityType
<1>2. Cardinality(S \cup {x}) = IF x \in S THEN Cardinality(S) ELSE Cardinality(S) + 1
  BY FS_AddElement
<1> QED BY <1>1, <1>2

\* A step that takes no lock and neither opens a transaction nor counts in one.
LEMMA SlotsKept ==
  ASSUME Slots, HeldJobs' \subseteq HeldJobs,
         supervisor' = "open" => supervisor = "open" /\ active' = active /\ claimed' = claimed
  PROVE  Slots'
<1>1. LocksBounded'
  <2>1. /\ Cardinality(HeldJobs') \in Nat /\ Cardinality(HeldJobs) \in Nat
        /\ Cardinality(HeldJobs') <= Cardinality(HeldJobs)
    BY FewerJobs DEF HeldJobs
  <2> QED BY <2>1, LimitsAssumption DEF Slots, LocksBounded
<1>2. CountCovers'
  BY DEF Slots, CountCovers
<1> QED BY <1>1, <1>2 DEF Slots

LEMMA SlotsCoordinator ==
  ASSUME Shape, Table, Slots, Coordinator
  PROVE  Slots'
<1> USE DEF workerVars, txVars
<1>1. CASE StartSupervisor \/ ScheduleCommit
  <2>1. HeldJobs' = HeldJobs /\ supervisor' # "open"
    BY <1>1 DEF StartSupervisor, ScheduleCommit, HeldJobs, Held
  <2> QED BY <2>1, SlotsKept
<1>2. CASE ScheduleBegin
  <2>1. HeldJobs' = HeldJobs /\ active' = HeldJobs /\ claimed' = {}
    BY <1>2 DEF ScheduleBegin, HeldJobs, Held, Table, ClosedEmpty
  <2> QED BY <2>1 DEF Slots, LocksBounded, CountCovers
<1>3. CASE ScheduleVisit
  <2> DEFINE j == admitted[cursor]
             T == active \cup claimed
  <2>1. j \in Jobs /\ supervisor = "open" /\ active' = active
    BY <1>3, CursorJob DEF ScheduleVisit
  <2>2. CASE UNCHANGED <<claimed, workerVars>>
    <3>1. HeldJobs' = HeldJobs
      BY <2>2 DEF HeldJobs, Held
    <3> QED BY <2>1, <2>2, <3>1, SlotsKept
  <2>3. CASE claimed' = claimed \cup {j} /\ Spawn(j) /\ Cardinality(T) < MaxRunning
    <3>0. PICK w \in Workers : serves' = [serves EXCEPT ![w] = j]
      BY <2>3 DEF Spawn
    <3>1. HeldJobs' \subseteq HeldJobs \cup {j}
      BY <3>0 DEF HeldJobs, Held, Shape, TypeOK
    <3>2. HeldJobs' \subseteq T \cup {j} /\ T \cup {j} \subseteq Jobs
      BY <2>1, <3>1 DEF Slots, CountCovers, Shape, TypeOK
    <3>3. IsFiniteSet(T)
      BY JobsAssumption, FS_Subset DEF Shape, TypeOK
    <3>4. Cardinality(T) \in Nat /\ Cardinality(T \cup {j}) <= Cardinality(T) + 1
      BY <3>3, OneMore
    <3>5. /\ Cardinality(HeldJobs') \in Nat /\ Cardinality(T \cup {j}) \in Nat
          /\ Cardinality(HeldJobs') <= Cardinality(T \cup {j})
      BY <3>2, FewerJobs
    <3>6. Cardinality(T \cup {j}) <= MaxRunning /\ Cardinality(HeldJobs') <= MaxRunning
      BY <2>3, <3>4, <3>5, LimitsAssumption
    <3>7. (active \cup claimed)' = T \cup {j}
      BY <2>1, <2>3
    <3> QED BY <3>2, <3>6, <3>7 DEF Slots, LocksBounded, CountCovers
  <2> QED BY <1>3, <2>2, <2>3 DEF ScheduleVisit, Skip, Claim
<1> QED
  BY <1>1, <1>2, <1>3 DEF Coordinator

LEMMA SlotsElsewhere ==
  ASSUME Shape, Slots, Caller \/ Fault \/ \E w \in Workers : Worker(w)
  PROVE  Slots'
<1> USE DEF workerVars, txVars
<1>1. CASE Caller
  <2>1. HeldJobs' = HeldJobs /\ UNCHANGED <<supervisor, active, claimed>>
    BY <1>1 DEF Caller, Execute, Status, Cancel, Resume, Evaluate, EvaluateAborted, Cleanup,
       RemoveDirectory, HeldJobs, Held
  <2> QED BY <2>1, SlotsKept
<1>2. ASSUME NEW w \in Workers, Worker(w) \/ WorkerCrash(w) PROVE Slots'
  <2>1. UNCHANGED <<supervisor, active, claimed>>
    BY <1>2 DEF Worker, WorkerRead, WorkerBarrier, WorkerAwait, WorkerPublish,
       WorkerPublishAborted, WorkerRaise, WorkerRecordFailure, GuardCancelled, GuardRefused,
       WorkerExit, WorkerCrash, Transition
  <2>2. serves' = serves \/ serves' = [serves EXCEPT ![w] = NoJob]
    BY <1>2 DEF Worker, WorkerRead, WorkerBarrier, WorkerAwait, WorkerPublish,
       WorkerPublishAborted, WorkerRaise, WorkerRecordFailure, GuardCancelled, GuardRefused,
       WorkerExit, WorkerCrash, Transition, Exit, BeginWork
  <2>3. HeldJobs' \subseteq HeldJobs
    BY <2>2, JobsAssumption DEF HeldJobs, Held, Shape, TypeOK
  <2> QED BY <2>1, <2>3, SlotsKept
<1>3. CASE ScheduleRollback \/ SupervisorCrash \/ CleanerCrash
  <2>1. HeldJobs' = HeldJobs
    BY <1>3 DEF ScheduleRollback, SupervisorCrash, CleanerCrash, HeldJobs, Held
  <2>2. supervisor' = "open" => UNCHANGED <<supervisor, active, claimed>>
    BY <1>3 DEF ScheduleRollback, SupervisorCrash, CleanerCrash
  <2> QED BY <2>1, <2>2, SlotsKept
<1> QED
  BY <1>1, <1>2, <1>3 DEF Fault

LEMMA SlotsNext == Shape /\ Table /\ Slots /\ [Next]_vars => Slots'
<1> SUFFICES ASSUME Shape, Table, Slots, [Next]_vars PROVE Slots'
  OBVIOUS
<1>1. CASE UNCHANGED vars
  <2>1. HeldJobs' = HeldJobs /\ UNCHANGED <<supervisor, active, claimed>>
    BY <1>1 DEF vars, workerVars, txVars, HeldJobs, Held
  <2> QED BY <2>1, SlotsKept
<1> QED
  BY <1>1, SlotsCoordinator, SlotsElsewhere DEF Next

LEMMA SlotsHold == Spec => []Slots
BY SlotsInit, SlotsNext, ShapeHolds, TableHolds, PTL DEF Spec

\* Live processes serve different jobs, so they are no more than the held locks.
LEMMA LiveFit ==
  ASSUME Shape, Ownership, Slots
  PROVE  SlotsRespected
<1> DEFINE f == [w \in Live |-> serves[w]]
<1>1. \A w \in Live : serves[w] \in HeldJobs
  BY ServedJob DEF Live, HeldJobs, Held
<1>2. f \in Injection(Live, HeldJobs)
  BY <1>1 DEF Ownership, ExclusiveOwnership, Injection, IsInjective
<1>3. IsFiniteSet(HeldJobs)
  BY JobsAssumption, FS_Subset DEF HeldJobs
<1>4. IsFiniteSet(Live) /\ Cardinality(Live) <= Cardinality(HeldJobs)
  BY <1>2, <1>3, FS_Injection
<1>5. Cardinality(Live) \in Nat /\ Cardinality(HeldJobs) \in Nat
  BY <1>3, <1>4, FS_CardinalityType
<1> QED BY <1>4, <1>5, LimitsAssumption DEF Slots, LocksBounded, SlotsRespected

\* The processes really alive never outnumber max_running, those of cancelled
\* jobs and of rolled back claims included.
THEOREM SlotsNeverExceeded == Spec => []SlotsRespected
<1>1. Shape /\ Ownership /\ Slots => SlotsRespected
  BY LiveFit
<1> QED BY <1>1, ShapeHolds, OwnershipHolds, SlotsHold, PTL

(***************************************************************************)
(* Queue: only an admission or a requeue makes a job busy, one at a time   *)
(* and after the same test; the coordinator moves jobs within Busy.        *)
(***************************************************************************)
LEMMA BusyKept ==
  ASSUME QueueBounded, Busy' \subseteq Busy
  PROVE  QueueBounded'
<1>1. /\ Cardinality(Busy') \in Nat /\ Cardinality(Busy) \in Nat
      /\ Cardinality(Busy') <= Cardinality(Busy)
  BY FewerJobs DEF Busy
<1> QED BY <1>1, LimitsAssumption DEF QueueBounded

LEMMA BusyGrows ==
  ASSUME NEW j \in Jobs, ~QueueFull, Busy' = Busy \cup {j}
  PROVE  QueueBounded'
<1>1. IsFiniteSet(Busy)
  BY JobsAssumption, FS_Subset DEF Busy
<1>2. Cardinality(Busy) \in Nat /\ Cardinality(Busy') <= Cardinality(Busy) + 1
  BY <1>1, OneMore
<1>3. IsFiniteSet(Busy') /\ Cardinality(Busy') \in Nat
  BY <1>1, FS_AddElement, FS_CardinalityType
<1> QED BY <1>2, <1>3, LimitsAssumption DEF QueueFull, QueueBounded

LEMMA QueueInit == Init => QueueBounded
<1> SUFFICES ASSUME Init PROVE QueueBounded
  OBVIOUS
<1>1. Busy = {}
  BY DEF Init, Busy
<1> QED BY <1>1, FS_EmptySet, LimitsAssumption DEF QueueBounded

LEMMA QueueCaller ==
  ASSUME Shape, QueueBounded, Caller
  PROVE  QueueBounded'
<1> USE DEF Shape, TypeOK
<1>1. ASSUME NEW j \in Jobs, NEW p \in Plans, Execute(j, p) PROVE QueueBounded'
  <2>1. ~QueueFull /\ Busy' = Busy \cup {j}
    BY <1>1 DEF Execute, Busy
  <2> QED BY <2>1, BusyGrows
<1>2. ASSUME NEW j \in Jobs, Resume(j) \/ Evaluate(j) PROVE QueueBounded'
  <2>1. ~QueueFull /\ Busy' = Busy \cup {j}
    BY <1>2 DEF Resume, Evaluate, Requeue, Busy
  <2> QED BY <2>1, BusyGrows
<1>3. ASSUME NEW j \in Jobs, Status(j) \/ Cancel(j) PROVE QueueBounded'
  <2>1. Busy' \subseteq Busy
    BY <1>3 DEF Status, Cancel, Busy
  <2> QED BY <2>1, BusyKept
<1>4. ASSUME NEW j \in Jobs, EvaluateAborted(j) \/ RemoveDirectory(j) PROVE QueueBounded'
  <2>1. Busy' \subseteq Busy
    BY <1>4 DEF EvaluateAborted, RemoveDirectory, tableVars, Busy
  <2> QED BY <2>1, BusyKept
<1>5. ASSUME NEW ripe \in SUBSET Jobs, Cleanup(ripe) PROVE QueueBounded'
  <2>1. Busy' \subseteq Busy
    BY <1>5 DEF Cleanup, Busy
  <2> QED BY <2>1, BusyKept
<1> QED BY <1>1, <1>2, <1>3, <1>4, <1>5 DEF Caller

LEMMA QueueElsewhere ==
  ASSUME Shape, Table, QueueBounded,
         Coordinator \/ Fault \/ (\E w \in Workers : Worker(w)) \/ UNCHANGED vars
  PROVE  QueueBounded'
<1> USE DEF Shape, TypeOK
<1>1. ASSUME ScheduleCommit PROVE Busy' \subseteq Busy
  BY <1>1 DEF ScheduleCommit, Table, TakenQueued, Busy
<1>2. ASSUME \/ StartSupervisor \/ ScheduleBegin \/ ScheduleVisit
             \/ UNCHANGED vars
      PROVE  Busy' \subseteq Busy
  BY <1>2 DEF StartSupervisor, ScheduleBegin, ScheduleVisit, vars, tableVars, Busy
<1>3. ASSUME Fault PROVE Busy' \subseteq Busy
  BY <1>3 DEF Fault, ScheduleRollback, SupervisorCrash, CleanerCrash, WorkerCrash, tableVars, Busy
<1>4. ASSUME NEW w \in Workers, Worker(w) PROVE Busy' \subseteq Busy
  <2>1. state' = state \/ (\E to \in TERMINAL : state' = [state EXCEPT ![serves[w]] = to])
                       \/ state' = [state EXCEPT ![serves[w]] = IF @ = "running" THEN "failed" ELSE @]
    BY <1>4 DEF Worker, WorkerRead, WorkerBarrier, WorkerAwait, WorkerPublish,
       WorkerPublishAborted, WorkerRaise, WorkerRecordFailure, GuardCancelled, GuardRefused,
       WorkerExit, Transition, tableVars, TERMINAL
  <2> QED BY <2>1 DEF Busy, TERMINAL
<1> QED BY <1>1, <1>2, <1>3, <1>4, BusyKept DEF Coordinator

\* However executions, resumptions and freezes interleave with the coordinator's
\* claims, the busy jobs fit the running and the queue places.
THEOREM QueueNeverOverfull == Spec => []QueueBounded
<1>1. Shape /\ Table /\ QueueBounded /\ [Next]_vars => QueueBounded'
  BY QueueCaller, QueueElsewhere DEF Next
<1> QED BY <1>1, QueueInit, ShapeHolds, TableHolds, PTL DEF Spec

(***************************************************************************)
(* Rows: whatever is held, counted or on disk belongs to a row, and a row  *)
(* keeps the plan it was admitted with.  So the sums below add numbers,    *)
(* and an admission does not change any of their terms.                    *)
(***************************************************************************)
RowsPlanned == \A j \in Jobs : state[j] # "absent" => plan[j] \in Plans
RowsBehind ==
  \A j \in Jobs : j \in HeldJobs \cup active \cup claimed \cup bytes => state[j] # "absent"
Rows == RowsPlanned /\ RowsBehind

\* The rows and their plans stay as they are, and all work is on a row.
LEMMA RowsKept ==
  ASSUME Shape, Rows,
         \A j \in Jobs : state[j] # "absent" => state'[j] # "absent" /\ plan'[j] = plan[j],
         \A j \in Jobs : state[j] = "absent" /\ state'[j] # "absent" => plan'[j] \in Plans,
         \A j \in Jobs : j \in (HeldJobs \cup active \cup claimed \cup bytes)' =>
           j \in HeldJobs \cup active \cup claimed \cup bytes \/ state[j] # "absent"
  PROVE  Rows'
BY DEF Rows, RowsPlanned, RowsBehind

LEMMA RowsInit == Init => Rows
BY JobsAssumption DEF Init, Rows, RowsPlanned, RowsBehind, HeldJobs, Held

LEMMA RowsCaller ==
  ASSUME Shape, Table, Rows, Caller
  PROVE  Rows'
<1> USE DEF Shape, TypeOK, Unlocked, workerVars, txVars, fileVars, tableVars
<1>1. ASSUME NEW j \in Jobs, NEW p \in Plans, Execute(j, p) PROVE Rows'
  <2>1. HeldJobs' = HeldJobs /\ UNCHANGED <<active, claimed, bytes>>
    BY <1>1 DEF Execute, HeldJobs, Held
  <2>2. \A i \in Jobs : state[i] # "absent" => state'[i] # "absent" /\ plan'[i] = plan[i]
    BY <1>1 DEF Execute
  <2>3. \A i \in Jobs : state[i] = "absent" /\ state'[i] # "absent" => plan'[i] \in Plans
    BY <1>1 DEF Execute
  <2> QED BY <2>1, <2>2, <2>3, RowsKept
<1>2. ASSUME NEW j \in Jobs,
             \/ Status(j) \/ Cancel(j) \/ Resume(j)
             \/ Evaluate(j) \/ EvaluateAborted(j) \/ RemoveDirectory(j)
      PROVE  Rows'
  <2>1. HeldJobs' = HeldJobs /\ UNCHANGED <<plan, active, claimed>> /\ bytes' \subseteq bytes
    BY <1>2 DEF Status, Cancel, Resume, Evaluate, EvaluateAborted, RemoveDirectory, HeldJobs, Held
  <2>2. \A i \in Jobs : state[i] # "absent" <=> state'[i] # "absent"
    BY <1>2 DEF Status, Cancel, Resume, Evaluate, EvaluateAborted, RemoveDirectory, Requeue,
       Freezable
  <2> QED BY <2>1, <2>2, RowsKept
<1>3. ASSUME NEW ripe \in SUBSET Jobs, Cleanup(ripe) PROVE Rows'
  <2>1. HeldJobs' = HeldJobs /\ UNCHANGED <<plan, active, claimed, bytes>>
    BY <1>3 DEF Cleanup, HeldJobs, Held
  <2>2. \A i \in Jobs : state[i] # "absent" <=> state'[i] # "absent"
    BY <1>3 DEF Cleanup, TERMINAL
  <2> QED BY <2>1, <2>2, RowsKept
<1> QED BY <1>1, <1>2, <1>3 DEF Caller

LEMMA RowsCoordinator ==
  ASSUME Shape, Table, Rows, Coordinator \/ ScheduleRollback \/ SupervisorCrash \/ CleanerCrash
  PROVE  Rows'
<1> USE DEF Shape, TypeOK, workerVars, txVars, fileVars, tableVars
<1>1. CASE \/ StartSupervisor \/ ScheduleBegin \/ ScheduleRollback
           \/ SupervisorCrash \/ CleanerCrash
  <2>1. HeldJobs' = HeldJobs /\ UNCHANGED <<state, plan, bytes>>
    BY <1>1 DEF StartSupervisor, ScheduleBegin, ScheduleRollback, SupervisorCrash,
       CleanerCrash, HeldJobs, Held
  <2>2. active' \subseteq active \cup HeldJobs /\ claimed' \subseteq claimed
    BY <1>1 DEF StartSupervisor, ScheduleBegin, ScheduleRollback, SupervisorCrash,
       CleanerCrash, CloseTransaction, HeldJobs
  <2> QED BY <2>1, <2>2, RowsKept
<1>2. CASE ScheduleVisit
  <2> DEFINE j == admitted[cursor]
  <2>1. j \in Jobs /\ UNCHANGED <<state, plan, bytes, active>>
    BY <1>2, CursorJob DEF ScheduleVisit
  <2>2. CASE UNCHANGED <<claimed, workerVars>>
    <3>1. HeldJobs' = HeldJobs
      BY <2>2 DEF HeldJobs, Held
    <3> QED BY <2>1, <2>2, <3>1, RowsKept
  <2>3. CASE claimed' = claimed \cup {j} /\ Spawn(j) /\ state[j] = "queued"
    <3>0. PICK w \in Workers : serves' = [serves EXCEPT ![w] = j]
      BY <2>3 DEF Spawn
    <3>1. HeldJobs' \subseteq HeldJobs \cup {j}
      BY <3>0 DEF HeldJobs, Held
    <3>2. \A i \in Jobs : i \in (HeldJobs \cup active \cup claimed \cup bytes)' =>
            i \in HeldJobs \cup active \cup claimed \cup bytes \/ state[i] # "absent"
      BY <2>1, <2>3, <3>1
    <3> QED BY <2>1, <3>2, RowsKept
  <2> QED BY <1>2, <2>2, <2>3 DEF ScheduleVisit, Skip, Claim
<1>3. CASE ScheduleCommit
  <2>1. /\ HeldJobs' = HeldJobs /\ UNCHANGED <<plan, bytes>>
        /\ active' = {} /\ claimed' = {}
    BY <1>3 DEF ScheduleCommit, CloseTransaction, HeldJobs, Held
  <2>2. \A i \in Jobs : state[i] # "absent" <=> state'[i] # "absent"
    BY <1>3 DEF ScheduleCommit, Table, TakenQueued
  <2> QED BY <2>1, <2>2, RowsKept
<1> QED BY <1>1, <1>2, <1>3 DEF Coordinator

LEMMA RowsWorker ==
  ASSUME Shape, Rows, NEW w \in Workers, Worker(w) \/ WorkerCrash(w)
  PROVE  Rows'
<1> DEFINE j == serves[w]
<1> USE DEF Shape, TypeOK, workerVars, txVars, fileVars, tableVars
<1>1. UNCHANGED <<plan, active, claimed>>
  BY DEF Worker, WorkerRead, WorkerBarrier, WorkerAwait, WorkerPublish, WorkerPublishAborted,
     WorkerRaise, WorkerRecordFailure, GuardCancelled, GuardRefused, WorkerExit, WorkerCrash,
     Transition
<1>2. serves' = serves \/ serves' = [serves EXCEPT ![w] = NoJob]
  BY DEF Worker, WorkerRead, WorkerBarrier, WorkerAwait, WorkerPublish, WorkerPublishAborted,
     WorkerRaise, WorkerRecordFailure, GuardCancelled, GuardRefused, WorkerExit, WorkerCrash,
     Transition, Exit, BeginWork
<1>3. HeldJobs' \subseteq HeldJobs
  BY <1>2, JobsAssumption DEF HeldJobs, Held
<1>4. bytes' = bytes \/ (bytes' = bytes \cup {j} /\ state[j] = "running")
  BY DEF Worker, WorkerRead, WorkerBarrier, WorkerAwait, WorkerPublish, WorkerPublishAborted,
     WorkerRaise, WorkerRecordFailure, GuardCancelled, GuardRefused, WorkerExit, WorkerCrash,
     Transition, BeginWork
<1>5. \/ state' = state
      \/ \E to \in TERMINAL : state[j] = "running" /\ state' = [state EXCEPT ![j] = to]
  <2>1. CASE GuardRefused(w)
    <3>1. state' = [state EXCEPT ![j] = IF @ = "running" THEN "failed" ELSE @]
      BY <2>1 DEF GuardRefused
    <3> QED BY <3>1 DEF TERMINAL
  <2>2. CASE ~GuardRefused(w)
    BY <2>2 DEF Worker, WorkerRead, WorkerBarrier, WorkerAwait, WorkerPublish,
       WorkerPublishAborted, WorkerRaise, WorkerRecordFailure, GuardCancelled, WorkerExit,
       WorkerCrash, Transition, TERMINAL
  <2> QED BY <2>1, <2>2
<1>6. \A i \in Jobs : state[i] # "absent" <=> state'[i] # "absent"
  BY <1>5 DEF TERMINAL
<1> QED BY <1>1, <1>3, <1>4, <1>6, RowsKept

LEMMA RowsNext == Shape /\ Table /\ Rows /\ [Next]_vars => Rows'
<1> SUFFICES ASSUME Shape, Table, Rows, [Next]_vars PROVE Rows'
  OBVIOUS
<1>1. CASE UNCHANGED vars
  <2>1. HeldJobs' = HeldJobs /\ UNCHANGED <<state, plan, active, claimed, bytes>>
    BY <1>1 DEF vars, tableVars, fileVars, workerVars, txVars, HeldJobs, Held
  <2> QED BY <2>1, RowsKept
<1> QED
  BY <1>1, RowsCaller, RowsCoordinator, RowsWorker DEF Next, Fault

LEMMA RowsHold == Spec => []Rows
BY RowsInit, RowsNext, ShapeHolds, TableHolds, PTL DEF Spec

(***************************************************************************)
(* Sums.  Memory: while a transaction is open its count covers what is     *)
(* held, as for the slots.  Retained: what the admitted rows reserve stays *)
(* within the limit, and a directory is always one of a row that reserves. *)
(***************************************************************************)
MemoryFun == [j \in Jobs |-> plan[j].memory]
OutputFun == [j \in Jobs |-> plan[j].output]

LEMMA MemoryIsSum ==
  ASSUME NEW S
  PROVE  MemoryOf(S) = SumOf(MemoryFun, S) /\ OutputOf(S) = SumOf(OutputFun, S)
BY DEF MemoryOf, OutputOf, MemoryFun, OutputFun, SumOf

\* A set of rows has finitely many, and each of them adds a number.
LEMMA RowsAdd ==
  ASSUME Rows, NEW S \in SUBSET Jobs, \A j \in S : state[j] # "absent"
  PROVE  IsFiniteSet(S) /\ Numbers(MemoryFun, S) /\ Numbers(OutputFun, S)
<1>1. IsFiniteSet(S)
  BY JobsAssumption, FS_Subset
<1>2. \A j \in S : plan[j].memory \in Nat /\ plan[j].output \in Nat
  BY PlansAssumption DEF Rows, RowsPlanned
<1> QED BY <1>1, <1>2 DEF Numbers, MemoryFun, OutputFun

\* A step that keeps the plans of the rows keeps what any of them sum to.
LEMMA SumsKept ==
  ASSUME Rows, \A j \in Jobs : state[j] # "absent" => plan'[j] = plan[j],
         NEW S \in SUBSET Jobs, \A j \in S : state[j] # "absent"
  PROVE  SumOf(MemoryFun', S) = SumOf(MemoryFun, S) /\ SumOf(OutputFun', S) = SumOf(OutputFun, S)
<1>1. \A j \in S : MemoryFun'[j] = MemoryFun[j] /\ OutputFun'[j] = OutputFun[j]
  BY DEF MemoryFun, OutputFun
<1>2. IsFiniteSet(S) /\ Numbers(MemoryFun, S) /\ Numbers(OutputFun, S)
  BY RowsAdd
<1>3. SumOf(MemoryFun, S) = SumOf(MemoryFun', S)
  BY <1>1, <1>2, SumAgree
<1>4. SumOf(OutputFun, S) = SumOf(OutputFun', S)
  BY <1>1, <1>2, SumAgree
<1> QED BY <1>3, <1>4

LEMMA PlansKept ==
  ASSUME Shape, [Next]_vars
  PROVE  \A j \in Jobs : state[j] # "absent" => plan'[j] = plan[j]
<1>1. ASSUME NEW j \in Jobs, NEW p \in Plans, Execute(j, p)
      PROVE  \A i \in Jobs : state[i] # "absent" => plan'[i] = plan[i]
  BY <1>1 DEF Execute, Shape, TypeOK
<1>2. CASE \E j \in Jobs, p \in Plans : Execute(j, p)
  BY <1>1, <1>2
<1>3. CASE Caller /\ ~\E j \in Jobs, p \in Plans : Execute(j, p)
  BY <1>3 DEF Caller, Status, Cancel, Resume, Evaluate, EvaluateAborted, Cleanup,
     RemoveDirectory, tableVars
<1>4. CASE Coordinator
  BY <1>4 DEF Coordinator, StartSupervisor, ScheduleBegin, ScheduleVisit, ScheduleCommit, tableVars
<1>5. CASE \E w \in Workers : Worker(w)
  BY <1>5 DEF Worker, WorkerRead, WorkerBarrier, WorkerAwait, WorkerPublish,
     WorkerPublishAborted, WorkerRaise, WorkerRecordFailure, GuardCancelled, GuardRefused,
     WorkerExit, Transition, tableVars
<1>6. CASE Fault
  BY <1>6 DEF Fault, ScheduleRollback, SupervisorCrash, CleanerCrash, WorkerCrash, tableVars
<1>7. CASE UNCHANGED vars
  BY <1>7 DEF vars, tableVars
<1> QED BY <1>2, <1>3, <1>4, <1>5, <1>6, <1>7 DEF Next

MemoryHeld == SumOf(MemoryFun, HeldJobs) <= MaxMemory
MemoryCounted == supervisor = "open" => SumOf(MemoryFun, active \cup claimed) <= MaxMemory
Memory == MemoryHeld /\ MemoryCounted

LEMMA MemoryInit == Init => Memory
<1> SUFFICES ASSUME Init PROVE Memory
  OBVIOUS
<1>1. HeldJobs = {} /\ supervisor # "open"
  BY JobsAssumption DEF Init, HeldJobs, Held
<1>2. SumOf(MemoryFun, {}) = 0
  BY SumEmpty
<1> QED BY <1>1, <1>2, LimitsAssumption DEF Memory, MemoryHeld, MemoryCounted

\* A step that takes no lock and neither opens a transaction nor counts in one.
LEMMA MemoryKept ==
  ASSUME Shape, Rows, Memory, HeldJobs' \subseteq HeldJobs,
         \A j \in Jobs : state[j] # "absent" => plan'[j] = plan[j],
         supervisor' = "open" => supervisor = "open" /\ active' = active /\ claimed' = claimed
  PROVE  Memory'
<1> DEFINE T == active \cup claimed
<1>1. /\ HeldJobs \in SUBSET Jobs /\ T \in SUBSET Jobs
      /\ \A j \in HeldJobs \cup T : state[j] # "absent"
  BY DEF Shape, TypeOK, Rows, RowsBehind, HeldJobs
<1>2. IsFiniteSet(HeldJobs) /\ Numbers(MemoryFun, HeldJobs)
  BY <1>1, RowsAdd
<1>3. IsFiniteSet(HeldJobs') /\ Numbers(MemoryFun, HeldJobs')
  BY <1>2, FS_Subset DEF Numbers
<1>4. SumOf(MemoryFun, HeldJobs') <= SumOf(MemoryFun, HeldJobs)
  BY <1>2, SumMonotone
<1>5. SumOf(MemoryFun, HeldJobs') \in Nat /\ SumOf(MemoryFun, HeldJobs) \in Nat
  BY <1>2, <1>3, SumType
<1>6. SumOf(MemoryFun', HeldJobs') = SumOf(MemoryFun, HeldJobs')
  BY <1>1, SumsKept
<1>7. SumOf(MemoryFun', T) = SumOf(MemoryFun, T)
  <2> HIDE DEF T
  <2> QED BY <1>1, SumsKept
<1>8. MemoryHeld'
  BY <1>4, <1>5, <1>6, LimitsAssumption DEF Memory, MemoryHeld
<1>9. MemoryCounted'
  BY <1>7 DEF Memory, MemoryCounted
<1> QED BY <1>8, <1>9 DEF Memory

LEMMA MemoryCoordinator ==
  ASSUME Shape, Table, Slots, Rows, Memory, Coordinator
  PROVE  Memory'
<1> USE DEF workerVars, txVars
<1>0. \A j \in Jobs : state[j] # "absent" => plan'[j] = plan[j]
  BY PlansKept DEF Next
<1>1. CASE StartSupervisor \/ ScheduleCommit
  <2>1. HeldJobs' = HeldJobs /\ supervisor' # "open"
    BY <1>1 DEF StartSupervisor, ScheduleCommit, HeldJobs, Held
  <2> QED BY <1>0, <2>1, MemoryKept
<1>2. CASE ScheduleBegin
  <2>1. /\ HeldJobs' = HeldJobs /\ (active \cup claimed)' = HeldJobs
        /\ MemoryFun' = MemoryFun
    BY <1>2 DEF ScheduleBegin, HeldJobs, Held, Table, ClosedEmpty, tableVars, MemoryFun
  <2>2. SumOf(MemoryFun, HeldJobs)' = SumOf(MemoryFun, HeldJobs)
    BY <2>1
  <2>3. SumOf(MemoryFun, active \cup claimed)' = SumOf(MemoryFun, HeldJobs)
    BY <2>1
  <2> QED BY <2>2, <2>3 DEF Memory, MemoryHeld, MemoryCounted
<1>3. CASE ScheduleVisit
  <2> DEFINE j == admitted[cursor]
             T == active \cup claimed
  <2>1. j \in Jobs /\ supervisor = "open" /\ active' = active /\ MemoryFun' = MemoryFun
    BY <1>3, CursorJob DEF ScheduleVisit, tableVars, MemoryFun
  <2>2. CASE UNCHANGED <<claimed, workerVars>>
    <3>1. HeldJobs' = HeldJobs
      BY <2>2 DEF HeldJobs, Held
    <3> QED BY <1>0, <2>1, <2>2, <3>1, MemoryKept
  <2>3. CASE /\ claimed' = claimed \cup {j} /\ Spawn(j) /\ state[j] = "queued"
             /\ MemoryOf(T) + plan[j].memory <= MaxMemory
    <3>0. PICK w \in Workers : serves' = [serves EXCEPT ![w] = j]
      BY <2>3 DEF Spawn
    <3>1. HeldJobs' \subseteq HeldJobs \cup {j}
      BY <3>0 DEF HeldJobs, Held, Shape, TypeOK
    <3>2. /\ HeldJobs' \subseteq T \cup {j} /\ T \cup {j} \in SUBSET Jobs
          /\ \A i \in T \cup {j} : state[i] # "absent"
      BY <2>1, <2>3, <3>1 DEF Slots, CountCovers, Shape, TypeOK, Rows, RowsBehind
    <3>3. /\ IsFiniteSet(T) /\ Numbers(MemoryFun, T)
          /\ IsFiniteSet(T \cup {j}) /\ Numbers(MemoryFun, T \cup {j})
      <4> HIDE DEF T, j
      <4> QED BY <3>2, RowsAdd
    <3>4. MemoryFun[j] = plan[j].memory /\ MemoryFun[j] \in Nat
      BY <2>1, <3>3 DEF MemoryFun, Numbers
    <3>5. /\ SumOf(MemoryFun, T) \in Nat /\ SumOf(MemoryFun, T \cup {j}) \in Nat
          /\ SumOf(MemoryFun, T \cup {j}) <= SumOf(MemoryFun, T) + MemoryFun[j]
      <4> HIDE DEF T, j
      <4>1. SumOf(MemoryFun, T) \in Nat /\ SumOf(MemoryFun, T \cup {j}) \in Nat
        BY <3>3, SumType
      <4>2. CASE j \in T
        <5>1. T \cup {j} = T
          BY <4>2
        <5>2. SumOf(MemoryFun, T \cup {j}) = SumOf(MemoryFun, T)
          BY <5>1, Zenon
        <5> QED BY <4>1, <5>2, <3>4
      <4>3. CASE j \notin T
        <5>1. SumOf(MemoryFun, T \cup {j}) = SumOf(MemoryFun, T) + MemoryFun[j]
          BY <4>3, <3>3, <3>4, SumAdd
        <5> QED BY <4>1, <5>1, <3>4
      <4> QED BY <4>2, <4>3
    <3>6. SumOf(MemoryFun, T \cup {j}) <= MaxMemory
      <4>1. MemoryOf(T) = SumOf(MemoryFun, T)
        BY MemoryIsSum
      <4> QED BY <2>3, <3>4, <3>5, <4>1, LimitsAssumption
    <3>7. IsFiniteSet(HeldJobs') /\ Numbers(MemoryFun, HeldJobs')
      BY <3>2, <3>3, FS_Subset DEF Numbers
    <3>8. SumOf(MemoryFun, HeldJobs') <= MaxMemory
      <4> HIDE DEF T, j
      <4>1. SumOf(MemoryFun, HeldJobs') <= SumOf(MemoryFun, T \cup {j})
        BY <3>2, <3>3, SumMonotone
      <4>2. SumOf(MemoryFun, HeldJobs') \in Nat
        BY <3>7, SumType
      <4> QED BY <3>5, <3>6, <4>1, <4>2, LimitsAssumption
    <3>9. (active \cup claimed)' = T \cup {j}
      BY <2>1, <2>3
    <3>10. /\ SumOf(MemoryFun, active \cup claimed)' = SumOf(MemoryFun, T \cup {j})
           /\ SumOf(MemoryFun, HeldJobs)' = SumOf(MemoryFun, HeldJobs')
      <4> HIDE DEF T, j
      <4> QED BY <2>1, <3>9
    <3> QED BY <3>6, <3>8, <3>10 DEF Memory, MemoryHeld, MemoryCounted
  <2> QED BY <1>3, <2>2, <2>3 DEF ScheduleVisit, Skip, Claim
<1> QED
  BY <1>1, <1>2, <1>3 DEF Coordinator

LEMMA MemoryElsewhere ==
  ASSUME Shape, Rows, Memory, Caller \/ Fault \/ (\E w \in Workers : Worker(w)) \/ UNCHANGED vars
  PROVE  Memory'
<1> USE DEF workerVars, txVars
<1>0. \A j \in Jobs : state[j] # "absent" => plan'[j] = plan[j]
  BY PlansKept DEF Next
<1>1. CASE Caller \/ UNCHANGED vars
  <2>1. HeldJobs' = HeldJobs /\ UNCHANGED <<supervisor, active, claimed>>
    BY <1>1 DEF Caller, Execute, Status, Cancel, Resume, Evaluate, EvaluateAborted, Cleanup,
       RemoveDirectory, HeldJobs, Held, vars
  <2> QED BY <1>0, <2>1, MemoryKept
<1>2. ASSUME NEW w \in Workers, Worker(w) \/ WorkerCrash(w) PROVE Memory'
  <2>1. UNCHANGED <<supervisor, active, claimed>>
    BY <1>2 DEF Worker, WorkerRead, WorkerBarrier, WorkerAwait, WorkerPublish,
       WorkerPublishAborted, WorkerRaise, WorkerRecordFailure, GuardCancelled, GuardRefused,
       WorkerExit, WorkerCrash, Transition
  <2>2. serves' = serves \/ serves' = [serves EXCEPT ![w] = NoJob]
    BY <1>2 DEF Worker, WorkerRead, WorkerBarrier, WorkerAwait, WorkerPublish,
       WorkerPublishAborted, WorkerRaise, WorkerRecordFailure, GuardCancelled, GuardRefused,
       WorkerExit, WorkerCrash, Transition, Exit, BeginWork
  <2>3. HeldJobs' \subseteq HeldJobs
    BY <2>2, JobsAssumption DEF HeldJobs, Held, Shape, TypeOK
  <2>4. [Next]_vars
    BY <1>2 DEF Next, Fault
  <2> QED BY <2>1, <2>3, <2>4, PlansKept, MemoryKept
<1>3. CASE ScheduleRollback \/ SupervisorCrash \/ CleanerCrash
  <2>1. HeldJobs' = HeldJobs
    BY <1>3 DEF ScheduleRollback, SupervisorCrash, CleanerCrash, HeldJobs, Held
  <2>2. supervisor' = "open" => UNCHANGED <<supervisor, active, claimed>>
    BY <1>3 DEF ScheduleRollback, SupervisorCrash, CleanerCrash
  <2> QED BY <1>0, <2>1, <2>2, MemoryKept
<1> QED
  BY <1>1, <1>2, <1>3 DEF Fault

LEMMA MemoryHolds == Spec => []Memory
<1>1. Shape /\ Table /\ Slots /\ Rows /\ Memory /\ [Next]_vars => Memory'
  BY MemoryCoordinator, MemoryElsewhere DEF Next
<1> QED
  BY <1>1, MemoryInit, ShapeHolds, TableHolds, SlotsHold, RowsHold, PTL DEF Spec

\* The memory allowances of the jobs that are really served never exceed
\* max_active_memory_bytes, whatever was cancelled, killed or rolled back.
THEOREM MemoryNeverExceeded == Spec => []MemoryRespected
<1>1. Memory => MemoryRespected
  BY MemoryIsSum DEF Memory, MemoryHeld, MemoryRespected, HeldJobs
<1> QED BY <1>1, MemoryHolds, PTL

Retained == SumOf(OutputFun, Reserving) <= MaxRetained

\* Nothing begins to reserve, and no plan of a row changes.
LEMMA RetainedKept ==
  ASSUME Rows, Retained, Reserving' \subseteq Reserving,
         \A j \in Jobs : state[j] # "absent" => plan'[j] = plan[j]
  PROVE  Retained'
<1>1. Reserving \in SUBSET Jobs /\ \A j \in Reserving : state[j] # "absent"
  BY DEF Reserving
<1>2. IsFiniteSet(Reserving) /\ Numbers(OutputFun, Reserving)
  BY <1>1, RowsAdd
<1>3. IsFiniteSet(Reserving') /\ Numbers(OutputFun, Reserving')
  BY <1>2, FS_Subset DEF Numbers
<1>4. /\ SumOf(OutputFun, Reserving') <= SumOf(OutputFun, Reserving)
      /\ SumOf(OutputFun, Reserving') \in Nat /\ SumOf(OutputFun, Reserving) \in Nat
  BY <1>2, <1>3, SumMonotone, SumType
<1>5. SumOf(OutputFun', Reserving') = SumOf(OutputFun, Reserving')
  BY <1>1, SumsKept
<1> QED BY <1>4, <1>5, LimitsAssumption DEF Retained

\* An admission adds the output of its plan, after the test that it fits.
LEMMA RetainedExecute ==
  ASSUME Shape, Rows, Retained, NEW j \in Jobs, NEW p \in Plans, Execute(j, p),
         \A i \in Jobs : state[i] # "absent" => plan'[i] = plan[i]
  PROVE  Retained'
<1>1. /\ Reserving \in SUBSET Jobs /\ (\A i \in Reserving : state[i] # "absent")
      /\ j \notin Reserving
  BY DEF Reserving, Execute
<1>2. Reserving' = Reserving \cup {j}
  BY DEF Execute, Reserving, fileVars, Shape, TypeOK
<1>3. OutputFun'[j] = p.output /\ p.output \in Nat
  BY PlansAssumption DEF Execute, OutputFun, Shape, TypeOK
<1>4. IsFiniteSet(Reserving) /\ Numbers(OutputFun, Reserving)
  BY <1>1, RowsAdd
<1>5. SumOf(OutputFun', Reserving) = SumOf(OutputFun, Reserving)
  BY <1>1, SumsKept
<1>6. Numbers(OutputFun', Reserving)
  BY <1>1, <1>4 DEF Numbers, OutputFun
<1>7. SumOf(OutputFun', Reserving \cup {j}) = SumOf(OutputFun', Reserving) + OutputFun'[j]
  BY <1>1, <1>3, <1>4, <1>6, SumAdd
<1>8. OutputOf(Reserving) = SumOf(OutputFun, Reserving)
  BY MemoryIsSum
<1>9. SumOf(OutputFun, Reserving) + p.output <= MaxRetained
  BY <1>8 DEF Execute
<1>10. SumOf(OutputFun', Reserving') <= MaxRetained
  BY <1>2, <1>3, <1>5, <1>7, <1>9
<1> QED BY <1>10 DEF Retained

LEMMA RetainedNext == Shape /\ Table /\ Rows /\ Retained /\ [Next]_vars => Retained'
<1> SUFFICES ASSUME Shape, Table, Rows, Retained, [Next]_vars PROVE Retained'
  OBVIOUS
<1> USE DEF Shape, TypeOK, workerVars, txVars, fileVars, tableVars
<1>0. \A j \in Jobs : state[j] # "absent" => plan'[j] = plan[j]
  BY PlansKept
<1>1. CASE \E j \in Jobs, p \in Plans : Execute(j, p)
  BY <1>0, <1>1, RetainedExecute
<1>2. ASSUME NEW j \in Jobs,
             \/ Status(j) \/ Cancel(j) \/ Resume(j)
             \/ Evaluate(j) \/ EvaluateAborted(j) \/ RemoveDirectory(j)
      PROVE  Retained'
  <2>1. bytes' \subseteq bytes
    BY <1>2 DEF Status, Cancel, Resume, Evaluate, EvaluateAborted, RemoveDirectory
  <2>2. \A i \in Jobs : \/ state'[i] = state[i]
                        \/ state[i] \notin {"absent", "expired"}
    BY <1>2 DEF Status, Cancel, Resume, Evaluate, EvaluateAborted, RemoveDirectory, Requeue,
       Freezable, TERMINAL
  <2> QED BY <1>0, <2>1, <2>2, RetainedKept DEF Reserving
<1>3. ASSUME NEW ripe \in SUBSET Jobs, Cleanup(ripe) PROVE Retained'
  <2>1. bytes' = bytes /\ \A i \in Jobs : \/ state'[i] = state[i]
                                         \/ state[i] \notin {"absent", "expired"}
    BY <1>3 DEF Cleanup, TERMINAL
  <2> QED BY <1>0, <2>1, RetainedKept DEF Reserving
<1>4. CASE Coordinator \/ ScheduleRollback \/ SupervisorCrash \/ CleanerCrash \/ UNCHANGED vars
  <2>1. CASE ScheduleCommit
    <3>1. bytes' = bytes /\ \A i \in Jobs : \/ state'[i] = state[i]
                                           \/ state[i] \notin {"absent", "expired"}
      BY <2>1 DEF ScheduleCommit, Table, TakenQueued
    <3> QED BY <1>0, <3>1, RetainedKept DEF Reserving
  <2>2. CASE ~ScheduleCommit
    <3>1. UNCHANGED <<state, bytes>>
      BY <1>4, <2>2 DEF Coordinator, StartSupervisor, ScheduleBegin, ScheduleVisit,
         ScheduleRollback, SupervisorCrash, CleanerCrash, vars
    <3> QED BY <1>0, <3>1, RetainedKept DEF Reserving
  <2> QED BY <2>1, <2>2
<1>5. ASSUME NEW w \in Workers, Worker(w) \/ WorkerCrash(w) PROVE Retained'
  <2> DEFINE j == serves[w]
  <2>1. bytes' = bytes \/ (bytes' = bytes \cup {j} /\ state[j] = "running" /\ state' = state)
    BY <1>5 DEF Worker, WorkerRead, WorkerBarrier, WorkerAwait, WorkerPublish,
       WorkerPublishAborted, WorkerRaise, WorkerRecordFailure, GuardCancelled, GuardRefused,
       WorkerExit, WorkerCrash, Transition, BeginWork
  <2>2. \A i \in Jobs : \/ state'[i] = state[i]
                        \/ state[i] = "running"
    BY <1>5 DEF Worker, WorkerRead, WorkerBarrier, WorkerAwait, WorkerPublish,
       WorkerPublishAborted, WorkerRaise, WorkerRecordFailure, GuardCancelled, GuardRefused,
       WorkerExit, WorkerCrash, Transition
  <2>3. Reserving' \subseteq Reserving
    BY <2>1, <2>2 DEF Reserving
  <2> QED BY <1>0, <2>3, RetainedKept
<1> QED
  BY <1>1, <1>2, <1>3, <1>4, <1>5 DEF Next, Caller, Fault

LEMMA RetainedHolds == Spec => []Retained
<1>1. Init => Retained
  <2> SUFFICES ASSUME Init PROVE Retained
    OBVIOUS
  <2>1. Reserving = {}
    BY DEF Init, Reserving
  <2>2. SumOf(OutputFun, {}) = 0
    BY SumEmpty
  <2> QED BY <2>1, <2>2, LimitsAssumption DEF Retained
<1> QED
  BY <1>1, RetainedNext, ShapeHolds, TableHolds, RowsHold, PTL DEF Spec

\* The directories on disk never outgrow max_retained_bytes: those of expired
\* jobs count until they are really removed.
THEOREM RetentionNeverExceeded == Spec => []RetainedBounded
<1>1. ASSUME Shape, Rows, Retained PROVE RetainedBounded
  <2>1. bytes \subseteq Reserving /\ Reserving \in SUBSET Jobs
    BY <1>1 DEF Shape, TypeOK, Rows, RowsBehind, Reserving
  <2>2. \A j \in Reserving : state[j] # "absent"
    BY DEF Reserving
  <2>3. IsFiniteSet(Reserving) /\ Numbers(OutputFun, Reserving)
    BY <1>1, <2>1, <2>2, RowsAdd
  <2>4. IsFiniteSet(bytes) /\ Numbers(OutputFun, bytes)
    BY <2>1, <2>3, FS_Subset DEF Numbers
  <2>5. /\ SumOf(OutputFun, bytes) <= SumOf(OutputFun, Reserving)
        /\ SumOf(OutputFun, bytes) \in Nat /\ SumOf(OutputFun, Reserving) \in Nat
    BY <2>1, <2>3, <2>4, SumMonotone, SumType
  <2>6. OutputOf(bytes) = SumOf(OutputFun, bytes)
    BY MemoryIsSum
  <2> QED BY <1>1, <2>5, <2>6, LimitsAssumption DEF Retained, RetainedBounded
<1> QED BY <1>1, ShapeHolds, RowsHold, RetainedHolds, PTL

(***************************************************************************)
(* Refinement: every step moves each job along JobLifecycle.  Admission    *)
(* starts at invocations 0 by Table, the freeze leaves "tuning" by Files.  *)
(***************************************************************************)
LEMMA LifeInit == Init => Life!Init
BY DEF Init, Life!Init

LEMMA LifeCaller ==
  ASSUME Shape, Files, Caller
  PROVE  Life!Next
<1> USE DEF Shape, TypeOK, TERMINAL, workerVars, txVars, fileVars, tableVars, Life!Next,
            Life!Step, Life!Stays, Life!Goes, Life!KeepsStage, Life!KeepsCount
<1>1. ASSUME NEW j \in Jobs, NEW p \in Plans, Execute(j, p) PROVE Life!Next
  BY <1>1 DEF Execute, Life!Admit
<1>2. ASSUME NEW j \in Jobs, Status(j) \/ Cancel(j) PROVE Life!Next
  BY <1>2 DEF Status, Cancel, Life!Stop, States
<1>3. ASSUME NEW j \in Jobs, Resume(j) PROVE Life!Next
  BY <1>3 DEF Resume, Requeue, Life!Requeue, Life!Resumable, States
<1>4. ASSUME NEW j \in Jobs, Evaluate(j) PROVE Life!Next
  <2>1. stage[j] = "tuning"
    BY <1>4 DEF Evaluate, Freezable, Files, StageOfPlan, Stages
  <2> QED BY <1>4, <2>1 DEF Evaluate, Freezable, Requeue, Life!Freeze
<1>5. ASSUME NEW j \in Jobs, EvaluateAborted(j) \/ RemoveDirectory(j) PROVE Life!Next
  BY <1>5 DEF EvaluateAborted, RemoveDirectory
<1>6. ASSUME NEW ripe \in SUBSET Jobs, Cleanup(ripe) PROVE Life!Next
  BY <1>6 DEF Cleanup, Life!Expire, Life!Finished
<1> QED
  BY <1>1, <1>2, <1>3, <1>4, <1>5, <1>6 DEF Caller

LEMMA LifeCoordinator ==
  ASSUME Shape, Table, Coordinator
  PROVE  Life!Next \/ UNCHANGED Life!vars
<1> USE DEF tableVars, Life!vars
<1>1. CASE StartSupervisor \/ ScheduleBegin \/ ScheduleVisit
  BY <1>1 DEF StartSupervisor, ScheduleBegin, ScheduleVisit
<1>2. CASE ScheduleCommit
  <2> SUFFICES ASSUME NEW j \in Jobs PROVE Life!Step(j)
    BY DEF Life!Next
  <2>1. /\ stage' = stage
        /\ state'[j] = IF j \in claimed THEN "running"
                       ELSE IF j \in refused THEN "failed"
                       ELSE IF state[j] = "running" /\ j \notin active THEN "interrupted"
                       ELSE state[j]
        /\ invocations'[j] = IF j \in claimed THEN invocations[j] + 1 ELSE invocations[j]
    BY <1>2 DEF ScheduleCommit
  <2>2. CASE j \in claimed
    BY <2>1, <2>2 DEF Table, TakenQueued, TakenFunds, Life!Step, Life!Claim, Life!Goes,
       Life!KeepsStage
  <2>3. CASE j \in refused /\ j \notin claimed
    BY <2>1, <2>3 DEF Table, TakenQueued, TakenFunds, Life!Step, Life!Exhaust, Life!Goes,
       Life!KeepsStage, Life!KeepsCount
  <2>4. CASE j \notin refused /\ j \notin claimed
    BY <2>1, <2>4 DEF Life!Step, Life!Stop, Life!Stays, Life!Goes, Life!KeepsStage,
       Life!KeepsCount
  <2> QED BY <2>2, <2>3, <2>4
<1> QED BY <1>1, <1>2 DEF Coordinator

LEMMA LifeWorker ==
  ASSUME Shape, NEW w \in Workers, Worker(w)
  PROVE  Life!Next \/ UNCHANGED Life!vars
<1> DEFINE j == serves[w]
<1> USE DEF tableVars, Life!vars
<1>1. ASSUME state[j] = "running", state' = [state EXCEPT ![j] = "failed"] \/
                                   state' = [state EXCEPT ![j] = "interrupted"],
             UNCHANGED <<stage, invocations>>
      PROVE  Life!Next
  BY <1>1 DEF Shape, TypeOK, Life!Next, Life!Step, Life!Stop, Life!Stays, Life!Goes,
     Life!KeepsStage, Life!KeepsCount
<1>2. CASE WorkerRead(w) \/ WorkerBarrier(w) \/ WorkerPublishAborted(w) \/ WorkerRaise(w)
             \/ GuardCancelled(w) \/ WorkerExit(w)
  BY <1>2 DEF WorkerRead, WorkerBarrier, WorkerPublishAborted, WorkerRaise, GuardCancelled,
     WorkerExit
<1>3. CASE WorkerAwait(w)
  BY <1>3 DEF WorkerAwait, Transition, Shape, TypeOK, Life!Next, Life!Step, Life!Await,
     Life!Stays, Life!Goes, Life!KeepsStage, Life!KeepsCount
<1>4. CASE WorkerPublish(w)
  BY <1>4 DEF WorkerPublish, Transition, Shape, TypeOK, Life!Next, Life!Step, Life!Complete,
     Life!Stays, Life!Goes, Life!KeepsStage, Life!KeepsCount
<1>5. CASE WorkerRecordFailure(w)
  BY <1>1, <1>5 DEF WorkerRecordFailure, Transition
<1>6. CASE GuardRefused(w)
  <2>1. CASE state[j] = "running"
    BY <1>1, <1>6, <2>1 DEF GuardRefused
  <2>2. CASE state[j] # "running"
    BY <1>6, <2>2 DEF GuardRefused, Shape, TypeOK
  <2> QED BY <2>1, <2>2
<1> QED
  BY <1>2, <1>3, <1>4, <1>5, <1>6 DEF Worker

LEMMA LifeNext == Shape /\ Table /\ Files /\ [Next]_vars => [Life!Next]_(Life!vars)
<1> SUFFICES ASSUME Shape, Table, Files, [Next]_vars PROVE Life!Next \/ UNCHANGED Life!vars
  OBVIOUS
<1>1. CASE UNCHANGED vars
  BY <1>1 DEF vars, tableVars, Life!vars
<1>2. CASE Fault
  BY <1>2 DEF Fault, ScheduleRollback, SupervisorCrash, CleanerCrash, WorkerCrash, tableVars,
     Life!vars
<1> QED
  BY <1>1, <1>2, LifeCaller, LifeCoordinator, LifeWorker DEF Next

\* Whatever the callers, the coordinator, the workers and their crashes do, every
\* job only goes through the transitions JobLifecycle promises.
THEOREM LifecycleImplemented == Spec => ImplementsLifecycle
BY LifeInit, LifeNext, ShapeHolds, TableHolds, FilesHolds, PTL
   DEF Spec, ImplementsLifecycle, Life!Spec
=============================================================================
