----------------------- MODULE SupervisorHandshake_proofs -----------------------
(***************************************************************************)
(* What SupervisorHandshake promises for any callers, coordinator slots    *)
(* and bounds: one coordinator at a time, nothing queued that nobody looks *)
(* for, and no acknowledgement of work that no poll has seen.              *)
(***************************************************************************)
EXTENDS SupervisorHandshake, TLAPS

\* The coordinators that still hold the lock.
Watching == {s \in Coordinators : phase[s] \in {"polling", "open"}}

\* A caller that has the number of the observation it waits for.
Asked(c) == at[c] \notin {"idle", "admitted"}

\* Who has a copy of the locked descriptor: a caller between taking the lock and
\* leaving the handoff, and the coordinator that inherited it.  A caller that has
\* not spawned yet is alone.
Lock ==
  /\ copies \cap Coordinators = Watching
  /\ \A c \in Callers : c \in copies <=> at[c] \in {"holding", "spawned"}
  /\ \A c \in Callers : at[c] = "holding" => copies = {c}
  /\ \A r, s \in Watching : r = s

\* The database has one writer; a coordinator that has closed its descriptor
\* still excludes admissions, and nothing is queued.
Transaction ==
  /\ \A s \in Coordinators : phase[s] \in {"open", "closed"} <=> writer = s
  /\ \A s \in Coordinators : phase[s] = "closed" => Queued = {}

\* A queued job has a caller on its way or a coordinator, and a caller that would
\* find itself acknowledged leaves its job with a coordinator.
Watched ==
  \A c \in Queued \ abandoned :
    \/ Watching # {}
    \/ at[c] = "admitted"
    \/ Asked(c) /\ observed < generation[c]

\* The observation a caller waits for is a poll after its admission.
Acknowledged ==
  /\ acked \subseteq seen
  /\ \A c \in seen : job[c] # "none"
  /\ \A c \in Callers : at[c] # "idle" => job[c] # "none"
  /\ \A c \in Callers : Asked(c) /\ observed >= generation[c] => c \in seen

IInv == TypeOK /\ Lock /\ Transaction /\ Watched /\ Acknowledged

-----------------------------------------------------------------------------
\* Types.
LEMMA TypeOKKept ==
  ASSUME TypeOK, [Next]_vars
  PROVE  TypeOK'
<1> USE NamesAssumption, BoundsAssumption DEF TypeOK, jobVars, progress, history, Queued
<1>1. ASSUME NEW c \in Callers, Admit(c)  PROVE TypeOK'
  BY <1>1 DEF Admit
<1>2. ASSUME NEW c \in Callers, Retry(c)  PROVE TypeOK'
  BY <1>2 DEF Retry
<1>3. ASSUME NEW c \in Callers, Cancel(c)  PROVE TypeOK'
  BY <1>3 DEF Cancel
<1>4. ASSUME NEW c \in Callers, Request(c)  PROVE TypeOK'
  BY <1>4 DEF Request
<1>5. ASSUME NEW c \in Callers, Look(c)  PROVE TypeOK'
  BY <1>5 DEF Look
<1>6. ASSUME NEW c \in Callers, TryLock(c)  PROVE TypeOK'
  BY <1>6 DEF TryLock
<1>7. ASSUME NEW c \in Callers, CloseCopy(c)  PROVE TypeOK'
  BY <1>7 DEF CloseCopy
<1>8. ASSUME NEW c \in Callers, GiveUp(c)  PROVE TypeOK'
  BY <1>8 DEF GiveUp, Fail
<1>9. ASSUME NEW c \in Callers, WorkerEnds(c)  PROVE TypeOK'
  BY <1>9 DEF WorkerEnds
<1>10. ASSUME NEW c \in Callers, NEW s \in Coordinators, Spawn(c, s)  PROVE TypeOK'
  BY <1>10 DEF Spawn
<1>11. ASSUME NEW s \in Coordinators, Open(s)  PROVE TypeOK'
  BY <1>11 DEF Open
<1>12. ASSUME NEW s \in Coordinators, Commit(s)  PROVE TypeOK'
  BY <1>12 DEF Commit, Observe, Claims, Pending
<1>13. ASSUME NEW s \in Coordinators, Close(s)  PROVE TypeOK'
  BY <1>13 DEF Close, Pending
<1>14. ASSUME NEW s \in Coordinators, Retire(s)  PROVE TypeOK'
  BY <1>14 DEF Retire, Observe
<1>15. ASSUME NEW s \in Coordinators, Rollback(s)  PROVE TypeOK'
  BY <1>15 DEF Rollback, Fail, Claims
<1>16. ASSUME NEW s \in Coordinators, Die(s)  PROVE TypeOK'
  BY <1>16 DEF Die, Fail
<1>17. CASE UNCHANGED vars
  BY <1>17 DEF vars, jobVars, progress, history
<1> QED
  BY <1>1, <1>2, <1>3, <1>4, <1>5, <1>6, <1>7, <1>8, <1>9, <1>10, <1>11, <1>12, <1>13,
     <1>14, <1>15, <1>16, <1>17 DEF Next, Ensure, Coordinate

\* The lock is taken when every copy is closed, and a coordinator gets its copy from
\* the one caller that has it.
LEMMA LockKept ==
  ASSUME TypeOK, Lock, [Next]_vars
  PROVE  Lock'
<1> USE NamesAssumption, BoundsAssumption
        DEF TypeOK, Lock, Watching, jobVars, progress, history
<1>1. ASSUME NEW c \in Callers, Admit(c)  PROVE Lock'
  BY <1>1 DEF Admit
<1>2. ASSUME NEW c \in Callers, Retry(c)  PROVE Lock'
  BY <1>2 DEF Retry
<1>3. ASSUME NEW c \in Callers, Cancel(c)  PROVE Lock'
  BY <1>3 DEF Cancel
<1>4. ASSUME NEW c \in Callers, Request(c)  PROVE Lock'
  BY <1>4 DEF Request
<1>5. ASSUME NEW c \in Callers, Look(c)  PROVE Lock'
  BY <1>5 DEF Look
<1>6. ASSUME NEW c \in Callers, TryLock(c)  PROVE Lock'
  BY <1>6 DEF TryLock
<1>7. ASSUME NEW c \in Callers, CloseCopy(c)  PROVE Lock'
  BY <1>7 DEF CloseCopy
<1>8. ASSUME NEW c \in Callers, GiveUp(c)  PROVE Lock'
  BY <1>8 DEF GiveUp, Fail
<1>9. ASSUME NEW c \in Callers, WorkerEnds(c)  PROVE Lock'
  BY <1>9 DEF WorkerEnds
<1>10. ASSUME NEW c \in Callers, NEW s \in Coordinators, Spawn(c, s)  PROVE Lock'
  BY <1>10 DEF Spawn
<1>11. ASSUME NEW s \in Coordinators, Open(s)  PROVE Lock'
  BY <1>11 DEF Open
<1>12. ASSUME NEW s \in Coordinators, Commit(s)  PROVE Lock'
  BY <1>12 DEF Commit, Observe, Claims, Pending
<1>13. ASSUME NEW s \in Coordinators, Close(s)  PROVE Lock'
  BY <1>13 DEF Close, Pending
<1>14. ASSUME NEW s \in Coordinators, Retire(s)  PROVE Lock'
  BY <1>14 DEF Retire, Observe
<1>15. ASSUME NEW s \in Coordinators, Rollback(s)  PROVE Lock'
  BY <1>15 DEF Rollback, Fail, Claims
<1>16. ASSUME NEW s \in Coordinators, Die(s)  PROVE Lock'
  BY <1>16 DEF Die, Fail
<1>17. CASE UNCHANGED vars
  BY <1>17 DEF vars, jobVars, progress, history
<1> QED
  BY <1>1, <1>2, <1>3, <1>4, <1>5, <1>6, <1>7, <1>8, <1>9, <1>10, <1>11, <1>12, <1>13,
     <1>14, <1>15, <1>16, <1>17 DEF Next, Ensure, Coordinate

\* While a coordinator's transaction is open nobody else writes.
LEMMA TransactionKept ==
  ASSUME TypeOK, Transaction, [Next]_vars
  PROVE  Transaction'
<1> USE NamesAssumption, BoundsAssumption
        DEF TypeOK, Transaction, jobVars, progress, history, Unlocked, Queued
<1>1. ASSUME NEW c \in Callers, Admit(c)  PROVE Transaction'
  BY <1>1 DEF Admit
<1>2. ASSUME NEW c \in Callers, Retry(c)  PROVE Transaction'
  BY <1>2 DEF Retry
<1>3. ASSUME NEW c \in Callers, Cancel(c)  PROVE Transaction'
  BY <1>3 DEF Cancel
<1>4. ASSUME NEW c \in Callers, Request(c)  PROVE Transaction'
  BY <1>4 DEF Request
<1>5. ASSUME NEW c \in Callers, Look(c)  PROVE Transaction'
  BY <1>5 DEF Look
<1>6. ASSUME NEW c \in Callers, TryLock(c)  PROVE Transaction'
  BY <1>6 DEF TryLock
<1>7. ASSUME NEW c \in Callers, CloseCopy(c)  PROVE Transaction'
  BY <1>7 DEF CloseCopy
<1>8. ASSUME NEW c \in Callers, GiveUp(c)  PROVE Transaction'
  BY <1>8 DEF GiveUp, Fail
<1>9. ASSUME NEW c \in Callers, WorkerEnds(c)  PROVE Transaction'
  BY <1>9 DEF WorkerEnds
<1>10. ASSUME NEW c \in Callers, NEW s \in Coordinators, Spawn(c, s)  PROVE Transaction'
  BY <1>10 DEF Spawn
<1>11. ASSUME NEW s \in Coordinators, Open(s)  PROVE Transaction'
  BY <1>11 DEF Open
<1>12. ASSUME NEW s \in Coordinators, Commit(s)  PROVE Transaction'
  BY <1>12 DEF Commit, Observe, Claims, Pending
<1>13. ASSUME NEW s \in Coordinators, Close(s)  PROVE Transaction'
  BY <1>13 DEF Close, Pending
<1>14. ASSUME NEW s \in Coordinators, Retire(s)  PROVE Transaction'
  BY <1>14 DEF Retire, Observe
<1>15. ASSUME NEW s \in Coordinators, Rollback(s)  PROVE Transaction'
  BY <1>15 DEF Rollback, Fail, Claims
<1>16. ASSUME NEW s \in Coordinators, Die(s)  PROVE Transaction'
  BY <1>16 DEF Die, Fail
<1>17. CASE UNCHANGED vars
  BY <1>17 DEF vars, jobVars, progress, history
<1> QED
  BY <1>1, <1>2, <1>3, <1>4, <1>5, <1>6, <1>7, <1>8, <1>9, <1>10, <1>11, <1>12, <1>13,
     <1>14, <1>15, <1>16, <1>17 DEF Next, Ensure, Coordinate

\* A coordinator leaves only when nothing is queued; a caller only when it was
\* acknowledged, and then the coordinator that observed its work is there.
LEMMA WatchedKept ==
  ASSUME TypeOK, Transaction, Watched, [Next]_vars
  PROVE  Watched'
<1> USE NamesAssumption, BoundsAssumption
    DEF TypeOK, Transaction, Watched, Watching, Asked, jobVars, progress, history, Queued
<1>1. ASSUME NEW c \in Callers, Admit(c)  PROVE Watched'
  BY <1>1 DEF Admit
<1>2. ASSUME NEW c \in Callers, Retry(c)  PROVE Watched'
  BY <1>2 DEF Retry
<1>3. ASSUME NEW c \in Callers, Cancel(c)  PROVE Watched'
  BY <1>3 DEF Cancel
<1>4. ASSUME NEW c \in Callers, Request(c)  PROVE Watched'
  BY <1>4 DEF Request
<1>5. ASSUME NEW c \in Callers, Look(c)  PROVE Watched'
  BY <1>5 DEF Look
<1>6. ASSUME NEW c \in Callers, TryLock(c)  PROVE Watched'
  BY <1>6 DEF TryLock
<1>7. ASSUME NEW c \in Callers, CloseCopy(c)  PROVE Watched'
  BY <1>7 DEF CloseCopy
<1>8. ASSUME NEW c \in Callers, GiveUp(c)  PROVE Watched'
  BY <1>8 DEF GiveUp, Fail
<1>9. ASSUME NEW c \in Callers, WorkerEnds(c)  PROVE Watched'
  BY <1>9 DEF WorkerEnds
<1>10. ASSUME NEW c \in Callers, NEW s \in Coordinators, Spawn(c, s)  PROVE Watched'
  BY <1>10 DEF Spawn
<1>11. ASSUME NEW s \in Coordinators, Open(s)  PROVE Watched'
  BY <1>11 DEF Open
<1>12. ASSUME NEW s \in Coordinators, Commit(s)  PROVE Watched'
  BY <1>12 DEF Commit, Observe, Claims, Pending
<1>13. ASSUME NEW s \in Coordinators, Close(s)  PROVE Watched'
  BY <1>13 DEF Close, Pending
<1>14. ASSUME NEW s \in Coordinators, Retire(s)  PROVE Watched'
  BY <1>14 DEF Retire, Observe
<1>15. ASSUME NEW s \in Coordinators, Rollback(s)  PROVE Watched'
  BY <1>15 DEF Rollback, Fail, Claims
<1>16. ASSUME NEW s \in Coordinators, Die(s)  PROVE Watched'
  BY <1>16 DEF Die, Fail
<1>17. CASE UNCHANGED vars
  BY <1>17 DEF vars, jobVars, progress, history
<1> QED
  BY <1>1, <1>2, <1>3, <1>4, <1>5, <1>6, <1>7, <1>8, <1>9, <1>10, <1>11, <1>12, <1>13,
     <1>14, <1>15, <1>16, <1>17 DEF Next, Ensure, Coordinate

\* A poll sees every job that is admitted when it commits, and a caller asks for a
\* generation that no poll has observed yet.
LEMMA AcknowledgedKept ==
  ASSUME TypeOK, Acknowledged, [Next]_vars
  PROVE  Acknowledged'
<1> USE NamesAssumption, BoundsAssumption
        DEF TypeOK, Acknowledged, Asked, jobVars, progress, history
<1>1. ASSUME NEW c \in Callers, Admit(c)  PROVE Acknowledged'
  BY <1>1 DEF Admit
<1>2. ASSUME NEW c \in Callers, Retry(c)  PROVE Acknowledged'
  BY <1>2 DEF Retry
<1>3. ASSUME NEW c \in Callers, Cancel(c)  PROVE Acknowledged'
  BY <1>3 DEF Cancel
<1>4. ASSUME NEW c \in Callers, Request(c)  PROVE Acknowledged'
  BY <1>4 DEF Request
<1>5. ASSUME NEW c \in Callers, Look(c)  PROVE Acknowledged'
  BY <1>5 DEF Look
<1>6. ASSUME NEW c \in Callers, TryLock(c)  PROVE Acknowledged'
  BY <1>6 DEF TryLock
<1>7. ASSUME NEW c \in Callers, CloseCopy(c)  PROVE Acknowledged'
  BY <1>7 DEF CloseCopy
<1>8. ASSUME NEW c \in Callers, GiveUp(c)  PROVE Acknowledged'
  BY <1>8 DEF GiveUp, Fail
<1>9. ASSUME NEW c \in Callers, WorkerEnds(c)  PROVE Acknowledged'
  BY <1>9 DEF WorkerEnds
<1>10. ASSUME NEW c \in Callers, NEW s \in Coordinators, Spawn(c, s)  PROVE Acknowledged'
  BY <1>10 DEF Spawn
<1>11. ASSUME NEW s \in Coordinators, Open(s)  PROVE Acknowledged'
  BY <1>11 DEF Open
<1>12. ASSUME NEW s \in Coordinators, Commit(s)  PROVE Acknowledged'
  BY <1>12 DEF Commit, Observe, Claims, Pending
<1>13. ASSUME NEW s \in Coordinators, Close(s)  PROVE Acknowledged'
  BY <1>13 DEF Close, Pending
<1>14. ASSUME NEW s \in Coordinators, Retire(s)  PROVE Acknowledged'
  BY <1>14 DEF Retire, Observe
<1>15. ASSUME NEW s \in Coordinators, Rollback(s)  PROVE Acknowledged'
  BY <1>15 DEF Rollback, Fail, Claims
<1>16. ASSUME NEW s \in Coordinators, Die(s)  PROVE Acknowledged'
  BY <1>16 DEF Die, Fail
<1>17. CASE UNCHANGED vars
  BY <1>17 DEF vars, jobVars, progress, history
<1> QED
  BY <1>1, <1>2, <1>3, <1>4, <1>5, <1>6, <1>7, <1>8, <1>9, <1>10, <1>11, <1>12, <1>13,
     <1>14, <1>15, <1>16, <1>17 DEF Next, Ensure, Coordinate
-----------------------------------------------------------------------------
LEMMA Invariance == Spec => []IInv
<1>1. Init => IInv
  BY NamesAssumption, BoundsAssumption DEF Init, IInv, TypeOK, Lock, Watching, Transaction,
     Queued, Watched, Asked, Acknowledged
<1>2. IInv /\ [Next]_vars => IInv'
  BY TypeOKKept, LockKept, TransactionKept, WatchedKept, AcknowledgedKept DEF IInv
<1> QED
  BY <1>1, <1>2, PTL DEF Spec

\* Types: the generations a caller waits for and the coordinator reports stay within
\* _MAX_GENERATION, and what was observed was requested.
THEOREM TypeCorrect == Spec => []TypeOK
<1>1. IInv => TypeOK
  BY DEF IInv
<1> QED
  BY <1>1, Invariance, PTL

\* A workspace never has two coordinators that may still act, whoever spawned them
\* and whichever process closed or lost its copy of the lock.
THEOREM OneCoordinator == Spec => []SingleCoordinator
<1>1. IInv => SingleCoordinator
  BY DEF IInv, TypeOK, Lock, Watching, SingleCoordinator, Alive
<1> QED
  BY <1>1, Invariance, PTL

\* A queued job always has a coordinator that will poll again or a caller on its way
\* to one, unless something failed since.
THEOREM WorkIsWatched == Spec => []QueuedIsWatched
<1>1. IInv => QueuedIsWatched
  BY DEF IInv, TypeOK, Watched, Watching, Asked, QueuedIsWatched, Alive, Queued
<1> QED
  BY <1>1, Invariance, PTL

\* ensure_supervisor returns to its caller only after a poll that saw the caller's job
\* has committed.
THEOREM AcknowledgementIsHonest == Spec => []AckedIsSeen
<1>1. IInv => AckedIsSeen
  BY DEF IInv, Acknowledged, AckedIsSeen
<1> QED
  BY <1>1, Invariance, PTL
=============================================================================
