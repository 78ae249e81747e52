------------------------- MODULE WorkflowAttempt_proofs -------------------------
(***************************************************************************)
(* For any coordinates, frontiers, selections and limits: whatever kills a *)
(* worker between which two writes, the rows a marker commits are there    *)
(* exactly once, what the row acknowledged is durable, attempts are        *)
(* counted, a completed job is backed by its files, and held-out builds    *)
(* wait for the choice.                                                    *)
(***************************************************************************)
EXTENDS WorkflowAttempt, FunctionTheorems, FiniteSetTheorems, TLAPS

\* The retained event files.
Files == {f \in Trials \X (1..MaxAttempts) : f[2] <= events[f[1]]}

\* A worker that has not stopped working.
Live == pc \notin {"none", "failing", "exiting"}

\* A native execution of the current trial has begun.
Executing == pc \in Learning \cup {"recovering"}

\* The row belongs to a live worker until somebody cancels it, and the stage
\* follows the kind of the plan.
Staged ==
  /\ Live => state \in {"running", "cancelled"}
  /\ pc \in Learning \cup {"checked", "reserved", "recovering", "received"} => idx \in Listed
  /\ IF Protected THEN stage \in {"tuning", "evaluation"} ELSE stage = "descriptive"
  /\ stage = "evaluation" => state # "absent" /\ handoff # {}
  /\ state = "awaiting_evaluation" => stage = "tuning"
  /\ state = "completed" \/ pc \in {"reuse", "report"} \/ report > 0 => stage # "tuning"

\* What the process has learned, what the marker commits and what is published: one
\* build at most is ahead of the marker, and nothing is published beyond the process.
Frontier ==
  Executing =>
    /\ at = IF pc \in {"flushed", "saving"} THEN marker[Trial] + 1 ELSE marker[Trial]
    /\ pc # "recovering" => \A s \in Builds : s > at => rows[Trial][s] = 0
    /\ pc \in {"flushed", "saving"} => rows[Trial][at] = 1

\* A trial that was reserved has an event, and the one that is about to run has one
\* more than it has runs.
Reserved ==
  /\ \A t \in Trials : starts[t] <= events[t]
  /\ pc = "reserved" => starts[Trial] < events[Trial]
  /\ Executing => events[Trial] > 0
  /\ \A r \in receipts : events[r[1]] > 0
  /\ attempts <= Retained

\* The loop leaves receipts behind it, and a report speaks of all of them; where one
\* was found at the beginning the loop is not entered.
Receipted ==
  /\ Live /\ pc \notin {"starting", "reuse"} =>
       \A i \in Listed : i < idx \/ pc = "report" => <<Coordinates[i], stage>> \in receipts
  /\ pc = "received" => <<Trial, stage>> \in receipts
  /\ Live /\ pc \notin {"starting", "reuse", "report"} => report = 0
  /\ pc = "reuse" => report > 0
  /\ pc = "report" => report > 0 /\ report = Retained

IInv ==
  /\ TypeOK /\ Staged /\ CommittedRowsExact /\ AcknowledgedIsDurable /\ Frontier
  /\ Reserved /\ Receipted /\ CompletedIsBacked /\ HeldOutIsProtected

-----------------------------------------------------------------------------
(* Counting.                                                               *)

LEMMA TrialsListed ==
  /\ DOMAIN Coordinates = 1..Len(Coordinates) /\ Len(Coordinates) \in Nat \ {0}
  /\ \A i \in DOMAIN Coordinates : Coordinates[i] \in Trials
  /\ \A t \in Trials : \E i \in DOMAIN Coordinates : Coordinates[i] = t
  /\ IsFiniteSet(Trials) /\ IsFiniteSet(DOMAIN Coordinates)
<1>1. DOMAIN Coordinates = 1..Len(Coordinates) /\ Len(Coordinates) \in Nat \ {0}
  BY CoordinatesAssumption
<1>2. IsFiniteSet(DOMAIN Coordinates)
  BY <1>1, FS_Interval
<1>3. /\ \A i \in DOMAIN Coordinates : Coordinates[i] \in Trials
      /\ \A t \in Trials : \E i \in DOMAIN Coordinates : Coordinates[i] = t
  BY DEF Trials, Range
<1>4. Coordinates \in Surjection(DOMAIN Coordinates, Trials)
  BY <1>1, <1>3, CoordinatesAssumption DEF Surjection
<1>5. IsFiniteSet(Trials)
  BY <1>2, <1>4, FS_Surjection
<1> QED BY <1>1, <1>2, <1>3, <1>5

\* Some coordinate of the stage exists; any part of them is counted within the plan.
LEMMA ListedCounted ==
  ASSUME TypeOK, Staged
  PROVE  /\ Listed # {} /\ Listed \subseteq DOMAIN Coordinates
         /\ \A S \in SUBSET Listed : Cardinality(S) \in 0..Len(Coordinates)
<1>1. Listed \subseteq DOMAIN Coordinates
  BY DEF Listed
<1>2. Listed # {}
  <2>1. CASE stage = "evaluation"
    <3>1. PICK t \in handoff : TRUE
      BY <2>1 DEF Staged
    <3>2. t \in Trials
      BY DEF TypeOK
    <3>3. PICK i \in DOMAIN Coordinates : Coordinates[i] = t
      BY <3>2, TrialsListed
    <3> QED BY <3>1, <3>3 DEF Listed
  <2>2. CASE stage # "evaluation"
    BY <2>2, TrialsListed DEF Listed
  <2> QED BY <2>1, <2>2
<1>3. ASSUME NEW S \in SUBSET Listed
      PROVE  Cardinality(S) \in 0..Len(Coordinates)
  <2>1. S \in SUBSET (DOMAIN Coordinates)
    BY <1>1
  <2>2. IsFiniteSet(S) /\ Cardinality(S) <= Cardinality(DOMAIN Coordinates)
    BY <2>1, TrialsListed, FS_Subset
  <2>3. Cardinality(S) \in Nat
    BY <2>2, FS_CardinalityType
  <2>4. Cardinality(DOMAIN Coordinates) = Len(Coordinates)
    BY TrialsListed, FS_Interval
  <2> QED BY <2>2, <2>3, <2>4, TrialsListed
<1> QED BY <1>1, <1>2, <1>3

LEMMA FilesFinite == IsFiniteSet(Files) /\ Retained \in Nat /\ Retained = Cardinality(Files)
<1>0. IsFiniteSet(1..MaxAttempts)
  BY BoundsAssumption, FS_Interval
<1>1. IsFiniteSet(Trials \X (1..MaxAttempts))
  BY <1>0, TrialsListed, FS_Product
<1>2. IsFiniteSet(Files)
  BY <1>1, FS_Subset DEF Files
<1> QED BY <1>2, FS_CardinalityType DEF Retained, Files

\* An event makes a report possible.
LEMMA RetainedPositive ==
  ASSUME TypeOK, NEW t \in Trials, events[t] > 0
  PROVE  Retained > 0
<1>0. events[t] \in 0..MaxAttempts /\ 1 <= events[t] /\ 1 \in 1..MaxAttempts
  BY BoundsAssumption DEF TypeOK
<1>1. <<t, 1>> \in Files
  BY <1>0 DEF Files
<1>2. Cardinality(Files) # 0
  BY <1>1, FilesFinite, FS_EmptySet
<1> QED BY <1>2, FilesFinite

\* One more event is one more retained attempt.
LEMMA RetainedGrows ==
  ASSUME TypeOK, NEW t \in Trials, events[t] < MaxAttempts,
         events' = [events EXCEPT ![t] = @ + 1]
  PROVE  Retained' = Retained + 1
<1> DEFINE f == <<t, events[t] + 1>>
<1>1. f \notin Files
  BY DEF Files, TypeOK
<1>2. Files' = Files \cup {f}
  <2>1. \A u \in Trials : events[u] \in 0..MaxAttempts
                       /\ events'[u] = IF u = t THEN events[u] + 1 ELSE events[u]
    BY DEF TypeOK
  <2>2. \A g \in Trials \X (1..MaxAttempts) :
          g[2] <= events'[g[1]] <=> g[2] <= events[g[1]] \/ g = f
    BY <2>1, BoundsAssumption
  <2>3. f \in Trials \X (1..MaxAttempts)
    BY <2>1, BoundsAssumption
  <2> QED BY <2>2, <2>3 DEF Files
<1>3. Cardinality(Files \cup {f}) = Cardinality(Files) + 1
  BY <1>1, FilesFinite, FS_AddElement
<1>4. Retained' = Cardinality(Files')
  BY DEF Retained, Files
<1> QED BY <1>2, <1>3, <1>4, FilesFinite

-----------------------------------------------------------------------------
\* What the worker runs is a coordinate of the plan.
LEMMA TrialInPlan ==
  ASSUME TypeOK, idx \in Listed
  PROVE  Trial \in Trials /\ idx \in DOMAIN Coordinates
BY TrialsListed DEF Listed, Trial

\* The loop goes on to a coordinate of the stage or past the end.
LEMMA AfterInLoop == \A i : After(i) \subseteq 1..(Len(Coordinates) + 1)
<1>1. Listed \subseteq 1..(Len(Coordinates) + 1)
  BY TrialsListed DEF Listed
<1>2. Len(Coordinates) + 1 \in 1..(Len(Coordinates) + 1)
  BY TrialsListed
<1> QED BY <1>1, <1>2 DEF After

\* Rows change for one trial and one build at a time.
LEMMA RowsTyped ==
  ASSUME rows \in [Trials -> [Builds -> Nat]], NEW u \in Trials, NEW b \in Builds,
         NEW n \in Nat
  PROVE  /\ [rows EXCEPT ![u][b] = n] \in [Trials -> [Builds -> Nat]]
         /\ [rows EXCEPT ![u][b] = @ + 1] \in [Trials -> [Builds -> Nat]]
         /\ \A t \in Trials, s \in Builds :
              /\ [rows EXCEPT ![u][b] = n][t][s] = IF t = u /\ s = b THEN n ELSE rows[t][s]
              /\ [rows EXCEPT ![u][b] = @ + 1][t][s] =
                   IF t = u /\ s = b THEN rows[t][s] + 1 ELSE rows[t][s]
<1>1. /\ [rows[u] EXCEPT ![b] = n] \in [Builds -> Nat]
      /\ [rows[u] EXCEPT ![b] = @ + 1] \in [Builds -> Nat]
  OBVIOUS
<1> QED BY <1>1

\* Types.
LEMMA TypeOKKept ==
  ASSUME TypeOK, Staged, Frontier, [Next]_vars
  PROVE  TypeOK'
<1> USE FrontierAssumption, BoundsAssumption DEF TypeOK, Stages, States, Phases, Learning, Builds
<1>0. Prefix \in 0..Horizon /\ Horizon \in 0..Horizon
  OBVIOUS
<1>1. CASE Execute \/ Cancel \/ Status \/ Resume
  BY <1>1 DEF Execute, Cancel, Status, Resume, Moves, nativeVars, jobVars, loopVars, history
<1>2. CASE Evaluate \/ EvaluateAborted
  <2>1. handoff' \subseteq Trials
    BY <1>2, SelectionsAssumption DEF Evaluate, EvaluateAborted, Freeze
  <2>2. CASE Evaluate
    <3>1. /\ state' \in States /\ stage' \in Stages /\ current' = NoTrial
          /\ done' \in 0..Len(Coordinates) /\ step' \in 0..Horizon
      BY <2>2, TrialsListed DEF Evaluate
    <3>2. UNCHANGED <<invocations, attempts, events, receipts, report, rows, intact, marker, pc,
                      snapshot, idx, floor, at, acked, starts, losses>>
      BY <2>2 DEF Evaluate, nativeVars, loopVars, history
    <3> QED BY <2>1, <3>1, <3>2
  <2>3. CASE EvaluateAborted
    BY <2>1, <2>3 DEF EvaluateAborted, Freeze, rowVars, nativeVars, loopVars, history
  <2> QED BY <1>2, <2>2, <2>3
<1>3. CASE Claim
  <2>1. state' \in States /\ invocations' \in 0..MaxAttempts /\ pc' \in Phases
    BY <1>3 DEF Claim, Goto
  <2>2. UNCHANGED <<stage, attempts, current, step, done, events, receipts, handoff, report, rows,
                    intact, marker, snapshot, idx, floor, at, acked, starts, losses>>
    BY <1>3 DEF Claim, nativeVars, jobVars, loopVars, history
  <2> QED BY <2>1, <2>2
<1>4. CASE Begin
  <2>1. Retained \in Nat
    BY FilesFinite
  <2>2. idx' \in 1..(Len(Coordinates) + 1)
    BY <1>4, AfterInLoop DEF Begin
  <2>3. snapshot' \in [current : Trials \cup {NoTrial}, step : 0..Horizon]
    BY <1>4 DEF Begin
  <2>4. /\ attempts' \in Nat /\ pc' \in Phases /\ floor' \in 0..Horizon /\ at' \in 0..Horizon
        /\ UNCHANGED <<state, stage, invocations, current, step, done, events, receipts,
                       handoff, report, rows, intact, marker, acked, starts, losses>>
    BY <1>4, <2>1 DEF Begin, nativeVars, jobVars, history, Goto
  <2> HIDE FrontierAssumption, BoundsAssumption DEF Phases, States, Stages, Learning, Builds
  <2> QED BY <2>2, <2>3, <2>4
<1>5. CASE ReuseReport
  <2>1. done' \in 0..Len(Coordinates)
    BY <1>5, ListedCounted DEF ReuseReport, Larger
  <2> QED BY <1>5, <2>1 DEF ReuseReport, nativeVars, jobVars, loopVars, history, Goto
<1>6. CASE ReuseReceipt \/ FinishTrial
  <2> USE DEF ReuseReceipt, FinishTrial, RecordTrial
  <2>1. done' \in 0..Len(Coordinates)
    <3>1. {i \in Listed : i <= idx} \in SUBSET Listed
      OBVIOUS
    <3>2. Cardinality({i \in Listed : i <= idx}) \in 0..Len(Coordinates)
      BY <3>1, ListedCounted
    <3> QED BY <1>6, <3>2 DEF Larger
  <2>2. idx' \in 1..(Len(Coordinates) + 1)
    BY <1>6, AfterInLoop
  <2> QED BY <1>6, <2>1, <2>2 DEF nativeVars, jobVars, loopVars, history, Goto
<1>7. CASE CheckFrontier \/ Await \/ Raise \/ RecordFailure \/ Recovered
  BY <1>7 DEF CheckFrontier, Await, Raise, RecordFailure, Recovered, rowVars, nativeVars,
     jobVars, loopVars, history, Goto
<1>8. CASE Reserve \/ ReserveAborted
  <2>1. Trial \in Trials
    BY <1>8, TrialInPlan DEF Reserve, ReserveAborted, Staged
  <2>2. events' \in [Trials -> 0..MaxAttempts]
    <3>1. events[Trial] + 1 \in 0..MaxAttempts
      BY <1>8, <2>1, SMTT(20) DEF Reserve, ReserveAborted
    <3>2. events' = [events EXCEPT ![Trial] = events[Trial] + 1]
      BY <1>8, <2>1 DEF Reserve, ReserveAborted
    <3> QED BY <3>1, <3>2, <2>1
  <2>3. snapshot.step \in 0..Horizon
    OBVIOUS
  <2>4. CASE Reserve
    <3>1. attempts' \in Nat /\ current' \in Trials /\ step' \in 0..Horizon /\ pc' = "reserved"
      BY <2>1, <2>3, <2>4 DEF Reserve, Goto
    <3>2. UNCHANGED <<state, stage, invocations, done, receipts, handoff, report, rows, intact,
                      marker, snapshot, idx, floor, at, acked, starts, losses>>
      BY <2>4 DEF Reserve, nativeVars, loopVars, history
    <3> QED BY <2>2, <3>1, <3>2
  <2>5. CASE ReserveAborted
    BY <2>1, <2>2, <2>5 DEF ReserveAborted, Goto, rowVars, nativeVars, loopVars, history
  <2> QED BY <1>8, <2>4, <2>5
<1>9. CASE PublishCompletion \/ PublishAborted
  <2>1. report' \in Nat
    BY <1>9, FilesFinite DEF PublishCompletion, PublishAborted, Publishable
  <2> QED BY <1>9, <2>1 DEF PublishCompletion, PublishAborted, Publishable, nativeVars, loopVars,
             history, Goto
<1>10. CASE Die
  <2>1. idx' \in 1..(Len(Coordinates) + 1)
    BY <1>10, TrialsListed DEF Die
  <2>2. snapshot' \in [current : Trials \cup {NoTrial}, step : 0..Horizon]
    BY <1>10 DEF Die
  <2> QED BY <1>10, <2>1, <2>2 DEF Die, rowVars, jobVars, nativeVars, history, Goto
<1>11. CASE Load
  <2>1. idx \in Listed
    BY <1>11 DEF Load, Staged
  <2>2. Trial \in Trials
    BY <2>1, TrialInPlan
  <2>3. floor' \in 0..Horizon
    BY <1>0, <1>11 DEF Load, MinimumStep, Larger
  <2>4. at' \in 0..Horizon
    BY <1>11, <2>2 DEF Load
  <2>5. starts' \in [Trials -> Nat]
    <3>1. starts[Trial] + 1 \in Nat /\ starts' = [starts EXCEPT ![Trial] = starts[Trial] + 1]
      BY <1>11, <2>2, SMTT(20) DEF Load
    <3> QED BY <3>1
  <2> QED BY <1>11, <2>3, <2>4, <2>5 DEF Load, rowVars, jobVars, nativeVars, Goto
<1>12. CASE FlushRows
  <2>1. Steps \in 0..Horizon
    BY <1>0 DEF Steps
  <2>2. at' \in 0..Horizon
    BY <1>12, <2>1 DEF FlushRows
  <2>3. Trial \in Trials /\ at + 1 \in Builds
    <3>1. idx \in Listed /\ at < Steps
      BY <1>12 DEF FlushRows, Staged
    <3> QED BY <2>1, <3>1, TrialInPlan
  <2>4. rows' \in [Trials -> [Builds -> Nat]]
    BY <1>12, <2>3, RowsTyped DEF FlushRows
  <2> QED BY <1>12, <2>2, <2>4 DEF FlushRows, rowVars, jobVars, history, Goto
<1>13. ASSUME NEW s \in Builds, RecoverShard(s)
       PROVE  TypeOK'
  <2>1. Trial \in Trials
    BY <1>13, TrialInPlan DEF RecoverShard, Staged
  <2>2. rows' \in [Trials -> [Builds -> Nat]]
    BY <1>13, <2>1, RowsTyped DEF RecoverShard
  <2> QED BY <1>13, <2>2 DEF RecoverShard, rowVars, jobVars, loopVars, history
<1>14. CASE OpenPickle \/ CommitMarker
  <2>1. intact' \in [Trials -> SUBSET Builds] /\ marker' \in [Trials -> 0..Horizon]
    <3>1. Executing /\ pc \in {"flushed", "saving"}
      BY <1>14 DEF OpenPickle, CommitMarker, Executing
    <3>2. idx \in Listed /\ Trial \in Trials
      BY <3>1, TrialInPlan DEF Staged
    <3>3. at = marker[Trial] + 1 /\ marker[Trial] \in 0..Horizon
      BY <3>1, <3>2 DEF Frontier
    <3>4. at \in Builds
      BY <3>3
    <3>5. intact[Trial] \ {at} \in SUBSET Builds /\ intact[Trial] \cup {at} \in SUBSET Builds
      BY <3>2, <3>4
    <3>6. CASE OpenPickle
      BY <3>5, <3>6 DEF OpenPickle
    <3>7. CASE CommitMarker
      BY <3>5, <3>7 DEF CommitMarker
    <3> QED BY <1>14, <3>6, <3>7
  <2> QED BY <1>14, <2>1 DEF OpenPickle, CommitMarker, rowVars, jobVars, loopVars, history, Goto
<1>15. CASE Acknowledge
  BY <1>15 DEF Acknowledge, Larger, nativeVars, jobVars, loopVars, Goto
<1>16. CASE PublishReceipt
  <2>1. <<Trial, stage>> \in Trials \X Stages
    BY <1>16, TrialInPlan DEF PublishReceipt, Staged
  <2> QED BY <1>16, <2>1 DEF PublishReceipt, rowVars, nativeVars, loopVars, history, Goto
<1>17. CASE UNCHANGED vars
  BY <1>17, SMTT(20) DEF vars, rowVars, nativeVars, jobVars, loopVars, history
<1> QED
  BY <1>1, <1>2, <1>3, <1>4, <1>5, <1>6, <1>7, <1>8, <1>9, <1>10, <1>11, <1>12, <1>13, <1>14,
     <1>15, <1>16, <1>17 DEF Next, Caller, Coordinator, Worker, Native

\* A live worker has a running or a cancelled row; the stage moves on once, from an
\* awaiting job whose choice is frozen.
LEMMA StagedKept ==
  ASSUME TypeOK, Staged, [Next]_vars
  PROVE  Staged'
<1> USE BoundsAssumption, SelectionsAssumption
    DEF TypeOK, Staged, Live, States, Stages, Phases, Learning, Listed, rowVars, nativeVars,
        jobVars, loopVars, history, Goto
<1>1. CASE Execute \/ Cancel \/ Status \/ Resume
  BY <1>1 DEF Execute, Cancel, Status, Resume, Moves
<1>2. CASE Evaluate \/ EvaluateAborted \/ Claim
  BY <1>2 DEF Evaluate, EvaluateAborted, Freeze, Claim
<1>3. CASE Begin \/ ReuseReport \/ ReuseReceipt \/ FinishTrial
  BY <1>3 DEF Begin, ReuseReport, ReuseReceipt, FinishTrial, RecordTrial, Running
<1>4. CASE CheckFrontier \/ Reserve \/ ReserveAborted \/ Raise \/ Die
  BY <1>4 DEF CheckFrontier, Reserve, ReserveAborted, Raise, Die, Running
<1>5. CASE Await \/ PublishCompletion \/ PublishAborted \/ RecordFailure
  BY <1>5 DEF Await, PublishCompletion, PublishAborted, Publishable, RecordFailure, LoopDone,
     Running
<1>6. CASE Load \/ Recovered \/ FlushRows \/ OpenPickle
  BY <1>6 DEF Load, Recovered, FlushRows, OpenPickle
<1>7. CASE CommitMarker \/ Acknowledge \/ PublishReceipt \/ \E s \in Builds : RecoverShard(s)
  BY <1>7 DEF CommitMarker, Acknowledge, PublishReceipt, RecoverShard, Running
<1>8. CASE UNCHANGED vars
  BY <1>8 DEF vars
<1> QED
  BY <1>1, <1>2, <1>3, <1>4, <1>5, <1>6, <1>7, <1>8 DEF Next, Caller, Coordinator, Worker, Native

\* What a running execution may rely on.
LEMMA ExecutionKnown ==
  ASSUME TypeOK, Staged, Frontier, Executing
  PROVE  /\ Trial \in Trials /\ Horizon \in Nat
         /\ marker[Trial] \in 0..Horizon /\ at \in 0..Horizon
         /\ at = marker[Trial] \/ at = marker[Trial] + 1
         /\ pc \in {"flushed", "saving"} <=> at = marker[Trial] + 1
<1>1. Trial \in Trials
  BY TrialInPlan DEF Staged, Executing
<1> QED BY <1>1, FrontierAssumption DEF TypeOK, Frontier

\* The types of what the engine writes.
LEMMA NativeTypes ==
  ASSUME TypeOK
  PROVE  /\ rows \in [Trials -> [Builds -> Nat]] /\ Horizon \in Nat
         /\ \A t \in Trials : marker[t] \in 0..Horizon /\ acked[t] \in 0..Horizon
         /\ \A t \in Trials, s \in Builds : rows[t][s] \in Nat
BY FrontierAssumption DEF TypeOK

\* Rows change when a build is flushed, beyond the marker, and when recovery removes
\* what lies beyond it; the marker moves to a build whose rows were just flushed.
LEMMA CommittedRowsExactKept ==
  ASSUME TypeOK, Staged, Frontier, CommittedRowsExact, [Next]_vars
  PROVE  CommittedRowsExact'
<1>1. CASE UNCHANGED <<rows, marker>>
  BY <1>1 DEF CommittedRowsExact
<1>2. CASE FlushRows
  <2>1. Executing /\ at = marker[Trial] /\ at + 1 \in Builds
    <3>1. Executing /\ pc = "learning"
      BY <1>2 DEF FlushRows, Executing, Learning
    <3>2. at = marker[Trial]
      BY <3>1 DEF Frontier
    <3>3. at \in 0..Horizon /\ Horizon \in Nat
      BY <3>1, ExecutionKnown
    <3>4. at < Horizon
      BY <1>2, <3>3, FrontierAssumption DEF FlushRows, Steps
    <3> QED BY <3>1, <3>2, <3>3, <3>4 DEF Builds
  <2>2. \A t \in Trials, s \in Builds :
          rows'[t][s] = IF t = Trial /\ s = at + 1 THEN rows[t][s] + 1 ELSE rows[t][s]
    <3>1. Trial \in Trials /\ rows' = [rows EXCEPT ![Trial][at + 1] = @ + 1]
      BY <1>2, <2>1, ExecutionKnown DEF FlushRows
    <3> QED BY <2>1, <3>1, NativeTypes, RowsTyped
  <2>3. UNCHANGED marker
    BY <1>2 DEF FlushRows
  <2> QED BY <2>1, <2>2, <2>3, NativeTypes DEF CommittedRowsExact, Builds
<1>3. ASSUME NEW b \in Builds, RecoverShard(b)
      PROVE  CommittedRowsExact'
  <2>1. Executing /\ b > marker[Trial]
    BY <1>3 DEF RecoverShard, Executing, Frontier
  <2>2. \A t \in Trials, s \in Builds :
          rows'[t][s] = IF t = Trial /\ s = b THEN 0 ELSE rows[t][s]
    <3>1. Trial \in Trials /\ rows' = [rows EXCEPT ![Trial][b] = 0]
      BY <1>3, <2>1, ExecutionKnown DEF RecoverShard
    <3> QED BY <3>1, NativeTypes, RowsTyped
  <2>3. UNCHANGED marker
    BY <1>3 DEF RecoverShard
  <2> QED BY <2>1, <2>2, <2>3, NativeTypes DEF CommittedRowsExact, Builds
<1>4. CASE CommitMarker
  <2>1. Executing /\ at = marker[Trial] + 1 /\ rows[Trial][at] = 1
    BY <1>4 DEF CommitMarker, Executing, Learning, Frontier
  <2>2. \A t \in Trials : marker'[t] = IF t = Trial THEN at ELSE marker[t]
    BY <1>4 DEF CommitMarker, TypeOK
  <2>3. UNCHANGED rows
    BY <1>4 DEF CommitMarker
  <2>4. Trial \in Trials /\ marker[Trial] \in 0..Horizon /\ Horizon \in Nat
    BY <2>1, ExecutionKnown
  <2> QED BY <2>1, <2>2, <2>3, <2>4, NativeTypes DEF CommittedRowsExact
<1> QED
  BY <1>1, <1>2, <1>3, <1>4 DEF Next, vars, Caller, Coordinator, Worker, Native, Execute, Cancel,
     Status, Resume, Moves, Evaluate, EvaluateAborted, Claim, Begin, ReuseReport, ReuseReceipt,
     CheckFrontier, Reserve, ReserveAborted, FinishTrial, RecordTrial, Await, PublishCompletion,
     PublishAborted, Publishable, Raise, RecordFailure, Die, Load, Recovered, OpenPickle,
     Acknowledge, PublishReceipt, nativeVars

\* A build is acknowledged after its marker, and markers only move forward; the pickle
\* that is being rewritten is not the one the marker names.
LEMMA AcknowledgedIsDurableKept ==
  ASSUME TypeOK, Staged, Frontier, AcknowledgedIsDurable, [Next]_vars
  PROVE  AcknowledgedIsDurable'
<1>1. CASE UNCHANGED <<acked, marker, intact>>
  BY <1>1 DEF AcknowledgedIsDurable
<1>2. CASE OpenPickle
  <2>1. Executing /\ at = marker[Trial] + 1
    BY <1>2 DEF OpenPickle, Executing, Learning, Frontier
  <2>2. \A t \in Trials :
          intact'[t] = IF t = Trial THEN intact[t] \ {at} ELSE intact[t]
    BY <1>2 DEF OpenPickle, TypeOK
  <2>3. UNCHANGED <<acked, marker>>
    BY <1>2 DEF OpenPickle, history
  <2>4. \A t \in Trials : marker[t] # at \/ t # Trial
    BY <2>1, NativeTypes
  <2> QED BY <2>2, <2>3, <2>4 DEF AcknowledgedIsDurable
<1>3. CASE CommitMarker
  <2>1. Executing /\ at = marker[Trial] + 1
    BY <1>3 DEF CommitMarker, Executing, Learning, Frontier
  <2>2. /\ \A t \in Trials : marker'[t] = IF t = Trial THEN at ELSE marker[t]
        /\ \A t \in Trials : intact'[t] = IF t = Trial THEN intact[t] \cup {at} ELSE intact[t]
    BY <1>3 DEF CommitMarker, TypeOK
  <2>3. UNCHANGED acked
    BY <1>3 DEF CommitMarker, history
  <2>4. Trial \in Trials
    BY <2>1, ExecutionKnown
  <2>5. \A t \in Trials : acked'[t] <= marker'[t]
    BY <2>1, <2>2, <2>3, <2>4, NativeTypes DEF AcknowledgedIsDurable
  <2>6. \A t \in Trials : marker'[t] > 0 => marker'[t] \in intact'[t]
    BY <2>2 DEF AcknowledgedIsDurable
  <2> QED BY <2>5, <2>6 DEF AcknowledgedIsDurable
<1>4. CASE Acknowledge
  <2>1. Executing /\ at = marker[Trial]
    BY <1>4 DEF Acknowledge, Executing, Learning, Frontier
  <2>2. \A t \in Trials : acked'[t] \in {at, acked[t]} /\ (t # Trial => acked'[t] = acked[t])
    BY <1>4 DEF Acknowledge, TypeOK, Larger
  <2>3. UNCHANGED <<marker, intact>>
    BY <1>4 DEF Acknowledge, nativeVars
  <2>4. Trial \in Trials
    BY <2>1, ExecutionKnown
  <2> QED BY <2>1, <2>2, <2>3, <2>4, NativeTypes DEF AcknowledgedIsDurable
<1> QED
  BY <1>1, <1>2, <1>3, <1>4 DEF Next, vars, Caller, Coordinator, Worker, Native, Execute, Cancel,
     Status, Resume, Moves, Evaluate, EvaluateAborted, Claim, Begin, ReuseReport, ReuseReceipt,
     CheckFrontier, Reserve, ReserveAborted, FinishTrial, RecordTrial, Await, PublishCompletion,
     PublishAborted, Publishable, Raise, RecordFailure, Die, Load, RecoverShard, Recovered,
     FlushRows, PublishReceipt, nativeVars, history

\* An execution starts at its marker, and is one build ahead of it between a flush
\* and the marker that commits the build.
LEMMA FrontierKept ==
  ASSUME TypeOK, Staged, CommittedRowsExact, Frontier, [Next]_vars
  PROVE  Frontier'
<1> USE DEF Executing, Learning, Goto
<1>1. CASE ~Executing'
  BY <1>1 DEF Frontier
<1>2. CASE UNCHANGED <<pc, at, idx, marker, rows>>
  BY <1>2 DEF Frontier, Trial
<1>3. CASE Load
  BY <1>3 DEF Load, Frontier, Trial, nativeVars
<1>4. CASE Recovered
  BY <1>4 DEF Recovered, Frontier, Trial, nativeVars, loopVars
<1>5. ASSUME NEW b \in Builds, RecoverShard(b)
      PROVE  Frontier'
  <2>1. pc' = "recovering" /\ pc = "recovering" /\ UNCHANGED <<at, idx, marker>>
    BY <1>5 DEF RecoverShard, loopVars
  <2> QED BY <2>1 DEF Frontier, Trial
<1>6. CASE FlushRows
  <2>1. Executing /\ pc = "learning" /\ pc' = "flushed" /\ at' = at + 1
        /\ UNCHANGED <<idx, marker>>
    BY <1>6 DEF FlushRows
  <2>2. at = marker[Trial] /\ \A s \in Builds : s > at => rows[Trial][s] = 0
    BY <2>1 DEF Frontier
  <2>3. Trial \in Trials /\ at \in 0..Horizon /\ Horizon \in Nat
    BY <2>1, ExecutionKnown
  <2>4. at + 1 \in Builds
    BY <1>6, <2>3, FrontierAssumption DEF FlushRows, Steps, Builds
  <2>5. \A s \in Builds :
          rows'[Trial][s] = IF s = at + 1 THEN rows[Trial][s] + 1 ELSE rows[Trial][s]
    <3>1. rows' = [rows EXCEPT ![Trial][at + 1] = @ + 1]
      BY <1>6 DEF FlushRows
    <3> QED BY <2>3, <2>4, <3>1, NativeTypes, RowsTyped
  <2>6. \A s \in Builds : s > at + 1 => rows'[Trial][s] = 0
    BY <2>2, <2>3, <2>5 DEF Builds
  <2>7. rows'[Trial][at + 1] = 1
    BY <2>2, <2>3, <2>4, <2>5
  <2>8. Trial' = Trial
    BY <2>1 DEF Trial
  <2> QED BY <2>1, <2>2, <2>6, <2>7, <2>8 DEF Frontier
<1>7. CASE OpenPickle
  BY <1>7 DEF OpenPickle, Frontier, Trial, loopVars
<1>8. CASE CommitMarker
  <2>1. Executing /\ pc = "saving" /\ pc' = "marked" /\ UNCHANGED <<at, idx, rows>>
    BY <1>8 DEF CommitMarker, loopVars
  <2>2. Trial \in Trials /\ marker \in [Trials -> 0..Horizon]
    BY <2>1, ExecutionKnown DEF TypeOK
  <2>3. marker'[Trial] = at /\ Trial' = Trial
    BY <1>8, <2>1, <2>2 DEF CommitMarker, Trial
  <2> QED BY <2>1, <2>3 DEF Frontier
<1>9. CASE Acknowledge
  BY <1>9 DEF Acknowledge, Frontier, Trial, loopVars, nativeVars
<1> QED
  BY <1>1, <1>2, <1>3, <1>4, <1>5, <1>6, <1>7, <1>8, <1>9 DEF Next, vars, Caller, Coordinator,
     Worker, Native, Execute, Cancel, Status, Resume, Moves, Evaluate, EvaluateAborted, Claim,
     Begin, ReuseReport, ReuseReceipt, CheckFrontier, Reserve, ReserveAborted, FinishTrial,
     RecordTrial, Await, PublishCompletion, PublishAborted, Publishable, Raise, RecordFailure,
     Die, PublishReceipt, nativeVars, loopVars

\* Without a new event the count of the retained ones stays.
LEMMA RetainedKept ==
  ASSUME UNCHANGED events
  PROVE  Retained' = Retained
BY DEF Retained

\* An attempt is retained before it is counted and before it runs.
LEMMA ReservedKept ==
  ASSUME TypeOK, Staged, Reserved, [Next]_vars
  PROVE  Reserved'
<1> USE DEF Executing, Learning, Goto
<1>0. /\ \A t \in Trials : events[t] \in 0..MaxAttempts /\ starts[t] \in Nat
      /\ Retained \in Nat /\ attempts \in Nat /\ MaxAttempts \in Nat
      /\ receipts \subseteq Trials \X Stages
  BY FilesFinite, BoundsAssumption DEF TypeOK
<1>1. CASE /\ UNCHANGED <<events, starts, receipts, attempts>>
           /\ (~Executing' /\ pc' # "reserved") \/ UNCHANGED <<pc, idx>>
  BY <1>1, RetainedKept DEF Reserved, Trial
<1>2. CASE Begin
  <2>1. /\ UNCHANGED <<events, starts, receipts>> /\ attempts' = Retained
        /\ pc' \in {"reuse", "trial"}
    BY <1>2 DEF Begin, jobVars, history
  <2> QED BY <1>0, <2>1, RetainedKept DEF Reserved
<1>3. CASE Reserve \/ ReserveAborted
  <2>1. /\ Trial \in Trials /\ events[Trial] < MaxAttempts
        /\ events' = [events EXCEPT ![Trial] = @ + 1]
        /\ UNCHANGED <<starts, receipts, idx>>
        /\ attempts' \in {attempts, attempts + 1} /\ pc' \in {"reserved", "failing"}
    BY <1>3, TrialInPlan DEF Reserve, ReserveAborted, Staged, loopVars, rowVars, history
  <2>2. Retained' = Retained + 1
    BY <2>1, RetainedGrows
  <2>3. \A t \in Trials : events'[t] = IF t = Trial THEN events[t] + 1 ELSE events[t]
    BY <2>1 DEF TypeOK
  <2>4. Trial' = Trial
    BY <2>1 DEF Trial
  <2>5. attempts' <= Retained'
    BY <1>0, <2>1, <2>2 DEF Reserved
  <2>6. \A t \in Trials : starts'[t] <= events'[t]
    BY <1>0, <2>1, <2>3 DEF Reserved
  <2>7. starts'[Trial] < events'[Trial]
    BY <1>0, <2>1, <2>3 DEF Reserved
  <2>8. \A r \in receipts' : events'[r[1]] > 0
    BY <1>0, <2>1, <2>3 DEF Reserved
  <2> QED BY <2>1, <2>4, <2>5, <2>6, <2>7, <2>8 DEF Reserved
<1>4. CASE Load
  <2>1. /\ Trial \in Trials /\ starts' = [starts EXCEPT ![Trial] = @ + 1]
        /\ pc = "reserved" /\ pc' = "recovering"
        /\ UNCHANGED <<events, receipts, attempts, idx>>
    BY <1>4, TrialInPlan DEF Load, Staged, rowVars, jobVars
  <2>2. \A t \in Trials : starts'[t] = IF t = Trial THEN starts[t] + 1 ELSE starts[t]
    BY <2>1 DEF TypeOK
  <2>3. starts[Trial] < events[Trial]
    BY <2>1 DEF Reserved
  <2>4. Trial' = Trial
    BY <2>1 DEF Trial
  <2> QED BY <1>0, <2>1, <2>2, <2>3, <2>4, RetainedKept DEF Reserved
<1>5. CASE PublishReceipt
  <2>1. /\ Executing /\ receipts' = receipts \cup {<<Trial, stage>>} /\ pc' = "received"
        /\ UNCHANGED <<events, starts, attempts>>
    BY <1>5 DEF PublishReceipt, rowVars, history
  <2>2. events[Trial] > 0
    BY <2>1 DEF Reserved
  <2> QED BY <2>1, <2>2, RetainedKept DEF Reserved
<1>6. CASE \/ Recovered \/ FlushRows \/ OpenPickle \/ CommitMarker \/ Acknowledge
           \/ \E s \in Builds : RecoverShard(s)
  <2>1. Executing /\ pc' # "reserved" /\ UNCHANGED <<events, starts, receipts, attempts, idx>>
    BY <1>6 DEF Recovered, FlushRows, OpenPickle, CommitMarker, Acknowledge, RecoverShard,
       rowVars, jobVars, loopVars, history
  <2> QED BY <2>1, RetainedKept DEF Reserved, Trial
<1> QED
  BY <1>1, <1>2, <1>3, <1>4, <1>5, <1>6 DEF Next, vars, Caller, Coordinator, Worker, Native,
     Execute, Cancel, Status, Resume, Moves, Evaluate, EvaluateAborted, Claim, ReuseReport,
     ReuseReceipt, CheckFrontier, FinishTrial, RecordTrial, Await, PublishCompletion,
     PublishAborted, Publishable, Raise, RecordFailure, Die, rowVars, jobVars, nativeVars,
     loopVars, history

\* The coordinates of the stage stay while its worker runs.
LEMMA ListedKept ==
  ASSUME UNCHANGED <<stage, handoff>>
  PROVE  Listed' = Listed
BY DEF Listed

\* The loop leaves a coordinate only with its receipt.
LEMMA ReceiptedKept ==
  ASSUME TypeOK, Staged, Reserved, Receipted, [Next]_vars
  PROVE  Receipted'
<1> USE DEF Live, Learning, Goto
<1>1. CASE ~Live'
  BY <1>1 DEF Receipted
<1>2. CASE UNCHANGED <<pc, idx, stage, receipts, handoff, events, report>>
  BY <1>2, ListedKept, RetainedKept DEF Receipted, Trial
<1>3. CASE Evaluate \/ EvaluateAborted
  <2>1. ~Live' /\ pc' = pc
    BY <1>3 DEF Evaluate, EvaluateAborted, Freeze, Staged
  <2> QED BY <2>1, <1>1
<1>4. CASE Claim
  BY <1>4 DEF Claim, Receipted
<1>5. CASE Begin
  <2>1. \A i \in Listed : ~(i < idx')
    <3>1. \A i \in Listed : 0 < i
      BY TrialsListed DEF Listed
    <3>2. idx' \in Nat /\ \A l \in Listed : idx' <= l
      BY <1>5, <3>1, TrialsListed DEF Begin, After, Listed
    <3> QED BY <3>2, TrialsListed DEF Listed
  <2>2. pc' = IF report > 0 THEN "reuse" ELSE "trial"
    BY <1>5 DEF Begin
  <2>3. UNCHANGED <<stage, handoff, report>>
    BY <1>5 DEF Begin, jobVars
  <2>4. report \in Nat
    BY DEF TypeOK
  <2> QED BY <2>1, <2>2, <2>3, <2>4, ListedKept DEF Receipted
<1>6. CASE ReuseReport
  <2>1. /\ pc = "reuse" /\ pc' = "report" /\ report = Retained
        /\ \A i \in Listed : <<Coordinates[i], stage>> \in receipts
        /\ UNCHANGED <<stage, handoff, report, receipts, events>>
    BY <1>6 DEF ReuseReport, jobVars
  <2> QED BY <2>1, ListedKept, RetainedKept DEF Receipted
<1>7. CASE ReuseReceipt \/ FinishTrial
  <2>1. /\ pc' = "trial" /\ idx' \in After(idx)
        /\ UNCHANGED <<stage, handoff, receipts, report, events>>
    BY <1>7 DEF ReuseReceipt, FinishTrial, RecordTrial, jobVars
  <2>2. /\ <<Trial, stage>> \in receipts
        /\ \A i \in Listed : i < idx => <<Coordinates[i], stage>> \in receipts
        /\ report = 0
    BY <1>7 DEF ReuseReceipt, FinishTrial, Receipted
  <2>3. \A i \in Listed : i < idx' => i < idx \/ i = idx
    <3>1. idx \in Nat /\ Len(Coordinates) \in Nat
      BY TrialsListed DEF TypeOK
    <3>2. \A i \in Listed : i \in Nat
      BY TrialsListed DEF Listed
    <3>3. idx' \in Nat /\ \A l \in Listed : idx < l => idx' <= l
      BY <2>1, <3>1, <3>2 DEF After
    <3> QED BY <3>1, <3>2, <3>3
  <2> QED BY <2>1, <2>2, <2>3, ListedKept DEF Receipted, Trial
<1>8. CASE CheckFrontier \/ Reserve \/ Load \/ Recovered \/ FlushRows \/ OpenPickle
           \/ CommitMarker \/ Acknowledge
  <2>1. /\ Live /\ pc \notin {"starting", "reuse", "report"}
        /\ pc' \in {"checked", "reserved", "recovering"} \cup Learning
        /\ UNCHANGED <<stage, handoff, receipts, report, idx>>
    BY <1>8 DEF CheckFrontier, Reserve, Load, Recovered, FlushRows, OpenPickle, CommitMarker,
       Acknowledge, rowVars, jobVars, loopVars
  <2> QED BY <2>1, ListedKept DEF Receipted
<1>9. CASE PublishReceipt
  <2>1. /\ Live /\ pc = "learning" /\ pc' = "received"
        /\ receipts' = receipts \cup {<<Trial, stage>>}
        /\ UNCHANGED <<stage, handoff, report, idx>>
    BY <1>9 DEF PublishReceipt, rowVars, loopVars
  <2> QED BY <2>1, ListedKept DEF Receipted, Trial
<1> QED
  BY <1>1, <1>2, <1>3, <1>4, <1>5, <1>6, <1>7, <1>8, <1>9 DEF Next, vars, Caller, Coordinator,
     Worker, Native, Execute, Cancel, Status, Resume, Moves, ReserveAborted, Await,
     PublishCompletion, PublishAborted, Raise, RecordFailure, Die, RecoverShard, rowVars, jobVars,
     nativeVars, loopVars

\* A report is published behind every receipt of the stage, and with its attempts.
LEMMA CompletedIsBackedKept ==
  ASSUME TypeOK, Staged, Reserved, Receipted, CompletedIsBacked, [Next]_vars
  PROVE  CompletedIsBacked'
<1>1. CASE state' # "completed"
  BY <1>1 DEF CompletedIsBacked
<1>2. CASE UNCHANGED <<state, stage, handoff, receipts, report, events>>
  BY <1>2, ListedKept, RetainedKept DEF CompletedIsBacked
<1>3. CASE PublishCompletion
  <2>1. /\ \A i \in Listed : <<Coordinates[i], stage>> \in receipts
        /\ report' > 0 /\ report' = Retained
    <3>1. CASE LoopDone /\ report' = Retained
      <4>1. pc = "trial" /\ idx > Len(Coordinates)
        BY <3>1 DEF LoopDone
      <4>2. \A i \in Listed : i < idx
        BY <4>1, TrialsListed DEF Listed, TypeOK
      <4>3. \A i \in Listed : <<Coordinates[i], stage>> \in receipts
        BY <4>1, <4>2 DEF Receipted, Live
      <4>4. PICK i \in Listed : TRUE
        BY ListedCounted
      <4>5. Coordinates[i] \in Trials /\ events[Coordinates[i]] > 0
        BY <4>3, TrialsListed DEF Reserved, Listed
      <4>6. Retained > 0
        BY <4>5, RetainedPositive
      <4> QED BY <3>1, <4>3, <4>6
    <3>2. CASE pc = "report" /\ UNCHANGED report
      BY <3>2 DEF Receipted, Live
    <3> QED BY <1>3, <3>1, <3>2 DEF PublishCompletion, Publishable
  <2>2. UNCHANGED <<stage, handoff, receipts, events>>
    BY <1>3 DEF PublishCompletion, Publishable
  <2> QED BY <2>1, <2>2, ListedKept, RetainedKept DEF CompletedIsBacked
<1>4. CASE state = "completed"
  <2>1. ~Live
    BY <1>4 DEF Staged
  <2>2. UNCHANGED <<state, stage, handoff, receipts, report, events>> \/ state' # "completed"
    BY <1>4, <2>1 DEF Next, vars, Caller, Coordinator, Worker, Native, Execute, Cancel, Status,
       Resume, Moves, Evaluate, EvaluateAborted, Freeze, Claim, Begin, ReuseReport, ReuseReceipt,
       CheckFrontier, Reserve, ReserveAborted, FinishTrial, RecordTrial, Await,
       PublishCompletion, PublishAborted, Publishable, Raise, RecordFailure, Die, Load,
       Recovered, FlushRows, OpenPickle, CommitMarker, Acknowledge, PublishReceipt,
       RecoverShard, Running, Live, Learning, LoopDone, rowVars, jobVars
  <2> QED BY <1>1, <1>2, <2>2
<1>5. state' # "completed" \/ UNCHANGED state \/ PublishCompletion
  BY DEF Next, vars, Caller, Coordinator, Worker, Native, Execute, Cancel, Status, Resume, Moves,
     Evaluate, EvaluateAborted, Claim, Begin, ReuseReport, ReuseReceipt, CheckFrontier, Reserve,
     ReserveAborted, FinishTrial, RecordTrial, Await, PublishAborted, Raise, RecordFailure, Die,
     Load, Recovered, FlushRows, OpenPickle, CommitMarker, Acknowledge, PublishReceipt,
     RecoverShard, rowVars
<1> QED
  BY <1>1, <1>3, <1>4, <1>5

\* Only a worker of the evaluation stage learns beyond the prefix, and only for a
\* trial of the handoff.
LEMMA HeldOutIsProtectedKept ==
  ASSUME TypeOK, Staged, Frontier, HeldOutIsProtected, [Next]_vars
  PROVE  HeldOutIsProtected'
<1>1. CASE ~Protected
  BY <1>1 DEF HeldOutIsProtected
<1>2. CASE UNCHANGED <<rows, stage, handoff>>
  BY <1>2 DEF HeldOutIsProtected
<1>3. CASE Evaluate \/ EvaluateAborted
  <2>1. stage = "tuning" /\ UNCHANGED rows
    BY <1>3 DEF Evaluate, EvaluateAborted, Freeze, Staged, nativeVars
  <2> QED BY <2>1 DEF HeldOutIsProtected
<1>4. ASSUME NEW b \in Builds, RecoverShard(b)
      PROVE  HeldOutIsProtected'
  <2>1. Executing /\ UNCHANGED <<stage, handoff>>
    BY <1>4 DEF RecoverShard, Executing, rowVars, jobVars
  <2>2. Trial \in Trials /\ rows' = [rows EXCEPT ![Trial][b] = 0]
    BY <1>4, <2>1, ExecutionKnown DEF RecoverShard
  <2>3. \A t \in Trials, s \in Builds :
          rows'[t][s] = IF t = Trial /\ s = b THEN 0 ELSE rows[t][s]
    BY <2>2, NativeTypes, RowsTyped
  <2> QED BY <2>1, <2>3 DEF HeldOutIsProtected
<1>5. CASE Protected /\ FlushRows
  <2>1. Executing /\ idx \in Listed /\ UNCHANGED <<stage, handoff>>
    BY <1>5 DEF FlushRows, Executing, Learning, Staged, rowVars, jobVars
  <2>2. Trial \in Trials /\ at \in 0..Horizon /\ Horizon \in Nat
    BY <2>1, ExecutionKnown
  <2>3. at < Steps /\ rows' = [rows EXCEPT ![Trial][at + 1] = @ + 1]
    BY <1>5 DEF FlushRows
  <2>4. at + 1 \in Builds
    BY <2>2, <2>3, FrontierAssumption DEF Steps, Builds
  <2>5. \A t \in Trials, s \in Builds :
          rows'[t][s] = IF t = Trial /\ s = at + 1 THEN rows[t][s] + 1 ELSE rows[t][s]
    BY <2>2, <2>3, <2>4, NativeTypes, RowsTyped
  <2>6. at + 1 > Prefix => stage = "evaluation" /\ Trial \in handoff
    BY <1>5, <2>1, <2>2, <2>3, FrontierAssumption DEF Steps, Staged, Listed, Trial
  <2> QED BY <2>1, <2>5, <2>6 DEF HeldOutIsProtected
<1> QED
  BY <1>1, <1>2, <1>3, <1>4, <1>5 DEF Next, vars, Caller, Coordinator, Worker, Native, Execute,
     Cancel, Status, Resume, Moves, Claim, Begin, ReuseReport, ReuseReceipt, CheckFrontier,
     Reserve, ReserveAborted, FinishTrial, RecordTrial, Await, PublishCompletion,
     PublishAborted, Publishable, Raise, RecordFailure, Die, Load, Recovered, OpenPickle,
     CommitMarker, Acknowledge, PublishReceipt, rowVars, jobVars, nativeVars

-----------------------------------------------------------------------------
LEMMA InitEstablishes == Init => IInv
<1> SUFFICES ASSUME Init  PROVE IInv
  OBVIOUS
<1> USE FrontierAssumption, BoundsAssumption DEF Init
<1>1. TypeOK
  <2>1. idx \in 1..(Len(Coordinates) + 1) /\ done \in 0..Len(Coordinates)
    BY TrialsListed
  <2>2. rows \in [Trials -> [Builds -> Nat]] /\ stage \in Stages
    BY DEF Stages
  <2> QED BY <2>1, <2>2 DEF TypeOK, States, Stages, Phases
<1>2. Staged
  BY DEF Staged, Live, Learning
<1>3. CommittedRowsExact /\ AcknowledgedIsDurable /\ Frontier
  BY DEF CommittedRowsExact, AcknowledgedIsDurable, Frontier, Executing, Learning
<1>4. Reserved
  BY FilesFinite DEF Reserved, Executing, Learning
<1>5. Receipted /\ CompletedIsBacked
  BY DEF Receipted, CompletedIsBacked, Live
<1>6. HeldOutIsProtected
  BY DEF HeldOutIsProtected
<1> QED BY <1>1, <1>2, <1>3, <1>4, <1>5, <1>6 DEF IInv

LEMMA Invariance == Spec => []IInv
<1>1. IInv /\ [Next]_vars => IInv'
  BY TypeOKKept, StagedKept, CommittedRowsExactKept, AcknowledgedIsDurableKept, FrontierKept,
     ReservedKept, ReceiptedKept, CompletedIsBackedKept, HeldOutIsProtectedKept DEF IInv
<1> QED
  BY <1>1, InitEstablishes, PTL DEF Spec

\* Types: positions stay in the plan, frontiers within the history, events within the
\* attempts of the plan.
THEOREM TypeCorrect == Spec => []TypeOK
<1>1. IInv => TypeOK
  BY DEF IInv
<1> QED BY <1>1, Invariance, PTL

\* Every build that a marker commits has its rows exactly once, whatever was killed
\* between flush, pickle, marker and recovery.
THEOREM RowsExact == Spec => []CommittedRowsExact
<1>1. IInv => CommittedRowsExact
  BY DEF IInv
<1> QED BY <1>1, Invariance, PTL

\* What the row of the job acknowledged, the marker commits.
THEOREM AcknowledgedDurable == Spec => []AcknowledgedIsDurable
<1>1. IInv => AcknowledgedIsDurable
  BY DEF IInv
<1> QED BY <1>1, Invariance, PTL

\* Each native execution has a retained event of its own, and the row counts no attempt
\* that is not retained.
THEOREM AttemptsRetained == Spec => []AttemptsAccounted
<1>1. IInv => AttemptsAccounted
  BY DEF IInv, Reserved, AttemptsAccounted
<1> QED BY <1>1, Invariance, PTL

\* A completed job has the receipts of its last stage and a report of every attempt.
THEOREM CompletionBacked == Spec => []CompletedIsBacked
<1>1. IInv => CompletedIsBacked
  BY DEF IInv
<1> QED BY <1>1, Invariance, PTL

\* No held-out build is run before the choice is frozen or for a trial not chosen.
THEOREM HeldOutProtected == Spec => []HeldOutIsProtected
<1>1. IInv => HeldOutIsProtected
  BY DEF IInv
<1> QED BY <1>1, Invariance, PTL

\* As long as nothing damages the markers from outside, native learning never goes on
\* from behind the frontier that the row acknowledged.
THEOREM ContinuationHonest == Spec => []NoSilentReset
<1>1. IInv => NoSilentReset
  <2> SUFFICES ASSUME IInv, Executing  PROVE acked[Trial] <= at
    BY DEF NoSilentReset, Executing
  <2>1. Trial \in Trials /\ marker[Trial] <= at /\ marker[Trial] \in Nat /\ at \in Nat
    BY ExecutionKnown DEF IInv
  <2>2. acked[Trial] <= marker[Trial] /\ acked[Trial] \in Nat
    BY <2>1, NativeTypes DEF IInv, AcknowledgedIsDurable
  <2> QED BY <2>1, <2>2
<1> QED BY <1>1, Invariance, PTL

-----------------------------------------------------------------------------
(* What a step may never take back, one part of ProgressKept at a time.    *)

\* Within a stage the count of completed trials does not fall, although every attempt
\* counts from the first coordinate again.
LEMMA DoneKept ==
  ASSUME TypeOK, Staged, [Next]_vars, stage' = stage
  PROVE  done' >= done
<1>1. done \in Nat
  BY TrialsListed DEF TypeOK
<1>2. CASE UNCHANGED done
  BY <1>1, <1>2
<1>3. CASE Evaluate
  BY <1>3 DEF Evaluate, Freeze, Staged
<1>4. CASE ReuseReport
  <2>1. Cardinality(Listed) \in Nat
    BY ListedCounted
  <2> QED BY <1>1, <1>4, <2>1 DEF ReuseReport, Larger
<1>5. CASE ReuseReceipt \/ FinishTrial
  <2>1. {i \in Listed : i <= idx} \in SUBSET Listed
    OBVIOUS
  <2>2. Cardinality({i \in Listed : i <= idx}) \in Nat
    BY <2>1, ListedCounted
  <2> QED BY <1>1, <1>5, <2>2 DEF ReuseReceipt, FinishTrial, RecordTrial, Larger
<1> QED
  BY <1>2, <1>3, <1>4, <1>5 DEF Next, vars, Caller, Coordinator, Worker, Native, Execute, Cancel,
     Status, Resume, Moves, EvaluateAborted, Claim, Begin, CheckFrontier, Reserve,
     ReserveAborted, Await, PublishCompletion, PublishAborted, Publishable, Raise,
     RecordFailure, Die, Load, Recovered, FlushRows, OpenPickle, CommitMarker, Acknowledge,
     PublishReceipt, RecoverShard, rowVars

\* A flush and a recovery write beyond the marker only, and a commit moves it forward.
LEMMA CommittedKept ==
  ASSUME TypeOK, Staged, Frontier, [Next]_vars, NEW t \in Trials
  PROVE  /\ marker'[t] >= marker[t]
         /\ \A s \in 1..marker[t] : rows'[t][s] = rows[t][s]
<1>0. marker[t] \in 0..Horizon /\ Horizon \in Nat
  BY NativeTypes
<1>1. CASE UNCHANGED <<rows, marker>>
  BY <1>0, <1>1
<1>2. CASE FlushRows
  <2>1. Executing /\ pc = "learning"
    BY <1>2 DEF FlushRows, Executing, Learning
  <2>2. at = marker[Trial] /\ Trial \in Trials /\ at \in 0..Horizon
    BY <2>1, ExecutionKnown DEF Frontier
  <2>3. at < Horizon
    BY <1>2, <2>2, FrontierAssumption DEF FlushRows, Steps
  <2>4. at + 1 \in Builds
    BY <1>0, <2>2, <2>3 DEF Builds
  <2>5. UNCHANGED marker /\ rows' = [rows EXCEPT ![Trial][at + 1] = @ + 1]
    BY <1>2 DEF FlushRows
  <2>6. \A s \in Builds : ~(t = Trial /\ s = at + 1) => rows'[t][s] = rows[t][s]
    BY <2>2, <2>4, <2>5, NativeTypes, RowsTyped
  <2>7. \A s \in 1..marker[t] : s \in Builds /\ ~(t = Trial /\ s = at + 1)
    BY <1>0, <2>2 DEF Builds
  <2> QED BY <1>0, <2>5, <2>6, <2>7
<1>3. ASSUME NEW b \in Builds, RecoverShard(b)
      PROVE  /\ marker'[t] >= marker[t]
             /\ \A s \in 1..marker[t] : rows'[t][s] = rows[t][s]
  <2>1. Executing /\ pc = "recovering" /\ b > at
    BY <1>3 DEF RecoverShard, Executing
  <2>2. at = marker[Trial] /\ Trial \in Trials /\ at \in 0..Horizon
    BY <2>1, ExecutionKnown DEF Frontier
  <2>3. UNCHANGED marker /\ rows' = [rows EXCEPT ![Trial][b] = 0]
    BY <1>3 DEF RecoverShard
  <2>4. \A s \in Builds : ~(t = Trial /\ s = b) => rows'[t][s] = rows[t][s]
    BY <2>2, <2>3, NativeTypes, RowsTyped
  <2>5. \A s \in 1..marker[t] : s \in Builds /\ ~(t = Trial /\ s = b)
    BY <1>0, <2>1, <2>2 DEF Builds
  <2> QED BY <1>0, <2>3, <2>4, <2>5
<1>4. CASE CommitMarker
  <2>1. Executing /\ at = marker[Trial] + 1
    BY <1>4 DEF CommitMarker, Executing, Learning, Frontier
  <2>2. marker'[t] = IF t = Trial THEN at ELSE marker[t]
    BY <1>4 DEF CommitMarker, TypeOK
  <2>3. UNCHANGED rows
    BY <1>4 DEF CommitMarker
  <2> QED BY <1>0, <2>1, <2>2, <2>3
<1> QED
  BY <1>1, <1>2, <1>3, <1>4 DEF Next, vars, Caller, Coordinator, Worker, Native, Execute, Cancel,
     Status, Resume, Moves, Evaluate, EvaluateAborted, Claim, Begin, ReuseReport, ReuseReceipt,
     CheckFrontier, Reserve, ReserveAborted, FinishTrial, RecordTrial, Await, PublishCompletion,
     PublishAborted, Publishable, Raise, RecordFailure, Die, Load, Recovered, OpenPickle,
     Acknowledge, PublishReceipt, nativeVars

\* Events are added, also by a reservation that is rolled back.
LEMMA EventsKept ==
  ASSUME TypeOK, [Next]_vars, NEW t \in Trials
  PROVE  events'[t] >= events[t]
<1>0. events[t] \in Nat
  BY BoundsAssumption DEF TypeOK
<1>1. CASE UNCHANGED events
  BY <1>0, <1>1
<1>2. CASE Reserve \/ ReserveAborted
  <2>1. events' = [events EXCEPT ![Trial] = @ + 1]
    BY <1>2 DEF Reserve, ReserveAborted
  <2>2. events'[t] \in {events[t], events[t] + 1}
    BY <2>1 DEF TypeOK
  <2> QED BY <1>0, <2>2
<1> QED
  BY <1>1, <1>2 DEF Next, vars, Caller, Coordinator, Worker, Native, Execute, Cancel, Status,
     Resume, Moves, Evaluate, EvaluateAborted, Freeze, Claim, Begin, ReuseReport, ReuseReceipt,
     CheckFrontier, FinishTrial, RecordTrial, Await, PublishCompletion, PublishAborted,
     Publishable, Raise, RecordFailure, Die, Load, RecoverShard, Recovered, FlushRows,
     OpenPickle, CommitMarker, Acknowledge, PublishReceipt, jobVars

\* Receipts are added, and the choice and the report are written where there is none.
LEMMA PublishedKept ==
  ASSUME TypeOK, Receipted, [Next]_vars
  PROVE  /\ receipts \subseteq receipts'
         /\ handoff # {} => handoff' = handoff
         /\ report > 0 => report' = report
<1>1. CASE UNCHANGED <<receipts, handoff, report>>
  BY <1>1
<1>2. CASE Evaluate \/ EvaluateAborted
  BY <1>2 DEF Evaluate, EvaluateAborted, Freeze
<1>3. CASE PublishReceipt
  BY <1>3 DEF PublishReceipt
<1>4. CASE PublishCompletion \/ PublishAborted
  <2>1. UNCHANGED <<receipts, handoff>>
    BY <1>4 DEF PublishCompletion, PublishAborted, Publishable
  <2>2. LoopDone \/ UNCHANGED report
    BY <1>4 DEF PublishCompletion, PublishAborted, Publishable
  <2>3. LoopDone => report = 0
    BY DEF LoopDone, Receipted, Live
  <2> QED BY <2>1, <2>2, <2>3
<1> QED
  BY <1>1, <1>2, <1>3, <1>4 DEF Next, vars, Caller, Coordinator, Worker, Native, Execute, Cancel,
     Status, Resume, Moves, Claim, Begin, ReuseReport, ReuseReceipt, CheckFrontier, Reserve,
     ReserveAborted, FinishTrial, RecordTrial, Await, Raise, RecordFailure, Die, Load,
     RecoverShard, Recovered, FlushRows, OpenPickle, CommitMarker, Acknowledge, jobVars

\* No step takes back what earlier attempts achieved: the count of completed trials of
\* a stage, the marker and the rows behind it, the retained events, the receipts, the
\* frozen choice and the report, wherever a worker is killed and restarted.
THEOREM ProgressNeverLost == Spec => ProgressKept
<1> DEFINE Kept ==
      /\ stage' = stage => done' >= done
      /\ \A t \in Trials :
           /\ marker'[t] >= marker[t]
           /\ \A s \in 1..marker[t] : rows'[t][s] = rows[t][s]
           /\ events'[t] >= events[t]
      /\ receipts \subseteq receipts'
      /\ handoff # {} => handoff' = handoff
      /\ report > 0 => report' = report
<1>1. IInv /\ [Next]_vars => [Kept]_vars
  <2> SUFFICES ASSUME IInv, [Next]_vars
               PROVE  Kept
    OBVIOUS
  <2>0. TypeOK /\ Staged /\ Frontier /\ Receipted
    BY DEF IInv
  <2>1. stage' = stage => done' >= done
    BY <2>0, DoneKept
  <2>2. ASSUME NEW t \in Trials
        PROVE  /\ marker'[t] >= marker[t]
               /\ \A s \in 1..marker[t] : rows'[t][s] = rows[t][s]
               /\ events'[t] >= events[t]
    BY <2>0, CommittedKept, EventsKept
  <2>3. /\ receipts \subseteq receipts'
        /\ handoff # {} => handoff' = handoff
        /\ report > 0 => report' = report
    BY <2>0, PublishedKept
  <2> QED BY <2>1, <2>2, <2>3
<1> QED BY <1>1, Invariance, PTL DEF Spec, ProgressKept

\* Each step of the row is a move of the lifecycle its callers are promised.
THEOREM LifecycleImplemented == Spec => ImplementsLifecycle
<1>1. Init => Life!Init
  BY BoundsAssumption DEF Init, Life!Init
<1>2. IInv /\ [Next]_vars => [Life!Next]_(Life!vars)
  <2> SUFFICES ASSUME IInv, [Next]_vars
               PROVE  [Life!Next]_(Life!vars)
    OBVIOUS
  <2>0. TypeOK /\ Staged
    BY DEF IInv
  <2> DEFINE Step == Life!Step("job")
  <2>1. Step => Life!Next
    BY DEF Life!Next
  <2> USE DEF Life!KeepsStage, Life!KeepsCount, Life!Goes, Life!Resumable
  <2>2. CASE UNCHANGED <<state, stage, invocations>>
    BY <2>2 DEF Life!vars
  <2>3. CASE Execute
    <3>1. Life!Admit("job")
      BY <2>0, <2>3 DEF Execute, Moves, Staged, TypeOK, Stages, Life!Admit
    <3> QED BY <2>1, <3>1 DEF Life!Step
  <2>4. CASE Cancel \/ Status
    <3>1. Life!Stop("job")
      BY <2>4 DEF Cancel, Status, Moves, Life!Stop
    <3> QED BY <2>1, <3>1 DEF Life!Step
  <2>5. CASE Resume
    <3>1. Life!Requeue("job")
      BY <2>5 DEF Resume, Moves, Life!Requeue
    <3> QED BY <2>1, <3>1 DEF Life!Step
  <2>6. CASE Evaluate
    <3>1. Life!Freeze("job")
      BY <2>0, <2>6 DEF Evaluate, Freeze, Staged, Life!Freeze
    <3> QED BY <2>1, <3>1 DEF Life!Step
  <2>7. CASE Claim
    <3>1. Life!Claim("job")
      BY <2>7 DEF Claim, Life!Claim
    <3> QED BY <2>1, <3>1 DEF Life!Step
  <2>8. CASE Await
    <3>1. Life!Await("job")
      BY <2>8 DEF Await, Running, Life!Await
    <3> QED BY <2>1, <3>1 DEF Life!Step
  <2>9. CASE PublishCompletion
    <3>1. Life!Complete("job")
      BY <2>0, <2>9 DEF PublishCompletion, Publishable, Running, Staged, Life!Complete
    <3> QED BY <2>1, <3>1 DEF Life!Step
  <2>10. CASE RecordFailure
    <3>1. CASE Running
      <4>1. UNCHANGED <<stage, invocations>> /\ state = "running"
            /\ state' \in {"failed", "interrupted"}
        BY <2>10, <3>1 DEF RecordFailure, Running
      <4>2. Life!Stop("job")
        BY <4>1 DEF Life!Stop
      <4> QED BY <2>1, <4>2 DEF Life!Step
    <3>2. CASE ~Running
      BY <2>2, <2>10, <3>2 DEF RecordFailure
    <3> QED BY <3>1, <3>2
  <2> QED
    BY <2>2, <2>3, <2>4, <2>5, <2>6, <2>7, <2>8, <2>9, <2>10 DEF Next, vars, Caller, Coordinator,
       Worker, Native, EvaluateAborted, Begin, ReuseReport, ReuseReceipt, CheckFrontier, Reserve,
       ReserveAborted, FinishTrial, RecordTrial, PublishAborted, Publishable, Raise, Die, Load,
       Recovered, FlushRows, OpenPickle, CommitMarker, Acknowledge, PublishReceipt,
       RecoverShard, rowVars
<1> QED BY <1>1, <1>2, Invariance, PTL DEF Spec, ImplementsLifecycle, Life!Spec
=============================================================================
