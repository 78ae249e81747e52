---------------------------- MODULE BaselineMatrix ----------------------------
(***************************************************************************)
(* One frozen grid of baseline cells, run cell by cell by any number of     *)
(* invocations over one directory (src/coleman/application/baselines.py,    *)
(* baseline_execution.py, baseline_observations.py, baseline_storage.py).   *)
(*                                                                         *)
(* An invocation holds matrix.lock and runs each cell in a process of a     *)
(* spawn pool.  That process takes the cell's native-execution.lock itself, *)
(* so that it still owns the cell when its parent is killed: then it is an  *)
(* orphan, goes on, and nobody takes its answer.  Invocations and native    *)
(* processes may be killed at any point; a native process may also fail at  *)
(* any point, and an invocation be interrupted while it waits.  Cells that  *)
(* are declared incompatible take no part.                                 *)
(***************************************************************************)
EXTENDS Naturals, Sequences

CONSTANTS
  Invocations,   \* calls of run_baseline_matrix; each starts a cell at most once,
                 \* so <<c, p>> names an attempt and its native process
  Grid,          \* the eligible coordinates, in order
  Builds,        \* builds of the frozen source
  NoOne

Cells == {Grid[i] : i \in DOMAIN Grid}

ASSUME GridAssumption ==
  /\ Grid \in Seq(Cells) /\ Grid # <<>>
  /\ \A i, j \in DOMAIN Grid : Grid[i] = Grid[j] => i = j
ASSUME NamesAssumption == NoOne \notin Invocations /\ Builds \in Nat \ {0}

VARIABLES
  \* files of the matrix
  ledger,        \* ledger[c][p]: "none", "started" only, or its terminal event
  reports,       \* the published reports
  complete,      \* the report complete.json names, or NoReport
  \* files of the native runs
  evidence,      \* evidence[c][s]: the attempt the observation of build s names
  frontier,      \* frontier[c]: builds committed by the native checkpoint
  done,          \* cells with a baseline-native-complete.json
  \* locks and processes
  matrix,        \* the invocation that holds matrix.lock, or NoOne
  native,        \* native[c]: the attempt that holds the cell's lock, or NoOne
  pc,            \* where each invocation is
  idx,           \* the cell it is at
  results,       \* the cells of its report so far
  child,         \* child[c][p]: where the native process of the attempt is
  at             \* at[c][p]: builds in the native state it has in memory

files   == <<ledger, reports, complete>>
natives == <<evidence, frontier, done, native, child, at>>
locals  == <<pc, idx, results>>
vars    == <<files, natives, matrix, locals>>

-----------------------------------------------------------------------------
Events   == {"none", "started", "completed", "failed", "aborted", "blocked"}
States   == {"completed", "failed", "aborted", "unavailable"}
Outcomes == {"returned", "raised", "busy"}
Places   == {"idle", "cell", "opening", "starting", "waiting", "failing", "report",
             "receipt", "over"}
Stages   == {"none", "spawned", "working", "observed", "published", "gone"} \cup Outcomes

\* BaselineCellResult: the state, the attempts' events and the raw observations.
CellResult == [state: States, attempts: [Invocations -> Events],
               evidence: Seq(Invocations)]
Report == [Cells -> CellResult]

\* A cell that was not reached.
Unexecuted == [state |-> "unavailable", attempts |-> [p \in Invocations |-> "none"],
               evidence |-> <<>>]
NoReport == [c \in Cells |-> Unexecuted]

TypeOK ==
  /\ ledger \in [Cells -> [Invocations -> Events]]
  /\ reports \subseteq Report
  /\ complete \in Report
  /\ evidence \in [Cells -> Seq(Invocations)]
  /\ frontier \in [Cells -> Nat]
  /\ done \subseteq Cells
  /\ matrix \in Invocations \cup {NoOne}
  /\ native \in [Cells -> Invocations \cup {NoOne}]
  /\ pc \in [Invocations -> Places]
  /\ idx \in [Invocations -> Nat]
  /\ results \in [Invocations -> Report]
  /\ child \in [Cells -> [Invocations -> Stages]]
  /\ at \in [Cells -> [Invocations -> Nat]]

Init ==
  /\ ledger = [c \in Cells |-> [p \in Invocations |-> "none"]]
  /\ reports = {} /\ complete = NoReport
  /\ evidence = [c \in Cells |-> <<>>]
  /\ frontier = [c \in Cells |-> 0]
  /\ done = {}
  /\ matrix = NoOne
  /\ native = [c \in Cells |-> NoOne]
  /\ pc = [p \in Invocations |-> "idle"]
  /\ idx = [p \in Invocations |-> 1]
  /\ results = [p \in Invocations |-> NoReport]
  /\ child = [c \in Cells |-> [p \in Invocations |-> "none"]]
  /\ at = [c \in Cells |-> [p \in Invocations |-> 0]]

-----------------------------------------------------------------------------
(* The invocation.                                                         *)

Goto(p, place) == pc' = [pc EXCEPT ![p] = place]
AtCell(p, c) == pc[p] = "cell" /\ idx[p] \in DOMAIN Grid /\ c = Grid[idx[p]]
Failed(c) == \E q \in Invocations : ledger[c][q] = "failed"

\* Mutant: nobody looks at matrix.lock.
EnterUnlocked(p) ==
  /\ pc[p] = "idle"
  /\ matrix' = p
  /\ Goto(p, "cell")
  /\ UNCHANGED <<files, natives, idx, results>>

\* run_baseline_matrix: a busy lock raises, and leaves nothing behind.
Enter(p) ==
  /\ pc[p] = "idle"
  /\ matrix = NoOne
  /\ matrix' = p
  /\ Goto(p, "cell")
  /\ UNCHANGED <<files, natives, idx, results>>

\* _cell_result: what the report says of c, from the files as they are.
Result(c, state, events) ==
  [state |-> state, attempts |-> events, evidence |-> evidence[c]]

\* _execute_cell, of a cell that has ended before.
Reuse(p, c) ==
  /\ AtCell(p, c)
  /\ c \in done \/ Failed(c)
  /\ results' = [results EXCEPT ![p][c] =
       Result(c, IF c \in done THEN "completed" ELSE "failed", ledger[c])]
  /\ idx' = [idx EXCEPT ![p] = @ + 1]
  /\ UNCHANGED <<files, natives, matrix, pc>>

\* Neither completed nor failed: a new attempt, though an orphan may complete the
\* cell before its event is there.
Open(p, c) ==
  /\ AtCell(p, c)
  /\ c \notin done /\ ~Failed(c)
  /\ Goto(p, "opening")
  /\ UNCHANGED <<files, natives, matrix, idx, results>>

\* Mutant: the native call comes before its event.
StartUnrecorded(p, c) ==
  /\ pc[p] = "opening" /\ c = Grid[idx[p]]
  /\ child' = [child EXCEPT ![c][p] = "spawned"]
  /\ Goto(p, "waiting")
  /\ UNCHANGED <<files, evidence, frontier, done, native, at, matrix, idx, results>>

\* The started event, durable before the native call.
Start(p, c) ==
  /\ pc[p] = "opening" /\ c = Grid[idx[p]]
  /\ ledger' = [ledger EXCEPT ![c][p] = "started"]
  /\ Goto(p, "starting")
  /\ UNCHANGED <<reports, complete, natives, matrix, idx, results>>

\* run_with_extension: one task in a pool of fresh processes.
Spawn(p) ==
  /\ pc[p] = "starting"
  /\ child' = [child EXCEPT ![Grid[idx[p]]][p] = "spawned"]
  /\ Goto(p, "waiting")
  /\ UNCHANGED <<files, evidence, frontier, done, native, at, matrix, idx, results>>

\* The terminal event and the cell's entry in the report.
Record(p, c, event, state, place) ==
  /\ ledger' = [ledger EXCEPT ![c][p] = event]
  /\ results' = [results EXCEPT ![p][c] = Result(c, state, ledger'[c])]
  /\ idx' = [idx EXCEPT ![p] = @ + 1]
  /\ Goto(p, place)
  /\ UNCHANGED <<reports, complete>>

Answered(p, c, outcome) ==
  /\ pc[p] = "waiting" /\ c = Grid[idx[p]]
  /\ child[c][p] = outcome
  /\ child' = [child EXCEPT ![c][p] = "gone"]
  /\ UNCHANGED <<evidence, frontier, done, native, at, matrix>>

Complete(p, c) ==
  /\ Answered(p, c, "returned")
  /\ Record(p, c, "completed", "completed", "cell")

\* A live orphan has the cell: neither a result nor a failure.
Block(p, c) ==
  /\ Answered(p, c, "busy")
  /\ Record(p, c, "blocked", "unavailable", "cell")

\* An exception of the native call is the cell's result, unless the completion is
\* there: then it is raised, and no terminal event is written (Die).
Failing(p, c) ==
  /\ Answered(p, c, "raised")
  /\ c \notin done
  /\ Goto(p, "failing")
  /\ UNCHANGED <<files, idx, results>>

Fail(p, c) ==
  /\ pc[p] = "failing" /\ c = Grid[idx[p]]
  /\ Record(p, c, "failed", "failed", "cell")
  /\ UNCHANGED <<natives, matrix>>

\* Ctrl+C while the pool works: its processes are terminated and joined, and the
\* partial grid is published before the interruption goes on.
Interrupt(p, c) ==
  /\ pc[p] = "waiting" /\ c = Grid[idx[p]]
  /\ child' = [child EXCEPT ![c][p] = "gone"]
  /\ at' = [at EXCEPT ![c][p] = 0]
  /\ native' = [native EXCEPT ![c] = IF @ = p THEN NoOne ELSE @]
  /\ Record(p, c, "aborted", "aborted", "report")
  /\ UNCHANGED <<evidence, frontier, done, matrix>>

Terminal(report) == \A c \in Cells : report[c].state \notin {"unavailable", "aborted"}

Leave(p) ==
  /\ matrix' = IF matrix = p THEN NoOne ELSE matrix
  /\ pc' = [pc EXCEPT ![p] = "over"]
  /\ idx' = [idx EXCEPT ![p] = 1]
  /\ results' = [results EXCEPT ![p] = NoReport]

\* Mutant: any report of a whole grid gets the receipt.
PublishReportAlways(p) ==
  /\ pc[p] = "report" \/ (pc[p] = "cell" /\ idx[p] \notin DOMAIN Grid)
  /\ reports' = reports \cup {results[p]}
  /\ Goto(p, "receipt")
  /\ UNCHANGED <<ledger, complete, natives, matrix, idx, results>>

\* The report of the whole grid; the receipt only if every cell has ended.
PublishReport(p) ==
  /\ pc[p] = "report" \/ (pc[p] = "cell" /\ idx[p] \notin DOMAIN Grid)
  /\ reports' = reports \cup {results[p]}
  /\ IF Terminal(results[p])
     THEN Goto(p, "receipt") /\ UNCHANGED <<matrix, idx, results>>
     ELSE Leave(p)
  /\ UNCHANGED <<ledger, complete, natives>>

\* write_immutable: the same receipt again is accepted, another one raises (Die).
PublishReceipt(p) ==
  /\ pc[p] = "receipt"
  /\ complete \in {NoReport, results[p]}
  /\ complete' = results[p]
  /\ Leave(p)
  /\ UNCHANGED <<ledger, reports, natives>>

\* An invocation is killed, or raises; its native process does not notice.
Die(p) ==
  /\ pc[p] \notin {"idle", "over"}
  /\ Leave(p)
  /\ UNCHANGED <<files, natives>>

-----------------------------------------------------------------------------
(* The native process of attempt <<c, p>>.                                 *)

\* What it ends with reaches the invocation, if that is still waiting.
Answer(p, c, outcome) ==
  child' = [child EXCEPT ![c][p] =
              IF pc[p] = "waiting" /\ c = Grid[idx[p]] THEN outcome ELSE "gone"]

Released(c, p) == [native EXCEPT ![c] = IF @ = p THEN NoOne ELSE @]
Forgotten(c, p) == [at EXCEPT ![c][p] = 0]

\* Mutant: the lock is taken by whoever waits for the cell, and freed with it.
LockForParent(p, c) ==
  /\ child[c][p] = "spawned"
  /\ native[c] \in {NoOne} \cup {q \in Invocations : pc[q] = "over"}
  /\ native' = [native EXCEPT ![c] = p]
  /\ child' = [child EXCEPT ![c][p] = "working"]
  /\ at' = [at EXCEPT ![c][p] = frontier[c]]
  /\ UNCHANGED <<files, evidence, frontier, done, matrix, locals>>

\* run_single takes the cell's lock and restores the native checkpoint.
Lock(p, c) ==
  /\ child[c][p] = "spawned"
  /\ native[c] = NoOne
  /\ native' = [native EXCEPT ![c] = p]
  /\ child' = [child EXCEPT ![c][p] = "working"]
  /\ at' = [at EXCEPT ![c][p] = frontier[c]]
  /\ UNCHANGED <<files, evidence, frontier, done, matrix, locals>>

Busy(p, c) ==
  /\ child[c][p] = "spawned"
  /\ native[c] # NoOne
  /\ Answer(p, c, "busy")
  /\ UNCHANGED <<files, evidence, frontier, done, native, at, matrix, locals>>

\* BaselineMonitor.collect: the observation of the next build, once; what an
\* earlier attempt observed without committing it is kept.
Observe(p, c) ==
  /\ child[c][p] = "working" /\ at[c][p] < Builds
  /\ evidence' = [evidence EXCEPT ![c] = IF Len(@) > at[c][p] THEN @ ELSE Append(@, p)]
  /\ child' = [child EXCEPT ![c][p] = "observed"]
  /\ UNCHANGED <<files, frontier, done, native, at, matrix, locals>>

\* Rows and checkpoint of the build (WorkflowAttempt has the protocol).
Commit(p, c) ==
  /\ child[c][p] = "observed"
  /\ at' = [at EXCEPT ![c][p] = @ + 1]
  /\ frontier' = [frontier EXCEPT ![c] = at'[c][p]]
  /\ child' = [child EXCEPT ![c][p] = "working"]
  /\ UNCHANGED <<files, evidence, done, native, matrix, locals>>

\* publish_native_baseline_completion, still under the lock; then it is left.
PublishCompletion(p, c) ==
  /\ child[c][p] = "working" /\ at[c][p] = Builds
  /\ done' = done \cup {c}
  /\ native' = Released(c, p)
  /\ at' = Forgotten(c, p)
  /\ child' = [child EXCEPT ![c][p] = "published"]
  /\ UNCHANGED <<files, evidence, frontier, matrix, locals>>

Return(p, c) ==
  /\ child[c][p] = "published"
  /\ Answer(p, c, "returned")
  /\ UNCHANGED <<files, evidence, frontier, done, native, at, matrix, locals>>

Alive(p, c) == child[c][p] \in {"spawned", "working", "observed", "published"}

\* A limit is exceeded, or anything else raises.
Raise(p, c) ==
  /\ Alive(p, c)
  /\ Answer(p, c, "raised")
  /\ native' = Released(c, p)
  /\ at' = Forgotten(c, p)
  /\ UNCHANGED <<files, evidence, frontier, done, matrix, locals>>

\* It is killed: the pool replaces the process but not its task, and whoever
\* waits for that goes on waiting.
Kill(p, c) ==
  /\ Alive(p, c)
  /\ child' = [child EXCEPT ![c][p] = "gone"]
  /\ native' = Released(c, p)
  /\ at' = Forgotten(c, p)
  /\ UNCHANGED <<files, evidence, frontier, done, matrix, locals>>

-----------------------------------------------------------------------------
Invocation(p) ==
  \/ Enter(p) \/ Spawn(p) \/ PublishReport(p) \/ PublishReceipt(p) \/ Die(p)
  \/ \E c \in Cells :
       \/ Reuse(p, c) \/ Open(p, c) \/ Start(p, c) \/ Complete(p, c)
       \/ Block(p, c) \/ Failing(p, c) \/ Fail(p, c) \/ Interrupt(p, c)

Native(p, c) ==
  \/ Lock(p, c) \/ Busy(p, c) \/ Observe(p, c) \/ Commit(p, c)
  \/ PublishCompletion(p, c) \/ Return(p, c) \/ Raise(p, c) \/ Kill(p, c)

Next == \E p \in Invocations : Invocation(p) \/ \E c \in Cells : Native(p, c)

Spec == Init /\ [][Next]_vars

-----------------------------------------------------------------------------
(* Properties.                                                             *)

\* Whoever was killed, native state is advanced by one process at a time, from
\* the checkpoint that is there (_BaselineEnvironment.run_single).
NativeExclusive ==
  \A c \in Cells, p \in Invocations :
    child[c][p] \in {"working", "observed"} =>
      /\ at[c][p] = frontier[c]
      /\ \A q \in Invocations \ {p} : child[c][q] \notin {"working", "observed"}

\* A cell has one verdict: however often the grid is retried, and whoever was
\* killed, at most one attempt of it is recorded as completed or failed
\* (_execute_cell under matrix.lock).
OneVerdict ==
  \A c \in Cells, p, q \in Invocations :
    {ledger[c][p], ledger[c][q]} \subseteq {"completed", "failed"} => p = q

\* Every observation, of killed attempts too, names an attempt whose start is
\* in the ledger (_cell_result, _verify_observed_attempts).
EvidenceAttributed ==
  \A c \in Cells : \A s \in DOMAIN evidence[c] : ledger[c][evidence[c][s]] # "none"

\* complete.json names a published report of a grid in which every cell has
\* ended, completed cells have all their builds, and it goes on counting every
\* attempt there is (_run_locked, _verify_cell_attempts).
ReceiptHonest ==
  complete # NoReport =>
    /\ complete \in reports /\ Terminal(complete)
    /\ \A c \in Cells :
         /\ complete[c].attempts = ledger[c]
         /\ complete[c].state = "completed" =>
              c \in done /\ Len(complete[c].evidence) = Builds

\* What a finished grid recorded stays what the directory holds: a retry reports
\* the same cells and publishes the same receipt again (run_baseline_matrix).
ReceiptStands ==
  complete # NoReport =>
    \A c \in Cells :
      complete[c] = Result(c, IF c \in done THEN "completed" ELSE "failed", ledger[c])
=============================================================================
