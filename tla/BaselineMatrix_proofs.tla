------------------------ MODULE BaselineMatrix_proofs ------------------------
(***************************************************************************)
(* For any grid, number of builds and number of invocations: the cells of a *)
(* matrix have one native process and one verdict, every observation is of  *)
(* a recorded attempt, and the published grid stays accounted for.          *)
(***************************************************************************)
EXTENDS BaselineMatrix, TLAPS

\* What the assumptions say of the grid.
LEMMA GridTyped ==
  /\ Cells # {} /\ Grid \in Seq(Cells)
  /\ \A i, j \in DOMAIN Grid : Grid[i] = Grid[j] => i = j
  /\ \A i \in DOMAIN Grid : i \in Nat /\ Grid[i] \in Cells
  /\ \A c \in Cells : \E i \in DOMAIN Grid : c = Grid[i]
  /\ NoOne \notin Invocations /\ Builds \in Nat /\ Builds > 0
BY GridAssumption, NamesAssumption DEF Cells

LEMMA NoReportTyped == NoReport \in Report /\ ~Terminal(NoReport)
BY GridTyped DEF NoReport, Unexecuted, Report, CellResult, States, Events, Terminal

\* One entry of a table of tables.
LEMMA EntryTyped ==
  ASSUME NEW A, NEW B, NEW V, NEW f \in [A -> [B -> V]], NEW a \in A, NEW b \in B, NEW v \in V
  PROVE  [f EXCEPT ![a][b] = v] \in [A -> [B -> V]]
OBVIOUS

LEMMA ResultTyped ==
  ASSUME TypeOK, NEW c \in Cells, NEW state \in States, NEW events \in [Invocations -> Events]
  PROVE  Result(c, state, events) \in CellResult
BY DEF TypeOK, Result, CellResult

\* The report of an invocation with one more cell.
LEMMA ReportTyped ==
  ASSUME TypeOK, NEW p \in Invocations, NEW c \in Cells, NEW r \in CellResult
  PROVE  [results EXCEPT ![p][c] = r] \in [Invocations -> Report]
BY EntryTyped DEF TypeOK, Report

LEMMA RecordTyped ==
  ASSUME TypeOK, NEW p \in Invocations, NEW c \in Cells,
         NEW event \in Events, NEW state \in States, NEW place \in Places,
         Record(p, c, event, state, place)
  PROVE  /\ ledger' \in [Cells -> [Invocations -> Events]]
         /\ results' \in [Invocations -> Report]
         /\ idx' \in [Invocations -> Nat] /\ pc' \in [Invocations -> Places]
         /\ reports' \subseteq Report /\ complete' \in Report
<1>1. ledger' \in [Cells -> [Invocations -> Events]]
  BY EntryTyped DEF TypeOK, Record
<1>2. Result(c, state, ledger'[c]) \in CellResult
  BY <1>1, ResultTyped
<1>3. results' \in [Invocations -> Report]
  BY <1>2, ReportTyped DEF Record
<1>4. QED
  BY <1>1, <1>3 DEF TypeOK, Record, Goto

\* A native process that moves, ends or is killed.
LEMMA NativeTyped ==
  ASSUME TypeOK, NEW p \in Invocations, NEW c \in Cells
  PROVE  /\ \A s \in Stages : [child EXCEPT ![c][p] = s] \in [Cells -> [Invocations -> Stages]]
         /\ \A n \in Nat : [at EXCEPT ![c][p] = n] \in [Cells -> [Invocations -> Nat]]
         /\ Released(c, p) \in [Cells -> Invocations \cup {NoOne}]
         /\ Forgotten(c, p) \in [Cells -> [Invocations -> Nat]]
         /\ \A o \in Outcomes : Answer(p, c, o) => child' \in [Cells -> [Invocations -> Stages]]
<1>1. \A s \in Stages : [child EXCEPT ![c][p] = s] \in [Cells -> [Invocations -> Stages]]
  BY EntryTyped DEF TypeOK
<1>2. \A n \in Nat : [at EXCEPT ![c][p] = n] \in [Cells -> [Invocations -> Nat]]
  BY EntryTyped DEF TypeOK
<1>3. Released(c, p) \in [Cells -> Invocations \cup {NoOne}]
  BY DEF TypeOK, Released
<1>4. \A o \in Outcomes : Answer(p, c, o) => child' \in [Cells -> [Invocations -> Stages]]
  BY <1>1 DEF Answer, Stages
<1>5. QED
  BY <1>1, <1>2, <1>3, <1>4 DEF Forgotten

LEMMA InitTyped == Init => TypeOK
BY GridTyped, NoReportTyped DEF Init, TypeOK, Events, Places, Stages

LEMMA StepTyped == TypeOK /\ [Next]_vars => TypeOK'
<1> SUFFICES ASSUME TypeOK, [Next]_vars PROVE TypeOK'
  OBVIOUS
<1> USE GridTyped
<1>1. CASE vars' = vars
  BY <1>1 DEF TypeOK, vars, files, natives, locals
<1>2. ASSUME NEW p \in Invocations, Enter(p)
      PROVE  TypeOK'
  BY <1>2 DEF TypeOK, Enter, Goto, Places, vars, files, natives, locals
<1>3. ASSUME NEW p \in Invocations, Spawn(p)
      PROVE  TypeOK'
  BY <1>3, NativeTyped DEF TypeOK, Spawn, Goto, Places, Stages, vars, files, natives, locals
<1>4. ASSUME NEW p \in Invocations, PublishReport(p)
      PROVE  TypeOK'
  <2>1. results[p] \in Report /\ reports' = reports \cup {results[p]}
    BY <1>4 DEF TypeOK, PublishReport
  <2>2. reports' \subseteq Report
    BY <2>1 DEF TypeOK
  <2>3. CASE Terminal(results[p])
    BY <1>4, <2>2, <2>3 DEF TypeOK, PublishReport, Goto, Places, natives
  <2>4. CASE ~Terminal(results[p])
    <3>1. /\ matrix' \in Invocations \cup {NoOne} /\ pc' \in [Invocations -> Places]
          /\ idx' \in [Invocations -> Nat]
      <4>1. Leave(p)
        BY <1>4, <2>4 DEF PublishReport
      <4>2. QED
        BY <4>1 DEF TypeOK, Leave, Places
    <3>2. results' \in [Invocations -> Report]
      BY <1>4, <2>4, NoReportTyped DEF TypeOK, PublishReport, Leave
    <3>3. QED
      BY <1>4, <2>2, <3>1, <3>2 DEF TypeOK, PublishReport, natives
  <2>5. QED
    BY <2>3, <2>4
<1>5. ASSUME NEW p \in Invocations, PublishReceipt(p)
      PROVE  TypeOK'
  BY <1>5, NoReportTyped DEF TypeOK, PublishReceipt, Leave, Places, vars, files, natives, locals
<1>6. ASSUME NEW p \in Invocations, Die(p)
      PROVE  TypeOK'
  BY <1>6, NoReportTyped DEF TypeOK, Die, Leave, Places, vars, files, natives, locals
<1>7. ASSUME NEW p \in Invocations, NEW c \in Cells, Reuse(p, c)
      PROVE  TypeOK'
  <2>1. (IF c \in done THEN "completed" ELSE "failed") \in States
    BY DEF States
  <2>2. ledger[c] \in [Invocations -> Events]
    BY DEF TypeOK
  <2>3. results' \in [Invocations -> Report]
    BY <1>7, <2>1, <2>2, ResultTyped, ReportTyped DEF Reuse
  <2>4. idx' \in [Invocations -> Nat]
    <3>1. idx \in [Invocations -> Nat] /\ idx' = [idx EXCEPT ![p] = @ + 1]
      BY <1>7 DEF TypeOK, Reuse
    <3>2. QED
      BY <3>1
  <2>5. UNCHANGED <<files, natives, matrix, pc>>
    BY <1>7 DEF Reuse
  <2>6. QED
    BY <2>3, <2>4, <2>5 DEF TypeOK, files, natives
<1>8. ASSUME NEW p \in Invocations, NEW c \in Cells, Open(p, c)
      PROVE  TypeOK'
  BY <1>8 DEF TypeOK, Open, AtCell, Goto, Places, vars, files, natives, locals
<1>9. ASSUME NEW p \in Invocations, NEW c \in Cells, Start(p, c)
      PROVE  TypeOK'
  BY <1>9 DEF TypeOK, Start, Goto, Places, Events, vars, files, natives, locals
<1>10. ASSUME NEW p \in Invocations, NEW c \in Cells, Complete(p, c)
      PROVE  TypeOK'
  BY <1>10, NativeTyped, RecordTyped DEF TypeOK, Complete, Answered, Places, Stages, Events, States, vars, files, natives, locals
<1>11. ASSUME NEW p \in Invocations, NEW c \in Cells, Block(p, c)
      PROVE  TypeOK'
  BY <1>11, NativeTyped, RecordTyped DEF TypeOK, Block, Answered, Places, Stages, Events, States, vars, files, natives, locals
<1>12. ASSUME NEW p \in Invocations, NEW c \in Cells, Failing(p, c)
      PROVE  TypeOK'
  BY <1>12, NativeTyped DEF TypeOK, Failing, Answered, Goto, Places, Stages, vars, files, natives, locals
<1>13. ASSUME NEW p \in Invocations, NEW c \in Cells, Fail(p, c)
      PROVE  TypeOK'
  BY <1>13, RecordTyped DEF TypeOK, Fail, Places, Events, States, vars, files, natives, locals
<1>14. ASSUME NEW p \in Invocations, NEW c \in Cells, Interrupt(p, c)
      PROVE  TypeOK'
  BY <1>14, NativeTyped, RecordTyped DEF TypeOK, Interrupt, Places, Stages, Events, States, vars, files, natives, locals
<1>15. ASSUME NEW p \in Invocations, NEW c \in Cells, Lock(p, c)
      PROVE  TypeOK'
  BY <1>15, NativeTyped DEF TypeOK, Lock, Stages, vars, files, natives, locals
<1>16. ASSUME NEW p \in Invocations, NEW c \in Cells, Busy(p, c)
      PROVE  TypeOK'
  BY <1>16, NativeTyped DEF TypeOK, Busy, Outcomes, vars, files, natives, locals
<1>17. ASSUME NEW p \in Invocations, NEW c \in Cells, Observe(p, c)
      PROVE  TypeOK'
  <2>1. evidence[c] \in Seq(Invocations) /\ Append(evidence[c], p) \in Seq(Invocations)
    BY DEF TypeOK
  <2>2. evidence' \in [Cells -> Seq(Invocations)]
    BY <1>17, <2>1 DEF TypeOK, Observe
  <2>3. child' \in [Cells -> [Invocations -> Stages]]
    BY <1>17, NativeTyped DEF Observe, Stages
  <2>4. QED
    BY <1>17, <2>2, <2>3 DEF TypeOK, Observe, files, locals
<1>18. ASSUME NEW p \in Invocations, NEW c \in Cells, Commit(p, c)
      PROVE  TypeOK'
  <2>1. at[c][p] + 1 \in Nat
    <3>1. at \in [Cells -> [Invocations -> Nat]]
      BY DEF TypeOK
    <3>2. at[c][p] \in Nat
      BY <3>1
    <3>3. QED
      BY <3>2
  <2>2. at' \in [Cells -> [Invocations -> Nat]]
    BY <1>18, <2>1, NativeTyped DEF Commit
  <2>3. frontier' \in [Cells -> Nat]
    BY <1>18, <2>2 DEF TypeOK, Commit
  <2>4. child' \in [Cells -> [Invocations -> Stages]]
    BY <1>18, NativeTyped DEF Commit, Stages
  <2>5. QED
    BY <1>18, <2>2, <2>3, <2>4 DEF TypeOK, Commit, files, locals
<1>19. ASSUME NEW p \in Invocations, NEW c \in Cells, PublishCompletion(p, c)
      PROVE  TypeOK'
  BY <1>19, NativeTyped DEF TypeOK, PublishCompletion, Stages, vars, files, natives, locals
<1>20. ASSUME NEW p \in Invocations, NEW c \in Cells, Return(p, c)
      PROVE  TypeOK'
  BY <1>20, NativeTyped DEF TypeOK, Return, Outcomes, vars, files, natives, locals
<1>21. ASSUME NEW p \in Invocations, NEW c \in Cells, Raise(p, c)
      PROVE  TypeOK'
  BY <1>21, NativeTyped DEF TypeOK, Raise, Outcomes, vars, files, natives, locals
<1>22. ASSUME NEW p \in Invocations, NEW c \in Cells, Kill(p, c)
      PROVE  TypeOK'
  BY <1>22, NativeTyped DEF TypeOK, Kill, Stages, vars, files, natives, locals
<1>23. QED
  BY <1>1, <1>2, <1>3, <1>4, <1>5, <1>6, <1>7, <1>8, <1>9, <1>10, <1>11, <1>12, <1>13, <1>14, <1>15, <1>16, <1>17, <1>18, <1>19, <1>20, <1>21, <1>22 DEF Next, Invocation, Native

-----------------------------------------------------------------------------
(* Who holds matrix.lock, and where.                                       *)

Inside == {"opening", "starting", "waiting", "failing"}

\* Only the holder of matrix.lock is under way, and an attempt is of a cell.
Held ==
  \A p \in Invocations :
    /\ pc[p] \notin {"idle", "over"} => matrix = p
    /\ pc[p] \in Inside => idx[p] \in DOMAIN Grid

LEMMA NativeFrame ==
  ASSUME NEW p \in Invocations, NEW c \in Cells, Native(p, c)
  PROVE  UNCHANGED <<files, matrix, locals>>
BY DEF Native, Lock, Busy, Observe, Commit, PublishCompletion, Return, Raise, Kill

LEMMA StepHeld == TypeOK /\ Held /\ [Next]_vars => Held'
<1> SUFFICES ASSUME TypeOK, Held, [Next]_vars PROVE Held'
  OBVIOUS
<1> USE GridTyped
<1>0. pc \in [Invocations -> Places] /\ idx \in [Invocations -> Nat]
  BY DEF TypeOK
<1>1. CASE vars' = vars
  BY <1>1 DEF Held, vars, locals
<1>2. ASSUME NEW p \in Invocations, Enter(p) PROVE Held'
  BY <1>0, <1>2 DEF Held, Enter, Goto, Inside
<1>3. ASSUME NEW p \in Invocations, Spawn(p) PROVE Held'
  BY <1>0, <1>3 DEF Held, Spawn, Goto, Inside
<1>4. ASSUME NEW p \in Invocations, Leave(p), pc[p] \notin {"idle", "over"} PROVE Held'
  BY <1>0, <1>4 DEF Held, Leave, Inside
<1>5. ASSUME NEW p \in Invocations, PublishReport(p) PROVE Held'
  BY <1>0, <1>4, <1>5 DEF Held, PublishReport, Goto, Inside
<1>6. ASSUME NEW p \in Invocations, PublishReceipt(p) PROVE Held'
  BY <1>4, <1>6 DEF PublishReceipt
<1>7. ASSUME NEW p \in Invocations, Die(p) PROVE Held'
  BY <1>4, <1>7 DEF Die
<1>8. ASSUME NEW p \in Invocations, NEW c \in Cells, Reuse(p, c) PROVE Held'
  BY <1>0, <1>8 DEF Held, Reuse, AtCell, Inside
<1>9. ASSUME NEW p \in Invocations, NEW c \in Cells, Open(p, c) PROVE Held'
  BY <1>0, <1>9 DEF Held, Open, AtCell, Goto, Inside, locals
<1>10. ASSUME NEW p \in Invocations, NEW c \in Cells, Start(p, c) PROVE Held'
  BY <1>0, <1>10 DEF Held, Start, Goto, Inside
<1>11. ASSUME NEW p \in Invocations, NEW place \in Places \ Inside, pc[p] \in Inside,
              Goto(p, place), idx' = [idx EXCEPT ![p] = @ + 1], matrix' = matrix
       PROVE  Held'
  BY <1>0, <1>11 DEF Held, Goto, Inside
<1>12. ASSUME NEW p \in Invocations, NEW c \in Cells, Complete(p, c) PROVE Held'
  BY <1>11, <1>12 DEF Complete, Answered, Record, Inside, Places
<1>13. ASSUME NEW p \in Invocations, NEW c \in Cells, Block(p, c) PROVE Held'
  BY <1>11, <1>13 DEF Block, Answered, Record, Inside, Places
<1>14. ASSUME NEW p \in Invocations, NEW c \in Cells, Failing(p, c) PROVE Held'
  BY <1>0, <1>14 DEF Held, Failing, Answered, Goto, Inside
<1>15. ASSUME NEW p \in Invocations, NEW c \in Cells, Fail(p, c) PROVE Held'
  BY <1>11, <1>15 DEF Fail, Record, Inside, Places
<1>16. ASSUME NEW p \in Invocations, NEW c \in Cells, Interrupt(p, c) PROVE Held'
  BY <1>11, <1>16 DEF Interrupt, Record, Inside, Places
<1>17. ASSUME NEW p \in Invocations, NEW c \in Cells, Native(p, c) PROVE Held'
  BY <1>17, NativeFrame DEF Held, locals
<1>18. QED
  BY <1>1, <1>2, <1>3, <1>5, <1>6, <1>7, <1>8, <1>9, <1>10, <1>12, <1>13, <1>14, <1>15,
     <1>16, <1>17 DEF Next, Invocation

-----------------------------------------------------------------------------
(* The native processes.                                                   *)

Working == {"working", "observed"}

\* A working process holds its cell's lock and is at its checkpoint.
NativeHeld ==
  \A c \in Cells, p \in Invocations :
    child[c][p] \in Working => native[c] = p /\ at[c][p] = frontier[c]

\* Observations run ahead of the checkpoint by one build at most.
EvidenceAhead ==
  \A c \in Cells :
    /\ frontier[c] <= Len(evidence[c]) /\ Len(evidence[c]) <= Builds
    /\ \A p \in Invocations : child[c][p] = "observed" => frontier[c] < Len(evidence[c])

\* A completion stands on every build, and a process that answers with one left it.
Completed ==
  \A c \in Cells :
    /\ c \in done => Len(evidence[c]) = Builds
    /\ \A p \in Invocations : child[c][p] \in {"published", "returned"} => c \in done

Natives == NativeHeld /\ EvidenceAhead /\ Completed

LEMMA StepNatives == TypeOK /\ Held /\ Natives /\ [Next]_vars => Natives'
<1> SUFFICES ASSUME TypeOK, Held, Natives, [Next]_vars PROVE Natives'
  OBVIOUS
<1> USE GridTyped
<1>0. /\ evidence \in [Cells -> Seq(Invocations)] /\ frontier \in [Cells -> Nat]
      /\ child \in [Cells -> [Invocations -> Stages]] /\ at \in [Cells -> [Invocations -> Nat]]
      /\ native \in [Cells -> Invocations \cup {NoOne}]
  BY DEF TypeOK
<1>1. CASE UNCHANGED natives
  BY <1>1 DEF Natives, NativeHeld, EvidenceAhead, Completed, natives
\* A child that stops working, whoever stopped it.
<1>2. ASSUME NEW p \in Invocations, NEW c \in Cells,
             NEW stage \in Stages \ (Working \cup {"published"}),
             child' = [child EXCEPT ![c][p] = stage], stage = "returned" => c \in done,
             native' \in {native, Released(c, p)}, at' \in {at, Forgotten(c, p)},
             UNCHANGED <<evidence, frontier, done>>
      PROVE  Natives'
  <2>a. \A d \in Cells, q \in Invocations :
          child'[d][q] = IF d = c /\ q = p THEN stage ELSE child[d][q]
    BY <1>0, <1>2, ZenonT(40)
  <2>b. \A d \in Cells, q \in Invocations : ~(d = c /\ q = p) => at'[d][q] = at[d][q]
    <3>1. CASE at' = at
      BY <3>1
    <3>2. CASE at' = Forgotten(c, p)
      BY <1>0, <3>2 DEF Forgotten
    <3>3. QED
      BY <1>2, <3>1, <3>2
  <2>c. \A d \in Cells, q \in Invocations \ {p} : native[d] = q => native'[d] = q
    BY <1>0, <1>2, ZenonT(40) DEF Released
  <2>d. \A d \in Cells \ {c} : native'[d] = native[d]
    BY <1>0, <1>2 DEF Released
  <2>1. NativeHeld'
    <3> SUFFICES ASSUME NEW d \in Cells, NEW q \in Invocations, child'[d][q] \in Working
                 PROVE  native'[d] = q /\ at'[d][q] = frontier'[d]
      BY DEF NativeHeld
    <3>1. ~(d = c /\ q = p) /\ child[d][q] \in Working
      BY <1>2, <2>a
    <3>2. native[d] = q /\ at[d][q] = frontier[d]
      BY <3>1 DEF Natives, NativeHeld
    <3>3. QED
      BY <1>2, <2>b, <2>c, <2>d, <3>1, <3>2
  <2>2. EvidenceAhead'
    BY <1>0, <1>2 DEF Natives, EvidenceAhead, Working
  <2>3. Completed'
    BY <1>0, <1>2, SMTT(20) DEF Natives, Completed, Working
  <2>4. QED
    BY <2>1, <2>2, <2>3 DEF Natives
<1>3. ASSUME NEW p \in Invocations, Invocation(p) PROVE Natives'
  <2>1. CASE Spawn(p)
    <3>1. Grid[idx[p]] \in Cells
      BY <2>1 DEF Spawn, Held, Inside
    <3>2. /\ child' = [child EXCEPT ![Grid[idx[p]]][p] = "spawned"]
          /\ native' = native /\ at' = at /\ UNCHANGED <<evidence, frontier, done>>
      BY <2>1 DEF Spawn
    <3>3. "spawned" \in Stages \ (Working \cup {"published"})
      BY DEF Stages, Working
    <3>4. QED
      BY <1>2, <3>1, <3>2, <3>3
  <2>3. ASSUME NEW c \in Cells, Complete(p, c) \/ Block(p, c) \/ Failing(p, c) PROVE Natives'
    BY <1>2, <2>3 DEF Complete, Block, Failing, Answered, Stages, Working
  <2>4. ASSUME NEW c \in Cells, Interrupt(p, c) PROVE Natives'
    <3>1. /\ child' = [child EXCEPT ![c][p] = "gone"]
          /\ native' = Released(c, p) /\ at' = Forgotten(c, p)
          /\ UNCHANGED <<evidence, frontier, done>>
      BY <2>4 DEF Interrupt, Released, Forgotten
    <3>2. "gone" \in Stages \ (Working \cup {"published"})
      BY DEF Stages, Working
    <3>3. QED
      BY <1>2, <3>1, <3>2
  <2>5. ASSUME NEW c \in Cells, Reuse(p, c) \/ Open(p, c) \/ Start(p, c) \/ Fail(p, c)
        PROVE  Natives'
    BY <1>1, <2>5 DEF Reuse, Open, Start, Fail
  <2>6. CASE Enter(p) \/ PublishReport(p) \/ PublishReceipt(p) \/ Die(p)
    BY <1>1, <2>6 DEF Enter, PublishReport, PublishReceipt, Die
  <2>7. QED
    BY <1>3, <2>1, <2>3, <2>4, <2>5, <2>6 DEF Invocation
<1>4. ASSUME NEW p \in Invocations, NEW c \in Cells, Lock(p, c) PROVE Natives'
  <2>1. NativeHeld'
    <3>a. \A d \in Cells, q \in Invocations :
          child'[d][q] = IF d = c /\ q = p THEN "working" ELSE child[d][q]
      BY <1>0, <1>4, ZenonT(40) DEF Lock
    <3>b. \A q \in Invocations : child[c][q] \notin Working
      BY <1>4 DEF Natives, NativeHeld, Lock
    <3>1. \A d \in Cells, q \in Invocations :
            child'[d][q] \in Working => (d = c /\ q = p) \/ (d # c /\ child[d][q] \in Working)
      BY <3>a, <3>b
    <3>2. at'[c][p] = frontier[c] /\ native'[c] = p
      BY <1>0, <1>4 DEF Lock
    <3>3. \A d \in Cells \ {c}, q \in Invocations : at'[d][q] = at[d][q] /\ native'[d] = native[d]
      BY <1>0, <1>4 DEF Lock
    <3>4. QED
      BY <1>4, <3>1, <3>2, <3>3 DEF Natives, NativeHeld, Lock
  <2>2. EvidenceAhead' /\ Completed'
    BY <1>0, <1>4, SMTT(20) DEF Natives, EvidenceAhead, Completed, Lock
  <2>3. QED
    BY <2>1, <2>2 DEF Natives
<1>5. ASSUME NEW p \in Invocations, NEW c \in Cells, Observe(p, c) PROVE Natives'
  <2>1. NativeHeld'
    <3>1. \A d \in Cells, q \in Invocations : child'[d][q] \in Working => child[d][q] \in Working
      BY <1>0, <1>5 DEF Observe, Working
    <3>2. UNCHANGED <<native, at, frontier>>
      BY <1>5 DEF Observe
    <3>3. QED
      BY <3>1, <3>2 DEF Natives, NativeHeld
  <2>2. at[c][p] = frontier[c] /\ at[c][p] < Builds
    BY <1>5 DEF Natives, NativeHeld, Observe, Working
  <2>3. /\ evidence'[c] = IF Len(evidence[c]) > frontier[c] THEN evidence[c]
                                                            ELSE Append(evidence[c], p)
        /\ \A d \in Cells \ {c} : evidence'[d] = evidence[d]
    BY <1>0, <1>5, <2>2 DEF Observe
  <2>4. /\ Len(evidence'[c]) \in Nat
        /\ Len(evidence'[c]) > frontier[c] /\ Len(evidence'[c]) <= Builds
        /\ Len(evidence[c]) = Builds => evidence'[c] = evidence[c]
    BY <1>0, <2>2, <2>3, SMTT(20) DEF Natives, EvidenceAhead
  <2>5. EvidenceAhead'
    <3>1. \A d \in Cells, q \in Invocations :
            child'[d][q] = "observed" => (d = c /\ q = p) \/ child[d][q] = "observed"
      BY <1>0, <1>5 DEF Observe
    <3>2. frontier' = frontier
      BY <1>5 DEF Observe
    <3>3. QED
      <4> SUFFICES ASSUME NEW d \in Cells
                   PROVE  /\ frontier[d] <= Len(evidence'[d]) /\ Len(evidence'[d]) <= Builds
                          /\ \A q \in Invocations :
                               child'[d][q] = "observed" => frontier[d] < Len(evidence'[d])
        BY <3>2 DEF EvidenceAhead
      <4>1. CASE d = c
        BY <1>0, <2>4, <4>1, SMTT(20)
      <4>2. CASE d # c
        BY <2>3, <3>1, <4>2 DEF Natives, EvidenceAhead
      <4>3. QED
        BY <4>1, <4>2
  <2>6. Completed'
    <3>1. \A d \in Cells, q \in Invocations :
            child'[d][q] \in {"published", "returned"} => child[d][q] \in {"published", "returned"}
      BY <1>0, <1>5 DEF Observe
    <3>2. done' = done
      BY <1>5 DEF Observe
    <3>3. QED
      BY <2>3, <2>4, <3>1, <3>2 DEF Natives, Completed
  <2>7. QED
    BY <2>1, <2>5, <2>6 DEF Natives
<1>6. ASSUME NEW p \in Invocations, NEW c \in Cells, Commit(p, c) PROVE Natives'
  <2>1. /\ native[c] = p /\ at[c][p] = frontier[c] /\ frontier[c] < Len(evidence[c])
        /\ \A q \in Invocations \ {p} : child[c][q] \notin Working
    BY <1>6 DEF Natives, NativeHeld, EvidenceAhead, Commit, Working
  <2>2. at' = [at EXCEPT ![c][p] = frontier[c] + 1]
    BY <1>0, <1>6, <2>1 DEF Commit
  <2>a. \A d \in Cells, q \in Invocations :
          at'[d][q] = IF d = c /\ q = p THEN frontier[c] + 1 ELSE at[d][q]
    <3>1. PICK n : n = frontier[c] + 1
      OBVIOUS
    <3>2. at' = [at EXCEPT ![c][p] = n]
      BY <2>2, <3>1
    <3>3. \A d \in Cells, q \in Invocations :
            at'[d][q] = IF d = c /\ q = p THEN n ELSE at[d][q]
      BY <1>0, <3>2, ZenonT(40)
    <3>4. QED
      BY <3>1, <3>3
  <2>3. at'[c][p] = frontier[c] + 1
    BY <2>a
  <2>4. frontier' = [frontier EXCEPT ![c] = frontier[c] + 1]
    BY <1>6, <2>3 DEF Commit
  <2>5. child' = [child EXCEPT ![c][p] = "working"] /\ UNCHANGED <<evidence, done, native>>
    BY <1>6 DEF Commit
  <2>b. \A d \in Cells, q \in Invocations :
          child'[d][q] = IF d = c /\ q = p THEN "working" ELSE child[d][q]
    BY <1>0, <2>5, ZenonT(40)
  <2>6. NativeHeld'
    <3>1. \A d \in Cells, q \in Invocations :
            child'[d][q] \in Working => (d = c /\ q = p) \/ (d # c /\ child[d][q] \in Working)
      BY <2>1, <2>b
    <3>2. frontier'[c] = frontier[c] + 1 /\ \A d \in Cells \ {c} : frontier'[d] = frontier[d]
      BY <1>0, <2>4
    <3>3. \A d \in Cells \ {c}, q \in Invocations : at'[d][q] = at[d][q]
      BY <2>a
    <3>4. QED
      BY <2>1, <2>3, <2>5, <3>1, <3>2, <3>3 DEF Natives, NativeHeld
  <2>7. \A q \in Invocations : child'[c][q] # "observed"
    BY <2>1, <2>b DEF Working
  <2>8. \A d \in Cells \ {c}, q \in Invocations : child'[d][q] = child[d][q]
    BY <2>b
  <2>9. EvidenceAhead'
    <3>1. frontier'[c] = frontier[c] + 1 /\ \A d \in Cells \ {c} : frontier'[d] = frontier[d]
      BY <1>0, <2>4
    <3>2. frontier'[c] <= Len(evidence'[c]) /\ Len(evidence'[c]) <= Builds
      BY <1>0, <2>1, <2>5, <3>1 DEF Natives, EvidenceAhead
    <3>3. QED
      BY <2>5, <2>7, <2>8, <3>1, <3>2 DEF Natives, EvidenceAhead
  <2>10. Completed'
    <3>1. \A d \in Cells, q \in Invocations :
            child'[d][q] \in {"published", "returned"} => child[d][q] \in {"published", "returned"}
      BY <2>b
    <3>2. QED
      BY <2>5, <3>1 DEF Natives, Completed
  <2>11. QED
    BY <2>6, <2>9, <2>10 DEF Natives
<1>7. ASSUME NEW p \in Invocations, NEW c \in Cells, PublishCompletion(p, c) PROVE Natives'
  <2>1. Len(evidence[c]) = Builds
    BY <1>0, <1>7 DEF Natives, NativeHeld, EvidenceAhead, PublishCompletion, Working
  <2>2. NativeHeld'
    <3>1. \A d \in Cells, q \in Invocations :
            child'[d][q] \in Working =>
              ~(d = c /\ q = p) /\ child[d][q] \in Working /\ at'[d][q] = at[d][q]
      BY <1>0, <1>7, ZenonT(40) DEF PublishCompletion, Forgotten, Working
    <3>a. \A d \in Cells, q \in Invocations :
            ~(d = c /\ q = p) /\ native[d] = q => native'[d] = q
      BY <1>0, <1>7 DEF PublishCompletion, Released
    <3>2. QED
      BY <1>7, <3>1, <3>a DEF Natives, NativeHeld, PublishCompletion
  <2>3. EvidenceAhead' /\ Completed'
    BY <1>0, <1>7, <2>1, ZenonT(40) DEF Natives, EvidenceAhead, Completed, PublishCompletion
  <2>4. QED
    BY <2>2, <2>3 DEF Natives
<1>8. ASSUME NEW p \in Invocations, NEW c \in Cells,
             Busy(p, c) \/ Return(p, c) \/ Raise(p, c) \/ Kill(p, c)
      PROVE  Natives'
  <2>1. Return(p, c) => c \in done
    BY DEF Return, Natives, Completed
  <2>2. QED
    BY <1>2, <1>8, <2>1 DEF Busy, Return, Raise, Kill, Answer, Stages, Outcomes, Working
<1>9. QED
  BY <1>1, <1>3, <1>4, <1>5, <1>6, <1>7, <1>8 DEF Next, Native, vars

-----------------------------------------------------------------------------
(* The ledger.                                                             *)

\* A process, an observation and an invocation that waits for a process have a
\* start in the ledger.
Started ==
  /\ \A c \in Cells, p \in Invocations : child[c][p] # "none" => ledger[c][p] # "none"
  /\ \A p \in Invocations :
       pc[p] \in {"starting", "waiting", "failing"} => ledger[Grid[idx[p]]][p] # "none"
  /\ EvidenceAttributed

\* What Complete, Block, Fail and Interrupt have in common.
Ends(p, c, event, state) ==
  /\ pc[p] \in Inside \ {"opening", "starting"} /\ c = Grid[idx[p]] /\ event # "none"
  /\ event = "completed" => child[c][p] = "returned"
  /\ state \in {"completed", "failed"} => event = state
  /\ \E place \in {"cell", "report"} : Record(p, c, event, state, place)
  /\ UNCHANGED <<evidence, frontier, done, matrix>>
  /\ child' \in {child, [child EXCEPT ![c][p] = "gone"]}

LEMMA EndsCase ==
  ASSUME NEW p \in Invocations, NEW c \in Cells,
         Complete(p, c) \/ Block(p, c) \/ Fail(p, c) \/ Interrupt(p, c)
  PROVE  \E event \in Events, state \in States : Ends(p, c, event, state)
<1>1. CASE Complete(p, c)
  BY <1>1 DEF Complete, Answered, Ends, Inside, Events, States
<1>2. CASE Block(p, c)
  BY <1>2 DEF Block, Answered, Ends, Inside, Events, States
<1>3. CASE Fail(p, c)
  BY <1>3 DEF Fail, Ends, Inside, Events, States, natives
<1>4. CASE Interrupt(p, c)
  BY <1>4 DEF Interrupt, Ends, Inside, Events, States
<1>5. QED
  BY <1>1, <1>2, <1>3, <1>4

LEMMA StepStarted == TypeOK /\ Held /\ Started /\ [Next]_vars => Started'
<1> SUFFICES ASSUME TypeOK, Held, Started, [Next]_vars PROVE Started'
  OBVIOUS
<1> USE GridTyped
<1>0. /\ evidence \in [Cells -> Seq(Invocations)]
      /\ child \in [Cells -> [Invocations -> Stages]]
      /\ ledger \in [Cells -> [Invocations -> Events]]
      /\ pc \in [Invocations -> Places] /\ idx \in [Invocations -> Nat]
  BY DEF TypeOK
<1>a. \A q \in Invocations : pc[q] \in Inside => Grid[idx[q]] \in Cells
  BY DEF Held
\* Nothing is taken back, and nothing new is without a start.
<1>1. ASSUME \A c \in Cells, p \in Invocations : ledger[c][p] # "none" => ledger'[c][p] # "none",
             \A c \in Cells, p \in Invocations : child'[c][p] # "none" => ledger'[c][p] # "none",
             \A p \in Invocations : pc'[p] \in {"starting", "waiting", "failing"} =>
               ledger'[Grid[idx'[p]]][p] # "none",
             \A c \in Cells : evidence'[c] = evidence[c]
      PROVE  Started'
  BY <1>0, <1>1 DEF Started, EvidenceAttributed
<1>2. CASE UNCHANGED <<ledger, child, evidence, pc, idx>>
  BY <1>2 DEF Started, EvidenceAttributed
<1>3. ASSUME NEW p \in Invocations, Enter(p) \/ PublishReport(p) \/ PublishReceipt(p) \/ Die(p)
      PROVE  Started'
  <2>1. /\ UNCHANGED <<ledger, child, evidence>>
        /\ \A q \in Invocations :
             pc'[q] \in {"starting", "waiting", "failing"} => pc'[q] = pc[q] /\ idx'[q] = idx[q]
    BY <1>0, <1>3 DEF Enter, PublishReport, PublishReceipt, Die, Goto, Leave, files, natives
  <2>2. QED
    BY <1>1, <2>1 DEF Started
<1>4. ASSUME NEW p \in Invocations, Spawn(p) PROVE Started'
  <2>1. Grid[idx[p]] \in Cells /\ ledger[Grid[idx[p]]][p] # "none"
    BY <1>4 DEF Spawn, Held, Inside, Started
  <2>2. /\ UNCHANGED <<ledger, evidence, idx>>
        /\ child' = [child EXCEPT ![Grid[idx[p]]][p] = "spawned"]
        /\ pc' = [pc EXCEPT ![p] = "waiting"]
    BY <1>4 DEF Spawn, Goto, files
  <2>3. \A c \in Cells, q \in Invocations :
          child'[c][q] = IF c = Grid[idx[p]] /\ q = p THEN "spawned" ELSE child[c][q]
    BY <1>0, <2>1, <2>2
  <2>4. QED
    BY <1>0, <1>1, <2>1, <2>2, <2>3 DEF Started
<1>5. ASSUME NEW p \in Invocations, NEW c \in Cells, Reuse(p, c) \/ Open(p, c)
      PROVE  Started'
  <2>1. /\ UNCHANGED <<ledger, child, evidence>>
        /\ \A q \in Invocations :
             pc'[q] \in {"starting", "waiting", "failing"} => pc'[q] = pc[q] /\ idx'[q] = idx[q]
    BY <1>0, <1>5 DEF Reuse, Open, AtCell, Goto, files, natives
  <2>2. QED
    BY <1>1, <2>1 DEF Started
<1>6. ASSUME NEW p \in Invocations, NEW c \in Cells, Start(p, c) PROVE Started'
  <2>1. UNCHANGED <<child, evidence, idx>> /\ pc' = [pc EXCEPT ![p] = "starting"]
    BY <1>6 DEF Start, Goto, natives
  <2>2. c = Grid[idx[p]] /\ \A d \in Cells, q \in Invocations :
          ledger'[d][q] = IF d = c /\ q = p THEN "started" ELSE ledger[d][q]
    BY <1>0, <1>6 DEF Start
  <2>3. QED
    <3>1. \A d \in Cells, q \in Invocations : ledger[d][q] # "none" => ledger'[d][q] # "none"
      BY <2>2
    <3>2. \A q \in Invocations : pc'[q] \in {"starting", "waiting", "failing"} =>
            ledger'[Grid[idx[q]]][q] # "none"
      <4> SUFFICES ASSUME NEW q \in Invocations, pc'[q] \in {"starting", "waiting", "failing"}
                   PROVE  ledger'[Grid[idx[q]]][q] # "none"
        OBVIOUS
      <4>1. CASE q = p
        BY <2>2, <4>1
      <4>2. CASE q # p
        <5>1. pc[q] = pc'[q]
          BY <1>0, <2>1, <4>2
        <5>2. Grid[idx[q]] \in Cells /\ ledger[Grid[idx[q]]][q] # "none"
          BY <1>a, <5>1 DEF Started, Inside
        <5>3. QED
          BY <3>1, <5>2
      <4>3. QED
        BY <4>1, <4>2
    <3>3. QED
      BY <1>1, <2>1, <3>1, <3>2 DEF Started
<1>7. ASSUME NEW p \in Invocations, NEW c \in Cells, Failing(p, c) PROVE Started'
  <2>1. /\ UNCHANGED <<ledger, evidence, idx>> /\ pc[p] = "waiting"
        /\ pc' = [pc EXCEPT ![p] = "failing"]
        /\ child[c][p] = "raised" /\ child' = [child EXCEPT ![c][p] = "gone"]
    BY <1>7 DEF Failing, Answered, Goto, files
  <2>2. \A d \in Cells, q \in Invocations : child'[d][q] # "none" => child[d][q] # "none"
    BY <1>0, <2>1
  <2>3. QED
    BY <1>0, <1>1, <2>1, <2>2 DEF Started
<1>8. ASSUME NEW p \in Invocations, NEW c \in Cells,
             Complete(p, c) \/ Block(p, c) \/ Fail(p, c) \/ Interrupt(p, c)
      PROVE  Started'
  <2>1. PICK event \in Events, state \in States : Ends(p, c, event, state)
    BY <1>8, EndsCase
  <2>2. PICK place \in {"cell", "report"} : Record(p, c, event, state, place)
    BY <2>1 DEF Ends
  <2>3. \A d \in Cells, q \in Invocations :
          ledger'[d][q] = IF d = c /\ q = p THEN event ELSE ledger[d][q]
    BY <1>0, <2>2 DEF Record
  <2>4. \A q \in Invocations : q # p => pc'[q] = pc[q] /\ idx'[q] = idx[q]
    BY <1>0, <2>2 DEF Record, Goto
  <2>5. pc'[p] \in {"cell", "report"} /\ event # "none" /\ evidence' = evidence
    BY <1>0, <2>1, <2>2 DEF Record, Goto, Ends
  <2>6. \A d \in Cells, q \in Invocations :
          child'[d][q] # "none" => child[d][q] # "none" \/ (d = c /\ q = p)
    BY <1>0, <2>1, SMTT(20) DEF Ends
  <2>7. QED
    <3>1. \A d \in Cells, q \in Invocations : ledger[d][q] # "none" => ledger'[d][q] # "none"
      BY <2>3, <2>5
    <3>2. \A d \in Cells, q \in Invocations : child'[d][q] # "none" => ledger'[d][q] # "none"
      BY <2>3, <2>5, <2>6 DEF Started
    <3>3. \A q \in Invocations : pc'[q] \in {"starting", "waiting", "failing"} =>
            /\ q # p /\ pc'[q] = pc[q] /\ idx'[q] = idx[q]
            /\ ledger[Grid[idx[q]]][q] # "none" /\ Grid[idx[q]] \in Cells
      BY <1>a, <2>4, <2>5 DEF Started, Inside
    <3>4. \A q \in Invocations : pc'[q] \in {"starting", "waiting", "failing"} =>
            ledger'[Grid[idx'[q]]][q] # "none"
      BY <3>1, <3>3
    <3>5. QED
      BY <1>1, <2>5, <3>1, <3>2, <3>4
<1>9. ASSUME NEW p \in Invocations, NEW c \in Cells, Native(p, c) PROVE Started'
  <2>1. UNCHANGED <<ledger, pc, idx>>
    BY <1>9, NativeFrame DEF files, locals
  <2>2. child[c][p] # "none"
    BY <1>9 DEF Native, Lock, Busy, Observe, Commit, PublishCompletion, Return, Raise, Kill, Alive
  <2>3. \E stage : child' = [child EXCEPT ![c][p] = stage]
    BY <1>9 DEF Native, Lock, Busy, Observe, Commit, PublishCompletion, Return, Raise, Kill, Answer
  <2>4. \A d \in Cells, q \in Invocations : child'[d][q] # "none" => child[d][q] # "none"
    BY <1>0, <2>2, <2>3
  <2>5. CASE Observe(p, c)
    <3>1. \A d \in Cells : evidence'[d] = evidence[d] \/ (d = c /\ evidence'[d] = Append(evidence[d], p))
      BY <1>0, <2>5 DEF Observe
    <3>2. EvidenceAttributed'
      <4> SUFFICES ASSUME NEW d \in Cells, NEW s \in DOMAIN evidence'[d]
                   PROVE  ledger[d][evidence'[d][s]] # "none"
        BY <2>1 DEF EvidenceAttributed
      <4>1. CASE evidence'[d] = evidence[d]
        BY <4>1 DEF Started, EvidenceAttributed
      <4>2. CASE d = c /\ evidence'[d] = Append(evidence[d], p)
        <5>1. evidence[d] \in Seq(Invocations)
          BY <1>0
        <5>2. evidence'[d][s] = p \/ (s \in DOMAIN evidence[d] /\ evidence'[d][s] = evidence[d][s])
          BY <4>2, <5>1
        <5>3. QED
          BY <2>2, <4>2, <5>2 DEF Started, EvidenceAttributed
      <4>3. QED
        BY <3>1, <4>1, <4>2
    <3>3. QED
      BY <2>1, <2>4, <3>2 DEF Started
  <2>6. CASE ~Observe(p, c)
    <3>1. evidence' = evidence
      BY <1>9, <2>6 DEF Native, Lock, Busy, Commit, PublishCompletion, Return, Raise, Kill
    <3>2. QED
      BY <1>1, <2>1, <2>4, <3>1 DEF Started
  <2>7. QED
    BY <2>5, <2>6
<1>10. QED
  BY <1>2, <1>3, <1>4, <1>5, <1>6, <1>7, <1>8, <1>9
     DEF Next, Invocation, vars, files, natives, locals

Verdict == {"completed", "failed"}

\* A verdict is only given by the attempt that is under way, of a cell without one.
Judged ==
  /\ \A c \in Cells, p \in Invocations : ledger[c][p] = "completed" => c \in done
  /\ \A p \in Invocations : pc[p] \in Inside =>
       \A q \in Invocations : ledger[Grid[idx[p]]][q] \notin Verdict
  /\ OneVerdict

LEMMA DoneGrows == ASSUME [Next]_vars PROVE done \subseteq done'
<1>1. CASE vars' = vars
  BY <1>1 DEF vars, natives
<1>2. ASSUME NEW p \in Invocations, NEW c \in Cells, Native(p, c) PROVE done \subseteq done'
  BY <1>2 DEF Native, Lock, Busy, Observe, Commit, PublishCompletion, Return, Raise, Kill
<1>3. ASSUME NEW p \in Invocations, Enter(p) \/ Spawn(p) \/ PublishReport(p) \/ PublishReceipt(p) \/ Die(p)
      PROVE  done' = done
  BY <1>3 DEF Enter, Spawn, PublishReport, PublishReceipt, Die, natives
<1>4. ASSUME NEW p \in Invocations, NEW c \in Cells, Reuse(p, c) \/ Open(p, c) \/ Start(p, c) \/ Failing(p, c)
      PROVE  done' = done
  BY <1>4 DEF Reuse, Open, Start, Failing, Answered, natives
<1>5. ASSUME NEW p \in Invocations, NEW c \in Cells,
             Complete(p, c) \/ Block(p, c) \/ Fail(p, c) \/ Interrupt(p, c)
      PROVE  done' = done
  BY <1>5, EndsCase DEF Ends
<1>6. QED
  BY <1>1, <1>2, <1>3, <1>4, <1>5 DEF Next, Invocation

LEMMA StepJudged == TypeOK /\ Held /\ Natives /\ Judged /\ [Next]_vars => Judged'
<1> SUFFICES ASSUME TypeOK, Held, Natives, Judged, [Next]_vars PROVE Judged'
  OBVIOUS
<1> USE GridTyped
<1>0. /\ ledger \in [Cells -> [Invocations -> Events]]
      /\ pc \in [Invocations -> Places] /\ idx \in [Invocations -> Nat]
  BY DEF TypeOK
<1>a. done \subseteq done'
  BY DoneGrows
\* Whoever is under way is alone.
<1>b. \A p, q \in Invocations : pc[p] \in Inside /\ pc[q] \in Inside => p = q
  BY DEF Held, Inside
<1>1. ASSUME ledger' = ledger,
             \A p \in Invocations : pc'[p] \in Inside =>
               \A q \in Invocations : ledger[Grid[idx'[p]]][q] \notin Verdict
      PROVE  Judged'
  BY <1>a, <1>1 DEF Judged, OneVerdict
\* No invocation comes to an attempt, and none leaves its cell.
<1>2. ASSUME ledger' = ledger,
             \A q \in Invocations : pc'[q] \in Inside => pc[q] \in Inside /\ idx'[q] = idx[q]
      PROVE  Judged'
  BY <1>1, <1>2 DEF Judged
<1>3. CASE UNCHANGED <<ledger, pc, idx>>
  BY <1>2, <1>3
<1>4. ASSUME NEW p \in Invocations, Enter(p) \/ Spawn(p) \/ PublishReport(p) \/ PublishReceipt(p) \/ Die(p)
      PROVE  Judged'
  BY <1>0, <1>2, <1>4 DEF Enter, Spawn, PublishReport, PublishReceipt, Die, Goto, Leave, files, Inside
<1>5. ASSUME NEW p \in Invocations, NEW c \in Cells, Reuse(p, c) \/ Failing(p, c) PROVE Judged'
  BY <1>0, <1>2, <1>5 DEF Reuse, Failing, AtCell, Answered, Goto, files, Inside
<1>6. ASSUME NEW p \in Invocations, NEW c \in Cells, Open(p, c) PROVE Judged'
  <2>1. /\ UNCHANGED <<ledger, idx>> /\ c = Grid[idx[p]] /\ c \notin done
        /\ \A q \in Invocations : ledger[c][q] # "failed" /\ (q # p => pc'[q] = pc[q])
    BY <1>0, <1>6 DEF Open, AtCell, Failed, Goto, files
  <2>2. \A q \in Invocations : ledger[c][q] \notin Verdict
    BY <2>1 DEF Judged, Verdict
  <2>3. QED
    BY <1>1, <2>1, <2>2 DEF Judged
<1>7. ASSUME NEW p \in Invocations, NEW c \in Cells, Start(p, c) PROVE Judged'
  <2>1. /\ idx' = idx /\ c = Grid[idx[p]] /\ pc[p] \in Inside /\ pc' = [pc EXCEPT ![p] = "starting"]
        /\ \A d \in Cells, q \in Invocations :
             ledger'[d][q] = IF d = c /\ q = p THEN "started" ELSE ledger[d][q]
    BY <1>0, <1>7 DEF Start, Goto, Inside
  <2>2. \A d \in Cells, q \in Invocations : ledger'[d][q] \in Verdict => ledger'[d][q] = ledger[d][q]
    BY <2>1 DEF Verdict
  <2>3. \A q \in Invocations : pc'[q] \in Inside => pc[q] \in Inside /\ Grid[idx[q]] \in Cells
    BY <1>0, <2>1 DEF Inside, Held
  <2>4. \A q, r \in Invocations : pc'[q] \in Inside => ledger'[Grid[idx'[q]]][r] \notin Verdict
    BY <2>1, <2>2, <2>3 DEF Judged
  <2>5. OneVerdict'
    BY <2>2 DEF Judged, OneVerdict, Verdict
  <2>6. \A d \in Cells, q \in Invocations : ledger'[d][q] = "completed" => d \in done'
    BY <1>a, <2>2 DEF Judged, Verdict
  <2>7. QED
    BY <2>4, <2>5, <2>6 DEF Judged
<1>8. ASSUME NEW p \in Invocations, NEW c \in Cells,
             Complete(p, c) \/ Block(p, c) \/ Fail(p, c) \/ Interrupt(p, c)
      PROVE  Judged'
  <2>1. PICK event \in Events, state \in States : Ends(p, c, event, state)
    BY <1>8, EndsCase
  <2>2. PICK place \in {"cell", "report"} : Record(p, c, event, state, place)
    BY <2>1 DEF Ends
  <2>3. \A d \in Cells, q \in Invocations :
          ledger'[d][q] = IF d = c /\ q = p THEN event ELSE ledger[d][q]
    BY <1>0, <2>2 DEF Record
  <2>4. pc[p] \in Inside /\ c = Grid[idx[p]] /\ (event = "completed" => c \in done)
    BY <2>1 DEF Ends, Natives, Completed
  <2>5. \A q \in Invocations : pc'[q] \notin Inside
    BY <1>0, <1>b, <2>2, <2>4 DEF Record, Goto, Inside
  <2>6. \A q \in Invocations : ledger[c][q] \notin Verdict
    BY <2>4 DEF Judged
  <2>7. OneVerdict'
    BY <2>3, <2>6 DEF Judged, OneVerdict, Verdict
  <2>8. \A d \in Cells, q \in Invocations : ledger'[d][q] = "completed" => d \in done'
    BY <1>a, <2>3, <2>4 DEF Judged
  <2>9. QED
    BY <2>5, <2>7, <2>8 DEF Judged
<1>9. ASSUME NEW p \in Invocations, NEW c \in Cells, Native(p, c) PROVE Judged'
  BY <1>3, <1>9, NativeFrame DEF files, locals
<1>10. QED
  BY <1>3, <1>4, <1>5, <1>6, <1>7, <1>8, <1>9 DEF Next, Invocation, vars, files, locals

-----------------------------------------------------------------------------
(* Reports and the receipt.                                                *)

\* What a report says of an ended cell is what the files hold.
Sound(c, r) ==
  r.state \in Verdict =>
    /\ r.attempts = ledger[c]
    /\ r.state = "completed" => c \in done /\ Len(r.evidence) = Builds
    /\ r.state = "failed" => Failed(c)

\* A report grows along the grid, soundly; a receipt is only prepared for a
\* published report of a grid that has ended.
Growing ==
  \A p \in Invocations :
    /\ pc[p] \in {"idle", "over"} => results[p] = NoReport
    /\ \A i \in DOMAIN Grid : i >= idx[p] => results[p][Grid[i]] = Unexecuted
    /\ \A c \in Cells : Sound(c, results[p][c])
    /\ pc[p] = "receipt" => results[p] \in reports /\ Terminal(results[p])

\* Once there is a receipt no attempt is under way, so that it stays sound.
Settled ==
  complete # NoReport =>
    /\ complete \in reports /\ Terminal(complete)
    /\ \A c \in Cells : Sound(c, complete[c])
    /\ \A p \in Invocations : pc[p] \notin Inside

LEMMA UnexecutedSound == \A c \in Cells : NoReport[c] = Unexecuted /\ Sound(c, Unexecuted)
BY DEF NoReport, Unexecuted, Sound, Verdict

\* A cell whose events stay as they are.
LEMMA SoundKept ==
  ASSUME [Next]_vars, NEW c \in Cells, ledger'[c] = ledger[c], NEW r, Sound(c, r)
  PROVE  Sound(c, r)'
BY DoneGrows DEF Sound, Failed

\* The cell whose events change is not in the report yet.
LEMMA GrowingKept ==
  ASSUME TypeOK, Held, Growing, [Next]_vars,
         NEW p \in Invocations, NEW c \in Cells, pc[p] \in Inside, c = Grid[idx[p]],
         \A d \in Cells \ {c} : ledger'[d] = ledger[d]
  PROVE  \A q \in Invocations, d \in Cells : \A r : r = results[q][d] => Sound(d, r)'
<1> SUFFICES ASSUME NEW q \in Invocations, NEW d \in Cells
             PROVE  \A r : r = results[q][d] => Sound(d, r)'
  OBVIOUS
<1>1. CASE q # p
  <2>1. results[q] = NoReport
    BY <1>1 DEF Held, Growing, Inside
  <2>2. QED
    BY <2>1 DEF NoReport, Unexecuted, Sound, Verdict
<1>2. CASE q = p /\ d = c
  <2>1. results[q][d] = Unexecuted
    <3>1. idx[p] \in DOMAIN Grid /\ idx[p] >= idx[p]
      BY GridTyped DEF Held
    <3>2. QED
      BY <1>2, <3>1 DEF Growing
  <2>2. QED
    BY <2>1 DEF Unexecuted, Sound, Verdict
<1>3. CASE d # c
  BY <1>3, SoundKept DEF Growing
<1>4. QED
  BY <1>1, <1>2, <1>3

LEMMA StepReports ==
  TypeOK /\ Held /\ Natives /\ Judged /\ Growing /\ Settled /\ [Next]_vars => Growing' /\ Settled'
<1> SUFFICES ASSUME TypeOK, Held, Natives, Judged, Growing, Settled, [Next]_vars
             PROVE  Growing' /\ Settled'
  OBVIOUS
<1> USE GridTyped
<1>0. /\ ledger \in [Cells -> [Invocations -> Events]]
      /\ pc \in [Invocations -> Places] /\ idx \in [Invocations -> Nat]
      /\ results \in [Invocations -> Report] /\ complete \in Report
  BY DEF TypeOK
<1>a. \A c \in Cells : ledger'[c] = ledger[c] => \A r : Sound(c, r) => Sound(c, r)'
  BY SoundKept
\* Nothing but the places of invocations changes.
<1>1. ASSUME UNCHANGED <<ledger, reports, complete, results, idx>>,
             \A q \in Invocations : pc'[q] \in {"idle", "over", "receipt"} => pc'[q] = pc[q],
             complete = NoReport \/ \A q \in Invocations : pc'[q] \in Inside => pc[q] \in Inside
      PROVE  Growing' /\ Settled'
  <2>1. Growing'
    BY <1>a, <1>1 DEF Growing
  <2>2. Settled'
    BY <1>a, <1>1 DEF Settled
  <2>3. QED
    BY <2>1, <2>2
<1>2. CASE UNCHANGED <<files, locals>>
  BY <1>1, <1>2 DEF files, locals
<1>3. ASSUME NEW p \in Invocations, Enter(p) \/ Spawn(p) PROVE Growing' /\ Settled'
  BY <1>0, <1>1, <1>3 DEF Enter, Spawn, Goto, files, Inside
<1>4. ASSUME NEW p \in Invocations, NEW c \in Cells, Failing(p, c) PROVE Growing' /\ Settled'
  BY <1>0, <1>1, <1>4 DEF Failing, Answered, Goto, files, Inside
<1>5. ASSUME NEW p \in Invocations, NEW c \in Cells, Open(p, c) PROVE Growing' /\ Settled'
  <2>1. /\ UNCHANGED <<ledger, reports, complete, results, idx>>
        /\ c \notin done /\ ~Failed(c)
        /\ \A q \in Invocations : pc'[q] \in {"idle", "over", "receipt"} => pc'[q] = pc[q]
    BY <1>0, <1>5 DEF Open, Goto, files
  <2>2. complete = NoReport
    <3> SUFFICES ASSUME complete # NoReport PROVE FALSE
      OBVIOUS
    <3>1. complete[c] \in CellResult /\ complete[c].state \notin {"unavailable", "aborted"}
      BY <1>0 DEF Settled, Terminal, Report
    <3>2. complete[c].state \in Verdict
      BY <3>1 DEF CellResult, States, Verdict
    <3>3. QED
      BY <2>1, <3>2 DEF Settled, Sound, Verdict
  <2>3. QED
    BY <1>1, <2>1, <2>2
\* An attempt is under way: there is no receipt.
<1>6. ASSUME NEW p \in Invocations, NEW c \in Cells, Start(p, c) PROVE Growing' /\ Settled'
  <2>1. /\ pc[p] \in Inside /\ c = Grid[idx[p]] /\ UNCHANGED <<reports, complete, idx, results>>
        /\ \A d \in Cells \ {c} : ledger'[d] = ledger[d]
    BY <1>0, <1>6 DEF Start, Inside
  <2>2. \A q \in Invocations : pc'[q] \in {"idle", "over", "receipt"} => pc'[q] = pc[q]
    BY <1>0, <1>6 DEF Start, Goto
  <2>3. \A q \in Invocations, d \in Cells : Sound(d, results[q][d])'
    BY <2>1, GrowingKept DEF Sound, Failed
  <2>4. Growing'
    BY <2>1, <2>2, <2>3 DEF Growing
  <2>5. complete' = NoReport
    BY <2>1 DEF Settled
  <2>6. QED
    BY <2>4, <2>5 DEF Settled, NoReport
<1>7. ASSUME NEW p \in Invocations, NEW c \in Cells,
             Complete(p, c) \/ Block(p, c) \/ Fail(p, c) \/ Interrupt(p, c)
      PROVE  Growing' /\ Settled'
  <2>1. PICK event \in Events, state \in States : Ends(p, c, event, state)
    BY <1>7, EndsCase
  <2>2. PICK place \in {"cell", "report"} : Record(p, c, event, state, place)
    BY <2>1 DEF Ends
  <2>3. /\ pc[p] \in Inside /\ c = Grid[idx[p]] /\ UNCHANGED <<reports, complete, evidence, done>>
        /\ \A d \in Cells \ {c} : ledger'[d] = ledger[d]
    BY <1>0, <2>1, <2>2 DEF Ends, Record
  <2>4. ledger'[c][p] = event /\ idx' = [idx EXCEPT ![p] = idx[p] + 1] /\ pc' = [pc EXCEPT ![p] = place]
    BY <1>0, <2>2 DEF Record, Goto
  <2>5. results' = [results EXCEPT ![p][c] = Result(c, state, ledger'[c])]
    BY <2>2 DEF Record
  <2>a. PICK r : r = Result(c, state, ledger'[c])
    OBVIOUS
  <2>6. \A q \in Invocations, d \in Cells :
          results'[q][d] = IF q = p /\ d = c THEN r ELSE results[q][d]
    <3>1. results' = [results EXCEPT ![p][c] = r] /\ results \in [Invocations -> [Cells -> CellResult]]
      BY <1>0, <2>5, <2>a DEF Report
    <3>2. QED
      BY <3>1
  <2>7. Sound(c, r)'
    <3>1. state = "completed" => c \in done /\ Len(evidence[c]) = Builds
      BY <2>1 DEF Ends, Natives, Completed
    <3>2. state = "failed" => ledger'[c][p] = "failed"
      BY <2>1, <2>4 DEF Ends
    <3>3. QED
      BY <2>3, <2>a, <3>1, <3>2 DEF Sound, Result, Failed, Verdict
  <2>8. \A q \in Invocations, d \in Cells : Sound(d, results[q][d])'
    <3> SUFFICES ASSUME NEW q \in Invocations, NEW d \in Cells PROVE Sound(d, results[q][d])'
      OBVIOUS
    <3>1. CASE q = p /\ d = c
      BY <2>6, <2>7, <3>1 DEF Sound, Failed
    <3>2. CASE ~(q = p /\ d = c)
      BY <2>3, <2>6, <3>2, GrowingKept DEF Sound, Failed
    <3>3. QED
      BY <3>1, <3>2
  <2>9. Growing'
    <3> SUFFICES ASSUME NEW q \in Invocations
                 PROVE  /\ pc'[q] \in {"idle", "over"} => results'[q] = NoReport
                        /\ \A i \in DOMAIN Grid : i >= idx'[q] => results'[q][Grid[i]] = Unexecuted
                        /\ pc'[q] = "receipt" => results'[q] \in reports' /\ Terminal(results'[q])
      BY <2>8 DEF Growing, NoReport, Unexecuted, Terminal
    <3>1. CASE q # p
      <4>1. results'[q] = results[q] /\ pc'[q] = pc[q] /\ idx'[q] = idx[q]
        BY <1>0, <2>4, <2>5, <3>1
      <4>2. QED
        BY <2>3, <4>1 DEF Growing
    <3>2. CASE q = p
      <4>1. pc'[p] = place /\ idx'[p] = idx[p] + 1
        BY <1>0, <2>4
      <4>2. \A i \in DOMAIN Grid : i >= idx[p] + 1 => i # idx[p] /\ i >= idx[p]
        BY <1>0
      <4>3. idx[p] \in DOMAIN Grid
        BY <2>3 DEF Held
      <4>4. \A i \in DOMAIN Grid : i >= idx'[p] => Grid[i] # c /\ results[p][Grid[i]] = Unexecuted
        BY <2>3, <4>1, <4>2, <4>3 DEF Growing
      <4>5. QED
        BY <2>6, <3>2, <4>1, <4>4
    <3>3. QED
      BY <3>1, <3>2
  <2>10. complete' = NoReport
    BY <2>3 DEF Settled
  <2>11. QED
    BY <2>9, <2>10 DEF Settled, NoReport
<1>8. ASSUME NEW p \in Invocations, NEW c \in Cells, Reuse(p, c) PROVE Growing' /\ Settled'
  <2>1. /\ UNCHANGED <<ledger, reports, complete, evidence, done, pc>>
        /\ idx' = [idx EXCEPT ![p] = idx[p] + 1] /\ pc[p] = "cell"
        /\ idx[p] \in DOMAIN Grid /\ c = Grid[idx[p]] /\ (c \in done \/ Failed(c))
    BY <1>0, <1>8 DEF Reuse, AtCell, files, natives
  <2>2. PICK r : r = Result(c, IF c \in done THEN "completed" ELSE "failed", ledger[c])
    OBVIOUS
  <2>3. results' = [results EXCEPT ![p][c] = r] /\ results \in [Invocations -> [Cells -> CellResult]]
    BY <1>0, <1>8, <2>2 DEF Reuse, Report
  <2>4. \A q \in Invocations, d \in Cells :
          results'[q][d] = IF q = p /\ d = c THEN r ELSE results[q][d]
    BY <2>3
  <2>5. Sound(c, r)
    BY <2>1, <2>2 DEF Sound, Result, Natives, Completed
  <2>6. \A q \in Invocations, d \in Cells : Sound(d, results[q][d])'
    <3> SUFFICES ASSUME NEW q \in Invocations, NEW d \in Cells PROVE Sound(d, results[q][d])'
      OBVIOUS
    <3>1. CASE q = p /\ d = c
      BY <1>a, <2>1, <2>4, <2>5, <3>1 DEF Sound, Failed
    <3>2. CASE ~(q = p /\ d = c)
      BY <1>a, <2>1, <2>4, <3>2, SMTT(20) DEF Growing, Sound, Failed
    <3>3. QED
      BY <3>1, <3>2
  <2>7. Growing'
    <3> SUFFICES ASSUME NEW q \in Invocations
                 PROVE  /\ pc'[q] \in {"idle", "over"} => results'[q] = NoReport
                        /\ \A i \in DOMAIN Grid : i >= idx'[q] => results'[q][Grid[i]] = Unexecuted
                        /\ pc'[q] = "receipt" => results'[q] \in reports' /\ Terminal(results'[q])
      BY <2>6 DEF Growing, NoReport, Unexecuted, Terminal
    <3>1. CASE q # p
      <4>1. results'[q] = results[q] /\ pc'[q] = pc[q] /\ idx'[q] = idx[q]
        BY <1>0, <2>1, <2>3, <3>1
      <4>2. QED
        BY <2>1, <4>1 DEF Growing
    <3>2. CASE q = p
      <4>1. idx'[p] = idx[p] + 1 /\ pc'[p] = "cell"
        BY <1>0, <2>1
      <4>2. \A i \in DOMAIN Grid : i >= idx[p] + 1 => i # idx[p] /\ i >= idx[p]
        BY <1>0
      <4>3. \A i \in DOMAIN Grid : i >= idx'[p] => Grid[i] # c /\ results[p][Grid[i]] = Unexecuted
        BY <2>1, <4>1, <4>2 DEF Growing
      <4>4. QED
        BY <2>4, <3>2, <4>1, <4>3
    <3>3. QED
      BY <3>1, <3>2
  <2>8. Settled'
    BY <1>a, <2>1 DEF Settled
  <2>9. QED
    BY <2>7, <2>8
\* The invocation is over, however it ended.
<1>9. ASSUME NEW p \in Invocations, Leave(p), ledger' = ledger, reports \subseteq reports',
             complete' = complete \/ (complete' = results[p] /\ pc[p] = "receipt")
      PROVE  Growing' /\ Settled'
  <2>1. /\ results' = [results EXCEPT ![p] = NoReport] /\ pc' = [pc EXCEPT ![p] = "over"]
        /\ idx' = [idx EXCEPT ![p] = 1]
    BY <1>9 DEF Leave
  <2>2. \A q \in Invocations :
          IF q = p THEN results'[q] = NoReport /\ pc'[q] = "over" /\ idx'[q] = 1
                   ELSE results'[q] = results[q] /\ pc'[q] = pc[q] /\ idx'[q] = idx[q]
    BY <1>0, <2>1
  <2>3. \A q \in Invocations, d \in Cells : Sound(d, results[q][d])'
    <3> SUFFICES ASSUME NEW q \in Invocations, NEW d \in Cells PROVE Sound(d, results[q][d])'
      OBVIOUS
    <3>1. CASE q = p
      BY <2>2, <3>1 DEF NoReport, Unexecuted, Sound, Verdict
    <3>2. CASE q # p
      BY <1>a, <1>9, <2>2, <3>2 DEF Growing, Sound, Failed
    <3>3. QED
      BY <3>1, <3>2
  <2>4. Growing'
    <3> SUFFICES ASSUME NEW q \in Invocations
                 PROVE  /\ pc'[q] \in {"idle", "over"} => results'[q] = NoReport
                        /\ \A i \in DOMAIN Grid : i >= idx'[q] => results'[q][Grid[i]] = Unexecuted
                        /\ pc'[q] = "receipt" => results'[q] \in reports' /\ Terminal(results'[q])
      BY <2>3 DEF Growing, NoReport, Unexecuted, Terminal
    <3>1. CASE q # p
      BY <1>9, <2>2, <3>1 DEF Growing
    <3>2. CASE q = p
      BY <2>2, <3>2, UnexecutedSound
    <3>3. QED
      BY <3>1, <3>2
  <2>5. CASE complete' = complete
    <3>1. \A q \in Invocations : pc'[q] \in Inside => pc[q] \in Inside
      BY <2>2 DEF Inside
    <3>2. QED
      BY <1>9, <1>a, <2>4, <2>5, <3>1 DEF Settled, Terminal, NoReport, Unexecuted
  <2>6. CASE complete' = results[p] /\ pc[p] = "receipt"
    <3>1. \A q \in Invocations : pc'[q] \notin Inside
      BY <2>2, <2>6 DEF Held, Inside
    <3>2. results[p] \in reports /\ Terminal(results[p]) /\ \A d \in Cells : Sound(d, results[p][d])
      BY <2>6 DEF Growing
    <3>3. QED
      BY <1>9, <1>a, <2>4, <2>6, <3>1, <3>2 DEF Settled, Terminal
  <2>7. QED
    BY <1>9, <2>5, <2>6
<1>10. ASSUME NEW p \in Invocations, PublishReport(p) PROVE Growing' /\ Settled'
  <2>1. CASE ~Terminal(results[p])
    <3>1. Leave(p) /\ ledger' = ledger /\ complete' = complete /\ reports \subseteq reports'
      BY <1>10, <2>1 DEF PublishReport
    <3>2. QED
      BY <1>9, <3>1
  <2>2. CASE Terminal(results[p])
    <3>1. /\ UNCHANGED <<ledger, complete, results, idx>> /\ reports' = reports \cup {results[p]}
          /\ \A q \in Invocations : IF q = p THEN pc'[q] = "receipt" ELSE pc'[q] = pc[q]
      BY <1>0, <1>10, <2>2 DEF PublishReport, Goto
    <3>2. Growing'
      BY <1>a, <2>2, <3>1 DEF Growing, Terminal
    <3>3. Settled'
      BY <1>a, <3>1 DEF Settled, Terminal, Inside
    <3>4. QED
      BY <3>2, <3>3
  <2>3. QED
    BY <2>1, <2>2
<1>11. ASSUME NEW p \in Invocations, PublishReceipt(p) \/ Die(p) PROVE Growing' /\ Settled'
  <2>1. CASE PublishReceipt(p)
    <3>1. /\ Leave(p) /\ ledger' = ledger /\ reports \subseteq reports'
          /\ complete' = results[p] /\ pc[p] = "receipt"
      BY <2>1 DEF PublishReceipt
    <3>2. QED
      BY <1>9, <3>1
  <2>2. CASE Die(p)
    <3>1. Leave(p) /\ ledger' = ledger /\ reports \subseteq reports' /\ complete' = complete
      BY <2>2 DEF Die, files
    <3>2. QED
      BY <1>9, <3>1
  <2>3. QED
    BY <1>11, <2>1, <2>2
<1>12. ASSUME NEW p \in Invocations, NEW c \in Cells, Native(p, c) PROVE Growing' /\ Settled'
  BY <1>2, <1>12, NativeFrame DEF locals
<1>13. QED
  BY <1>2, <1>3, <1>4, <1>5, <1>6, <1>7, <1>8, <1>10, <1>11, <1>12 DEF Next, Invocation, vars, locals

-----------------------------------------------------------------------------
(* The theorems.                                                           *)

IInv == TypeOK /\ Held /\ Natives /\ Started /\ Judged /\ Growing /\ Settled

LEMMA InitInv == Init => IInv
<1> SUFFICES ASSUME Init PROVE IInv
  OBVIOUS
<1> USE GridTyped
<1>1. TypeOK
  BY InitTyped
<1>2. /\ \A p \in Invocations : pc[p] = "idle" /\ idx[p] = 1 /\ results[p] = NoReport
      /\ \A c \in Cells, p \in Invocations : child[c][p] = "none" /\ ledger[c][p] = "none"
      /\ \A c \in Cells : evidence[c] = <<>> /\ frontier[c] = 0
      /\ done = {} /\ complete = NoReport
  BY DEF Init
<1>3. Held /\ Started /\ Judged
  BY <1>2 DEF Held, Started, EvidenceAttributed, Judged, OneVerdict, Inside, Verdict
<1>4. Natives
  BY <1>2 DEF Natives, NativeHeld, EvidenceAhead, Completed, Working
<1>5. Growing /\ Settled
  BY <1>2, UnexecutedSound DEF Growing, Settled
<1>6. QED
  BY <1>1, <1>3, <1>4, <1>5 DEF IInv

LEMMA StepInv == IInv /\ [Next]_vars => IInv'
<1> SUFFICES ASSUME IInv, [Next]_vars PROVE IInv'
  OBVIOUS
<1>1. TypeOK /\ Held /\ Natives /\ Started /\ Judged /\ Growing /\ Settled
  BY DEF IInv
<1>2. TypeOK' /\ Held'
  BY <1>1, StepTyped, StepHeld
<1>3. Natives' /\ Started' /\ Judged'
  BY <1>1, StepNatives, StepStarted, StepJudged
<1>4. Growing' /\ Settled'
  BY <1>1, StepReports
<1>5. QED
  BY <1>2, <1>3, <1>4 DEF IInv

LEMMA Invariance == Spec => []IInv
BY InitInv, StepInv, PTL DEF Spec

\* Every variable of the matrix keeps its type, whoever runs it and whatever is
\* killed (baselines.py, baseline_results.py).
THEOREM TypeCorrect == Spec => []TypeOK
<1>1. IInv => TypeOK
  BY DEF IInv
<1>2. QED
  BY <1>1, Invariance, PTL

\* A cell's native state has one process at a time, at its checkpoint
\* (_BaselineEnvironment.run_single under native-execution.lock).
THEOREM OneNativeProcess == Spec => []NativeExclusive
<1>1. IInv => NativeExclusive
  BY DEF IInv, Natives, NativeHeld, Working, NativeExclusive
<1>2. QED
  BY <1>1, Invariance, PTL

\* No cell is judged twice (_execute_cell under matrix.lock).
THEOREM CellsJudgedOnce == Spec => []OneVerdict
<1>1. IInv => OneVerdict
  BY DEF IInv, Judged
<1>2. QED
  BY <1>1, Invariance, PTL

\* No observation without a recorded attempt (_cell_result).
THEOREM ObservationsAttributed == Spec => []EvidenceAttributed
<1>1. IInv => EvidenceAttributed
  BY DEF IInv, Started
<1>2. QED
  BY <1>1, Invariance, PTL

\* A published grid has ended, its completed cells are whole, and it counts every
\* attempt there ever was (_run_locked, _verify_cell_attempts).
THEOREM ReceiptsHonest == Spec => []ReceiptHonest
<1>1. IInv => ReceiptHonest
  <2> SUFFICES ASSUME IInv, complete # NoReport
               PROVE  /\ complete \in reports /\ Terminal(complete)
                      /\ \A c \in Cells :
                           /\ complete[c].attempts = ledger[c]
                           /\ complete[c].state = "completed" =>
                                c \in done /\ Len(complete[c].evidence) = Builds
    BY DEF ReceiptHonest
  <2>1. complete \in reports /\ Terminal(complete) /\ \A c \in Cells : Sound(c, complete[c])
    BY DEF IInv, Settled
  <2>2. \A c \in Cells : complete[c].state \in Verdict
    BY <2>1 DEF IInv, TypeOK, Terminal, Report, CellResult, States, Verdict
  <2>3. QED
    BY <2>1, <2>2 DEF Sound
<1>2. QED
  BY <1>1, Invariance, PTL
=============================================================================
