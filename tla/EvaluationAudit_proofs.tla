------------------------- MODULE EvaluationAudit_proofs -------------------------
(***************************************************************************)
(* For any number of imports, replays, evaluators and clients and for every *)
(* limit: the chain implements AccessLog, receipts belong to those who use  *)
(* them, contention is other callers' progress, and a protected comparison  *)
(* counts every exposure that came before it.                              *)
(***************************************************************************)
EXTENDS EvaluationAudit, Functions, FiniteSetTheorems, TLAPS

Locked == {"synchronizing", "mapping", "reading", "publishing", "contended", "reserved"}

\* An evaluator between Begin and the end of evaluate holds the source lock.
LockHeld == \A v \in Evaluators : pc[v] \in Locked => lock = v

\* Nobody read a chain longer than it is now, and every conflict so far was
\* seen in the chain when it was read again.
SeenBounded ==
  \A p \in Actors : pc[p] = "publishing" =>
    call[p].seen <= Len(chain) /\ call[p].begun + call[p].tries <= call[p].seen

\* Outcomes are read behind a marker.
ReadIsMarked ==
  /\ read \subseteq markers
  /\ \A e \in Exposers : pc[e] = "marked" => e \in markers

\* Each map names a protected receipt, and none names the one that another map
\* names or that an evaluator is about to map.
MapsSound ==
  /\ \A e \in Exposers : maps[e] # 0 => maps[e] \in DOMAIN chain /\ chain[maps[e]].test
  /\ \A e, f \in Exposers : maps[e] # 0 /\ maps[e] = maps[f] => e = f
  /\ \A v \in Evaluators : pc[v] = "mapping" =>
       \A e \in Exposers : maps[e] # call[v].receipt

\* What an evaluator is doing with its access: an exposure to account for, or a
\* comparison once every marker is mapped.  Both count as protected.
Purposeful ==
  \A v \in Evaluators :
    /\ pc[v] \in {"reading", "publishing", "mapping"} => call[v].test
    /\ pc[v] \in {"reading", "publishing"} /\ call[v].purpose = "confirmatory" =>
         Unmapped = {}
    /\ pc[v] = "mapping" => call[v].exposed \in Exposers

\* A client accounts for nothing.
ClientsAsk == \A c \in Clients : call[c].exposed = NoOne /\ pc[c] # "mapping"

IInv ==
  /\ TypeOK /\ LockHeld /\ SeenBounded /\ ReadIsMarked /\ MapsSound /\ Purposeful
  /\ ClientsAsk /\ ReadsAreReserved /\ ConflictIsProgress

-----------------------------------------------------------------------------
(* Types.                                                                  *)

\* A finite chain has a natural number of protected accesses.
LEMMA TestsCounted ==
  ASSUME NEW s \in Seq(Receipts)
  PROVE  /\ IsFiniteSet({i \in DOMAIN s : s[i].test})
         /\ TestAccesses(s) \in Nat
<1>1. DOMAIN s = 1..Len(s) /\ Len(s) \in Nat
  OBVIOUS
<1>2. IsFiniteSet(DOMAIN s)
  BY <1>1, FS_Interval
<1>3. IsFiniteSet({i \in DOMAIN s : s[i].test})
  BY <1>2, FS_Subset
<1>4. QED
  BY <1>3, FS_CardinalityType DEF TestAccesses

\* What a caller publishes is a receipt, however much of the chain it has seen.
LEMMA CandidateTyped ==
  ASSUME TypeOK, SeenBounded, NEW p \in Actors, pc[p] = "publishing"
  PROVE  Candidate(p) \in Receipts
<1>1. call[p] \in Calls /\ chain \in Seq(Receipts) /\ call[p].seen <= Len(chain)
  BY DEF TypeOK, SeenBounded
<1>2. SubSeq(chain, 1, call[p].seen) \in Seq(Receipts)
  BY <1>1 DEF Calls
<1>3. TestAccesses(SubSeq(chain, 1, call[p].seen)) \in Nat
  BY <1>2, TestsCounted
<1>4. QED
  BY <1>1, <1>3 DEF Candidate, Receipts, Calls

LEMMA NoCallTyped == NoCall \in Calls
BY DEF NoCall, Calls, Purposes

\* Processes of the two kinds are different.
LEMMA Distinct ==
  /\ \A e \in Exposers, p \in Actors : e # p
  /\ \A p \in Exposers \cup Actors : p # NoOne
BY RolesAssumption

\* What asking for an access leaves in the caller's local variables.
LEMMA AskEffect ==
  ASSUME TypeOK, NEW p \in Actors, NEW purpose \in Purposes, NEW test \in BOOLEAN,
         NEW exposed \in Exposers \cup {NoOne}, Ask(p, purpose, test, exposed)
  PROVE  /\ call' \in [Actors -> Calls]
         /\ \A q \in Actors : q # p => call'[q] = call[q]
         /\ call'[p].purpose = purpose /\ call'[p].test = test
         /\ call'[p].exposed = exposed
         /\ call'[p].tries = 0 /\ call'[p].begun = Len(chain)
<1> DEFINE c == [NoCall EXCEPT !.purpose = purpose, !.test = test, !.exposed = exposed,
                                !.begun = Len(chain)]
<1>1. Len(chain) \in Nat /\ call \in [Actors -> Calls]
  BY DEF TypeOK
<1>2. NoCall.tries = 0
  BY DEF NoCall
<1>3. /\ c \in Calls
      /\ c.purpose = purpose /\ c.test = test /\ c.exposed = exposed
      /\ c.tries = 0 /\ c.begun = Len(chain)
  BY <1>1, <1>2, NoCallTyped DEF Calls
<1>4. call' = [call EXCEPT ![p] = c]
  BY DEF Ask
<1> HIDE DEF c
<1>5. call' \in [Actors -> Calls] /\ call'[p] = c /\ \A q \in Actors : q # p => call'[q] = call[q]
  BY <1>1, <1>3, <1>4
<1>6. QED
  BY <1>3, <1>5

\* What publishing a receipt leaves there.
LEMMA ReturnEffect ==
  ASSUME TypeOK, NEW p \in Actors, NEW ordinal \in Nat, Return(p, ordinal)
  PROVE  /\ call' \in [Actors -> Calls]
         /\ \A q \in Actors : q # p => call'[q] = call[q]
         /\ call'[p].purpose = call[p].purpose /\ call'[p].test = call[p].test
         /\ call'[p].exposed = call[p].exposed
         /\ call'[p].tries = 0 /\ call'[p].begun = 0 /\ call'[p].receipt = ordinal
<1> DEFINE c == [call[p] EXCEPT !.receipt = ordinal, !.seen = 0, !.tries = 0, !.begun = 0]
<1>1. call \in [Actors -> Calls] /\ call[p] \in Calls
  BY DEF TypeOK
<1>2. /\ c \in Calls
      /\ c.purpose = call[p].purpose /\ c.test = call[p].test
      /\ c.exposed = call[p].exposed
      /\ c.tries = 0 /\ c.begun = 0 /\ c.receipt = ordinal
  BY <1>1 DEF Calls
<1>3. call' = [call EXCEPT ![p] = c]
  BY <1>1 DEF Return
<1> HIDE DEF c
<1>4. call' \in [Actors -> Calls] /\ call'[p] = c /\ \A q \in Actors : q # p => call'[q] = call[q]
  BY <1>1, <1>2, <1>3
<1>5. QED
  BY <1>2, <1>4

LEMMA TypeStep ==
  ASSUME TypeOK, SeenBounded, [Next]_vars
  PROVE  TypeOK'
<1> USE DEF TypeOK, Go, Places
<1>1. ASSUME NEW e \in Exposers, Expose(e)
      PROVE  TypeOK'
  BY <1>1, RolesAssumption DEF Expose, ReserveImport, StartReplay, Mark, ReadOutcomes, Abandon,
     Exposers, exposure
<1>2. ASSUME NEW v \in Evaluators, NEW e \in Exposers, AccountFor(v, e)
      PROVE  TypeOK'
  <2>1. v \in Actors /\ "development" \in Purposes
    BY DEF Actors, Purposes
  <2>2. call' \in [Actors -> Calls]
    BY <1>2, <2>1, AskEffect DEF AccountFor
  <2>3. QED
    BY <1>2, <2>1, <2>2 DEF AccountFor, exposure
<1>3. ASSUME NEW v \in Evaluators, Confirm(v)
      PROVE  TypeOK'
  <2>1. v \in Actors /\ "confirmatory" \in Purposes
    BY DEF Actors, Purposes
  <2>2. call' \in [Actors -> Calls]
    BY <1>3, <2>1, AskEffect DEF Confirm
  <2>3. QED
    BY <1>3, <2>1, <2>2 DEF Confirm, exposure
<1>4. ASSUME NEW v \in Evaluators, Begin(v) \/ WriteMap(v)
      PROVE  TypeOK'
  <2>1. v \in Actors
    BY DEF Actors
  <2>2. CASE Begin(v)
    BY <2>1, <2>2 DEF Begin, exposure
  <2>3. CASE WriteMap(v)
    <3>1. call[v].receipt \in Nat
      BY <2>1 DEF Calls
    <3>2. maps' \in [Exposers -> Nat]
      BY <2>3, <3>1 DEF WriteMap
    <3>3. call' \in [Actors -> Calls]
      BY <2>3, NoCallTyped DEF WriteMap
    <3>4. QED
      BY <2>1, <2>3, <3>2, <3>3 DEF WriteMap, exposure
  <2>4. QED
    BY <1>4, <2>2, <2>3
<1>5. ASSUME NEW c \in Clients, NEW test \in BOOLEAN, Call(c, test)
      PROVE  TypeOK'
  <2>1. c \in Actors /\ (IF test THEN "confirmatory" ELSE "development") \in Purposes
    BY DEF Actors, Purposes
  <2>2. call' \in [Actors -> Calls]
    BY <1>5, <2>1, AskEffect DEF Call
  <2>3. QED
    BY <1>5, <2>1, <2>2 DEF Call, exposure
<1>6. ASSUME NEW p \in Actors, Publish(p)
      PROVE  TypeOK'
  <2>1. Candidate(p) \in Receipts
    BY <1>6, CandidateTyped DEF Publish, Return
  <2>2. call[p].seen + 1 \in Nat
    BY DEF Calls
  <2>3. call' \in [Actors -> Calls]
    BY <1>6, <2>2, ReturnEffect DEF Publish
  <2>4. chain' \in Seq(Receipts)
    BY <1>6, <2>1 DEF Publish
  <2>5. pc' \in [Exposers \cup Actors -> Places]
    BY <1>6 DEF Publish, Return
  <2>6. QED
    BY <1>6, <2>3, <2>4, <2>5 DEF Publish, exposure
<1>7. ASSUME NEW p \in Actors, ReadHistory(p) \/ Conflict(p)
      PROVE  TypeOK'
  <2>1. call[p] \in Calls /\ Len(chain) \in Nat /\ call[p].tries + 1 \in Nat
    BY DEF Calls
  <2>2. \A n \in Nat : [call[p] EXCEPT !.seen = n] \in Calls /\ [call[p] EXCEPT !.tries = n] \in Calls
    BY <2>1 DEF Calls
  <2>3. call' \in [Actors -> Calls]
    BY <1>7, <2>1, <2>2 DEF ReadHistory, Conflict
  <2>4. pc' \in [Exposers \cup Actors -> Places]
    BY <1>7 DEF ReadHistory, Conflict
  <2>5. QED
    BY <1>7, <2>3, <2>4 DEF ReadHistory, Conflict, exposure
<1>8. ASSUME NEW p \in Actors, Evaluate(p) \/ SaveReport(p) \/ Leave(p)
      PROVE  TypeOK'
  <2>1. call[p].receipt \in Nat
    BY DEF Calls
  <2>2. lock' \in Evaluators \cup {NoOne}
    BY <1>8 DEF Evaluate, SaveReport, Leave
  <2>3. call' \in [Actors -> Calls]
    BY <1>8, NoCallTyped DEF Evaluate, SaveReport, Leave
  <2>4. pc' \in [Exposers \cup Actors -> Places]
    BY <1>8 DEF Evaluate, SaveReport, Leave
  <2>5. reports' \subseteq [by: Actors, receipt: Nat]
    BY <1>8, <2>1 DEF Evaluate, SaveReport, Leave
  <2>6. QED
    BY <1>8, <2>2, <2>3, <2>4, <2>5 DEF Evaluate, SaveReport, Leave, exposure
<1>9. CASE UNCHANGED vars
  BY <1>9 DEF vars, exposure
<1>10. QED
  BY <1>1, <1>2, <1>3, <1>4, <1>5, <1>6, <1>7, <1>8, <1>9 DEF Next, Protect, Access

-----------------------------------------------------------------------------
(* The invariant.                                                          *)

\* The chain only grows: what it held stays where it was.
LEMMA ChainGrows ==
  ASSUME TypeOK, SeenBounded, [Next]_vars
  PROVE  /\ Len(chain) <= Len(chain') /\ DOMAIN chain \subseteq DOMAIN chain'
         /\ \A i \in DOMAIN chain : chain'[i] = chain[i]
<1>1. chain \in Seq(Receipts)
  BY DEF TypeOK
<1>2. ASSUME NEW p \in Actors, Publish(p)
      PROVE  \E r \in Receipts : chain' = Append(chain, r)
  <2>1. Candidate(p) \in Receipts
    BY <1>2, CandidateTyped DEF Publish, Return, Go
  <2>2. QED
    BY <1>2, <2>1 DEF Publish
<1>3. chain' = chain \/ \E r \in Receipts : chain' = Append(chain, r)
  BY <1>2 DEF Next, Expose, ReserveImport, StartReplay, Mark, ReadOutcomes, Abandon, Protect,
     Begin, WriteMap, Confirm, AccountFor, Call, Access, ReadHistory, Conflict, Evaluate,
     SaveReport, Leave, vars
<1>4. CASE chain' = chain
  BY <1>1, <1>4
<1>5. CASE \E r \in Receipts : chain' = Append(chain, r)
  BY <1>1, <1>5
<1>6. QED
  BY <1>3, <1>4, <1>5

LEMMA LockStep ==
  ASSUME TypeOK, LockHeld, [Next]_vars
  PROVE  LockHeld'
<1> USE RolesAssumption DEF TypeOK, LockHeld, Go, Locked, Actors, Exposers
<1>1. ASSUME NEW e \in Exposers, Expose(e)
      PROVE  LockHeld'
  BY <1>1 DEF Expose, ReserveImport, StartReplay, Mark, ReadOutcomes, Abandon
<1>2. ASSUME NEW v \in Evaluators, Protect(v)
      PROVE  LockHeld'
  BY <1>2 DEF Protect, Begin, WriteMap, Confirm, AccountFor
<1>3. ASSUME NEW c \in Clients, NEW test \in BOOLEAN, Call(c, test)
      PROVE  LockHeld'
  BY <1>3 DEF Call
<1>4. ASSUME NEW p \in Actors, Access(p)
      PROVE  LockHeld'
  BY <1>4 DEF Access, ReadHistory, Publish, Return, Conflict
<1>5. ASSUME NEW p \in Actors, Evaluate(p) \/ SaveReport(p) \/ Leave(p)
      PROVE  LockHeld'
  BY <1>5 DEF Evaluate, SaveReport, Leave
<1>6. CASE UNCHANGED vars
  BY <1>6 DEF vars
<1>7. QED
  BY <1>1, <1>2, <1>3, <1>4, <1>5, <1>6 DEF Next

\* Only reading and losing an ordinal touch an access that goes on: every other
\* step leaves it alone or starts from a fresh one.
LEMMA SeenStep ==
  ASSUME TypeOK, SeenBounded, ConflictIsProgress, [Next]_vars
  PROVE  SeenBounded' /\ ConflictIsProgress'
<1> DEFINE Alone(q) == call'[q] = call[q] /\ (pc'[q] = "publishing" => pc[q] = "publishing")
           Fresh(q) == /\ pc'[q] # "publishing"
                       /\ call'[q].tries = 0 /\ call'[q].begun \in {0, Len(chain)}
<1>a. TypeOK' /\ Len(chain) <= Len(chain') /\ Len(chain) \in Nat /\ Len(chain') \in Nat
  <2>1. TypeOK' /\ Len(chain) <= Len(chain')
    BY TypeStep, ChainGrows
  <2>2. QED
    BY <2>1 DEF TypeOK
<1>b. \A p \in Actors : /\ call[p].seen \in Nat /\ call[p].tries \in Nat /\ call[p].begun \in Nat
                        /\ call'[p].seen \in Nat /\ call'[p].tries \in Nat
                        /\ call'[p].begun \in Nat
  BY <1>a DEF TypeOK, Calls
<1>c. NoCall.tries = 0 /\ NoCall.begun = 0
  BY DEF NoCall
<1>d. ASSUME \A q \in Actors : Alone(q) \/ Fresh(q)
      PROVE  SeenBounded' /\ ConflictIsProgress'
  BY <1>a, <1>b, <1>d DEF SeenBounded, ConflictIsProgress
<1> USE DEF Go
<1>1. ASSUME NEW e \in Exposers, Expose(e)
      PROVE  \A q \in Actors : Alone(q)
  BY <1>1, Distinct DEF Expose, ReserveImport, StartReplay, Mark, ReadOutcomes, Abandon, TypeOK
<1>2. ASSUME NEW v \in Evaluators, Protect(v)
      PROVE  \A q \in Actors : Alone(q) \/ Fresh(q)
  <2>1. v \in Actors /\ "development" \in Purposes /\ "confirmatory" \in Purposes
    BY DEF Actors, Purposes
  <2>2. CASE Begin(v)
    BY <2>1, <2>2 DEF Begin, TypeOK
  <2>3. CASE WriteMap(v)
    BY <2>1, <2>3, <1>c DEF WriteMap, TypeOK
  <2>4. CASE Confirm(v)
    BY <2>1, <2>4, AskEffect DEF Confirm, TypeOK
  <2>5. ASSUME NEW e \in Exposers, AccountFor(v, e)
        PROVE  \A q \in Actors : Alone(q) \/ Fresh(q)
    <3>1. Ask(v, "development", TRUE, e) /\ e \in Exposers \cup {NoOne}
      BY <2>5 DEF AccountFor
    <3>2. Fresh(v) /\ \A q \in Actors : q # v => call'[q] = call[q]
      BY <2>1, <2>5, <3>1, AskEffect DEF AccountFor, TypeOK
    <3>3. QED
      BY <2>1, <2>5, <3>2 DEF AccountFor, TypeOK
  <2>6. QED
    BY <1>2, <2>2, <2>3, <2>4, <2>5 DEF Protect
<1>3. ASSUME NEW c \in Clients, NEW test \in BOOLEAN, Call(c, test)
      PROVE  \A q \in Actors : Alone(q) \/ Fresh(q)
  <2>1. c \in Actors /\ (IF test THEN "confirmatory" ELSE "development") \in Purposes
    BY DEF Actors, Purposes
  <2>2. QED
    BY <1>3, <2>1, AskEffect DEF Call, TypeOK
<1>4. ASSUME NEW p \in Actors, Publish(p)
      PROVE  \A q \in Actors : Alone(q) \/ Fresh(q)
  <2>1. call[p].seen + 1 \in Nat
    BY <1>b
  <2>2. /\ \A q \in Actors : q # p => call'[q] = call[q]
        /\ call'[p].tries = 0 /\ call'[p].begun = 0
    BY <1>4, <2>1, ReturnEffect DEF Publish
  <2>3. pc'[p] # "publishing" /\ \A q \in Actors : q # p => pc'[q] = pc[q]
    BY <1>4 DEF Publish, Return, TypeOK
  <2>4. QED
    BY <2>2, <2>3
<1>5. ASSUME NEW p \in Actors, ReadHistory(p)
      PROVE  SeenBounded' /\ ConflictIsProgress'
  <2>1. call[p] \in Calls /\ chain' = chain
    BY <1>5 DEF TypeOK, ReadHistory
  <2>2. /\ \A q \in Actors : q # p => call'[q] = call[q] /\ pc'[q] = pc[q]
        /\ call'[p].seen = Len(chain) /\ call'[p].tries = call[p].tries
        /\ call'[p].begun = call[p].begun
    BY <1>5, <2>1 DEF ReadHistory, TypeOK, Calls
  <2>3. ASSUME NEW q \in Actors
        PROVE  /\ pc'[q] = "publishing" =>
                    /\ call'[q].seen <= Len(chain')
                    /\ call'[q].begun + call'[q].tries <= call'[q].seen
               /\ call'[q].begun + call'[q].tries <= Len(chain')
    <3>1. CASE q = p
      BY <2>1, <2>2, <3>1, <1>a DEF ConflictIsProgress
    <3>2. CASE q # p
      BY <2>1, <2>2, <3>2, <1>a DEF SeenBounded, ConflictIsProgress
    <3>3. QED
      BY <3>1, <3>2
  <2>4. QED
    BY <2>3 DEF SeenBounded, ConflictIsProgress
<1>6. ASSUME NEW p \in Actors, Conflict(p)
      PROVE  SeenBounded' /\ ConflictIsProgress'
  <2>1. call[p] \in Calls /\ chain' = chain
    BY <1>6 DEF TypeOK, Conflict
  <2>2. \A q \in Actors : q # p => call'[q] = call[q] /\ pc'[q] = pc[q]
    BY <1>6 DEF Conflict, TypeOK
  <2>3. call'[p].tries = call[p].tries + 1 /\ call'[p].begun = call[p].begun
    BY <1>6, <2>1 DEF Conflict, TypeOK, Calls
  <2>4. pc[p] = "publishing" /\ pc'[p] # "publishing" /\ Len(chain) > call[p].seen
    BY <1>6 DEF Conflict, TypeOK
  <2>5. call'[p].begun + call'[p].tries <= Len(chain')
    <3>1. call[p].begun + call[p].tries <= call[p].seen
      BY <2>4 DEF SeenBounded
    <3>2. QED
      BY <2>1, <2>3, <2>4, <3>1, <1>a, <1>b
  <2>6. QED
    BY <2>1, <2>2, <2>4, <2>5, <1>a DEF SeenBounded, ConflictIsProgress
<1>7. ASSUME NEW p \in Actors, Evaluate(p) \/ SaveReport(p) \/ Leave(p)
      PROVE  \A q \in Actors : Alone(q) \/ Fresh(q)
  BY <1>7, <1>c DEF Evaluate, SaveReport, Leave, TypeOK
<1>8. CASE UNCHANGED vars
  BY <1>8, <1>d DEF vars
<1>9. QED
  BY <1>d, <1>1, <1>2, <1>3, <1>4, <1>5, <1>6, <1>7, <1>8 DEF Next, Access

LEMMA MarkedStep ==
  ASSUME TypeOK, ReadIsMarked, [Next]_vars
  PROVE  ReadIsMarked'
<1> USE RolesAssumption DEF TypeOK, ReadIsMarked, Go, Actors, Exposers
<1>1. ASSUME NEW e \in Exposers, Expose(e)
      PROVE  ReadIsMarked'
  BY <1>1 DEF Expose, ReserveImport, StartReplay, Mark, ReadOutcomes, Abandon, exposure
<1>2. ASSUME NEW v \in Evaluators, Protect(v)
      PROVE  ReadIsMarked'
  BY <1>2 DEF Protect, Begin, WriteMap, Confirm, AccountFor, exposure
<1>3. ASSUME NEW c \in Clients, NEW test \in BOOLEAN, Call(c, test)
      PROVE  ReadIsMarked'
  BY <1>3 DEF Call, exposure
<1>4. ASSUME NEW p \in Actors, Access(p)
      PROVE  ReadIsMarked'
  BY <1>4 DEF Access, ReadHistory, Publish, Return, Conflict, exposure
<1>5. ASSUME NEW p \in Actors, Evaluate(p) \/ SaveReport(p) \/ Leave(p)
      PROVE  ReadIsMarked'
  BY <1>5 DEF Evaluate, SaveReport, Leave, exposure
<1>6. CASE UNCHANGED vars
  BY <1>6 DEF vars, exposure
<1>7. QED
  BY <1>1, <1>2, <1>3, <1>4, <1>5, <1>6 DEF Next

\* The part of the invariant that speaks of one caller's access: what it asked
\* for and which receipt it holds.
Own(p) ==
  /\ p \in Clients => call[p].exposed = NoOne /\ pc[p] # "mapping"
  /\ p \in Evaluators =>
       /\ pc[p] \in {"reading", "publishing", "mapping"} => call[p].test
       /\ pc[p] \in {"reading", "publishing"} /\ call[p].purpose = "confirmatory" =>
            Unmapped = {}
       /\ pc[p] = "mapping" => call[p].exposed \in Exposers
  /\ pc[p] \in {"mapping", "reserved", "saving"} =>
       LET r == call[p].receipt
       IN  r \in DOMAIN chain /\ chain[r].by = p /\ chain[r].test = call[p].test

LEMMA OwnParts ==
  (\A p \in Actors : Own(p)) /\ (\A r \in reports : r.receipt \in DOMAIN chain /\ chain[r.receipt].by = r.by)
    <=> Purposeful /\ ClientsAsk /\ ReadsAreReserved
BY DEF Own, Purposeful, ClientsAsk, ReadsAreReserved, Actors

\* Markers are added and maps changed only while nobody else holds the lock, so
\* an evaluator about to compare keeps finding every marker mapped.
LEMMA UnmappedStable ==
  ASSUME TypeOK, LockHeld, ReadsAreReserved, Purposeful, [Next]_vars,
         NEW v \in Evaluators, pc[v] \in {"reading", "publishing"}, Unmapped = {}
  PROVE  Unmapped' = {}
<1> USE RolesAssumption DEF TypeOK, Go, Actors, Exposers
<1>1. lock = v /\ v # NoOne
  BY DEF LockHeld, Locked
<1>2. \A w \in Evaluators : ~WriteMap(w)
  BY <1>1 DEF WriteMap, LockHeld, Locked
<1>3. \A e \in Exposers : ~Mark(e)
  BY <1>1 DEF Mark
<1>4. UNCHANGED <<markers, maps>>
  BY <1>2, <1>3 DEF Next, Expose, ReserveImport, StartReplay, ReadOutcomes, Abandon, Protect,
     Begin, Confirm, AccountFor, Call, Access, ReadHistory, Publish, Return, Conflict,
     Evaluate, SaveReport, Leave, vars, exposure
<1>5. QED
  BY <1>4 DEF Unmapped

\* A step that is not its own leaves a caller's access as it was.
LEMMA OwnKept ==
  ASSUME TypeOK, SeenBounded, LockHeld, ReadsAreReserved, Purposeful, [Next]_vars,
         NEW p \in Actors, Own(p), call'[p] = call[p], pc'[p] = pc[p]
  PROVE  Own(p)'
<1>1. p \in Clients => call'[p].exposed = NoOne /\ pc'[p] # "mapping"
  BY DEF Own
<1>2. p \in Evaluators =>
        /\ pc'[p] \in {"reading", "publishing", "mapping"} => call'[p].test
        /\ pc'[p] \in {"reading", "publishing"} /\ call'[p].purpose = "confirmatory" =>
             Unmapped' = {}
        /\ pc'[p] = "mapping" => call'[p].exposed \in Exposers
  BY UnmappedStable DEF Own
<1>3. pc'[p] \in {"mapping", "reserved", "saving"} =>
        /\ call'[p].receipt \in DOMAIN chain' /\ chain'[call'[p].receipt].by = p
        /\ chain'[call'[p].receipt].test = call'[p].test
  BY ChainGrows DEF Own
<1>4. QED
  BY <1>1, <1>2, <1>3 DEF Own

LEMMA OwnStep ==
  ASSUME TypeOK, SeenBounded, LockHeld, Purposeful, ClientsAsk, ReadsAreReserved, [Next]_vars
  PROVE  Purposeful' /\ ClientsAsk' /\ ReadsAreReserved'
<1>a. \A p \in Actors : Own(p)
  BY OwnParts
<1>b. ASSUME NEW q \in Actors, call'[q] = call[q], pc'[q] = pc[q]
      PROVE  Own(q)'
  BY <1>a, <1>b, OwnKept
<1>c. NoCall.exposed = NoOne
  BY DEF NoCall
<1>d. ASSUME UNCHANGED reports \/ \E p \in Actors : SaveReport(p)
      PROVE  \A r \in reports' : r.receipt \in DOMAIN chain' /\ chain'[r.receipt].by = r.by
  <2>1. \A r \in reports : r.receipt \in DOMAIN chain' /\ chain'[r.receipt].by = r.by
    BY ChainGrows DEF ReadsAreReserved
  <2>2. ASSUME NEW p \in Actors, SaveReport(p)
        PROVE  \A r \in reports' : r.receipt \in DOMAIN chain' /\ chain'[r.receipt].by = r.by
    BY <2>1, <2>2, ChainGrows DEF SaveReport
  <2>3. QED
    BY <1>d, <2>1, <2>2
<1>e. UNCHANGED reports \/ \E p \in Actors : SaveReport(p)
  BY DEF Next, Expose, ReserveImport, StartReplay, Mark, ReadOutcomes, Abandon, Protect, Begin,
     WriteMap, Confirm, AccountFor, Call, Access, ReadHistory, Publish, Conflict, Evaluate,
     Leave, vars
<1> SUFFICES \A q \in Actors : Own(q)'
  <2>1. ASSUME \A q \in Actors : Own(q)'
        PROVE  Purposeful' /\ ClientsAsk' /\ ReadsAreReserved'
    BY <2>1, <1>d, <1>e DEF Own, Purposeful, ClientsAsk, ReadsAreReserved, Actors
  <2>2. QED
    BY <2>1
<1>1. ASSUME NEW e \in Exposers, Expose(e)
      PROVE  \A q \in Actors : Own(q)'
  <2>1. \A q \in Actors : call'[q] = call[q] /\ pc'[q] = pc[q]
    BY <1>1, Distinct DEF Expose, ReserveImport, StartReplay, Mark, ReadOutcomes, Abandon, Go, TypeOK
  <2>2. QED
    BY <2>1, <1>b
<1>2. ASSUME NEW v \in Evaluators, Begin(v)
      PROVE  \A q \in Actors : Own(q)'
  <2>1. \A q \in Actors : call'[q] = call[q] /\ (q # v => pc'[q] = pc[q])
    BY <1>2 DEF Begin, Go, TypeOK
  <2>2. v \notin Clients /\ v \in Actors /\ pc'[v] = "synchronizing"
    BY <1>2, RolesAssumption DEF Begin, Go, TypeOK, Actors
  <2>3. Own(v)'
    BY <2>2 DEF Own
  <2>4. QED
    BY <2>1, <2>3, <1>b
<1>3. ASSUME NEW v \in Evaluators, WriteMap(v)
      PROVE  \A q \in Actors : Own(q)'
  <2>1. v \notin Clients /\ v \in Actors /\ pc'[v] = "synchronizing"
    BY <1>3, RolesAssumption DEF WriteMap, Go, TypeOK, Actors
  <2>2. \A q \in Actors : q # v => call'[q] = call[q] /\ pc'[q] = pc[q]
    BY <1>3, <2>1 DEF WriteMap, Go, TypeOK
  <2>3. Own(v)'
    BY <2>1 DEF Own
  <2>4. QED
    BY <2>2, <2>3, <1>b
<1>4. ASSUME NEW v \in Evaluators, NEW e \in Exposers, AccountFor(v, e)
      PROVE  \A q \in Actors : Own(q)'
  <2>1. v \notin Clients /\ v \in Actors /\ "development" \in Purposes
    BY RolesAssumption DEF Actors, Purposes
  <2>2. Ask(v, "development", TRUE, e) /\ pc'[v] = "reading"
    BY <1>4, <2>1 DEF AccountFor, Go, TypeOK
  <2>3. /\ call'[v].purpose = "development" /\ call'[v].test
        /\ \A q \in Actors : q # v => call'[q] = call[q]
    BY <2>1, <2>2, AskEffect
  <2>4. \A q \in Actors : q # v => pc'[q] = pc[q]
    BY <1>4, <2>1 DEF AccountFor, Go, TypeOK
  <2>5. Own(v)'
    BY <2>1, <2>2, <2>3 DEF Own
  <2>6. QED
    BY <2>3, <2>4, <2>5, <1>b
<1>5. ASSUME NEW v \in Evaluators, Confirm(v)
      PROVE  \A q \in Actors : Own(q)'
  <2>1. v \notin Clients /\ v \in Actors /\ "confirmatory" \in Purposes
    BY RolesAssumption DEF Actors, Purposes
  <2>2. Ask(v, "confirmatory", TRUE, NoOne) /\ pc'[v] = "reading" /\ Unmapped = {}
    BY <1>5, <2>1 DEF Confirm, Go, TypeOK
  <2>3. call'[v].test /\ \A q \in Actors : q # v => call'[q] = call[q]
    BY <2>1, <2>2, AskEffect
  <2>4. \A q \in Actors : q # v => pc'[q] = pc[q]
    BY <1>5, <2>1 DEF Confirm, Go, TypeOK
  <2>5. Unmapped' = {}
    BY <1>5, <2>2 DEF Confirm, exposure, Unmapped
  <2>6. Own(v)'
    BY <2>1, <2>2, <2>3, <2>5 DEF Own
  <2>7. QED
    BY <2>3, <2>4, <2>6, <1>b
<1>6. ASSUME NEW c \in Clients, NEW test \in BOOLEAN, Call(c, test)
      PROVE  \A q \in Actors : Own(q)'
  <2>1. /\ c \notin Evaluators /\ c \in Actors
        /\ (IF test THEN "confirmatory" ELSE "development") \in Purposes
    BY RolesAssumption DEF Actors, Purposes
  <2>2. /\ Ask(c, IF test THEN "confirmatory" ELSE "development", test, NoOne)
        /\ pc'[c] = "reading"
    BY <1>6, <2>1 DEF Call, Go, TypeOK
  <2>3. call'[c].exposed = NoOne /\ \A q \in Actors : q # c => call'[q] = call[q]
    BY <2>1, <2>2, AskEffect
  <2>4. \A q \in Actors : q # c => pc'[q] = pc[q]
    BY <1>6, <2>1 DEF Call, Go, TypeOK
  <2>5. Own(c)'
    BY <2>1, <2>2, <2>3 DEF Own
  <2>6. QED
    BY <2>3, <2>4, <2>5, <1>b
<1>7. ASSUME NEW p \in Actors, ReadHistory(p)
      PROVE  \A q \in Actors : Own(q)'
  <2>1. \A q \in Actors : q # p => call'[q] = call[q] /\ pc'[q] = pc[q]
    BY <1>7 DEF ReadHistory, Go, TypeOK
  <2>2. pc[p] = "reading" /\ pc'[p] = "publishing"
    BY <1>7 DEF ReadHistory, Go, TypeOK
  <2>3. /\ call'[p].exposed = call[p].exposed /\ call'[p].purpose = call[p].purpose
        /\ call'[p].test = call[p].test
    BY <1>7 DEF ReadHistory, TypeOK, Calls
  <2>4. p \in Evaluators /\ Unmapped = {} => Unmapped' = {}
    BY <2>2, UnmappedStable
  <2>5. Own(p)'
    BY <2>2, <2>3, <2>4, <1>a DEF Own
  <2>6. QED
    BY <2>1, <2>5, <1>b
<1>8. ASSUME NEW p \in Actors, Publish(p)
      PROVE  \A q \in Actors : Own(q)'
  <2>1. call[p] \in Calls /\ call[p].seen + 1 \in Nat /\ Len(chain) = call[p].seen
    BY <1>8 DEF TypeOK, Calls, Publish
  <2>2. /\ call'[p].exposed = call[p].exposed /\ call'[p].test = call[p].test
        /\ call'[p].receipt = Len(chain) + 1
        /\ \A q \in Actors : q # p => call'[q] = call[q]
    BY <1>8, <2>1, ReturnEffect DEF Publish
  <2>3. /\ pc[p] = "publishing"
        /\ pc'[p] = IF call[p].exposed # NoOne THEN "mapping" ELSE "reserved"
        /\ \A q \in Actors : q # p => pc'[q] = pc[q]
    BY <1>8 DEF Publish, Return, Go, TypeOK
  <2>4. /\ Len(chain) + 1 \in DOMAIN chain' /\ chain'[Len(chain) + 1] = Candidate(p)
    <3>1. Candidate(p) \in Receipts /\ chain \in Seq(Receipts)
      BY <2>3, CandidateTyped DEF TypeOK
    <3>2. chain' = Append(chain, Candidate(p))
      BY <1>8 DEF Publish
    <3>3. QED
      BY <3>1, <3>2
  <2>5. Candidate(p).by = p /\ Candidate(p).test = call[p].test
    BY DEF Candidate
  <2>6. call[p].exposed # NoOne => call[p].exposed \in Exposers
    BY <2>1 DEF Calls
  <2>7. Own(p)'
    BY <2>2, <2>3, <2>4, <2>5, <2>6, <1>a DEF Own
  <2>8. QED
    BY <2>2, <2>3, <2>7, <1>b
<1>9. ASSUME NEW p \in Actors, Conflict(p)
      PROVE  \A q \in Actors : Own(q)'
  <2>1. \A q \in Actors : q # p => call'[q] = call[q] /\ pc'[q] = pc[q]
    BY <1>9 DEF Conflict, Go, TypeOK
  <2>2. pc[p] = "publishing" /\ pc'[p] \in {"reading", "contended"}
    BY <1>9 DEF Conflict, Go, TypeOK
  <2>3. /\ call'[p].exposed = call[p].exposed /\ call'[p].purpose = call[p].purpose
        /\ call'[p].test = call[p].test
    BY <1>9 DEF Conflict, TypeOK, Calls
  <2>4. p \in Evaluators /\ Unmapped = {} => Unmapped' = {}
    BY <2>2, UnmappedStable
  <2>5. Own(p)'
    BY <2>2, <2>3, <2>4, <1>a DEF Own
  <2>6. QED
    BY <2>1, <2>5, <1>b
<1>10. ASSUME NEW p \in Actors, Evaluate(p)
       PROVE  \A q \in Actors : Own(q)'
  <2>1. \A q \in Actors : call'[q] = call[q] /\ (q # p => pc'[q] = pc[q])
    BY <1>10 DEF Evaluate, Go, TypeOK
  <2>2. pc[p] = "reserved" /\ pc'[p] = "saving" /\ chain' = chain
    BY <1>10 DEF Evaluate, Go, TypeOK
  <2>3. Own(p)'
    BY <2>1, <2>2, <1>a DEF Own
  <2>4. QED
    BY <2>1, <2>3, <1>b
<1>11. ASSUME NEW p \in Actors, SaveReport(p) \/ Leave(p)
       PROVE  \A q \in Actors : Own(q)'
  <2>1. \A q \in Actors : q # p => call'[q] = call[q] /\ pc'[q] = pc[q]
    BY <1>11 DEF SaveReport, Leave, Go, TypeOK
  <2>2. pc'[p] = "idle" /\ call'[p] = NoCall
    BY <1>11 DEF SaveReport, Leave, Go, TypeOK
  <2>3. Own(p)'
    BY <2>2, <1>c DEF Own
  <2>4. QED
    BY <2>1, <2>3, <1>b
<1>12. CASE UNCHANGED vars
  BY <1>12, <1>b DEF vars
<1>13. QED
  BY <1>1, <1>2, <1>3, <1>4, <1>5, <1>6, <1>7, <1>8, <1>9, <1>10, <1>11, <1>12
     DEF Next, Protect, Access

LEMMA MapsStep ==
  ASSUME TypeOK, SeenBounded, LockHeld, Purposeful, ClientsAsk, ReadsAreReserved, MapsSound,
         [Next]_vars
  PROVE  MapsSound'
<1>a. /\ \A i \in DOMAIN chain : i \in DOMAIN chain' /\ chain'[i] = chain[i]
      /\ Len(chain) \in Nat /\ DOMAIN chain = 1..Len(chain)
  BY ChainGrows DEF TypeOK
<1>b. ASSUME UNCHANGED maps,
             \A v \in Evaluators : pc'[v] = "mapping" =>
               pc[v] = "mapping" /\ call'[v].receipt = call[v].receipt
      PROVE  MapsSound'
  BY <1>a, <1>b DEF MapsSound
<1>1. ASSUME NEW e \in Exposers, Expose(e)
      PROVE  MapsSound'
  <2>1. UNCHANGED <<maps, call>>
    BY <1>1 DEF Expose, ReserveImport, StartReplay, Mark, ReadOutcomes, Abandon
  <2>2. \A v \in Evaluators : pc'[v] = pc[v]
    BY <1>1, Distinct DEF Expose, ReserveImport, StartReplay, Mark, ReadOutcomes, Abandon, Go,
       TypeOK, Actors
  <2>3. QED
    BY <2>1, <2>2, <1>b
<1>2. ASSUME NEW v \in Evaluators, Begin(v) \/ Confirm(v) \/ \E e \in Exposers : AccountFor(v, e)
      PROVE  MapsSound'
  <2>1. UNCHANGED maps /\ pc'[v] \in {"synchronizing", "reading"}
    BY <1>2 DEF Begin, Confirm, AccountFor, Go, TypeOK, Actors
  <2>2. \A w \in Evaluators : w # v => pc'[w] = pc[w] /\ call'[w] = call[w]
    BY <1>2 DEF Begin, Confirm, AccountFor, Ask, Go, TypeOK, Actors
  <2>3. QED
    BY <2>1, <2>2, <1>b
<1>3. ASSUME NEW v \in Evaluators, WriteMap(v)
      PROVE  MapsSound'
  <2> DEFINE r == call[v].receipt
             e == call[v].exposed
  <2>1. /\ pc[v] = "mapping" /\ pc'[v] = "synchronizing" /\ chain' = chain
        /\ maps' = [maps EXCEPT ![e] = r] /\ v \in Actors
        /\ \A w \in Evaluators : w # v => pc'[w] = pc[w]
    BY <1>3 DEF WriteMap, Go, TypeOK, Actors
  <2>2. \A w \in Evaluators : w # v => pc[w] # "mapping"
    BY <2>1 DEF LockHeld, Locked
  <2>3. r \in DOMAIN chain /\ chain[r].test
    BY <2>1 DEF ReadsAreReserved, Purposeful
  <2>4. \A f \in Exposers : maps[f] # r
    BY <2>1 DEF MapsSound
  <2> HIDE DEF r, e
  <2>5. \A f \in Exposers : maps'[f] = IF f = e THEN r ELSE maps[f]
    BY <2>1 DEF TypeOK
  <2>6. \A f \in Exposers : maps'[f] # 0 => maps'[f] \in DOMAIN chain' /\ chain'[maps'[f]].test
    BY <2>1, <2>3, <2>5 DEF MapsSound
  <2>7. \A f, g \in Exposers : maps'[f] # 0 /\ maps'[f] = maps'[g] => f = g
    BY <2>4, <2>5 DEF MapsSound
  <2>8. \A w \in Evaluators : pc'[w] # "mapping"
    BY <2>1, <2>2
  <2>9. QED
    BY <2>6, <2>7, <2>8 DEF MapsSound
<1>4. ASSUME NEW c \in Clients, NEW test \in BOOLEAN, Call(c, test)
      PROVE  MapsSound'
  <2>1. UNCHANGED maps
    BY <1>4 DEF Call
  <2>2. \A v \in Evaluators : pc'[v] = pc[v] /\ call'[v] = call[v]
    BY <1>4, RolesAssumption DEF Call, Ask, Go, TypeOK, Actors
  <2>3. QED
    BY <2>1, <2>2, <1>b
<1>5. ASSUME NEW p \in Actors, Publish(p)
      PROVE  MapsSound'
  <2>1. call[p].seen + 1 \in Nat /\ Len(chain) = call[p].seen /\ UNCHANGED maps
    BY <1>5 DEF TypeOK, Calls, Publish
  <2>2. call'[p].receipt = Len(chain) + 1 /\ \A q \in Actors : q # p => call'[q] = call[q]
    BY <1>5, <2>1, ReturnEffect DEF Publish
  <2>3. \A q \in Actors : q # p => pc'[q] = pc[q]
    BY <1>5 DEF Publish, Return, Go, TypeOK
  <2>4. \A e \in Exposers : maps[e] # Len(chain) + 1
    BY <1>a DEF MapsSound
  <2>5. \A v \in Evaluators : pc'[v] = "mapping" => \A e \in Exposers : maps'[e] # call'[v].receipt
    BY <2>1, <2>2, <2>3, <2>4 DEF MapsSound, Actors
  <2>6. QED
    BY <2>1, <2>5, <1>a DEF MapsSound
<1>6. ASSUME NEW p \in Actors, ReadHistory(p) \/ Conflict(p)
      PROVE  MapsSound'
  <2>1. UNCHANGED maps /\ pc'[p] # "mapping"
    BY <1>6 DEF ReadHistory, Conflict, Go, TypeOK
  <2>2. \A q \in Actors : q # p => pc'[q] = pc[q] /\ call'[q] = call[q]
    BY <1>6 DEF ReadHistory, Conflict, Go, TypeOK
  <2>3. QED
    BY <2>1, <2>2, <1>b DEF Actors
<1>7. ASSUME NEW p \in Actors, Evaluate(p) \/ SaveReport(p) \/ Leave(p)
      PROVE  MapsSound'
  <2>1. UNCHANGED maps /\ pc'[p] # "mapping"
    BY <1>7 DEF Evaluate, SaveReport, Leave, Go, TypeOK
  <2>2. \A q \in Actors : q # p => pc'[q] = pc[q] /\ call'[q] = call[q]
    BY <1>7 DEF Evaluate, SaveReport, Leave, Go, TypeOK
  <2>3. QED
    BY <2>1, <2>2, <1>b DEF Actors
<1>8. CASE UNCHANGED vars
  BY <1>8, <1>b DEF vars
<1>9. QED
  BY <1>1, <1>2, <1>3, <1>4, <1>5, <1>6, <1>7, <1>8 DEF Next, Protect, Access

LEMMA InvInit == Init => IInv
<1> SUFFICES ASSUME Init PROVE IInv
  OBVIOUS
<1>1. TypeOK
  <2>1. chain \in Seq(Receipts)
    BY DEF Init
  <2>2. QED
    BY <2>1, NoCallTyped DEF Init, TypeOK, Places
<1>2. LockHeld /\ SeenBounded /\ ReadIsMarked /\ MapsSound /\ Purposeful
  BY DEF Init, LockHeld, Locked, SeenBounded, ReadIsMarked, MapsSound, Purposeful, Actors
<1>3. ClientsAsk /\ ReadsAreReserved
  BY DEF Init, ClientsAsk, ReadsAreReserved, NoCall, Actors
<1>4. ConflictIsProgress
  BY DEF Init, ConflictIsProgress, NoCall
<1>5. QED
  BY <1>1, <1>2, <1>3, <1>4 DEF IInv

LEMMA InvStep == IInv /\ [Next]_vars => IInv'
BY TypeStep, LockStep, SeenStep, MarkedStep, OwnStep, MapsStep DEF IInv

LEMMA Invariant == Spec => []IInv
BY InvInit, InvStep, PTL DEF Spec

-----------------------------------------------------------------------------
(* The results.                                                            *)

\* Every variable keeps its type.
THEOREM TypeCorrect == Spec => []TypeOK
<1>1. IInv => TypeOK
  BY DEF IInv
<1>2. QED
  BY <1>1, Invariant, PTL

\* Outcomes are held, and reports published, only under a receipt of one's own
\* (evaluate and save_report).
THEOREM ReceiptsAreOwned == Spec => []ReadsAreReserved
<1>1. IInv => ReadsAreReserved
  BY DEF IInv
<1>2. QED
  BY <1>1, Invariant, PTL

\* access gives up for contention only after as many receipts of others: the
\* retry loop is lock-free.
THEOREM AccessIsLockFree == Spec => []ConflictIsProgress
<1>1. IInv => ConflictIsProgress
  BY DEF IInv
<1>2. QED
  BY <1>1, Invariant, PTL

\* A published receipt carries the exact count of the chain it is added to.
LEMMA PublishAppends ==
  ASSUME IInv, NEW p \in Actors, Publish(p)
  PROVE  /\ chain \in Seq(Receipts)
         /\ chain' = Append(chain, [by |-> p, purpose |-> call[p].purpose, test |-> call[p].test,
                                    prior |-> TestAccesses(chain)])
         /\ pc[p] = "publishing" /\ call[p] \in Calls
<1>1. chain \in Seq(Receipts) /\ Len(chain) = call[p].seen /\ pc[p] = "publishing" /\ call[p] \in Calls
  BY DEF IInv, TypeOK, Publish, Return, Go
<1>2. SubSeq(chain, 1, call[p].seen) = chain
  BY <1>1
<1>3. QED
  BY <1>1, <1>2 DEF Publish, Candidate

\* The chain implements the log that EvaluationAudit promises: it only grows, one
\* exact receipt at a time, whoever races for the ordinals (access).
THEOREM ChainIsALog == Spec => ImplementsLog
<1>1. Init => Log!Init
  BY DEF Init, Log!Init
<1>2. ASSUME IInv, [Next]_vars
      PROVE  [Log!Next]_chain
  <2>1. ASSUME NEW p \in Actors, Publish(p)
        PROVE  Log!Next
    <3>1. /\ chain' = Append(chain, [by |-> p, purpose |-> call[p].purpose,
                                     test |-> call[p].test, prior |-> TestAccesses(chain)])
          /\ call[p] \in Calls
      BY <1>2, <2>1, PublishAppends
    <3>2. TestAccesses(chain) = Log!TestAccesses(chain)
      BY DEF TestAccesses, Log!TestAccesses, Cardinality, Log!Cardinality
    <3>3. Log!Access(p, call[p].purpose, call[p].test)
      BY <3>1, <3>2 DEF Log!Access
    <3>4. QED
      BY <3>1, <3>3 DEF Log!Next, Calls
  <2>2. (\A p \in Actors : ~Publish(p)) => UNCHANGED chain
    BY <1>2 DEF Next, Expose, ReserveImport, StartReplay, Mark, ReadOutcomes, Abandon, Protect,
       Begin, WriteMap, Confirm, AccountFor, Call, Access, ReadHistory, Conflict, Evaluate,
       SaveReport, Leave, vars
  <2>3. QED
    BY <2>1, <2>2
<1>3. QED
  BY <1>1, <1>2, Invariant, PTL DEF Spec, ImplementsLog, Log!Spec

\* With every marker mapped, the chain holds a protected receipt for each exposer
\* that has read: maps is an injection.
LEMMA ExposuresInChain ==
  ASSUME IInv, Unmapped = {}
  PROVE  TestAccesses(chain) >= Cardinality(read)
<1> DEFINE T == {i \in DOMAIN chain : chain[i].test}
           f == [e \in read |-> maps[e]]
<1>1. chain \in Seq(Receipts) /\ read \subseteq Exposers
  BY DEF IInv, TypeOK
<1>2. IsFiniteSet(T)
  BY <1>1, TestsCounted
<1>3. \A e \in read : e \in Exposers /\ maps[e] # 0
  BY DEF IInv, ReadIsMarked, Unmapped, TypeOK
<1>4. \A e \in read : maps[e] \in T
  BY <1>3 DEF IInv, MapsSound
<1>5. \A d, e \in read : maps[d] = maps[e] => d = e
  BY <1>3 DEF IInv, MapsSound
<1>6. f \in Injection(read, T)
  BY <1>4, <1>5 DEF Injection, IsInjective
<1> HIDE DEF f, T
<1>7. IsFiniteSet(read) /\ Cardinality(read) <= Cardinality(T)
  BY <1>2, <1>6, FS_Injection
<1>8. Cardinality(read) \in Nat /\ Cardinality(T) \in Nat
  BY <1>2, <1>7, FS_CardinalityType
<1>9. QED
  BY <1>7, <1>8 DEF T, TestAccesses

\* No protected comparison is reserved with a count below the imports and replays
\* that have read the source: it cannot pass for virgin (synchronize_exposures).
THEOREM ExposuresAreCounted == Spec => ExposureCounted
<1> DEFINE Counted == \A i \in DOMAIN chain' \ DOMAIN chain :
                        Comparison(chain'[i]) => chain'[i].prior >= Cardinality(read)
<1>1. ASSUME IInv, [Next]_vars
      PROVE  Counted
  <2>1. ASSUME NEW p \in Actors, Publish(p)
        PROVE  Counted
    <3> DEFINE r == [by |-> p, purpose |-> call[p].purpose, test |-> call[p].test,
                     prior |-> TestAccesses(chain)]
    <3>1. chain \in Seq(Receipts) /\ chain' = Append(chain, r) /\ pc[p] = "publishing"
      BY <1>1, <2>1, PublishAppends
    <3>2. ASSUME p \in Evaluators, call[p].purpose = "confirmatory"
          PROVE  r.prior >= Cardinality(read)
      <4>1. Unmapped = {}
        BY <1>1, <3>1, <3>2 DEF IInv, Purposeful
      <4>2. QED
        BY <1>1, <4>1, ExposuresInChain
    <3>3. r.by = p /\ r.purpose = call[p].purpose
      OBVIOUS
    <3> HIDE DEF r
    <3>4. \A i \in DOMAIN chain' \ DOMAIN chain : chain'[i] = r
      BY <3>1
    <3>5. QED
      BY <3>2, <3>3, <3>4 DEF Comparison
  <2>2. (\A p \in Actors : ~Publish(p)) => UNCHANGED chain
    BY <1>1 DEF Next, Expose, ReserveImport, StartReplay, Mark, ReadOutcomes, Abandon, Protect,
       Begin, WriteMap, Confirm, AccountFor, Call, Access, ReadHistory, Conflict, Evaluate,
       SaveReport, Leave, vars
  <2>3. QED
    BY <2>1, <2>2
<1>2. QED
  BY <1>1, Invariant, PTL DEF Spec, ExposureCounted
=============================================================================
