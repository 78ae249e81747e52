---------------------------- MODULE EvaluationAudit ----------------------------
(***************************************************************************)
(* Who has seen the outcomes of one source before a comparison on it is     *)
(* called confirmatory: the audit chain of one holdout, the exposure        *)
(* markers of the source and the kernel lock that orders the two            *)
(* (src/coleman/evaluation/protected/audit.py,                              *)
(* src/coleman/application/workflow_exposure.py, compare_continuation in    *)
(* src/coleman/application/workflow_evaluation.py).                         *)
(*                                                                         *)
(* Imports and descriptive replays leave a marker and then read; protected  *)
(* evaluators account for the markers in the chain, reserve an access and   *)
(* then read; clients use EvaluationAudit without the workflow and without  *)
(* the lock.  Files appear whole (write_immutable links a finished file),   *)
(* and a process may stop at any point: it raises, or it dies and the       *)
(* kernel frees its lock.                                                  *)
(***************************************************************************)
EXTENDS Naturals, Sequences, FiniteSets

CONSTANTS
  Imports,         \* identities of import attempts: owner and exact payload
  Replays,         \* physical starts of descriptive workers
  Evaluators,      \* workers of protected jobs in their evaluation
  Clients,         \* callers of evaluate or access outside the workflow
  NoOne,
  MaxAttempts,     \* slots of the import attempt index (1024)
  MaxMarkers,      \* exposure markers of one source (1024)
  MaxHistory,      \* accesses the workflow may add to one scope (512)
  MaxTries,        \* publication conflicts before access gives up (1000)
  MaxAccesses      \* bound on the chain in the guards

Exposers == Imports \cup Replays
Actors   == Evaluators \cup Clients
Purposes == {"development", "confirmatory"}

ASSUME RolesAssumption ==
  /\ Imports \cap Replays = {}
  /\ Exposers \cap Actors = {}
  /\ Evaluators \cap Clients = {}
  /\ NoOne \notin Exposers \cup Actors
  /\ IsFiniteSet(Exposers)
ASSUME LimitsAssumption ==
  /\ MaxAttempts \in Nat /\ MaxMarkers \in Nat /\ MaxHistory \in Nat
  /\ MaxTries \in Nat \ {0} /\ MaxAccesses \in Nat

VARIABLES
  attempts,   \* the identities in the settings row
  markers,    \* exposers with a published SourceExposure
  maps,       \* maps[e]: ordinal of the receipt e's exposure is mapped to, or 0
  chain,      \* the ordinal files of the holdout, in order
  lock,       \* the evaluator that holds the source lock, or NoOne
  pc,         \* where each process is
  call,       \* call[p]: the local variables of p's access
  reports,    \* the published reports, by author and receipt
  read        \* history: the exposers that have read outcomes

exposure == <<attempts, markers, read>>
vars == <<exposure, maps, chain, lock, pc, call, reports>>

-----------------------------------------------------------------------------
Receipts == [by: Actors, purpose: Purposes, test: BOOLEAN, prior: Nat]

\* exposed: the marker an access accounts for, or NoOne; seen: how many receipts
\* the last reading of the chain held; tries: conflicts so far; receipt: the
\* ordinal access returned, or 0; begun (history): the chain when it was called.
Calls == [exposed: Exposers \cup {NoOne}, purpose: Purposes, test: BOOLEAN,
          seen: Nat, tries: Nat, receipt: Nat, begun: Nat]

NoCall == [exposed |-> NoOne, purpose |-> "confirmatory", test |-> TRUE,
           seen |-> 0, tries |-> 0, receipt |-> 0, begun |-> 0]

Places == {"idle", "marking", "marked", "over", "synchronizing", "mapping",
           "reading", "publishing", "contended", "reserved", "saving"}

TypeOK ==
  /\ attempts \subseteq Imports /\ markers \subseteq Exposers
  /\ maps \in [Exposers -> Nat]
  /\ chain \in Seq(Receipts)
  /\ lock \in Evaluators \cup {NoOne}
  /\ pc \in [Exposers \cup Actors -> Places]
  /\ call \in [Actors -> Calls]
  /\ reports \subseteq [by: Actors, receipt: Nat]
  /\ read \subseteq Exposers

Init ==
  /\ attempts = {} /\ markers = {}
  /\ maps = [e \in Exposers |-> 0]
  /\ chain = <<>>
  /\ lock = NoOne
  /\ pc = [p \in Exposers \cup Actors |-> "idle"]
  /\ call = [p \in Actors |-> NoCall]
  /\ reports = {}
  /\ read = {}

Go(p, from, to) == pc[p] = from /\ pc' = [pc EXCEPT ![p] = to]

TestAccesses(s) == Cardinality({i \in DOMAIN s : s[i].test})

-----------------------------------------------------------------------------
(* Imports and descriptive replays.                                        *)

\* reserve_import_exposure: a slot in the index, committed before the marker.
ReserveImport(e) ==
  /\ e \in Imports
  /\ Go(e, "idle", "marking")
  /\ e \in attempts \/ Cardinality(attempts) < MaxAttempts
  /\ attempts' = attempts \cup {e}
  /\ UNCHANGED <<markers, maps, chain, lock, call, reports, read>>

\* run_job: a descriptive worker marks each physical start.
StartReplay(e) ==
  /\ e \in Replays
  /\ Go(e, "idle", "marking")
  /\ UNCHANGED <<exposure, maps, chain, lock, call, reports>>

\* Mutant: the marker is published without the source lock.
MarkUnlocked(e) ==
  /\ Go(e, "marking", "marked")
  /\ e \in markers \/ Cardinality(markers) < MaxMarkers
  /\ markers' = markers \cup {e}
  /\ UNCHANGED <<attempts, maps, chain, lock, call, reports, read>>

\* mark_exposure, inside the source lock from start to end; a marker that is
\* there already is enough.  A busy lock or a full scope raises (Leave).
Mark(e) ==
  /\ Go(e, "marking", "marked")
  /\ lock = NoOne
  /\ e \in markers \/ Cardinality(markers) < MaxMarkers
  /\ markers' = markers \cup {e}
  /\ UNCHANGED <<attempts, maps, chain, lock, call, reports, read>>

\* EvidenceBundle.from_json, or the native replay: outcomes are read.  The same
\* payload may be imported again.
ReadOutcomes(e) ==
  /\ Go(e, "marked", IF e \in Imports THEN "idle" ELSE "over")
  /\ read' = read \cup {e}
  /\ UNCHANGED <<attempts, markers, maps, chain, lock, call, reports>>

-----------------------------------------------------------------------------
(* EvaluationAudit.access.                                                 *)

Ask(p, purpose, test, exposed) ==
  call' = [call EXCEPT ![p] = [NoCall EXCEPT !.purpose = purpose, !.test = test,
                                             !.exposed = exposed, !.begun = Len(chain)]]

\* Mutant: the chain is read once, before the first try.
ReadHistoryOnce(p) ==
  /\ Go(p, "reading", "publishing")
  /\ Len(chain) < MaxAccesses
  /\ call' = [call EXCEPT ![p].seen = IF call[p].tries = 0 THEN Len(chain) ELSE @]
  /\ UNCHANGED <<exposure, maps, chain, lock, reports>>

\* history: a listing that caught a gap between files being added raises (Leave).
ReadHistory(p) ==
  /\ Go(p, "reading", "publishing")
  /\ Len(chain) < MaxAccesses
  /\ call' = [call EXCEPT ![p].seen = Len(chain)]
  /\ UNCHANGED <<exposure, maps, chain, lock, reports>>

\* The receipt p puts together from what it read.
Candidate(p) ==
  [by |-> p, purpose |-> call[p].purpose, test |-> call[p].test,
   prior |-> TestAccesses(SubSeq(chain, 1, call[p].seen))]

Return(p, ordinal) ==
  /\ Go(p, "publishing", IF call[p].exposed # NoOne THEN "mapping" ELSE "reserved")
  /\ call' = [call EXCEPT ![p].receipt = ordinal, ![p].seen = 0, ![p].tries = 0,
                          ![p].begun = 0]

\* Mutant: the receipt is published behind the winner, with the count it had.
PublishStale(p) ==
  /\ Return(p, Len(chain) + 1)
  /\ chain' = Append(chain, Candidate(p))
  /\ UNCHANGED <<exposure, maps, lock, reports>>

\* Mutant: an ordinal that exists is taken for one's own.
PublishTrusting(p) ==
  /\ Return(p, call[p].seen + 1)
  /\ chain' = IF Len(chain) = call[p].seen THEN Append(chain, Candidate(p)) ELSE chain
  /\ UNCHANGED <<exposure, maps, lock, reports>>

\* write_immutable creates the next ordinal if it is absent.
Publish(p) ==
  /\ Len(chain) = call[p].seen
  /\ Return(p, call[p].seen + 1)
  /\ chain' = Append(chain, Candidate(p))
  /\ UNCHANGED <<exposure, maps, lock, reports>>

\* Another receipt won the ordinal: once more, until the tries are used up.
Conflict(p) ==
  /\ Len(chain) > call[p].seen
  /\ Go(p, "publishing", IF call[p].tries + 1 < MaxTries THEN "reading" ELSE "contended")
  /\ call' = [call EXCEPT ![p].tries = @ + 1]
  /\ UNCHANGED <<exposure, maps, chain, lock, reports>>

-----------------------------------------------------------------------------
(* Protected evaluators.                                                   *)

\* compare_continuation: room in the scope, asked for once before the lock and
\* again before each access, and the source lock.
Begin(v) ==
  /\ Go(v, "idle", "synchronizing")
  /\ Len(chain) < MaxHistory
  /\ lock = NoOne
  /\ lock' = v
  /\ UNCHANGED <<exposure, maps, chain, call, reports>>

Unmapped == {e \in markers : maps[e] = 0}

\* synchronize_exposures: an access for each marker without a map.
AccountFor(v, e) ==
  /\ Go(v, "synchronizing", "reading")
  /\ e \in Unmapped
  /\ Len(chain) < MaxHistory
  /\ Ask(v, "development", TRUE, e)
  /\ UNCHANGED <<exposure, maps, chain, lock, reports>>

WriteMap(v) ==
  /\ Go(v, "mapping", "synchronizing")
  /\ maps' = [maps EXCEPT ![call[v].exposed] = call[v].receipt]
  /\ call' = [call EXCEPT ![v] = NoCall]
  /\ UNCHANGED <<exposure, chain, lock, reports>>

\* evaluate reserves the confirmatory access; the assembly window is still open.
Confirm(v) ==
  /\ Go(v, "synchronizing", "reading")
  /\ Unmapped = {}
  /\ Len(chain) < MaxHistory
  /\ Ask(v, "confirmatory", TRUE, NoOne)
  /\ UNCHANGED <<exposure, maps, chain, lock, reports>>

\* The outcomes are read, and the lock is left with the report in hand.
Evaluate(p) ==
  /\ Go(p, "reserved", "saving")
  /\ lock' = IF lock = p THEN NoOne ELSE lock
  /\ UNCHANGED <<exposure, maps, chain, call, reports>>

\* save_report: the report's receipt must be in the chain.
SaveReport(p) ==
  /\ Go(p, "saving", "idle")
  /\ call[p].receipt \in DOMAIN chain /\ chain[call[p].receipt].by = p
  /\ reports' = reports \cup {[by |-> p, receipt |-> call[p].receipt]}
  /\ call' = [call EXCEPT ![p] = NoCall]
  /\ UNCHANGED <<exposure, maps, chain, lock>>

-----------------------------------------------------------------------------
(* Clients, and the end of a call.                                         *)

\* evaluate without the workflow, or an access to training data.
Call(c, test) ==
  /\ Go(c, "idle", "reading")
  /\ Ask(c, IF test THEN "confirmatory" ELSE "development", test, NoOne)
  /\ UNCHANGED <<exposure, maps, chain, lock, reports>>

\* An import or a replay raises or dies; a replay's physical start is over.
Abandon(e) ==
  /\ pc[e] \in {"marking", "marked"}
  /\ pc' = [pc EXCEPT ![e] = IF e \in Replays THEN "over" ELSE "idle"]
  /\ UNCHANGED <<exposure, maps, chain, lock, call, reports>>

\* So does an evaluator or a client: the kernel frees its lock.
Leave(p) ==
  /\ pc[p] # "idle"
  /\ pc' = [pc EXCEPT ![p] = "idle"]
  /\ call' = [call EXCEPT ![p] = NoCall]
  /\ lock' = IF lock = p THEN NoOne ELSE lock
  /\ UNCHANGED <<exposure, maps, chain, reports>>

Expose(e) == ReserveImport(e) \/ StartReplay(e) \/ Mark(e) \/ ReadOutcomes(e) \/ Abandon(e)

Protect(v) ==
  \/ Begin(v) \/ WriteMap(v) \/ Confirm(v)
  \/ \E e \in Exposers : AccountFor(v, e)

Access(p) == ReadHistory(p) \/ Publish(p) \/ Conflict(p)

Next ==
  \/ \E e \in Exposers : Expose(e)
  \/ \E v \in Evaluators : Protect(v)
  \/ \E c \in Clients, test \in BOOLEAN : Call(c, test)
  \/ \E p \in Actors : Access(p) \/ Evaluate(p) \/ SaveReport(p) \/ Leave(p)

Spec == Init /\ [][Next]_vars

-----------------------------------------------------------------------------
(* Properties.                                                             *)

\* However accesses race for the next ordinal, the chain is a log that grows by
\* one exact receipt at a time.
Log == INSTANCE AccessLog WITH log <- chain
ImplementsLog == Log!Spec

\* Whoever holds outcomes, or has reported on them, owns the receipt it reserved
\* before: no conflict ever hands it somebody else's.
ReadsAreReserved ==
  /\ \A p \in Actors :
       pc[p] \in {"mapping", "reserved", "saving"} =>
         LET r == call[p].receipt
         IN  r \in DOMAIN chain /\ chain[r].by = p /\ chain[r].test = call[p].test
  /\ \A r \in reports : r.receipt \in DOMAIN chain /\ chain[r.receipt].by = r.by

\* A protected comparison never passes for more virgin than it is: its receipt
\* counts at least every import and replay that had read outcomes of the source
\* before it, whatever died between marker, receipt and map.
Comparison(r) == r.by \in Evaluators /\ r.purpose = "confirmatory"

ExposureCounted ==
  [][\A i \in DOMAIN chain' \ DOMAIN chain :
       Comparison(chain'[i]) => chain'[i].prior >= Cardinality(read)]_vars

\* An access is refused for contention only if as many others succeeded.
ConflictIsProgress == \A p \in Actors : call[p].begun + call[p].tries <= Len(chain)
=============================================================================
