------------------------------- MODULE AccessLog -------------------------------
(***************************************************************************)
(* What EvaluationAudit promises about one holdout: a log of accesses that  *)
(* only grows, one receipt at a time, each receipt knowing exactly how many *)
(* protected accesses came before it (class docstrings of AccessReceipt and *)
(* EvaluationAudit, src/coleman/evaluation/protected/audit.py).             *)
(***************************************************************************)
EXTENDS Naturals, Sequences, FiniteSets

CONSTANTS
  Actors,      \* whoever may access the holdout
  Purposes     \* what they declare to do with it

VARIABLE log

\* AccessReceipt.prior_test_accesses, of an access made after those of s.
TestAccesses(s) == Cardinality({i \in DOMAIN s : s[i].test})

Access(actor, purpose, test) ==
  log' = Append(log, [by |-> actor, purpose |-> purpose, test |-> test,
                      prior |-> TestAccesses(log)])

Init == log = <<>>

Next ==
  \E actor \in Actors, purpose \in Purposes, test \in BOOLEAN :
    Access(actor, purpose, test)

Spec == Init /\ [][Next]_log
=============================================================================
