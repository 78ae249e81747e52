--------------------------- MODULE MCEvaluationAudit ---------------------------
(***************************************************************************)
(* EvaluationAudit on one import, one replay, two evaluators and a client. *)
(***************************************************************************)
EXTENDS EvaluationAudit, TLC

MCSymmetry == Permutations(Evaluators)
=============================================================================
