--------------------------- MODULE MCBaselineMatrix ---------------------------
(* Small grids for TLC. *)
EXTENDS BaselineMatrix, TLC

CONSTANTS a, b

MCOneCell == <<a>>
MCTwoCells == <<a, b>>

MCSymmetry == Permutations(Invocations)
=============================================================================
