------------------------ MODULE MCApplicationService ------------------------
(* Small sessions of ApplicationService for TLC. *)
EXTENDS ApplicationService

\* A light and a heavy command, with one unit of output each.
MCAllowances == {[memory |-> 1, output |-> 1], [memory |-> 2, output |-> 1]}
=============================================================================
