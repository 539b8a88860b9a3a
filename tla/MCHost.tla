------------------------------- MODULE MCHost -------------------------------
(***************************************************************************)
(* A small instance of Host for TLC.                                       *)
(***************************************************************************)
EXTENDS Host, TLC

\* Processes that run the same commands are interchangeable.
Symmetry == Permutations(Stagers) \cup Permutations(Operators)
=============================================================================
