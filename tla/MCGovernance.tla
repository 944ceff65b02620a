---------------------------- MODULE MCGovernance ----------------------------
(***************************************************************************)
(* Records, runs and resume requests are interchangeable.  A negative      *)
(* amount that is counted lets one above the cap through.                  *)
(***************************************************************************)
EXTENDS Governance, TLC

MCAmount == {-3, 2, 5, 6}

Symmetry == Permutations(Record) \cup Permutations(Run) \cup Permutations(Operator)
=============================================================================
