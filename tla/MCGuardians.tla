----------------------------- MODULE MCGuardians ----------------------------
(***************************************************************************)
(* The default policy (supervisor.py:56), in percent.                      *)
(***************************************************************************)
EXTENDS Guardians, TLC

CONSTANTS t1, t2, o1, w1, w2

MCWeight == [defender |-> 35, evaluator |-> 35, auditor |-> 20, baseline |-> 10]

MCThreshold == [alert |-> 10, escalate |-> 30, block |-> 60]

Symmetry == Permutations(Worker)
=============================================================================
