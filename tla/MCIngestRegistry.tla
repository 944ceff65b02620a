-------------------------- MODULE MCIngestRegistry --------------------------
(***************************************************************************)
(* Ingest while management calls register, freeze, unfreeze, revoke and    *)
(* delete the agent it writes for.  Records of both kinds meet under one   *)
(* operation id.                                                           *)
(***************************************************************************)
EXTENDS IngestHistory, TLC

CONSTANTS a1, o1, k1

MCEnrolled == {[agent |-> a1, org |-> o1, kid |-> k1]}

Symmetry == Permutations(Req) \cup Permutations(Admin)
=============================================================================
