---------------------------- MODULE MCIngestChain ---------------------------
(***************************************************************************)
(* Concurrent ingest on one agent's chain, without management calls.       *)
(***************************************************************************)
EXTENDS Ingest, TLC

CONSTANTS a1, o1, k1

MCEnrolled == {[agent |-> a1, org |-> o1, kid |-> k1]}

Symmetry == Permutations(Req) \cup Permutations(Op) \cup Permutations(Nonce)
=============================================================================
