----------------------------- MODULE MCAccounts -----------------------------
(***************************************************************************)
(* An account at a1, an invite to a2; two requests at a time.            *)
(***************************************************************************)
EXTENDS Accounts, TLC

CONSTANTS a1, a2

MCInvited == <<a2>>

Symmetry == Permutations(Request)
=============================================================================
