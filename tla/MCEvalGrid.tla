----------------------------- MODULE MCEvalGrid -----------------------------
(***************************************************************************)
(* Three arms, the first one unknown to resolve_arms and the last with a   *)
(* shield, two user tasks and two injection tasks, so that a table of      *)
(* decisions, shared or not, meets a second user and a second cell.        *)
(***************************************************************************)
EXTENDS EvalGrid

MCArm       == <<"zz", "A0", "A2">>
MCNative    == <<"n1", "n2">>
MCUser      == <<"u1", "u2">>
MCInjection == <<"i1", "i2">>

MCVerdicts ==
    {[decision |-> "PASS", names |-> {"defender", "model"}],
     [decision |-> "BLOCK", names |-> {"defender"}],
     [decision |-> "BLOCK", names |-> {"degraded"}]}

\* A plan that fits, one that is shrunk and one that is skipped.
MCPrompts    == {30, 3000}
MCThresholds == {100, 20000, 1000000}
=============================================================================
