----------------------------- MODULE HashChain ------------------------------
(***************************************************************************)
(* What the per-agent operation chain of shield-server promises: for each  *)
(* agent a log that only grows, one entry at a time, in which no operation *)
(* id ever appears twice, in its own log or in another agent's.            *)
(***************************************************************************)
EXTENDS Sequences, Naturals

CONSTANTS
    Agent,      \* agents
    Op,         \* operation ids
    Body        \* what a chain hash commits to besides the operation id

VARIABLE log    \* the entries of each agent's chain, oldest first

Entry == [op : Op, body : Body]

Init == log = [a \in Agent |-> <<>>]

Used(op) == \E b \in Agent : \E i \in 1..Len(log[b]) : log[b][i].op = op

Extend(a, e) ==
    /\ ~Used(e.op)
    /\ log' = [log EXCEPT ![a] = Append(log[a], e)]

Next == \E a \in Agent, e \in Entry : Extend(a, e)

Spec == Init /\ [][Next]_log
=============================================================================
