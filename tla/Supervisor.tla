----------------------------- MODULE Supervisor -----------------------------
(***************************************************************************)
(* How the Supervisor turns the signals of the guardians into a decision   *)
(* (shield_governance/supervisor.py), on the decide path, where only the   *)
(* Defender has run, and on Channel 2, where all have.  Scores, weights    *)
(* and thresholds are in percent and the risk is compared exactly, where   *)
(* the code computes with floats.                                          *)
(***************************************************************************)
EXTENDS Naturals

CONSTANTS
    Weight,     \* w_defender, w_evaluator, w_auditor, w_baseline, by name
    Threshold   \* t_alert, t_escalate, t_block, by name

ASSUME PolicyAssumption ==
    /\ Weight \in [{"defender", "evaluator", "auditor", "baseline"} -> Nat]
    /\ Threshold \in [{"alert", "escalate", "block"} -> Nat]

Decision == {"PASS", "ALERT", "ESCALATE", "ROLLBACK", "BLOCK", "REWRITE"}

\* Only these have a severity.
Rank == [PASS |-> 0, ALERT |-> 1, ESCALATE |-> 2, ROLLBACK |-> 3, BLOCK |-> 4]

Stops == {"BLOCK", "ROLLBACK"}

Percent == 0..100

\* ran: the Evaluator has; broken: the audit failed; post: a post_exec record.
Signals ==
    [defender : DOMAIN Rank, anomaly : Percent, integrity : Percent, ran : BOOLEAN,
     structuring : BOOLEAN, broken : BOOLEAN, post : BOOLEAN]

-----------------------------------------------------------------------------
\* _risk_to_decision for the risk n / d.
Band(n, d) ==
    IF n * 100 < Threshold.alert * d THEN "PASS"
    ELSE IF n * 100 < Threshold.escalate * d THEN "ALERT"
    ELSE IF n * 100 < Threshold.block * d THEN "ESCALATE"
    ELSE "BLOCK"

DefenderBlocked(s) == s.defender \in Stops

TotalWeight == Weight.defender + Weight.evaluator + Weight.auditor + Weight.baseline

\* aggregate_risk, times 100 times the total weight; the baseline signal is 0.
Risk(s) ==
    (IF DefenderBlocked(s) THEN 100 * Weight.defender ELSE 0)
      + s.anomaly * Weight.evaluator
      + (100 - s.integrity) * Weight.auditor

AtMostAlert(d) == Rank[d] <= Rank["ALERT"]

\* _is_conflict: never before the Evaluator has run.
Conflict(s) ==
    /\ s.ran
    /\ AtMostAlert(s.defender) # AtMostAlert(Band(s.anomaly, 100))

Worse(d, e) == IF Rank[e] > Rank[d] THEN e ELSE d

Overridden(s) == s.broken \/ s.structuring

\* Mutant: a conflict is arbitrated before the overrides are looked at.
ArbitratedFirst(s, arbitrated) ==
    CASE DefenderBlocked(s) -> "BLOCK"
      [] ~DefenderBlocked(s) /\ Conflict(s) -> arbitrated
      [] ~DefenderBlocked(s) /\ ~Conflict(s) /\ Overridden(s) -> "BLOCK"
      [] OTHER -> Worse(s.defender, Band(Risk(s), 100 * TotalWeight))

\* The branches of decide; arbitrated is what the arbiter answers.
Branch(s, arbitrated) ==
    CASE DefenderBlocked(s) -> "BLOCK"
      [] ~DefenderBlocked(s) /\ Overridden(s) -> "BLOCK"
      [] ~DefenderBlocked(s) /\ ~Overridden(s) /\ Conflict(s) -> arbitrated
      [] OTHER -> Worse(s.defender, Band(Risk(s), 100 * TotalWeight))

Arbitrates(s) == ~DefenderBlocked(s) /\ ~Overridden(s) /\ Conflict(s)

\* What a stop undoes: a post_exec action, unless an override stopped it.
RollsBack(s, arbitrated) ==
    /\ s.post
    /\ \/ DefenderBlocked(s)
       \/ ~Overridden(s) /\ Branch(s, arbitrated) = "BLOCK"
       \/ ~Overridden(s) /\ ~Conflict(s) /\ Branch(s, arbitrated) = "ROLLBACK"

Decide(s, arbitrated) ==
    IF RollsBack(s, arbitrated) THEN "ROLLBACK" ELSE Branch(s, arbitrated)

RequireHuman(s, arbitrated) ==
    \/ ~DefenderBlocked(s) /\ Overridden(s)
    \/ Branch(s, arbitrated) = "ESCALATE"
=============================================================================
