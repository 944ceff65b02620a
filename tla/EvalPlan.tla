------------------------------ MODULE EvalPlan ------------------------------
(***************************************************************************)
(* The budget of an evaluation run (shield_eval/metrics.py): how many      *)
(* units a plan asks for, what they would cost at the table's prices, and  *)
(* whether the plan is accepted, shrunk or skipped.                        *)
(*                                                                         *)
(* Prices are dollars per million tokens, so a count of tokens times a     *)
(* price is a whole number of micro-dollars, the precision to which the    *)
(* artifact rounds; every amount here is in micro-dollars.  The code       *)
(* divides in floating point where this module divides integers: a plan    *)
(* whose units come out exact to the last bit may differ by one unit.      *)
(***************************************************************************)
EXTENDS Integers, FiniteSets

Larger(m, n)  == IF m >= n THEN m ELSE n
Smaller(m, n) == IF m <= n THEN m ELSE n

Guardian == {"defender", "evaluator", "supervisor", "auditor"}

\* Model calls a guardian makes for one record.
Invocations ==
    [g \in Guardian |->
        CASE g = "defender"  -> 0
          [] g = "evaluator" -> 3
          [] g = "supervisor" -> 6
          [] g = "auditor"   -> 6]

Haiku  == "claude-haiku-4-5-20251001"
Sonnet == "claude-sonnet-4-6"
Opus   == "claude-opus-4-7"
Priced == {Haiku, Sonnet, Opus}

\* The prices of the models the profiles name.
Price ==
    [m \in Priced |->
        CASE m = Haiku  -> [in |-> 1, out |-> 5]
          [] m = Sonnet -> [in |-> 3, out |-> 15]
          [] m = Opus   -> [in |-> 5, out |-> 25]]

Profiles == {"provider-slice-haiku", "cloud"}

\* The model behind a guardian, for the two profiles that name their models;
\* the Defender is deterministic and local in every profile.
ModelOf(profile, g) ==
    CASE profile = "provider-slice-haiku" -> Haiku
      [] profile = "cloud" /\ g = "evaluator"  -> Sonnet
      [] profile = "cloud" /\ g = "supervisor" -> Opus
      [] profile = "cloud" /\ g = "auditor"    -> Haiku

ModelCost(model, in, out) == in * Price[model].in + out * Price[model].out

\* Three characters to a token, rounded up.
TokenEstimate(chars) == Larger(0, (chars + 2) \div 3)

\* Guardians are called for every record as soon as one arm has a shield, and
\* then once for the grid, however many of its arms have one.
GuardianUnits(plan) ==
    IF plan.shielded
    THEN Larger(1, plan.users) * Larger(1, plan.injections) * Larger(1, plan.samples)
    ELSE 0

GuardianCost(plan, g) ==
    IF g = "defender" THEN 0
    ELSE LET calls == Invocations[g] * GuardianUnits(plan)
         IN  ModelCost(ModelOf(plan.profile, g),
                       TokenEstimate(plan.chars) * calls,
                       Smaller(Larger(0, plan.output), 800) * calls)

RequestedUnits(plan) ==
    Larger(1, plan.arms) * Larger(1, plan.users) * Larger(1, plan.injections)
       * Larger(1, plan.samples)

WorkerCost(plan) ==
    ModelCost(plan.model, TokenEstimate(plan.chars) * RequestedUnits(plan),
              Larger(0, plan.output) * RequestedUnits(plan))

RequestedCost(plan) ==
    WorkerCost(plan) + GuardianCost(plan, "evaluator")
       + GuardianCost(plan, "supervisor") + GuardianCost(plan, "auditor")

\* The decision on a plan of "units" units that costs "cost" in all.  The
\* artifact's effective cost is cost * effective / units; here it is compared
\* with both sides multiplied by units.
Decide(units, cost, threshold, cap, shrink, key) ==
    LET fitting == Smaller(units, (threshold * units) \div cost)
        shrunk  == shrink /\ fitting > 0 /\ cost * fitting <= cap * units
    IN  [status    |-> IF key /\ (cost <= threshold \/ shrunk)
                       THEN "ESTIMATED" ELSE "SKIPPED",
         effective |-> IF cost <= threshold THEN units
                       ELSE IF shrunk THEN fitting ELSE 0]

\* build_real_runner_budget_artifact.
RunnerBudget(plan, threshold, cap, key) ==
    Decide(RequestedUnits(plan), RequestedCost(plan), threshold, cap, TRUE, key)

\* build_provider_slice_budget_artifact: one task, one injection, no shrinking.
SliceBudget(plan, approval, key) ==
    LET slice == [plan EXCEPT !.users = 1, !.injections = 1]
    IN  Decide(RequestedUnits(slice), RequestedCost(slice), approval, approval,
               FALSE, key)
=============================================================================
