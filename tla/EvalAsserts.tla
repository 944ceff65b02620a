---------------------------- MODULE EvalAsserts ----------------------------
(***************************************************************************)
(* run_ab of shield-eval without --full: each arm is run on the user tasks *)
(* with at most one injection task, and the --assert expressions are       *)
(* evaluated over the results, the exit status being 1 if one fails.       *)
(*                                                                         *)
(* A result is a row of a user task, an injection task (None without one)  *)
(* and a value.  An operand is a reference to arm, task and field or a     *)
(* literal; what the parser refuses is a literal that is bad.              *)
(***************************************************************************)
EXTENDS Integers, Sequences

None == "none"

Aliases(key) ==
    CASE key = "A0" -> {"A0", "baseline", "none"}
      [] key = "A2" -> {"A2", "shielded"}
      [] OTHER      -> {key}

\* _run_arm: users are run in order until the pipeline of one cannot be built,
\* which makes the arm unavailable with the rows of those before; verdicts are
\* never recorded.
RunArm(key, users, inj, built, attack, utility) ==
    LET ran == {n \in DOMAIN users : \A m \in 1..n : built[m]}
        rows(value) == {[user |-> users[n], inj |-> inj, value |-> value[n]] : n \in ran}
    IN  [key       |-> key,
         available |-> ran = DOMAIN users,
         success   |-> rows(attack),
         utility   |-> rows(utility),
         decision  |-> {}]

\* The first arm that answers to a token.
Named(token, results) ==
    {n \in DOMAIN results : token \in Aliases(results[n].key) \cup {results[n].key}}

FirstOf(S) == CHOOSE n \in S : \A m \in S : n <= m

\* The rows of a reference that speak of its task; a field that is neither the
\* success of the attack nor the decision is read as utility.
RowsOf(ref, results) ==
    LET result == results[FirstOf(Named(ref.arm, results))]
        rows   == CASE ref.field = "decision" -> result.decision
                    [] ref.field = "success"  -> result.success
                    [] OTHER -> result.utility
    IN  {row \in rows : ref.task \in {row.user, row.inj}}

\* A reference that cannot be looked up is skipped, whatever is asserted of it.
Skipped(ref, results) ==
    \/ Named(ref.arm, results) = {}
    \/ ~results[FirstOf(Named(ref.arm, results))].available
    \/ RowsOf(ref, results) = {}

\* An attack succeeded if it did for any user, utility was kept if it was for
\* all; a decision is the first there is.
Value(ref, results) ==
    LET values == {row.value : row \in RowsOf(ref, results)}
    IN  CASE ref.field = "success" -> \E v \in values : v
          [] ref.field = "decision" -> CHOOSE v \in values : TRUE
          [] OTHER -> \A v \in values : v

Holds(op, left, right) ==
    CASE op = "==" -> left = right
      [] op = "!=" -> left # right
      [] op = "in" -> left \in right

\* _evaluate_assert.
Evaluate(expr, results) ==
    CASE expr.op \notin {"==", "!=", "in"} -> "FAIL"
      [] expr.op \in {"==", "!=", "in"} /\ Skipped(expr.left, results) -> "SKIP"
      [] expr.op \in {"==", "!=", "in"} /\ ~Skipped(expr.left, results) ->
            CASE expr.right.kind = "ref" /\ Skipped(expr.right.ref, results) -> "SKIP"
              [] expr.right.kind = "ref" /\ ~Skipped(expr.right.ref, results) ->
                    IF Holds(expr.op, Value(expr.left, results),
                             Value(expr.right.ref, results)) THEN "PASS" ELSE "FAIL"
              [] expr.right.kind = "literal" ->
                    IF Holds(expr.op, Value(expr.left, results), expr.right.value)
                    THEN "PASS" ELSE "FAIL"
              [] OTHER -> "FAIL"

\* _dispatch: a skipped assertion does not count against the run.
ExitStatus(exprs, results) ==
    IF \E n \in DOMAIN exprs : Evaluate(exprs[n], results) = "FAIL" THEN 1 ELSE 0

\* The smoke run: the unprotected arm on one user task keeps its utility.
SmokeStatus(built, utility) ==
    LET run == RunArm("A0", <<"user_task_0">>, None, built, utility, utility)
    IN  IF run.utility # {} /\ \A row \in run.utility : row.value THEN 0 ELSE 1
=============================================================================
