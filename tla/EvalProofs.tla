----------------------------- MODULE EvalProofs -----------------------------
(***************************************************************************)
(* The evaluation harness: what an accepted plan promises for every plan   *)
(* and every threshold, what an assertion can find out for every result of *)
(* a run, and the rows of EvalGrid for every grid.                         *)
(***************************************************************************)
EXTENDS EvalGrid, EvalAsserts, SequenceTheorems, FiniteSetTheorems,
        WellFoundedInduction, TLAPS

PlanType ==
    [arms : Nat, users : Nat, injections : Nat, samples : Int, chars : Nat,
     output : Int, model : Priced, profile : Profiles, shielded : BOOLEAN]

\* Division rounds down.
LEMMA DivisionRoundsDown ==
    ASSUME NEW m \in Nat, NEW n \in Nat \ {0}
    PROVE  /\ m \div n \in Nat
           /\ n * (m \div n) <= m
  BY SMT

\* Products of natural numbers are natural numbers.
LEMMA Products ==
    ASSUME NEW m \in Nat, NEW n \in Nat
    PROVE  m * n \in Nat
  BY SMT

\* A plan that is accepted (metrics.py:875) asks for no more units than were
\* requested and its effective cost is within the threshold, however much the
\* request exceeds it.
THEOREM AcceptedFitsThreshold ==
    ASSUME NEW units \in Nat \ {0}, NEW cost \in Nat, NEW threshold \in Nat,
           NEW cap \in Nat, NEW shrink \in BOOLEAN, NEW key \in BOOLEAN,
           Decide(units, cost, threshold, cap, shrink, key).status = "ESTIMATED"
    PROVE  LET n == Decide(units, cost, threshold, cap, shrink, key).effective
           IN  n \in 1..units /\ cost * n <= threshold * units
  <1> DEFINE fitting == Smaller(units, (threshold * units) \div cost)
  <1>1. threshold * units \in Nat
    BY Products
  <1>2. CASE cost <= threshold
    <2>1. Decide(units, cost, threshold, cap, shrink, key).effective = units
      BY <1>2 DEF Decide
    <2>2. cost * units <= threshold * units
      BY <1>2, SMT
    <2> QED
      BY <2>1, <2>2
  <1>3. CASE ~(cost <= threshold)
    <2>1. cost \in Nat \ {0}
      BY <1>3
    <2>2. /\ (threshold * units) \div cost \in Nat
          /\ cost * ((threshold * units) \div cost) <= threshold * units
      BY <1>1, <2>1, DivisionRoundsDown
    <2>3. /\ fitting \in Nat
          /\ fitting <= units
          /\ fitting <= (threshold * units) \div cost
      BY <2>2 DEF Smaller
    <2>4. cost * fitting <= cost * ((threshold * units) \div cost)
      <3> DEFINE bound == (threshold * units) \div cost
      <3>1. bound \in Nat /\ fitting <= bound
        BY <2>2, <2>3
      <3> HIDE DEF bound, fitting
      <3>2. cost * fitting <= cost * bound
        BY <3>1, <2>1, <2>3, SMT
      <3> QED
        BY <3>2 DEF bound
    <2>5. /\ Decide(units, cost, threshold, cap, shrink, key).effective = fitting
          /\ fitting > 0
      BY <1>3 DEF Decide
    <2>6. cost * fitting <= threshold * units
      <3> DEFINE spent == cost * fitting
                 bound == cost * ((threshold * units) \div cost)
                 room  == threshold * units
      <3>1. spent \in Nat
        BY <2>1, <2>3, Products
      <3>2. bound \in Nat
        BY <2>1, <2>2, Products
      <3>3. spent <= bound /\ bound <= room /\ room \in Nat
        BY <2>4, <2>2, <1>1
      <3> HIDE DEF spent, bound, room
      <3>4. spent <= room
        BY <3>1, <3>2, <3>3
      <3> QED
        BY <3>4 DEF spent, room
    <2> QED
      BY <2>3, <2>5, <2>6
  <1> QED
    BY <1>2, <1>3

LEMMA UnitsType ==
    ASSUME NEW plan \in PlanType
    PROVE  /\ RequestedUnits(plan) \in Nat \ {0}
           /\ GuardianUnits(plan) \in Nat
  <1> DEFINE a == Larger(1, plan.arms)
             u == Larger(1, plan.users)
             i == Larger(1, plan.injections)
             s == Larger(1, plan.samples)
  <1>1. a \in Nat \ {0} /\ u \in Nat \ {0} /\ i \in Nat \ {0} /\ s \in Nat \ {0}
    BY DEF PlanType, Larger
  <1>2. RequestedUnits(plan) = a * u * i * s
    BY DEF RequestedUnits
  <1>3. GuardianUnits(plan) = IF plan.shielded THEN u * i * s ELSE 0
    BY DEF GuardianUnits
  <1> HIDE DEF a, u, i, s
  <1>4. \A m, n \in Nat \ {0} : m * n \in Nat \ {0}
    BY SMT
  <1>5. a * u \in Nat \ {0} /\ u * i \in Nat \ {0}
    BY <1>1, <1>4
  <1>6. a * u * i \in Nat \ {0} /\ u * i * s \in Nat \ {0}
    BY <1>1, <1>4, <1>5
  <1>7. a * u * i * s \in Nat \ {0}
    BY <1>1, <1>4, <1>6
  <1> QED
    BY <1>2, <1>3, <1>6, <1>7

LEMMA ModelCostType ==
    ASSUME NEW model \in Priced, NEW in \in Nat, NEW out \in Nat
    PROVE  ModelCost(model, in, out) \in Nat
  <1>1. Price[model].in \in Nat /\ Price[model].out \in Nat
    BY DEF Price, Priced, Haiku, Sonnet, Opus
  <1>2. in * Price[model].in \in Nat /\ out * Price[model].out \in Nat
    BY <1>1, Products
  <1> QED
    BY <1>2 DEF ModelCost

LEMMA RequestedCostType ==
    ASSUME NEW plan \in PlanType
    PROVE  RequestedCost(plan) \in Nat
  <1>1. TokenEstimate(plan.chars) \in Nat
    BY DEF PlanType, TokenEstimate, Larger
  <1>2. Larger(0, plan.output) \in Nat /\ Smaller(Larger(0, plan.output), 800) \in Nat
    BY DEF PlanType, Larger, Smaller
  <1>3. WorkerCost(plan) \in Nat
    <2>1. plan.model \in Priced
      BY DEF PlanType
    <2>2. /\ TokenEstimate(plan.chars) * RequestedUnits(plan) \in Nat
          /\ Larger(0, plan.output) * RequestedUnits(plan) \in Nat
      BY <1>1, <1>2, UnitsType, Products
    <2> QED
      BY <2>1, <2>2, ModelCostType DEF WorkerCost
  <1>4. ASSUME NEW g \in {"evaluator", "supervisor", "auditor"}
        PROVE  GuardianCost(plan, g) \in Nat
    <2>1. ModelOf(plan.profile, g) \in Priced
      BY <1>4 DEF ModelOf, PlanType, Profiles, Priced
    <2>2. Invocations[g] \in Nat
      BY <1>4 DEF Invocations, Guardian
    <2>3. Invocations[g] * GuardianUnits(plan) \in Nat
      BY <2>2, UnitsType, Products
    <2> DEFINE made == Invocations[g] * GuardianUnits(plan)
    <2>4. /\ TokenEstimate(plan.chars) * made \in Nat
          /\ Smaller(Larger(0, plan.output), 800) * made \in Nat
      BY <1>1, <1>2, <2>3, Products
    <2> QED
      BY <1>4, <2>1, <2>4, ModelCostType DEF GuardianCost
  <1> QED
    BY <1>3, <1>4 DEF RequestedCost

\* The plan of a real run that is accepted fits its planning threshold.
THEOREM RunnerFitsThreshold ==
    ASSUME NEW plan \in PlanType, NEW threshold \in Nat, NEW cap \in Nat,
           NEW key \in BOOLEAN,
           RunnerBudget(plan, threshold, cap, key).status = "ESTIMATED"
    PROVE  LET n == RunnerBudget(plan, threshold, cap, key).effective
           IN  /\ n \in 1..RequestedUnits(plan)
               /\ RequestedCost(plan) * n <= threshold * RequestedUnits(plan)
  BY UnitsType, RequestedCostType, AcceptedFitsThreshold DEF RunnerBudget

\* A provider slice is accepted whole or not at all (metrics.py:1016), and
\* never above its approval threshold.
THEOREM SliceAllOrNothing ==
    ASSUME NEW plan \in PlanType, NEW approval \in Nat, NEW key \in BOOLEAN,
           SliceBudget(plan, approval, key).status = "ESTIMATED"
    PROVE  LET slice == [plan EXCEPT !.users = 1, !.injections = 1]
           IN  /\ SliceBudget(plan, approval, key).effective = RequestedUnits(slice)
               /\ RequestedCost(slice) <= approval
  BY DEF SliceBudget, Decide

-----------------------------------------------------------------------------
Operators == {"==", "!=", "in"}

\* The verdicts of a run are never part of its results.
NoVerdicts(results) ==
    /\ results \in Seq(UNION {{results[n]} : n \in DOMAIN results})
    /\ \A n \in DOMAIN results : results[n].decision = {}

\* A set of natural numbers that is not empty has a least member.
LEMMA LeastOf ==
    ASSUME NEW S \in SUBSET Nat, S # {}
    PROVE  \E x \in S : \A y \in S : x <= y
<1>1. PICK x \in S : \A y \in S : ~(<<y, x>> \in OpToRel(<, Nat))
  BY NatLessThanWellFounded, WFMin
<1>2. \A y \in S : ~(y < x)
  BY <1>1, Zenon DEF OpToRel
<1>. QED BY <1>2

LEMMA FirstOfIsIn ==
    ASSUME NEW S \in SUBSET Nat, S # {}
    PROVE  FirstOf(S) \in S
  BY LeastOf DEF FirstOf

\* RunArm records no verdict (run_ab.py:186).
LEMMA RunArmHasNoVerdicts ==
    ASSUME NEW key, NEW users, NEW injection, NEW built, NEW attack, NEW utility
    PROVE  RunArm(key, users, injection, built, attack, utility).decision = {}
  BY DEF RunArm

\* An assertion about a decision is skipped whatever was decided: no run
\* records a verdict in its results (run_ab.py:275), though the grammar of the
\* assertions lists the decision as a field (run_ab.py:244).
THEOREM DecisionAlwaysSkipped ==
    ASSUME NEW results, NoVerdicts(results),
           NEW expr, expr.op \in Operators, expr.left.field = "decision"
    PROVE  Evaluate(expr, results) = "SKIP"
  <1> DEFINE named == Named(expr.left.arm, results)
  <1>1. Skipped(expr.left, results)
    <2>1. CASE named = {}
      BY <2>1 DEF Skipped
    <2>2. CASE named # {}
      <3>1. named \in SUBSET DOMAIN results
        BY DEF Named
      <3>2. DOMAIN results \in SUBSET Nat
        BY DEF NoVerdicts
      <3>3. FirstOf(named) \in DOMAIN results
        BY <2>2, <3>1, <3>2, FirstOfIsIn
      <3>4. results[FirstOf(named)].decision = {}
        BY <3>3 DEF NoVerdicts
      <3>5. RowsOf(expr.left, results) = {}
        BY <3>4 DEF RowsOf
      <3> QED
        BY <3>5 DEF Skipped
    <2> QED
      BY <2>1, <2>2
  <1> QED
    BY <1>1, Zenon DEF Evaluate, Operators

\* A run whose assertions are all about decisions succeeds (run_ab.py:584).
THEOREM DecisionAssertsPass ==
    ASSUME NEW results, NoVerdicts(results), NEW exprs,
           \A n \in DOMAIN exprs :
               exprs[n].op \in Operators /\ exprs[n].left.field = "decision"
    PROVE  ExitStatus(exprs, results) = 0
  BY DecisionAlwaysSkipped DEF ExitStatus

-----------------------------------------------------------------------------
(***************************************************************************)
(* The folds of EvalGrid: the list of a set of rows and the tap of a table *)
(* are recursive functions on the subsets of a finite set.  That such a    *)
(* function exists is shown once for both.                                 *)
(***************************************************************************)
Chosen(kind, s) == IF kind = "list" THEN CHOOSE x \in s : TRUE ELSE Max(s)

Added(kind, table, x, acc) ==
    IF kind = "list" THEN Append(acc, x) ELSE Put(acc, table[x].key, table[x].verdict)

IsFold(g, kind, table, base, S) ==
    g = [s \in SUBSET S |->
           IF s = {} THEN base
           ELSE Added(kind, table, Chosen(kind, s), g[s \ {Chosen(kind, s)}])]

\* A set of subsets of a finite set has a smallest member.
LEMMA LeastSubset ==
    ASSUME NEW S, IsFiniteSet(S), NEW Bad, Bad \subseteq SUBSET S, Bad # {}
    PROVE  \E T \in Bad : \A U \in Bad : ~(U \subseteq T /\ U # T)
<1>1. IsWellFoundedOn(StrictSubsetOrdering(S), FiniteSubsetsOf(S))
  BY FS_StrictSubsetOrderingWellFounded
<1>2. Bad \subseteq FiniteSubsetsOf(S)
  BY FS_Subset DEF FiniteSubsetsOf
<1>3. PICK T \in Bad : \A U \in Bad : ~(<<U, T>> \in StrictSubsetOrdering(S))
  BY <1>1, <1>2, WFMin
<1>. QED BY <1>3 DEF StrictSubsetOrdering

\* Two functions of a fold agree where both are defined.
LEMMA FoldsAgree ==
    ASSUME NEW kind, NEW table, NEW base, NEW S, NEW T, IsFiniteSet(S), T \subseteq S,
           \A s \in SUBSET S : s # {} => Chosen(kind, s) \in s,
           NEW g, NEW h, IsFold(g, kind, table, base, S), IsFold(h, kind, table, base, T)
    PROVE  g[T] = h[T]
<1> DEFINE Bad == {s \in SUBSET T : g[s] # h[s]}
           p(s) == Chosen(kind, s)
<1>1. SUFFICES ASSUME Bad # {} PROVE FALSE
  BY DEF IsFold
<1>2. IsFiniteSet(T)
  BY FS_Subset
<1>3. PICK s \in Bad : \A u \in Bad : ~(u \subseteq s /\ u # s)
  <2>1. Bad \subseteq SUBSET T
    OBVIOUS
  <2> HIDE DEF Bad
  <2>. QED BY <1>1, <1>2, <2>1, LeastSubset
<1>4. s \in SUBSET T /\ s \in SUBSET S
  BY <1>3
<1>5. /\ g[s] = IF s = {} THEN base ELSE Added(kind, table, p(s), g[s \ {p(s)}])
      /\ h[s] = IF s = {} THEN base ELSE Added(kind, table, p(s), h[s \ {p(s)}])
  BY <1>4 DEF IsFold
<1>6. s # {}
  BY <1>3, <1>5
<1>7. s \ {p(s)} \notin Bad
  BY <1>3, <1>4, <1>6
<1> HIDE DEF p
<1>. QED BY <1>3, <1>4, <1>5, <1>6, <1>7

\* The function of a fold exists.
LEMMA FoldsExist ==
    ASSUME NEW kind, NEW table, NEW base, NEW S, IsFiniteSet(S),
           \A s \in SUBSET S : s # {} => Chosen(kind, s) \in s
    PROVE  \E g : IsFold(g, kind, table, base, S)
<1> DEFINE Fold(g, U) == IsFold(g, kind, table, base, U)
           Bad == {T \in SUBSET S : ~\E g : Fold(g, T)}
           p(s) == Chosen(kind, s)
           add(x, acc) == Added(kind, table, x, acc)
<1>1. SUFFICES ASSUME Bad # {} PROVE FALSE
  OBVIOUS
<1>2. PICK T \in Bad : \A U \in Bad : ~(U \subseteq T /\ U # T)
  <2>1. Bad \subseteq SUBSET S
    OBVIOUS
  <2> HIDE DEF Bad
  <2>. QED BY <1>1, <2>1, LeastSubset
<1> DEFINE G == [U \in SUBSET T |-> CHOOSE g : Fold(g, U)]
           g == [U \in SUBSET T |-> IF U = {} THEN base
                     ELSE add(p(U), G[U \ {p(U)}][U \ {p(U)}])]
<1>3. \A U \in SUBSET T : U # T => Fold(G[U], U)
  <2> HIDE DEF Fold
  <2>. QED BY <1>2
<1>4. \A U \in SUBSET T : IsFiniteSet(U) /\ U \in SUBSET S
  BY FS_Subset
<1>5. \A U \in SUBSET T : U # {} => p(U) \in U
  BY <1>4
<1>6. \A g1, h1 : \A U \in SUBSET T : \A V \in SUBSET U :
         Fold(g1, U) /\ Fold(h1, V) => g1[V] = h1[V]
  <2> SUFFICES ASSUME NEW g1, NEW h1, NEW U \in SUBSET T, NEW V \in SUBSET U,
                      Fold(g1, U), Fold(h1, V)
               PROVE  g1[V] = h1[V]
    OBVIOUS
  <2>1. \A s \in SUBSET U : s # {} => Chosen(kind, s) \in s
    BY <1>5
  <2>. QED BY <1>4, <2>1, FoldsAgree
<1>7. \A h1 : \A U \in SUBSET T : Fold(h1, U) =>
         h1[U] = IF U = {} THEN base ELSE add(p(U), h1[U \ {p(U)}])
  BY DEF IsFold
<1> HIDE DEF Fold, p, add
<1>8. ASSUME NEW U \in SUBSET T, U # T
      PROVE  g[U] = G[U][U]
  <2>1. Fold(G[U], U)
    BY <1>3, <1>8
  <2>2. G[U][U] = IF U = {} THEN base ELSE add(p(U), G[U][U \ {p(U)}])
    BY <1>7, <2>1
  <2>3. ASSUME U # {}
        PROVE  G[U][U \ {p(U)}] = G[U \ {p(U)}][U \ {p(U)}]
    <3> DEFINE V == U \ {p(U)}
    <3>1. V \in SUBSET T /\ V \in SUBSET U /\ V # T
      BY <1>5, <2>3
    <3>2. Fold(G[V], V)
      BY <1>3, <3>1
    <3> HIDE DEF V, G
    <3>3. G[U][V] = G[V][V]
      BY <1>6, <2>1, <3>1, <3>2
    <3>. QED BY <3>3 DEF V
  <2>. QED BY <2>2, <2>3
<1>9. \A U \in SUBSET T : U # {} => g[U \ {p(U)}] = G[U \ {p(U)}][U \ {p(U)}]
  <2> SUFFICES ASSUME NEW U \in SUBSET T, U # {}
               PROVE  g[U \ {p(U)}] = G[U \ {p(U)}][U \ {p(U)}]
    OBVIOUS
  <2>1. U \ {p(U)} \in SUBSET T /\ U \ {p(U)} # T
    BY <1>5
  <2> HIDE DEF g, G
  <2>. QED BY <1>8, <2>1
<1>10. Fold(g, T)
  <2> DEFINE h == [U \in SUBSET T |-> IF U = {} THEN base
                      ELSE add(p(U), g[U \ {p(U)}])]
  <2>1. \A U \in SUBSET T : g[U] = h[U]
    <3> HIDE DEF G
    <3> SUFFICES ASSUME NEW U \in SUBSET T PROVE g[U] = h[U]
      OBVIOUS
    <3>1. g[U] = IF U = {} THEN base ELSE add(p(U), G[U \ {p(U)}][U \ {p(U)}])
      OBVIOUS
    <3>2. h[U] = IF U = {} THEN base ELSE add(p(U), g[U \ {p(U)}])
      BY DEF h
    <3>. QED BY <1>9, <3>1, <3>2
  <2>2. g = [U \in SUBSET T |-> g[U]] /\ h = [U \in SUBSET T |-> h[U]]
    OBVIOUS
  <2>3. g = h
    <3> HIDE DEF g, h
    <3>. QED BY <2>1, <2>2
  <2>. QED BY <2>3 DEF Fold, IsFold, p, add
<1>. QED BY <1>2, <1>10 DEF Fold

-----------------------------------------------------------------------------
IsList(g, S) ==
    g = [s \in SUBSET S |->
           IF s = {} THEN <<>>
           ELSE Append(g[s \ {CHOOSE x \in s : TRUE}], CHOOSE x \in s : TRUE)]

LEMMA ListedIs == \A S : Listed(S) = (CHOOSE g : IsList(g, S))[S]
BY Zenon DEF Listed, FoldSet, MapThenFoldSet, IsList

LEMMA ListIsFold == \A g, S : IsList(g, S) <=> IsFold(g, "list", <<>>, <<>>, S)
<1> SUFFICES ASSUME NEW g, NEW S
             PROVE  IsList(g, S) <=> IsFold(g, "list", <<>>, <<>>, S)
  OBVIOUS
<1> DEFINE p(s) == CHOOSE x \in s : TRUE
<1>1. \A s : Chosen("list", s) = p(s)
  BY Zenon DEF Chosen
<1>2. \A x, acc : Added("list", <<>>, x, acc) = Append(acc, x)
  BY DEF Added
<1>3. IsList(g, S) <=>
         g = [s \in SUBSET S |-> IF s = {} THEN <<>> ELSE Append(g[s \ {p(s)}], p(s))]
  BY Zenon DEF IsList
<1>4. IsFold(g, "list", <<>>, <<>>, S) <=>
         g = [s \in SUBSET S |-> IF s = {} THEN <<>>
                ELSE Added("list", <<>>, Chosen("list", s), g[s \ {Chosen("list", s)}])]
  BY Zenon DEF IsFold
<1> HIDE DEF p
<1>5. [s \in SUBSET S |-> IF s = {} THEN <<>> ELSE Append(g[s \ {p(s)}], p(s))] =
      [s \in SUBSET S |-> IF s = {} THEN <<>>
         ELSE Added("list", <<>>, Chosen("list", s), g[s \ {Chosen("list", s)}])]
  BY <1>1, <1>2
<1>. QED BY <1>3, <1>4, <1>5

\* The list of a finite set: one of its members, after the list of the others.
LEMMA ListedRec ==
    ASSUME NEW S, IsFiniteSet(S), S # {}
    PROVE  \E x \in S : Listed(S) = Append(Listed(S \ {x}), x)
<1> DEFINE G(T) == CHOOSE g : IsList(g, T)
           x == CHOOSE y \in S : TRUE
<1>1. \A s : s # {} => Chosen("list", s) \in s
  BY DEF Chosen
<1>2. \A T : IsFiniteSet(T) => IsList(G(T), T)
  <2> SUFFICES ASSUME NEW T, IsFiniteSet(T) PROVE \E g : IsList(g, T)
    OBVIOUS
  <2>1. \E g : IsFold(g, "list", <<>>, <<>>, T)
    BY <1>1, FoldsExist
  <2>. QED BY <2>1, ListIsFold
<1>3. \A T : Listed(T) = G(T)[T]
  BY ListedIs
<1> HIDE DEF G
<1>4. x \in S /\ IsFiniteSet(S \ {x}) /\ S \ {x} \subseteq S
  BY FS_Subset
<1>5. G(S)[S] = Append(G(S)[S \ {x}], x)
  BY <1>2, Zenon DEF IsList
<1>6. G(S)[S \ {x}] = G(S \ {x})[S \ {x}]
  <2>1. /\ IsFold(G(S), "list", <<>>, <<>>, S)
        /\ IsFold(G(S \ {x}), "list", <<>>, <<>>, S \ {x})
    BY <1>2, <1>4, ListIsFold
  <2> HIDE DEF x
  <2>. QED BY <1>1, <1>4, <2>1, FoldsAgree
<1> HIDE DEF x
<1>. QED BY <1>3, <1>4, <1>5, <1>6

LEMMA ListedEmpty == Listed({}) = <<>>
<1> DEFINE G == CHOOSE g : IsList(g, {})
<1>1. \A s \in SUBSET {} : s # {} => Chosen("list", s) \in s
  OBVIOUS
<1>2. \E g : IsList(g, {})
  BY <1>1, FoldsExist, ListIsFold, FS_EmptySet
<1>3. IsList(G, {})
  BY <1>2
<1>4. G[{}] = <<>>
  BY <1>3 DEF IsList
<1>. QED BY <1>4, ListedIs

\* It has every member once.
Lists(list, S) ==
    /\ list \in Seq(S)
    /\ \A x \in S : \E n \in DOMAIN list : list[n] = x
    /\ \A m, n \in DOMAIN list : list[m] = list[n] => m = n

LEMMA ListedLists ==
    ASSUME NEW S, IsFiniteSet(S)
    PROVE  Lists(Listed(S), S)
<1> DEFINE Bad == {T \in SUBSET S : ~Lists(Listed(T), T)}
<1>1. SUFFICES ASSUME Bad # {} PROVE FALSE
  OBVIOUS
<1>2. PICK T \in Bad : \A U \in Bad : ~(U \subseteq T /\ U # T)
  <2>1. Bad \subseteq SUBSET S
    OBVIOUS
  <2> HIDE DEF Bad
  <2>. QED BY <1>1, <2>1, LeastSubset
<1>3. IsFiniteSet(T) /\ ~Lists(Listed(T), T)
  BY <1>2, FS_Subset
<1>4. T # {}
  <2>1. Lists(<<>>, {})
    BY DEF Lists
  <2>. QED BY <1>3, <2>1, ListedEmpty
<1>5. PICK x \in T : Listed(T) = Append(Listed(T \ {x}), x)
  BY <1>3, <1>4, ListedRec
<1> DEFINE rest == Listed(T \ {x})
<1>6. Lists(rest, T \ {x})
  BY <1>2
<1>7. rest \in Seq(T \ {x}) /\ rest \in Seq(T)
  BY <1>6 DEF Lists
<1> DEFINE list == Append(rest, x)
<1>8. /\ list \in Seq(T)
      /\ DOMAIN list = 1..(Len(rest) + 1) /\ DOMAIN rest = 1..Len(rest)
      /\ Len(rest) \in Nat
      /\ list[Len(rest) + 1] = x
      /\ \A n \in 1..Len(rest) : list[n] = rest[n] /\ rest[n] \in T \ {x}
  BY <1>7
<1>9. list = Listed(T)
  BY <1>5
<1> HIDE DEF rest, list
<1>10. \A y \in T : \E n \in DOMAIN list : list[n] = y
  BY <1>6, <1>8 DEF Lists
<1>11. \A m, n \in DOMAIN list : list[m] = list[n] => m = n
  <2> SUFFICES ASSUME NEW m \in DOMAIN list, NEW n \in DOMAIN list, list[m] = list[n]
               PROVE  m = n
    OBVIOUS
  <2>1. CASE m \in 1..Len(rest) /\ n \in 1..Len(rest)
    BY <1>6, <1>8, <2>1 DEF Lists
  <2>2. CASE m = Len(rest) + 1 \/ n = Len(rest) + 1
    BY <1>8, <2>2
  <2>. QED BY <1>8, <2>1, <2>2
<1>. QED BY <1>3, <1>8, <1>9, <1>10, <1>11 DEF Lists

-----------------------------------------------------------------------------
(***************************************************************************)
(* The grid of EvalGrid.  A cell is known by its place in the two lists,   *)
(* and a row by its key.                                                   *)
(***************************************************************************)
Looping == {"arm", "cell", "query", "drain", "rows"}
Running == {"query", "drain", "rows"}

Arms      == ToSet(Arm) \cup FullGridArms
Labels    == {"MEASURED", "SKIPPED", "MOCKED"}
Decisions == Detection \cup {"PASS", "NO_SHIELD", "BUILTIN_BASELINE", "SKIPPED"}
Deciders  == {"governance", "sync_defender_local", "sdk_fail_closed", "none", "skipped"}

Row == [arm : Arms, inj : ToSet(InjTask), user : ToSet(UserTask), label : Labels,
        decision : Decisions, source : Deciders, evidence : SUBSET Nat, oracle : BOOLEAN]
Cell  == [arm : ToSet(Arm), inj : ToSet(InjTask)]
CallKey == Cell \X ToSet(UserTask) \X Nat
Key   == {"position"} \cup CallKey
Entry == [key : Key, verdict : Verdicts]

-----------------------------------------------------------------------------
IsTap(g, sink, table) ==
    g = [s \in SUBSET DOMAIN table |->
           IF s = {} THEN sink
           ELSE Put(g[s \ {Max(s)}], table[Max(s)].key, table[Max(s)].verdict)]

LEMMA TapIs ==
    \A sink, table : Tap(sink, table) = (CHOOSE g : IsTap(g, sink, table))[DOMAIN table]
BY Zenon DEF Tap, FoldLeft, MapThenFoldSet, IsTap

LEMMA TapIsFold ==
    \A g, sink, table : IsTap(g, sink, table) <=> IsFold(g, "table", table, sink, DOMAIN table)
<1> SUFFICES ASSUME NEW g, NEW sink, NEW table
             PROVE  IsTap(g, sink, table) <=> IsFold(g, "table", table, sink, DOMAIN table)
  OBVIOUS
<1>1. \A s : Chosen("table", s) = Max(s)
  BY DEF Chosen
<1>2. \A x, acc : Added("table", table, x, acc) = Put(acc, table[x].key, table[x].verdict)
  BY DEF Added
<1>3. [s \in SUBSET DOMAIN table |->
           IF s = {} THEN sink
           ELSE Put(g[s \ {Max(s)}], table[Max(s)].key, table[Max(s)].verdict)] =
      [s \in SUBSET DOMAIN table |->
           IF s = {} THEN sink
           ELSE Added("table", table, Chosen("table", s), g[s \ {Chosen("table", s)}])]
  BY <1>1, <1>2
<1>. QED BY <1>3, Zenon DEF IsTap, IsFold

\* The greatest member of a set of natural numbers below a bound.
LEMMA MaxIn ==
    ASSUME NEW n \in Nat, NEW s \in SUBSET (1..n), s # {}
    PROVE  Max(s) \in s /\ \A y \in s : Max(s) >= y
<1> DEFINE D == {d \in Nat : n - d \in s}
<1>1. D \in SUBSET Nat
  OBVIOUS
<1>2. PICK y \in s : TRUE
  OBVIOUS
<1>3. n - y \in D
  BY <1>2
<1> HIDE DEF D
<1>4. PICK d \in D : \A e \in D : d <= e
  BY <1>1, <1>3, LeastOf
<1>5. n - d \in s /\ d \in Nat
  BY <1>4 DEF D
<1>6. \A z \in s : n - d >= z
  <2> SUFFICES ASSUME NEW z \in s PROVE n - d >= z
    OBVIOUS
  <2>1. z \in Nat /\ z <= n /\ n - z \in Nat /\ n - (n - z) = z
    OBVIOUS
  <2>2. n - z \in D
    BY <2>1 DEF D
  <2>3. d <= n - z
    BY <1>4, <2>2
  <2>. QED BY <1>5, <2>1, <2>3
<1>7. \E x \in s : \A z \in s : x >= z
  BY <1>5, <1>6
<1>. QED BY <1>7 DEF Max

\* The tap goes through the table from its start.
LEMMA TapSteps ==
    ASSUME NEW sink, NEW table \in Seq(Entry)
    PROVE  \E h : /\ h[0] = sink
                  /\ h[Len(table)] = Tap(sink, table)
                  /\ \A m \in 1..Len(table) :
                        h[m] = Put(h[m - 1], table[m].key, table[m].verdict)
<1> DEFINE n == Len(table)
           g == CHOOSE f : IsTap(f, sink, table)
           h == [m \in 0..n |-> g[1..m]]
<1>1. n \in Nat /\ DOMAIN table = 1..n
  OBVIOUS
<1>2. \A s \in SUBSET (1..n) : s # {} => Chosen("table", s) \in s
  BY <1>1, MaxIn DEF Chosen
<1>3. \E f : IsTap(f, sink, table)
  <2>1. IsFiniteSet(DOMAIN table)
    BY <1>1, FS_Interval
  <2>2. \E f : IsFold(f, "table", table, sink, DOMAIN table)
    BY <1>1, <1>2, <2>1, FoldsExist
  <2>. QED BY <2>2, TapIsFold
<1>4. IsTap(g, sink, table)
  BY <1>3
<1>5. g[DOMAIN table] = Tap(sink, table)
  BY TapIs
<1> HIDE DEF g
<1>6. h[0] = sink
  <2>1. 1..0 = {} /\ {} \in SUBSET DOMAIN table
    OBVIOUS
  <2>2. g[{}] = sink
    BY <1>4, <2>1 DEF IsTap
  <2>3. h[0] = g[1..0]
    BY <1>1
  <2>. QED BY <2>1, <2>2, <2>3
<1>7. ASSUME NEW m \in 1..n
      PROVE  h[m] = Put(h[m - 1], table[m].key, table[m].verdict)
  <2>1. Max(1..m) = m
    <3> DEFINE s == 1..m
    <3>1. m \in Nat /\ s \in SUBSET (1..m)
      BY <1>1
    <3>1a. m \in s
      BY <1>1, <3>1
    <3> HIDE DEF s
    <3>2. Max(s) \in s /\ \A y \in s : Max(s) >= y
      BY <3>1, <3>1a, MaxIn
    <3>3. Max(s) \in 1..m /\ Max(s) >= m
      BY <3>1, <3>1a, <3>2
    <3>4. Max(s) = m
      BY <3>1, <3>1a, <3>3
    <3>. QED BY <3>4 DEF s
  <2>2. (1..m) \ {m} = 1..(m - 1) /\ 1..m # {} /\ 1..m \in SUBSET DOMAIN table
    <3>1. m \in Nat /\ m >= 1 /\ m <= n
      BY <1>1
    <3>2. (1..m) \ {m} = 1..(m - 1)
      BY <3>1
    <3>3. m \in 1..m
      BY <3>1
    <3>4. 1..m \subseteq 1..n
      BY <1>1, <3>1
    <3>. QED BY <1>1, <3>2, <3>3, <3>4
  <2>3. g[1..m] = Put(g[(1..m) \ {Max(1..m)}], table[Max(1..m)].key, table[Max(1..m)].verdict)
    BY <1>4, <2>2 DEF IsTap
  <2>4. h[m] = g[1..m] /\ h[m - 1] = g[1..(m - 1)]
    BY <1>1
  <2>. QED BY <2>1, <2>2, <2>3, <2>4
<1>8. h[n] = Tap(sink, table)
  BY <1>1, <1>5
<1>. QED BY <1>6, <1>7, <1>8

OneKeyEach(table) == \A k, l \in DOMAIN table : table[k].key = table[l].key => k = l

\* What is filed is there, the rest of the table as it was.
Files(after, table, entry) ==
    /\ after \in Seq(Entry)
    /\ \E n \in DOMAIN after : after[n] = entry
    /\ \A n \in DOMAIN table :
          n \in DOMAIN after /\ (table[n].key # entry.key => after[n] = table[n])
    /\ \A n \in DOMAIN after :
          after[n] = entry \/ (n \in DOMAIN table /\ after[n] = table[n])
    /\ OneKeyEach(table) => OneKeyEach(after)

LEMMA PutIs ==
    ASSUME NEW table \in Seq(Entry), NEW key \in Key, NEW v \in Verdicts
    PROVE  Files(Put(table, key, v), table, [key |-> key, verdict |-> v])
<1> DEFINE after == Put(table, key, v)
           entry == [key |-> key, verdict |-> v]
           old == {k \in DOMAIN table : table[k].key = key}
<1>1. entry \in Entry /\ entry.key = key
  BY DEF Entry
<1>2. Len(table) \in Nat /\ DOMAIN table = 1..Len(table)
  OBVIOUS
<1>3. CASE old = {}
  <2>1. after = Append(table, entry)
    BY <1>3 DEF Put
  <2>2. \A n \in DOMAIN table : table[n].key # key
    BY <1>3
  <2> HIDE DEF entry, old, after
  <2>3. /\ after \in Seq(Entry)
        /\ DOMAIN after = 1..(Len(table) + 1)
        /\ after[Len(table) + 1] = entry
        /\ \A n \in DOMAIN table : after[n] = table[n]
    BY <1>1, <1>2, <2>1
  <2>4. OneKeyEach(table) => OneKeyEach(after)
    BY <1>1, <1>2, <2>2, <2>3 DEF OneKeyEach
  <2>5. Files(after, table, entry)
    BY <1>1, <1>2, <2>3, <2>4 DEF Files
  <2>. QED BY <2>5 DEF after, entry
<1>4. CASE old # {}
  <2> DEFINE k == CHOOSE j \in old : TRUE
  <2>1. k \in DOMAIN table /\ table[k].key = key
    BY <1>4
  <2>2. after = [table EXCEPT ![k] = entry]
    BY <1>4 DEF Put
  <2> HIDE DEF entry, old, after, k
  <2>3. /\ after \in Seq(Entry)
        /\ DOMAIN after = DOMAIN table
        /\ after[k] = entry
        /\ \A n \in DOMAIN table : n # k => after[n] = table[n]
    BY <1>1, <1>2, <2>1, <2>2
  <2>4. OneKeyEach(table) => OneKeyEach(after)
    BY <1>1, <2>1, <2>3 DEF OneKeyEach
  <2>5. Files(after, table, entry)
    BY <1>1, <2>1, <2>3, <2>4 DEF Files
  <2>. QED BY <2>5 DEF after, entry
<1>. QED BY <1>3, <1>4

\* The sink has nothing but its own entries and the table's; when keys are not
\* shared, all of the table's, and of its own those whose keys the table has not.
LEMMA TapHas ==
    ASSUME NEW sink \in Seq(Entry), NEW table \in Seq(Entry)
    PROVE  LET after == Tap(sink, table)
           IN  /\ after \in Seq(Entry)
               /\ \A l \in DOMAIN after :
                     \/ \E k \in DOMAIN table : after[l] = table[k]
                     \/ \E k \in DOMAIN sink : after[l] = sink[k]
               /\ OneKeyEach(table) =>
                     \A k \in DOMAIN table : \E l \in DOMAIN after : after[l] = table[k]
               /\ \A k \in DOMAIN sink :
                     (\A n \in DOMAIN table : table[n].key # sink[k].key) =>
                        \E l \in DOMAIN after : after[l] = sink[k]
<1>1. PICK h : /\ h[0] = sink
               /\ h[Len(table)] = Tap(sink, table)
               /\ \A m \in 1..Len(table) :
                     h[m] = Put(h[m - 1], table[m].key, table[m].verdict)
  BY TapSteps
<1> DEFINE Good(m) ==
       /\ h[m] \in Seq(Entry)
       /\ \A l \in DOMAIN h[m] :
             \/ \E k \in DOMAIN table : h[m][l] = table[k]
             \/ \E k \in DOMAIN sink : h[m][l] = sink[k]
       /\ OneKeyEach(table) =>
             \A k \in 1..m : \E l \in DOMAIN h[m] : h[m][l] = table[k]
       /\ \A k \in DOMAIN sink :
             (\A n \in DOMAIN table : table[n].key # sink[k].key) =>
                \E l \in DOMAIN h[m] : h[m][l] = sink[k]
<1> DEFINE Bad == {m \in 0..Len(table) : ~Good(m)}
<1>2. Len(table) \in Nat /\ DOMAIN table = 1..Len(table)
  OBVIOUS
<1>3. \A m \in DOMAIN table :
         /\ table[m].key \in Key /\ table[m].verdict \in Verdicts
         /\ table[m] = [key |-> table[m].key, verdict |-> table[m].verdict]
  <2> SUFFICES ASSUME NEW m \in DOMAIN table
               PROVE  /\ table[m].key \in Key /\ table[m].verdict \in Verdicts
                      /\ table[m] = [key |-> table[m].key, verdict |-> table[m].verdict]
    OBVIOUS
  <2>1. table[m] \in Entry
    BY <1>2
  <2>. QED BY <2>1 DEF Entry
<1>4. SUFFICES ASSUME Bad # {} PROVE FALSE
  <2>1. Len(table) \in 0..Len(table)
    BY <1>2
  <2> HIDE DEF Good
  <2>2. Good(Len(table))
    BY <1>4, <2>1
  <2>. QED BY <1>1, <1>2, <2>2 DEF Good
<1>5. PICK m \in Bad : \A e \in Bad : m <= e
  <2>1. Bad \in SUBSET Nat
    BY <1>2
  <2> HIDE DEF Bad
  <2>. QED BY <1>4, <2>1, LeastOf
<1>6. m \in 0..Len(table) /\ ~Good(m)
  BY <1>5
<1>7. m # 0
  <2>1. Good(0)
    <3>1. 1..0 = {}
      OBVIOUS
    <3>. QED BY <1>1, <3>1
  <2>. QED BY <1>6, <2>1
<1>8. m \in DOMAIN table /\ m - 1 \in 0..Len(table)
  BY <1>2, <1>6, <1>7
<1>9. Good(m - 1)
  <2>1. m - 1 \notin Bad
    <3> HIDE DEF Good
    <3>1. ~(m <= m - 1)
      BY <1>2, <1>6
    <3>. QED BY <1>5, <3>1
  <2> HIDE DEF Good
  <2>. QED BY <1>8, <2>1
<1> DEFINE b == h[m - 1]
           a == h[m]
<1>10. /\ a \in Seq(Entry)
       /\ \E n \in DOMAIN a : a[n] = table[m]
       /\ \A n \in DOMAIN b : n \in DOMAIN a /\ (b[n].key # table[m].key => a[n] = b[n])
       /\ \A n \in DOMAIN a : a[n] = table[m] \/ (n \in DOMAIN b /\ a[n] = b[n])
  <2>1. b \in Seq(Entry)
    BY <1>9
  <2>2. a = Put(b, table[m].key, table[m].verdict)
    BY <1>1, <1>2, <1>8
  <2>3. table[m].key \in Key /\ table[m].verdict \in Verdicts
    BY <1>3, <1>8
  <2>4. [key |-> table[m].key, verdict |-> table[m].verdict] = table[m]
    BY <1>3, <1>8
  <2> DEFINE c == table[m].key
             v == table[m].verdict
  <2>5. a = Put(b, c, v) /\ c \in Key /\ v \in Verdicts /\ [key |-> c, verdict |-> v] = table[m]
    BY <2>2, <2>3, <2>4
  <2> HIDE DEF a, b, c, v
  <2>6. Files(a, b, [key |-> c, verdict |-> v])
    BY <2>1, <2>5, PutIs
  <2>. QED BY <2>5, <2>6 DEF Files, c
<1>11. \A l \in DOMAIN a :
          \/ \E k \in DOMAIN table : a[l] = table[k]
          \/ \E k \in DOMAIN sink : a[l] = sink[k]
  <2>1. \A l \in DOMAIN b :
          \/ \E k \in DOMAIN table : b[l] = table[k]
          \/ \E k \in DOMAIN sink : b[l] = sink[k]
    BY <1>9
  <2> HIDE DEF a, b
  <2>. QED BY <1>8, <1>10, <2>1
<1>12. ASSUME OneKeyEach(table), NEW k \in 1..m
       PROVE  \E l \in DOMAIN a : a[l] = table[k]
  <2>1. CASE k = m
    BY <1>10, <2>1
  <2>2. CASE k # m
    <3>1. k \in 1..(m - 1) /\ k \in DOMAIN table
      BY <1>2, <1>8, <2>2
    <3>2. PICK l \in DOMAIN b : b[l] = table[k]
      BY <1>9, <1>12, <3>1
    <3>3. table[k].key # table[m].key
      BY <1>8, <1>12, <2>2, <3>1 DEF OneKeyEach
    <3> HIDE DEF a, b
    <3>. QED BY <1>10, <3>2, <3>3
  <2>. QED BY <2>1, <2>2
<1>13. ASSUME NEW k \in DOMAIN sink, \A n \in DOMAIN table : table[n].key # sink[k].key
       PROVE  \E l \in DOMAIN a : a[l] = sink[k]
  <2>1. PICK l \in DOMAIN b : b[l] = sink[k]
    BY <1>9, <1>13
  <2>2. b[l].key # table[m].key
    <3>1. table[m].key # sink[k].key
      BY <1>8, <1>13
    <3> HIDE DEF b
    <3>. QED BY <2>1, <3>1
  <2> HIDE DEF a, b
  <2>. QED BY <1>10, <2>1, <2>2
<1>. QED BY <1>6, <1>10, <1>11, <1>12, <1>13

-----------------------------------------------------------------------------
\* The arguments of the grid.
LEMMA GridLists ==
    /\ Arm \in Seq(STRING) /\ Arm # <<>> /\ IsInjective(Arm)
    /\ UserTask \in Seq(STRING) /\ UserTask # <<>> /\ IsInjective(UserTask)
    /\ InjTask \in Seq(STRING) /\ InjTask # <<>> /\ IsInjective(InjTask)
BY EvalGridAssumption

\* What the ids of a list are.
LEMMA IdsAre ==
    ASSUME NEW ids \in Seq(STRING), ids # <<>>
    PROVE  /\ Len(ids) \in Nat /\ DOMAIN ids = 1..Len(ids) /\ 1 \in DOMAIN ids
           /\ \A n \in DOMAIN ids : ids[n] \in ToSet(ids)
           /\ \A x \in ToSet(ids) : \E n \in DOMAIN ids : x = ids[n]
           /\ IsFiniteSet(ToSet(ids))
<1>1. Len(ids) \in Nat /\ DOMAIN ids = 1..Len(ids) /\ 1 \in DOMAIN ids
  OBVIOUS
<1>3. ToSet(ids) = {ids[n] : n \in DOMAIN ids}
  BY DEF ToSet
<1>4. ids \in Surjection(DOMAIN ids, ToSet(ids))
  BY <1>3 DEF Surjection
<1>5. IsFiniteSet(DOMAIN ids)
  BY <1>1, FS_Interval
<1>6. IsFiniteSet(ToSet(ids))
  BY <1>4, <1>5, FS_Surjection
<1>. QED BY <1>1, <1>3, <1>6

LEMMA VerdictsAre ==
    \A v \in Verdicts : /\ v.decision \in Detection \cup {"PASS"}
                        /\ v.decision \in Decisions /\ v.decision # "NO_SHIELD"
<1>1. \A v \in Verdicts : v.decision \in Detection \cup {"PASS"}
  BY EvalGridAssumption
<1>. QED BY <1>1 DEF Detection, Decisions

\* What a row says of the decisions of its cell.
Says(table, decision, source) ==
    /\ decision \in Decisions /\ source \in Deciders
    /\ table = <<>> => decision = "NO_SHIELD" /\ source = "none"
    /\ table # <<>> =>
          /\ decision # "NO_SHIELD"
          /\ \E k \in DOMAIN table : /\ table[k].verdict.decision = decision
                                     /\ Source(table[k].verdict) = source
    /\ "BLOCK" \in Decided(table) => decision = "BLOCK"

LEMMA PrimaryIs ==
    ASSUME NEW table \in Seq(Entry)
    PROVE  Says(table, PrimaryDecision(table), PrimarySource(table))
<1>1. CASE table = <<>>
  <2>1. PrimaryDecision(table) = "NO_SHIELD" /\ PrimarySource(table) = "none"
    BY <1>1, Zenon DEF PrimaryDecision, PrimarySource
  <2>2. "BLOCK" \notin Decided(table)
    BY <1>1 DEF Decided
  <2>3. "NO_SHIELD" \in Decisions /\ "none" \in Deciders
    BY DEF Decisions, Deciders
  <2>. QED BY <1>1, <2>1, <2>2, <2>3, Zenon DEF Says
<1>2. CASE table # <<>>
  <2> DEFINE decision == PrimaryDecision(table)
             deciding == {j \in DOMAIN table : table[j].verdict.decision = decision}
             of == {Source(table[k].verdict) : k \in deciding}
             n == CHOOSE n \in DOMAIN Sources :
                     /\ Sources[n] \in of
                     /\ \A m \in 1..(n - 1) : Sources[m] \notin of
  <2>1. \A k \in DOMAIN table : table[k].verdict \in Verdicts
    <3> SUFFICES ASSUME NEW k \in DOMAIN table PROVE table[k].verdict \in Verdicts
      OBVIOUS
    <3>1. table[k] \in Entry
      OBVIOUS
    <3>. QED BY <3>1 DEF Entry
  <2>2. decision = IF "BLOCK" \in Decided(table) THEN "BLOCK" ELSE table[1].verdict.decision
    BY <1>2, Zenon DEF PrimaryDecision
  <2>3. 1 \in DOMAIN table
    BY <1>2
  <2>4. \E k \in DOMAIN table : table[k].verdict.decision = decision
    BY <2>2, <2>3, Zenon DEF Decided
  <2>5. PrimarySource(table) = Sources[n]
    BY <1>2, Zenon DEF PrimarySource
  <2>6. \A v : Source(v) \in {Sources[m] : m \in 1..3}
    BY DEF Source, Sources
  <2>7. DOMAIN Sources = 1..3 /\ \A m \in 1..3 : Sources[m] \in Deciders
    BY DEF Sources, Deciders
  <2> HIDE DEF decision
  <2>8. \E m \in 1..3 : Sources[m] \in of
    BY <2>4, <2>6
  <2> HIDE DEF of
  <2>9. \E m \in 1..3 : Sources[m] \in of /\ \A l \in 1..(m - 1) : Sources[l] \notin of
    <3> DEFINE D == {m \in 1..3 : Sources[m] \in of}
    <3>1. D \in SUBSET Nat /\ D # {}
      BY <2>8
    <3>2. PICK m \in D : \A l \in D : m <= l
      <4> HIDE DEF D
      <4>. QED BY <3>1, LeastOf
    <3>3. \A l \in 1..(m - 1) : l \in 1..3 /\ ~(m <= l)
      BY <3>2
    <3>. QED BY <3>2, <3>3
  <2>10. n \in 1..3 /\ Sources[n] \in of
    <3> HIDE DEF n
    <3>1. \E m \in DOMAIN Sources : /\ Sources[m] \in of
                                    /\ \A l \in 1..(m - 1) : Sources[l] \notin of
      BY <2>7, <2>9
    <3>2. n \in DOMAIN Sources /\ Sources[n] \in of
      BY <3>1, Zenon DEF n
    <3>. QED BY <2>7, <3>2
  <2> HIDE DEF n
  <2>11. PICK k \in DOMAIN table : /\ table[k].verdict.decision = decision
                                   /\ Sources[n] = Source(table[k].verdict)
    BY <2>10 DEF of
  <2>12. table[k].verdict.decision \in Decisions /\ table[k].verdict.decision # "NO_SHIELD"
    BY <2>1, VerdictsAre
  <2>13. "BLOCK" \in Decided(table) => decision = "BLOCK"
    BY <2>2
  <2>14. Says(table, decision, Sources[n])
    BY <1>2, <2>7, <2>10, <2>11, <2>12, <2>13 DEF Says
  <2>. QED BY <2>5, <2>14 DEF decision
<1>. QED BY <1>1, <1>2

-----------------------------------------------------------------------------
RowKey(row) == <<row.arm, row.inj, row.user>>

\* The rows have the keys of K, each once.
KeysAre(rows, K) ==
    /\ \A n \in DOMAIN rows : RowKey(rows[n]) \in K
    /\ \A m, n \in DOMAIN rows : RowKey(rows[m]) = RowKey(rows[n]) => m = n
    /\ \A key \in K : \E n \in DOMAIN rows : RowKey(rows[n]) = key

\* Rows without evidence, of the arms, one for each task.
PlainRows(rows, arms, l) ==
    /\ rows \in Seq(Row)
    /\ KeysAre(rows, KeysOf(arms))
    /\ \A n \in DOMAIN rows : rows[n].label = l /\ rows[n].evidence = {}

LEMMA KeysFinite ==
    ASSUME NEW arms, IsFiniteSet(arms)
    PROVE  IsFiniteSet(KeysOf(arms))
<1>1. IsFiniteSet(ToSet(InjTask)) /\ IsFiniteSet(ToSet(UserTask))
  BY GridLists, IdsAre
<1> DEFINE I == ToSet(InjTask)
           U == ToSet(UserTask)
           P == (arms \X I) \X U
           f == [p \in P |-> <<p[1][1], p[1][2], p[2]>>]
<1>2. IsFiniteSet(P)
  <2> HIDE DEF I, U
  <2>1. IsFiniteSet(I) /\ IsFiniteSet(U)
    BY <1>1 DEF I, U
  <2>2. IsFiniteSet(arms \X I)
    BY <2>1, FS_Product
  <2> DEFINE Q == arms \X I
  <2> HIDE DEF Q
  <2>3. IsFiniteSet(Q \X U)
    BY <2>1, <2>2, FS_Product DEF Q
  <2>. QED BY <2>3 DEF Q
<1>3. f \in Surjection(P, arms \X I \X U)
  <2> HIDE DEF I, U
  <2>1. \A p \in P : f[p] \in arms \X I \X U
    OBVIOUS
  <2>2. ASSUME NEW a \in arms, NEW i \in I, NEW u \in U
        PROVE  \E p \in P : f[p] = <<a, i, u>>
    <3> DEFINE p == <<<<a, i>>, u>>
    <3>1. p \in P /\ p[1][1] = a /\ p[1][2] = i /\ p[2] = u
      OBVIOUS
    <3> HIDE DEF p, P
    <3>2. f[p] = <<a, i, u>>
      BY <3>1
    <3>. QED BY <3>1, <3>2
  <2> HIDE DEF P
  <2>3. DOMAIN f = P
    OBVIOUS
  <2>4. f \in [P -> arms \X I \X U]
    BY <2>1
  <2> HIDE DEF f
  <2>5. \A t \in arms \X I \X U : \E p \in P : f[p] = t
    BY <2>2
  <2>. QED BY <2>4, <2>5 DEF Surjection
<1> HIDE DEF f, P
<1>4. IsFiniteSet(arms \X I \X U)
  BY <1>2, <1>3, FS_Surjection
<1>. QED BY <1>4 DEF KeysOf

\* The list of a row for each key.
LEMMA ListOfRows ==
    ASSUME NEW K, IsFiniteSet(K), NEW f, \A k \in K : RowKey(f[k]) = k,
           NEW S, \A r : r \in S <=> \E k \in K : r = f[k]
    PROVE  /\ KeysAre(Listed(S), K)
           /\ Listed(S) \in Seq(S)
<1> DEFINE list == Listed(S)
           g == [k \in K |-> f[k]]
<1>1. IsFiniteSet(S)
  <2>1. g \in Surjection(K, S)
    BY DEF Surjection
  <2> HIDE DEF g
  <2>. QED BY <2>1, FS_Surjection
<1>2. \A r \in S : \E k \in K : r = f[k] /\ RowKey(r) = k
  OBVIOUS
<1>3. \A k \in K : f[k] \in S
  OBVIOUS
<1>4. Lists(list, S)
  BY <1>1, ListedLists
<1> HIDE DEF list
<1>5. list \in Seq(S) /\ \A n \in DOMAIN list : list[n] \in S
  BY <1>4 DEF Lists
<1>6. KeysAre(list, K)
  <2>1. \A n \in DOMAIN list : RowKey(list[n]) \in K
    BY <1>2, <1>5
  <2>2. ASSUME NEW m \in DOMAIN list, NEW n \in DOMAIN list,
               RowKey(list[m]) = RowKey(list[n])
        PROVE  m = n
    <3>1. list[m] = f[RowKey(list[m])] /\ list[n] = f[RowKey(list[n])]
      BY <1>2, <1>5
    <3>2. list[m] = list[n]
      BY <2>2, <3>1
    <3>. QED BY <1>4, <3>2 DEF Lists
  <2>3. ASSUME NEW k \in K PROVE \E n \in DOMAIN list : RowKey(list[n]) = k
    <3>1. PICK n \in DOMAIN list : list[n] = f[k]
      BY <1>3, <1>4 DEF Lists
    <3>. QED BY <3>1
  <2>. QED BY <2>1, <2>2, <2>3 DEF KeysAre
<1>. QED BY <1>5, <1>6 DEF list

\* A list of such rows, given by a function.
LEMMA PlainRowsOf ==
    ASSUME NEW arms, IsFiniteSet(arms), NEW l,
           NEW f, \A k \in KeysOf(arms) : /\ f[k] \in Row /\ RowKey(f[k]) = k
                                         /\ f[k].label = l /\ f[k].evidence = {},
           NEW S, \A r : r \in S <=> \E k \in KeysOf(arms) : r = f[k]
    PROVE  PlainRows(Listed(S), arms, l)
<1> DEFINE K == KeysOf(arms)
           list == Listed(S)
<1>1. IsFiniteSet(K)
  BY KeysFinite
<1>2. \A k \in K : RowKey(f[k]) = k
  OBVIOUS
<1>3. \A r : r \in S <=> \E k \in K : r = f[k]
  OBVIOUS
<1>4. S \subseteq Row /\ \A r \in S : r.label = l /\ r.evidence = {}
  OBVIOUS
<1> HIDE DEF K
<1>5. KeysAre(list, K) /\ list \in Seq(S)
  BY <1>1, <1>2, <1>3, ListOfRows
<1> HIDE DEF list
<1>6. list \in Seq(Row) /\ \A n \in DOMAIN list : list[n] \in S
  BY <1>4, <1>5
<1>7. PlainRows(list, arms, l)
  BY <1>4, <1>5, <1>6 DEF PlainRows, K
<1>. QED BY <1>7 DEF list

LEMMA SkippedRowsAre ==
    ASSUME NEW arms, IsFiniteSet(arms), arms \subseteq Arms
    PROVE  PlainRows(SkippedRows(arms), arms, "SKIPPED")
<1> DEFINE K == KeysOf(arms)
           f == [k \in K |-> SkippedRow(k[1], k[2], k[3])]
<1>1. ASSUME NEW a \in arms, NEW i \in ToSet(InjTask), NEW u \in ToSet(UserTask)
      PROVE  LET row == SkippedRow(a, i, u)
             IN  /\ row \in Row /\ RowKey(row) = <<a, i, u>>
                 /\ row.label = "SKIPPED" /\ row.evidence = {}
  BY <1>1 DEF SkippedRow, Row, RowKey, Labels, Decisions, Deciders
<1>2. \A k \in K : /\ k[1] \in arms /\ k[2] \in ToSet(InjTask) /\ k[3] \in ToSet(UserTask)
                   /\ k = <<k[1], k[2], k[3]>>
  BY DEF KeysOf
<1>3. \A k \in K : /\ f[k] \in Row /\ RowKey(f[k]) = k
                   /\ f[k].label = "SKIPPED" /\ f[k].evidence = {}
  <2> SUFFICES ASSUME NEW k \in K
               PROVE  /\ f[k] \in Row /\ RowKey(f[k]) = k
                      /\ f[k].label = "SKIPPED" /\ f[k].evidence = {}
    OBVIOUS
  <2>1. f[k] = SkippedRow(k[1], k[2], k[3])
    OBVIOUS
  <2> HIDE DEF f, K
  <2>. QED BY <1>1, <1>2, <2>1
<1> DEFINE S == {SkippedRow(k[1], k[2], k[3]) : k \in KeysOf(arms)}
<1>4. \A r : r \in S <=> \E k \in K : r = f[k]
  OBVIOUS
<1>5. SkippedRows(arms) = Listed(S)
  BY Zenon DEF SkippedRows
<1> HIDE DEF f, S
<1>6. PlainRows(Listed(S), arms, "SKIPPED")
  BY <1>3, <1>4, PlainRowsOf
<1>. QED BY <1>5, <1>6

LEMMA RequestedArms == IsFiniteSet(Requested) /\ Requested \subseteq Arms
<1>1. IsFiniteSet(FullGridArms)
  <2>1. IsFiniteSet({"A0"})
    BY FS_Singleton
  <2>2. IsFiniteSet({"A0", "A0b"})
    <3>1. {"A0", "A0b"} = {"A0"} \cup {"A0b"}
      OBVIOUS
    <3>. QED BY <2>1, <3>1, FS_AddElement
  <2>3. IsFiniteSet({"A0", "A0b", "A1"})
    <3>1. {"A0", "A0b", "A1"} = {"A0", "A0b"} \cup {"A1"}
      OBVIOUS
    <3>. QED BY <2>2, <3>1, FS_AddElement
  <2>4. IsFiniteSet({"A0", "A0b", "A1", "A2"})
    <3>1. {"A0", "A0b", "A1", "A2"} = {"A0", "A0b", "A1"} \cup {"A2"}
      OBVIOUS
    <3>. QED BY <2>3, <3>1, FS_AddElement
  <2>5. {"A0", "A0b", "A1", "A2", "A3"} = {"A0", "A0b", "A1", "A2"} \cup {"A3"}
    OBVIOUS
  <2>. QED BY <2>4, <2>5, FS_AddElement DEF FullGridArms
<1>2. Requested \subseteq FullGridArms
  BY DEF Requested
<1>. QED BY <1>1, <1>2, FS_Subset DEF Arms

LEMMA TemplateRowsAre ==
    PlainRows(Listed({TemplateRow(k[1], k[2], k[3]) : k \in KeysOf(Requested)}),
              Requested, "MOCKED")
<1> DEFINE K == KeysOf(Requested)
           f == [k \in K |-> TemplateRow(k[1], k[2], k[3])]
           S == {TemplateRow(k[1], k[2], k[3]) : k \in KeysOf(Requested)}
<1>1. ASSUME NEW a \in Requested, NEW i \in ToSet(InjTask), NEW u \in ToSet(UserTask)
      PROVE  LET row == TemplateRow(a, i, u)
             IN  /\ row \in Row /\ RowKey(row) = <<a, i, u>>
                 /\ row.label = "MOCKED" /\ row.evidence = {}
  <2> DEFINE d == CASE a = "A0" -> "NO_SHIELD" [] a = "A0b" -> "BUILTIN_BASELINE"
                    [] a = "A1" -> "PASS" [] OTHER -> "BLOCK"
  <2>1. d \in Decisions
    BY DEF Decisions, Detection
  <2>2. a \in Arms
    BY RequestedArms
  <2> HIDE DEF d
  <2>3. TemplateRow(a, i, u) =
          [arm |-> a, inj |-> i, user |-> u, label |-> "MOCKED", decision |-> d,
           source |-> "none", evidence |-> {}, oracle |-> FALSE]
    BY Zenon DEF TemplateRow, d
  <2>. QED BY <2>1, <2>2, <2>3 DEF Row, RowKey, Labels, Deciders
<1>2. \A k \in K : /\ k[1] \in Requested /\ k[2] \in ToSet(InjTask) /\ k[3] \in ToSet(UserTask)
                   /\ k = <<k[1], k[2], k[3]>>
  BY DEF KeysOf
<1>3. \A k \in K : /\ f[k] \in Row /\ RowKey(f[k]) = k
                   /\ f[k].label = "MOCKED" /\ f[k].evidence = {}
  <2> SUFFICES ASSUME NEW k \in K
               PROVE  /\ f[k] \in Row /\ RowKey(f[k]) = k
                      /\ f[k].label = "MOCKED" /\ f[k].evidence = {}
    OBVIOUS
  <2>1. f[k] = TemplateRow(k[1], k[2], k[3])
    OBVIOUS
  <2> HIDE DEF f, K
  <2>. QED BY <1>1, <1>2, <2>1
<1>4. \A r : r \in S <=> \E k \in K : r = f[k]
  OBVIOUS
<1> HIDE DEF f, S
<1>5. PlainRows(Listed(S), Requested, "MOCKED")
  BY <1>3, <1>4, RequestedArms, PlainRowsOf
<1>. QED BY <1>5 DEF S

-----------------------------------------------------------------------------
GridType ==
    /\ pc \in {"start", "server", "done", "raised"} \cup Looping
    /\ arm \in DOMAIN Arm /\ inj \in DOMAIN InjTask /\ user \in DOMAIN UserTask
    /\ calls \in Nat
    /\ label \in {"MEASURED", "SKIPPED"}
    /\ shield \in Seq(Entry)
    /\ tapped \in Seq(Entry)
    /\ evidence \subseteq Nat /\ sidecars \subseteq Nat /\ seen \subseteq Nat
    /\ cursor \in Nat
    /\ cases \in Seq(Row)
    /\ returned \subseteq [cell : Cell, verdict : Verdicts]

LEMMA Positions ==
    ASSUME GridType
    PROVE  /\ arm \in Nat /\ inj \in Nat /\ user \in Nat /\ calls \in Nat
           /\ arm \in 1..Len(Arm) /\ DOMAIN Arm = 1..Len(Arm) /\ Len(Arm) \in Nat
           /\ inj \in 1..Len(InjTask) /\ DOMAIN InjTask = 1..Len(InjTask)
           /\ Len(InjTask) \in Nat
           /\ user \in 1..Len(UserTask) /\ DOMAIN UserTask = 1..Len(UserTask)
           /\ Len(UserTask) \in Nat
<1>1. DOMAIN Arm = 1..Len(Arm) /\ Len(Arm) \in Nat
  BY GridLists, IdsAre
<1>2. DOMAIN InjTask = 1..Len(InjTask) /\ Len(InjTask) \in Nat
  BY GridLists, IdsAre
<1>3. DOMAIN UserTask = 1..Len(UserTask) /\ Len(UserTask) \in Nat
  BY GridLists, IdsAre
<1>4. arm \in DOMAIN Arm /\ inj \in DOMAIN InjTask /\ user \in DOMAIN UserTask
      /\ calls \in Nat
  BY DEF GridType
<1>. QED BY <1>1, <1>2, <1>3, <1>4

\* The rows of a cell, with its evidence or as skipped ones, one for each user.
CellRows(rows, available) ==
    /\ rows \in Seq(Row)
    /\ Len(rows) = Len(UserTask)
    /\ \A n \in DOMAIN rows : rows[n] = CaseRow(available, UserTask[n])
    /\ \A n \in DOMAIN rows : CellOf(rows[n]) = Here /\ rows[n].user = UserTask[n]
    /\ KeysAre(rows, {Arm[arm]} \X {InjTask[inj]} \X ToSet(UserTask))

LEMMA CellRowsAre ==
    ASSUME GridType, NEW available \in BOOLEAN
    PROVE  CellRows([n \in DOMAIN UserTask |-> CaseRow(available, UserTask[n])], available)
<1> DEFINE rows == [n \in DOMAIN UserTask |-> CaseRow(available, UserTask[n])]
           a == Arm[arm]
           i == InjTask[inj]
<1>1. /\ Len(UserTask) \in Nat /\ DOMAIN UserTask = 1..Len(UserTask)
      /\ \A n \in DOMAIN UserTask : UserTask[n] \in ToSet(UserTask)
      /\ \A u \in ToSet(UserTask) : \E n \in DOMAIN UserTask : u = UserTask[n]
  BY GridLists, IdsAre
<1>2. a \in Arms /\ i \in ToSet(InjTask)
  BY GridLists, IdsAre DEF GridType, Arms
<1>3. ASSUME NEW u \in ToSet(UserTask)
      PROVE  LET row == CaseRow(available, u)
             IN  row \in Row /\ row.arm = a /\ row.inj = i /\ row.user = u
  <2>1. CASE available
    <3>1. Says(tapped, PrimaryDecision(tapped), PrimarySource(tapped))
      BY PrimaryIs DEF GridType
    <3> DEFINE d == PrimaryDecision(tapped)
               s == PrimarySource(tapped)
               e == IF s = "governance" THEN evidence ELSE {}
               o == u \in scored
    <3>2. d \in Decisions /\ s \in Deciders
      BY <3>1 DEF Says
    <3>3. e \in SUBSET Nat /\ o \in BOOLEAN /\ label \in Labels
      BY DEF GridType, Labels
    <3> HIDE DEF d, s, e, o
    <3>4. CaseRow(available, u) =
            [arm |-> a, inj |-> i, user |-> u, label |-> label, decision |-> d,
             source |-> s, evidence |-> e, oracle |-> o]
      BY <2>1, Zenon DEF CaseRow, MeasuredRow, d, s, e, o
    <3> HIDE DEF a, i
    <3>. QED BY <1>2, <3>2, <3>3, <3>4 DEF Row
  <2>2. CASE ~available
    <3>1. CaseRow(available, u) = SkippedRow(a, i, u)
      BY <2>2 DEF CaseRow
    <3> HIDE DEF a, i
    <3>. QED BY <1>2, <3>1 DEF SkippedRow, Row, Labels, Decisions, Deciders
  <2>. QED BY <2>1, <2>2
<1>4. DOMAIN rows = 1..Len(UserTask)
  BY <1>1
<1>5. \A n \in 1..Len(UserTask) : rows[n] = CaseRow(available, UserTask[n])
  BY <1>1
<1> HIDE DEF a, i
<1>6. \A n \in 1..Len(UserTask) : /\ rows[n] \in Row
                                  /\ rows[n].arm = a /\ rows[n].inj = i
                                  /\ rows[n].user = UserTask[n]
  BY <1>1, <1>3, <1>5
<1>7. rows = [n \in 1..Len(UserTask) |-> rows[n]]
  BY <1>4
<1> HIDE DEF rows
<1>8. rows \in Seq(Row) /\ Len(rows) = Len(UserTask)
  <2>1. rows \in [1..Len(UserTask) -> Row]
    BY <1>6, <1>7
  <2>. QED BY <1>1, <2>1
<1>9. \A n \in DOMAIN rows : RowKey(rows[n]) = <<a, i, UserTask[n]>>
  BY <1>4, <1>6 DEF RowKey
<1>10. KeysAre(rows, {a} \X {i} \X ToSet(UserTask))
  <2>1. \A n \in DOMAIN rows : RowKey(rows[n]) \in {a} \X {i} \X ToSet(UserTask)
    BY <1>1, <1>4, <1>9
  <2>2. ASSUME NEW m \in DOMAIN rows, NEW n \in DOMAIN rows,
               RowKey(rows[m]) = RowKey(rows[n])
        PROVE  m = n
    <3>1. UserTask[m] = UserTask[n]
      BY <1>9, <2>2
    <3>. QED BY <1>1, <1>4, <3>1, GridLists DEF IsInjective
  <2>3. ASSUME NEW key \in {a} \X {i} \X ToSet(UserTask)
        PROVE  \E n \in DOMAIN rows : RowKey(rows[n]) = key
    <3>1. key = <<a, i, key[3]>> /\ key[3] \in ToSet(UserTask)
      OBVIOUS
    <3>2. PICK n \in DOMAIN rows : key[3] = UserTask[n]
      BY <1>1, <1>4, <3>1
    <3>. QED BY <1>9, <3>1, <3>2
  <2>. QED BY <2>1, <2>2, <2>3 DEF KeysAre
<1>11. \A n \in DOMAIN rows : CellOf(rows[n]) = Here /\ rows[n].user = UserTask[n]
  BY <1>4, <1>6 DEF CellOf, Here, a, i
<1>12. CellRows(rows, available)
  BY <1>4, <1>5, <1>8, <1>10, <1>11 DEF CellRows, a, i
<1>. QED BY <1>12 DEF rows

-----------------------------------------------------------------------------
\* Where the run stands: nothing has happened before the loops, the mock
\* backend has none, and the report comes last.
Stands ==
    /\ pc \in {"start", "server"} =>
          /\ cases = <<>> /\ shield = <<>> /\ returned = {}
          /\ arm = 1 /\ inj = 1
    /\ pc \in Looping => label = "MEASURED"
    /\ pc # "done" => report = NoReport
    /\ pc = "arm" => inj = 1
    /\ pc \notin {"start", "done"} => backend # "mock"

NextCell ==
    /\ inj < Len(InjTask)
    /\ pc' = "cell" /\ arm' = arm /\ inj' = inj + 1 /\ report' = report

NextArm ==
    /\ arm < Len(Arm)
    /\ pc' = "arm" /\ arm' = arm + 1 /\ inj' = 1 /\ report' = report

Finish ==
    /\ arm = Len(Arm)
    /\ pc' = "done" /\ arm' = arm /\ inj' = inj
    /\ report' = Report(ToSet(Arm), cases', label)

LEMMA AfterIs ==
    ASSUME GridType
    PROVE  /\ AfterArm => NextArm \/ Finish
           /\ AfterCell => NextCell \/ (inj = Len(InjTask) /\ (NextArm \/ Finish))
<1>1. /\ Len(Arm) \in Nat /\ DOMAIN Arm = 1..Len(Arm)
      /\ Len(InjTask) \in Nat /\ DOMAIN InjTask = 1..Len(InjTask)
  BY GridLists, IdsAre
<1>2. AfterArm => NextArm \/ Finish
  BY <1>1 DEF AfterArm, NextArm, Finish, GridType
<1>3. AfterCell => NextCell \/ (inj = Len(InjTask) /\ AfterArm)
  BY <1>1 DEF AfterCell, NextCell, GridType
<1>. QED BY <1>2, <1>3

\* What comes after leaves the types and the standing of the run.
LEMMA AfterType ==
    ASSUME GridType, Stands, pc \in Looping, NextCell \/ NextArm \/ Finish,
           UNCHANGED <<backend, label>>
    PROVE  /\ pc' \in {"cell", "arm", "done"}
           /\ arm' \in DOMAIN Arm /\ inj' \in DOMAIN InjTask
           /\ Stands'
<1>1. /\ Len(Arm) \in Nat /\ DOMAIN Arm = 1..Len(Arm) /\ 1 \in DOMAIN Arm
      /\ Len(InjTask) \in Nat /\ DOMAIN InjTask = 1..Len(InjTask) /\ 1 \in DOMAIN InjTask
  BY GridLists, IdsAre
<1>2. arm' \in DOMAIN Arm /\ inj' \in DOMAIN InjTask
  BY <1>1 DEF GridType, NextCell, NextArm, Finish
<1>3. pc' \in {"cell", "arm", "done"}
  BY DEF NextCell, NextArm, Finish
<1>4. pc \notin {"start", "server", "done"}
  BY DEF Looping
<1>5. Stands'
  BY <1>3, <1>4 DEF Stands, Looping, NextCell, NextArm, Finish
<1>. QED BY <1>2, <1>3, <1>5

\* The key and the cell of a call.
LEMMA HereIs ==
    ASSUME GridType
    PROVE  /\ Here \in Cell
           /\ <<Here, UserTask[user], calls>> \in Key
           /\ <<Here, UserTask[user], calls>> \in CallKey
           /\ "position" \in Key
<1>1. Arm[arm] \in ToSet(Arm) /\ InjTask[inj] \in ToSet(InjTask)
      /\ UserTask[user] \in ToSet(UserTask)
  BY GridLists, IdsAre DEF GridType
<1>2. Here \in Cell
  BY <1>1 DEF Here, Cell
<1>. QED BY <1>1, <1>2 DEF Key, CallKey, GridType

LEMMA InitGrid == Init => GridType /\ Stands
<1> SUFFICES ASSUME Init PROVE GridType /\ Stands
  OBVIOUS
<1>1. 1 \in DOMAIN Arm /\ 1 \in DOMAIN InjTask /\ 1 \in DOMAIN UserTask
  BY GridLists, IdsAre
<1>2. GridType
  BY <1>1 DEF GridType, Init, Looping
<1>3. Stands
  BY DEF Stands, Init, Looping
<1>. QED BY <1>2, <1>3

LEMMA NextGrid == GridType /\ Stands /\ [Next]_vars => GridType' /\ Stands'
<1> SUFFICES ASSUME GridType, Stands, [Next]_vars PROVE GridType' /\ Stands'
  OBVIOUS
<1>0. /\ 1 \in DOMAIN Arm /\ 1 \in DOMAIN InjTask /\ 1 \in DOMAIN UserTask
      /\ Len(UserTask) \in Nat /\ DOMAIN UserTask = 1..Len(UserTask)
      /\ IsFiniteSet(ToSet(Arm)) /\ ToSet(Arm) \subseteq Arms
      /\ \A n \in DOMAIN Arm : Arm[n] \in ToSet(Arm)
  BY GridLists, IdsAre DEF Arms
<1>1. CASE Estimate
  BY <1>1 DEF GridType, Stands, Looping, Estimate, loopVars, cellVars, serverVars
<1>2. CASE MockGrid
  <2>1. cases' \in Seq(Row)
    BY <1>2, TemplateRowsAre, Zenon DEF MockGrid, PlainRows
  <2>2. GridType'
    BY <1>2, <2>1 DEF GridType, MockGrid, runVars, loopVars, cellVars, serverVars
  <2>3. Stands'
    BY <1>2 DEF Stands, Looping, MockGrid
  <2>. QED BY <2>2, <2>3
<1>3. CASE StartServer
  <2>1. cases' \in Seq(Row)
    <3>1. PlainRows(SkippedRows(ToSet(Arm)), ToSet(Arm), "SKIPPED")
      BY <1>0, SkippedRowsAre
    <3>2. SkippedRows(ToSet(Arm)) \in Seq(Row)
      BY <3>1 DEF PlainRows
    <3>. QED BY <1>3, <3>2 DEF StartServer, GridType
  <2>2. /\ pc = "server" /\ pc' \in {"arm", "done"} /\ label' \in {"MEASURED", "SKIPPED"}
        /\ pc' = "arm" => label' = "MEASURED" /\ cases' = cases /\ report' = report
        /\ UNCHANGED <<backend, budget, loopVars, shield, cellVars, serverVars, returned>>
    BY <1>3 DEF StartServer
  <2>3. GridType'
    BY <2>1, <2>2 DEF GridType, Looping, loopVars, cellVars, serverVars
  <2>4. Stands'
    BY <2>2 DEF Stands, Looping, loopVars
  <2>. QED BY <2>3, <2>4
<1>4. CASE ResolveArm
  <2>1. /\ pc = "arm"
        /\ UNCHANGED <<runVars, user, calls, shield, cellVars, serverVars, returned>>
    BY <1>4 DEF ResolveArm
  <2>2. CASE Resolve(Arm[arm]) # <<>>
    <3>1. pc' = "cell" /\ UNCHANGED <<arm, inj, cases, report>>
      BY <1>4, <2>2 DEF ResolveArm
    <3>. QED BY <2>1, <3>1 DEF GridType, Stands, Looping, runVars, cellVars, serverVars
  <2>3. CASE ~(Resolve(Arm[arm]) # <<>>)
    <3>1. cases' = cases \o SkippedRows({Arm[arm]}) /\ AfterArm
      BY <1>4, <2>3 DEF ResolveArm
    <3>2. SkippedRows({Arm[arm]}) \in Seq(Row)
      <4>1. IsFiniteSet({Arm[arm]}) /\ {Arm[arm]} \subseteq Arms
        BY <1>0, FS_Singleton DEF GridType
      <4>2. PlainRows(SkippedRows({Arm[arm]}), {Arm[arm]}, "SKIPPED")
        BY <4>1, SkippedRowsAre
      <4>. QED BY <4>2 DEF PlainRows
    <3>3. cases' \in Seq(Row)
      <4> DEFINE rows == SkippedRows({Arm[arm]})
      <4>1. cases' = cases \o rows /\ rows \in Seq(Row) /\ cases \in Seq(Row)
        BY <3>1, <3>2 DEF GridType
      <4> HIDE DEF rows
      <4>. QED BY <4>1
    <3>4. NextArm \/ Finish
      BY <3>1, AfterIs
    <3>5. pc \in Looping /\ UNCHANGED <<backend, label>>
      BY <2>1 DEF Looping, runVars
    <3>6. /\ pc' \in {"cell", "arm", "done"}
          /\ arm' \in DOMAIN Arm /\ inj' \in DOMAIN InjTask
          /\ Stands'
      BY <3>4, <3>5, AfterType
    <3>. QED BY <2>1, <3>3, <3>6 DEF GridType, Looping, runVars, cellVars, serverVars
  <2>. QED BY <2>2, <2>3
<1>5. CASE StartCell
  <2>1. pc = "cell" /\ UNCHANGED <<runVars, shield, serverVars, returned>>
    BY <1>5 DEF StartCell
  <2>2. CASE /\ pc' = "query"
             /\ user' = 1 /\ calls' = 0
             /\ tapped' = <<>> /\ evidence' = {} /\ scored' = {}
             /\ UNCHANGED <<arm, inj, cases, report>>
    BY <1>0, <2>1, <2>2 DEF GridType, Stands, Looping, runVars, serverVars
  <2>3. CASE /\ cases' = cases \o [n \in DOMAIN UserTask |-> CaseRow(FALSE, UserTask[n])]
             /\ AfterCell
             /\ UNCHANGED <<user, calls, cellVars>>
    <3> DEFINE rows == [n \in DOMAIN UserTask |-> CaseRow(FALSE, UserTask[n])]
    <3>1. rows \in Seq(Row)
      BY CellRowsAre DEF CellRows
    <3>2. cases' = cases \o rows
      BY <2>3
    <3> HIDE DEF rows
    <3>3. cases' \in Seq(Row)
      BY <3>1, <3>2 DEF GridType
    <3>4. NextCell \/ NextArm \/ Finish
      BY <2>3, AfterIs
    <3>5. pc \in Looping /\ UNCHANGED <<backend, label>>
      BY <2>1 DEF Looping, runVars
    <3>6. /\ pc' \in {"cell", "arm", "done"}
          /\ arm' \in DOMAIN Arm /\ inj' \in DOMAIN InjTask
          /\ Stands'
      BY <3>4, <3>5, AfterType
    <3>. QED BY <2>1, <2>3, <3>3, <3>6 DEF GridType, Looping, runVars, cellVars, serverVars
  <2>. QED BY <1>5, <2>2, <2>3 DEF StartCell
<1>6. ASSUME NEW v \in Verdicts, ToolCall(v)
      PROVE  GridType' /\ Stands'
  <2> DEFINE key == IF backend = "http" THEN "position"
                    ELSE <<Here, UserTask[user], calls>>
  <2>1. /\ pc = "query" /\ calls' = calls + 1 /\ shield' = Put(shield, key, v)
        /\ returned' = returned \cup {[cell |-> Here, verdict |-> v]}
        /\ UNCHANGED <<report, pc, runVars, arm, inj, user, cellVars, cursor, sidecars,
                       seen, errors, cases>>
    BY <1>6, Zenon DEF ToolCall
  <2>2. shield' \in Seq(Entry)
    <3>1. key \in Key
      BY HereIs
    <3> HIDE DEF key
    <3>2. Files(Put(shield, key, v), shield, [key |-> key, verdict |-> v])
      BY <3>1, PutIs DEF GridType
    <3>. QED BY <2>1, <3>2 DEF Files
  <2>3. returned' \subseteq [cell : Cell, verdict : Verdicts]
    BY <2>1, HereIs DEF GridType
  <2> HIDE DEF key
  <2>4. GridType'
    BY <2>1, <2>2, <2>3 DEF GridType, runVars, cellVars
  <2>5. Stands'
    BY <2>1 DEF Stands, Looping, runVars
  <2>. QED BY <2>4, <2>5
<1>7. CASE EndQuery
  <2>1. /\ pc = "query" /\ pc' \in {"query", "drain", "rows"}
        /\ user' \in {user, user + 1} /\ (user' # user => user < Len(UserTask))
        /\ calls' \in {calls, 0}
        /\ shield' \in {shield, <<>>}
        /\ UNCHANGED <<report, runVars, arm, inj, evidence, serverVars, cases, returned>>
    BY <1>7 DEF EndQuery
  <2>2. tapped' \in {tapped, Tap(tapped, shield)}
    BY <1>7 DEF EndQuery
  <2>3. Tap(tapped, shield) \in Seq(Entry)
    BY TapHas DEF GridType
  <2>4. GridType'
    <3>1. user' \in DOMAIN UserTask
      BY <1>0, <2>1 DEF GridType
    <3>2. shield' \in Seq(Entry)
      <4>1. shield \in Seq(Entry) /\ <<>> \in Seq(Entry)
        BY DEF GridType
      <4>. QED BY <2>1, <4>1
    <3>3. tapped' \in Seq(Entry)
      BY <2>2, <2>3 DEF GridType
    <3>4. user' \in DOMAIN UserTask /\ calls' \in Nat
      BY <2>1, <3>1 DEF GridType
    <3>. QED BY <2>1, <3>2, <3>3, <3>4 DEF GridType, Looping, runVars, serverVars
  <2>5. Stands'
    BY <2>1 DEF Stands, Looping, runVars
  <2>. QED BY <2>4, <2>5
<1>8. CASE Raise
  BY <1>8 DEF GridType, Stands, Looping, Raise, runVars, loopVars, cellVars, serverVars
<1>9. CASE DrainOne
  <2>0. /\ cursor' = cursor + 1 /\ sidecars' \in {sidecars, sidecars \cup {cursor + 1}}
        /\ UNCHANGED <<pc, runVars, loopVars, shield, cellVars, seen, cases, returned>>
    BY <1>9 DEF DrainOne
  <2>1. GridType'
    BY <2>0 DEF GridType, runVars, loopVars, cellVars
  <2>2. Stands'
    BY <1>9 DEF Stands, Looping, DrainOne, runVars, loopVars, cellVars
  <2>. QED BY <2>1, <2>2
<1>10. CASE DrainEnd
  BY <1>10 DEF GridType, Stands, Looping, DrainEnd, NewSidecars, runVars, loopVars
<1>11. CASE EndCell
  <2> DEFINE rows == [n \in DOMAIN UserTask |-> CaseRow(TRUE, UserTask[n])]
  <2>1. /\ pc = "rows" /\ cases' = cases \o rows /\ AfterCell
        /\ UNCHANGED <<runVars, user, calls, shield, cellVars, serverVars, returned>>
    BY <1>11, Zenon DEF EndCell
  <2>2. rows \in Seq(Row)
    BY CellRowsAre DEF CellRows
  <2> HIDE DEF rows
  <2>3. cases' \in Seq(Row)
    BY <2>1, <2>2 DEF GridType
  <2>4. NextCell \/ NextArm \/ Finish
    BY <2>1, AfterIs
  <2>5. pc \in Looping /\ UNCHANGED <<backend, label>>
    BY <2>1 DEF Looping, runVars
  <2>6. /\ pc' \in {"cell", "arm", "done"}
        /\ arm' \in DOMAIN Arm /\ inj' \in DOMAIN InjTask
        /\ Stands'
    BY <2>4, <2>5, AfterType
  <2>. QED BY <2>1, <2>3, <2>6 DEF GridType, Looping, runVars, cellVars, serverVars
<1>12. CASE UNCHANGED vars
  <2>1. GridType'
    BY <1>12 DEF GridType, vars
  <2>2. Stands'
    BY <1>12 DEF Stands, vars
  <2>. QED BY <2>1, <2>2
<1>. QED BY <1>1, <1>2, <1>3, <1>4, <1>5, <1>6, <1>7, <1>8, <1>9, <1>10, <1>11, <1>12 DEF Next

-----------------------------------------------------------------------------
\* The evidence of a cell that runs is no other's, and all evidence was seen.
EvidenceApart ==
    /\ evidence \subseteq seen
    /\ \A n \in DOMAIN cases :
          /\ cases[n].evidence \subseteq seen
          /\ pc \in Running => cases[n].evidence \cap evidence = {}

CreditInv == GridType /\ Stands /\ EvidenceApart /\ EvidenceOnce

\* Rows that credit no evidence or, all to one cell that runs, its own.
Credits(rows) ==
    \A n \in DOMAIN rows :
       rows[n].evidence # {} =>
          /\ rows[n].evidence \subseteq evidence
          /\ rows[n].source = "governance"
          /\ CellOf(rows[n]) = Here
          /\ pc \in Running

LEMMA CreditStep ==
    ASSUME CreditInv, NEW rows \in Seq(Row), Credits(rows), cases' = cases \o rows,
           pc' \in {"cell", "arm", "done"}, UNCHANGED <<seen, evidence>>
    PROVE  EvidenceApart' /\ EvidenceOnce'
<1>1. cases \in Seq(Row)
  BY DEF CreditInv, GridType
<1>2. \A n \in DOMAIN cases' :
         \/ n \in DOMAIN cases /\ cases'[n] = cases[n]
         \/ n - Len(cases) \in DOMAIN rows /\ cases'[n] = rows[n - Len(cases)]
  BY <1>1
<1>3. pc' \notin Running
  BY DEF Running
<1>4. EvidenceApart'
  <2>1. ASSUME NEW n \in DOMAIN cases' PROVE cases'[n].evidence \subseteq seen
    BY <1>2 DEF CreditInv, EvidenceApart, Credits
  <2>. QED BY <1>3, <2>1 DEF CreditInv, EvidenceApart
<1>5. EvidenceOnce'
  <2>1. ASSUME NEW n \in DOMAIN cases', cases'[n].evidence # {}
        PROVE  cases'[n].source = "governance"
    BY <1>2, <2>1 DEF CreditInv, EvidenceOnce, Credits
  <2>2. ASSUME NEW m \in DOMAIN cases', NEW n \in DOMAIN cases',
               cases'[m].evidence \cap cases'[n].evidence # {}
        PROVE  CellOf(cases'[m]) = CellOf(cases'[n])
    <3> DEFINE old(k) == k \in DOMAIN cases /\ cases'[k] = cases[k]
               new(k) == k - Len(cases) \in DOMAIN rows /\ cases'[k] = rows[k - Len(cases)]
    <3>1. CASE old(m) /\ old(n)
      BY <2>2, <3>1 DEF CreditInv, EvidenceOnce
    <3>2. CASE new(m) /\ new(n)
      BY <2>2, <3>2 DEF Credits
    <3>3. ASSUME NEW k \in DOMAIN cases', NEW l \in DOMAIN cases', old(k), new(l)
          PROVE  cases'[k].evidence \cap cases'[l].evidence = {}
      BY <3>3 DEF CreditInv, EvidenceApart, Credits
    <3>. QED BY <1>2, <2>2, <3>1, <3>2, <3>3
  <2>. QED BY <2>1, <2>2 DEF EvidenceOnce
<1>. QED BY <1>4, <1>5

LEMMA InitCredit == Init => CreditInv
<1>1. Init => EvidenceApart /\ EvidenceOnce
  BY DEF Init, EvidenceApart, EvidenceOnce
<1>. QED BY <1>1, InitGrid DEF CreditInv

LEMMA NextCredit == CreditInv /\ [Next]_vars => CreditInv'
<1> SUFFICES ASSUME CreditInv, [Next]_vars PROVE EvidenceApart' /\ EvidenceOnce'
  BY NextGrid DEF CreditInv
<1>0. GridType /\ Stands
  BY DEF CreditInv
\* Nothing is credited.
<1>a. ASSUME UNCHANGED <<cases, seen, evidence>>, pc \in Running \/ pc' \notin Running
      PROVE  EvidenceApart' /\ EvidenceOnce'
  <2>1. EvidenceOnce'
    BY <1>a DEF CreditInv, EvidenceOnce, CellOf
  <2>2. EvidenceApart'
    BY <1>a DEF CreditInv, EvidenceApart
  <2>. QED BY <2>1, <2>2
\* Rows without evidence.
<1>b. ASSUME NEW arms, NEW l, NEW rows, PlainRows(rows, arms, l)
      PROVE  rows \in Seq(Row) /\ Credits(rows)
  BY <1>b DEF PlainRows, Credits
<1>1. CASE Estimate
  <2>1. UNCHANGED <<cases, seen, evidence>> /\ pc' \notin Running
    BY <1>1 DEF Estimate, Running, serverVars, cellVars
  <2>. QED BY <1>a, <2>1
<1>2. CASE MockGrid
  <2> DEFINE rows == Listed({TemplateRow(k[1], k[2], k[3]) : k \in KeysOf(Requested)})
  <2>1. rows \in Seq(Row) /\ Credits(rows)
    <3>1. PlainRows(rows, Requested, "MOCKED")
      BY TemplateRowsAre
    <3> HIDE DEF rows
    <3>. QED BY <1>b, <3>1
  <2>2. cases = <<>> /\ cases' = rows
    BY <1>0, <1>2 DEF Stands, MockGrid
  <2>3. pc' = "done" /\ UNCHANGED <<seen, evidence>>
    BY <1>2 DEF MockGrid, serverVars, cellVars
  <2> HIDE DEF rows
  <2>4. cases' = cases \o rows
    BY <2>1, <2>2
  <2>. QED BY <2>1, <2>3, <2>4, CreditStep
<1>3. CASE StartServer
  <2> DEFINE rows == SkippedRows(ToSet(Arm))
  <2>1. rows \in Seq(Row) /\ Credits(rows)
    <3>1. PlainRows(rows, ToSet(Arm), "SKIPPED")
      BY GridLists, IdsAre, SkippedRowsAre DEF Arms
    <3> HIDE DEF rows
    <3>. QED BY <1>b, <3>1
  <2>2. /\ pc = "server" /\ pc' \in {"arm", "done"} /\ UNCHANGED <<seen, evidence>>
        /\ cases' \in {cases, rows}
    BY <1>3 DEF StartServer, serverVars, cellVars
  <2> HIDE DEF rows
  <2>3. CASE cases' = cases
    BY <1>a, <2>2, <2>3 DEF Running
  <2>4. CASE cases' = rows
    <3>1. cases' = cases \o rows
      BY <1>0, <2>1, <2>2, <2>4 DEF Stands
    <3>. QED BY <2>1, <2>2, <3>1, CreditStep
  <2>. QED BY <2>2, <2>3, <2>4
<1>4. CASE ResolveArm
  <2>1. UNCHANGED <<seen, evidence>>
    BY <1>4 DEF ResolveArm, serverVars, cellVars
  <2>2. CASE Resolve(Arm[arm]) # <<>>
    <3>1. pc' = "cell" /\ UNCHANGED <<cases, seen, evidence>>
      BY <1>4, <2>1, <2>2 DEF ResolveArm
    <3>. QED BY <1>a, <3>1 DEF Running
  <2>3. CASE ~(Resolve(Arm[arm]) # <<>>)
    <3> DEFINE rows == SkippedRows({Arm[arm]})
    <3>1. cases' = cases \o rows /\ AfterArm
      BY <1>4, <2>3 DEF ResolveArm
    <3>2. rows \in Seq(Row) /\ Credits(rows)
      <4>0. Arm[arm] \in ToSet(Arm)
        BY <1>0, GridLists, IdsAre DEF GridType
      <4>1. IsFiniteSet({Arm[arm]}) /\ {Arm[arm]} \subseteq Arms
        BY <4>0, FS_Singleton DEF Arms
      <4>2. PlainRows(rows, {Arm[arm]}, "SKIPPED")
        BY <4>1, SkippedRowsAre
      <4> HIDE DEF rows
      <4>. QED BY <1>b, <4>2
    <3>3. pc' \in {"cell", "arm", "done"}
      BY <1>0, <3>1, AfterIs DEF NextArm, Finish
    <3> HIDE DEF rows
    <3>. QED BY <2>1, <3>1, <3>2, <3>3, CreditStep
  <2>. QED BY <2>2, <2>3
<1>5. CASE StartCell
  <2>1. UNCHANGED <<seen>>
    BY <1>5 DEF StartCell, serverVars
  <2>2. CASE evidence' = {} /\ UNCHANGED cases
    <3>1. EvidenceOnce'
      BY <2>2 DEF CreditInv, EvidenceOnce, CellOf
    <3>2. EvidenceApart'
      BY <2>1, <2>2 DEF CreditInv, EvidenceApart
    <3>. QED BY <3>1, <3>2
  <2>3. CASE /\ cases' = cases \o [n \in DOMAIN UserTask |-> CaseRow(FALSE, UserTask[n])]
             /\ AfterCell
             /\ UNCHANGED <<user, calls, cellVars>>
    <3> DEFINE rows == [n \in DOMAIN UserTask |-> CaseRow(FALSE, UserTask[n])]
    <3>1. cases' = cases \o rows /\ UNCHANGED evidence
      BY <2>3 DEF cellVars
    <3>2. CellRows(rows, FALSE)
      BY <1>0, CellRowsAre
    <3> HIDE DEF rows
    <3>3. rows \in Seq(Row) /\ Credits(rows)
      BY <3>2 DEF CellRows, Credits, CaseRow, SkippedRow
    <3>4. pc' \in {"cell", "arm", "done"}
      BY <1>0, <2>3, AfterIs DEF NextCell, NextArm, Finish
    <3>. QED BY <2>1, <3>1, <3>3, <3>4, CreditStep
  <2>. QED BY <1>5, <2>2, <2>3 DEF StartCell
<1>6. CASE \E v \in Verdicts : ToolCall(v)
  <2>1. UNCHANGED <<cases, seen, evidence, pc>>
    BY <1>6 DEF ToolCall, cellVars
  <2>. QED BY <1>a, <2>1
<1>7. CASE EndQuery
  <2>1. UNCHANGED <<cases, seen, evidence>> /\ pc \in Running
    BY <1>7 DEF EndQuery, serverVars, Running
  <2>. QED BY <1>a, <2>1
<1>8. CASE Raise
  <2>1. UNCHANGED <<cases, seen, evidence>> /\ pc' \notin Running
    BY <1>8 DEF Raise, serverVars, cellVars, Running
  <2>. QED BY <1>a, <2>1
<1>9. CASE DrainOne
  <2>1. UNCHANGED <<cases, seen, evidence, pc>>
    BY <1>9 DEF DrainOne, cellVars
  <2>. QED BY <1>a, <2>1
<1>10. CASE DrainEnd
  <2>1. /\ evidence' = evidence \cup (sidecars \ seen) /\ seen' = seen \cup sidecars
        /\ pc \in Running /\ cases' = cases
    BY <1>10 DEF DrainEnd, NewSidecars, Running
  <2>2. EvidenceOnce'
    BY <2>1 DEF CreditInv, EvidenceOnce, CellOf
  <2>3. EvidenceApart'
    BY <2>1 DEF CreditInv, EvidenceApart
  <2>. QED BY <2>2, <2>3
<1>11. CASE EndCell
  <2> DEFINE rows == [n \in DOMAIN UserTask |-> CaseRow(TRUE, UserTask[n])]
  <2>1. /\ pc = "rows" /\ cases' = cases \o rows /\ AfterCell
        /\ UNCHANGED <<seen, evidence>>
    BY <1>11, Zenon DEF EndCell, serverVars, cellVars
  <2>2. CellRows(rows, TRUE)
    BY <1>0, CellRowsAre
  <2> HIDE DEF rows
  <2>3. rows \in Seq(Row)
    BY <2>2 DEF CellRows
  <2>4. \A n \in DOMAIN rows :
           rows[n].evidence = IF rows[n].source = "governance" THEN evidence ELSE {}
    <3>1. \A u : MeasuredRow(u).evidence =
                    IF MeasuredRow(u).source = "governance" THEN evidence ELSE {}
      BY DEF MeasuredRow
    <3>2. \A n \in DOMAIN rows : rows[n] = MeasuredRow(UserTask[n])
      BY <2>2 DEF CellRows, CaseRow
    <3>. QED BY <3>1, <3>2
  <2>5. Credits(rows)
    BY <2>1, <2>2, <2>4 DEF CellRows, Credits, Running
  <2>6. pc' \in {"cell", "arm", "done"}
    BY <1>0, <2>1, AfterIs DEF NextCell, NextArm, Finish
  <2>. QED BY <2>1, <2>3, <2>5, <2>6, CreditStep
<1>12. CASE UNCHANGED vars
  <2>1. UNCHANGED <<cases, seen, evidence, pc>>
    BY <1>12 DEF vars
  <2>. QED BY <1>a, <2>1
<1>. QED BY <1>1, <1>2, <1>3, <1>4, <1>5, <1>6, <1>7, <1>8, <1>9, <1>10, <1>11, <1>12 DEF Next

\* What the guardians made of a record is credited to the rows of one cell, and
\* to none that reports no decision of theirs (run_ab.py, _new_sidecar_rows and
\* the drain): for every grid and every number of calls.
THEOREM EvidenceCreditedOnce == Spec => []EvidenceOnce
<1>1. CreditInv => EvidenceOnce
  BY DEF CreditInv
<1>. QED BY InitCredit, NextCredit, <1>1, PTL DEF Spec

-----------------------------------------------------------------------------
(***************************************************************************)
(* Which rows there are: those of the cells that come earlier in the loops *)
(* than the current one, each once.                                        *)
(***************************************************************************)
Earlier(k, j, k0, j0) == k < k0 \/ (k = k0 /\ j < j0)

Covered(k0, j0) ==
    {key \in KeysOf(ToSet(Arm)) :
        \E k \in DOMAIN Arm, j \in DOMAIN InjTask :
           key[1] = Arm[k] /\ key[2] = InjTask[j] /\ Earlier(k, j, k0, j0)}

RowsCover ==
    /\ pc \in Looping => KeysAre(cases, Covered(arm, inj))
    /\ pc = "done" /\ budget # "SKIPPED" =>
          KeysAre(cases, KeysOf(IF backend = "mock" THEN Requested ELSE ToSet(Arm)))

CoverInv == GridType /\ Stands /\ RowsCover

CellKeys == {Arm[arm]} \X {InjTask[inj]} \X ToSet(UserTask)

LEMMA KeysJoin ==
    ASSUME NEW a \in Seq(Row), NEW b \in Seq(Row), NEW K, NEW L,
           KeysAre(a, K), KeysAre(b, L), K \cap L = {}
    PROVE  KeysAre(a \o b, K \cup L)
<1> DEFINE c == a \o b
<1>1. /\ Len(a) \in Nat /\ Len(b) \in Nat
      /\ DOMAIN a = 1..Len(a) /\ DOMAIN b = 1..Len(b)
      /\ DOMAIN c = 1..(Len(a) + Len(b))
      /\ \A n \in 1..Len(a) : c[n] = a[n]
      /\ \A n \in 1..Len(b) : c[Len(a) + n] = b[n]
  OBVIOUS
<1>2. \A n \in DOMAIN c : \/ n \in DOMAIN a /\ c[n] = a[n]
                          \/ n - Len(a) \in DOMAIN b /\ c[n] = b[n - Len(a)]
  <2> SUFFICES ASSUME NEW n \in DOMAIN c
               PROVE  \/ n \in DOMAIN a /\ c[n] = a[n]
                      \/ n - Len(a) \in DOMAIN b /\ c[n] = b[n - Len(a)]
    OBVIOUS
  <2> HIDE DEF c
  <2>1. CASE n \in 1..Len(a)
    BY <1>1, <2>1
  <2>2. CASE n \notin 1..Len(a)
    <3>1. n - Len(a) \in 1..Len(b) /\ Len(a) + (n - Len(a)) = n
      BY <1>1, <2>2
    <3>. QED BY <1>1, <3>1
  <2>. QED BY <2>1, <2>2
<1>3. \A n \in DOMAIN a : n \in DOMAIN c /\ c[n] = a[n]
  BY <1>1
<1> HIDE DEF c
<1>4. \A n \in DOMAIN b : Len(a) + n \in DOMAIN c /\ c[Len(a) + n] = b[n]
  BY <1>1
<1>5. \A n \in DOMAIN c : RowKey(c[n]) \in K \cup L
  BY <1>2 DEF KeysAre
<1>6. ASSUME NEW m \in DOMAIN c, NEW n \in DOMAIN c, RowKey(c[m]) = RowKey(c[n])
      PROVE  m = n
  <2> DEFINE old(k) == k \in DOMAIN a /\ c[k] = a[k]
             new(k) == k - Len(a) \in DOMAIN b /\ c[k] = b[k - Len(a)]
  <2>1. CASE old(m) /\ old(n)
    BY <1>6, <2>1 DEF KeysAre
  <2>2. CASE new(m) /\ new(n)
    <3>1. m - Len(a) = n - Len(a)
      BY <1>6, <2>2 DEF KeysAre
    <3>. QED BY <1>1, <3>1
  <2>3. \A k, l \in DOMAIN c : old(k) /\ new(l) => RowKey(c[k]) # RowKey(c[l])
    BY DEF KeysAre
  <2>. QED BY <1>2, <1>6, <2>1, <2>2, <2>3
<1>7. \A key \in K \cup L : \E n \in DOMAIN c : RowKey(c[n]) = key
  <2>1. \A key \in K : \E n \in DOMAIN c : RowKey(c[n]) = key
    BY <1>3 DEF KeysAre
  <2>2. \A key \in L : \E n \in DOMAIN c : RowKey(c[n]) = key
    BY <1>4 DEF KeysAre
  <2>. QED BY <2>1, <2>2
<1>. QED BY <1>5, <1>6, <1>7 DEF KeysAre, c

\* Every key of the grid has one place in it.
LEMMA PlaceOfKey ==
    ASSUME NEW key
    PROVE  /\ key \in KeysOf(ToSet(Arm)) =>
                 \E k \in DOMAIN Arm, j \in DOMAIN InjTask :
                    key[1] = Arm[k] /\ key[2] = InjTask[j]
           /\ \A k \in DOMAIN Arm, j \in DOMAIN InjTask :
                 key[1] = Arm[k] /\ key[2] = InjTask[j] =>
                    \A k0, j0 : key \in Covered(k0, j0) <=>
                                   key \in KeysOf(ToSet(Arm)) /\ Earlier(k, j, k0, j0)
<1>1. key \in KeysOf(ToSet(Arm)) => key[1] \in ToSet(Arm) /\ key[2] \in ToSet(InjTask)
  BY DEF KeysOf
<1>2. (\A x \in ToSet(Arm) : \E k \in DOMAIN Arm : x = Arm[k])
      /\ (\A x \in ToSet(InjTask) : \E j \in DOMAIN InjTask : x = InjTask[j])
  BY GridLists, IdsAre
<1>3. key \in KeysOf(ToSet(Arm)) =>
         \E k \in DOMAIN Arm, j \in DOMAIN InjTask : key[1] = Arm[k] /\ key[2] = InjTask[j]
  BY <1>1, <1>2
<1>4. ASSUME NEW k \in DOMAIN Arm, NEW j \in DOMAIN InjTask,
             key[1] = Arm[k], key[2] = InjTask[j], NEW k0, NEW j0
      PROVE  key \in Covered(k0, j0) <=> key \in KeysOf(ToSet(Arm)) /\ Earlier(k, j, k0, j0)
  <2>1. \A l \in DOMAIN Arm : key[1] = Arm[l] => l = k
    BY <1>4, GridLists DEF IsInjective
  <2>2. \A l \in DOMAIN InjTask : key[2] = InjTask[l] => l = j
    BY <1>4, GridLists DEF IsInjective
  <2>. QED BY <1>4, <2>1, <2>2 DEF Covered
<1>. QED BY <1>3, <1>4

\* The cells before the first.
LEMMA CoveredNone == Covered(1, 1) = {}
<1>1. \A k \in DOMAIN Arm, j \in DOMAIN InjTask : ~Earlier(k, j, 1, 1)
  BY GridLists, IdsAre DEF Earlier
<1>. QED BY <1>1 DEF Covered

\* The cells before the next one are those before this one and this one.
LEMMA CoveredCell ==
    ASSUME GridType
    PROVE  /\ Covered(arm, inj) \cap CellKeys = {}
           /\ Covered(arm, inj + 1) = Covered(arm, inj) \cup CellKeys
           /\ inj = Len(InjTask) => Covered(arm + 1, 1) = Covered(arm, inj) \cup CellKeys
           /\ inj = Len(InjTask) /\ arm = Len(Arm) =>
                 KeysOf(ToSet(Arm)) = Covered(arm, inj) \cup CellKeys
<1>1. /\ Len(Arm) \in Nat /\ DOMAIN Arm = 1..Len(Arm)
      /\ Len(InjTask) \in Nat /\ DOMAIN InjTask = 1..Len(InjTask)
      /\ arm \in DOMAIN Arm /\ inj \in DOMAIN InjTask
      /\ Arm[arm] \in ToSet(Arm) /\ InjTask[inj] \in ToSet(InjTask)
  BY GridLists, IdsAre DEF GridType
<1>2. CellKeys \subseteq KeysOf(ToSet(Arm))
  BY <1>1 DEF CellKeys, KeysOf
<1>3. \A k0, j0 : Covered(k0, j0) \subseteq KeysOf(ToSet(Arm))
  BY DEF Covered
\* The place of a key is that of the cell, or another.
<1>4. ASSUME NEW key \in KeysOf(ToSet(Arm)), NEW k \in DOMAIN Arm, NEW j \in DOMAIN InjTask,
             key[1] = Arm[k], key[2] = InjTask[j]
      PROVE  key \in CellKeys <=> k = arm /\ j = inj
  <2>1. key = <<key[1], key[2], key[3]>> /\ key[3] \in ToSet(UserTask)
    BY DEF KeysOf
  <2>2. key \in CellKeys <=> key[1] = Arm[arm] /\ key[2] = InjTask[inj]
    BY <2>1 DEF CellKeys
  <2>3. (Arm[k] = Arm[arm] <=> k = arm) /\ (InjTask[j] = InjTask[inj] <=> j = inj)
    BY <1>1, GridLists DEF IsInjective
  <2>. QED BY <1>4, <2>2, <2>3
<1>5. ASSUME NEW key \in KeysOf(ToSet(Arm))
      PROVE  /\ ~(key \in Covered(arm, inj) /\ key \in CellKeys)
             /\ key \in Covered(arm, inj + 1) <=> key \in Covered(arm, inj) \/ key \in CellKeys
             /\ inj = Len(InjTask) =>
                   (key \in Covered(arm + 1, 1) <=>
                       key \in Covered(arm, inj) \/ key \in CellKeys)
             /\ inj = Len(InjTask) /\ arm = Len(Arm) =>
                   key \in Covered(arm, inj) \/ key \in CellKeys
  <2>1. PICK k \in DOMAIN Arm, j \in DOMAIN InjTask : key[1] = Arm[k] /\ key[2] = InjTask[j]
    BY PlaceOfKey
  <2>2. \A k0, j0 : key \in Covered(k0, j0) <=> Earlier(k, j, k0, j0)
    BY <2>1, PlaceOfKey
  <2>3. key \in CellKeys <=> k = arm /\ j = inj
    BY <1>4, <2>1
  <2>4. /\ Earlier(k, j, arm, inj + 1) <=> Earlier(k, j, arm, inj) \/ (k = arm /\ j = inj)
        /\ ~(Earlier(k, j, arm, inj) /\ k = arm /\ j = inj)
        /\ inj = Len(InjTask) =>
              (Earlier(k, j, arm + 1, 1) <=> Earlier(k, j, arm, inj) \/ (k = arm /\ j = inj))
        /\ inj = Len(InjTask) /\ arm = Len(Arm) =>
              Earlier(k, j, arm, inj) \/ (k = arm /\ j = inj)
    BY <1>1 DEF Earlier
  <2>. QED BY <2>2, <2>3, <2>4
<1>. QED BY <1>2, <1>3, <1>5

\* The same of an arm that is passed over as a whole.
LEMMA CoveredArm ==
    ASSUME GridType
    PROVE  /\ Covered(arm, 1) \cap KeysOf({Arm[arm]}) = {}
           /\ Covered(arm + 1, 1) = Covered(arm, 1) \cup KeysOf({Arm[arm]})
           /\ arm = Len(Arm) =>
                 KeysOf(ToSet(Arm)) = Covered(arm, 1) \cup KeysOf({Arm[arm]})
<1>1. /\ Len(Arm) \in Nat /\ DOMAIN Arm = 1..Len(Arm)
      /\ Len(InjTask) \in Nat /\ DOMAIN InjTask = 1..Len(InjTask)
      /\ arm \in DOMAIN Arm /\ Arm[arm] \in ToSet(Arm)
  BY GridLists, IdsAre DEF GridType
<1>2. KeysOf({Arm[arm]}) \subseteq KeysOf(ToSet(Arm))
  BY <1>1 DEF KeysOf
<1>3. \A k0, j0 : Covered(k0, j0) \subseteq KeysOf(ToSet(Arm))
  BY DEF Covered
<1>4. ASSUME NEW key \in KeysOf(ToSet(Arm)), NEW k \in DOMAIN Arm, key[1] = Arm[k]
      PROVE  key \in KeysOf({Arm[arm]}) <=> k = arm
  <2>1. /\ key = <<key[1], key[2], key[3]>>
        /\ key[2] \in ToSet(InjTask) /\ key[3] \in ToSet(UserTask)
    BY DEF KeysOf
  <2>2. key \in KeysOf({Arm[arm]}) <=> key[1] = Arm[arm]
    BY <2>1 DEF KeysOf
  <2>3. Arm[k] = Arm[arm] <=> k = arm
    BY <1>1, GridLists DEF IsInjective
  <2>. QED BY <1>4, <2>2, <2>3
<1>5. ASSUME NEW key \in KeysOf(ToSet(Arm))
      PROVE  /\ ~(key \in Covered(arm, 1) /\ key \in KeysOf({Arm[arm]}))
             /\ key \in Covered(arm + 1, 1) <=>
                   key \in Covered(arm, 1) \/ key \in KeysOf({Arm[arm]})
             /\ arm = Len(Arm) => key \in Covered(arm, 1) \/ key \in KeysOf({Arm[arm]})
  <2>1. PICK k \in DOMAIN Arm, j \in DOMAIN InjTask : key[1] = Arm[k] /\ key[2] = InjTask[j]
    BY PlaceOfKey
  <2>2. \A k0, j0 : key \in Covered(k0, j0) <=> Earlier(k, j, k0, j0)
    BY <2>1, PlaceOfKey
  <2>3. key \in KeysOf({Arm[arm]}) <=> k = arm
    BY <1>4, <2>1
  <2>4. /\ Earlier(k, j, arm + 1, 1) <=> Earlier(k, j, arm, 1) \/ k = arm
        /\ ~(Earlier(k, j, arm, 1) /\ k = arm)
        /\ arm = Len(Arm) => Earlier(k, j, arm, 1) \/ k = arm
    BY <1>1 DEF Earlier
  <2>. QED BY <2>2, <2>3, <2>4
<1>. QED BY <1>2, <1>3, <1>5

LEMMA InitCover == Init => CoverInv
<1>1. Init => RowsCover
  BY DEF Init, RowsCover, Looping
<1>. QED BY <1>1, InitGrid DEF CoverInv

\* The rows of a cell that is over, in what comes next.
LEMMA CellCovers ==
    ASSUME CoverInv, pc \in Looping, NEW available \in BOOLEAN,
           cases' = cases \o [n \in DOMAIN UserTask |-> CaseRow(available, UserTask[n])],
           AfterCell, UNCHANGED backend
    PROVE  RowsCover'
<1> DEFINE rows == [n \in DOMAIN UserTask |-> CaseRow(available, UserTask[n])]
<1>1. GridType /\ KeysAre(cases, Covered(arm, inj)) /\ cases \in Seq(Row)
  BY DEF CoverInv, RowsCover, GridType
<1>2. rows \in Seq(Row) /\ KeysAre(rows, CellKeys)
  BY <1>1, CellRowsAre DEF CellRows, CellKeys
<1>3. cases' = cases \o rows
  OBVIOUS
<1> HIDE DEF rows
<1>4. KeysAre(cases', Covered(arm, inj) \cup CellKeys)
  <2>1. Covered(arm, inj) \cap CellKeys = {}
    BY <1>1, CoveredCell
  <2>2. KeysAre(cases \o rows, Covered(arm, inj) \cup CellKeys)
    BY <1>1, <1>2, <2>1, KeysJoin
  <2>. QED BY <1>3, <2>2
<1>5. backend # "mock"
  BY DEF CoverInv, Stands, Looping
<1>6. CASE NextCell
  <2>1. pc' = "cell" /\ arm' = arm /\ inj' = inj + 1
    BY <1>6 DEF NextCell
  <2>2. KeysAre(cases', Covered(arm, inj + 1))
    BY <1>1, <1>4, CoveredCell
  <2>. QED BY <2>1, <2>2 DEF RowsCover
<1>7. CASE inj = Len(InjTask) /\ NextArm
  <2>1. pc' = "arm" /\ arm' = arm + 1 /\ inj' = 1
    BY <1>7 DEF NextArm
  <2>2. KeysAre(cases', Covered(arm + 1, 1))
    BY <1>1, <1>4, <1>7, CoveredCell
  <2>. QED BY <2>1, <2>2 DEF RowsCover
<1>8. CASE inj = Len(InjTask) /\ Finish
  <2>1. pc' = "done" /\ arm = Len(Arm)
    BY <1>8 DEF Finish
  <2>2. KeysAre(cases', KeysOf(ToSet(Arm)))
    BY <1>1, <1>4, <1>8, <2>1, CoveredCell
  <2>. QED BY <1>5, <2>1, <2>2 DEF RowsCover, Looping
<1>. QED BY <1>1, <1>6, <1>7, <1>8, AfterIs

LEMMA NextCover == CoverInv /\ [Next]_vars => CoverInv'
<1> SUFFICES ASSUME CoverInv, [Next]_vars PROVE RowsCover'
  BY NextGrid DEF CoverInv
<1>0. GridType /\ Stands /\ RowsCover
  BY DEF CoverInv
\* The run goes on in its cell, or is given up.
<1>a. ASSUME pc \in Looping, pc' \in Looping \cup {"raised"}, UNCHANGED <<cases, arm, inj>>
      PROVE  RowsCover'
  <2>1. KeysAre(cases, Covered(arm, inj))
    BY <1>0, <1>a DEF RowsCover
  <2>2. pc' # "done"
    BY <1>a DEF Looping
  <2>3. KeysAre(cases', Covered(arm', inj'))
    BY <1>a, <2>1
  <2>. QED BY <2>2, <2>3 DEF RowsCover
<1>1. CASE Estimate
  <2>1. pc' \notin Looping /\ (pc' = "done" => budget' = "SKIPPED")
    BY <1>1 DEF Estimate, Looping
  <2>. QED BY <2>1 DEF RowsCover
<1>2. CASE MockGrid
  <2>1. KeysAre(cases', KeysOf(Requested))
    BY <1>2, TemplateRowsAre, Zenon DEF MockGrid, PlainRows
  <2>2. pc' = "done" /\ backend' = "mock"
    BY <1>2 DEF MockGrid, runVars
  <2>. QED BY <2>1, <2>2 DEF RowsCover, Looping
<1>3. CASE StartServer
  <2>1. /\ pc = "server" /\ pc' \in {"arm", "done"} /\ backend' = backend
        /\ UNCHANGED loopVars
        /\ pc' = "arm" => cases' = cases
        /\ pc' = "done" => cases' = SkippedRows(ToSet(Arm))
    BY <1>3 DEF StartServer
  <2>2. backend # "mock" /\ cases = <<>> /\ arm = 1 /\ inj = 1
    BY <1>0, <2>1 DEF Stands
  <2>3. CASE pc' = "arm"
    <3>1. KeysAre(cases', Covered(arm', inj'))
      BY <2>1, <2>2, <2>3, CoveredNone DEF KeysAre, loopVars
    <3>. QED BY <2>3, <3>1 DEF RowsCover
  <2>4. CASE pc' = "done"
    <3>1. PlainRows(SkippedRows(ToSet(Arm)), ToSet(Arm), "SKIPPED")
      BY GridLists, IdsAre, SkippedRowsAre DEF Arms
    <3>2. KeysAre(cases', KeysOf(ToSet(Arm)))
      BY <2>1, <2>4, <3>1 DEF PlainRows
    <3>. QED BY <2>1, <2>2, <2>4, <3>2 DEF RowsCover, Looping
  <2>. QED BY <2>1, <2>3, <2>4
<1>4. CASE ResolveArm
  <2>1. pc = "arm" /\ inj = 1 /\ backend' = backend /\ backend # "mock"
    BY <1>0, <1>4 DEF ResolveArm, Stands, runVars
  <2>2. CASE Resolve(Arm[arm]) # <<>>
    <3>1. pc' = "cell" /\ UNCHANGED <<arm, inj, cases>>
      BY <1>4, <2>2 DEF ResolveArm
    <3>. QED BY <1>a, <2>1, <3>1 DEF Looping
  <2>3. CASE ~(Resolve(Arm[arm]) # <<>>)
    <3> DEFINE rows == SkippedRows({Arm[arm]})
    <3>1. cases' = cases \o rows /\ AfterArm
      BY <1>4, <2>3 DEF ResolveArm
    <3>2. PlainRows(rows, {Arm[arm]}, "SKIPPED")
      <4>1. Arm[arm] \in ToSet(Arm)
        BY <1>0, GridLists, IdsAre DEF GridType
      <4>2. IsFiniteSet({Arm[arm]}) /\ {Arm[arm]} \subseteq Arms
        BY <4>1, FS_Singleton DEF Arms
      <4>. QED BY <4>2, SkippedRowsAre
    <3> HIDE DEF rows
    <3>3. KeysAre(cases, Covered(arm, 1)) /\ cases \in Seq(Row)
      BY <1>0, <2>1 DEF RowsCover, Looping, GridType
    <3>4. KeysAre(cases', Covered(arm, 1) \cup KeysOf({Arm[arm]}))
      BY <1>0, <3>1, <3>2, <3>3, KeysJoin, CoveredArm DEF PlainRows
    <3>5. CASE NextArm
      <4>1. pc' = "arm" /\ arm' = arm + 1 /\ inj' = 1
        BY <3>5 DEF NextArm
      <4>2. KeysAre(cases', Covered(arm + 1, 1))
        BY <1>0, <3>4, CoveredArm
      <4>. QED BY <4>1, <4>2 DEF RowsCover
    <3>6. CASE Finish
      <4>1. pc' = "done" /\ arm = Len(Arm)
        BY <3>6 DEF Finish
      <4>2. KeysAre(cases', KeysOf(ToSet(Arm)))
        BY <1>0, <3>4, <4>1, CoveredArm
      <4>. QED BY <2>1, <4>1, <4>2 DEF RowsCover, Looping
    <3>. QED BY <1>0, <3>1, <3>5, <3>6, AfterIs
  <2>. QED BY <2>2, <2>3
<1>5. CASE StartCell
  <2>1. pc = "cell" /\ UNCHANGED backend
    BY <1>5 DEF StartCell, runVars
  <2>2. CASE pc' = "query" /\ UNCHANGED <<arm, inj, cases>>
    BY <1>a, <2>1, <2>2 DEF Looping
  <2>3. CASE /\ cases' = cases \o [n \in DOMAIN UserTask |-> CaseRow(FALSE, UserTask[n])]
             /\ AfterCell
    <3>1. pc \in Looping
      BY <2>1 DEF Looping
    <3>. QED BY <2>1, <2>3, <3>1, CellCovers
  <2>. QED BY <1>5, <2>2, <2>3 DEF StartCell
<1>6. CASE \E v \in Verdicts : ToolCall(v)
  BY <1>6, <1>a DEF ToolCall, Looping
<1>7. CASE EndQuery
  <2>1. pc = "query" /\ pc' \in {"query", "drain", "rows"} /\ UNCHANGED <<arm, inj, cases>>
    BY <1>7 DEF EndQuery
  <2>. QED BY <1>a, <2>1 DEF Looping
<1>8. CASE Raise
  BY <1>8, <1>a DEF Raise, Looping, loopVars
<1>9. CASE DrainOne
  BY <1>9, <1>a DEF DrainOne, Looping, loopVars
<1>10. CASE DrainEnd
  BY <1>10, <1>a DEF DrainEnd, Looping, loopVars
<1>11. CASE EndCell
  <2>1. /\ pc = "rows" /\ AfterCell /\ UNCHANGED backend
        /\ cases' = cases \o [n \in DOMAIN UserTask |-> CaseRow(TRUE, UserTask[n])]
    BY <1>11 DEF EndCell, runVars
  <2>2. pc \in Looping
    BY <2>1 DEF Looping
  <2>. QED BY <2>1, <2>2, CellCovers
<1>12. CASE UNCHANGED vars
  <2>1. UNCHANGED <<pc, cases, arm, inj, budget, backend>>
    BY <1>12 DEF vars
  <2>. QED BY <1>0, <2>1 DEF RowsCover
<1>. QED BY <1>1, <1>2, <1>3, <1>4, <1>5, <1>6, <1>7, <1>8, <1>9, <1>10, <1>11, <1>12 DEF Next

\* A grid that was executed or refused has a row for every arm, user task and
\* injection task, once (run_ab.py, _dispatch_full): for every grid.
THEOREM GridComplete == Spec => []RowsComplete
<1>1. CoverInv => RowsComplete
  <2> DEFINE arms == IF backend = "mock" THEN Requested ELSE ToSet(Arm)
  <2> SUFFICES ASSUME CoverInv, pc = "done", budget # "SKIPPED"
               PROVE  /\ \A a \in arms, i \in ToSet(InjTask), u \in ToSet(UserTask) :
                            Cardinality({n \in DOMAIN cases :
                                /\ CellOf(cases[n]) = [arm |-> a, inj |-> i]
                                /\ cases[n].user = u}) = 1
                      /\ \A n \in DOMAIN cases : cases[n].arm \in arms
    BY Zenon DEF RowsComplete
  <2>1. KeysAre(cases, KeysOf(arms))
    BY DEF CoverInv, RowsCover
  <2> HIDE DEF arms
  <2>2. \A n \in DOMAIN cases : cases[n].arm \in arms
    BY <2>1 DEF KeysAre, KeysOf, RowKey
  <2>3. ASSUME NEW a \in arms, NEW i \in ToSet(InjTask), NEW u \in ToSet(UserTask)
        PROVE  Cardinality({n \in DOMAIN cases :
                   CellOf(cases[n]) = [arm |-> a, inj |-> i] /\ cases[n].user = u}) = 1
    <3> DEFINE found == {n \in DOMAIN cases :
                   CellOf(cases[n]) = [arm |-> a, inj |-> i] /\ cases[n].user = u}
    <3>1. <<a, i, u>> \in KeysOf(arms)
      BY DEF KeysOf
    <3>2. PICK n \in DOMAIN cases : RowKey(cases[n]) = <<a, i, u>>
      BY <2>1, <3>1 DEF KeysAre
    <3>3. \A m \in DOMAIN cases : RowKey(cases[m]) = <<a, i, u>> => m = n
      BY <2>1, <3>2 DEF KeysAre
    <3>4. \A m \in DOMAIN cases :
             RowKey(cases[m]) = <<a, i, u>> <=>
                CellOf(cases[m]) = [arm |-> a, inj |-> i] /\ cases[m].user = u
      BY DEF RowKey, CellOf
    <3>5. found = {n}
      BY <3>2, <3>3, <3>4
    <3> HIDE DEF found
    <3>6. Cardinality(found) = 1
      BY <3>5, FS_Singleton
    <3>. QED BY <3>6 DEF found
  <2>. QED BY <2>2, <2>3
<1>. QED BY InitCover, NextCover, <1>1, PTL DEF Spec

-----------------------------------------------------------------------------
(***************************************************************************)
(* What a row says is backed by the calls, whose cells are those the loops *)
(* have come to.  The one table of the http backend knows that there were  *)
(* calls; in a real run the table and the sink have every call of the cell *)
(* that runs, and no other.                                                *)
(***************************************************************************)
CellAt(k, j) == [arm |-> Arm[k], inj |-> InjTask[j]]

\* A cell the loops have come to, when they stand at a0 and i0.
Reached(c, a0, i0, running) ==
    \E k \in DOMAIN Arm, j \in DOMAIN InjTask :
       /\ c = CellAt(k, j)
       /\ Earlier(k, j, a0, i0) \/ (running /\ k = a0 /\ j = i0)

\* What the table of decisions knows of the calls.
CallsFiled ==
    /\ pc \in Looping =>
          \A r \in returned : Reached(r.cell, arm, inj, pc \in Running) /\ Shields(r.cell.arm)
    /\ OneKeyEach(shield)
    /\ \A k \in DOMAIN shield : \E r \in returned : r.verdict = shield[k].verdict
    /\ backend # "real" /\ shield = <<>> => returned = {}

CalledIn(made, c, v) == \E r \in made : r.cell = c /\ r.verdict = v

Filed(table, v) == \E k \in DOMAIN table : table[k].verdict = v

\* The key of a call of some user, which no other user's call has.
KeyOf(key, c, u, many) == \E n \in Nat : n < many /\ key = <<c, u, n>>

\* The keys of a real run in the query of a user, and those of the users before.
KeysApart ==
    /\ \A k \in DOMAIN shield : KeyOf(shield[k].key, Here, UserTask[user], calls)
    /\ \A k \in DOMAIN tapped :
          \E m \in 1..(user - 1), n \in Nat : tapped[k].key = <<Here, UserTask[m], n>>

\* The table of a real pipeline and the sink of its cell.
OwnTable ==
    backend = "real" =>
       /\ pc \in Looping /\ pc # "query" => shield = <<>>
       /\ pc \in Running =>
             /\ \A k \in DOMAIN tapped : CalledIn(returned, Here, tapped[k].verdict)
             /\ \A k \in DOMAIN shield : CalledIn(returned, Here, shield[k].verdict)
             /\ \A r \in returned : r.cell = Here =>
                   Filed(shield, r.verdict) \/ Filed(tapped, r.verdict)
       /\ pc = "query" => KeysApart

\* The sink of a cell that is over has the whole table, which stays over http.
SinkHolds ==
    /\ \A k \in DOMAIN tapped : \E r \in returned : r.verdict = tapped[k].verdict
    /\ pc \in Running /\ ~Shielded => tapped = <<>>
    /\ backend # "real" /\ pc \in {"drain", "rows"} /\ Shielded =>
          \A k \in DOMAIN shield : \E l \in DOMAIN tapped : tapped[l] = shield[k]

UsersScored ==
    /\ pc = "query" => \A m \in 1..(user - 1) : UserTask[m] \in scored
    /\ pc \in {"drain", "rows"} => \A u \in ToSet(UserTask) : u \in scored

LEMMA CellsDiffer ==
    ASSUME NEW k \in DOMAIN Arm, NEW j \in DOMAIN InjTask,
           NEW l \in DOMAIN Arm, NEW i \in DOMAIN InjTask, CellAt(k, j) = CellAt(l, i)
    PROVE  k = l /\ j = i
<1>1. Arm[k] = Arm[l] /\ InjTask[j] = InjTask[i]
  BY DEF CellAt
<1>. QED BY <1>1, GridLists DEF IsInjective

LEMMA BeforeIs ==
    ASSUME NEW k \in DOMAIN Arm, NEW j \in DOMAIN InjTask,
           NEW l \in DOMAIN Arm, NEW i \in DOMAIN InjTask,
           Earlier(k, j, l, i) \/ (k = l /\ j = i)
    PROVE  Before(CellAt(k, j), CellAt(l, i))
<1> DEFINE place(cell) == CHOOSE p \in (DOMAIN Arm) \X (DOMAIN InjTask) :
                             Arm[p[1]] = cell.arm /\ InjTask[p[2]] = cell.inj
<1>1. \A n \in DOMAIN Arm, m \in DOMAIN InjTask : place(CellAt(n, m)) = <<n, m>>
  <2> SUFFICES ASSUME NEW n \in DOMAIN Arm, NEW m \in DOMAIN InjTask
               PROVE  place(CellAt(n, m)) = <<n, m>>
    OBVIOUS
  <2> DEFINE c == CellAt(n, m)
  <2>1. c.arm = Arm[n] /\ c.inj = InjTask[m]
    BY DEF CellAt
  <2> HIDE DEF c
  <2>2. \A p \in (DOMAIN Arm) \X (DOMAIN InjTask) :
           Arm[p[1]] = c.arm /\ InjTask[p[2]] = c.inj <=> p = <<n, m>>
    <3> SUFFICES ASSUME NEW x \in DOMAIN Arm, NEW y \in DOMAIN InjTask
                 PROVE  Arm[x] = c.arm /\ InjTask[y] = c.inj <=> x = n /\ y = m
      OBVIOUS
    <3>. QED BY <2>1, GridLists DEF IsInjective
  <2>3. <<n, m>> \in (DOMAIN Arm) \X (DOMAIN InjTask)
    OBVIOUS
  <2>4. (CHOOSE p \in (DOMAIN Arm) \X (DOMAIN InjTask) :
            Arm[p[1]] = c.arm /\ InjTask[p[2]] = c.inj) = <<n, m>>
    BY <2>2, <2>3
  <2>. QED BY <2>4 DEF c
<1>2. place(CellAt(k, j)) = <<k, j>> /\ place(CellAt(l, i)) = <<l, i>>
  BY <1>1
<1>3. Before(CellAt(k, j), CellAt(l, i)) <=>
        LET a == place(CellAt(k, j))
            b == place(CellAt(l, i))
        IN  a[1] < b[1] \/ (a[1] = b[1] /\ a[2] <= b[2])
  BY Zenon DEF Before
<1> HIDE DEF place
<1>4. Before(CellAt(k, j), CellAt(l, i)) <=> k < l \/ (k = l /\ j <= i)
  BY <1>2, <1>3
<1>5. DOMAIN InjTask = 1..Len(InjTask)
  BY GridLists, IdsAre
<1>. QED BY <1>4, <1>5 DEF Earlier

\* What a step does to the place in the loops, and what only a call changes.
LEMMA Moves ==
    ASSUME GridType, Stands, [Next]_vars
    PROVE  /\ pc \in Looping =>
                 \/ UNCHANGED <<arm, inj>> /\ (pc \in Running => pc' \in Running \cup {"raised"})
                 \/ NextCell
                 \/ NextArm
                 \/ Finish
           /\ pc \notin Looping /\ pc' \in Looping => pc = "server" /\ UNCHANGED <<arm, inj>>
           /\ \/ \E v \in Verdicts : ToolCall(v)
              \/ EndQuery
              \/ UNCHANGED <<shield, returned, backend>>
<1>1. CASE Estimate
  BY <1>1 DEF Estimate, Looping, Running
<1>2. CASE MockGrid
  BY <1>2 DEF MockGrid, Looping, Running, runVars
<1>3. CASE StartServer
  BY <1>3 DEF StartServer, Looping, Running, loopVars
<1>4. CASE ResolveArm
  <2>1. pc = "arm" /\ UNCHANGED <<shield, returned, backend>>
    BY <1>4 DEF ResolveArm, runVars
  <2>2. (UNCHANGED <<arm, inj>>) \/ AfterArm
    BY <1>4 DEF ResolveArm
  <2>. QED BY <2>1, <2>2, AfterIs DEF Looping, Running
<1>5. CASE StartCell
  <2>1. pc = "cell" /\ UNCHANGED <<shield, returned, backend>>
    BY <1>5 DEF StartCell, runVars
  <2>2. (UNCHANGED <<arm, inj>>) \/ AfterCell
    BY <1>5 DEF StartCell
  <2>. QED BY <2>1, <2>2, AfterIs DEF Looping, Running
<1>6. CASE \E v \in Verdicts : ToolCall(v)
  <2>1. pc = "query" /\ UNCHANGED <<pc, arm, inj>>
    BY <1>6 DEF ToolCall
  <2>. QED BY <1>6, <2>1 DEF Looping, Running
<1>7. CASE EndQuery
  <2>1. /\ pc = "query" /\ pc' \in {"query", "drain", "rows"}
        /\ UNCHANGED <<arm, inj, returned, backend>>
    BY <1>7 DEF EndQuery, runVars
  <2>. QED BY <1>7, <2>1 DEF Looping, Running
<1>8. CASE Raise
  BY <1>8 DEF Raise, Looping, Running, loopVars, runVars
<1>9. CASE DrainOne
  BY <1>9 DEF DrainOne, Looping, Running, loopVars, runVars
<1>10. CASE DrainEnd
  BY <1>10 DEF DrainEnd, Looping, Running, loopVars, runVars
<1>11. CASE EndCell
  <2>1. pc = "rows" /\ AfterCell /\ UNCHANGED <<shield, returned, backend>>
    BY <1>11 DEF EndCell, runVars
  <2>. QED BY <2>1, AfterIs DEF Looping, Running
<1>12. CASE UNCHANGED vars
  BY <1>12 DEF vars
<1>. QED BY <1>1, <1>2, <1>3, <1>4, <1>5, <1>6, <1>7, <1>8, <1>9, <1>10, <1>11, <1>12 DEF Next

LEMMA ReachedStays ==
    ASSUME GridType, Stands, [Next]_vars, pc \in Looping, pc' \in Looping,
           NEW c, Reached(c, arm, inj, pc \in Running)
    PROVE  Reached(c, arm', inj', pc' \in Running)
<1>1. /\ arm \in 1..Len(Arm) /\ DOMAIN Arm = 1..Len(Arm) /\ Len(Arm) \in Nat
      /\ inj \in 1..Len(InjTask) /\ DOMAIN InjTask = 1..Len(InjTask) /\ Len(InjTask) \in Nat
  BY Positions
<1>2. PICK k \in DOMAIN Arm, j \in DOMAIN InjTask :
         /\ c = CellAt(k, j)
         /\ Earlier(k, j, arm, inj) \/ (pc \in Running /\ k = arm /\ j = inj)
  BY DEF Reached
<1>3. Earlier(k, j, arm', inj') \/ (pc' \in Running /\ k = arm' /\ j = inj')
  <2>1. CASE UNCHANGED <<arm, inj>> /\ (pc \in Running => pc' \in Running \cup {"raised"})
    BY <1>2, <2>1 DEF Looping
  <2>2. CASE NextCell
    BY <1>1, <1>2, <2>2 DEF NextCell, Earlier
  <2>3. CASE NextArm
    <3>1. arm' = arm + 1 /\ inj' = 1
      BY <2>3 DEF NextArm
    <3>2. k < arm + 1
      BY <1>1, <1>2 DEF Earlier
    <3>. QED BY <3>1, <3>2 DEF Earlier
  <2>4. CASE Finish
    BY <2>4 DEF Finish, Looping
  <2>. QED BY <2>1, <2>2, <2>3, <2>4, Moves
<1>. QED BY <1>2, <1>3 DEF Reached

BackInv == CoverInv /\ CallsFiled /\ OwnTable /\ SinkHolds /\ UsersScored

\* The table after a call.
LEMMA CallFiled ==
    ASSUME BackInv, NEW v \in Verdicts, ToolCall(v)
    PROVE  CallsFiled' /\ OwnTable'
<1> DEFINE key == IF backend = "http" THEN "position"
                  ELSE <<Here, UserTask[user], calls>>
           entry == [key |-> key, verdict |-> v]
           call == [cell |-> Here, verdict |-> v]
<1>1. /\ pc = "query" /\ pc' = pc /\ Shielded /\ calls' = calls + 1
      /\ shield' = Put(shield, key, v)
      /\ returned' = returned \cup {call}
      /\ UNCHANGED <<backend, arm, inj, user>>
  BY Zenon DEF ToolCall, runVars
<1>2. GridType
  BY DEF BackInv, CoverInv
<1>3. Files(shield', shield, entry)
  <2>1. key \in Key /\ shield \in Seq(Entry)
    BY <1>2, HereIs DEF GridType
  <2> HIDE DEF key
  <2>. QED BY <1>1, <2>1, PutIs
<1>4. entry.key = key /\ entry.verdict = v /\ call.cell = Here /\ call.verdict = v
  OBVIOUS
<1>5. backend = "real" => key = <<Here, UserTask[user], calls>>
  OBVIOUS
<1>6. arm \in DOMAIN Arm /\ inj \in DOMAIN InjTask /\ user \in 1..user /\ calls \in Nat
      /\ user \in DOMAIN UserTask /\ 1..user \subseteq DOMAIN UserTask
  BY <1>2, Positions
<1>7. pc \in Looping /\ pc \in Running
  BY <1>1 DEF Looping, Running
<1>8. Here = CellAt(arm, inj) /\ Here.arm = Arm[arm]
  BY DEF Here, CellAt
<1>9. Reached(Here, arm, inj, TRUE)
  BY <1>6, <1>8 DEF Reached
<1> HIDE DEF key, entry, call
<1>10. CallsFiled'
  <2>1. \A r \in returned' : Reached(r.cell, arm, inj, TRUE) /\ Shields(r.cell.arm)
    <3>1. \A r \in returned : Reached(r.cell, arm, inj, TRUE) /\ Shields(r.cell.arm)
      BY <1>7 DEF BackInv, CallsFiled
    <3>2. Reached(call.cell, arm, inj, TRUE) /\ Shields(call.cell.arm)
      BY <1>1, <1>4, <1>8, <1>9 DEF Shielded
    <3>. QED BY <1>1, <3>1, <3>2
  <2>2. OneKeyEach(shield')
    BY <1>3 DEF Files, BackInv, CallsFiled
  <2>3. \A k \in DOMAIN shield' : \E r \in returned' : r.verdict = shield'[k].verdict
    <3>1. \A k \in DOMAIN shield' :
             shield'[k] = entry \/ (k \in DOMAIN shield /\ shield'[k] = shield[k])
      BY <1>3 DEF Files
    <3>2. \A k \in DOMAIN shield : \E r \in returned : r.verdict = shield[k].verdict
      BY DEF BackInv, CallsFiled
    <3>. QED BY <1>1, <1>4, <3>1, <3>2
  <2>4. shield' # <<>>
    <3>1. \E k \in DOMAIN shield' : shield'[k] = entry
      BY <1>3 DEF Files
    <3>2. DOMAIN (<<>>) = {}
      OBVIOUS
    <3>. QED BY <3>1, <3>2
  <2>5. pc' \in Running
    BY <1>1, <1>7
  <2>. QED BY <1>1, <2>1, <2>2, <2>3, <2>4, <2>5 DEF CallsFiled
<1>11. ASSUME backend = "real"
       PROVE  OwnTable'
  <2>1. Here' = Here /\ pc' = "query" /\ tapped' = tapped
    BY <1>1 DEF Here, ToolCall, cellVars
  <2>2. /\ \A k \in DOMAIN tapped : CalledIn(returned, Here, tapped[k].verdict)
        /\ \A k \in DOMAIN shield : CalledIn(returned, Here, shield[k].verdict)
        /\ \A r \in returned : r.cell = Here =>
              Filed(shield, r.verdict) \/ Filed(tapped, r.verdict)
        /\ KeysApart
    BY <1>1, <1>7, <1>11 DEF BackInv, OwnTable
  <2>3. \A w : CalledIn(returned, Here, w) => CalledIn(returned', Here, w)
    BY <1>1 DEF CalledIn
  <2>4. CalledIn(returned', Here, v)
    BY <1>1, <1>4 DEF CalledIn
  <2>5. \A k \in DOMAIN shield :
           shield[k].key # key /\ KeyOf(shield[k].key, Here, UserTask[user], calls + 1)
    <3> SUFFICES ASSUME NEW k \in DOMAIN shield
                 PROVE  shield[k].key # key /\ KeyOf(shield[k].key, Here, UserTask[user], calls + 1)
      OBVIOUS
    <3>1. PICK n \in Nat : n < calls /\ shield[k].key = <<Here, UserTask[user], n>>
      BY <2>2 DEF KeysApart, KeyOf
    <3>2. n < calls + 1
      BY <1>6, <3>1
    <3>. QED BY <1>5, <1>11, <3>1, <3>2 DEF KeyOf
  <2>6. KeyOf(key, Here, UserTask[user], calls + 1)
    BY <1>5, <1>6, <1>11 DEF KeyOf
  <2>7. \A k \in DOMAIN shield' : CalledIn(returned', Here, shield'[k].verdict)
    BY <1>3, <1>4, <2>2, <2>3, <2>4 DEF Files
  <2>8. \A k \in DOMAIN tapped' : CalledIn(returned', Here, tapped'[k].verdict)
    BY <2>1, <2>2, <2>3
  <2>9. ASSUME NEW r \in returned', r.cell = Here
        PROVE  Filed(shield', r.verdict) \/ Filed(tapped', r.verdict)
    <3>1. CASE r = call
      <4>1. PICK n \in DOMAIN shield' : shield'[n] = entry
        BY <1>3 DEF Files
      <4>. QED BY <1>4, <3>1, <4>1 DEF Filed
    <3>2. CASE r \in returned
      <4>1. CASE Filed(tapped, r.verdict)
        BY <2>1, <4>1
      <4>2. CASE Filed(shield, r.verdict)
        <5>1. PICK k \in DOMAIN shield : shield[k].verdict = r.verdict
          BY <4>2 DEF Filed
        <5>2. k \in DOMAIN shield' /\ shield'[k] = shield[k]
          BY <1>3, <1>4, <2>5 DEF Files
        <5>. QED BY <5>1, <5>2 DEF Filed
      <4>. QED BY <2>2, <2>9, <3>2, <4>1, <4>2
    <3>. QED BY <1>1, <3>1, <3>2
  <2>10. KeysApart'
    <3>1. \A k \in DOMAIN shield' : KeyOf(shield'[k].key, Here, UserTask[user], calls + 1)
      BY <1>3, <1>4, <2>5, <2>6 DEF Files
    <3>. QED BY <1>1, <2>1, <2>2, <3>1 DEF KeysApart, KeyOf
  <2>11. \A r \in returned' : r.cell = Here' =>
            Filed(shield', r.verdict) \/ Filed(tapped', r.verdict)
    BY <2>1, <2>9
  <2>. QED BY <2>1, <2>7, <2>8, <2>10, <2>11 DEF OwnTable, Filed
<1>12. backend # "real" => OwnTable'
  BY <1>1 DEF OwnTable
<1>. QED BY <1>10, <1>11, <1>12

\* A query starts in a cell, or goes on to the next user.
LEMMA QuerySteps ==
    ASSUME GridType, [Next]_vars, pc' = "query"
    PROVE  /\ UNCHANGED <<arm, inj>>
           /\ \/ pc = "cell" /\ user' = 1 /\ tapped' = <<>>
              \/ pc = "query" /\ \E v \in Verdicts : ToolCall(v)
              \/ pc = "query" /\ UNCHANGED <<user, calls, tapped, scored>>
              \/ pc = "query" /\ EndQuery /\ user' = user + 1
<1>1. CASE Estimate
  BY <1>1 DEF Estimate
<1>2. CASE MockGrid
  BY <1>2 DEF MockGrid
<1>3. CASE StartServer
  BY <1>3 DEF StartServer
<1>4. CASE ResolveArm
  <2>1. pc' = "cell" \/ AfterArm
    BY <1>4 DEF ResolveArm
  <2>. QED BY <2>1, AfterIs DEF NextArm, Finish
<1>5. CASE StartCell
  <2>1. AfterCell => FALSE
    BY AfterIs DEF NextCell, NextArm, Finish
  <2>2. pc = "cell"
    BY <1>5 DEF StartCell
  <2>3. user' = 1 /\ tapped' = <<>> /\ UNCHANGED <<arm, inj>>
    BY <1>5, <2>1 DEF StartCell
  <2>. QED BY <2>2, <2>3
<1>6. CASE \E v \in Verdicts : ToolCall(v)
  <2>1. pc = "query" /\ UNCHANGED <<arm, inj>>
    BY <1>6 DEF ToolCall
  <2>. QED BY <1>6, <2>1
<1>7. CASE EndQuery
  BY <1>7 DEF EndQuery
<1>8. CASE Raise
  BY <1>8 DEF Raise
<1>9. CASE DrainOne
  BY <1>9 DEF DrainOne
<1>10. CASE DrainEnd
  BY <1>10 DEF DrainEnd
<1>11. CASE EndCell
  BY <1>11, AfterIs DEF EndCell, NextCell, NextArm, Finish
<1>12. CASE UNCHANGED vars
  BY <1>12 DEF vars
<1>. QED BY <1>1, <1>2, <1>3, <1>4, <1>5, <1>6, <1>7, <1>8, <1>9, <1>10, <1>11, <1>12 DEF Next

LEMMA LeavesServer ==
    ASSUME [Next]_vars, pc = "server", pc' # "server"
    PROVE  pc' \in {"arm", "done"}
BY DEF Next, vars, Estimate, MockGrid, StartServer, ResolveArm, StartCell, ToolCall, EndQuery,
       Raise, DrainOne, DrainEnd, EndCell

\* Within a cell nothing but a call and the end of a query changes the sink.
LEMMA Within ==
    ASSUME GridType, [Next]_vars, ~(\E v \in Verdicts : ToolCall(v)), ~EndQuery
    PROVE  /\ pc = "query" =>
                 pc' = "raised" \/ UNCHANGED <<pc, tapped, user, calls, arm, inj>>
           /\ pc # "query" /\ pc' \in {"drain", "rows"} =>
                 pc \in {"drain", "rows"} /\ UNCHANGED <<tapped, arm, inj>>
<1>1. CASE Estimate
  BY <1>1 DEF Estimate
<1>2. CASE MockGrid
  BY <1>2 DEF MockGrid
<1>3. CASE StartServer
  BY <1>3 DEF StartServer
<1>4. CASE ResolveArm
  <2>1. pc = "arm" /\ (pc' = "cell" \/ AfterArm)
    BY <1>4 DEF ResolveArm
  <2>. QED BY <2>1, AfterIs DEF NextArm, Finish
<1>5. CASE StartCell
  <2>1. pc = "cell" /\ (pc' = "query" \/ AfterCell)
    BY <1>5 DEF StartCell
  <2>. QED BY <2>1, AfterIs DEF NextCell, NextArm, Finish
<1>6. CASE Raise
  BY <1>6 DEF Raise
<1>7. CASE DrainOne
  BY <1>7 DEF DrainOne, loopVars, cellVars
<1>8. CASE DrainEnd
  BY <1>8 DEF DrainEnd, loopVars
<1>9. CASE EndCell
  <2>1. pc = "rows" /\ AfterCell
    BY <1>9 DEF EndCell
  <2>. QED BY <2>1, AfterIs DEF NextCell, NextArm, Finish
<1>10. CASE UNCHANGED vars
  BY <1>10 DEF vars
<1>. QED BY <1>1, <1>2, <1>3, <1>4, <1>5, <1>6, <1>7, <1>8, <1>9, <1>10 DEF Next

LEMMA EndsUser ==
    ASSUME GridType, EndQuery, pc' = "query"
    PROVE  user' = user + 1
<1>1. user < Len(UserTask) \/ pc' \in {"drain", "rows"}
  BY DEF EndQuery
<1>. QED BY <1>1 DEF EndQuery

\* No other step than a call and the end of a query changes the table, and a
\* cell that starts has no calls.
LEMMA CallsStay ==
    ASSUME BackInv, [Next]_vars, ~(\E v \in Verdicts : ToolCall(v)), ~EndQuery
    PROVE  CallsFiled' /\ OwnTable'
<1>1. GridType /\ Stands
  BY DEF BackInv, CoverInv
<1>2. UNCHANGED <<shield, returned, backend>>
  BY <1>1, Moves
<1>3. CASE pc \notin Looping /\ pc' \in Looping
  <2>1. shield = <<>> /\ returned = {} /\ pc = "server"
    BY <1>1, <1>3, Moves DEF Stands
  <2>2. CallsFiled'
    BY <1>2, <2>1 DEF CallsFiled, OneKeyEach
  <2>3. pc' = "arm"
    BY <1>3, <2>1, LeavesServer DEF Looping
  <2>4. OwnTable'
    BY <1>2, <2>1, <2>3 DEF OwnTable, Running
  <2>. QED BY <2>2, <2>4
<1>4. CASE pc' \notin Looping
  <2>1. CallsFiled'
    BY <1>2, <1>4 DEF BackInv, CallsFiled, OneKeyEach
  <2>2. pc' \notin Running /\ pc' # "query"
    BY <1>4 DEF Looping, Running
  <2>3. OwnTable'
    BY <1>4, <2>2 DEF OwnTable
  <2>. QED BY <2>1, <2>3
<1>5. CASE pc \in Looping /\ pc' \in Looping
  <2>1. \A r \in returned : Reached(r.cell, arm', inj', pc' \in Running) /\ Shields(r.cell.arm)
    <3> SUFFICES ASSUME NEW r \in returned
                 PROVE  Reached(r.cell, arm', inj', pc' \in Running) /\ Shields(r.cell.arm)
      OBVIOUS
    <3> DEFINE c == r.cell
    <3>1. Reached(c, arm, inj, pc \in Running) /\ Shields(r.cell.arm)
      BY <1>5 DEF BackInv, CallsFiled
    <3> HIDE DEF c
    <3>2. Reached(c, arm', inj', pc' \in Running)
      BY <1>1, <1>5, <3>1, ReachedStays
    <3>. QED BY <3>1, <3>2 DEF c
  <2>2. CallsFiled'
    BY <1>2, <2>1 DEF BackInv, CallsFiled, OneKeyEach
  <2>3. OwnTable'
    <3> SUFFICES ASSUME backend = "real" PROVE OwnTable'
      BY <1>2 DEF OwnTable
    <3>1. CASE pc = "query"
      <4>1. pc' = "query" /\ UNCHANGED <<tapped, user, calls, arm, inj>>
        BY <1>1, <1>5, <3>1, Within DEF Looping
      <4>. QED BY <1>2, <3>1, <4>1
           DEF BackInv, OwnTable, CalledIn, Filed, KeysApart, KeyOf, Here, Running
    <3>2. CASE pc # "query" /\ pc' = "query"
      <4>1. shield = <<>> /\ pc = "cell"
        BY <1>1, <1>5, <3>2, QuerySteps DEF BackInv, OwnTable
      <4>2. tapped' = <<>> /\ UNCHANGED <<arm, inj>>
        BY <1>1, <3>2, QuerySteps
      <4>3. \A r \in returned : r.cell # Here
        <5> SUFFICES ASSUME NEW r \in returned, r.cell = Here PROVE FALSE
          OBVIOUS
        <5>1. Reached(Here, arm, inj, FALSE)
          <6>1. pc \notin Running
            BY <4>1 DEF Running
          <6>2. Reached(r.cell, arm, inj, pc \in Running)
            BY <1>5 DEF BackInv, CallsFiled
          <6>. QED BY <6>1, <6>2 DEF Reached
        <5>2. PICK l \in DOMAIN Arm, j \in DOMAIN InjTask :
                 Here = CellAt(l, j) /\ Earlier(l, j, arm, inj)
          BY <5>1 DEF Reached
        <5>3. l = arm /\ j = inj
          BY <1>1, <5>2, CellsDiffer DEF Here, CellAt, GridType
        <5>4. arm \in Int /\ inj \in Int
          BY <1>1, Positions
        <5>. QED BY <5>2, <5>3, <5>4 DEF Earlier
      <4>4. Here' = Here
        BY <4>2 DEF Here
      <4>. QED BY <1>2, <3>2, <4>1, <4>2, <4>3, <4>4 DEF OwnTable, KeysApart
    <3>3. CASE pc # "query" /\ pc' # "query"
      <4>1. shield' = <<>>
        BY <1>2, <1>5, <3>3 DEF BackInv, OwnTable
      <4>2. CASE pc' \in Running
        <5>1. pc \in Running /\ UNCHANGED <<tapped, arm, inj>>
          BY <1>1, <3>3, <4>2, Within DEF Running
        <5>. QED BY <1>2, <3>3, <4>1, <4>2, <5>1
             DEF BackInv, OwnTable, CalledIn, Filed, Here
      <4>3. CASE pc' \notin Running
        BY <3>3, <4>1, <4>3 DEF OwnTable
      <4>. QED BY <4>2, <4>3
    <3>. QED BY <3>1, <3>2, <3>3
  <2>. QED BY <2>2, <2>3
<1>. QED BY <1>3, <1>4, <1>5

\* At the end of a query the sink gets what the table has; the real pipeline's
\* table is gone then.
LEMMA QueryTapped ==
    ASSUME BackInv, [Next]_vars, EndQuery
    PROVE  CallsFiled' /\ OwnTable'
<1>0. GridType /\ Stands
  BY DEF BackInv, CoverInv
<1>1. /\ pc = "query" /\ pc' \in {"query", "drain", "rows"}
      /\ tapped' = (IF Shielded THEN Tap(tapped, shield) ELSE tapped)
      /\ shield' = (IF backend = "real" THEN <<>> ELSE shield)
      /\ pc' = "query" => user' = user + 1 \/ UNCHANGED user
      /\ UNCHANGED <<backend, arm, inj, returned>>
  BY DEF EndQuery, runVars
<1>2. pc \in Looping /\ pc \in Running /\ pc' \in Looping /\ pc' \in Running
  BY <1>1 DEF Looping, Running
<1>3. Here' = Here
  BY <1>1 DEF Here
<1>4. CallsFiled'
  BY <1>1, <1>2 DEF BackInv, CallsFiled, OneKeyEach
<1>5. ASSUME backend = "real"
      PROVE  OwnTable'
  <2>1. /\ \A k \in DOMAIN tapped : CalledIn(returned, Here, tapped[k].verdict)
        /\ \A k \in DOMAIN shield : CalledIn(returned, Here, shield[k].verdict)
        /\ \A r \in returned : r.cell = Here =>
              Filed(shield, r.verdict) \/ Filed(tapped, r.verdict)
        /\ KeysApart
    BY <1>1, <1>2, <1>5 DEF BackInv, OwnTable
  <2>2. user \in Nat \ {0} /\ user \in DOMAIN UserTask /\ 1..user \subseteq DOMAIN UserTask
    BY <1>0, Positions
  <2>3. pc' = "query" => user' = user + 1
    BY <1>0, EndsUser
  <2>4. CASE ~Shielded
    <3>1. \A r \in returned : r.cell # Here
      <4> SUFFICES ASSUME NEW r \in returned, r.cell = Here PROVE FALSE
        OBVIOUS
      <4>1. Shields(Here.arm) /\ Here.arm = Arm[arm]
        BY <1>2 DEF BackInv, CallsFiled, Here
      <4>. QED BY <2>4, <4>1, Zenon DEF Shielded
    <3>2. shield' = <<>> /\ tapped' = tapped
      BY <1>1, <1>5, <2>4
    <3>3. KeysApart' \/ pc' # "query"
      <4>1. CASE pc' = "query"
        <5>1. \A m \in 1..(user - 1) : m \in 1..(user' - 1)
          BY <2>2, <2>3, <4>1
        <5>. QED BY <1>3, <2>1, <3>2, <5>1 DEF KeysApart
      <4>. QED BY <4>1
    <3>4. \A k \in DOMAIN tapped' : CalledIn(returned', Here, tapped'[k].verdict)
      BY <1>1, <1>3, <2>1, <3>2 DEF CalledIn
    <3>. QED BY <1>1, <1>3, <3>1, <3>2, <3>3, <3>4 DEF OwnTable
  <2>5. CASE Shielded
    <3> DEFINE after == Tap(tapped, shield)
    <3>1. /\ \A l \in DOMAIN after :
                \/ \E k \in DOMAIN shield : after[l] = shield[k]
                \/ \E k \in DOMAIN tapped : after[l] = tapped[k]
          /\ \A k \in DOMAIN shield : \E l \in DOMAIN after : after[l] = shield[k]
          /\ \A k \in DOMAIN tapped :
                (\A n \in DOMAIN shield : shield[n].key # tapped[k].key) =>
                   \E l \in DOMAIN after : after[l] = tapped[k]
      <4>1. shield \in Seq(Entry) /\ tapped \in Seq(Entry) /\ OneKeyEach(shield)
        BY <1>0 DEF GridType, BackInv, CallsFiled
      <4>. QED BY <4>1, TapHas
    <3> HIDE DEF after
    <3>2. tapped' = after /\ shield' = <<>>
      BY <1>1, <1>5, <2>5 DEF after
    <3>3. \A k \in DOMAIN tapped, n \in DOMAIN shield : shield[n].key # tapped[k].key
      <4> SUFFICES ASSUME NEW k \in DOMAIN tapped, NEW n \in DOMAIN shield,
                          shield[n].key = tapped[k].key
                   PROVE  FALSE
        OBVIOUS
      <4>1. PICK m \in 1..(user - 1), i \in Nat : tapped[k].key = <<Here, UserTask[m], i>>
        BY <2>1 DEF KeysApart
      <4>2. PICK i2 \in Nat : shield[n].key = <<Here, UserTask[user], i2>>
        BY <2>1 DEF KeysApart, KeyOf
      <4>3. UserTask[m] = UserTask[user] /\ m \in DOMAIN UserTask /\ m # user
        BY <2>2, <4>1, <4>2
      <4>. QED BY <2>2, <4>3, GridLists DEF IsInjective
    <3>4. \A r \in returned : r.cell = Here => Filed(after, r.verdict)
      <4> SUFFICES ASSUME NEW r \in returned, r.cell = Here PROVE Filed(after, r.verdict)
        OBVIOUS
      <4>1. CASE Filed(shield, r.verdict)
        BY <3>1, <4>1 DEF Filed
      <4>2. CASE Filed(tapped, r.verdict)
        BY <3>1, <3>3, <4>2 DEF Filed
      <4>. QED BY <2>1, <4>1, <4>2
    <3>5. \A l \in DOMAIN after : CalledIn(returned, Here, after[l].verdict)
      BY <2>1, <3>1
    <3>6. \A l \in DOMAIN after :
             \E m \in 1..user, n \in Nat : after[l].key = <<Here, UserTask[m], n>>
      <4>1. \A k \in DOMAIN shield :
               \E m \in 1..user, n \in Nat : shield[k].key = <<Here, UserTask[m], n>>
        <5>1. user \in 1..user
          BY <2>2
        <5>. QED BY <2>1, <5>1 DEF KeysApart, KeyOf
      <4>2. \A k \in DOMAIN tapped :
               \E m \in 1..user, n \in Nat : tapped[k].key = <<Here, UserTask[m], n>>
        <5>1. \A m \in 1..(user - 1) : m \in 1..user
          BY <2>2
        <5>. QED BY <2>1, <5>1 DEF KeysApart
      <4>. QED BY <3>1, <4>1, <4>2
    <3>7. KeysApart' \/ pc' # "query"
      <4>1. CASE pc' = "query"
        <5>1. user' - 1 = user
          BY <2>2, <2>3, <4>1
        <5>. QED BY <1>3, <3>2, <3>6, <5>1 DEF KeysApart
      <4>. QED BY <4>1
    <3>8. \A k \in DOMAIN tapped' : CalledIn(returned', Here, tapped'[k].verdict)
      BY <1>1, <1>3, <3>2, <3>5 DEF CalledIn
    <3>9. \A r \in returned' : r.cell = Here' => Filed(tapped', r.verdict)
      BY <1>1, <1>3, <3>2, <3>4
    <3>. QED BY <1>1, <1>3, <3>2, <3>7, <3>8, <3>9 DEF OwnTable, Filed
  <2>. QED BY <2>4, <2>5
<1>6. backend # "real" => OwnTable'
  BY <1>1 DEF OwnTable
<1>. QED BY <1>4, <1>5, <1>6

\* What the sink of a cell has, and which users were scored.
LEMMA NextSink ==
    ASSUME BackInv, [Next]_vars
    PROVE  SinkHolds' /\ UsersScored'
<1>0. /\ GridType /\ Stands
      /\ Len(UserTask) \in Nat /\ DOMAIN UserTask = 1..Len(UserTask)
      /\ user \in 1..Len(UserTask)
      /\ \A x \in ToSet(UserTask) : \E n \in DOMAIN UserTask : x = UserTask[n]
  BY GridLists, IdsAre DEF BackInv, CoverInv, GridType
\* The sink and the scores are left alone, and so is the table.
<1>a. ASSUME UNCHANGED <<tapped, scored, shield, returned, backend>>,
             pc' \notin Running \/ (UNCHANGED <<arm, inj>> /\ pc' = pc)
                \/ (UNCHANGED <<arm, inj>> /\ pc = "drain" /\ pc' = "rows"),
             pc' = "query" => UNCHANGED user
      PROVE  SinkHolds' /\ UsersScored'
  <2>1. SinkHolds'
    <3>1. \A k \in DOMAIN tapped' : \E r \in returned' : r.verdict = tapped'[k].verdict
      BY <1>a DEF BackInv, SinkHolds
    <3>2. CASE pc' \notin Running
      BY <3>1, <3>2 DEF SinkHolds, Running
    <3>3. CASE UNCHANGED <<arm, inj>> /\ pc' \in Running /\ pc \in Running
               /\ (pc' \in {"drain", "rows"} => pc \in {"drain", "rows"})
      <4>1. Shielded' = Shielded
        BY <3>3 DEF Shielded
      <4>. QED BY <1>a, <3>1, <3>3, <4>1 DEF BackInv, SinkHolds
    <3>. QED BY <1>a, <3>2, <3>3 DEF Running
  <2>2. UsersScored'
    BY <1>a DEF BackInv, UsersScored, Running
  <2>. QED BY <2>1, <2>2
<1>1. CASE Estimate
  BY <1>1, <1>a DEF Estimate, cellVars, runVars, Running
<1>2. CASE MockGrid
  BY <1>2, <1>a DEF MockGrid, cellVars, runVars, Running
<1>3. CASE StartServer
  <2>1. UNCHANGED <<tapped, scored, shield, returned, backend>> /\ pc' \in {"arm", "done"}
    BY <1>3 DEF StartServer, cellVars
  <2>. QED BY <1>a, <2>1 DEF Running
<1>4. CASE ResolveArm
  <2>1. UNCHANGED <<tapped, scored, shield, returned, backend>> /\ (pc' = "cell" \/ AfterArm)
    BY <1>4 DEF ResolveArm, cellVars, runVars
  <2>2. pc' \in {"cell", "arm", "done"}
    BY <1>0, <2>1, AfterIs DEF NextArm, Finish
  <2>. QED BY <1>a, <2>1, <2>2 DEF Running
<1>5. CASE StartCell
  <2>1. CASE pc' = "query" /\ user' = 1 /\ tapped' = <<>>
    <3>1. SinkHolds'
      BY <2>1 DEF SinkHolds
    <3>2. UsersScored'
      BY <2>1 DEF UsersScored
    <3>. QED BY <3>1, <3>2
  <2>2. CASE AfterCell /\ UNCHANGED <<user, calls, cellVars>>
    <3>1. UNCHANGED <<tapped, scored, shield, returned, backend>>
      BY <1>5, <2>2 DEF StartCell, cellVars, runVars
    <3>2. pc' \in {"cell", "arm", "done"}
      BY <1>0, <2>2, AfterIs DEF NextCell, NextArm, Finish
    <3>. QED BY <1>a, <3>1, <3>2 DEF Running
  <2>. QED BY <1>5, <2>1, <2>2 DEF StartCell
<1>6. CASE \E v \in Verdicts : ToolCall(v)
  <2>1. /\ pc = "query" /\ Shielded /\ returned \subseteq returned'
        /\ UNCHANGED <<pc, tapped, scored, user, arm, inj>>
    BY <1>6 DEF ToolCall, cellVars
  <2>2. SinkHolds'
    <3>1. Shielded' = Shielded
      BY <2>1 DEF Shielded
    <3>2. \A k \in DOMAIN tapped' : \E r \in returned' : r.verdict = tapped'[k].verdict
      BY <2>1 DEF BackInv, SinkHolds
    <3>. QED BY <2>1, <3>1, <3>2 DEF SinkHolds
  <2>3. UsersScored'
    BY <2>1 DEF BackInv, UsersScored
  <2>. QED BY <2>2, <2>3
<1>7. CASE EndQuery
  <2>1. /\ pc = "query" /\ tapped' = (IF Shielded THEN Tap(tapped, shield) ELSE tapped)
        /\ scored' = scored \cup {UserTask[user]}
        /\ backend # "real" => shield' = shield
        /\ UNCHANGED <<arm, inj, returned, backend>>
    BY <1>7 DEF EndQuery, runVars
  <2>0. \/ user < Len(UserTask) /\ user' = user + 1 /\ pc' = "query"
        \/ user = Len(UserTask) /\ pc' \in {"drain", "rows"}
    <3>1. \/ user < Len(UserTask) /\ user' = user + 1 /\ UNCHANGED pc
          \/ ~(user < Len(UserTask)) /\ pc' \in {"drain", "rows"}
      BY <1>7 DEF EndQuery
    <3>2. user \in 1..Len(UserTask) /\ Len(UserTask) \in Nat
      BY <1>0
    <3>3. ~(user < Len(UserTask)) => user = Len(UserTask)
      BY <3>2
    <3>. QED BY <2>1, <3>1, <3>3
  <2>2. SinkHolds'
    <3> DEFINE after == Tap(tapped, shield)
    <3>1. Shielded' = Shielded
      BY <2>1 DEF Shielded
    <3>2. CASE Shielded
      <4>1. /\ \A l \in DOMAIN after :
                  \/ \E k \in DOMAIN shield : after[l] = shield[k]
                  \/ \E k \in DOMAIN tapped : after[l] = tapped[k]
            /\ \A k \in DOMAIN shield : \E l \in DOMAIN after : after[l] = shield[k]
        <5>1. shield \in Seq(Entry) /\ tapped \in Seq(Entry) /\ OneKeyEach(shield)
          BY <1>0 DEF GridType, BackInv, CallsFiled
        <5>. QED BY <5>1, TapHas
      <4> HIDE DEF after
      <4>2. tapped' = after
        BY <2>1, <3>2 DEF after
      <4>3. /\ \A k \in DOMAIN shield : \E r \in returned : r.verdict = shield[k].verdict
            /\ \A k \in DOMAIN tapped : \E r \in returned : r.verdict = tapped[k].verdict
        BY DEF BackInv, CallsFiled, SinkHolds
      <4>4. \A l \in DOMAIN after : \E r \in returned : r.verdict = after[l].verdict
        BY <4>1, <4>3
      <4>. QED BY <2>0, <2>1, <3>1, <3>2, <4>1, <4>2, <4>4 DEF SinkHolds
    <3>3. CASE ~Shielded
      <4>1. tapped' = tapped /\ tapped = <<>>
        BY <2>1, <3>3 DEF BackInv, SinkHolds, Running
      <4>. QED BY <2>0, <2>1, <3>1, <3>3, <4>1 DEF BackInv, SinkHolds
    <3>. QED BY <3>2, <3>3
  <2>3. \A m \in 1..user : UserTask[m] \in scored'
    <3>1. \A m \in 1..user : m = user \/ m \in 1..(user - 1)
      BY <1>0
    <3>2. \A m \in 1..(user - 1) : UserTask[m] \in scored
      BY <2>1 DEF BackInv, UsersScored
    <3>. QED BY <2>1, <3>1, <3>2
  <2>4. UsersScored'
    <3>1. CASE user' = user + 1 /\ pc' = "query"
      <4>1. user' - 1 = user
        BY <1>0, <3>1
      <4>. QED BY <2>3, <3>1, <4>1 DEF UsersScored
    <3>2. CASE user = Len(UserTask) /\ pc' \in {"drain", "rows"}
      <4>1. \A x \in ToSet(UserTask) : x \in scored'
        BY <1>0, <2>3, <3>2
      <4>. QED BY <3>2, <4>1 DEF UsersScored
    <3>. QED BY <2>0, <3>1, <3>2
  <2>. QED BY <2>2, <2>4
<1>8. CASE Raise
  BY <1>8, <1>a DEF Raise, cellVars, runVars, Running
<1>9. CASE DrainOne
  BY <1>9, <1>a DEF DrainOne, cellVars, loopVars, runVars
<1>10. CASE DrainEnd
  BY <1>10, <1>a DEF DrainEnd, loopVars, runVars
<1>11. CASE EndCell
  <2>1. UNCHANGED <<tapped, scored, shield, returned, backend>> /\ AfterCell
    BY <1>11 DEF EndCell, cellVars, runVars
  <2>2. pc' \in {"cell", "arm", "done"}
    BY <1>0, <2>1, AfterIs DEF NextCell, NextArm, Finish
  <2>. QED BY <1>a, <2>1, <2>2 DEF Running
<1>12. CASE UNCHANGED vars
  <2>1. UNCHANGED <<tapped, scored, shield, returned, backend, pc, arm, inj, user>>
    BY <1>12 DEF vars
  <2>. QED BY <1>a, <2>1
<1>. QED BY <1>1, <1>2, <1>3, <1>4, <1>5, <1>6, <1>7, <1>8, <1>9, <1>10, <1>11, <1>12 DEF Next

\* What is behind a row that says MEASURED, when some calls were made.
Backed(row, made, real) ==
    LET here  == {r \in made : r.cell = CellOf(row)}
        filed == IF real THEN here ELSE {r \in made : Before(r.cell, CellOf(row))}
    IN  row.label = "MEASURED" =>
          /\ row.oracle
          /\ ~Shields(row.arm) => row.decision = "NO_SHIELD"
          /\ row.decision = "NO_SHIELD" => here = {}
          /\ row.decision # "NO_SHIELD" =>
                \E r \in filed : /\ r.verdict.decision = row.decision
                                /\ Source(r.verdict) = row.source
          /\ real /\ (\E r \in here : r.verdict.decision = "BLOCK") =>
                row.decision = "BLOCK"

RowsBacked ==
    /\ \A n \in DOMAIN cases : Backed(cases[n], returned, backend = "real")
    /\ pc \in Looping => \A n \in DOMAIN cases : cases[n].label \in {"MEASURED", "SKIPPED"}

ReportBacked ==
    report # NoReport =>
        (report.evidence = "MEASURED" <=> \E n \in DOMAIN cases : cases[n].label = "MEASURED")

\* The rows of a cell that is over.
LEMMA CellBacked ==
    ASSUME BackInv, pc = "rows", NEW u \in ToSet(UserTask)
    PROVE  Backed(MeasuredRow(u), returned, backend = "real") /\ MeasuredRow(u).label = "MEASURED"
<1> DEFINE row == MeasuredRow(u)
           decision == PrimaryDecision(tapped)
           source == PrimarySource(tapped)
<1>1. GridType /\ Stands /\ pc \in Looping /\ pc \in Running
  BY DEF BackInv, CoverInv, Looping, Running
<1>2. /\ row.arm = Arm[arm] /\ row.label = "MEASURED" /\ CellOf(row) = Here
      /\ row.decision = decision /\ row.source = source /\ row.oracle = (u \in scored)
  <2>1. label = "MEASURED"
    BY <1>1 DEF Stands
  <2>. QED BY <2>1 DEF MeasuredRow, CellOf, Here
<1>3. Says(tapped, decision, source)
  BY <1>1, PrimaryIs DEF GridType
<1> HIDE DEF row, decision, source
<1>4. u \in scored
  BY DEF BackInv, UsersScored
<1>5. ~Shielded => tapped = <<>>
  BY <1>1 DEF BackInv, SinkHolds
<1>6. backend # "real" /\ Shielded =>
         \A k \in DOMAIN shield : \E l \in DOMAIN tapped : tapped[l] = shield[k]
  BY DEF BackInv, SinkHolds
<1>7. \A r \in returned : Reached(r.cell, arm, inj, TRUE) /\ Shields(r.cell.arm)
  BY <1>1 DEF BackInv, CallsFiled
<1>8. \A r \in returned : r.cell = Here => Shielded
  <2>1. Here.arm = Arm[arm]
    BY DEF Here
  <2>. QED BY <1>7, <2>1, Zenon DEF Shielded
<1>8a. backend = "real" =>
          /\ \A r \in returned : r.cell = Here => Filed(tapped, r.verdict)
          /\ \A k \in DOMAIN tapped : CalledIn(returned, Here, tapped[k].verdict)
  <2>1. backend = "real" => DOMAIN shield = {}
    <3>1. backend = "real" => shield = <<>>
      BY <1>1 DEF BackInv, OwnTable
    <3>. QED BY <3>1
  <2>. QED BY <1>1, <2>1 DEF BackInv, OwnTable, Filed
<1>9. decision = "NO_SHIELD" => \A r \in returned : r.cell # Here
  <2> SUFFICES ASSUME decision = "NO_SHIELD", NEW r \in returned, r.cell = Here PROVE FALSE
    OBVIOUS
  <2>1. tapped = <<>> /\ Shielded
    <3>1. tapped = <<>>
      BY <1>3, Zenon DEF Says
    <3>. QED BY <1>8, <3>1
  <2>2. DOMAIN tapped = {}
    BY <2>1
  <2>3. CASE backend = "real"
    BY <1>8a, <2>2, <2>3 DEF Filed
  <2>4. CASE backend # "real"
    <3>1. DOMAIN shield = {}
      BY <1>6, <2>1, <2>2, <2>4
    <3>2. shield = <<>>
      BY <1>1, <3>1 DEF GridType
    <3>. QED BY <2>4, <3>2 DEF BackInv, CallsFiled
  <2>. QED BY <2>3, <2>4
<1>10. \A r \in returned : Before(r.cell, Here)
  <2> SUFFICES ASSUME NEW r \in returned PROVE Before(r.cell, Here)
    OBVIOUS
  <2> DEFINE c == r.cell
  <2>1. Reached(c, arm, inj, TRUE)
    BY <1>7
  <2> HIDE DEF c
  <2>2. PICK k \in DOMAIN Arm, j \in DOMAIN InjTask :
           c = CellAt(k, j) /\ (Earlier(k, j, arm, inj) \/ (k = arm /\ j = inj))
    BY <2>1 DEF Reached
  <2>3. Here = CellAt(arm, inj)
    BY DEF Here, CellAt
  <2>4. Before(c, Here)
    BY <1>1, <2>2, <2>3, BeforeIs DEF GridType
  <2>. QED BY <2>4 DEF c
<1> DEFINE filed == IF backend = "real" THEN {r \in returned : r.cell = Here}
                    ELSE {r \in returned : Before(r.cell, Here)}
<1>11. decision # "NO_SHIELD" =>
          \E r \in filed : r.verdict.decision = decision /\ Source(r.verdict) = source
  <2> SUFFICES ASSUME decision # "NO_SHIELD"
               PROVE  \E r \in filed :
                         r.verdict.decision = decision /\ Source(r.verdict) = source
    OBVIOUS
  <2>1. PICK k \in DOMAIN tapped : /\ tapped[k].verdict.decision = decision
                                   /\ Source(tapped[k].verdict) = source
    BY <1>3 DEF Says
  <2>2. PICK r \in filed : r.verdict = tapped[k].verdict
    <3>1. CASE backend = "real"
      BY <1>8a, <3>1 DEF CalledIn
    <3>2. CASE backend # "real"
      BY <1>10, <3>2 DEF BackInv, SinkHolds
    <3>. QED BY <3>1, <3>2
  <2> HIDE DEF filed
  <2>3. r.verdict.decision = decision /\ Source(r.verdict) = source
    BY <2>1, <2>2
  <2>. QED BY <2>2, <2>3
<1>12. ASSUME backend = "real", NEW r \in returned, r.cell = Here, r.verdict.decision = "BLOCK"
       PROVE  decision = "BLOCK"
  <2>1. PICK l \in DOMAIN tapped : tapped[l].verdict = r.verdict
    BY <1>12, <1>8a DEF Filed
  <2>2. tapped[l].verdict.decision = "BLOCK"
    BY <1>12, <2>1
  <2>3. "BLOCK" \in Decided(tapped)
    BY <2>2, Zenon DEF Decided
  <2>. QED BY <1>3, <2>3 DEF Says
<1>13. ~Shields(row.arm) => decision = "NO_SHIELD"
  BY <1>2, <1>3, <1>5 DEF Says, Shielded
<1>14. Backed(row, returned, backend = "real")
  BY <1>2, <1>4, <1>9, <1>11, <1>12, <1>13 DEF Backed
<1>. QED BY <1>2, <1>14 DEF row

\* A row that says nothing of a measurement needs nothing behind it.
LEMMA UnmeasuredBacked ==
    ASSUME NEW row, row.label # "MEASURED", NEW made, NEW real
    PROVE  Backed(row, made, real)
BY DEF Backed

\* The evidence of a report.
LEMMA ReportIs ==
    ASSUME NEW arms, NEW rows \in Seq(Row), NEW l, NEW n0 \in DOMAIN rows,
           \/ l = "MEASURED" /\ \A n \in DOMAIN rows : rows[n].label \in {"MEASURED", "SKIPPED"}
           \/ l # "MEASURED" /\ \A n \in DOMAIN rows : rows[n].label = l
    PROVE  Report(arms, rows, l).evidence = "MEASURED" <=>
              \E n \in DOMAIN rows : rows[n].label = "MEASURED"
<1> DEFINE labels == {rows[n].label : n \in DOMAIN rows}
           one == CHOOSE x \in labels : TRUE
<1>1. Report(arms, rows, l).evidence = IF Cardinality(labels) = 1 THEN one ELSE l
  BY DEF Report
<1>2. IsFiniteSet(labels)
  <2> DEFINE f == [n \in DOMAIN rows |-> rows[n].label]
  <2>1. f \in Surjection(DOMAIN rows, labels)
    BY DEF Surjection
  <2>2. IsFiniteSet(DOMAIN rows)
    <3>1. DOMAIN rows = 1..Len(rows) /\ Len(rows) \in Nat
      OBVIOUS
    <3>. QED BY <3>1, FS_Interval
  <2> HIDE DEF f, labels
  <2>. QED BY <2>1, <2>2, FS_Surjection
<1>3. \A n \in DOMAIN rows : rows[n].label \in labels
  OBVIOUS
<1>4. \A x \in labels : \E n \in DOMAIN rows : rows[n].label = x
  OBVIOUS
<1> HIDE DEF labels
<1>5. one \in labels
  BY <1>3
<1>6. Cardinality(labels) = 1 <=> \E x : labels = {x}
  BY <1>2, FS_Singleton
<1> HIDE DEF one
<1>7. CASE Cardinality(labels) = 1
  <2>1. PICK x : labels = {x}
    BY <1>6, <1>7
  <2>2. \A n \in DOMAIN rows : rows[n].label = one
    BY <1>3, <1>5, <2>1
  <2>. QED BY <1>1, <1>7, <2>2
<1>8. CASE Cardinality(labels) # 1
  <2>1. ~(\E x : labels = {x})
    BY <1>6, <1>8
  <2>2. l = "MEASURED"
    <3> SUFFICES ASSUME l # "MEASURED" PROVE FALSE
      OBVIOUS
    <3>1. labels = {l}
      BY <1>3, <1>4
    <3>. QED BY <2>1, <3>1
  <2>3. \E n \in DOMAIN rows : rows[n].label = "MEASURED"
    <3> SUFFICES ASSUME \A n \in DOMAIN rows : rows[n].label # "MEASURED" PROVE FALSE
      OBVIOUS
    <3>1. \A n \in DOMAIN rows : rows[n].label = "SKIPPED"
      BY <2>2
    <3>2. labels = {"SKIPPED"}
      BY <1>3, <1>4, <3>1
    <3>. QED BY <2>1, <3>2
  <2>. QED BY <1>1, <1>8, <2>2, <2>3
<1>. QED BY <1>7, <1>8

MeasureInv == BackInv /\ RowsBacked /\ ReportBacked

\* Rows that are added to those there are.
Supports(rows) ==
    /\ rows \in Seq(Row) /\ rows # <<>>
    /\ \A n \in DOMAIN rows : /\ Backed(rows[n], returned, backend = "real")
                              /\ rows[n].label \in {"MEASURED", "SKIPPED"}

LEMMA RowsAdded ==
    ASSUME MeasureInv, [Next]_vars, pc \in Looping, NEW rows, Supports(rows),
           cases' = cases \o rows, pc' \in Looping \/ Finish,
           UNCHANGED <<returned, backend>>
    PROVE  RowsBacked' /\ ReportBacked'
<1>0. GridType /\ Stands /\ RowsBacked
  BY DEF MeasureInv, BackInv, CoverInv
<1>1. cases \in Seq(Row) /\ rows \in Seq(Row) /\ rows # <<>>
  BY <1>0 DEF GridType, Supports
<1>2. \A n \in DOMAIN cases' :
         \/ n \in DOMAIN cases /\ cases'[n] = cases[n]
         \/ n - Len(cases) \in DOMAIN rows /\ cases'[n] = rows[n - Len(cases)]
  BY <1>1
<1>3. \A n \in DOMAIN cases' : /\ Backed(cases'[n], returned, backend = "real")
                               /\ cases'[n].label \in {"MEASURED", "SKIPPED"}
  <2>1. \A n \in DOMAIN cases : /\ Backed(cases[n], returned, backend = "real")
                                /\ cases[n].label \in {"MEASURED", "SKIPPED"}
    BY <1>0 DEF RowsBacked
  <2>. QED BY <1>2, <2>1 DEF Supports
<1>4. RowsBacked'
  BY <1>3 DEF RowsBacked
<1>5. CASE pc' \in Looping
  <2>1. report' = NoReport
    BY <1>0, <1>5, NextGrid DEF Stands, Looping
  <2>. QED BY <1>4, <2>1 DEF ReportBacked
<1>6. CASE Finish
  <2>1. report' = Report(ToSet(Arm), cases', label) /\ label = "MEASURED"
    BY <1>0, <1>6 DEF Finish, Stands
  <2>2. cases' \in Seq(Row) /\ 1 \in DOMAIN cases'
    BY <1>1
  <2> DEFINE all == cases'
  <2>3. all \in Seq(Row) /\ 1 \in DOMAIN all
        /\ \A n \in DOMAIN all : all[n].label \in {"MEASURED", "SKIPPED"}
    BY <1>3, <2>2
  <2>4. report' = Report(ToSet(Arm), all, "MEASURED")
    BY <2>1
  <2> HIDE DEF all
  <2>5. report'.evidence = "MEASURED" <=> \E n \in DOMAIN all : all[n].label = "MEASURED"
    BY <2>3, <2>4, ReportIs
  <2>. QED BY <1>4, <2>5 DEF ReportBacked, all
<1>. QED BY <1>5, <1>6

\* Rows of skipped arms.
LEMMA PlainBacked ==
    ASSUME NEW rows, NEW arms, NEW a \in arms, PlainRows(rows, arms, "SKIPPED")
    PROVE  Supports(rows)
<1>1. /\ rows \in Seq(Row) /\ KeysAre(rows, KeysOf(arms))
      /\ \A n \in DOMAIN rows : rows[n].label = "SKIPPED"
  BY DEF PlainRows
<1>2. rows # <<>>
  <2>1. /\ 1 \in DOMAIN InjTask /\ InjTask[1] \in ToSet(InjTask)
        /\ 1 \in DOMAIN UserTask /\ UserTask[1] \in ToSet(UserTask)
    BY GridLists, IdsAre
  <2>2. <<a, InjTask[1], UserTask[1]>> \in KeysOf(arms)
    BY <2>1 DEF KeysOf
  <2>3. \E n \in DOMAIN rows : RowKey(rows[n]) = <<a, InjTask[1], UserTask[1]>>
    BY <1>1, <2>2 DEF KeysAre
  <2>4. DOMAIN (<<>>) = {}
    OBVIOUS
  <2>. QED BY <2>3, <2>4
<1>3. \A n \in DOMAIN rows : Backed(rows[n], returned, backend = "real")
  BY <1>1, UnmeasuredBacked
<1>. QED BY <1>1, <1>2, <1>3 DEF Supports

LEMMA InitMeasure == Init => MeasureInv
<1> SUFFICES ASSUME Init PROVE MeasureInv
  OBVIOUS
<1>1. CoverInv
  BY InitCover
<1>2. /\ pc = "start" /\ shield = <<>> /\ tapped = <<>> /\ cases = <<>>
      /\ returned = {} /\ report = NoReport
  BY DEF Init
<1>3. CallsFiled /\ OwnTable
  BY <1>2 DEF CallsFiled, OwnTable, OneKeyEach, Looping, Running
<1>4. SinkHolds /\ UsersScored
  BY <1>2 DEF SinkHolds, UsersScored, Running
<1>5. RowsBacked /\ ReportBacked
  BY <1>2 DEF RowsBacked, ReportBacked
<1>. QED BY <1>1, <1>3, <1>4, <1>5 DEF MeasureInv, BackInv

\* A call is of the cell that runs, which has no rows yet.
LEMMA CallBacked ==
    ASSUME MeasureInv, NEW v \in Verdicts, ToolCall(v)
    PROVE  RowsBacked' /\ ReportBacked'
<1> DEFINE call == [cell |-> Here, verdict |-> v]
<1>1. /\ pc = "query" /\ pc' = pc /\ returned' = returned \cup {call}
      /\ UNCHANGED <<cases, backend, report>>
  BY Zenon DEF ToolCall, runVars
<1>2. GridType /\ KeysAre(cases, Covered(arm, inj)) /\ RowsBacked /\ ReportBacked
  BY <1>1 DEF MeasureInv, BackInv, CoverInv, RowsCover, Looping
<1>3. ASSUME NEW n \in DOMAIN cases
      PROVE  CellOf(cases[n]) # Here
  <2> SUFFICES ASSUME CellOf(cases[n]) = Here PROVE FALSE
    OBVIOUS
  <2>1. cases[n].arm = Arm[arm] /\ cases[n].inj = InjTask[inj]
    BY DEF CellOf, Here
  <2>2. RowKey(cases[n]) \in Covered(arm, inj)
    BY <1>2 DEF KeysAre
  <2>3. RowKey(cases[n]) \in KeysOf(ToSet(Arm))
    BY <2>2 DEF Covered
  <2>4. cases[n].user \in ToSet(UserTask)
    BY <2>3 DEF KeysOf, RowKey
  <2>5. RowKey(cases[n]) \in CellKeys
    BY <2>1, <2>4 DEF RowKey, CellKeys
  <2>. QED BY <1>2, <2>2, <2>5, CoveredCell
<1>4. call.cell = Here
  OBVIOUS
<1> HIDE DEF call
<1>5. ASSUME NEW n \in DOMAIN cases
      PROVE  Backed(cases[n], returned', backend = "real")
  <2> DEFINE row == cases[n]
  <2>1. Backed(row, returned, backend = "real")
    BY <1>2 DEF RowsBacked
  <2>2. CellOf(row) # Here
    BY <1>3
  <2> HIDE DEF row
  <2>3. {r \in returned' : r.cell = CellOf(row)} = {r \in returned : r.cell = CellOf(row)}
    BY <1>1, <1>4, <2>2
  <2>4. Backed(row, returned', backend = "real")
    BY <1>1, <2>1, <2>3 DEF Backed
  <2>. QED BY <2>4 DEF row
<1>6. RowsBacked'
  BY <1>1, <1>2, <1>5 DEF RowsBacked, Looping
<1>7. ReportBacked'
  BY <1>1, <1>2 DEF ReportBacked
<1>. QED BY <1>6, <1>7

LEMMA NextMeasure == MeasureInv /\ [Next]_vars => MeasureInv'
<1> SUFFICES ASSUME MeasureInv, [Next]_vars PROVE MeasureInv'
  OBVIOUS
<1>0. BackInv /\ CoverInv /\ GridType /\ Stands /\ RowsBacked /\ ReportBacked
  BY DEF MeasureInv, BackInv, CoverInv
<1>a. BackInv'
  <2>1. CallsFiled' /\ OwnTable'
    BY <1>0, CallFiled, QueryTapped, CallsStay
  <2>. QED BY <1>0, <2>1, NextCover, NextSink DEF BackInv
\* The rows and the report stay.
<1>b. ASSUME UNCHANGED <<cases, returned, backend, report>>, pc \in Looping \/ pc' \notin Looping
      PROVE  RowsBacked' /\ ReportBacked'
  <2>1. RowsBacked'
    BY <1>0, <1>b DEF RowsBacked
  <2>2. ReportBacked'
    BY <1>0, <1>b DEF ReportBacked
  <2>. QED BY <2>1, <2>2
<1>1. CASE Estimate
  <2>1. UNCHANGED <<cases, returned, backend, report>> /\ pc' \notin Looping
    BY <1>1 DEF Estimate, Looping
  <2>. QED BY <1>a, <1>b, <2>1 DEF MeasureInv
<1>2. CASE MockGrid
  <2>1. PlainRows(cases', Requested, "MOCKED")
    BY <1>2, TemplateRowsAre, Zenon DEF MockGrid
  <2> DEFINE all == cases'
  <2>2. pc' = "done" /\ report' = Report(Requested, all, "MOCKED")
    BY <1>2 DEF MockGrid
  <2>3. all \in Seq(Row) /\ \A n \in DOMAIN all : all[n].label = "MOCKED"
    BY <2>1 DEF PlainRows
  <2>4. RowsBacked'
    BY <2>2, <2>3, UnmeasuredBacked DEF RowsBacked, Looping
  <2> HIDE DEF all
  <2>5. \E n \in DOMAIN all : TRUE
    <3>1. /\ 1 \in DOMAIN InjTask /\ InjTask[1] \in ToSet(InjTask)
          /\ 1 \in DOMAIN UserTask /\ UserTask[1] \in ToSet(UserTask)
      BY GridLists, IdsAre
    <3>2. PICK a : a \in Requested
      BY DEF Requested, FullGridArms
    <3>3. KeysAre(all, KeysOf(Requested))
      BY <2>1 DEF PlainRows, all
    <3>4. <<a, InjTask[1], UserTask[1]>> \in KeysOf(Requested)
      BY <3>1, <3>2 DEF KeysOf
    <3>. QED BY <3>3, <3>4 DEF KeysAre
  <2>6. report'.evidence = "MEASURED" <=> \E n \in DOMAIN all : all[n].label = "MEASURED"
    BY <2>2, <2>3, <2>5, ReportIs
  <2>7. ReportBacked'
    BY <2>6 DEF ReportBacked, all
  <2>. QED BY <1>a, <2>4, <2>7 DEF MeasureInv
<1>3. CASE StartServer
  <2>1. /\ pc = "server" /\ UNCHANGED <<returned, backend>>
        /\ \/ pc' = "arm" /\ UNCHANGED <<cases, report>>
           \/ /\ pc' = "done" /\ cases' = SkippedRows(ToSet(Arm))
              /\ report' = Report(ToSet(Arm), cases', "SKIPPED")
    BY <1>3 DEF StartServer
  <2>2. cases = <<>> /\ report = NoReport
    BY <1>0, <2>1 DEF Stands
  <2>3. CASE pc' = "arm" /\ UNCHANGED <<cases, report>>
    <3>1. RowsBacked'
      BY <2>2, <2>3 DEF RowsBacked
    <3>2. ReportBacked'
      BY <2>2, <2>3 DEF ReportBacked
    <3>. QED BY <1>a, <3>1, <3>2 DEF MeasureInv
  <2>4. CASE /\ pc' = "done" /\ cases' = SkippedRows(ToSet(Arm))
             /\ report' = Report(ToSet(Arm), cases', "SKIPPED")
    <3> DEFINE all == SkippedRows(ToSet(Arm))
    <3>1. PlainRows(all, ToSet(Arm), "SKIPPED")
      BY GridLists, IdsAre, SkippedRowsAre DEF Arms
    <3>2. \E a : a \in ToSet(Arm)
      BY GridLists, IdsAre
    <3> HIDE DEF all
    <3>3. cases' = all /\ report' = Report(ToSet(Arm), all, "SKIPPED")
      BY <2>4 DEF all
    <3>4. Supports(all)
      BY <3>1, <3>2, PlainBacked
    <3>5. /\ all \in Seq(Row) /\ all # <<>>
          /\ \A n \in DOMAIN all : all[n].label = "SKIPPED"
      BY <3>1, <3>4 DEF Supports, PlainRows
    <3>6. RowsBacked'
      BY <2>1, <2>4, <3>3, <3>4 DEF RowsBacked, Supports, Looping
    <3>7. 1 \in DOMAIN all
      BY <3>5
    <3>8. report'.evidence = "MEASURED" <=> \E n \in DOMAIN all : all[n].label = "MEASURED"
      BY <3>3, <3>5, <3>7, ReportIs
    <3>9. ReportBacked'
      BY <3>3, <3>8 DEF ReportBacked
    <3>. QED BY <1>a, <3>6, <3>9 DEF MeasureInv
  <2>. QED BY <2>1, <2>3, <2>4
<1>4. CASE ResolveArm
  <2>1. pc = "arm" /\ pc \in Looping /\ UNCHANGED <<returned, backend>>
    BY <1>4 DEF ResolveArm, Looping, runVars
  <2>2. CASE Resolve(Arm[arm]) # <<>>
    <3>1. UNCHANGED <<cases, returned, backend, report>>
      BY <1>4, <2>1, <2>2 DEF ResolveArm
    <3>. QED BY <1>a, <1>b, <2>1, <3>1 DEF MeasureInv
  <2>3. CASE ~(Resolve(Arm[arm]) # <<>>)
    <3> DEFINE rows == SkippedRows({Arm[arm]})
    <3>1. cases' = cases \o rows /\ AfterArm
      BY <1>4, <2>3 DEF ResolveArm
    <3>2. Supports(rows)
      <4>1. Arm[arm] \in ToSet(Arm)
        BY <1>0, GridLists, IdsAre DEF GridType
      <4>2. IsFiniteSet({Arm[arm]}) /\ {Arm[arm]} \subseteq Arms
        BY <4>1, FS_Singleton DEF Arms
      <4>3. PlainRows(rows, {Arm[arm]}, "SKIPPED")
        BY <4>2, SkippedRowsAre
      <4> HIDE DEF rows
      <4>4. Arm[arm] \in {Arm[arm]}
        OBVIOUS
      <4>. QED BY <4>3, <4>4, PlainBacked
    <3> HIDE DEF rows
    <3>3. pc' \in Looping \/ Finish
      BY <1>0, <3>1, AfterIs DEF NextArm, Looping
    <3>. QED BY <1>a, <2>1, <3>1, <3>2, <3>3, RowsAdded DEF MeasureInv
  <2>. QED BY <2>2, <2>3
<1>5. CASE StartCell
  <2>1. pc = "cell" /\ pc \in Looping /\ UNCHANGED <<returned, backend>>
    BY <1>5 DEF StartCell, Looping, runVars
  <2>2. CASE UNCHANGED <<cases, report>>
    BY <1>a, <1>b, <2>1, <2>2 DEF MeasureInv
  <2>3. CASE /\ cases' = cases \o [n \in DOMAIN UserTask |-> CaseRow(FALSE, UserTask[n])]
             /\ AfterCell
    <3> DEFINE rows == [n \in DOMAIN UserTask |-> CaseRow(FALSE, UserTask[n])]
    <3>1. cases' = cases \o rows
      BY <2>3
    <3>2. CellRows(rows, FALSE)
      BY <1>0, CellRowsAre
    <3> HIDE DEF rows
    <3>3. \A n \in DOMAIN rows : rows[n].label = "SKIPPED"
      BY <3>2 DEF CellRows, CaseRow, SkippedRow
    <3>4. rows # <<>>
      BY <3>2, GridLists, IdsAre DEF CellRows
    <3>5. Supports(rows)
      BY <3>2, <3>3, <3>4, UnmeasuredBacked DEF CellRows, Supports
    <3>6. pc' \in Looping \/ Finish
      BY <1>0, <2>3, AfterIs DEF NextCell, NextArm, Looping
    <3>. QED BY <1>a, <2>1, <3>1, <3>5, <3>6, RowsAdded DEF MeasureInv
  <2>. QED BY <1>5, <2>2, <2>3 DEF StartCell
<1>6. CASE \E v \in Verdicts : ToolCall(v)
  BY <1>6, <1>a, CallBacked DEF MeasureInv
<1>7. CASE EndQuery
  <2>1. UNCHANGED <<cases, returned, backend, report>> /\ pc \in Looping
    BY <1>7 DEF EndQuery, Looping, runVars
  <2>. QED BY <1>a, <1>b, <2>1 DEF MeasureInv
<1>8. CASE Raise
  <2>1. UNCHANGED <<cases, returned, backend, report>> /\ pc \in Looping
    BY <1>8 DEF Raise, Looping, runVars
  <2>. QED BY <1>a, <1>b, <2>1 DEF MeasureInv
<1>9. CASE DrainOne
  <2>1. UNCHANGED <<cases, returned, backend, report>> /\ pc \in Looping
    BY <1>9 DEF DrainOne, Looping, runVars
  <2>. QED BY <1>a, <1>b, <2>1 DEF MeasureInv
<1>10. CASE DrainEnd
  <2>1. UNCHANGED <<cases, returned, backend, report>> /\ pc \in Looping
    BY <1>10 DEF DrainEnd, Looping, runVars
  <2>. QED BY <1>a, <1>b, <2>1 DEF MeasureInv
<1>11. CASE EndCell
  <2> DEFINE rows == [n \in DOMAIN UserTask |-> CaseRow(TRUE, UserTask[n])]
  <2>1. /\ pc = "rows" /\ cases' = cases \o rows /\ AfterCell
        /\ UNCHANGED <<returned, backend>>
    BY <1>11, Zenon DEF EndCell, runVars
  <2>2. CellRows(rows, TRUE)
    BY <1>0, CellRowsAre
  <2> HIDE DEF rows
  <2>3. \A n \in DOMAIN rows : /\ Backed(rows[n], returned, backend = "real")
                               /\ rows[n].label \in {"MEASURED", "SKIPPED"}
    <3> SUFFICES ASSUME NEW n \in DOMAIN rows
                 PROVE  /\ Backed(rows[n], returned, backend = "real")
                        /\ rows[n].label \in {"MEASURED", "SKIPPED"}
      OBVIOUS
    <3>1. rows[n] = MeasuredRow(UserTask[n])
      BY <2>2 DEF CellRows, CaseRow
    <3>2. UserTask[n] \in ToSet(UserTask)
      <4>1. n \in DOMAIN UserTask
        BY <2>2, GridLists, IdsAre DEF CellRows
      <4>. QED BY <4>1, GridLists, IdsAre
    <3>. QED BY <1>0, <2>1, <3>1, <3>2, CellBacked
  <2>4. Supports(rows)
    BY <2>2, <2>3, GridLists, IdsAre DEF CellRows, Supports
  <2>5. pc' \in Looping \/ Finish
    BY <1>0, <2>1, AfterIs DEF NextCell, NextArm, Looping
  <2>6. pc \in Looping
    BY <2>1 DEF Looping
  <2>. QED BY <1>a, <2>1, <2>4, <2>5, <2>6, RowsAdded DEF MeasureInv
<1>12. CASE UNCHANGED vars
  <2>1. UNCHANGED <<cases, returned, backend, report, pc>>
    BY <1>12 DEF vars
  <2>. QED BY <1>a, <1>b, <2>1 DEF MeasureInv
<1>. QED BY <1>1, <1>2, <1>3, <1>4, <1>5, <1>6, <1>7, <1>8, <1>9, <1>10, <1>11, <1>12 DEF Next

\* A row says MEASURED of a cell whose oracle was asked, with a decision that
\* was returned to a call: in a real run one of its own cell, and BLOCK when one
\* was blocked; over http one of its cell or of an earlier one.  So does the
\* report (run_ab.py, _primary_decision): for every grid and number of calls.
THEOREM MeasuredIsBacked == Spec => []MeasuredBacked
<1>1. MeasureInv => MeasuredBacked
  <2> SUFFICES ASSUME MeasureInv PROVE MeasuredBacked
    OBVIOUS
  <2>1. \A n \in DOMAIN cases : Backed(cases[n], returned, backend = "real")
    BY DEF MeasureInv, RowsBacked
  <2>2. ReportBacked
    BY DEF MeasureInv
  <2>. QED BY <2>1, <2>2, Zenon DEF MeasuredBacked, Backed, ReportBacked
<1>. QED BY InitMeasure, NextMeasure, <1>1, PTL DEF Spec
=============================================================================
