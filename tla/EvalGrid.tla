------------------------------ MODULE EvalGrid ------------------------------
(***************************************************************************)
(* run_ab --full of shield-eval: every arm, injection task and user task   *)
(* of the grid is run through an agent pipeline, scored by the AgentDojo   *)
(* oracle, and reported as one case row; with the mock backend the rows    *)
(* are written from a template.  The arms with a shield call one           *)
(* in-process server; after each of their cells the harness drains the     *)
(* records the guardians have yet to judge and credits the cell with the   *)
(* evidence.                                                               *)
(*                                                                         *)
(* The pipelines of all shield arms are given one extra_args dictionary.   *)
(* With the http backend they share the SDK's table of decisions in it     *)
(* (elements.py:112).  The worker of the real backend passes a copy of the *)
(* dictionary on (run_ab.py:100), so the guard's table reaches the tap of  *)
(* its own pipeline and no other, and the next user's starts with none.    *)
(* A tool call is filed under its id, which a provider makes unique, or    *)
(* under its position in the message, which is all the MockedLLM of the    *)
(* http backend gives it.                                                  *)
(*                                                                         *)
(* The agent, the oracle and the server's verdicts are external: a query   *)
(* makes up to MaxCalls tool calls, each with any verdict of Verdicts, and *)
(* the oracle any answer.  A verdict is a decision with what its reasons   *)
(* name: a degraded SDK, the Defender, or a guardian with a model.         *)
(***************************************************************************)
EXTENDS EvalPlan, Sequences, SequencesExt

CONSTANTS
    Arm,            \* tokens of --arms in their order
    NativeBaselines,    \* AgentDojo's built-in defences
    UserTask, InjTask,    \* task ids in their order
    Verdicts,
    MaxCalls,       \* bound: tool calls of one query
    Backends,
    Prompts, Thresholds     \* serialized_prompt_chars, planning_threshold_usd

Sources == <<"governance", "sync_defender_local", "sdk_fail_closed">>

FullGridArms == {"A0", "A0b", "A1", "A2", "A3"}
Detection    == {"ALERT", "BLOCK", "ESCALATE", "ROLLBACK", "REWRITE"}
NoReport     == [label |-> "none", evidence |-> "none", trials |-> 0, detected |-> 0]
HardCap      == 5000000

\* The ids of a grid are the keys of the suite and the default arms, or lists
\* given on the command line, of which those that name an id twice are left out.
ASSUME EvalGridAssumption ==
    /\ \A ids \in {Arm, UserTask, InjTask} :
          ids \in Seq(STRING) /\ ids # <<>> /\ IsInjective(ids)
    /\ \A v \in Verdicts : v.decision \in Detection \cup {"PASS"}
    /\ MaxCalls \in Nat \ {0}
    /\ Backends \subseteq {"http", "real", "mock"}
    /\ \A v \in Verdicts : v.names \subseteq {"degraded", "defender", "model"}

VARIABLES
    pc,
    backend,
    budget,     \* status of the plan of a real run
    label,      \* evidence_label of the run, SKIPPED without a server
    arm, inj, user,     \* positions of the loops over the grid
    calls,      \* tool calls of the query so far
    shield,     \* extra_args["shield"]["decisions"] of the pipeline, as inserted
    tapped,     \* decisions of the cell's sink
    evidence,   \* records whose guardian rows the cell's sink has
    scored,     \* users of the cell the oracle has a result for
    actions,    \* cells of the records on shield:actions yet to be judged
    cursor,     \* entries of it the drain's worker has read
    sidecars,   \* positions of the records with an evidence object
    seen,       \* those the drain has returned
    errors,     \* judgements that raised
    cases,      \* the rows
    report,     \* of the run, none at first
    returned    \* history: cell and verdict of every tool call

vars == <<pc, backend, budget, label, arm, inj, user, calls, shield, tapped,
          evidence, scored, actions, cursor, sidecars, seen, errors, cases, report,
          returned>>

loopVars   == <<arm, inj, user, calls>>
serverVars == <<actions, cursor, sidecars, seen, errors>>
cellVars   == <<tapped, evidence, scored>>
runVars    == <<backend, budget, label>>

-----------------------------------------------------------------------------
Here == [arm |-> Arm[arm], inj |-> InjTask[inj]]

\* The arms a token names, in order; the grid runs the first of them.
Resolve(token) ==
    LET native(k) == [key |-> k, kind |-> "native"]
        withShield(k) == [key |-> k, kind |-> "shield"]
    IN  CASE token \in {"A0", "baseline", "none"} -> <<native("A0")>>
          [] token \in {"A0b", "baselines", "all"} ->
                [n \in DOMAIN NativeBaselines |-> native(NativeBaselines[n])]
          [] token \in ToSet(NativeBaselines) -> <<native(token)>>
          [] token \in {"A1", "A2", "A3"} -> <<withShield(token)>>
          [] token = "shielded" -> <<withShield("A2")>>
          [] OTHER -> <<>>

Shields(token) == Resolve(token) # <<>> /\ Resolve(token)[1].kind = "shield"

Shielded == Shields(Arm[arm])

\* Who decided, read off the reasons of a verdict.
Source(v) ==
    CASE "degraded" \in v.names -> "sdk_fail_closed"
      [] "degraded" \notin v.names /\ v.names = {"defender"} -> "sync_defender_local"
      [] OTHER -> "governance"

\* dict.update: a key that is there keeps its place.
Put(decisions, key, v) ==
    LET old == {k \in DOMAIN decisions : decisions[k].key = key}
        entry == [key |-> key, verdict |-> v]
    IN  IF old = {} THEN Append(decisions, entry)
        ELSE [decisions EXCEPT ![CHOOSE k \in old : TRUE] = entry]

Decided(decisions) == {decisions[k].verdict.decision : k \in DOMAIN decisions}

\* Mutant: the first decision stands for the cell.
FirstDecision(decisions) ==
    IF decisions = <<>> THEN "NO_SHIELD" ELSE decisions[1].verdict.decision

PrimaryDecision(decisions) ==
    IF decisions = <<>> THEN "NO_SHIELD"
    ELSE IF "BLOCK" \in Decided(decisions) THEN "BLOCK"
    ELSE decisions[1].verdict.decision

\* The first source, in the order of Sources, among the verdicts with the
\* primary decision.
PrimarySource(decisions) ==
    LET of == {Source(decisions[k].verdict) :
                  k \in {j \in DOMAIN decisions :
                     decisions[j].verdict.decision = PrimaryDecision(decisions)}}
    IN  IF decisions = <<>> THEN "none"
        ELSE Sources[CHOOSE n \in DOMAIN Sources :
                /\ Sources[n] \in of
                /\ \A m \in 1..(n - 1) : Sources[m] \notin of]

\* The tap at the end of the pipeline copies the table into the cell's sink.
Tap(sink, table) ==
    FoldLeft(LAMBDA acc, d : Put(acc, d.key, d.verdict), sink, table)

SkippedRow(a, i, u) ==
    [arm |-> a, inj |-> i, user |-> u, label |-> "SKIPPED",
     decision |-> "SKIPPED", source |-> "skipped", evidence |-> {},
     oracle |-> FALSE]

MeasuredRow(u) ==
    LET source == PrimarySource(tapped)
    IN  [arm |-> Arm[arm], inj |-> InjTask[inj], user |-> u, label |-> label,
         decision |-> PrimaryDecision(tapped), source |-> source,
         evidence |-> IF source = "governance" THEN evidence ELSE {},
         oracle |-> u \in scored]

\* _measured_case_row.
CaseRow(available, u) ==
    IF available THEN MeasuredRow(u) ELSE SkippedRow(Arm[arm], InjTask[inj], u)

\* Mutant: what was returned to an earlier cell is not remembered.
AllSidecars == sidecars

\* _new_sidecar_rows.
NewSidecars == sidecars \ seen

Requested ==
    LET known == ToSet(Arm) \cap FullGridArms
    IN  IF known = {} THEN FullGridArms ELSE known

\* The first of some arms in the order of the grid.
Foremost(arms) ==
    Arm[CHOOSE n \in DOMAIN Arm : Arm[n] \in arms /\ \A m \in 1..(n - 1) : Arm[m] \notin arms]

\* Rows in some order; nothing tells two orders apart.
Listed(rows) == FoldSet(LAMBDA row, list : Append(list, row), <<>>, rows)

\* A row for every injection task and user task of some arms.
KeysOf(arms) == arms \X ToSet(InjTask) \X ToSet(UserTask)

SkippedRows(arms) == Listed({SkippedRow(k[1], k[2], k[3]) : k \in KeysOf(arms)})

TemplateRow(a, i, u) ==
    [arm |-> a, inj |-> i, user |-> u, label |-> "MOCKED",
     decision |-> CASE a = "A0" -> "NO_SHIELD" [] a = "A0b" -> "BUILTIN_BASELINE"
                    [] a = "A1" -> "PASS" [] OTHER -> "BLOCK",
     source |-> "none", evidence |-> {}, oracle |-> FALSE]

\* build_full_grid_metrics_report: the rates are those of one arm, and the
\* label of the evidence is that of the rows when they all have the same.
Report(arms, rows, runLabel) ==
    LET primary == IF "A2" \in arms THEN "A2" ELSE Foremost(arms)
        trials  == {n \in DOMAIN rows : rows[n].arm = primary /\ rows[n].label # "SKIPPED"}
        labels  == {rows[n].label : n \in DOMAIN rows}
    IN  [label    |-> runLabel,
         evidence |-> IF Cardinality(labels) = 1
                      THEN CHOOSE l \in labels : TRUE ELSE runLabel,
         trials   |-> Cardinality(trials),
         detected |-> Cardinality({n \in trials : rows[n].decision \in Detection})]

-----------------------------------------------------------------------------
Init ==
    /\ pc = "start"
    /\ backend \in Backends
    /\ budget = "ESTIMATED"
    /\ label = "SKIPPED"
    /\ arm = 1 /\ inj = 1 /\ user = 1 /\ calls = 0
    /\ shield = <<>> /\ tapped = <<>> /\ evidence = {}
    /\ scored = {}
    /\ actions = <<>> /\ cursor = 0 /\ sidecars = {} /\ seen = {}
    /\ errors = 0
    /\ cases = <<>>
    /\ report = NoReport
    /\ returned = {}

Plan(chars) ==
    [arms |-> Len(Arm), users |-> Len(UserTask), injections |-> Len(InjTask),
     samples |-> 1, chars |-> chars, output |-> 1, model |-> Haiku,
     profile |-> "provider-slice-haiku", shielded |-> ToSet(Arm) \cap {"A1", "A2", "A3"} # {}]

\* A real run goes on when its plan was not skipped, with the whole grid also
\* if the plan was shrunk; otherwise the artifact of a slice is all it writes.
Estimate ==
    /\ pc = "start"
    /\ backend # "mock"
    /\ IF backend = "http" THEN pc' = "server" /\ UNCHANGED budget
       ELSE \E chars \in Prompts, threshold \in Thresholds, key \in BOOLEAN :
               LET status == RunnerBudget(Plan(chars), threshold, HardCap, key).status
               IN  /\ budget' = status
                   /\ pc' = IF status = "SKIPPED" THEN "done" ELSE "server"
    /\ UNCHANGED <<report, backend, label, loopVars, shield, cellVars, serverVars, cases,
                   returned>>

\* The template fills the grid of the arms it knows, and no row says of the
\* others that they were left out.
MockGrid ==
    /\ pc = "start"
    /\ backend = "mock"
    /\ pc' = "done"
    /\ cases' = Listed({TemplateRow(k[1], k[2], k[3]) : k \in KeysOf(Requested)})
    /\ report' = Report(Requested, cases', "MOCKED")
    /\ UNCHANGED <<runVars, loopVars, shield, cellVars, serverVars, returned>>

\* real_server_harness: it starts, or the whole grid is reported as skipped.
StartServer ==
    /\ pc = "server"
    /\ \/ /\ label' = "MEASURED"
          /\ pc' = "arm"
          /\ UNCHANGED <<cases, report>>
       \/ /\ label' = "SKIPPED"
          /\ pc' = "done"
          /\ cases' = SkippedRows(ToSet(Arm))
          /\ report' = Report(ToSet(Arm), cases', "SKIPPED")
    /\ UNCHANGED <<backend, budget, loopVars, shield, cellVars, serverVars, returned>>

AfterArm ==
    IF arm < Len(Arm) THEN pc' = "arm" /\ arm' = arm + 1 /\ inj' = 1 /\ UNCHANGED report
    ELSE pc' = "done" /\ report' = Report(ToSet(Arm), cases', label) /\ UNCHANGED <<arm, inj>>

AfterCell ==
    IF inj < Len(InjTask) THEN pc' = "cell" /\ inj' = inj + 1 /\ UNCHANGED <<arm, report>>
    ELSE AfterArm

\* Mutant: an arm that cannot be resolved is passed over without rows.
ResolveArmSilently ==
    /\ pc = "arm"
    /\ IF Resolve(Arm[arm]) # <<>>
       THEN pc' = "cell" /\ UNCHANGED <<arm, inj, cases, report>>
       ELSE UNCHANGED cases /\ AfterArm
    /\ UNCHANGED <<runVars, user, calls, shield, cellVars, serverVars, returned>>

ResolveArm ==
    /\ pc = "arm"
    /\ IF Resolve(Arm[arm]) # <<>>
       THEN pc' = "cell" /\ UNCHANGED <<arm, inj, cases, report>>
       ELSE cases' = cases \o SkippedRows({Arm[arm]}) /\ AfterArm
    /\ UNCHANGED <<runVars, user, calls, shield, cellVars, serverVars, returned>>

\* The worker model and the pipeline of the first user task are built, with a
\* fresh sink; ArmUnavailable ends the cell with skipped rows.
StartCell ==
    /\ pc = "cell"
    /\ \/ /\ pc' = "query"
          /\ user' = 1 /\ calls' = 0
          /\ tapped' = <<>> /\ evidence' = {}
          /\ scored' = {}
          /\ UNCHANGED <<arm, inj, cases, report>>
       \/ /\ cases' = cases \o [n \in DOMAIN UserTask |-> CaseRow(FALSE, UserTask[n])]
          /\ AfterCell
          /\ UNCHANGED <<user, calls, cellVars>>
    /\ UNCHANGED <<runVars, shield, serverVars, returned>>

\* ShieldGuard files the verdict on a tool call; its outcome record may reach
\* the server, where it waits for the guardians.
ToolCall(v) ==
    /\ pc = "query" /\ Shielded /\ calls < MaxCalls
    /\ calls' = calls + 1
    /\ shield' = Put(shield, IF backend = "http" THEN "position"
                             ELSE <<Here, UserTask[user], calls>>, v)
    /\ returned' = returned \cup {[cell |-> Here, verdict |-> v]}
    /\ actions' \in {actions, Append(actions, Here)}
    /\ UNCHANGED <<report, pc, runVars, arm, inj, user, cellVars, cursor, sidecars, seen,
                   errors, cases>>

\* The query ends; _DecisionTap copies the table of decisions into the sink,
\* and the oracle says whether the injected task was carried out; what it says
\* is not told apart, only that it was asked.  The pipeline is done with, and a
\* real one takes its table along.
EndQuery ==
    /\ pc = "query"
    /\ tapped' = IF Shielded
                 THEN Tap(tapped, shield) ELSE tapped
    /\ scored' = scored \cup {UserTask[user]}
    /\ IF user < Len(UserTask)
       THEN user' = user + 1 /\ calls' = 0 /\ UNCHANGED pc
       ELSE /\ pc' = IF Shielded /\ PrimarySource(tapped') = "governance"
                     THEN "drain" ELSE "rows"
            /\ UNCHANGED <<user, calls>>
    /\ shield' = IF backend = "real" THEN <<>> ELSE shield
    /\ UNCHANGED <<report, runVars, arm, inj, evidence, serverVars, cases, returned>>

\* A task of the benchmark raises: the server is closed and no report written.
Raise ==
    /\ pc = "query"
    /\ pc' = "raised"
    /\ UNCHANGED <<report, runVars, loopVars, shield, cellVars, serverVars, cases, returned>>

\* One run_once of the drain: the worker's cursor moves past the record before
\* the guardians judge it; if they raise, the record is not read again.
DrainOne ==
    /\ pc = "drain"
    /\ cursor < Len(actions)
    /\ cursor' = cursor + 1
    /\ \/ sidecars' = sidecars \cup {cursor + 1} /\ UNCHANGED errors
       \/ errors' = errors + 1 /\ UNCHANGED sidecars
    /\ UNCHANGED <<report, pc, runVars, loopVars, shield, cellVars, actions, seen, cases,
                   returned>>

\* Nothing was read, or the two seconds are over: what has been judged since
\* the last drain is credited to this cell.
DrainEnd ==
    /\ pc = "drain"
    /\ evidence' = evidence \cup NewSidecars
    /\ seen' = seen \cup sidecars
    /\ pc' = "rows"
    /\ UNCHANGED <<report, runVars, loopVars, shield, tapped, scored, actions, cursor,
                   sidecars, errors, cases, returned>>

EndCell ==
    /\ pc = "rows"
    /\ cases' = cases \o [n \in DOMAIN UserTask |-> CaseRow(TRUE, UserTask[n])]
    /\ AfterCell
    /\ UNCHANGED <<runVars, user, calls, shield, cellVars, serverVars, returned>>

Next ==
    \/ Estimate
    \/ MockGrid
    \/ StartServer
    \/ ResolveArm
    \/ StartCell
    \/ \E v \in Verdicts : ToolCall(v)
    \/ EndQuery
    \/ Raise
    \/ DrainOne
    \/ DrainEnd
    \/ EndCell

Spec == Init /\ [][Next]_vars

-----------------------------------------------------------------------------
CellOf(row) == [arm |-> row.arm, inj |-> row.inj]

\* The place of a cell in the order of the loops.
Before(c, d) ==
    LET place(cell) == CHOOSE p \in (DOMAIN Arm) \X (DOMAIN InjTask) :
                          Arm[p[1]] = cell.arm /\ InjTask[p[2]] = cell.inj
        a == place(c)
        b == place(d)
    IN  a[1] < b[1] \/ (a[1] = b[1] /\ a[2] <= b[2])

\* A run that ends with its grid executed or refused reports every arm, user
\* task and injection task exactly once, the arms it could not resolve and the
\* server it could not start included; only the mock backend drops the arms it
\* has no template for.  The rates of the report are divided by the number of
\* rows (run_ab.py, _dispatch_full).
RowsComplete ==
    pc = "done" /\ budget # "SKIPPED" =>
        LET arms == IF backend = "mock" THEN Requested ELSE ToSet(Arm)
        IN  /\ \A a \in arms, i \in ToSet(InjTask), u \in ToSet(UserTask) :
                 Cardinality({n \in DOMAIN cases :
                     /\ CellOf(cases[n]) = [arm |-> a, inj |-> i]
                     /\ cases[n].user = u}) = 1
            /\ \A n \in DOMAIN cases : cases[n].arm \in arms

\* What the guardians made of a record is credited to one cell only, whose rows
\* all carry it, and never to a cell that reports no decision of theirs
\* (run_ab.py, _new_sidecar_rows and the drain).
EvidenceOnce ==
    \A m, n \in DOMAIN cases :
        /\ cases[m].evidence \cap cases[n].evidence # {} =>
               CellOf(cases[m]) = CellOf(cases[n])
        /\ cases[m].evidence # {} => cases[m].source = "governance"

\* A row says MEASURED only of a cell whose oracle was asked, and the evidence
\* of a report is MEASURED exactly when a row is.  The decision and source of a
\* row are those of a verdict the server or the SDK returned to a call of its
\* own cell in a real run, whose pipelines share no table (run_ab.py:100), and
\* of the cell or an earlier one over http, where they do; NO_SHIELD says that
\* no call of the cell was decided on, and a call that was blocked in a cell of
\* a real run makes its rows say BLOCK (run_ab.py, _primary_decision).
MeasuredBacked ==
    /\ \A n \in DOMAIN cases :
        LET row   == cases[n]
            here  == {r \in returned : r.cell = CellOf(row)}
            filed == IF backend = "real" THEN here
                     ELSE {r \in returned : Before(r.cell, CellOf(row))}
        IN  row.label = "MEASURED" =>
              /\ row.oracle
              /\ ~Shields(row.arm) => row.decision = "NO_SHIELD"
              /\ row.decision = "NO_SHIELD" => here = {}
              /\ row.decision # "NO_SHIELD" =>
                    \E r \in filed : /\ r.verdict.decision = row.decision
                                    /\ Source(r.verdict) = row.source
              /\ backend = "real" /\ (\E r \in here : r.verdict.decision = "BLOCK") =>
                    row.decision = "BLOCK"
    /\ report # NoReport =>
        (report.evidence = "MEASURED" <=> \E n \in DOMAIN cases : cases[n].label = "MEASURED")
=============================================================================
