------------------------------ MODULE Guardians -----------------------------
(***************************************************************************)
(* The guardians of Channel 2 (router_guardians.py, evaluator.py,          *)
(* auditor.py, evidence.py and memory/): what a worker process does with   *)
(* the records of one run, from the delivery of a record to the verdict it *)
(* hands off.  Every model call is a step and may fail; a process may die  *)
(* between any two.  The Judge step of VerdictWorker is this module.       *)
(*                                                                         *)
(* Traces and evidence rows live in the process.  The incident memory is a *)
(* Chroma collection that the processes share and that outlives them, or,  *)
(* as the server starts its worker, a window in the process.               *)
(***************************************************************************)
EXTENDS Supervisor, Sequences, FiniteSets

CONSTANTS
    Record,      \* the records of the run
    Transfer,    \* those that are transfers to one recipient
    PostExec,    \* those that report an outcome
    Worker,      \* worker processes
    Structuring, \* transfers in a trace that are structuring
    MaxDeaths    \* bound: processes that end

ASSUME GuardiansAssumption ==
    /\ Transfer \subseteq Record
    /\ PostExec \subseteq Record
    /\ {Structuring, MaxDeaths} \subseteq Nat
    /\ Structuring > 0

VARIABLES
    worker,     \* the handling each process is at
    trace,      \* _traces of the Evaluator, per process
    evidence,   \* rows of the evidence recorder, per process
    chroma,     \* resolve_default_memory found a collection to use
    memory,     \* the incidents each process can recall
    keyLive,    \* the resolver finds the public key
    priced,     \* the models have a price
    verdict,    \* the verdict handed off, per record
    deaths

vars == <<worker, trace, evidence, chroma, memory, keyLive, priced, verdict,
          deaths>>

Guardian == {"EVALUATOR", "AUDITOR", "SUPERVISOR"}

\* A GuardianEvidence row; failed: it is labelled guardian.model_error; itself:
\* the Evaluator's agent recalled the record it was judging.
Row == [rec : Record, guardian : Guardian, decision : Decision, failed : BOOLEAN,
        itself : BOOLEAN]

\* A row of the incident collection, with what the Evaluator's agent found, and
\* a row of the window, which has neither decision nor reasons.
IncidentRow == [decision : {"PASS", "BLOCK"},
                reason : {"evaluator.grounded", "evaluator.hallucination"}]
Summary == [decision |-> "none", reason |-> "summary"]
Unknown == [decision |-> "none", reason |-> "none"]

\* A handling: what the Evaluator and the Auditor have found so far.
Idle == [pc |-> "idle", rec |-> "none", structuring |-> FALSE,
         hallucinated |-> FALSE, broken |-> FALSE]

\* A verdict with the evidence handed off with it.
NoVerdict == [decision |-> "none", rows |-> {}, by |-> "none", stop |-> FALSE]

\* Handlings, rows and verdicts keep their types; a process remembers only what
\* it has handled since it started.
TypeOK ==
    /\ worker \in [Worker -> [pc : {"idle", "evaluate", "check", "audit", "decide", "down"},
                              rec : Record \cup {"none"}, structuring : BOOLEAN,
                              hallucinated : BOOLEAN, broken : BOOLEAN]]
    /\ trace \in [Worker -> Seq(Record)]
    /\ evidence \in [Worker -> SUBSET Row]
    /\ \A w \in Worker : \A row \in evidence[w] :
          \E i \in DOMAIN trace[w] : trace[w][i] = row.rec
    /\ chroma \in BOOLEAN
    /\ memory \in [Worker -> [Record -> {Unknown, Summary} \cup IncidentRow]]
    /\ chroma => \A v, w \in Worker : memory[v] = memory[w]
    /\ keyLive \in BOOLEAN /\ priced \in BOOLEAN
    /\ \A r \in Record : /\ verdict[r].decision \in Decision \cup {"none"}
                         /\ verdict[r].rows \subseteq Row
    /\ deaths \in Nat

-----------------------------------------------------------------------------
At(w, step) == worker[w].pc = step

Rec(w) == worker[w].rec

\* Whether recall_similar_incidents, asked for the rows nearest to r, finds the
\* one of r.
Recalls(m, r) == IF m[r] = Unknown THEN {FALSE} ELSE BOOLEAN

AddRow(w, guardian, decision, failed, itself) ==
    evidence' = [evidence EXCEPT ![w] = @ \cup
       {[rec |-> Rec(w), guardian |-> guardian, decision |-> decision,
         failed |-> failed, itself |-> itself]}]

\* The record of an entry that has no verdict yet and that no other process of
\* the group is handling.
Deliver(w, r) ==
    /\ At(w, "idle")
    /\ verdict[r].decision = "none"
    /\ \A v \in Worker : Rec(v) # r
    /\ worker' = [worker EXCEPT ![w] = [Idle EXCEPT !.pc = "evaluate", !.rec = r]]
    /\ UNCHANGED <<trace, evidence, memory, chroma, keyLive, priced, verdict, deaths>>

Transfers(s) == Cardinality({i \in DOMAIN s : s[i] \in Transfer})

\* Mutant: the trace is analysed before the record is appended to it.
AnalyzeBefore(w) ==
    /\ At(w, "evaluate")
    /\ trace' = [trace EXCEPT ![w] = Append(@, Rec(w))]
    /\ worker' = [worker EXCEPT ![w].pc = "check",
                                ![w].structuring = Transfers(trace[w]) >= Structuring]
    /\ UNCHANGED <<evidence, memory, chroma, keyLive, priced, verdict, deaths>>

\* Evaluator.evaluate appends the record to the trace of its run and has the
\* policy analyse the trace: it is structuring from then on.
Analyze(w) ==
    /\ At(w, "evaluate")
    /\ trace' = [trace EXCEPT ![w] = Append(@, Rec(w))]
    /\ worker' = [worker EXCEPT ![w].pc = "check",
                                ![w].structuring = Transfers(trace'[w]) >= Structuring]
    /\ UNCHANGED <<evidence, memory, chroma, keyLive, priced, verdict, deaths>>

EvaluatorDecision(hallucinated) == IF hallucinated THEN "BLOCK" ELSE "PASS"

Reason(hallucinated) ==
    IF hallucinated THEN "evaluator.hallucination" ELSE "evaluator.grounded"

Incident(hallucinated) ==
    IF chroma
    THEN [decision |-> EvaluatorDecision(hallucinated), reason |-> Reason(hallucinated)]
    ELSE Summary

\* Mutant: a row the collection has is not replaced.
RememberOnce(w, hallucinated) ==
    memory' = [v \in Worker |->
       IF (v = w \/ chroma) /\ memory[v][Rec(w)] = Unknown
       THEN [memory[v] EXCEPT ![Rec(w)] = Incident(hallucinated)]
       ELSE memory[v]]

\* remember_record upserts the row of the record, remember appends its summary.
Remember(w, hallucinated) ==
    memory' = [v \in Worker |->
       IF v = w \/ chroma
       THEN [memory[v] EXCEPT ![Rec(w)] = Incident(hallucinated)]
       ELSE memory[v]]

\* Mutant: the record is remembered before the agent runs.
RememberFirst(w) ==
    /\ At(w, "check")
    /\ priced
    /\ \E hallucinated \in BOOLEAN :
          /\ Remember(w, hallucinated)
          /\ \E itself \in Recalls(memory'[w], Rec(w)) :
                AddRow(w, "EVALUATOR", EvaluatorDecision(hallucinated), FALSE, itself)
          /\ worker' = [worker EXCEPT ![w].pc = "audit",
                                      ![w].hallucinated = hallucinated]
    /\ UNCHANGED <<trace, chroma, keyLive, priced, verdict, deaths>>

\* The Evaluator's agent answers: an answer out of format counts as grounded.
\* The record is remembered only now, with the Evaluator's own decision, and
\* the row is added.
CheckHallucination(w) ==
    /\ At(w, "check")
    /\ priced
    /\ \E hallucinated \in BOOLEAN, itself \in Recalls(memory[w], Rec(w)) :
          /\ Remember(w, hallucinated)
          /\ AddRow(w, "EVALUATOR", EvaluatorDecision(hallucinated), FALSE, itself)
          /\ worker' = [worker EXCEPT ![w].pc = "audit",
                                      ![w].hallucinated = hallucinated]
    /\ UNCHANGED <<trace, chroma, keyLive, priced, verdict, deaths>>

\* The Auditor verifies the one record, with the key the resolver finds, and
\* then runs its agent.
Audit(w) ==
    /\ At(w, "audit")
    /\ priced
    /\ AddRow(w, "AUDITOR", IF keyLive THEN "PASS" ELSE "BLOCK", FALSE, FALSE)
    /\ worker' = [worker EXCEPT ![w].pc = "decide", ![w].broken = ~keyLive]
    /\ UNCHANGED <<trace, memory, chroma, keyLive, priced, verdict, deaths>>

\* The signals of the handler: the Defender counts as having passed the record.
\* A structuring violation scores 1.0, a hallucination 0.7.
SignalsOf(w) ==
    [defender    |-> "PASS",
     anomaly     |-> IF worker[w].structuring THEN 100
                     ELSE IF worker[w].hallucinated THEN 70 ELSE 0,
     integrity   |-> IF worker[w].broken THEN 0 ELSE 100,
     ran         |-> TRUE,
     structuring |-> worker[w].structuring,
     broken      |-> worker[w].broken,
     post        |-> Rec(w) \in PostExec]

\* The verdict leaves with the rows the recorder has for the record.
HandOff(w, decision, row) ==
    /\ evidence' = [evidence EXCEPT ![w] = @ \cup {row}]
    /\ verdict' = [verdict EXCEPT ![Rec(w)] =
          [decision |-> decision,
           rows     |-> {e \in evidence[w] \cup {row} : e.rec = Rec(w)},
           by       |-> w,
           stop     |-> Overridden(SignalsOf(w))]]
    /\ worker' = [worker EXCEPT ![w] = Idle]

SupervisorRow(w, decision) ==
    [rec |-> Rec(w), guardian |-> "SUPERVISOR", decision |-> decision,
     failed |-> FALSE, itself |-> FALSE]

\* Supervisor.decide: overrides and bands need no model, a conflict is put to
\* the arbiter, whose answer may be any decision.
DecideAlone(w) ==
    /\ At(w, "decide")
    /\ ~Arbitrates(SignalsOf(w))
    /\ LET decision == Decide(SignalsOf(w), "PASS")
       IN  HandOff(w, decision, SupervisorRow(w, decision))
    /\ UNCHANGED <<trace, memory, chroma, keyLive, priced, deaths>>

DecideArbitrated(w) ==
    /\ At(w, "decide")
    /\ priced
    /\ Arbitrates(SignalsOf(w))
    /\ \E answer \in Decision :
          HandOff(w, Decide(SignalsOf(w), answer), SupervisorRow(w, answer))
    /\ UNCHANGED <<trace, memory, chroma, keyLive, priced, deaths>>

-----------------------------------------------------------------------------
Calls(w) ==
    \/ At(w, "check")
    \/ At(w, "audit")
    \/ At(w, "decide") /\ Arbitrates(SignalsOf(w))

Caller(w) ==
    CASE At(w, "check") -> "EVALUATOR"
      [] At(w, "audit") -> "AUDITOR"
      [] OTHER -> "SUPERVISOR"

Down(w) ==
    /\ deaths < MaxDeaths
    /\ deaths' = deaths + 1
    /\ worker' = [worker EXCEPT ![w] = [Idle EXCEPT !.pc = "down"]]

\* Mutant: the handler goes on without the guardian whose model failed.
FailureSurvived(w) ==
    /\ Calls(w)
    /\ deaths < MaxDeaths
    /\ deaths' = deaths + 1
    /\ AddRow(w, Caller(w), "ALERT", TRUE, FALSE)
    /\ worker' = [worker EXCEPT ![w].pc = IF @ = "check" THEN "audit" ELSE "decide"]
    /\ UNCHANGED <<trace, memory, chroma, keyLive, priced, verdict>>

\* A model call fails: an honest row, and the exception ends the worker.
ModelFails(w) ==
    /\ Calls(w)
    /\ AddRow(w, Caller(w), "ALERT", TRUE, FALSE)
    /\ Down(w)
    /\ UNCHANGED <<trace, memory, chroma, keyLive, priced, verdict>>

\* A model that answered has no price: cost_usd raises outside the handler's
\* try, after the Evaluator has remembered the record.
PriceMissing(w) ==
    /\ Calls(w)
    /\ ~priced
    /\ IF At(w, "check")
       THEN \E hallucinated \in BOOLEAN : Remember(w, hallucinated)
       ELSE UNCHANGED memory
    /\ Down(w)
    /\ UNCHANGED <<trace, evidence, chroma, keyLive, priced, verdict>>

Die(w) ==
    /\ worker[w].pc # "down"
    /\ Down(w)
    /\ UNCHANGED <<trace, evidence, memory, chroma, keyLive, priced, verdict>>

\* A new process builds new guardians, around the old collection if there is one.
Restart(w) ==
    /\ At(w, "down")
    /\ worker' = [worker EXCEPT ![w] = Idle]
    /\ trace' = [trace EXCEPT ![w] = <<>>]
    /\ evidence' = [evidence EXCEPT ![w] = {}]
    /\ memory' = IF chroma THEN memory
                 ELSE [memory EXCEPT ![w] = [r \in Record |-> Unknown]]
    /\ UNCHANGED <<chroma, keyLive, priced, verdict, deaths>>

RevokeKey ==
    /\ keyLive
    /\ keyLive' = FALSE
    /\ UNCHANGED <<worker, trace, evidence, chroma, memory, priced, verdict, deaths>>

Init ==
    /\ worker = [w \in Worker |-> Idle]
    /\ trace = [w \in Worker |-> <<>>]
    /\ evidence = [w \in Worker |-> {}]
    /\ chroma \in BOOLEAN
    /\ memory = [w \in Worker |-> [r \in Record |-> Unknown]]
    /\ keyLive = TRUE
    /\ priced \in BOOLEAN
    /\ verdict = [r \in Record |-> NoVerdict]
    /\ deaths = 0

Handle(w) ==
    \/ Analyze(w)
    \/ CheckHallucination(w)
    \/ Audit(w)
    \/ DecideAlone(w)
    \/ DecideArbitrated(w)

Next ==
    \/ \E w \in Worker : \/ \E r \in Record : Deliver(w, r)
                         \/ Handle(w)
                         \/ ModelFails(w)
                         \/ PriceMissing(w)
                         \/ Die(w)
                         \/ Restart(w)
    \/ RevokeKey

Spec == Init /\ [][Next]_vars

-----------------------------------------------------------------------------
Judged == {r \in Record : verdict[r].decision # "none"}

\* A verdict leaves with one row of each guardian and none of them reports a
\* failed model call, however often the record was attempted before
\* (router_guardians.py:622).
EvidenceComplete ==
    \A r \in Judged : \A g \in Guardian :
       LET rows == {row \in verdict[r].rows : row.guardian = g}
       IN  Cardinality(rows) = 1 /\ \A row \in rows : ~row.failed

\* No arbitration lets a record pass whose audit failed or whose trace is
\* structuring (supervisor.py:180).
OverridesHold ==
    \A r \in Judged : verdict[r].stop => verdict[r].decision \in Stops

\* Of the transfers one process has judged since it started, fewer than make a
\* structuring pattern went through, whatever the models said of them
\* (evaluator.py:352).
StructuringCaught ==
    \A w \in Worker :
       Cardinality({r \in Judged \cap Transfer :
                      /\ verdict[r].by = w
                      /\ \E i \in DOMAIN trace[w] : trace[w][i] = r
                      /\ verdict[r].decision \notin Stops}) < Structuring

\* A collection has the record of every verdict, with the decision the Evaluator's
\* row reports, also when an earlier attempt remembered another one
\* (router_guardians.py:156).
MemoryAgrees ==
    \A r \in Judged : \A row \in verdict[r].rows :
       chroma /\ row.guardian = "EVALUATOR"
          => \A w \in Worker : memory[w][r].decision = row.decision

\* The Evaluator recalls the record it judges only from a collection and after a
\* process has died: the attempt before had remembered it
\* (router_guardians.py:155).
RecallsOthers ==
    \A r \in Judged : \A row \in verdict[r].rows :
       row.guardian = "EVALUATOR" /\ row.itself => chroma /\ deaths > 0
=============================================================================
