--------------------------- MODULE GuardiansProofs ---------------------------
(***************************************************************************)
(* For any records, processes, policy and pattern of deaths: what leaves   *)
(* with a verdict, which verdicts an override allows, how many transfers   *)
(* of a run pass, and what the incident memory holds.  At the end, what an *)
(* attestation of their host is worth, for every profile and every host.   *)
(***************************************************************************)
EXTENDS Guardians, AirGap, FiniteSetTheorems, TLAPS

Busy == {"evaluate", "check", "audit", "decide"}

Handling == [pc : {"idle", "evaluate", "check", "audit", "decide", "down"},
             rec : Record \cup {"none"}, structuring : BOOLEAN,
             hallucinated : BOOLEAN, broken : BOOLEAN]

Entries == {Unknown, Summary} \cup IncidentRow

\* What a process is busy with is a record without a verdict, which it has analysed
\* before it goes on; a process that is down has died.
HandlingOK(w) ==
    /\ worker[w].pc \in Busy =>
          worker[w].rec \in Record /\ verdict[worker[w].rec].decision = "none"
    /\ worker[w].pc \in {"check", "audit", "decide"} =>
          /\ \E i \in DOMAIN trace[w] : trace[w][i] = worker[w].rec
          /\ worker[w].structuring = (Transfers(trace[w]) >= Structuring)
    /\ worker[w].pc = "down" => deaths > 0

HandlingsOK == \A w \in Worker : HandlingOK(w)

\* No two processes handle one record.
Apart == \A v, w \in Worker :
    v # w /\ worker[v].pc \in Busy /\ worker[w].pc \in Busy
       => worker[v].rec # worker[w].rec

-----------------------------------------------------------------------------
\* What each step does to the process that takes it and to the others.
Only(w) ==
    /\ worker' \in [Worker -> Handling]
    /\ \A v \in Worker : v # w => worker'[v] = worker[v]

\* The process handles what it handled.
Goes(w, from, to) ==
    /\ Only(w)
    /\ worker[w].pc = from /\ worker'[w].pc = to
    /\ worker'[w].rec = worker[w].rec

\* A row about its record is added to those it has.
Adds(w, row) ==
    /\ row.rec = worker[w].rec
    /\ evidence' \in [Worker -> SUBSET Row]
    /\ evidence'[w] = evidence[w] \cup {row}
    /\ \A v \in Worker : v # w => evidence'[v] = evidence[v]

LEMMA IdleType ==
    /\ Idle \in Handling /\ Idle.pc = "idle"
    /\ [Idle EXCEPT !.pc = "down"] \in Handling
    /\ [Idle EXCEPT !.pc = "down"].pc = "down"
    /\ \A r \in Record : /\ [Idle EXCEPT !.pc = "evaluate", !.rec = r] \in Handling
                         /\ [Idle EXCEPT !.pc = "evaluate", !.rec = r].pc = "evaluate"
                         /\ [Idle EXCEPT !.pc = "evaluate", !.rec = r].rec = r
BY DEF Idle, Handling

LEMMA PutHandling ==
    ASSUME worker \in [Worker -> Handling], NEW w \in Worker, NEW x \in Handling,
           worker' = [worker EXCEPT ![w] = x]
    PROVE  Only(w) /\ worker'[w] = x
BY DEF Only

LEMMA PutRow ==
    ASSUME evidence \in [Worker -> SUBSET Row], NEW w \in Worker, NEW row \in Row,
           row.rec = worker[w].rec,
           evidence' = [evidence EXCEPT ![w] = @ \cup {row}]
    PROVE  Adds(w, row)
BY DEF Adds

LEMMA HandlingType ==
    ASSUME TypeOK, NEW w \in Worker
    PROVE  /\ worker \in [Worker -> Handling] /\ worker[w] \in Handling
           /\ trace \in [Worker -> Seq(Record)] /\ trace[w] \in Seq(Record)
           /\ evidence \in [Worker -> SUBSET Row]
           /\ memory \in [Worker -> [Record -> Entries]]
           /\ deaths \in Nat /\ chroma \in BOOLEAN /\ priced \in BOOLEAN
           /\ keyLive \in BOOLEAN
BY DEF TypeOK, Handling, Entries

LEMMA DeliverStep ==
    ASSUME TypeOK, NEW w \in Worker, NEW r \in Record, Deliver(w, r)
    PROVE  /\ Only(w) /\ worker[w].pc = "idle"
           /\ worker'[w].pc = "evaluate" /\ worker'[w].rec = r
           /\ verdict[r].decision = "none"
           /\ \A v \in Worker : worker[v].rec # r
           /\ UNCHANGED <<trace, evidence, memory, chroma, keyLive, priced, verdict,
                          deaths>>
<1>1. /\ worker[w].pc = "idle" /\ verdict[r].decision = "none"
      /\ \A v \in Worker : worker[v].rec # r
      /\ UNCHANGED <<trace, evidence, memory, chroma, keyLive, priced, verdict, deaths>>
      /\ worker' = [worker EXCEPT ![w] = [Idle EXCEPT !.pc = "evaluate", !.rec = r]]
  BY DEF Deliver, At, Rec
<1>2. worker \in [Worker -> Handling]
  BY HandlingType
<1> DEFINE x == [Idle EXCEPT !.pc = "evaluate", !.rec = r]
<1>3. x \in Handling /\ x.pc = "evaluate" /\ x.rec = r
  BY IdleType
<1>4. worker' = [worker EXCEPT ![w] = x]
  BY <1>1
<1> HIDE DEF x
<1>5. Only(w) /\ worker'[w] = x
  BY <1>2, <1>3, <1>4, PutHandling
<1>. QED BY <1>1, <1>3, <1>5

LEMMA AnalyzeStep ==
    ASSUME TypeOK, HandlingsOK, NEW w \in Worker, Analyze(w)
    PROVE  /\ Goes(w, "evaluate", "check")
           /\ trace' \in [Worker -> Seq(Record)]
           /\ \A v \in Worker : v # w => trace'[v] = trace[v]
           /\ trace'[w] = Append(trace[w], worker[w].rec)
           /\ worker'[w].structuring = (Transfers(trace'[w]) >= Structuring)
           /\ UNCHANGED <<evidence, memory, chroma, keyLive, priced, verdict, deaths>>
<1> DEFINE b == Transfers(trace'[w]) >= Structuring
           x == [worker[w] EXCEPT !.pc = "check", !.structuring = b]
<1>1. /\ worker[w].pc = "evaluate"
      /\ trace' = [trace EXCEPT ![w] = Append(@, worker[w].rec)]
      /\ worker' = [worker EXCEPT ![w].pc = "check", ![w].structuring = b]
      /\ UNCHANGED <<evidence, memory, chroma, keyLive, priced, verdict, deaths>>
  BY DEF Analyze, At, Rec
<1>2. /\ worker \in [Worker -> Handling] /\ worker[w] \in Handling
      /\ trace \in [Worker -> Seq(Record)]
  BY HandlingType
<1>3. b \in BOOLEAN /\ worker[w].rec \in Record
  BY <1>1 DEF HandlingsOK, HandlingOK, Busy
<1>4. worker' = [worker EXCEPT ![w] = x]
  BY <1>1, <1>2
<1> HIDE DEF b
<1>5. x \in Handling /\ x.pc = "check" /\ x.structuring = b /\ x.rec = worker[w].rec
  BY <1>2, <1>3 DEF Handling
<1> HIDE DEF x
<1>6. Only(w) /\ worker'[w] = x
  BY <1>2, <1>4, <1>5, PutHandling
<1>7. /\ trace' \in [Worker -> Seq(Record)]
      /\ \A v \in Worker : v # w => trace'[v] = trace[v]
      /\ trace'[w] = Append(trace[w], worker[w].rec)
  BY <1>1, <1>2, <1>3
<1>. QED BY <1>1, <1>5, <1>6, <1>7 DEF Goes, b

LEMMA IncidentType ==
    ASSUME NEW hallucinated \in BOOLEAN
    PROVE  /\ Incident(hallucinated) \in Entries
           /\ chroma => Incident(hallucinated).decision = EvaluatorDecision(hallucinated)
           /\ EvaluatorDecision(hallucinated) \in Decision
<1>1. /\ EvaluatorDecision(hallucinated) \in {"PASS", "BLOCK"}
      /\ Reason(hallucinated) \in {"evaluator.grounded", "evaluator.hallucination"}
  BY DEF EvaluatorDecision, Reason
<1>2. CASE chroma
  <2>1. Incident(hallucinated) =
          [decision |-> EvaluatorDecision(hallucinated), reason |-> Reason(hallucinated)]
    BY <1>2 DEF Incident
  <2>. QED BY <1>1, <2>1 DEF Entries, IncidentRow, Decision
<1>3. CASE ~chroma
  BY <1>1, <1>3 DEF Incident, Entries, Decision
<1>. QED BY <1>2, <1>3

\* The record is remembered by the process, or by all when they share a collection,
\* and no other record is touched.
Remembers(w, hallucinated) ==
    /\ memory' \in [Worker -> [Record -> Entries]]
    /\ \A v \in Worker, r \in Record :
          memory'[v][r] = IF (v = w \/ chroma) /\ r = worker[w].rec
                          THEN Incident(hallucinated) ELSE memory[v][r]

LEMMA RememberStep ==
    ASSUME TypeOK, NEW w \in Worker, worker[w].rec \in Record,
           NEW hallucinated \in BOOLEAN, Remember(w, hallucinated)
    PROVE  /\ Remembers(w, hallucinated)
           /\ chroma => \A u, v \in Worker : memory'[u] = memory'[v]
<1> DEFINE x == Incident(hallucinated)
           rec == worker[w].rec
<1>1. x \in Entries
  BY IncidentType
<1>2. memory' = [v \in Worker |->
        IF v = w \/ chroma THEN [memory[v] EXCEPT ![rec] = x] ELSE memory[v]]
  BY DEF Remember, Rec
<1>3. /\ memory \in [Worker -> [Record -> Entries]]
      /\ chroma => \A u, v \in Worker : memory[u] = memory[v]
  BY HandlingType DEF TypeOK
<1> HIDE DEF x, rec
<1>4. ASSUME NEW v \in Worker
      PROVE  /\ memory'[v] \in [Record -> Entries]
             /\ \A r \in Record : memory'[v][r] = IF (v = w \/ chroma) /\ r = rec
                                                  THEN x ELSE memory[v][r]
  <2>1. memory[v] \in [Record -> Entries]
    BY <1>3
  <2>2. CASE v = w \/ chroma
    <3>1. memory'[v] = [memory[v] EXCEPT ![rec] = x]
      BY <1>2, <2>2
    <3>. QED BY <1>1, <2>1, <2>2, <3>1
  <2>3. CASE ~(v = w \/ chroma)
    <3>1. memory'[v] = memory[v]
      BY <1>2, <2>3
    <3>. QED BY <2>1, <2>3, <3>1
  <2>. QED BY <2>2, <2>3
<1>5. memory' \in [Worker -> [Record -> Entries]]
  BY <1>2, <1>4
<1>6. chroma => \A u, v \in Worker : memory'[u] = memory'[v]
  BY <1>2, <1>3
<1>. QED BY <1>4, <1>5, <1>6 DEF Remembers, x, rec

LEMMA CheckStep ==
    ASSUME TypeOK, HandlingsOK, NEW w \in Worker, CheckHallucination(w)
    PROVE  /\ Goes(w, "check", "audit")
           /\ worker'[w].structuring = worker[w].structuring
           /\ chroma => \A u, v \in Worker : memory'[u] = memory'[v]
           /\ UNCHANGED <<trace, chroma, keyLive, priced, verdict, deaths>>
           /\ \E hallucinated \in BOOLEAN, row \in Row :
                 /\ Remembers(w, hallucinated) /\ Adds(w, row)
                 /\ worker'[w].hallucinated = hallucinated
                 /\ row.guardian = "EVALUATOR" /\ ~row.failed
                 /\ row.decision = EvaluatorDecision(hallucinated)
                 /\ row.itself => memory[w][worker[w].rec] # Unknown
<1>1. PICK hallucinated \in BOOLEAN : \E itself \in Recalls(memory[w], Rec(w)) :
        /\ Remember(w, hallucinated)
        /\ AddRow(w, "EVALUATOR", EvaluatorDecision(hallucinated), FALSE, itself)
        /\ worker' = [worker EXCEPT ![w].pc = "audit",
                                    ![w].hallucinated = hallucinated]
  BY DEF CheckHallucination
<1>2. PICK itself \in Recalls(memory[w], Rec(w)) :
        /\ Remember(w, hallucinated)
        /\ AddRow(w, "EVALUATOR", EvaluatorDecision(hallucinated), FALSE, itself)
        /\ worker' = [worker EXCEPT ![w].pc = "audit",
                                    ![w].hallucinated = hallucinated]
  BY <1>1
<1>3. /\ worker[w].pc = "check"
      /\ UNCHANGED <<trace, chroma, keyLive, priced, verdict, deaths>>
  BY DEF CheckHallucination, At
<1>4. worker[w].rec \in Record
  BY <1>3 DEF HandlingsOK, HandlingOK, Busy
<1>5. /\ Remembers(w, hallucinated)
      /\ chroma => \A u, v \in Worker : memory'[u] = memory'[v]
  BY <1>2, <1>4, RememberStep
<1>6. itself \in BOOLEAN /\ (itself => memory[w][worker[w].rec] # Unknown)
  BY <1>2 DEF Recalls, Rec
<1> DEFINE d == EvaluatorDecision(hallucinated)
           row == [rec |-> worker[w].rec, guardian |-> "EVALUATOR", decision |-> d,
                   failed |-> FALSE, itself |-> itself]
           x == [worker[w] EXCEPT !.pc = "audit", !.hallucinated = hallucinated]
<1>7. d \in Decision
  BY IncidentType
<1>8. evidence' = [evidence EXCEPT ![w] = @ \cup {row}]
  BY <1>2 DEF AddRow, Rec
<1> HIDE DEF d
<1>9. /\ row \in Row /\ row.rec = worker[w].rec /\ row.guardian = "EVALUATOR"
      /\ ~row.failed /\ row.decision = d /\ row.itself = itself
  BY <1>4, <1>6, <1>7 DEF Row, Guardian
<1> HIDE DEF row
<1>10. Adds(w, row)
  BY <1>8, <1>9, HandlingType, PutRow
<1>11. worker' = [worker EXCEPT ![w] = x]
  BY <1>2, HandlingType
<1>12. /\ x \in Handling /\ x.pc = "audit" /\ x.hallucinated = hallucinated
       /\ x.rec = worker[w].rec /\ x.structuring = worker[w].structuring
  BY HandlingType DEF Handling
<1> HIDE DEF x
<1>13. Only(w) /\ worker'[w] = x
  BY <1>11, <1>12, HandlingType, PutHandling
<1>. QED BY <1>3, <1>5, <1>6, <1>9, <1>10, <1>12, <1>13 DEF Goes, d

LEMMA AuditStep ==
    ASSUME TypeOK, HandlingsOK, NEW w \in Worker, Audit(w)
    PROVE  /\ Goes(w, "audit", "decide")
           /\ worker'[w].structuring = worker[w].structuring
           /\ worker'[w].hallucinated = worker[w].hallucinated
           /\ UNCHANGED <<trace, memory, chroma, keyLive, priced, verdict, deaths>>
           /\ \E row \in Row : Adds(w, row) /\ row.guardian = "AUDITOR" /\ ~row.failed
<1> DEFINE d == IF keyLive THEN "PASS" ELSE "BLOCK"
           b == ~keyLive
           row == [rec |-> worker[w].rec, guardian |-> "AUDITOR", decision |-> d,
                   failed |-> FALSE, itself |-> FALSE]
           x == [worker[w] EXCEPT !.pc = "decide", !.broken = b]
<1>1. /\ worker[w].pc = "audit"
      /\ evidence' = [evidence EXCEPT ![w] = @ \cup {row}]
      /\ worker' = [worker EXCEPT ![w].pc = "decide", ![w].broken = b]
      /\ UNCHANGED <<trace, memory, chroma, keyLive, priced, verdict, deaths>>
  BY DEF Audit, At, AddRow, Rec
<1>2. worker[w].rec \in Record /\ d \in Decision /\ b \in BOOLEAN
  BY <1>1 DEF HandlingsOK, HandlingOK, Busy, Decision
<1> HIDE DEF d, b
<1>3. /\ row \in Row /\ row.rec = worker[w].rec /\ row.guardian = "AUDITOR"
      /\ ~row.failed
  BY <1>2 DEF Row, Guardian
<1> HIDE DEF row
<1>4. Adds(w, row)
  BY <1>1, <1>3, HandlingType, PutRow
<1>5. worker' = [worker EXCEPT ![w] = x]
  BY <1>1, HandlingType
<1>6. /\ x \in Handling /\ x.pc = "decide" /\ x.hallucinated = worker[w].hallucinated
      /\ x.rec = worker[w].rec /\ x.structuring = worker[w].structuring
  BY <1>2, HandlingType DEF Handling
<1> HIDE DEF x
<1>7. Only(w) /\ worker'[w] = x
  BY <1>5, <1>6, HandlingType, PutHandling
<1>. QED BY <1>1, <1>3, <1>4, <1>6, <1>7 DEF Goes

-----------------------------------------------------------------------------
\* The Supervisor's answer is a decision, and a stop when an override holds.
LEMMA BandIsDecision ==
    ASSUME NEW n, NEW d
    PROVE  Band(n, d) \in Decision
BY DEF Band, Decision

LEMMA DecideStops ==
    ASSUME NEW s, s.defender = "PASS", NEW answer \in Decision
    PROVE  /\ Decide(s, answer) \in Decision
           /\ Overridden(s) => Decide(s, answer) \in Stops
<1>1. ~DefenderBlocked(s)
  BY DEF DefenderBlocked, Stops
<1> DEFINE band == Band(Risk(s), 100 * TotalWeight)
<1>2. Worse(s.defender, band) \in Decision
  <2>1. band \in Decision /\ s.defender \in Decision
    BY BandIsDecision DEF Decision
  <2> HIDE DEF band
  <2>. QED BY <2>1 DEF Worse
<1>3. /\ Branch(s, answer) \in Decision
      /\ Overridden(s) => Branch(s, answer) = "BLOCK"
  <2>1. CASE Overridden(s)
    <3>1. Branch(s, answer) = "BLOCK"
      BY <1>1, <2>1 DEF Branch
    <3>. QED BY <2>1, <3>1 DEF Decision
  <2>2. CASE ~Overridden(s) /\ Conflict(s)
    <3>1. Branch(s, answer) = answer
      BY <1>1, <2>2 DEF Branch
    <3>. QED BY <2>2, <3>1
  <2>3. CASE ~Overridden(s) /\ ~Conflict(s)
    <3>1. Branch(s, answer) = Worse(s.defender, band)
      BY <1>1, <2>3 DEF Branch
    <3>. QED BY <1>2, <2>3, <3>1
  <2>. QED BY <2>1, <2>2, <2>3
<1>. QED BY <1>3 DEF Decide, Decision, Stops

Verdict == [decision : Decision \cup {"none"}, rows : SUBSET Row,
            by : Worker \cup {"none"}, stop : BOOLEAN]

VerdictsTyped == verdict \in [Record -> Verdict]

\* What is handed off with a decision.
Hands(w, row) ==
    LET rec == worker[w].rec
    IN  /\ verdict' \in [Record -> Verdict]
        /\ \A r \in Record : r # rec => verdict'[r] = verdict[r]
        /\ verdict'[rec].decision \in Decision
        /\ verdict'[rec].rows = {e \in evidence[w] \cup {row} : e.rec = rec}
        /\ verdict'[rec].by = w
        /\ verdict'[rec].stop \/ worker[w].structuring => verdict'[rec].decision \in Stops

LEMMA HandOffStep ==
    ASSUME TypeOK, VerdictsTyped, NEW w \in Worker, worker[w].rec \in Record,
           NEW answer \in Decision, NEW row \in Row, row.rec = worker[w].rec,
           HandOff(w, Decide(SignalsOf(w), answer), row)
    PROVE  /\ Only(w) /\ worker'[w] = Idle
           /\ Adds(w, row) /\ Hands(w, row)
<1> DEFINE s == SignalsOf(w)
           d == Decide(s, answer)
           stop == Overridden(s)
           rec == worker[w].rec
           rows == {e \in evidence[w] \cup {row} : e.rec = rec}
           new == [decision |-> d, rows |-> rows, by |-> w, stop |-> stop]
<1>1. /\ s.defender = "PASS" /\ s.broken = worker[w].broken
      /\ s.structuring = worker[w].structuring
  BY DEF SignalsOf
<1>2. d \in Decision /\ (stop => d \in Stops)
  BY <1>1, DecideStops
<1>3. stop = (worker[w].broken \/ worker[w].structuring)
  BY <1>1 DEF Overridden
<1>4. /\ evidence' = [evidence EXCEPT ![w] = @ \cup {row}]
      /\ verdict' = [verdict EXCEPT ![rec] = new]
      /\ worker' = [worker EXCEPT ![w] = Idle]
  BY DEF HandOff, Rec
<1> HIDE DEF d, stop, s
<1>5. rows \subseteq Row
  BY HandlingType
<1>6. worker[w].broken \in BOOLEAN /\ worker[w].structuring \in BOOLEAN
  BY HandlingType DEF Handling
<1>7. new \in Verdict
  <2>1. stop \in BOOLEAN
    BY <1>3, <1>6
  <2> HIDE DEF rows
  <2>. QED BY <1>2, <1>5, <2>1 DEF Verdict
<1>8. /\ new.decision = d /\ new.rows = rows /\ new.by = w
      /\ new.stop \/ worker[w].structuring => new.decision \in Stops
  <2> HIDE DEF rows
  <2>. QED BY <1>2, <1>3
<1> HIDE DEF new
<1>9. /\ verdict' \in [Record -> Verdict] /\ verdict'[rec] = new
      /\ \A r \in Record : r # rec => verdict'[r] = verdict[r]
  BY <1>4, <1>7 DEF VerdictsTyped
<1>10. Hands(w, row)
  BY <1>2, <1>8, <1>9 DEF Hands
<1>11. Adds(w, row)
  BY <1>4, HandlingType, PutRow
<1>12. Only(w) /\ worker'[w] = Idle
  BY <1>4, IdleType, HandlingType, PutHandling
<1>. QED BY <1>10, <1>11, <1>12

LEMMA DecisionStep ==
    ASSUME TypeOK, HandlingsOK, VerdictsTyped, NEW w \in Worker,
           DecideAlone(w) \/ DecideArbitrated(w)
    PROVE  /\ Only(w) /\ worker[w].pc = "decide" /\ worker'[w] = Idle
           /\ UNCHANGED <<trace, memory, chroma, keyLive, priced, deaths>>
           /\ \E row \in Row : /\ Adds(w, row) /\ Hands(w, row)
                               /\ row.guardian = "SUPERVISOR" /\ ~row.failed
<1>1. /\ worker[w].pc = "decide"
      /\ UNCHANGED <<trace, memory, chroma, keyLive, priced, deaths>>
  BY DEF DecideAlone, DecideArbitrated, At
<1>2. worker[w].rec \in Record
  BY <1>1 DEF HandlingsOK, HandlingOK, Busy
<1>3. \E answer, decision \in Decision :
         HandOff(w, Decide(SignalsOf(w), answer), SupervisorRow(w, decision))
  <2>1. CASE DecideAlone(w)
    <3> DEFINE d == Decide(SignalsOf(w), "PASS")
    <3>1. HandOff(w, d, SupervisorRow(w, d))
      BY <2>1 DEF DecideAlone
    <3>2. "PASS" \in Decision /\ SignalsOf(w).defender = "PASS"
      BY DEF Decision, SignalsOf
    <3>3. d \in Decision
      BY <3>2, DecideStops
    <3>. QED BY <3>1, <3>2, <3>3
  <2>2. CASE DecideArbitrated(w)
    BY <2>2 DEF DecideArbitrated
  <2>. QED BY <2>1, <2>2
<1>4. PICK answer \in Decision : \E decision \in Decision :
         HandOff(w, Decide(SignalsOf(w), answer), SupervisorRow(w, decision))
  BY <1>3
<1>5. PICK decision \in Decision :
         HandOff(w, Decide(SignalsOf(w), answer), SupervisorRow(w, decision))
  BY <1>4
<1> DEFINE row == SupervisorRow(w, decision)
<1>6. /\ row \in Row /\ row.rec = worker[w].rec /\ row.guardian = "SUPERVISOR"
      /\ ~row.failed
  BY <1>2, <1>5 DEF SupervisorRow, Rec, Row, Guardian
<1> HIDE DEF row
<1>7. HandOff(w, Decide(SignalsOf(w), answer), row)
  BY <1>5 DEF row
<1>8. /\ Only(w) /\ worker'[w] = Idle
      /\ Adds(w, row) /\ Hands(w, row)
  BY <1>2, <1>6, <1>7, HandOffStep
<1>. QED BY <1>1, <1>6, <1>8

-----------------------------------------------------------------------------
\* A process ends, after a row for the call that failed or after its record was
\* remembered, and it starts again.
LEMMA FailStep ==
    ASSUME TypeOK, HandlingsOK, NEW w \in Worker,
           ModelFails(w) \/ PriceMissing(w) \/ Die(w)
    PROVE  /\ Only(w) /\ worker'[w].pc = "down"
           /\ deaths' \in Nat /\ deaths' > 0
           /\ UNCHANGED <<trace, chroma, keyLive, priced, verdict>>
           /\ \/ UNCHANGED evidence
              \/ /\ \E row \in Row : Adds(w, row)
                 /\ \E i \in DOMAIN trace[w] : trace[w][i] = worker[w].rec
           /\ \/ UNCHANGED memory
              \/ /\ worker[w].pc = "check"
                 /\ \E hallucinated \in BOOLEAN : Remembers(w, hallucinated)
                 /\ chroma => \A u, v \in Worker : memory'[u] = memory'[v]
<1>1. Down(w) /\ UNCHANGED <<trace, chroma, keyLive, priced, verdict>>
  BY DEF ModelFails, PriceMissing, Die
<1>2. Only(w) /\ worker'[w].pc = "down"
  <2> DEFINE x == [Idle EXCEPT !.pc = "down"]
  <2>1. x \in Handling /\ x.pc = "down"
    BY IdleType
  <2>2. worker' = [worker EXCEPT ![w] = x]
    BY <1>1 DEF Down
  <2> HIDE DEF x
  <2>. QED BY <2>1, <2>2, HandlingType, PutHandling
<1>3. deaths' \in Nat /\ deaths' > 0
  BY <1>1, HandlingType DEF Down
<1>4. Calls(w) => /\ worker[w].pc \in {"check", "audit", "decide"}
                  /\ worker[w].rec \in Record
                  /\ \E i \in DOMAIN trace[w] : trace[w][i] = worker[w].rec
  <2>1. Calls(w) => worker[w].pc \in {"check", "audit", "decide"}
    BY DEF Calls, At
  <2>. QED BY <2>1 DEF HandlingsOK, HandlingOK, Busy
<1>5. CASE ModelFails(w)
  <2>1. Calls(w) /\ UNCHANGED memory
    BY <1>5 DEF ModelFails
  <2> DEFINE g == Caller(w)
             row == [rec |-> worker[w].rec, guardian |-> g, decision |-> "ALERT",
                     failed |-> TRUE, itself |-> FALSE]
  <2>2. evidence' = [evidence EXCEPT ![w] = @ \cup {row}]
    BY <1>5 DEF ModelFails, AddRow, Rec
  <2>3. g \in Guardian
    BY DEF Caller, Guardian
  <2> HIDE DEF g
  <2>4. row \in Row /\ row.rec = worker[w].rec
    BY <1>4, <2>1, <2>3 DEF Row, Decision
  <2> HIDE DEF row
  <2>5. Adds(w, row)
    BY <2>2, <2>4, HandlingType, PutRow
  <2>. QED BY <1>1, <1>2, <1>3, <1>4, <2>1, <2>4, <2>5
<1>6. CASE PriceMissing(w)
  <2>1. Calls(w) /\ UNCHANGED evidence
    BY <1>6 DEF PriceMissing
  <2>2. CASE worker[w].pc = "check"
    <3>1. PICK hallucinated \in BOOLEAN : Remember(w, hallucinated)
      BY <1>6, <2>2 DEF PriceMissing, At
    <3>2. /\ Remembers(w, hallucinated)
          /\ chroma => \A u, v \in Worker : memory'[u] = memory'[v]
      BY <1>4, <2>1, <3>1, RememberStep
    <3>. QED BY <1>1, <1>2, <1>3, <2>1, <2>2, <3>2
  <2>3. CASE worker[w].pc # "check"
    <3>1. UNCHANGED memory
      BY <1>6, <2>3 DEF PriceMissing, At
    <3>. QED BY <1>1, <1>2, <1>3, <2>1, <3>1
  <2>. QED BY <2>2, <2>3
<1>7. CASE Die(w)
  <2>1. UNCHANGED <<evidence, memory>>
    BY <1>7 DEF Die
  <2>. QED BY <1>1, <1>2, <1>3, <2>1
<1>. QED BY <1>5, <1>6, <1>7

LEMMA RestartStep ==
    ASSUME TypeOK, NEW w \in Worker, Restart(w)
    PROVE  /\ Only(w) /\ worker[w].pc = "down" /\ worker'[w] = Idle
           /\ trace' \in [Worker -> Seq(Record)] /\ trace'[w] = <<>>
           /\ evidence' \in [Worker -> SUBSET Row] /\ evidence'[w] = {}
           /\ \A v \in Worker : v # w => /\ trace'[v] = trace[v]
                                         /\ evidence'[v] = evidence[v]
           /\ memory' \in [Worker -> [Record -> Entries]]
           /\ \A v \in Worker, r \in Record :
                 memory'[v][r] = IF v = w /\ ~chroma THEN Unknown ELSE memory[v][r]
           /\ chroma => UNCHANGED memory
           /\ UNCHANGED <<chroma, keyLive, priced, verdict, deaths>>
<1>1. /\ worker[w].pc = "down"
      /\ worker' = [worker EXCEPT ![w] = Idle]
      /\ trace' = [trace EXCEPT ![w] = <<>>]
      /\ evidence' = [evidence EXCEPT ![w] = {}]
      /\ memory' = IF chroma THEN memory
                   ELSE [memory EXCEPT ![w] = [r \in Record |-> Unknown]]
      /\ UNCHANGED <<chroma, keyLive, priced, verdict, deaths>>
  BY DEF Restart, At
<1>2. Only(w) /\ worker'[w] = Idle
  BY <1>1, IdleType, HandlingType, PutHandling
<1>3. /\ trace' \in [Worker -> Seq(Record)] /\ trace'[w] = <<>>
      /\ evidence' \in [Worker -> SUBSET Row] /\ evidence'[w] = {}
      /\ \A v \in Worker : v # w => /\ trace'[v] = trace[v]
                                    /\ evidence'[v] = evidence[v]
  BY <1>1, HandlingType
<1>4. /\ memory' \in [Worker -> [Record -> Entries]]
      /\ \A v \in Worker, r \in Record :
            memory'[v][r] = IF v = w /\ ~chroma THEN Unknown ELSE memory[v][r]
  <2>1. CASE chroma
    <3>1. memory' = memory
      BY <1>1, <2>1
    <3>. QED BY <2>1, <3>1, HandlingType
  <2>2. CASE ~chroma
    <3> DEFINE x == [r \in Record |-> Unknown]
    <3>1. memory' = [memory EXCEPT ![w] = x]
      BY <1>1, <2>2
    <3>2. x \in [Record -> Entries] /\ \A r \in Record : x[r] = Unknown
      BY DEF Entries
    <3> HIDE DEF x
    <3>3. /\ memory' \in [Worker -> [Record -> Entries]] /\ memory'[w] = x
          /\ \A v \in Worker : v # w => memory'[v] = memory[v]
      BY <3>1, <3>2, HandlingType
    <3>. QED BY <2>2, <3>2, <3>3
  <2>. QED BY <2>1, <2>2
<1>. QED BY <1>1, <1>2, <1>3, <1>4

-----------------------------------------------------------------------------
(* Type correctness.                                                       *)

LEMMA StepCases ==
    ASSUME [Next]_vars
    PROVE  \/ /\ UNCHANGED <<worker, trace, evidence, chroma, memory, priced, verdict,
                             deaths>>
              /\ keyLive' = keyLive \/ keyLive' = FALSE
           \/ \E w \in Worker :
                 \/ \E r \in Record : Deliver(w, r)
                 \/ Analyze(w)
                 \/ CheckHallucination(w)
                 \/ Audit(w)
                 \/ DecideAlone(w) \/ DecideArbitrated(w)
                 \/ ModelFails(w) \/ PriceMissing(w) \/ Die(w)
                 \/ Restart(w)
BY DEF Next, Handle, RevokeKey, vars

\* HandlingOK of the state a step leads to.
Handled(w) ==
    /\ worker'[w].pc \in Busy =>
          worker'[w].rec \in Record /\ verdict'[worker'[w].rec].decision = "none"
    /\ worker'[w].pc \in {"check", "audit", "decide"} =>
          /\ \E i \in DOMAIN trace'[w] : trace'[w][i] = worker'[w].rec
          /\ worker'[w].structuring = (Transfers(trace'[w]) >= Structuring)
    /\ worker'[w].pc = "down" => deaths' > 0

RowsTraced(w) ==
    \A row \in evidence[w] : \E i \in DOMAIN trace[w] : trace[w][i] = row.rec

Traced(w) ==
    \A row \in evidence'[w] : \E i \in DOMAIN trace'[w] : trace'[w][i] = row.rec

LEMMA OthersHandle ==
    ASSUME TypeOK, HandlingsOK, Apart, NEW w \in Worker, Only(w),
           NEW v \in Worker, v # w,
           trace'[v] = trace[v], deaths' \in Nat, deaths' >= deaths,
           \/ UNCHANGED verdict
           \/ /\ worker[w].pc \in Busy
              /\ \A r \in Record : r # worker[w].rec => verdict'[r] = verdict[r]
    PROVE  Handled(v)
<1>1. worker'[v] = worker[v] /\ HandlingOK(v)
  BY DEF Only, HandlingsOK
<1>2. worker[v].pc \in Busy =>
        worker[v].rec \in Record /\ verdict'[worker[v].rec] = verdict[worker[v].rec]
  BY <1>1 DEF HandlingOK, Apart
<1>3. worker[v].pc = "down" => deaths' > 0
  BY <1>1, HandlingType DEF HandlingOK
<1>. QED BY <1>1, <1>2, <1>3 DEF HandlingOK, Handled

Types ==
    /\ worker' \in [Worker -> Handling]
    /\ trace' \in [Worker -> Seq(Record)]
    /\ evidence' \in [Worker -> SUBSET Row]
    /\ memory' \in [Worker -> [Record -> Entries]]
    /\ chroma' = chroma
    /\ chroma => \A u, v \in Worker : memory'[u] = memory'[v]
    /\ verdict' \in [Record -> Verdict]
    /\ deaths' \in Nat /\ deaths' >= deaths

TypeInv == TypeOK /\ VerdictsTyped /\ HandlingsOK /\ Apart

LEMMA TypesNow ==
    ASSUME TypeInv
    PROVE  /\ worker \in [Worker -> Handling]
           /\ trace \in [Worker -> Seq(Record)]
           /\ evidence \in [Worker -> SUBSET Row]
           /\ memory \in [Worker -> [Record -> Entries]]
           /\ chroma => \A u, v \in Worker : memory[u] = memory[v]
           /\ verdict \in [Record -> Verdict]
           /\ deaths \in Nat
           /\ \A w \in Worker : RowsTraced(w) /\ HandlingOK(w)
BY DEF TypeInv, TypeOK, Handling, Entries, VerdictsTyped, RowsTraced, HandlingsOK

LEMMA AppendKeeps ==
    ASSUME NEW s \in Seq(Record), NEW r \in Record
    PROVE  /\ \A i \in DOMAIN s : i \in DOMAIN Append(s, r) /\ Append(s, r)[i] = s[i]
           /\ \E i \in DOMAIN Append(s, r) : Append(s, r)[i] = r
<1>1. /\ Len(s) + 1 \in DOMAIN Append(s, r)
      /\ Append(s, r)[Len(s) + 1] = r
  OBVIOUS
<1>. QED BY <1>1

\* A row that is added is about a record of the trace.
LEMMA AddsTraced ==
    ASSUME TypeInv, NEW w \in Worker, NEW row, Adds(w, row), UNCHANGED trace,
           \E i \in DOMAIN trace[w] : trace[w][i] = worker[w].rec
    PROVE  \A v \in Worker : Traced(v)
<1>1. ASSUME NEW v \in Worker, NEW e \in evidence'[v]
      PROVE  \E i \in DOMAIN trace[v] : trace[v][i] = e.rec
  <2>1. CASE e \in evidence[v]
    BY <2>1, TypesNow DEF RowsTraced
  <2>2. CASE e \notin evidence[v]
    BY <1>1, <2>2 DEF Adds
  <2>. QED BY <2>1, <2>2
<1>. QED BY <1>1 DEF Traced

LEMMA DeliverTyped ==
    ASSUME TypeInv, NEW w \in Worker, NEW r \in Record, Deliver(w, r)
    PROVE  Types /\ \A v \in Worker : Traced(v) /\ Handled(v)
<1>0. TypeOK /\ HandlingsOK /\ Apart
  BY DEF TypeInv
<1>1. /\ Only(w) /\ worker[w].pc = "idle"
      /\ worker'[w].pc = "evaluate" /\ worker'[w].rec = r
      /\ verdict[r].decision = "none"
      /\ UNCHANGED <<trace, evidence, memory, chroma, keyLive, priced, verdict, deaths>>
  BY <1>0, DeliverStep
<1>2. Types
  BY <1>1, TypesNow DEF Types, Only
<1>3. Handled(w)
  BY <1>1 DEF Handled, Busy
<1>4. \A v \in Worker : v # w => Handled(v)
  BY <1>0, <1>1, OthersHandle, HandlingType
<1>5. \A v \in Worker : Traced(v)
  BY <1>1, TypesNow DEF Traced, RowsTraced
<1>. QED BY <1>2, <1>3, <1>4, <1>5

LEMMA AnalyzeTyped ==
    ASSUME TypeInv, NEW w \in Worker, Analyze(w)
    PROVE  Types /\ \A v \in Worker : Traced(v) /\ Handled(v)
<1>0. TypeOK /\ HandlingsOK /\ Apart
  BY DEF TypeInv
<1>1. /\ Goes(w, "evaluate", "check")
      /\ trace' \in [Worker -> Seq(Record)]
      /\ \A v \in Worker : v # w => trace'[v] = trace[v]
      /\ trace'[w] = Append(trace[w], worker[w].rec)
      /\ worker'[w].structuring = (Transfers(trace'[w]) >= Structuring)
      /\ UNCHANGED <<evidence, memory, chroma, keyLive, priced, verdict, deaths>>
  BY <1>0, AnalyzeStep
<1>2. Types
  BY <1>1, TypesNow DEF Types, Only, Goes
<1>3. /\ worker[w].rec \in Record /\ verdict[worker[w].rec].decision = "none"
      /\ trace[w] \in Seq(Record)
  BY <1>1, TypesNow DEF Goes, HandlingOK, Busy
<1>4. Handled(w)
  BY <1>1, <1>3, AppendKeeps DEF Goes, Handled, Busy
<1>5. \A v \in Worker : v # w => Handled(v)
  BY <1>0, <1>1, OthersHandle, HandlingType DEF Goes
<1>6. \A v \in Worker : v # w => Traced(v)
  BY <1>1, TypesNow DEF Traced, RowsTraced
<1>7. Traced(w)
  <2>1. SUFFICES ASSUME NEW row \in evidence[w]
                 PROVE  \E i \in DOMAIN trace'[w] : trace'[w][i] = row.rec
    BY <1>1 DEF Traced
  <2>2. PICK i \in DOMAIN trace[w] : trace[w][i] = row.rec
    BY TypesNow DEF RowsTraced
  <2>3. /\ i \in DOMAIN Append(trace[w], worker[w].rec)
        /\ Append(trace[w], worker[w].rec)[i] = trace[w][i]
    <3>1. i \in DOMAIN trace[w]
      BY <2>2
    <3>. QED BY <1>3, <3>1, AppendKeeps
  <2>. QED BY <1>1, <2>2, <2>3
<1>. QED BY <1>2, <1>4, <1>5, <1>6, <1>7

LEMMA GuardTyped ==
    ASSUME TypeInv, NEW w \in Worker, CheckHallucination(w) \/ Audit(w)
    PROVE  Types /\ \A v \in Worker : Traced(v) /\ Handled(v)
<1>0. TypeOK /\ HandlingsOK /\ Apart
  BY DEF TypeInv
<1>1. /\ Goes(w, "check", "audit") \/ Goes(w, "audit", "decide")
      /\ worker'[w].structuring = worker[w].structuring
      /\ memory' \in [Worker -> [Record -> Entries]]
      /\ chroma => \A u, v \in Worker : memory'[u] = memory'[v]
      /\ UNCHANGED <<trace, chroma, keyLive, priced, verdict, deaths>>
      /\ \E row \in Row : Adds(w, row)
  <2>1. CASE CheckHallucination(w)
    BY <1>0, <2>1, CheckStep DEF Remembers
  <2>2. CASE Audit(w)
    BY <1>0, <2>2, AuditStep, TypesNow
  <2>. QED BY <2>1, <2>2
<1>2. PICK row \in Row : Adds(w, row)
  BY <1>1
<1>3. Types
  BY <1>1, <1>2, TypesNow DEF Types, Only, Goes, Adds
<1>4. HandlingOK(w) /\ worker[w].pc \in {"check", "audit"}
  BY <1>1, TypesNow DEF Goes
<1>5. Handled(w)
  BY <1>1, <1>4 DEF Goes, Handled, HandlingOK, Busy
<1>6. \A v \in Worker : v # w => Handled(v)
  BY <1>0, <1>1, OthersHandle, HandlingType DEF Goes
<1>7. \A v \in Worker : Traced(v)
  BY <1>1, <1>2, <1>4, AddsTraced DEF HandlingOK
<1>. QED BY <1>3, <1>5, <1>6, <1>7

LEMMA DecideTyped ==
    ASSUME TypeInv, NEW w \in Worker, DecideAlone(w) \/ DecideArbitrated(w)
    PROVE  Types /\ \A v \in Worker : Traced(v) /\ Handled(v)
<1>0. TypeOK /\ HandlingsOK /\ VerdictsTyped /\ Apart
  BY DEF TypeInv
<1>1. /\ Only(w) /\ worker[w].pc = "decide" /\ worker'[w] = Idle
      /\ UNCHANGED <<trace, memory, chroma, keyLive, priced, deaths>>
      /\ \E row \in Row : Adds(w, row) /\ Hands(w, row)
  BY <1>0, DecisionStep
<1>2. PICK row \in Row : Adds(w, row) /\ Hands(w, row)
  BY <1>1
<1>3. Types
  BY <1>1, <1>2, TypesNow DEF Types, Only, Adds, Hands
<1>4. HandlingOK(w)
  BY TypesNow
<1>5. Handled(w)
  BY <1>1, IdleType DEF Handled, Busy
<1>6. worker[w].pc \in Busy /\ \A r \in Record : r # worker[w].rec => verdict'[r] = verdict[r]
  BY <1>1, <1>2 DEF Hands, Busy
<1>7. ASSUME NEW v \in Worker, v # w
      PROVE  Handled(v)
  <2>1. trace'[v] = trace[v] /\ deaths' \in Nat /\ deaths' >= deaths
    BY <1>1, TypesNow
  <2>. QED BY <1>0, <1>1, <1>6, <1>7, <2>1, OthersHandle
<1>8. \A v \in Worker : Traced(v)
  BY <1>1, <1>2, <1>4, AddsTraced DEF HandlingOK
<1>. QED BY <1>3, <1>5, <1>7, <1>8

LEMMA FailTyped ==
    ASSUME TypeInv, NEW w \in Worker, ModelFails(w) \/ PriceMissing(w) \/ Die(w)
    PROVE  Types /\ \A v \in Worker : Traced(v) /\ Handled(v)
<1>0. TypeOK /\ HandlingsOK /\ VerdictsTyped /\ Apart
  BY DEF TypeInv
<1>1. /\ Only(w) /\ worker'[w].pc = "down"
      /\ deaths' \in Nat /\ deaths' > 0
      /\ UNCHANGED <<trace, chroma, keyLive, priced, verdict>>
      /\ \/ UNCHANGED evidence
         \/ /\ \E row \in Row : Adds(w, row)
            /\ \E i \in DOMAIN trace[w] : trace[w][i] = worker[w].rec
      /\ \/ UNCHANGED memory
         \/ /\ \E hallucinated \in BOOLEAN : Remembers(w, hallucinated)
            /\ chroma => \A u, v \in Worker : memory'[u] = memory'[v]
  BY <1>0, FailStep
<1>2. deaths' >= deaths
  <2>1. Down(w)
    BY DEF ModelFails, PriceMissing, Die
  <2>. QED BY <2>1, TypesNow DEF Down
<1>3. /\ memory' \in [Worker -> [Record -> Entries]]
      /\ chroma => \A u, v \in Worker : memory'[u] = memory'[v]
  BY <1>1, TypesNow DEF Remembers
<1>4. evidence' \in [Worker -> SUBSET Row]
  BY <1>1, TypesNow DEF Adds
<1>5. Types
  BY <1>1, <1>2, <1>3, <1>4, TypesNow DEF Types, Only
<1>6. Handled(w)
  BY <1>1 DEF Handled, Busy
<1>7. \A v \in Worker : v # w => Handled(v)
  BY <1>0, <1>1, <1>2, OthersHandle
<1>8. \A v \in Worker : Traced(v)
  <2>1. CASE UNCHANGED evidence
    BY <1>1, <2>1, TypesNow DEF Traced, RowsTraced
  <2>2. CASE ~UNCHANGED evidence
    BY <1>1, <2>2, AddsTraced
  <2>. QED BY <2>1, <2>2
<1>. QED BY <1>5, <1>6, <1>7, <1>8

LEMMA RestartTyped ==
    ASSUME TypeInv, NEW w \in Worker, Restart(w)
    PROVE  Types /\ \A v \in Worker : Traced(v) /\ Handled(v)
<1>0. TypeOK /\ HandlingsOK /\ VerdictsTyped /\ Apart
  BY DEF TypeInv
<1>1. /\ Only(w) /\ worker'[w] = Idle
      /\ trace' \in [Worker -> Seq(Record)]
      /\ evidence' \in [Worker -> SUBSET Row] /\ evidence'[w] = {}
      /\ \A v \in Worker : v # w => /\ trace'[v] = trace[v]
                                    /\ evidence'[v] = evidence[v]
      /\ memory' \in [Worker -> [Record -> Entries]]
      /\ chroma => UNCHANGED memory
      /\ UNCHANGED <<chroma, keyLive, priced, verdict, deaths>>
  BY <1>0, RestartStep
<1>2. Types
  BY <1>1, TypesNow DEF Types, Only
<1>3. Handled(w)
  BY <1>1, IdleType DEF Handled, Busy
<1>4. \A v \in Worker : v # w => Handled(v)
  BY <1>0, <1>1, OthersHandle, HandlingType
<1>5. Traced(w)
  BY <1>1 DEF Traced
<1>6. \A v \in Worker : v # w => Traced(v)
  BY <1>1, TypesNow DEF Traced, RowsTraced
<1>. QED BY <1>2, <1>3, <1>4, <1>5, <1>6

\* Only a delivery gives a process a record, and then no other has it.
LEMMA ApartStays ==
    ASSUME TypeInv, [Next]_vars
    PROVE  \A v, w \in Worker :
              v # w /\ worker'[v].pc \in Busy /\ worker'[w].pc \in Busy
                 => worker'[v].rec # worker'[w].rec
<1>0. TypeOK /\ HandlingsOK /\ VerdictsTyped /\ Apart
  BY DEF TypeInv
<1> DEFINE Goal == \A v, w \in Worker :
              v # w /\ worker'[v].pc \in Busy /\ worker'[w].pc \in Busy
                 => worker'[v].rec # worker'[w].rec
<1>1. ASSUME NEW w \in Worker, Only(w),
             \/ worker'[w].pc \notin Busy
             \/ worker[w].pc \in Busy /\ worker'[w].rec = worker[w].rec
             \/ \A v \in Worker : worker[v].rec # worker'[w].rec
      PROVE  Goal
  BY <1>0, <1>1 DEF Only, Apart
<1>2. UNCHANGED worker => Goal
  BY <1>0 DEF Apart
<1>3. ASSUME NEW w \in Worker, NEW r \in Record, Deliver(w, r)
      PROVE  Goal
  <2>1. Only(w) /\ \A v \in Worker : worker[v].rec # worker'[w].rec
    BY <1>0, <1>3, DeliverStep
  <2>. QED BY <1>1, <2>1
<1>4. ASSUME NEW w \in Worker, Analyze(w) \/ CheckHallucination(w) \/ Audit(w)
      PROVE  Goal
  <2>1. /\ Only(w) /\ worker[w].pc \in Busy /\ worker'[w].rec = worker[w].rec
    BY <1>0, <1>4, AnalyzeStep, CheckStep, AuditStep DEF Goes, Busy
  <2>. QED BY <1>1, <2>1
<1>5. ASSUME NEW w \in Worker,
             \/ DecideAlone(w) \/ DecideArbitrated(w)
             \/ ModelFails(w) \/ PriceMissing(w) \/ Die(w) \/ Restart(w)
      PROVE  Goal
  <2>1. Only(w) /\ (worker'[w] = Idle \/ worker'[w].pc = "down")
    BY <1>0, <1>5, DecisionStep, FailStep, RestartStep
  <2>2. worker'[w].pc \notin Busy
    BY <2>1, IdleType DEF Busy
  <2>. QED BY <1>1, <2>1, <2>2
<1> HIDE DEF Goal
<1>6. ASSUME NEW w \in Worker,
             \/ \E r \in Record : Deliver(w, r)
             \/ Analyze(w) \/ CheckHallucination(w) \/ Audit(w)
             \/ DecideAlone(w) \/ DecideArbitrated(w)
             \/ ModelFails(w) \/ PriceMissing(w) \/ Die(w) \/ Restart(w)
      PROVE  Goal
  BY <1>3, <1>4, <1>5, <1>6
<1>7. Goal
  BY <1>2, <1>6, StepCases
<1>. QED BY <1>7 DEF Goal

LEMMA NextTyped ==
    ASSUME TypeInv, [Next]_vars
    PROVE  /\ Types /\ keyLive' \in BOOLEAN /\ priced' = priced
           /\ \A v \in Worker : Traced(v) /\ Handled(v)
<1>0. TypeOK /\ HandlingsOK
  BY DEF TypeInv
<1>1. keyLive' \in {keyLive, FALSE} /\ priced' = priced
  <2>1. ASSUME NEW w \in Worker,
               \/ \E r \in Record : Deliver(w, r)
               \/ Analyze(w) \/ CheckHallucination(w) \/ Audit(w)
               \/ DecideAlone(w) \/ DecideArbitrated(w)
        PROVE  keyLive' = keyLive /\ priced' = priced
    BY <2>1 DEF Deliver, Analyze, CheckHallucination, Audit, DecideAlone,
       DecideArbitrated
  <2>2. ASSUME NEW w \in Worker,
               ModelFails(w) \/ PriceMissing(w) \/ Die(w) \/ Restart(w)
        PROVE  keyLive' = keyLive /\ priced' = priced
    BY <2>2 DEF ModelFails, PriceMissing, Die, Restart
  <2>. QED BY <2>1, <2>2, StepCases
<1>2. keyLive' \in BOOLEAN
  BY <1>0, <1>1, HandlingType DEF TypeOK
<1>3. CASE UNCHANGED <<worker, trace, evidence, chroma, memory, priced, verdict, deaths>>
  <2>1. Types
    BY <1>3, TypesNow DEF Types
  <2>2. \A v \in Worker : Traced(v)
    BY <1>3, TypesNow DEF Traced, RowsTraced
  <2>3. ASSUME NEW v \in Worker
        PROVE  Handled(v)
    <3>1. HandlingOK(v)
      BY TypesNow
    <3>. QED BY <1>3, <3>1 DEF Handled, HandlingOK
  <2>. QED BY <1>1, <1>2, <2>1, <2>2, <2>3
<1>4. ASSUME NEW w \in Worker,
             \/ \E r \in Record : Deliver(w, r)
             \/ Analyze(w) \/ CheckHallucination(w) \/ Audit(w)
             \/ DecideAlone(w) \/ DecideArbitrated(w)
             \/ ModelFails(w) \/ PriceMissing(w) \/ Die(w) \/ Restart(w)
      PROVE  Types /\ \A v \in Worker : Traced(v) /\ Handled(v)
  BY <1>4, DeliverTyped, AnalyzeTyped, GuardTyped, DecideTyped, FailTyped, RestartTyped
<1>. QED BY <1>1, <1>2, <1>3, <1>4, StepCases

LEMMA ApartInit ==
    ASSUME Init
    PROVE  TypeInv
<1>1. /\ worker = [w \in Worker |-> Idle]
      /\ trace = [w \in Worker |-> <<>>]
      /\ evidence = [w \in Worker |-> {}]
      /\ chroma \in BOOLEAN /\ priced \in BOOLEAN /\ keyLive = TRUE
      /\ memory = [w \in Worker |-> [r \in Record |-> Unknown]]
      /\ verdict = [r \in Record |-> NoVerdict]
      /\ deaths = 0
  BY DEF Init
<1>2. NoVerdict \in Verdict /\ NoVerdict.decision = "none" /\ NoVerdict.rows = {}
  BY DEF NoVerdict, Verdict
<1>3. TypeOK
  <2>1. worker \in [Worker -> Handling] /\ \A w \in Worker : evidence[w] = {}
    BY <1>1, IdleType
  <2>2. /\ trace \in [Worker -> Seq(Record)]
        /\ evidence \in [Worker -> SUBSET Row]
        /\ deaths \in Nat
    BY <1>1
  <2>3. \A r \in Record : /\ verdict[r].decision \in Decision \cup {"none"}
                          /\ verdict[r].rows \subseteq Row
    BY <1>1, <1>2
  <2>4. /\ memory \in [Worker -> [Record -> {Unknown, Summary} \cup IncidentRow]]
        /\ \A v, w \in Worker : memory[v] = memory[w]
    BY <1>1
  <2>. QED BY <1>1, <2>1, <2>2, <2>3, <2>4 DEF TypeOK, Handling
<1>4. VerdictsTyped
  BY <1>1, <1>2 DEF VerdictsTyped
<1>5. HandlingsOK /\ Apart
  BY <1>1, IdleType DEF HandlingsOK, HandlingOK, Apart, Busy
<1>. QED BY <1>3, <1>4, <1>5 DEF TypeInv

LEMMA TypeInvariant == Spec => []TypeInv
<1>1. Init => TypeInv
  BY ApartInit
<1>2. TypeInv /\ [Next]_vars => TypeInv'
  <2>1. SUFFICES ASSUME TypeInv, [Next]_vars
                 PROVE  TypeInv'
    OBVIOUS
  <2>2. /\ Types /\ keyLive' \in BOOLEAN /\ priced' = priced
        /\ \A v \in Worker : Traced(v) /\ Handled(v)
    BY <2>1, NextTyped
  <2>3. VerdictsTyped'
    BY <2>2 DEF Types, VerdictsTyped
  <2>4. TypeOK'
    <3>1. \A r \in Record : /\ verdict'[r].decision \in Decision \cup {"none"}
                            /\ verdict'[r].rows \subseteq Row
      BY <2>2 DEF Types, Verdict
    <3>2. \A w \in Worker : \A row \in evidence'[w] :
             \E i \in DOMAIN trace'[w] : trace'[w][i] = row.rec
      BY <2>2 DEF Traced
    <3>3. chroma \in BOOLEAN /\ priced \in BOOLEAN
      BY <2>1 DEF TypeInv, TypeOK
    <3>. QED BY <2>2, <3>1, <3>2, <3>3 DEF TypeOK, Types, Handling, Entries
  <2>5. HandlingsOK'
    BY <2>2 DEF HandlingsOK, HandlingOK, Handled, Transfers
  <2>6. Apart'
    BY <2>1, ApartStays DEF Apart
  <2>. QED BY <2>3, <2>4, <2>5, <2>6 DEF TypeInv
<1>. QED BY <1>1, <1>2, PTL DEF Spec

\* Handlings, rows and verdicts keep their types, and a process has rows only about
\* what it has traced since it started (evaluator.py:324, evidence.py:44).
THEOREM TypeCorrect == Spec => []TypeOK
BY TypeInvariant, PTL DEF TypeInv

-----------------------------------------------------------------------------
(* What the overrides promise.                                             *)

\* A verdict is given by a decision of the process that handles the record, and stays.
LEMMA VerdictSteps ==
    ASSUME TypeInv, [Next]_vars
    PROVE  \/ UNCHANGED verdict
           \/ \E w \in Worker, row \in Row :
                 /\ worker[w].pc = "decide" /\ worker[w].rec \in Record
                 /\ Hands(w, row) /\ UNCHANGED trace
<1>0. TypeOK /\ HandlingsOK /\ VerdictsTyped
  BY DEF TypeInv
<1>1. ASSUME NEW w \in Worker, DecideAlone(w) \/ DecideArbitrated(w)
      PROVE  \E row \in Row :
                 /\ worker[w].pc = "decide" /\ worker[w].rec \in Record
                 /\ Hands(w, row) /\ UNCHANGED trace
  <2>1. /\ worker[w].pc = "decide" /\ UNCHANGED trace
        /\ \E row \in Row : Hands(w, row)
    BY <1>0, <1>1, DecisionStep
  <2>2. worker[w].rec \in Record
    BY <2>1, TypesNow DEF HandlingOK, Busy
  <2>. QED BY <2>1, <2>2
<1>2. ASSUME NEW w \in Worker,
             \/ \E r \in Record : Deliver(w, r)
             \/ Analyze(w) \/ CheckHallucination(w) \/ Audit(w)
      PROVE  UNCHANGED verdict
  BY <1>2 DEF Deliver, Analyze, CheckHallucination, Audit
<1>3. ASSUME NEW w \in Worker,
             ModelFails(w) \/ PriceMissing(w) \/ Die(w) \/ Restart(w)
      PROVE  UNCHANGED verdict
  BY <1>3 DEF ModelFails, PriceMissing, Die, Restart
<1>. QED BY <1>1, <1>2, <1>3, StepCases

\* No arbitration lets a record pass whose audit failed or whose trace is structuring
\* (decide, supervisor.py:180).
THEOREM OverridesCorrect == Spec => []OverridesHold
<1>1. Init => OverridesHold
  BY DEF Init, OverridesHold, Judged, NoVerdict
<1>2. TypeInv /\ OverridesHold /\ [Next]_vars => OverridesHold'
  <2>1. SUFFICES ASSUME TypeInv, OverridesHold, [Next]_vars,
                        NEW r \in Record, verdict'[r].decision # "none", verdict'[r].stop
                 PROVE  verdict'[r].decision \in Stops
    BY DEF OverridesHold, Judged
  <2>2. verdict'[r] = verdict[r] => verdict'[r].decision \in Stops
    BY <2>1 DEF OverridesHold, Judged
  <2>3. CASE verdict'[r] # verdict[r]
    <3>1. PICK w \in Worker : \E row \in Row :
             worker[w].pc = "decide" /\ worker[w].rec \in Record /\ Hands(w, row)
      BY <2>1, <2>3, VerdictSteps
    <3>2. PICK row \in Row : Hands(w, row)
      BY <3>1
    <3>. QED BY <2>1, <2>3, <3>2 DEF Hands
  <2>. QED BY <2>2, <2>3
<1>. QED BY <1>1, <1>2, TypeInvariant, PTL DEF Spec

\* The transfers of a trace that process w let through.
Through(s, verdicts, w) ==
    {r \in Record \cap Transfer :
        /\ verdicts[r].decision # "none" /\ verdicts[r].by = w
        /\ \E i \in DOMAIN s : s[i] = r
        /\ verdicts[r].decision \notin Stops}

LEMMA TraceTransfers ==
    ASSUME NEW s \in Seq(Record), NEW verdicts, NEW w
    PROVE  /\ IsFiniteSet(Through(s, verdicts, w)) /\ Transfers(s) \in Nat
           /\ Cardinality(Through(s, verdicts, w)) \in Nat
           /\ Cardinality(Through(s, verdicts, w)) <= Transfers(s)
<1> DEFINE S == {i \in DOMAIN s : s[i] \in Transfer}
           T == {r \in Transfer : \E i \in DOMAIN s : s[i] = r}
           f == [i \in S |-> s[i]]
<1>1. IsFiniteSet(S) /\ Cardinality(S) \in Nat
  <2>1. IsFiniteSet(1..Len(s))
    BY FS_Interval
  <2>2. S \in SUBSET (1..Len(s))
    OBVIOUS
  <2> HIDE DEF S
  <2>. QED BY <2>1, <2>2, FS_Subset, FS_CardinalityType
<1>2. f \in Surjection(S, T)
  BY DEF Surjection
<1>3. Through(s, verdicts, w) \in SUBSET T
  BY DEF Through
<1>4. Cardinality(S) = Transfers(s)
  BY DEF Transfers
<1> HIDE DEF S, T, f
<1>5. IsFiniteSet(T) /\ Cardinality(T) <= Cardinality(S)
  BY <1>1, <1>2, FS_Surjection
<1>6. /\ IsFiniteSet(Through(s, verdicts, w))
      /\ Cardinality(Through(s, verdicts, w)) <= Cardinality(T)
  BY <1>3, <1>5, FS_Subset
<1>7. Cardinality(T) \in Nat /\ Cardinality(Through(s, verdicts, w)) \in Nat
  BY <1>5, <1>6, FS_CardinalityType
<1>. QED BY <1>1, <1>4, <1>5, <1>6, <1>7

FewThrough == \A w \in Worker : Cardinality(Through(trace[w], verdict, w)) < Structuring

\* The transfers that went through do not become more, unless the trace was not
\* structuring when the last of them was decided.
LEMMA ThroughGrows ==
    ASSUME TypeInv, [Next]_vars, NEW v \in Worker
    PROVE  \/ Through(trace'[v], verdict', v) \subseteq Through(trace[v], verdict, v)
           \/ trace'[v] = trace[v] /\ ~(Transfers(trace[v]) >= Structuring)
<1>0. TypeOK /\ HandlingsOK /\ VerdictsTyped
  BY DEF TypeInv
<1> DEFINE Fewer == Through(trace'[v], verdict', v) \subseteq Through(trace[v], verdict, v)
<1>1. CASE ~UNCHANGED verdict
  <2>1. PICK w \in Worker : \E row \in Row :
           /\ worker[w].pc = "decide" /\ worker[w].rec \in Record
           /\ Hands(w, row) /\ UNCHANGED trace
    BY <1>1, VerdictSteps
  <2>2. PICK row \in Row : Hands(w, row)
    BY <2>1
  <2>3. worker[w].structuring = (Transfers(trace[w]) >= Structuring)
    BY <2>1, TypesNow DEF HandlingOK
  <2>4. CASE w = v /\ ~worker[w].structuring
    BY <2>1, <2>3, <2>4
  <2>5. CASE w # v \/ worker[w].structuring
    <3>1. ASSUME NEW r \in Record, verdict'[r].by = v, verdict'[r].decision \notin Stops
          PROVE  verdict'[r] = verdict[r]
      BY <2>2, <2>5, <3>1 DEF Hands
    <3>. QED BY <2>1, <3>1 DEF Through
  <2>. QED BY <2>4, <2>5
<1>2. CASE UNCHANGED verdict
  <2>1. UNCHANGED trace => Fewer
    BY <1>2
  <2>2. ASSUME NEW w \in Worker, Analyze(w)
        PROVE  Fewer
    <3>1. /\ worker[w].pc = "evaluate" /\ trace'[w] = Append(trace[w], worker[w].rec)
          /\ \A u \in Worker : u # w => trace'[u] = trace[u]
      BY <1>0, <2>2, AnalyzeStep DEF Goes
    <3>2. CASE v # w
      BY <1>2, <3>1, <3>2
    <3>3. CASE v = w
      <4>1. /\ worker[w].rec \in Record /\ trace[w] \in Seq(Record)
            /\ verdict[worker[w].rec].decision = "none"
        BY <3>1, TypesNow DEF HandlingOK, Busy
      <4>2. ASSUME NEW i \in DOMAIN Append(trace[w], worker[w].rec)
            PROVE  \/ Append(trace[w], worker[w].rec)[i] = worker[w].rec
                   \/ /\ i \in DOMAIN trace[w]
                      /\ Append(trace[w], worker[w].rec)[i] = trace[w][i]
        BY <4>1
      <4>. QED BY <1>2, <3>1, <3>3, <4>1, <4>2 DEF Through
    <3>. QED BY <3>2, <3>3
  <2>3. ASSUME NEW w \in Worker, Restart(w)
        PROVE  Fewer
    <3>1. trace'[w] = <<>> /\ \A u \in Worker : u # w => trace'[u] = trace[u]
      BY <1>0, <2>3, RestartStep
    <3>. QED BY <1>2, <3>1 DEF Through
  <2>4. ASSUME NEW w \in Worker,
               \/ \E r \in Record : Deliver(w, r)
               \/ CheckHallucination(w) \/ Audit(w) \/ DecideAlone(w) \/ DecideArbitrated(w)
               \/ ModelFails(w) \/ PriceMissing(w) \/ Die(w)
        PROVE  UNCHANGED trace
    BY <2>4 DEF Deliver, CheckHallucination, Audit, DecideAlone, DecideArbitrated,
       ModelFails, PriceMissing, Die
  <2> HIDE DEF Fewer
  <2>5. Fewer
    BY <2>1, <2>2, <2>3, <2>4, StepCases
  <2>. QED BY <2>5 DEF Fewer
<1>. QED BY <1>1, <1>2

\* Of the transfers one process has judged since it started, fewer than make a
\* structuring pattern went through (evaluator.py:324).
THEOREM StructuringCorrect == Spec => []StructuringCaught
<1>1. Init => FewThrough
  <2>1. SUFFICES ASSUME Init, NEW w \in Worker
                 PROVE  Cardinality(Through(trace[w], verdict, w)) < Structuring
    BY DEF FewThrough
  <2>2. Through(trace[w], verdict, w) = {}
    BY <2>1 DEF Init, Through
  <2>. QED BY <2>2, FS_EmptySet, GuardiansAssumption
<1>2. TypeInv /\ FewThrough /\ [Next]_vars => FewThrough'
  <2>1. SUFFICES ASSUME TypeInv, FewThrough, [Next]_vars, NEW v \in Worker
                 PROVE  Cardinality(Through(trace'[v], verdict', v)) < Structuring
    BY DEF FewThrough, Through
  <2>2. /\ trace[v] \in Seq(Record) /\ trace'[v] \in Seq(Record) /\ Structuring \in Nat
    BY <2>1, TypesNow, NextTyped, GuardiansAssumption DEF Types
  <2> DEFINE new == Cardinality(Through(trace'[v], verdict', v))
             old == Cardinality(Through(trace[v], verdict, v))
  <2>3. new \in Nat /\ old \in Nat /\ old < Structuring
    BY <2>1, <2>2, TraceTransfers DEF FewThrough
  <2>4. CASE Through(trace'[v], verdict', v) \subseteq Through(trace[v], verdict, v)
    <3>1. new <= old
      BY <2>2, <2>4, TraceTransfers, FS_Subset
    <3>. QED BY <2>2, <2>3, <3>1
  <2>5. CASE trace'[v] = trace[v] /\ ~(Transfers(trace[v]) >= Structuring)
    <3>1. new <= Transfers(trace[v]) /\ Transfers(trace[v]) \in Nat
      BY <2>2, <2>5, TraceTransfers
    <3>. QED BY <2>2, <2>3, <2>5, <3>1
  <2>. QED BY <2>1, <2>4, <2>5, ThroughGrows
<1>3. FewThrough => StructuringCaught
  <2>1. ASSUME NEW w \in Worker
        PROVE  Through(trace[w], verdict, w) =
                 {r \in Judged \cap Transfer :
                    /\ verdict[r].by = w
                    /\ \E i \in DOMAIN trace[w] : trace[w][i] = r
                    /\ verdict[r].decision \notin Stops}
    BY DEF Through, Judged
  <2>. QED BY <2>1 DEF FewThrough, StructuringCaught
<1>. QED BY <1>1, <1>2, <1>3, TypeInvariant, PTL DEF Spec

-----------------------------------------------------------------------------
(* What leaves with a verdict, and what the memory holds.                  *)

\* The row of an Evaluator whose agent answered for record r; itself only from a
\* collection after a death.
Answer(e, r, hallucinated, shared, died) ==
    /\ e.rec = r /\ e.guardian = "EVALUATOR" /\ ~e.failed
    /\ e.decision = EvaluatorDecision(hallucinated)
    /\ e.itself => shared /\ died > 0

\* The rows of a process about the record it handles: none before the Evaluator's
\* agent has answered, then its row, then the Auditor's besides.  The rows it has of
\* other records have left with their verdicts.
Findings(x, rows, verdicts, shared, died) ==
    /\ x.pc \in {"evaluate", "check"} => \A row \in rows : row.rec # x.rec
    /\ x.pc = "audit" => \E e \in rows :
          /\ Answer(e, x.rec, x.hallucinated, shared, died)
          /\ \A row \in rows : row.rec = x.rec => row = e
    /\ x.pc = "decide" => \E e \in rows : \E a \in rows :
          /\ Answer(e, x.rec, x.hallucinated, shared, died)
          /\ a.rec = x.rec /\ a.guardian = "AUDITOR" /\ ~a.failed
          /\ \A row \in rows : row.rec = x.rec => row = e \/ row = a
    /\ x.pc # "down" => \A row \in rows :
          \/ verdicts[row.rec].decision # "none"
          \/ x.pc \in Busy /\ row.rec = x.rec

FindingsOK == \A w \in Worker :
    Findings(worker[w], evidence[w], verdict, chroma, deaths)

\* A process that did not take the step keeps its findings.
LEMMA OthersFind ==
    ASSUME TypeInv, FindingsOK, Types, NEW v \in Worker,
           worker'[v] = worker[v], evidence'[v] = evidence[v],
           \A r \in Record : verdict'[r] = verdict[r] \/ verdict'[r].decision # "none"
    PROVE  Findings(worker'[v], evidence'[v], verdict', chroma', deaths')
<1> DEFINE x == worker[v]
           rows == evidence[v]
<1>1. Findings(x, rows, verdict, chroma, deaths)
  BY DEF FindingsOK
<1>2. \A e, r, h : Answer(e, r, h, chroma, deaths) => Answer(e, r, h, chroma', deaths')
  BY TypesNow DEF Types, Answer
<1>3. \A row \in rows : row.rec \in Record
  BY TypesNow DEF Row
<1> HIDE DEF x, rows
<1>4. Findings(x, rows, verdict', chroma', deaths')
  BY <1>1, <1>2, <1>3 DEF Findings
<1>. QED BY <1>4 DEF x, rows

LEMMA DeliverFinds ==
    ASSUME TypeInv, FindingsOK, NEW w \in Worker, NEW r \in Record, Deliver(w, r)
    PROVE  Findings(worker'[w], evidence'[w], verdict', chroma', deaths')
<1>1. /\ worker[w].pc = "idle"
      /\ worker'[w].pc = "evaluate" /\ worker'[w].rec = r
      /\ verdict[r].decision = "none"
      /\ UNCHANGED <<evidence, chroma, verdict, deaths>>
  BY DeliverStep DEF TypeInv
<1>2. Findings(worker[w], evidence[w], verdict, chroma, deaths)
  BY DEF FindingsOK
<1>. QED BY <1>1, <1>2 DEF Findings, Busy

LEMMA AnalyzeFinds ==
    ASSUME TypeInv, FindingsOK, NEW w \in Worker, Analyze(w)
    PROVE  Findings(worker'[w], evidence'[w], verdict', chroma', deaths')
<1>1. Goes(w, "evaluate", "check") /\ UNCHANGED <<evidence, chroma, verdict, deaths>>
  BY AnalyzeStep DEF TypeInv
<1>2. Findings(worker[w], evidence[w], verdict, chroma, deaths)
  BY DEF FindingsOK
<1>. QED BY <1>1, <1>2 DEF Findings, Goes, Busy

\* A record the process can recall and has not judged was remembered by a process that
\* has died since, in a collection, or by one that is past its Evaluator.
Recalled(w, r) ==
    worker[w].pc # "down" /\ memory[w][r] # Unknown /\ verdict[r].decision = "none"
       => \/ chroma /\ deaths > 0
          \/ \E v \in Worker : /\ worker[v].pc \in {"audit", "decide"}
                               /\ worker[v].rec = r /\ (chroma \/ v = w)

RecalledOK == \A w \in Worker, r \in Record : Recalled(w, r)

LEMMA CheckFinds ==
    ASSUME TypeInv, FindingsOK, RecalledOK, NEW w \in Worker, CheckHallucination(w)
    PROVE  Findings(worker'[w], evidence'[w], verdict', chroma', deaths')
<1>1. /\ Goes(w, "check", "audit")
      /\ UNCHANGED <<chroma, verdict, deaths>>
      /\ \E hallucinated \in BOOLEAN, row \in Row :
                 /\ Adds(w, row)
                 /\ worker'[w].hallucinated = hallucinated
                 /\ row.guardian = "EVALUATOR" /\ ~row.failed
                 /\ row.decision = EvaluatorDecision(hallucinated)
                 /\ row.itself => memory[w][worker[w].rec] # Unknown
  BY CheckStep DEF TypeInv
<1>2. PICK row \in Row :
                 /\ Adds(w, row)
                 /\ row.guardian = "EVALUATOR" /\ ~row.failed
                 /\ row.decision = EvaluatorDecision(worker'[w].hallucinated)
                 /\ row.itself => memory[w][worker[w].rec] # Unknown
  BY <1>1
<1>3. /\ worker[w].pc = "check" /\ worker[w].rec \in Record
      /\ verdict[worker[w].rec].decision = "none"
  BY <1>1, TypesNow DEF Goes, HandlingOK, Busy
<1>4. row.itself => chroma /\ deaths > 0
  <2>1. SUFFICES ASSUME row.itself, ~(chroma /\ deaths > 0)
                 PROVE  FALSE
    OBVIOUS
  <2>2. PICK v \in Worker : worker[v].pc \in {"audit", "decide"}
                            /\ worker[v].rec = worker[w].rec
    BY <1>2, <1>3, <2>1 DEF RecalledOK, Recalled
  <2>3. v # w
    BY <1>3, <2>2
  <2>. QED BY <1>3, <2>2, <2>3 DEF TypeInv, Apart, Busy
<1>5. Findings(worker[w], evidence[w], verdict, chroma, deaths)
  BY DEF FindingsOK
<1> DEFINE x == worker'[w]
           r == worker[w].rec
           rows == evidence[w]
<1>6. \A e \in rows : e.rec # r /\ verdict[e.rec].decision # "none"
  BY <1>3, <1>5 DEF Findings
<1>7. /\ x.pc = "audit" /\ x.rec = r
      /\ Answer(row, r, x.hallucinated, chroma, deaths)
      /\ evidence'[w] = rows \cup {row} /\ row.rec = r
  BY <1>1, <1>2, <1>4 DEF Goes, Adds, Answer
<1> HIDE DEF x, r, rows
<1>8. Findings(x, rows \cup {row}, verdict, chroma, deaths)
  BY <1>6, <1>7 DEF Findings, Busy
<1>. QED BY <1>1, <1>7, <1>8 DEF x

LEMMA AuditFinds ==
    ASSUME TypeInv, FindingsOK, NEW w \in Worker, Audit(w)
    PROVE  Findings(worker'[w], evidence'[w], verdict', chroma', deaths')
<1>1. /\ Goes(w, "audit", "decide")
      /\ worker'[w].hallucinated = worker[w].hallucinated
      /\ UNCHANGED <<chroma, verdict, deaths>>
      /\ \E row \in Row : Adds(w, row) /\ row.guardian = "AUDITOR" /\ ~row.failed
  BY AuditStep DEF TypeInv
<1>2. PICK row \in Row : Adds(w, row) /\ row.guardian = "AUDITOR" /\ ~row.failed
  BY <1>1
<1>3. Findings(worker[w], evidence[w], verdict, chroma, deaths)
  BY DEF FindingsOK
<1> DEFINE x == worker'[w]
           y == worker[w]
           rows == evidence[w]
<1>4. /\ y.pc = "audit" /\ x.pc = "decide" /\ x.rec = y.rec
      /\ x.hallucinated = y.hallucinated
      /\ evidence'[w] = rows \cup {row} /\ row.rec = y.rec
  BY <1>1, <1>2 DEF Goes, Adds
<1>5. Findings(y, rows, verdict, chroma, deaths)
  BY <1>3
<1> HIDE DEF x, y, rows
<1>6. PICK e \in rows : /\ Answer(e, y.rec, y.hallucinated, chroma, deaths)
                        /\ \A q \in rows : q.rec = y.rec => q = e
  BY <1>4, <1>5 DEF Findings
<1>7. \A q \in rows : verdict[q.rec].decision # "none" \/ q.rec = y.rec
  BY <1>4, <1>5 DEF Findings
<1>8. Findings(x, rows \cup {row}, verdict, chroma, deaths)
  BY <1>2, <1>4, <1>6, <1>7 DEF Findings, Busy
<1>. QED BY <1>1, <1>4, <1>8 DEF x

LEMMA DecisionFinds ==
    ASSUME TypeInv, FindingsOK, NEW w \in Worker, DecideAlone(w) \/ DecideArbitrated(w)
    PROVE  Findings(worker'[w], evidence'[w], verdict', chroma', deaths')
<1>1. /\ worker[w].pc = "decide" /\ worker'[w] = Idle
      /\ UNCHANGED <<chroma, deaths>>
      /\ \E row \in Row : Adds(w, row) /\ Hands(w, row)
  BY DecisionStep DEF TypeInv
<1>2. PICK row \in Row : Adds(w, row) /\ Hands(w, row)
  BY <1>1
<1>3. Findings(worker[w], evidence[w], verdict, chroma, deaths)
  BY DEF FindingsOK
<1>4. verdict'[worker[w].rec].decision # "none"
  BY <1>2 DEF Hands, Decision
<1>5. ASSUME NEW e \in evidence'[w]
      PROVE  verdict'[e.rec].decision # "none"
  <2>1. e.rec \in Record
    BY <1>2 DEF Adds, Row
  <2>2. CASE e.rec = worker[w].rec
    BY <1>4, <2>2
  <2>3. CASE e.rec # worker[w].rec
    <3>1. e \in evidence[w] /\ verdict'[e.rec] = verdict[e.rec]
      BY <1>2, <1>5, <2>1, <2>3 DEF Adds, Hands
    <3>. QED BY <1>1, <1>3, <2>3, <3>1 DEF Findings
  <2>. QED BY <2>2, <2>3
<1>. QED BY <1>1, <1>5, IdleType DEF Findings

LEMMA FindingsStay ==
    ASSUME TypeInv, FindingsOK, RecalledOK, [Next]_vars
    PROVE  FindingsOK'
<1>0. TypeOK /\ HandlingsOK /\ Types
  BY NextTyped DEF TypeInv
<1>1. \A r \in Record : verdict'[r] = verdict[r] \/ verdict'[r].decision # "none"
  BY VerdictSteps DEF Hands, Decision
<1> DEFINE Goal == \A v \in Worker :
              Findings(worker'[v], evidence'[v], verdict', chroma', deaths')
<1>2. ASSUME NEW w \in Worker, Only(w),
             \A v \in Worker : v # w => evidence'[v] = evidence[v],
             Findings(worker'[w], evidence'[w], verdict', chroma', deaths')
      PROVE  Goal
  <2>1. ASSUME NEW v \in Worker, v # w
        PROVE  worker'[v] = worker[v] /\ evidence'[v] = evidence[v]
    BY <1>2, <2>1 DEF Only
  <2>. QED BY <1>0, <1>1, <1>2, <2>1, OthersFind
<1>3. UNCHANGED <<worker, evidence>> => Goal
  BY <1>0, <1>1, OthersFind
<1>4. ASSUME NEW w \in Worker, NEW r \in Record, Deliver(w, r)
      PROVE  Goal
  <2>1. Only(w) /\ UNCHANGED evidence
    BY <1>0, <1>4, DeliverStep
  <2>. QED BY <1>2, <1>4, <2>1, DeliverFinds
<1>5. ASSUME NEW w \in Worker, Analyze(w)
      PROVE  Goal
  <2>1. Only(w) /\ UNCHANGED evidence
    BY <1>0, <1>5, AnalyzeStep DEF Goes
  <2>. QED BY <1>2, <1>5, <2>1, AnalyzeFinds
<1>6. ASSUME NEW w \in Worker, CheckHallucination(w)
      PROVE  Goal
  <2>1. Only(w) /\ \A v \in Worker : v # w => evidence'[v] = evidence[v]
    BY <1>0, <1>6, CheckStep DEF Goes, Adds
  <2>. QED BY <1>2, <1>6, <2>1, CheckFinds
<1>7. ASSUME NEW w \in Worker, Audit(w)
      PROVE  Goal
  <2>1. Only(w) /\ \A v \in Worker : v # w => evidence'[v] = evidence[v]
    BY <1>0, <1>7, AuditStep DEF Goes, Adds
  <2>. QED BY <1>2, <1>7, <2>1, AuditFinds
<1>8. ASSUME NEW w \in Worker, DecideAlone(w) \/ DecideArbitrated(w)
      PROVE  Goal
  <2>1. Only(w) /\ \A v \in Worker : v # w => evidence'[v] = evidence[v]
    BY <1>0, <1>8, DecisionStep DEF Adds, TypeInv
  <2>. QED BY <1>2, <1>8, <2>1, DecisionFinds
<1>9. ASSUME NEW w \in Worker, ModelFails(w) \/ PriceMissing(w) \/ Die(w)
      PROVE  Goal
  <2>1. /\ Only(w) /\ worker'[w].pc = "down"
        /\ UNCHANGED evidence \/ \E row \in Row : Adds(w, row)
    BY <1>0, <1>9, FailStep
  <2>2. Findings(worker'[w], evidence'[w], verdict', chroma', deaths')
    BY <2>1 DEF Findings
  <2>3. \A v \in Worker : v # w => evidence'[v] = evidence[v]
    BY <2>1 DEF Adds
  <2>. QED BY <1>2, <2>1, <2>2, <2>3
<1>10. ASSUME NEW w \in Worker, Restart(w)
       PROVE  Goal
  <2>1. /\ Only(w) /\ worker'[w] = Idle /\ evidence'[w] = {}
        /\ \A v \in Worker : v # w => evidence'[v] = evidence[v]
    BY <1>0, <1>10, RestartStep
  <2>2. Findings(worker'[w], evidence'[w], verdict', chroma', deaths')
    BY <2>1, IdleType DEF Findings
  <2>. QED BY <1>2, <2>1, <2>2
<1> HIDE DEF Goal
<1>11. ASSUME NEW w \in Worker,
              \/ \E r \in Record : Deliver(w, r)
              \/ Analyze(w) \/ CheckHallucination(w) \/ Audit(w)
              \/ DecideAlone(w) \/ DecideArbitrated(w)
              \/ ModelFails(w) \/ PriceMissing(w) \/ Die(w) \/ Restart(w)
       PROVE  Goal
  BY <1>4, <1>5, <1>6, <1>7, <1>8, <1>9, <1>10, <1>11
<1>12. Goal
  BY <1>3, <1>11, StepCases
<1>. QED BY <1>12 DEF Goal, FindingsOK, Findings, Answer

\* What a step does to the memory.
LEMMA MemorySteps ==
    ASSUME TypeInv, [Next]_vars
    PROVE  \/ UNCHANGED memory
           \/ \E w \in Worker : /\ worker[w].pc = "check" /\ worker[w].rec \in Record
                                /\ CheckHallucination(w) \/ worker'[w].pc = "down"
                                /\ Only(w)
                                /\ \E hallucinated \in BOOLEAN : Remembers(w, hallucinated)
           \/ ~chroma
<1>0. TypeOK /\ HandlingsOK
  BY DEF TypeInv
<1>1. ASSUME NEW w \in Worker, CheckHallucination(w)
      PROVE  /\ worker[w].pc = "check" /\ worker[w].rec \in Record /\ Only(w)
             /\ \E hallucinated \in BOOLEAN : Remembers(w, hallucinated)
  <2>1. /\ Goes(w, "check", "audit")
        /\ \E hallucinated \in BOOLEAN : Remembers(w, hallucinated)
    BY <1>0, <1>1, CheckStep
  <2>. QED BY <2>1, TypesNow DEF Goes, HandlingOK, Busy
<1>2. ASSUME NEW w \in Worker, ModelFails(w) \/ PriceMissing(w) \/ Die(w)
      PROVE  \/ UNCHANGED memory
             \/ /\ worker[w].pc = "check" /\ worker[w].rec \in Record
                /\ worker'[w].pc = "down" /\ Only(w)
                /\ \E hallucinated \in BOOLEAN : Remembers(w, hallucinated)
  <2>1. /\ worker'[w].pc = "down" /\ Only(w)
        /\ \/ UNCHANGED memory
           \/ /\ worker[w].pc = "check"
              /\ \E hallucinated \in BOOLEAN : Remembers(w, hallucinated)
    BY <1>0, <1>2, FailStep
  <2>. QED BY <2>1, TypesNow DEF HandlingOK, Busy
<1>3. ASSUME NEW w \in Worker, Restart(w)
      PROVE  UNCHANGED memory \/ ~chroma
  BY <1>0, <1>3, RestartStep
<1>4. ASSUME NEW w \in Worker,
             \/ \E r \in Record : Deliver(w, r)
             \/ Analyze(w) \/ Audit(w) \/ DecideAlone(w) \/ DecideArbitrated(w)
      PROVE  UNCHANGED memory
  BY <1>4 DEF Deliver, Analyze, Audit, DecideAlone, DecideArbitrated
<1>. QED BY <1>1, <1>2, <1>3, <1>4, StepCases

\* Past the Evaluator a collection has the record with the decision of its row.
RememberedOK == \A w \in Worker :
    worker[w].pc \in {"audit", "decide"} /\ chroma
       => \A v \in Worker : memory[v][worker[w].rec].decision
                              = EvaluatorDecision(worker[w].hallucinated)

LEMMA RememberedStays ==
    ASSUME TypeInv, RememberedOK, [Next]_vars
    PROVE  RememberedOK'
<1>0. TypeOK /\ HandlingsOK /\ Types
  BY NextTyped DEF TypeInv
<1>1. ASSUME NEW w \in Worker, worker'[w].pc \in {"audit", "decide"}, chroma,
             NEW v \in Worker
      PROVE  memory'[v][worker'[w].rec].decision
               = EvaluatorDecision(worker'[w].hallucinated)
  <2>1. CASE CheckHallucination(w)
    <3>1. PICK h \in BOOLEAN : Remembers(w, h) /\ worker'[w].hallucinated = h
      BY <1>0, <2>1, CheckStep
    <3>2. worker'[w].rec = worker[w].rec /\ worker[w].rec \in Record
      BY <1>0, <2>1, CheckStep, TypesNow DEF Goes, HandlingOK, Busy
    <3>3. memory'[v][worker[w].rec] = Incident(h)
      BY <1>1, <3>1, <3>2 DEF Remembers
    <3>. QED BY <1>1, <3>1, <3>2, <3>3, IncidentType
  <2>2. CASE ~CheckHallucination(w)
    <3>1. /\ worker[w].pc \in {"audit", "decide"}
          /\ worker'[w].rec = worker[w].rec
          /\ worker'[w].hallucinated = worker[w].hallucinated
      <4>1. ASSUME NEW u \in Worker, Only(u), u # w
            PROVE  worker'[w] = worker[w]
        BY <4>1 DEF Only
      <4>2. Audit(w) => /\ worker[w].pc = "audit"
                        /\ worker'[w].rec = worker[w].rec
                        /\ worker'[w].hallucinated = worker[w].hallucinated
        BY <1>0, AuditStep DEF Goes
      <4>3. ASSUME NEW u \in Worker,
                   \/ \E r \in Record : Deliver(u, r)
                   \/ Analyze(u) \/ CheckHallucination(u) \/ Audit(u)
                   \/ DecideAlone(u) \/ DecideArbitrated(u)
                   \/ ModelFails(u) \/ PriceMissing(u) \/ Die(u) \/ Restart(u)
            PROVE  worker'[w] = worker[w] \/ Audit(w)
        <5>1. Only(u)
          BY <1>0, <4>3, DeliverStep, AnalyzeStep, CheckStep, AuditStep, DecisionStep,
             FailStep, RestartStep DEF TypeInv, Goes
        <5>2. CASE u = w
          <6>1. ASSUME NEW r \in Record, Deliver(w, r)
                PROVE  FALSE
            BY <1>0, <1>1, <6>1, DeliverStep
          <6>2. ~Analyze(w)
            BY <1>0, <1>1, AnalyzeStep DEF Goes
          <6>3. ~(DecideAlone(w) \/ DecideArbitrated(w) \/ Restart(w))
            BY <1>0, <1>1, DecisionStep, RestartStep, IdleType DEF TypeInv
          <6>4. ~(ModelFails(w) \/ PriceMissing(w) \/ Die(w))
            BY <1>0, <1>1, FailStep
          <6>. QED BY <2>2, <4>3, <5>2, <6>1, <6>2, <6>3, <6>4
        <5>3. CASE u # w
          BY <4>1, <5>1, <5>3
        <5>. QED BY <5>2, <5>3
      <4>4. worker'[w] = worker[w] \/ Audit(w)
        BY <4>3, StepCases
      <4>. QED BY <1>1, <4>2, <4>4
    <3>2. worker[w].rec \in Record
      BY <3>1, TypesNow DEF HandlingOK, Busy
    <3>3. memory'[v][worker[w].rec] = memory[v][worker[w].rec]
      <4>1. ASSUME NEW u \in Worker, worker[u].pc = "check",
                   NEW h \in BOOLEAN, Remembers(u, h)
            PROVE  memory'[v][worker[w].rec] = memory[v][worker[w].rec]
        <5>1. u # w
          BY <3>1, <4>1
        <5>2. worker[u].rec # worker[w].rec
          BY <3>1, <4>1, <5>1 DEF TypeInv, Apart, Busy
        <5>. QED BY <3>2, <4>1, <5>2 DEF Remembers
      <4>. QED BY <1>1, <4>1, MemorySteps
    <3>. QED BY <1>1, <3>1, <3>3 DEF RememberedOK
  <2>. QED BY <2>1, <2>2
<1>. QED BY <1>0, <1>1 DEF RememberedOK, Types, EvaluatorDecision

\* Recalled of the state a step leads to.
RecalledNext(w, r) ==
    worker'[w].pc # "down" /\ memory'[w][r] # Unknown /\ verdict'[r].decision = "none"
       => \/ chroma' /\ deaths' > 0
          \/ \E v \in Worker : /\ worker'[v].pc \in {"audit", "decide"}
                               /\ worker'[v].rec = r /\ (chroma' \/ v = w)

LEMMA RecalledStays ==
    ASSUME TypeInv, RecalledOK, [Next]_vars, NEW w \in Worker, NEW r \in Record
    PROVE  RecalledNext(w, r)
<1>0. /\ TypeOK /\ HandlingsOK /\ VerdictsTyped /\ Types
      /\ deaths \in Nat /\ deaths' \in Nat /\ deaths' >= deaths /\ chroma' = chroma
  BY NextTyped, TypesNow DEF TypeInv, Types
<1>1. SUFFICES ASSUME worker'[w].pc # "down", memory'[w][r] # Unknown,
                      verdict'[r].decision = "none", ~(chroma /\ deaths' > 0)
               PROVE  \E v \in Worker : /\ worker'[v].pc \in {"audit", "decide"}
                                        /\ worker'[v].rec = r /\ (chroma \/ v = w)
  BY <1>0 DEF RecalledNext
<1>2. verdict[r].decision = "none" /\ ~(chroma /\ deaths > 0)
  <2>1. verdict'[r] = verdict[r]
    BY <1>1, VerdictSteps DEF Hands, Decision
  <2>. QED BY <1>0, <1>1, <2>1
<1> DEFINE Goal == \E v \in Worker : /\ worker'[v].pc \in {"audit", "decide"}
                                     /\ worker'[v].rec = r /\ (chroma \/ v = w)
\* A process that was past the Evaluator with r, and still is.
<1>3. ASSUME worker[w].pc # "down", memory[w][r] # Unknown,
             \A v \in Worker :
                worker[v].pc \in {"audit", "decide"} /\ worker[v].rec = r /\ (chroma \/ v = w)
                   => /\ worker'[v].pc \in {"audit", "decide"}
                      /\ worker'[v].rec = worker[v].rec
      PROVE  Goal
  BY <1>2, <1>3 DEF RecalledOK, Recalled
<1>4. ASSUME UNCHANGED <<worker, memory>>
      PROVE  Goal
  BY <1>1, <1>3, <1>4
<1>5. ASSUME NEW u \in Worker, Only(u), UNCHANGED memory, worker[u].pc # "down",
             \/ worker[u].pc \notin {"audit", "decide"}
             \/ worker'[u].pc = "decide" /\ worker'[u].rec = worker[u].rec
      PROVE  Goal
  BY <1>1, <1>3, <1>5 DEF Only
<1>6. ASSUME NEW u \in Worker, NEW q \in Record, Deliver(u, q)
      PROVE  Goal
  <2>1. Only(u) /\ UNCHANGED memory /\ worker[u].pc = "idle"
    BY <1>0, <1>6, DeliverStep
  <2>. QED BY <1>5, <2>1
<1>7. ASSUME NEW u \in Worker, Analyze(u)
      PROVE  Goal
  <2>1. Only(u) /\ UNCHANGED memory /\ worker[u].pc = "evaluate"
    BY <1>0, <1>7, AnalyzeStep DEF Goes
  <2>. QED BY <1>5, <2>1
<1>8. ASSUME NEW u \in Worker, Audit(u)
      PROVE  Goal
  <2>1. /\ Only(u) /\ UNCHANGED memory /\ worker[u].pc = "audit"
        /\ worker'[u].pc = "decide" /\ worker'[u].rec = worker[u].rec
    BY <1>0, <1>8, AuditStep DEF Goes
  <2>. QED BY <1>5, <2>1
<1>9. ASSUME NEW u \in Worker, CheckHallucination(u)
      PROVE  Goal
  <2>1. PICK h \in BOOLEAN : Remembers(u, h)
    BY <1>0, <1>9, CheckStep
  <2>2. /\ Only(u) /\ worker[u].pc = "check" /\ worker'[u].pc = "audit"
        /\ worker'[u].rec = worker[u].rec
    BY <1>0, <1>9, CheckStep DEF Goes
  <2>3. CASE (w = u \/ chroma) /\ r = worker[u].rec
    BY <2>2, <2>3
  <2>4. CASE ~((w = u \/ chroma) /\ r = worker[u].rec)
    <3>1. memory'[w][r] = memory[w][r]
      BY <2>1, <2>4 DEF Remembers
    <3>. QED BY <1>1, <1>3, <2>2, <3>1 DEF Only
  <2>. QED BY <2>3, <2>4
<1>10. ASSUME NEW u \in Worker, DecideAlone(u) \/ DecideArbitrated(u)
       PROVE  Goal
  <2>1. /\ Only(u) /\ worker[u].pc = "decide" /\ UNCHANGED memory
        /\ \E row \in Row : Hands(u, row)
    BY <1>0, <1>10, DecisionStep
  <2>2. worker[u].rec # r
    BY <1>1, <2>1 DEF Hands, Decision
  <2>3. worker[w].pc # "down"
    BY <1>1, <2>1 DEF Only
  <2>. QED BY <1>1, <1>3, <2>1, <2>2, <2>3 DEF Only
<1>11. ASSUME NEW u \in Worker, ModelFails(u) \/ PriceMissing(u) \/ Die(u)
       PROVE  Goal
  <2>1. /\ Only(u) /\ worker'[u].pc = "down" /\ deaths' > 0
        /\ UNCHANGED memory \/ \E h \in BOOLEAN : Remembers(u, h)
    BY <1>0, <1>11, FailStep
  <2>2. ~chroma /\ u # w
    BY <1>1, <2>1
  <2>3. memory'[w][r] = memory[w][r] /\ worker'[w] = worker[w]
    BY <2>1, <2>2 DEF Remembers, Only
  <2>. QED BY <1>1, <1>3, <2>2, <2>3
<1>12. ASSUME NEW u \in Worker, Restart(u)
       PROVE  Goal
  <2>1. /\ Only(u) /\ worker[u].pc = "down" /\ deaths > 0
        /\ memory'[w][r] = IF w = u /\ ~chroma THEN Unknown ELSE memory[w][r]
    BY <1>0, <1>12, RestartStep, TypesNow DEF HandlingOK
  <2>2. ~chroma /\ u # w
    BY <1>1, <1>2, <2>1
  <2>3. memory'[w][r] = memory[w][r] /\ worker'[w] = worker[w]
    BY <2>1, <2>2 DEF Only
  <2>. QED BY <1>1, <1>3, <2>2, <2>3
<1> HIDE DEF Goal
<1>13. ASSUME NEW u \in Worker,
              \/ \E q \in Record : Deliver(u, q)
              \/ Analyze(u) \/ CheckHallucination(u) \/ Audit(u)
              \/ DecideAlone(u) \/ DecideArbitrated(u)
              \/ ModelFails(u) \/ PriceMissing(u) \/ Die(u) \/ Restart(u)
       PROVE  Goal
  BY <1>6, <1>7, <1>8, <1>9, <1>10, <1>11, <1>12, <1>13
<1>14. Goal
  BY <1>4, <1>13, StepCases
<1>. QED BY <1>14 DEF Goal

\* What a verdict on record r leaves with: three rows, one of each guardian.
Complete(v, r, memories, shared, died) ==
    v.decision # "none" =>
       \E e, a, s \in Row :
          /\ v.rows = {e, a, s}
          /\ e.guardian = "EVALUATOR" /\ a.guardian = "AUDITOR"
          /\ s.guardian = "SUPERVISOR"
          /\ ~e.failed /\ ~a.failed /\ ~s.failed
          /\ e.itself => shared /\ died > 0
          /\ shared => \A w \in Worker : memories[w][r].decision = e.decision

CompleteOK == \A r \in Record : Complete(verdict[r], r, memory, chroma, deaths)

LEMMA CompleteStays ==
    ASSUME TypeInv, FindingsOK, RememberedOK, CompleteOK, [Next]_vars
    PROVE  CompleteOK'
<1>0. /\ TypeOK /\ HandlingsOK /\ Types /\ chroma' = chroma
      /\ deaths \in Nat /\ deaths' \in Nat /\ deaths' >= deaths
  BY NextTyped, TypesNow DEF TypeInv, Types
<1>1. ASSUME NEW r \in Record, verdict'[r] = verdict[r], verdict[r].decision # "none"
      PROVE  Complete(verdict'[r], r, memory', chroma', deaths')
  <2>1. ASSUME chroma, NEW w \in Worker
        PROVE  memory'[w][r] = memory[w][r]
    <3>1. ASSUME NEW u \in Worker, worker[u].pc = "check",
                 NEW h \in BOOLEAN, Remembers(u, h)
          PROVE  memory'[w][r] = memory[w][r]
      <4>1. worker[u].rec # r
        BY <1>1, <3>1, TypesNow DEF HandlingOK, Busy
      <4>. QED BY <3>1, <4>1 DEF Remembers
    <3>. QED BY <2>1, <3>1, MemorySteps
  <2>2. Complete(verdict[r], r, memory, chroma, deaths)
    BY DEF CompleteOK
  <2>3. PICK e, a, s \in Row :
          /\ verdict[r].rows = {e, a, s}
          /\ e.guardian = "EVALUATOR" /\ a.guardian = "AUDITOR"
          /\ s.guardian = "SUPERVISOR"
          /\ ~e.failed /\ ~a.failed /\ ~s.failed
          /\ e.itself => chroma /\ deaths > 0
          /\ chroma => \A w \in Worker : memory[w][r].decision = e.decision
    BY <1>1, <2>2 DEF Complete
  <2>4. chroma' => \A w \in Worker : memory'[w][r].decision = e.decision
    BY <1>0, <2>1, <2>3
  <2>5. e.itself => chroma' /\ deaths' > 0
    BY <1>0, <2>3
  <2>. QED BY <1>1, <2>3, <2>4, <2>5 DEF Complete
<1>2. ASSUME NEW r \in Record, verdict'[r] # verdict[r]
      PROVE  Complete(verdict'[r], r, memory', chroma', deaths')
  <2>1. PICK w \in Worker : DecideAlone(w) \/ DecideArbitrated(w)
    BY <1>2, StepCases DEF Deliver, Analyze, CheckHallucination, Audit, ModelFails,
       PriceMissing, Die, Restart
  <2>2. /\ worker[w].pc = "decide" /\ UNCHANGED <<memory, chroma, deaths>>
        /\ \E row \in Row : /\ Adds(w, row) /\ Hands(w, row)
                            /\ row.guardian = "SUPERVISOR" /\ ~row.failed
    BY <2>1, DecisionStep DEF TypeInv
  <2>3. PICK s \in Row : /\ Adds(w, s) /\ Hands(w, s)
                         /\ s.guardian = "SUPERVISOR" /\ ~s.failed
    BY <2>2
  <2>4. r = worker[w].rec
    BY <1>2, <2>3 DEF Hands
  <2>5. PICK e \in evidence[w] : \E a \in evidence[w] :
          /\ Answer(e, r, worker[w].hallucinated, chroma, deaths)
          /\ a.rec = r /\ a.guardian = "AUDITOR" /\ ~a.failed
          /\ \A row \in evidence[w] : row.rec = r => row = e \/ row = a
    BY <2>2, <2>4 DEF FindingsOK, Findings
  <2>6. PICK a \in evidence[w] :
          /\ Answer(e, r, worker[w].hallucinated, chroma, deaths)
          /\ a.rec = r /\ a.guardian = "AUDITOR" /\ ~a.failed
          /\ \A row \in evidence[w] : row.rec = r => row = e \/ row = a
    BY <2>5
  <2>7. e \in Row /\ a \in Row /\ e.rec = r /\ s.rec = r
    BY <2>3, <2>4, <2>6, TypesNow DEF Answer, Adds
  <2>8. verdict'[r].rows = {e, a, s}
    <3>1. verdict'[r].rows = {q \in evidence[w] \cup {s} : q.rec = r}
      BY <2>3, <2>4 DEF Hands
    <3>. QED BY <2>6, <2>7, <3>1
  <2>9. chroma => \A v \in Worker : memory[v][r].decision = e.decision
    BY <2>2, <2>4, <2>6 DEF RememberedOK, Answer
  <2>. QED BY <2>2, <2>3, <2>6, <2>7, <2>8, <2>9 DEF Complete, Answer
<1>3. ASSUME NEW r \in Record
      PROVE  Complete(verdict'[r], r, memory', chroma', deaths')
  <2>1. CASE verdict'[r] = verdict[r] /\ verdict[r].decision = "none"
    BY <2>1 DEF Complete
  <2>. QED BY <1>1, <1>2, <2>1
<1>. QED BY <1>3 DEF CompleteOK, Complete

FindingsInv == FindingsOK /\ RememberedOK /\ RecalledOK /\ CompleteOK

LEMMA FindingsInvariant == Spec => []FindingsInv
<1>1. Init => FindingsInv
  <2>1. SUFFICES ASSUME Init
                 PROVE  FindingsInv
    OBVIOUS
  <2>2. /\ worker = [w \in Worker |-> Idle]
        /\ evidence = [w \in Worker |-> {}]
        /\ memory = [w \in Worker |-> [r \in Record |-> Unknown]]
        /\ verdict = [r \in Record |-> NoVerdict]
    BY <2>1 DEF Init
  <2>3. FindingsOK /\ RememberedOK
    BY <2>2, IdleType DEF FindingsOK, Findings, RememberedOK
  <2>4. RecalledOK
    BY <2>2 DEF RecalledOK, Recalled
  <2>5. CompleteOK
    BY <2>2 DEF CompleteOK, Complete, NoVerdict
  <2>. QED BY <2>3, <2>4, <2>5 DEF FindingsInv
<1>2. TypeInv /\ FindingsInv /\ [Next]_vars => FindingsInv'
  <2>1. SUFFICES ASSUME TypeInv, FindingsInv, [Next]_vars
                 PROVE  FindingsInv'
    OBVIOUS
  <2>2. FindingsOK /\ RememberedOK /\ RecalledOK /\ CompleteOK
    BY <2>1 DEF FindingsInv
  <2>3. FindingsOK' /\ RememberedOK' /\ CompleteOK'
    BY <2>1, <2>2, FindingsStay, RememberedStays, CompleteStays
  <2>4. RecalledOK'
    <3>1. \A w \in Worker, r \in Record : RecalledNext(w, r)
      BY <2>1, <2>2, RecalledStays
    <3>. QED BY <3>1 DEF RecalledOK, Recalled, RecalledNext
  <2>. QED BY <2>3, <2>4 DEF FindingsInv
<1>. QED BY <1>1, <1>2, TypeInvariant, PTL DEF Spec

\* The rows of a verdict are one of each guardian.
LEMMA ThreeRows ==
    ASSUME CompleteOK, NEW r \in Judged
    PROVE  \E e, a, s \in Row :
          /\ verdict[r].rows = {e, a, s}
          /\ e.guardian = "EVALUATOR" /\ a.guardian = "AUDITOR"
          /\ s.guardian = "SUPERVISOR"
          /\ ~e.failed /\ ~a.failed /\ ~s.failed
          /\ e.itself => chroma /\ deaths > 0
          /\ chroma => \A w \in Worker : memory[w][r].decision = e.decision
BY DEF CompleteOK, Complete, Judged

\* A verdict leaves with one row of each guardian and none of them reports a failed
\* model call, however often the record was attempted before
\* (router_guardians.py:622).
THEOREM EvidenceCorrect == Spec => []EvidenceComplete
<1>1. CompleteOK => EvidenceComplete
  <2>1. SUFFICES ASSUME CompleteOK, NEW r \in Judged, NEW g \in Guardian
                 PROVE  LET rows == {row \in verdict[r].rows : row.guardian = g}
                        IN  Cardinality(rows) = 1 /\ \A row \in rows : ~row.failed
    BY DEF EvidenceComplete
  <2> DEFINE rows == {row \in verdict[r].rows : row.guardian = g}
  <2>2. \E x \in Row : rows = {x} /\ ~x.failed
    BY <2>1, ThreeRows DEF Guardian
  <2> HIDE DEF rows
  <2>3. Cardinality(rows) = 1 /\ \A row \in rows : ~row.failed
    BY <2>2, FS_Singleton
  <2>. QED BY <2>3 DEF rows
<1>. QED BY <1>1, FindingsInvariant, PTL DEF FindingsInv

\* A collection has the record of every verdict, with the decision the Evaluator's row
\* reports, also when an earlier attempt remembered another one
\* (router_guardians.py:156).
THEOREM MemoryCorrect == Spec => []MemoryAgrees
<1>1. CompleteOK => MemoryAgrees
  BY ThreeRows DEF MemoryAgrees
<1>. QED BY <1>1, FindingsInvariant, PTL DEF FindingsInv

\* The Evaluator recalls the record it judges only from a collection and after a
\* process has died (router_guardians.py:155).
THEOREM RecallsCorrect == Spec => []RecallsOthers
<1>1. CompleteOK => RecallsOthers
  BY ThreeRows DEF RecallsOthers
<1>. QED BY <1>1, FindingsInvariant, PTL DEF FindingsInv

-----------------------------------------------------------------------------
(* The air-gap verifier.                                                   *)

Word == {"PASS", "FAIL"}

\* A sequence that another is appended to keeps its elements where they are.
LEMMA PrefixKept ==
    ASSUME NEW s \in Seq(Word), NEW t \in Seq(Word), NEW n \in DOMAIN s
    PROVE  /\ s \o t \in Seq(Word)
           /\ n \in DOMAIN (s \o t)
           /\ (s \o t)[n] = s[n]
  BY SMT

LEMMA WordsListed ==
    ASSUME NEW a \in Word, NEW b \in Word, NEW c \in Word
    PROVE  <<a>> \in Seq(Word) /\ <<a, b>> \in Seq(Word) /\ <<a, b, c>> \in Seq(Word)
  OBVIOUS

LEMMA StatusType ==
    ASSUME NEW ok
    PROVE  Status(ok) \in Word
  <1>1. CASE ok
    BY <1>1, Zenon DEF Status, Word
  <1>2. CASE ~ok
    BY <1>2, Zenon DEF Status, Word
  <1> QED
    BY <1>1, <1>2

\* Every check is a sequence of words.
LEMMA ChecksType ==
    ASSUME NEW cfg, NEW telemetry, NEW imports, NEW unparsed, NEW set
    PROVE  /\ ProfileChecks(cfg) \in Seq(Word)
           /\ TelemetryChecks(telemetry) \in Seq(Word)
           /\ SourceChecks(imports, unparsed) \in Seq(Word)
           /\ RuntimeChecks(set) \in Seq(Word)
  <1>1. "FAIL" \in Word
    BY DEF Word
  <1>2. <<"FAIL">> \in Seq(Word)
    BY <1>1, WordsListed
  <1>3. ProfileChecks(cfg) \in Seq(Word)
    BY <1>2, StatusType, WordsListed, Zenon DEF ProfileChecks
  <1>4. TelemetryChecks(telemetry) \in Seq(Word)
    BY <1>2, StatusType, WordsListed, Zenon DEF TelemetryChecks
  <1>5. SourceChecks(imports, unparsed) \in Seq(Word)
    BY StatusType, WordsListed, Zenon DEF SourceChecks
  <1>6. RuntimeChecks(set) \in Seq(Word)
    BY StatusType, WordsListed, Zenon DEF RuntimeChecks
  <1> QED
    BY <1>3, <1>4, <1>5, <1>6

\* The checks of the profile are among those the result is made of.
LEMMA ProfileIsChecked ==
    ASSUME NEW cfg, NEW telemetry, NEW imports, NEW unparsed, NEW set,
           NEW n \in DOMAIN ProfileChecks(cfg)
    PROVE  LET checks == Checks(cfg, telemetry, imports, unparsed, set)
           IN  n \in DOMAIN checks /\ checks[n] = ProfileChecks(cfg)[n]
  <1> DEFINE p == ProfileChecks(cfg)
             t == IF ValidProfile(cfg) THEN TelemetryChecks(telemetry) ELSE <<>>
             s == SourceChecks(imports, unparsed)
             r == RuntimeChecks(set)
  <1>1. /\ p \in Seq(Word) /\ t \in Seq(Word)
        /\ s \in Seq(Word) /\ r \in Seq(Word)
    <2>1. <<>> \in Seq(Word)
      OBVIOUS
    <2>2. t \in Seq(Word)
      BY <2>1, ChecksType
    <2> QED
      BY <2>2, ChecksType
  <1>2. n \in DOMAIN p
    OBVIOUS
  <1>3. Checks(cfg, telemetry, imports, unparsed, set) = ((p \o t) \o s) \o r
    BY DEF Checks
  <1> HIDE DEF p, t, s, r
  <1>4. p \o t \in Seq(Word) /\ n \in DOMAIN (p \o t) /\ (p \o t)[n] = p[n]
    BY <1>1, <1>2, PrefixKept
  <1>5. /\ (p \o t) \o s \in Seq(Word)
        /\ n \in DOMAIN ((p \o t) \o s)
        /\ ((p \o t) \o s)[n] = p[n]
    BY <1>1, <1>4, PrefixKept
  <1>6. /\ n \in DOMAIN (((p \o t) \o s) \o r)
        /\ (((p \o t) \o s) \o r)[n] = p[n]
    BY <1>1, <1>5, PrefixKept
  <1> QED
    BY <1>3, <1>6 DEF p

\* An attestation (air_gap_verify.py:438) is signed only of a host on which the
\* probe ran, and every model the packaged profile lets a client be built for
\* is then a local classifier or is served from an address the verifier takes
\* for local, whatever the keys of the environment.
THEOREM AttestedIsLocal ==
    ASSUME NEW cfg, NEW telemetry, NEW imports, NEW unparsed, NEW set,
           NEW host, NEW key \in BOOLEAN, NEW environ, NEW role,
           Result(Checks(cfg, telemetry, imports, unparsed, set),
                  EgressCheck(host), key) = "PASS",
           CanBuild(cfg, role, environ)
    PROVE  /\ host.system = "Linux" /\ host.probe # 0
           /\ cfg.profile = "local"
           /\ \/ Endpoint(cfg, role) = Nowhere
              \/ IsLocalEndpoint(Endpoint(cfg, role))
  <1> DEFINE checks == Checks(cfg, telemetry, imports, unparsed, set)
  <1>1. /\ \A n \in DOMAIN checks : checks[n] # "FAIL"
        /\ EgressCheck(host) # "FAIL" /\ EgressCheck(host) # "SKIP"
    BY DEF Result
  <1>2. host.system = "Linux" /\ host.probe # 0
    BY <1>1 DEF EgressCheck, Status
  <1>3. \A n \in DOMAIN ProfileChecks(cfg) : ProfileChecks(cfg)[n] # "FAIL"
    BY <1>1, ProfileIsChecked
  <1>4. ValidProfile(cfg)
    <2>1. SUFFICES ASSUME ~ValidProfile(cfg) PROVE FALSE
      OBVIOUS
    <2>2. ProfileChecks(cfg) = <<"FAIL">>
      BY <2>1 DEF ProfileChecks
    <2> QED
      BY <2>2, <1>3
  <1>5. /\ Status(cfg.profile = "local") # "FAIL"
        /\ Status(\A r \in Roles(cfg) : LocalRoute(ForRole(cfg, r))) # "FAIL"
    <2> DEFINE first == Status(cfg.profile = "local")
               second == Status(\A r \in Roles(cfg) : LocalRoute(ForRole(cfg, r)))
    <2>1. ProfileChecks(cfg) = <<first, second>>
      BY <1>4 DEF ProfileChecks
    <2> HIDE DEF first, second
    <2>2. /\ 1 \in DOMAIN <<first, second>> /\ 2 \in DOMAIN <<first, second>>
          /\ <<first, second>>[1] = first /\ <<first, second>>[2] = second
      BY SMT
    <2>3. first # "FAIL" /\ second # "FAIL"
      BY <1>3, <2>1, <2>2
    <2> QED
      BY <2>3 DEF first, second
  <1>6. cfg.profile = "local"
    BY <1>5 DEF Status
  <1>7. LocalRoute(ForRole(cfg, role))
    BY <1>5 DEF Status, CanBuild
  <1>8. ForRole(cfg, role).enabled
    BY DEF CanBuild
  <1>9. CASE ForRole(cfg, role).provider = "local"
    <2>1. Endpoint(cfg, role) = Nowhere
      BY <1>9 DEF Endpoint
    <2> QED
      BY <2>1, <1>2, <1>6
  <1>10. CASE ForRole(cfg, role).provider = "openai_compat"
    <2>1. Endpoint(cfg, role) = ForRole(cfg, role).url
      BY <1>10 DEF Endpoint
    <2>2. IsLocalEndpoint(ForRole(cfg, role).url)
      BY <1>7, <1>8, <1>10 DEF LocalRoute
    <2> QED
      BY <2>1, <2>2, <1>2, <1>6
  <1>11. ForRole(cfg, role).provider \in {"local", "openai_compat"}
    BY <1>7, <1>8 DEF LocalRoute
  <1> QED
    BY <1>2, <1>6, <1>9, <1>10, <1>11
=============================================================================
