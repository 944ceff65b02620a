----------------------------- MODULE Governance -----------------------------
(***************************************************************************)
(* The decision behind the gate and its human in the loop: the graph       *)
(* defender -> supervisor -> escalate of shield-governance (graph.py) with *)
(* the Defender's running totals (defender/engine.py, defender/rules.py),  *)
(* and the resume route of shield-server (governance.py).                  *)
(*                                                                         *)
(* LangGraph keeps one thread per run_id in the memory of the process: the *)
(* state the last invocation left, and whether it waits in an interrupt.   *)
(* It is external and modelled by what the code relies on: a record starts *)
(* the graph anew, Command(resume=...) continues an interrupt, returns the *)
(* state of a finished thread as it is and raises without one, and of two  *)
(* invocations of a thread at the same time the one to end last stays.     *)
(* Exceptions inside the graph, and a resume of a thread whose graph is    *)
(* running, are left out.                                                  *)
(*                                                                         *)
(* The calls are transfers.  Records in flight together are of different   *)
(* agents of a run: the chain of Ingest orders those of one agent.         *)
(***************************************************************************)
EXTENDS Integers, FiniteSetsExt

CONSTANTS
    Record,         \* records sent to decide
    Run,            \* run ids
    Recipient,      \* recipients of transfers
    Amount,         \* amounts of transfers, negative ones too: no rule asks for more
                    \* (value_sanity, rules.py:228, is not among those of a transfer)
    AmountCap,      \* DefenderPolicy.amount_cap
    ReviewFloor,    \* DefenderPolicy.review_floor
    CumulativeCap,  \* DefenderPolicy.cumulative_cap
    Operator,       \* resume requests in flight
    Human,          \* the decisions they send
    MaxRestarts     \* bound: restarts of the process

ASSUME GovernanceAssumption ==
    /\ Amount \subseteq Int
    /\ AmountCap \in Nat
    /\ ReviewFloor \in Nat
    /\ CumulativeCap \in Nat
    /\ Human \subseteq {"accept", "edit", "response", "ignore"}
    /\ MaxRestarts \in Nat

VARIABLES
    sent,       \* totals of CumulativeRecipientTracker
    thread,     \* checkpoint of each run: what the last invocation left
    call,       \* control state of each record's decide request
    row,        \* rows of governance_verdicts, a set while there is none
    resume,     \* control state of each resume request
    answers,    \* history: what resumes have returned
    restarts

vars == <<sent, thread, call, row, resume, answers, restarts>>

Decision == {"PASS", "ALERT", "REWRITE", "ESCALATE", "BLOCK"}

Transfer == [run : Run, to : Recipient, amount : Amount]

Checkpoint == [record : Record, decision : Decision, paused : BOOLEAN]

\* `counted` is history: the total has taken the amount in.
Call == [pc : {"new"}]
           \cup [pc : {"scan", "commit", "done", "refused"}, transfer : Transfer,
                 decision : Decision, life : Nat, counted : BOOLEAN]

\* Totals, threads, rows and requests keep their types: an answer is always one
\* of the decisions of the schema (graph.py:323).
TypeOK ==
    /\ sent \in [Run -> [Recipient -> Int]]
    /\ thread \in [Run -> SUBSET Checkpoint]
    /\ \A run \in Run : Cardinality(thread[run]) <= 1
    /\ call \in [Record -> Call]
    /\ row \in [Record -> SUBSET [decision : Decision,
                                  resolution : {"none"} \cup Human]]
    /\ resume \in [Operator -> [pc : {"idle"}] \cup
                      [pc : {"load", "node", "update"}, incident : Record,
                       human : Human, at : SUBSET Checkpoint]]
    /\ answers \subseteq [incident : Record, about : Record, decision : Decision]
    /\ restarts \in Nat

-----------------------------------------------------------------------------
\* decide takes pre_exec records only: a verdict is never ROLLBACK here.
Severity == [PASS |-> 0, ALERT |-> 1, ESCALATE |-> 2, BLOCK |-> 4]

Worse(d, e) == IF Severity[d] < Severity[e] THEN e ELSE d

\* evaluate_send_money: the worst outcome of the rules.  `refused` stands for
\* the rules on recipient and subject, which look at one call only, and for an
\* amount that is no number (NaN is not <= amount_cap either).
RuleDecision(t, refused) ==
    IF \/ refused
       \/ t.amount > AmountCap
       \/ sent[t.run][t.to] + t.amount > CumulativeCap
    THEN "BLOCK"
    ELSE IF t.amount > ReviewFloor THEN "ESCALATE" ELSE "PASS"

\* An outcome that lets the transfer go is counted, and raises or lowers the
\* total of its run and recipient.
Counts(decision) == decision \in {"PASS", "ALERT"}

Committed(t, decision) ==
    IF Counts(decision) THEN [sent EXCEPT ![t.run][t.to] = @ + t.amount] ELSE sent

\* Supervisor.decide on the signals of the Defender alone: with no Evaluator
\* there is no conflict and the risk band is PASS, so the Defender decides.
Supervised(decision) == Worse(decision, "PASS")

-----------------------------------------------------------------------------
\* Mutant: the total is only raised when the verdict is final.
AssessUncounted(r) ==
    /\ call[r].pc = "new"
    /\ \E t \in Transfer, refused \in BOOLEAN :
          call' = [call EXCEPT ![r] =
                     [pc |-> "scan", transfer |-> t, life |-> restarts,
                      decision |-> RuleDecision(t, refused), counted |-> FALSE]]
    /\ UNCHANGED <<sent, thread, row, resume, answers, restarts>>

\* DefenderEngine.assess up to its first await: the rules, and the total of an
\* outcome that lets the transfer go.
Assess(r) ==
    /\ call[r].pc = "new"
    /\ \E t \in Transfer, refused \in BOOLEAN :
          LET decision == RuleDecision(t, refused)
          IN  /\ call' = [call EXCEPT ![r] =
                            [pc |-> "scan", transfer |-> t, life |-> restarts,
                             decision |-> decision, counted |-> Counts(decision)]]
              /\ sent' = Committed(t, decision)
    /\ UNCHANGED <<thread, row, resume, answers, restarts>>

\* Mutant: the escalate node interrupts on every verdict.
Waits(decision) == TRUE

\* The escalate node interrupts on ESCALATE only.
Interrupts(decision) == decision = "ESCALATE"

\* The rest of the graph: the findings of the scanners and of the structuring
\* analyzer compose with the outcome of the rules, the supervisor decides, the
\* escalate node waits or not, and the thread of the run is about this record.
Escalate(r) ==
    /\ call[r].pc = "scan"
    /\ \E found \in {"PASS", "ESCALATE", "BLOCK"} :
          LET final == Supervised(Worse(call[r].decision, found))
          IN  /\ call' = [call EXCEPT ![r].pc = "commit", ![r].decision = final]
              /\ thread' = [thread EXCEPT ![call[r].transfer.run] =
                               {[record |-> r, decision |-> final,
                                 paused |-> Interrupts(final)]}]
    /\ UNCHANGED <<sent, row, resume, answers, restarts>>

\* decide inserts the verdict; an ESCALATE is an incident from here on.
Commit(r) ==
    /\ call[r].pc = "commit"
    /\ row' = [row EXCEPT ![r] = {[decision |-> call[r].decision,
                                   resolution |-> "none"]}]
    /\ call' = [call EXCEPT ![r].pc = "done"]
    /\ UNCHANGED <<sent, thread, resume, answers, restarts>>

\* A refused insert: what the graph has done stays.
Refuse(r) ==
    /\ call[r].pc = "commit"
    /\ call' = [call EXCEPT ![r].pc = "refused"]
    /\ UNCHANGED <<sent, thread, row, resume, answers, restarts>>

-----------------------------------------------------------------------------
\* A resume request finds the row of its incident, and in it the run.
ResumeCall(o) ==
    /\ resume[o].pc = "idle"
    /\ \E incident \in Record, human \in Human :
          /\ row[incident] # {}
          /\ resume' = [resume EXCEPT ![o] =
                          [pc |-> "load", incident |-> incident, human |-> human,
                           at |-> {}]]
    /\ UNCHANGED <<sent, thread, call, row, answers, restarts>>

\* _resume_decision_to_verdict
ResumeVerdict(human) ==
    CASE human \in {"accept", "response"} -> "PASS"
      [] human = "ignore" -> "BLOCK"
      [] human = "edit" -> "REWRITE"

ResumeEnd(o) == resume' = [resume EXCEPT ![o] = [pc |-> "idle"]]

\* gov_app.resume reads the thread of the run.
ResumeLoad(o) ==
    /\ resume[o].pc = "load"
    /\ LET run == call[resume[o].incident].transfer.run
       IN  /\ thread[run] # {}
           /\ \A r \in Record : call[r].pc = "scan" => call[r].transfer.run # run
           /\ resume' = [resume EXCEPT ![o].pc = "node", ![o].at = thread[run]]
    /\ UNCHANGED <<sent, thread, call, row, answers, restarts>>

\* It continues the interrupt it has read, or returns what the thread has come
\* to, which leaves the thread alone.
ResumeGraph(o) ==
    /\ resume[o].pc = "node"
    /\ LET incident == resume[o].incident
       IN  \E at \in resume[o].at :
              LET decision == IF at.paused THEN ResumeVerdict(resume[o].human)
                              ELSE at.decision
              IN  /\ thread' = IF at.paused
                     THEN [thread EXCEPT ![call[incident].transfer.run] =
                             {[at EXCEPT !.decision = decision, !.paused = FALSE]}]
                     ELSE thread
                  /\ answers' = answers \cup {[incident |-> incident,
                        about |-> at.record, decision |-> decision]}
    /\ resume' = [resume EXCEPT ![o].pc = "update"]
    /\ UNCHANGED <<sent, call, row, restarts>>

\* Mutant: without a thread the incident is resolved all the same.
ResumeUnanswered(o) ==
    /\ resume[o].pc = "load"
    /\ thread[call[resume[o].incident].transfer.run] = {}
    /\ resume' = [resume EXCEPT ![o].pc = "update"]
    /\ UNCHANGED <<sent, thread, call, row, answers, restarts>>

\* There is no thread, or anything else of the request raises.
ResumeFails(o) ==
    /\ resume[o].pc # "idle"
    /\ ResumeEnd(o)
    /\ UNCHANGED <<sent, thread, call, row, answers, restarts>>

\* The incident is marked as resolved, whoever has resolved it before.
ResumeUpdate(o) ==
    /\ resume[o].pc = "update"
    /\ row' = [row EXCEPT ![resume[o].incident] =
                 {[r EXCEPT !.resolution = resume[o].human] : r \in @}]
    /\ ResumeEnd(o)
    /\ UNCHANGED <<sent, thread, call, answers, restarts>>

\* The process starts again: totals and threads are gone, so are the requests.
Restart ==
    /\ restarts < MaxRestarts
    /\ restarts' = restarts + 1
    /\ sent' = [run \in Run |-> [to \in Recipient |-> 0]]
    /\ thread' = [run \in Run |-> {}]
    /\ call' = [r \in Record |-> IF call[r].pc \in {"scan", "commit"}
                                 THEN [call[r] EXCEPT !.pc = "refused"] ELSE call[r]]
    /\ resume' = [o \in Operator |-> [pc |-> "idle"]]
    /\ UNCHANGED <<row, answers>>

Init ==
    /\ sent = [run \in Run |-> [to \in Recipient |-> 0]]
    /\ thread = [run \in Run |-> {}]
    /\ call = [r \in Record |-> [pc |-> "new"]]
    /\ row = [r \in Record |-> {}]
    /\ resume = [o \in Operator |-> [pc |-> "idle"]]
    /\ answers = {}
    /\ restarts = 0

DecideStep(r) == Assess(r) \/ Escalate(r) \/ Commit(r) \/ Refuse(r)

ResumeStep(o) ==
    \/ ResumeCall(o) \/ ResumeLoad(o) \/ ResumeGraph(o)
    \/ ResumeFails(o) \/ ResumeUpdate(o)

Next ==
    \/ \E r \in Record : DecideStep(r)
    \/ \E o \in Operator : ResumeStep(o)
    \/ Restart

Spec == Init /\ [][Next]_vars

-----------------------------------------------------------------------------
\* The records of this life of the process that go to one recipient in one run.
Sent(run, to) ==
    {r \in Record : /\ call[r].pc # "new"
                    /\ call[r].life = restarts
                    /\ call[r].transfer.run = run
                    /\ call[r].transfer.to = to}

Passed(run, to) ==
    {r \in Sent(run, to) : call[r].pc = "done" /\ call[r].decision \in {"PASS", "ALERT"}}

\* A negative amount stays counted whatever becomes of its call.
Lowering(run, to) ==
    {r \in Sent(run, to) : call[r].counted /\ call[r].transfer.amount < 0}

SumOf(records) ==
    LET amount(r) == call[r].transfer.amount IN MapThenSumSet(amount, records)

\* What the gate lets through on its own to one recipient in one run never
\* exceeds the cap by more than what negative amounts have taken off the total,
\* those of calls that were blocked after the rules or refused included,
\* while the process lives and whatever the requests of the run interleave with
\* (rules.py:279, engine.py:194).
PassedWithinCap ==
    \A run \in Run, to \in Recipient :
       SumOf(Passed(run, to) \cup Lowering(run, to)) <= CumulativeCap

\* No resume overrules a verdict that was not an escalation, though resume takes
\* the id of any verdict (governance.py:501) and threads are shared.
OnlyEscalationsOverruled ==
    \A a \in answers :
       call[a.about].pc \in {"commit", "done"}
          => a.decision = call[a.about].decision \/ call[a.about].decision = "ESCALATE"

\* An incident is resolved only after the graph has answered a resume of it
\* (governance.py:502 comes before :513).
ResolvedWasAnswered ==
    \A i \in Record : \A r \in row[i] :
       r.resolution # "none" => \E a \in answers : a.incident = i

\* The resume of an escalation re-enters the incident it was called for, as the
\* docstring says (governance.py:490).
ResumeAnswersIncident ==
    \A a \in answers :
       call[a.incident].decision = "ESCALATE" => a.about = a.incident
=============================================================================
