--------------------------- MODULE GovernanceProofs ---------------------------
(***************************************************************************)
(* For any records, runs, caps and number of resumes in flight: what a     *)
(* resume returns overrules escalations only, and an incident is resolved  *)
(* only by a resume the graph has answered.  What is let through without a *)
(* human exceeds the cap of its recipient by no more than what negative    *)
(* amounts have taken off the total.                                       *)
(***************************************************************************)
EXTENDS Governance, FiniteSetTheorems, TLAPS

Working == [pc : {"scan", "commit", "done", "refused"}, transfer : Transfer,
            decision : Decision, life : Nat, counted : BOOLEAN]

Resuming == [pc : {"load", "node", "update"}, incident : Record,
             human : Human, at : SUBSET Checkpoint]

\* A checkpoint is about a record that is past the graph, and it waits, or has
\* a decision other than the record's, only when that was an escalation.
Sound(t) ==
    /\ call[t.record].pc \in {"commit", "done", "refused"}
    /\ call[t.record].pc # "refused" =>
          \/ call[t.record].decision = "ESCALATE"
          \/ ~t.paused /\ t.decision = call[t.record].decision

CheckpointsSound ==
    /\ \A run \in Run : \A t \in thread[run] : Sound(t)
    /\ \A o \in Operator :
          resume[o].pc # "idle" => \A t \in resume[o].at : Sound(t)

AnswersSound ==
    \A a \in answers :
       /\ call[a.about].pc \in {"commit", "done", "refused"}
       /\ call[a.about].pc # "refused" =>
             a.decision = call[a.about].decision \/ call[a.about].decision = "ESCALATE"

\* A request about to mark its incident has its answer.
UpdatesAnswered ==
    \A o \in Operator :
       resume[o].pc = "update" => \E a \in answers : a.incident = resume[o].incident

\* An incident is a record whose decide request has inserted its verdict.
IncidentsDone ==
    /\ \A r \in Record : row[r] # {} => call[r].pc = "done"
    /\ \A o \in Operator :
          resume[o].pc # "idle" => call[resume[o].incident].pc = "done"

GovernanceInv ==
    TypeOK /\ IncidentsDone /\ CheckpointsSound /\ AnswersSound /\ UpdatesAnswered /\ ResolvedWasAnswered

-----------------------------------------------------------------------------
LEMMA WorkingType ==
    ASSUME TypeOK, NEW r \in Record, call[r].pc # "new"
    PROVE  /\ call[r] \in Working
           /\ call[r].transfer \in Transfer
           /\ call[r].transfer.run \in Run
           /\ call[r].transfer.to \in Recipient
           /\ call[r].transfer.amount \in Int
           /\ call[r].decision \in Decision
           /\ call[r].life \in Nat
           /\ call[r].counted \in BOOLEAN
<1>1. call[r] \in Call
  BY DEF TypeOK
<1>2. call[r] \in Working
  BY <1>1 DEF Call, Working
<1>. QED BY <1>2, GovernanceAssumption DEF Working, Transfer

LEMMA ResumingType ==
    ASSUME TypeOK, NEW o \in Operator, resume[o].pc # "idle"
    PROVE  /\ resume[o] \in Resuming
           /\ resume[o].incident \in Record
           /\ resume[o].human \in Human
           /\ resume[o].at \subseteq Checkpoint
<1>1. resume[o] \in [pc : {"idle"}] \cup Resuming
  BY DEF TypeOK, Resuming
<1>2. resume[o] \in Resuming
  BY <1>1
<1>. QED BY <1>2 DEF Resuming

LEMMA WorseIsEither == \A d, e : Worse(d, e) \in {d, e}
BY DEF Worse

\* The type of the threads after one is replaced.
LEMMA ThreadType ==
    ASSUME TypeOK, NEW run, NEW t \in Checkpoint
    PROVE  LET after == [thread EXCEPT ![run] = {t}]
           IN  /\ after \in [Run -> SUBSET Checkpoint]
               /\ \A u \in Run : Cardinality(after[u]) <= 1
<1> DEFINE after == [thread EXCEPT ![run] = {t}]
<1>1. thread \in [Run -> SUBSET Checkpoint] /\ \A u \in Run : Cardinality(thread[u]) <= 1
  BY DEF TypeOK
<1>2. after \in [Run -> SUBSET Checkpoint]
  BY <1>1
<1>3. Cardinality({t}) = 1
  BY FS_Singleton
<1>4. \A u \in Run : after[u] = {t} \/ after[u] = thread[u]
  BY <1>1
<1>. QED BY <1>1, <1>2, <1>3, <1>4

\* Steps that touch no checkpoint, answer, request or row of the human side,
\* and move records forward only.
LEMMA HumanSideKept ==
    ASSUME GovernanceInv, TypeOK', UNCHANGED <<thread, resume, answers>>,
           \A r \in Record :
              \/ row'[r] = row[r]
              \/ call'[r].pc = "done" /\ \A v \in row'[r] : v.resolution = "none",
           \A r \in Record : call[r].pc = "done" => call'[r].pc = "done",
           \A r \in Record :
              call[r].pc \in {"commit", "done", "refused"} =>
                 /\ call'[r].pc \in {"commit", "done", "refused"}
                 /\ call'[r].pc # "refused" => /\ call[r].pc # "refused"
                                               /\ call'[r].decision = call[r].decision
    PROVE  GovernanceInv'
<1>1. \A t \in Checkpoint : Sound(t) => Sound(t)'
  BY DEF Sound, Checkpoint
<1>2. CheckpointsSound'
  <2>1. \A run \in Run : thread[run] \subseteq Checkpoint
    BY DEF GovernanceInv, TypeOK
  <2>2. \A o \in Operator : resume[o].pc # "idle" => resume[o].at \subseteq Checkpoint
    BY ResumingType DEF GovernanceInv
  <2>. QED BY <1>1, <2>1, <2>2 DEF GovernanceInv, CheckpointsSound
<1>3. AnswersSound'
  BY DEF GovernanceInv, TypeOK, AnswersSound
<1>4. UpdatesAnswered'
  BY DEF GovernanceInv, UpdatesAnswered
<1>5. ResolvedWasAnswered'
  BY DEF GovernanceInv, ResolvedWasAnswered
<1>6. IncidentsDone'
  <2>1. \A o \in Operator : resume[o].pc # "idle" => resume[o].incident \in Record
    BY ResumingType DEF GovernanceInv
  <2>. QED BY <2>1 DEF GovernanceInv, IncidentsDone
<1>. QED BY <1>2, <1>3, <1>4, <1>5, <1>6 DEF GovernanceInv

LEMMA AssessInv ==
    ASSUME GovernanceInv, NEW r \in Record, Assess(r)
    PROVE  GovernanceInv'
<1>1. PICK t \in Transfer, refused \in BOOLEAN :
        /\ call[r].pc = "new"
        /\ call' = [call EXCEPT ![r] =
                      [pc |-> "scan", transfer |-> t, life |-> restarts,
                       decision |-> RuleDecision(t, refused),
                       counted |-> Counts(RuleDecision(t, refused))]]
        /\ sent' = Committed(t, RuleDecision(t, refused))
        /\ UNCHANGED <<thread, row, resume, answers, restarts>>
  BY DEF Assess
<1>2. RuleDecision(t, refused) \in Decision
  BY DEF RuleDecision, Decision
<1>3. [pc |-> "scan", transfer |-> t, life |-> restarts,
       decision |-> RuleDecision(t, refused),
       counted |-> Counts(RuleDecision(t, refused))] \in Call
  BY <1>2 DEF Call, Counts, GovernanceInv, TypeOK
<1>4. call' \in [Record -> Call]
  BY <1>1, <1>3 DEF GovernanceInv, TypeOK
<1>5. sent' \in [Run -> [Recipient -> Int]]
  <2>1. t.run \in Run /\ t.to \in Recipient /\ t.amount \in Int
    BY GovernanceAssumption DEF Transfer
  <2>2. sent \in [Run -> [Recipient -> Int]]
    BY DEF GovernanceInv, TypeOK
  <2>3. sent[t.run][t.to] + t.amount \in Int
    BY <2>1, <2>2
  <2>4. [sent EXCEPT ![t.run][t.to] = @ + t.amount] \in [Run -> [Recipient -> Int]]
    BY <2>1, <2>2, <2>3
  <2>. QED BY <1>1, <2>2, <2>4 DEF Committed, Counts
<1>6. TypeOK'
  BY <1>1, <1>4, <1>5 DEF GovernanceInv, TypeOK
<1>7. \A q \in Record \ {r} : call'[q] = call[q]
  BY <1>1 DEF GovernanceInv, TypeOK
<1>. QED BY <1>1, <1>6, <1>7, HumanSideKept

\* The record is past the graph, and its run's thread is about it.
LEMMA EscalateInv ==
    ASSUME GovernanceInv, NEW r \in Record, Escalate(r)
    PROVE  GovernanceInv'
<1> DEFINE run == call[r].transfer.run
<1>1. PICK found \in {"PASS", "ESCALATE", "BLOCK"} :
        LET final == Supervised(Worse(call[r].decision, found))
        IN  /\ call[r].pc = "scan"
            /\ call' = [call EXCEPT ![r].pc = "commit", ![r].decision = final]
            /\ thread' = [thread EXCEPT ![run] =
                             {[record |-> r, decision |-> final,
                               paused |-> Interrupts(final)]}]
            /\ UNCHANGED <<sent, row, resume, answers, restarts>>
  BY DEF Escalate
<1> DEFINE final == Supervised(Worse(call[r].decision, found))
           t == [record |-> r, decision |-> final, paused |-> Interrupts(final)]
<1>2. call[r] \in Working /\ run \in Run /\ call[r].decision \in Decision
  BY <1>1, WorkingType DEF GovernanceInv
<1>3. final \in Decision
  <2>1. Worse(call[r].decision, found) \in {call[r].decision, found}
    BY WorseIsEither
  <2>2. final \in {Worse(call[r].decision, found), "PASS"}
    BY WorseIsEither DEF Supervised
  <2>. QED BY <1>2, <2>1, <2>2 DEF Decision
<1> HIDE DEF final
<1>4. t \in Checkpoint
  BY <1>3 DEF Checkpoint, Interrupts
<1>5. call'[r] \in Call /\ call' \in [Record -> Call]
  <2>1. [call[r] EXCEPT !.pc = "commit", !.decision = final] \in Working
    BY <1>2, <1>3 DEF Working
  <2>2. call' = [call EXCEPT ![r] = [call[r] EXCEPT !.pc = "commit", !.decision = final]]
    BY <1>1 DEF final
  <2>3. Working \subseteq Call
    BY DEF Working, Call
  <2>. QED BY <2>1, <2>2, <2>3 DEF GovernanceInv, TypeOK
<1>6. thread' = [thread EXCEPT ![run] = {t}]
  BY <1>1 DEF final
<1>7. TypeOK'
  <2> HIDE DEF t
  <2>1. /\ thread' \in [Run -> SUBSET Checkpoint]
        /\ \A u \in Run : Cardinality(thread'[u]) <= 1
    BY <1>4, <1>6, ThreadType DEF GovernanceInv
  <2>. QED BY <1>1, <1>5, <2>1 DEF GovernanceInv, TypeOK
<1>8. /\ call'[r].pc = "commit" /\ call'[r].decision = final
      /\ \A q \in Record \ {r} : call'[q] = call[q]
  BY <1>1, <1>2 DEF GovernanceInv, TypeOK, final, Working
<1>9. \A u \in Checkpoint : Sound(u) => Sound(u)'
  BY <1>1, <1>8 DEF Sound, Checkpoint
<1>10. \A c \in Checkpoint : c = t => Sound(c)'
  <2> SUFFICES ASSUME NEW c \in Checkpoint, c = t PROVE Sound(c)'
    OBVIOUS
  <2>1. c.record = r /\ c.decision = final
    OBVIOUS
  <2>2. CASE final = "ESCALATE"
    BY <1>8, <2>1, <2>2 DEF Sound
  <2>3. CASE final # "ESCALATE"
    <3>1. c.paused = FALSE
      BY <2>3 DEF Interrupts
    <3>. QED BY <1>8, <2>1, <3>1 DEF Sound
  <2>. QED BY <2>2, <2>3
<1>11. CheckpointsSound'
  <2>1. \A u \in Run : thread'[u] = {t} \/ thread'[u] = thread[u]
    BY <1>6 DEF GovernanceInv, TypeOK
  <2>2. \A u \in Run : thread[u] \subseteq Checkpoint
    BY DEF GovernanceInv, TypeOK
  <2>3. \A o \in Operator : resume[o].pc # "idle" => resume[o].at \subseteq Checkpoint
    BY ResumingType DEF GovernanceInv
  <2>4. resume' = resume
    BY <1>1
  <2> HIDE DEF t
  <2>5. \A u \in Run : \A c \in thread'[u] : Sound(c)'
    BY <1>4, <1>9, <1>10, <2>1, <2>2 DEF GovernanceInv, CheckpointsSound
  <2>6. \A o \in Operator :
           resume'[o].pc # "idle" => \A c \in resume'[o].at : Sound(c)'
    BY <1>9, <2>3, <2>4 DEF GovernanceInv, CheckpointsSound
  <2>. QED BY <2>5, <2>6 DEF CheckpointsSound
<1>12. AnswersSound'
  BY <1>1, <1>8 DEF GovernanceInv, TypeOK, AnswersSound
<1>13. UpdatesAnswered' /\ ResolvedWasAnswered'
  BY <1>1 DEF GovernanceInv, UpdatesAnswered, ResolvedWasAnswered
<1>14. IncidentsDone'
  <2>1. \A o \in Operator : resume[o].pc # "idle" => resume[o].incident \in Record
    BY ResumingType DEF GovernanceInv
  <2>. QED BY <1>1, <1>8, <2>1 DEF GovernanceInv, IncidentsDone
<1>. QED BY <1>7, <1>11, <1>12, <1>13, <1>14 DEF GovernanceInv

LEMMA CommitInv ==
    ASSUME GovernanceInv, NEW r \in Record, Commit(r) \/ Refuse(r)
    PROVE  GovernanceInv'
<1>1. CASE Commit(r)
  <2>1. /\ call[r].pc = "commit"
        /\ row' = [row EXCEPT ![r] = {[decision |-> call[r].decision,
                                       resolution |-> "none"]}]
        /\ call' = [call EXCEPT ![r].pc = "done"]
        /\ UNCHANGED <<sent, thread, resume, answers, restarts>>
    BY <1>1 DEF Commit
  <2>2. call[r] \in Working /\ call[r].decision \in Decision
    BY <2>1, WorkingType DEF GovernanceInv
  <2>3. [call[r] EXCEPT !.pc = "done"] \in Call
    BY <2>2 DEF Working, Call
  <2>4. call' \in [Record -> Call]
    BY <2>1, <2>3 DEF GovernanceInv, TypeOK
  <2>5. row' \in [Record -> SUBSET [decision : Decision,
                                    resolution : {"none"} \cup Human]]
    BY <2>1, <2>2 DEF GovernanceInv, TypeOK
  <2>6. TypeOK'
    BY <2>1, <2>4, <2>5 DEF GovernanceInv, TypeOK
  <2>7. /\ call'[r].pc = "done" /\ call'[r].decision = call[r].decision
        /\ \A q \in Record \ {r} : call'[q] = call[q] /\ row'[q] = row[q]
        /\ \A v \in row'[r] : v.resolution = "none"
    BY <2>1, <2>2 DEF GovernanceInv, TypeOK, Working
  <2>. QED BY <2>1, <2>6, <2>7, HumanSideKept
<1>2. CASE Refuse(r)
  <2>1. /\ call' = [call EXCEPT ![r].pc = "refused"]
        /\ UNCHANGED <<sent, thread, row, resume, answers, restarts>>
    BY <1>2 DEF Refuse
  <2>2. [call[r] EXCEPT !.pc = "refused"] \in Call
    <3>1. call[r] \in Working
      BY <1>2, WorkingType DEF Refuse, GovernanceInv
    <3>. QED BY <3>1 DEF Working, Call
  <2>3. call' \in [Record -> Call]
    BY <2>1, <2>2 DEF GovernanceInv, TypeOK
  <2>4. TypeOK'
    BY <2>1, <2>3 DEF GovernanceInv, TypeOK
  <2>5. /\ call'[r].pc = "refused" /\ call[r].pc = "commit"
        /\ \A q \in Record \ {r} : call'[q] = call[q]
    BY <1>2, <2>1 DEF GovernanceInv, TypeOK, Refuse
  <2>. QED BY <2>1, <2>4, <2>5, HumanSideKept
<1>. QED BY <1>1, <1>2

\* A resume reads the thread, continues it, answers, and marks the incident.
LEMMA ResumeInv ==
    ASSUME GovernanceInv, NEW o \in Operator, ResumeStep(o)
    PROVE  GovernanceInv'
<1> USE DEF GovernanceInv
<1>1. CASE ResumeCall(o)
  <2>1. PICK incident \in Record, human \in Human :
          /\ row[incident] # {}
          /\ resume' = [resume EXCEPT ![o] =
                          [pc |-> "load", incident |-> incident, human |-> human,
                           at |-> {}]]
          /\ UNCHANGED <<sent, thread, call, row, answers, restarts>>
    BY <1>1 DEF ResumeCall
  <2>2. TypeOK'
    <3>1. [pc |-> "load", incident |-> incident, human |-> human, at |-> {}] \in Resuming
      BY DEF Resuming
    <3>2. resume' \in [Operator -> [pc : {"idle"}] \cup Resuming]
      BY <2>1, <3>1 DEF TypeOK, Resuming
    <3>. QED BY <2>1, <3>2 DEF TypeOK, Resuming
  <2>3. resume'[o].pc = "load" /\ resume'[o].at = {} /\ resume'[o].incident = incident
    BY <2>1 DEF TypeOK
  <2>4. \A p \in Operator \ {o} : resume'[p] = resume[p]
    BY <2>1 DEF TypeOK
  <2>5. CheckpointsSound'
    BY <2>1, <2>3, <2>4 DEF CheckpointsSound, Sound
  <2>6. AnswersSound' /\ UpdatesAnswered' /\ ResolvedWasAnswered' /\ IncidentsDone'
    BY <2>1, <2>3, <2>4
    DEF AnswersSound, UpdatesAnswered, ResolvedWasAnswered, IncidentsDone
  <2>. QED BY <2>2, <2>5, <2>6
<1>2. CASE ResumeLoad(o)
  <2>1. /\ resume[o].pc = "load"
        /\ resume' = [resume EXCEPT ![o].pc = "node",
                          ![o].at = thread[call[resume[o].incident].transfer.run]]
        /\ UNCHANGED <<sent, thread, call, row, answers, restarts>>
    BY <1>2 DEF ResumeLoad
  <2>2. resume[o] \in Resuming /\ resume[o].incident \in Record
    BY <2>1, ResumingType
  <2>3. call[resume[o].incident].transfer.run \in Run
    BY <2>1, <2>2, WorkingType DEF IncidentsDone
  <2>4. PICK found \in SUBSET Checkpoint :
           /\ \A t \in found : Sound(t)
           /\ resume' = [resume EXCEPT ![o].pc = "node", ![o].at = found]
    BY <2>1, <2>3 DEF TypeOK, CheckpointsSound
  <2>5. /\ resume'[o] \in Resuming
        /\ resume'[o].pc = "node" /\ resume'[o].at = found
        /\ resume'[o].incident = resume[o].incident
        /\ \A p \in Operator \ {o} : resume'[p] = resume[p]
    BY <2>2, <2>4 DEF TypeOK, Resuming
  <2>6. TypeOK'
    <3>1. resume' \in [Operator -> [pc : {"idle"}] \cup Resuming]
      BY <2>4, <2>5 DEF TypeOK, Resuming
    <3>. QED BY <2>1, <3>1 DEF TypeOK, Resuming
  <2>7. CheckpointsSound'
    <3>1. \A t \in Checkpoint : Sound(t) => Sound(t)'
      BY <2>1 DEF Sound
    <3>2. \A u \in Run : \A t \in thread'[u] : t \in Checkpoint /\ Sound(t)
      BY <2>1 DEF CheckpointsSound, TypeOK
    <3>3. \A p \in Operator : resume'[p].pc # "idle" =>
             \A t \in resume'[p].at : t \in Checkpoint /\ Sound(t)
      BY <2>4, <2>5, ResumingType DEF CheckpointsSound
    <3>. QED BY <3>1, <3>2, <3>3 DEF CheckpointsSound
  <2>8. AnswersSound' /\ ResolvedWasAnswered'
    BY <2>1 DEF AnswersSound, ResolvedWasAnswered
  <2>9. UpdatesAnswered' /\ IncidentsDone'
    <3>1. \A p \in Operator :
             /\ resume'[p].pc = "update" => p # o /\ resume[p].pc = "update"
             /\ resume'[p].pc # "idle" => resume[p].pc # "idle"
             /\ resume'[p].incident = resume[p].incident
      BY <2>1, <2>5
    <3>2. call' = call /\ row' = row /\ answers' = answers
      BY <2>1
    <3>. QED BY <3>1, <3>2 DEF UpdatesAnswered, IncidentsDone
  <2>. QED BY <2>6, <2>7, <2>8, <2>9
<1>3. CASE ResumeGraph(o)
  <2> DEFINE incident == resume[o].incident
             run == call[incident].transfer.run
  <2>1. /\ resume[o].pc = "node"
        /\ resume' = [resume EXCEPT ![o].pc = "update"]
        /\ UNCHANGED <<sent, call, row, restarts>>
    BY <1>3 DEF ResumeGraph
  <2>2. PICK at \in resume[o].at :
          LET decision == IF at.paused THEN ResumeVerdict(resume[o].human)
                          ELSE at.decision
          IN  /\ thread' = IF at.paused
                 THEN [thread EXCEPT ![run] =
                         {[at EXCEPT !.decision = decision, !.paused = FALSE]}]
                 ELSE thread
              /\ answers' = answers \cup {[incident |-> incident,
                    about |-> at.record, decision |-> decision]}
    BY <1>3 DEF ResumeGraph
  <2>3. /\ resume[o] \in Resuming /\ incident \in Record
        /\ resume[o].human \in Human /\ at \in Checkpoint /\ Sound(at)
    BY <2>1, ResumingType DEF CheckpointsSound
  <2> DEFINE decision == IF at.paused THEN ResumeVerdict(resume[o].human)
                         ELSE at.decision
             after == [at EXCEPT !.decision = decision, !.paused = FALSE]
             answer == [incident |-> incident, about |-> at.record, decision |-> decision]
  <2>4. at.record \in Record /\ at.decision \in Decision /\ at.paused \in BOOLEAN
    BY <2>3 DEF Checkpoint
  <2>5. decision \in Decision
    BY <2>3, <2>4, GovernanceAssumption DEF ResumeVerdict, Decision
  <2>6. /\ resume'[o] \in Resuming
        /\ resume'[o].pc = "update" /\ resume'[o].at = resume[o].at
        /\ resume'[o].incident = resume[o].incident
        /\ \A p \in Operator \ {o} : resume'[p] = resume[p]
    BY <2>1, <2>3 DEF TypeOK, Resuming
  <2>7. resume' \in [Operator -> [pc : {"idle"}] \cup Resuming]
    BY <2>1, <2>6 DEF TypeOK, Resuming
  <2>8. answers' = answers \cup {answer}
    BY <2>2
  <2>9. CASE at.paused
    <3>1. thread' = [thread EXCEPT ![run] = {after}]
      BY <2>2, <2>9
    <3>2. /\ after \in Checkpoint /\ after.record = at.record /\ after.paused = FALSE
      BY <2>3, <2>5 DEF Checkpoint
    <3>3. /\ call[at.record].pc \in {"commit", "done", "refused"}
          /\ call[at.record].pc # "refused" => call[at.record].decision = "ESCALATE"
      BY <2>3, <2>9 DEF Sound
    <3>4. Sound(after)
      BY <3>2, <3>3 DEF Sound
    <3>5. answer \in [incident : Record, about : Record, decision : Decision]
      BY <2>3, <2>4, <2>5
    <3>6. answer.about = at.record /\ answer.incident = incident
      OBVIOUS
    <3> HIDE DEF after, answer, decision, run, incident
    <3>7. /\ thread' \in [Run -> SUBSET Checkpoint]
          /\ \A u \in Run : Cardinality(thread'[u]) <= 1
      BY <3>1, <3>2, ThreadType
    <3>8. TypeOK'
      BY <2>1, <2>7, <2>8, <3>5, <3>7 DEF TypeOK, Resuming
    <3>9. \A u \in Run : thread'[u] = {after} \/ thread'[u] = thread[u]
      BY <3>1 DEF TypeOK
    <3>10. CheckpointsSound'
      <4>1. \A t \in Checkpoint : Sound(t) => Sound(t)'
        BY <2>1 DEF Sound
      <4>2. \A u \in Run : \A t \in thread'[u] : t \in Checkpoint /\ Sound(t)
        BY <3>2, <3>4, <3>9 DEF CheckpointsSound, TypeOK
      <4>3. \A p \in Operator : resume'[p].pc # "idle" =>
               \A t \in resume'[p].at : t \in Checkpoint /\ Sound(t)
        BY <2>1, <2>6, ResumingType DEF CheckpointsSound
      <4>. QED BY <4>1, <4>2, <4>3 DEF CheckpointsSound
    <3>11. AnswersSound'
      BY <2>1, <2>8, <3>3, <3>6 DEF AnswersSound
    <3>12. UpdatesAnswered' /\ ResolvedWasAnswered' /\ IncidentsDone'
      BY <2>1, <2>6, <2>8, <3>6
      DEF UpdatesAnswered, ResolvedWasAnswered, IncidentsDone, incident
    <3>. QED BY <3>8, <3>10, <3>11, <3>12
  <2>10. CASE ~at.paused
    <3>1. thread' = thread
      BY <2>2, <2>10
    <3>2. /\ answer \in [incident : Record, about : Record, decision : Decision]
          /\ answer.about = at.record /\ answer.incident = incident
          /\ answer.decision = at.decision
      BY <2>3, <2>4, <2>5, <2>10
    <3>3. /\ call[at.record].pc \in {"commit", "done", "refused"}
          /\ call[at.record].pc # "refused" =>
                \/ call[at.record].decision = "ESCALATE"
                \/ at.decision = call[at.record].decision
      BY <2>3 DEF Sound
    <3> HIDE DEF answer, decision, run, incident
    <3>4. TypeOK'
      BY <2>1, <2>7, <2>8, <3>1, <3>2 DEF TypeOK, Resuming
    <3>5. CheckpointsSound'
      <4>1. \A t \in Checkpoint : Sound(t) => Sound(t)'
        BY <2>1 DEF Sound
      <4>2. \A u \in Run : \A t \in thread'[u] : t \in Checkpoint /\ Sound(t)
        BY <3>1 DEF CheckpointsSound, TypeOK
      <4>3. \A p \in Operator : resume'[p].pc # "idle" =>
               \A t \in resume'[p].at : t \in Checkpoint /\ Sound(t)
        BY <2>1, <2>6, ResumingType DEF CheckpointsSound
      <4>. QED BY <4>1, <4>2, <4>3 DEF CheckpointsSound
    <3>6. AnswersSound'
      BY <2>1, <2>8, <3>2, <3>3 DEF AnswersSound
    <3>7. UpdatesAnswered' /\ ResolvedWasAnswered' /\ IncidentsDone'
      BY <2>1, <2>6, <2>8, <3>2
      DEF UpdatesAnswered, ResolvedWasAnswered, IncidentsDone, incident
    <3>. QED BY <3>4, <3>5, <3>6, <3>7
  <2>. QED BY <2>9, <2>10
<1>4. CASE ResumeFails(o)
  <2>1. /\ resume' = [resume EXCEPT ![o] = [pc |-> "idle"]]
        /\ UNCHANGED <<sent, thread, call, row, answers, restarts>>
    BY <1>4 DEF ResumeFails, ResumeEnd
  <2>2. TypeOK'
    BY <2>1 DEF TypeOK
  <2>3. resume'[o].pc = "idle" /\ \A p \in Operator \ {o} : resume'[p] = resume[p]
    BY <2>1 DEF TypeOK
  <2>4. CheckpointsSound'
    BY <2>1, <2>3 DEF CheckpointsSound, Sound
  <2>5. AnswersSound' /\ UpdatesAnswered' /\ ResolvedWasAnswered' /\ IncidentsDone'
    BY <2>1, <2>3 DEF AnswersSound, UpdatesAnswered, ResolvedWasAnswered, IncidentsDone
  <2>. QED BY <2>2, <2>4, <2>5
<1>5. CASE ResumeUpdate(o)
  <2> DEFINE i == resume[o].incident
  <2>1. /\ resume[o].pc = "update"
        /\ row' = [row EXCEPT ![i] =
                     {[r EXCEPT !.resolution = resume[o].human] : r \in @}]
        /\ resume' = [resume EXCEPT ![o] = [pc |-> "idle"]]
        /\ UNCHANGED <<sent, thread, call, answers, restarts>>
    BY <1>5 DEF ResumeUpdate, ResumeEnd
  <2>2. i \in Record /\ resume[o].human \in Human /\ call[i].pc = "done"
    BY <2>1, ResumingType DEF IncidentsDone
  <2>3. \E a \in answers : a.incident = i
    BY <2>1 DEF UpdatesAnswered
  <2>4. resume'[o].pc = "idle" /\ \A p \in Operator \ {o} : resume'[p] = resume[p]
    BY <2>1 DEF TypeOK
  <2>5. \A r \in Record \ {i} : row'[r] = row[r]
    BY <2>1 DEF TypeOK
  <2>6. row' \in [Record -> SUBSET [decision : Decision,
                                    resolution : {"none"} \cup Human]]
    BY <2>1, <2>2 DEF TypeOK
  <2>7. resume' \in [Operator -> [pc : {"idle"}] \cup Resuming]
    BY <2>1 DEF TypeOK, Resuming
  <2>8. TypeOK'
    BY <2>1, <2>6, <2>7 DEF TypeOK, Resuming
  <2>9. CheckpointsSound'
    BY <2>1, <2>4 DEF CheckpointsSound, Sound
  <2> HIDE DEF i
  <2>10. AnswersSound' /\ UpdatesAnswered'
    BY <2>1, <2>4 DEF AnswersSound, UpdatesAnswered
  <2>11. ResolvedWasAnswered' /\ IncidentsDone'
    BY <2>1, <2>2, <2>3, <2>4, <2>5 DEF ResolvedWasAnswered, IncidentsDone
  <2>. QED BY <2>8, <2>9, <2>10, <2>11
<1>. QED BY <1>1, <1>2, <1>3, <1>4, <1>5 DEF ResumeStep

\* A restart forgets threads and requests; records under way count as refused.
LEMMA RestartInv ==
    ASSUME GovernanceInv, Restart
    PROVE  GovernanceInv'
<1>1. /\ restarts' = restarts + 1
      /\ sent' = [run \in Run |-> [to \in Recipient |-> 0]]
      /\ thread' = [run \in Run |-> {}]
      /\ call' = [r \in Record |-> IF call[r].pc \in {"scan", "commit"}
                     THEN [call[r] EXCEPT !.pc = "refused"] ELSE call[r]]
      /\ resume' = [o \in Operator |-> [pc |-> "idle"]]
      /\ UNCHANGED <<row, answers>>
  BY DEF Restart
<1>2. \A r \in Record : /\ call'[r] \in Call
                        /\ call'[r].pc = "refused" \/ call'[r] = call[r]
                        /\ call'[r] # call[r] => call[r].pc \in {"scan", "commit"}
  <2> SUFFICES ASSUME NEW r \in Record
               PROVE  /\ call'[r] \in Call
                      /\ call'[r].pc = "refused" \/ call'[r] = call[r]
                      /\ call'[r] # call[r] => call[r].pc \in {"scan", "commit"}
    OBVIOUS
  <2>1. CASE call[r].pc \in {"scan", "commit"}
    <3>1. call'[r] = [call[r] EXCEPT !.pc = "refused"]
      BY <1>1, <2>1
    <3>2. call[r] \in Working
      BY <2>1, WorkingType DEF GovernanceInv
    <3>. QED BY <2>1, <3>1, <3>2 DEF Working, Call
  <2>2. CASE call[r].pc \notin {"scan", "commit"}
    <3>1. call'[r] = call[r]
      BY <1>1, <2>2
    <3>. QED BY <3>1 DEF GovernanceInv, TypeOK
  <2>. QED BY <2>1, <2>2
<1>3. TypeOK'
  <2>1. call' \in [Record -> Call]
    BY <1>1, <1>2
  <2>2. thread' \in [Run -> SUBSET Checkpoint] /\ \A run \in Run : Cardinality(thread'[run]) <= 1
    BY <1>1, FS_EmptySet
  <2>3. sent' \in [Run -> [Recipient -> Int]] /\ restarts' \in Nat
    BY <1>1 DEF GovernanceInv, TypeOK
  <2>. QED BY <1>1, <2>1, <2>2, <2>3 DEF GovernanceInv, TypeOK
<1>5. CheckpointsSound' /\ UpdatesAnswered'
  BY <1>1 DEF CheckpointsSound, UpdatesAnswered
<1>6. AnswersSound'
  BY <1>1, <1>2 DEF GovernanceInv, TypeOK, AnswersSound
<1>7. ResolvedWasAnswered'
  BY <1>1 DEF GovernanceInv, ResolvedWasAnswered
<1>8. IncidentsDone'
  BY <1>1, <1>2 DEF GovernanceInv, IncidentsDone
<1>. QED BY <1>3, <1>5, <1>6, <1>7, <1>8 DEF GovernanceInv

LEMMA InitInv == Init => GovernanceInv
<1> SUFFICES ASSUME Init PROVE GovernanceInv
  OBVIOUS
<1>1. TypeOK
  <2>1. [pc |-> "new"] \in Call
    BY DEF Call
  <2>. QED BY <2>1, FS_EmptySet DEF Init, TypeOK
<1>2. /\ CheckpointsSound /\ AnswersSound /\ UpdatesAnswered
      /\ IncidentsDone /\ ResolvedWasAnswered
  BY DEF Init, CheckpointsSound, AnswersSound, UpdatesAnswered, IncidentsDone,
         ResolvedWasAnswered
<1>. QED BY <1>1, <1>2 DEF GovernanceInv

LEMMA NextInv == GovernanceInv /\ [Next]_vars => GovernanceInv'
<1> SUFFICES ASSUME GovernanceInv, [Next]_vars PROVE GovernanceInv'
  OBVIOUS
<1>1. ASSUME NEW r \in Record, DecideStep(r) PROVE GovernanceInv'
  BY <1>1, AssessInv, EscalateInv, CommitInv DEF DecideStep
<1>2. ASSUME NEW o \in Operator, ResumeStep(o) PROVE GovernanceInv'
  BY <1>2, ResumeInv
<1>3. CASE Restart
  BY <1>3, RestartInv
<1>4. CASE UNCHANGED vars
  BY <1>4 DEF vars, GovernanceInv, TypeOK, CheckpointsSound, Sound, AnswersSound,
              UpdatesAnswered, IncidentsDone, ResolvedWasAnswered
<1>. QED BY <1>1, <1>2, <1>3, <1>4 DEF Next

LEMMA InvCorrect == Spec => []GovernanceInv
BY InitInv, NextInv, PTL DEF Spec

-----------------------------------------------------------------------------
\* Every decision that reaches a thread, a row or an answer is one of the
\* schema's, and a run has one thread at most (graph.py:323).
THEOREM TypeCorrect == Spec => []TypeOK
<1>1. GovernanceInv => TypeOK
  BY DEF GovernanceInv
<1>. QED BY <1>1, InvCorrect, PTL

\* However records of a run replace one another's thread, what resume returns
\* (governance.py:502) overrules escalations only.
THEOREM OverruledCorrect == Spec => []OnlyEscalationsOverruled
<1>1. GovernanceInv => OnlyEscalationsOverruled
  BY DEF GovernanceInv, AnswersSound, OnlyEscalationsOverruled
<1>. QED BY <1>1, InvCorrect, PTL

\* However resumes interleave, fail or are cut off by a restart, the row of an
\* incident is marked only once the graph has answered (governance.py:513).
THEOREM ResolvedCorrect == Spec => []ResolvedWasAnswered
<1>1. GovernanceInv => ResolvedWasAnswered
  BY DEF GovernanceInv
<1>. QED BY <1>1, InvCorrect, PTL

-----------------------------------------------------------------------------
(***************************************************************************)
(* The sum of PassedWithinCap is a fold, so what it computes is shown by   *)
(* induction on its set: a set of subsets for which a fact fails, were it  *)
(* not empty, would have a least member.                                   *)
(***************************************************************************)
\* The amount of a call, their sum over a set, the order the fold takes them in.
Amt(c, r) == c[r].transfer.amount
Total(c, S) == MapThenSumSet(LAMBDA r : c[r].transfer.amount, S)
Pick(s) == CHOOSE x \in s : TRUE
\* g is the recursive function of the fold on the subsets of S.
IsTotals(g, c, S) ==
    g = [s \in SUBSET S |-> IF s = {} THEN 0
                            ELSE Amt(c, Pick(s)) + g[s \ {Pick(s)}]]

LEMMA TotalIs == \A c, S : Total(c, S) = (CHOOSE g : IsTotals(g, c, S))[S]
BY Zenon DEF Total, MapThenSumSet, MapThenFoldSet, IsTotals, Amt, Pick

\* A set of subsets of a finite set has a least member, or none.
LEMMA LeastSubset ==
    ASSUME NEW S, IsFiniteSet(S), NEW Bad, Bad \subseteq SUBSET S, Bad # {}
    PROVE  \E T \in Bad : \A U \in Bad : ~(U \subseteq T /\ U # T)
<1>1. IsWellFoundedOn(StrictSubsetOrdering(S), FiniteSubsetsOf(S))
  BY FS_StrictSubsetOrderingWellFounded
<1>2. Bad \subseteq FiniteSubsetsOf(S)
  BY FS_Subset DEF FiniteSubsetsOf
<1>3. PICK T \in Bad : \A U \in Bad : ~(<<U, T>> \in StrictSubsetOrdering(S))
  BY <1>1, <1>2, WFMin
<1>. QED BY <1>3 DEF StrictSubsetOrdering

LEMMA PickIn == \A s : s # {} => Pick(s) \in s
BY DEF Pick

\* Two functions of the fold agree where both are defined.
LEMMA TotalsAgree ==
    ASSUME NEW c, NEW S, NEW T, IsFiniteSet(S), T \subseteq S, NEW g, NEW h,
           IsTotals(g, c, S), IsTotals(h, c, T)
    PROVE  g[T] = h[T]
<1> DEFINE Bad == {s \in SUBSET T : g[s] # h[s]}
<1>1. SUFFICES ASSUME Bad # {} PROVE FALSE
  BY DEF IsTotals
<1>2. IsFiniteSet(T)
  BY FS_Subset
<1>3. PICK s \in Bad : \A u \in Bad : ~(u \subseteq s /\ u # s)
  <2>1. Bad \subseteq SUBSET T
    OBVIOUS
  <2> HIDE DEF Bad
  <2>. QED BY <1>1, <1>2, <2>1, LeastSubset
<1>4. s \in SUBSET T /\ s \in SUBSET S
  BY <1>3
<1>5. /\ g[s] = IF s = {} THEN 0 ELSE Amt(c, Pick(s)) + g[s \ {Pick(s)}]
      /\ h[s] = IF s = {} THEN 0 ELSE Amt(c, Pick(s)) + h[s \ {Pick(s)}]
  BY <1>4 DEF IsTotals
<1>6. s # {}
  BY <1>3, <1>5
<1>7. s \ {Pick(s)} \notin Bad
  BY <1>3, <1>6, PickIn
<1>. QED BY <1>3, <1>4, <1>5, <1>6, <1>7

\* The function of the fold exists.
LEMMA TotalsExist ==
    ASSUME NEW c, NEW S, IsFiniteSet(S)
    PROVE  \E g : IsTotals(g, c, S)
<1> DEFINE Bad == {T \in SUBSET S : ~\E g : IsTotals(g, c, T)}
<1>1. SUFFICES ASSUME Bad # {} PROVE FALSE
  OBVIOUS
<1>2. PICK T \in Bad : \A U \in Bad : ~(U \subseteq T /\ U # T)
  <2>1. Bad \subseteq SUBSET S
    OBVIOUS
  <2> HIDE DEF Bad
  <2>. QED BY <1>1, <2>1, LeastSubset
<1> DEFINE G == [U \in SUBSET T |-> CHOOSE g : IsTotals(g, c, U)]
             g == [U \in SUBSET T |-> IF U = {} THEN 0
                     ELSE Amt(c, Pick(U)) + G[U \ {Pick(U)}][U \ {Pick(U)}]]
<1>3. \A U \in SUBSET T : U # T => IsTotals(G[U], c, U)
  BY <1>2
<1>4. \A U \in SUBSET T : IsFiniteSet(U)
  BY FS_Subset
<1>5. ASSUME NEW U \in SUBSET T, U # T
      PROVE  g[U] = G[U][U]
  <2>1. IsTotals(G[U], c, U)
    BY <1>3, <1>5
  <2>2. G[U][U] = IF U = {} THEN 0 ELSE Amt(c, Pick(U)) + G[U][U \ {Pick(U)}]
    BY <2>1 DEF IsTotals
  <2>3. ASSUME U # {}
        PROVE  G[U][U \ {Pick(U)}] = G[U \ {Pick(U)}][U \ {Pick(U)}]
    <3> DEFINE V == U \ {Pick(U)}
    <3>1. V \in SUBSET T /\ V \subseteq U /\ V # T
      BY <2>3, PickIn
    <3>2. IsTotals(G[V], c, V)
      BY <1>3, <3>1
    <3> HIDE DEF V, G
    <3>3. G[U][V] = G[V][V]
      BY <1>4, <2>1, <3>1, <3>2, TotalsAgree
    <3>. QED BY <3>3 DEF V
  <2>. QED BY <2>2, <2>3
<1>6. \A U \in SUBSET T : U # {} => g[U \ {Pick(U)}] = G[U \ {Pick(U)}][U \ {Pick(U)}]
  <2> SUFFICES ASSUME NEW U \in SUBSET T, U # {}
                 PROVE  g[U \ {Pick(U)}] = G[U \ {Pick(U)}][U \ {Pick(U)}]
    OBVIOUS
  <2>1. U \ {Pick(U)} \in SUBSET T /\ U \ {Pick(U)} # T
    BY PickIn
  <2> HIDE DEF g, G
  <2>. QED BY <1>5, <2>1
<1>7. IsTotals(g, c, T)
  <2> DEFINE h == [U \in SUBSET T |-> IF U = {} THEN 0
                       ELSE Amt(c, Pick(U)) + g[U \ {Pick(U)}]]
  <2>1. \A U \in SUBSET T : g[U] = h[U]
    <3> HIDE DEF G
    <3> SUFFICES ASSUME NEW U \in SUBSET T PROVE g[U] = h[U]
      OBVIOUS
    <3>1. g[U] = IF U = {} THEN 0 ELSE Amt(c, Pick(U)) + G[U \ {Pick(U)}][U \ {Pick(U)}]
      OBVIOUS
    <3>2. h[U] = IF U = {} THEN 0 ELSE Amt(c, Pick(U)) + g[U \ {Pick(U)}]
      BY DEF h
    <3>. QED BY <1>6, <3>1, <3>2
  <2>2. g = [U \in SUBSET T |-> g[U]] /\ h = [U \in SUBSET T |-> h[U]]
    OBVIOUS
  <2>3. g = h
    <3> HIDE DEF g, h
    <3>. QED BY <2>1, <2>2
  <2>. QED BY <2>3 DEF IsTotals
<1>. QED BY <1>2, <1>7

\* The fold takes one element and goes on with the rest.
LEMMA TotalRec ==
    ASSUME NEW c, NEW S, IsFiniteSet(S)
    PROVE  Total(c, S) = IF S = {} THEN 0 ELSE Amt(c, Pick(S)) + Total(c, S \ {Pick(S)})
<1> DEFINE G(T) == CHOOSE g : IsTotals(g, c, T)
<1>1. \A T : IsFiniteSet(T) => IsTotals(G(T), c, T)
  BY TotalsExist
<1>2. \A T : Total(c, T) = G(T)[T]
  BY TotalIs
<1> HIDE DEF G
<1>3. G(S)[S] = IF S = {} THEN 0 ELSE Amt(c, Pick(S)) + G(S)[S \ {Pick(S)}]
  BY <1>1 DEF IsTotals
<1>4. G(S)[S \ {Pick(S)}] = G(S \ {Pick(S)})[S \ {Pick(S)}]
  <2>1. IsFiniteSet(S \ {Pick(S)})
    BY FS_Subset
  <2>2. IsTotals(G(S), c, S) /\ IsTotals(G(S \ {Pick(S)}), c, S \ {Pick(S)})
    BY <1>1, <2>1
  <2>. QED BY <2>1, <2>2, TotalsAgree
<1>. QED BY <1>2, <1>3, <1>4

\* A sum of integers is one.
LEMMA TotalType ==
    ASSUME NEW c, NEW S, IsFiniteSet(S), \A r \in S : Amt(c, r) \in Int
    PROVE  Total(c, S) \in Int
<1> DEFINE Bad == {T \in SUBSET S : Total(c, T) \notin Int}
<1>1. SUFFICES ASSUME Bad # {} PROVE FALSE
  OBVIOUS
<1>2. PICK T \in Bad : \A U \in Bad : ~(U \subseteq T /\ U # T)
  <2>1. Bad \subseteq SUBSET S
    OBVIOUS
  <2> HIDE DEF Bad
  <2>. QED BY <1>1, <2>1, LeastSubset
<1>3. IsFiniteSet(T)
  BY FS_Subset
<1>4. Total(c, T) = IF T = {} THEN 0 ELSE Amt(c, Pick(T)) + Total(c, T \ {Pick(T)})
  BY <1>3, TotalRec
<1>5. T # {}
  BY <1>2, <1>4
<1>6. Total(c, T \ {Pick(T)}) \in Int /\ Amt(c, Pick(T)) \in Int
  BY <1>2, <1>5, PickIn
<1>. QED BY <1>2, <1>4, <1>5, <1>6

\* The order in which the elements are taken does not matter.
LEMMA TotalWithout ==
    ASSUME NEW c, NEW S, IsFiniteSet(S), \A r \in S : Amt(c, r) \in Int, NEW x \in S
    PROVE  Total(c, S) = Amt(c, x) + Total(c, S \ {x})
<1> DEFINE Bad == {T \in SUBSET S : \E y \in T : Total(c, T) # Amt(c, y) + Total(c, T \ {y})}
<1>1. SUFFICES ASSUME Bad # {} PROVE FALSE
  OBVIOUS
<1>2. PICK T \in Bad : \A U \in Bad : ~(U \subseteq T /\ U # T)
  <2>1. Bad \subseteq SUBSET S
    OBVIOUS
  <2> HIDE DEF Bad
  <2>. QED BY <1>1, <2>1, LeastSubset
<1>3. PICK y \in T : Total(c, T) # Amt(c, y) + Total(c, T \ {y})
  BY <1>2
<1>4. \A U \in SUBSET T : U # T => \A z \in U : Total(c, U) = Amt(c, z) + Total(c, U \ {z})
  BY <1>2
<1>5. \A U \in SUBSET S : IsFiniteSet(U) /\ Total(c, U) \in Int
  BY FS_Subset, TotalType
<1> DEFINE p == Pick(T)
<1>6. p \in T
  BY <1>3, PickIn
<1>7. Total(c, T) = Amt(c, p) + Total(c, T \ {p})
  BY <1>3, <1>5, TotalRec
<1>8. p # y
  BY <1>3, <1>7
<1> HIDE DEF p
<1>9. Total(c, T \ {p}) = Amt(c, y) + Total(c, (T \ {p}) \ {y})
  BY <1>4, <1>6, <1>8
<1>10. Total(c, T \ {y}) = Amt(c, p) + Total(c, (T \ {y}) \ {p})
  BY <1>4, <1>3, <1>6, <1>8
<1>11. (T \ {p}) \ {y} = (T \ {y}) \ {p}
  OBVIOUS
<1>12. Amt(c, p) \in Int /\ Amt(c, y) \in Int /\ Total(c, (T \ {p}) \ {y}) \in Int
  BY <1>5, <1>3, <1>6
<1>13. \A a, b, u \in Int : a + (b + u) = b + (a + u)
  OBVIOUS
<1>14. Total(c, T) = Amt(c, y) + Total(c, T \ {y})
  <2> DEFINE u == Total(c, (T \ {p}) \ {y})
  <2>1. Total(c, T \ {y}) = Amt(c, p) + u
    BY <1>10, <1>11
  <2>2. Total(c, T) = Amt(c, p) + (Amt(c, y) + u)
    BY <1>7, <1>9
  <2>3. u \in Int
    BY <1>12
  <2> HIDE DEF u
  <2>. QED BY <1>12, <1>13, <2>1, <2>2, <2>3
<1>. QED BY <1>3, <1>14

\* Amounts that are not negative add to a sum.
LEMMA TotalGrows ==
    ASSUME NEW c, NEW S, IsFiniteSet(S), \A r \in S : Amt(c, r) \in Int, NEW T \in SUBSET S,
           \A r \in S \ T : Amt(c, r) >= 0
    PROVE  Total(c, T) <= Total(c, S)
<1> DEFINE Bad == {U \in SUBSET S : T \subseteq U /\ ~(Total(c, T) <= Total(c, U))}
<1>1. SUFFICES ASSUME Bad # {} PROVE FALSE
  OBVIOUS
<1>2. PICK U \in Bad : \A V \in Bad : ~(V \subseteq U /\ V # U)
  <2>1. Bad \subseteq SUBSET S
    OBVIOUS
  <2> HIDE DEF Bad
  <2>. QED BY <1>1, <2>1, LeastSubset
<1>3. \A V \in SUBSET S : IsFiniteSet(V) /\ Total(c, V) \in Int
  BY FS_Subset, TotalType
<1>4. PICK x \in U : x \notin T
  <2>1. U # T /\ T \subseteq U
    BY <1>2, <1>3
  <2>. QED BY <2>1
<1>5. Total(c, U) = Amt(c, x) + Total(c, U \ {x})
  BY <1>2, <1>3, TotalWithout
<1>6. Total(c, T) <= Total(c, U \ {x})
  BY <1>2, <1>4
<1>7. Amt(c, x) \in Int /\ Amt(c, x) >= 0 /\ Total(c, T) \in Int /\ Total(c, U \ {x}) \in Int
  BY <1>2, <1>3, <1>4
<1>. QED BY <1>2, <1>5, <1>6, <1>7

\* The sum depends on the amounts of its set alone.
LEMMA TotalSame ==
    ASSUME NEW c, NEW d, NEW S, IsFiniteSet(S), \A r \in S : Amt(c, r) = Amt(d, r)
    PROVE  Total(c, S) = Total(d, S)
<1> DEFINE Bad == {T \in SUBSET S : Total(c, T) # Total(d, T)}
<1>1. SUFFICES ASSUME Bad # {} PROVE FALSE
  OBVIOUS
<1>2. PICK T \in Bad : \A U \in Bad : ~(U \subseteq T /\ U # T)
  <2>1. Bad \subseteq SUBSET S
    OBVIOUS
  <2> HIDE DEF Bad
  <2>. QED BY <1>1, <2>1, LeastSubset
<1>3. IsFiniteSet(T)
  BY FS_Subset
<1>4. /\ Total(c, T) = IF T = {} THEN 0 ELSE Amt(c, Pick(T)) + Total(c, T \ {Pick(T)})
      /\ Total(d, T) = IF T = {} THEN 0 ELSE Amt(d, Pick(T)) + Total(d, T \ {Pick(T)})
  BY <1>3, TotalRec
<1>5. T # {}
  BY <1>2, <1>4
<1>6. Total(c, T \ {Pick(T)}) = Total(d, T \ {Pick(T)}) /\ Amt(c, Pick(T)) = Amt(d, Pick(T))
  BY <1>2, <1>5, PickIn
<1>. QED BY <1>2, <1>4, <1>5, <1>6

-----------------------------------------------------------------------------
(***************************************************************************)
(* The cap.  The running total of a run and recipient is the sum of what   *)
(* the rules have let go in this life, whatever has become of it since.    *)
(***************************************************************************)
Counted(run, to) == {r \in Sent(run, to) : call[r].counted}

Started == {r \in Record : call[r].pc # "new"}

TotalsCover ==
    \A run \in Run, to \in Recipient :
       /\ sent[run][to] = Total(call, Counted(run, to))
       /\ sent[run][to] <= CumulativeCap

\* The graph decides on three of the five decisions, what is let go has been
\* counted, and lives are counted too.
CallsOrdinary ==
    \A r \in Record :
       call[r].pc # "new" =>
          /\ call[r].decision \in {"PASS", "ESCALATE", "BLOCK"}
          /\ call[r].pc # "refused" /\ Counts(call[r].decision) => call[r].counted
          /\ call[r].life <= restarts

CapInv == TypeOK /\ IsFiniteSet(Started) /\ CallsOrdinary /\ TotalsCover

LEMMA CountedFinite ==
    ASSUME CapInv, NEW run, NEW to
    PROVE  /\ Counted(run, to) \subseteq Started
           /\ IsFiniteSet(Counted(run, to))
           /\ \A r \in Counted(run, to) : Amt(call, r) \in Int
<1>1. Counted(run, to) \subseteq Started
  BY DEF Counted, Sent, Started
<1>2. IsFiniteSet(Counted(run, to))
  BY <1>1, FS_Subset DEF CapInv
<1>3. \A r \in Counted(run, to) : Amt(call, r) \in Int
  BY WorkingType DEF CapInv, Counted, Sent, Amt
<1>. QED BY <1>1, <1>2, <1>3

\* A step that leaves the totals alone, and what they count.
LEMMA CapKept ==
    ASSUME CapInv, TypeOK', UNCHANGED <<sent, restarts>>, CallsOrdinary',
           \A r \in Record :
              /\ call'[r].pc = "new" <=> call[r].pc = "new"
              /\ call[r].pc # "new" => /\ call'[r].transfer = call[r].transfer
                                       /\ call'[r].life = call[r].life
                                       /\ call'[r].counted = call[r].counted
    PROVE  CapInv'
<1>1. Started' = Started
  BY DEF Started
<1>2. TotalsCover'
  <2> SUFFICES ASSUME NEW run \in Run, NEW to \in Recipient
               PROVE  /\ sent[run][to] = Total(call', Counted(run, to)')
                      /\ sent[run][to] <= CumulativeCap
    BY DEF TotalsCover
  <2> DEFINE S == Counted(run, to)
  <2>1. Counted(run, to)' = S /\ \A r \in S : Amt(call, r) = Amt(call', r)
    BY DEF Counted, Sent, Amt
  <2>2. IsFiniteSet(S)
    BY CountedFinite
  <2>3. sent[run][to] = Total(call, S) /\ sent[run][to] <= CumulativeCap
    BY DEF CapInv, TotalsCover
  <2> HIDE DEF S
  <2>4. Total(call, S) = Total(call', S)
    BY <2>1, <2>2, TotalSame
  <2>. QED BY <2>1, <2>3, <2>4
<1>. QED BY <1>1, <1>2 DEF CapInv

LEMMA RuleKeepsCap ==
    ASSUME TypeOK, NEW t \in Transfer, NEW refused \in BOOLEAN
    PROVE  /\ RuleDecision(t, refused) \in {"PASS", "ESCALATE", "BLOCK"}
           /\ Counts(RuleDecision(t, refused)) =>
                 sent[t.run][t.to] + t.amount <= CumulativeCap
<1>1. t.run \in Run /\ t.to \in Recipient /\ t.amount \in Int
  BY GovernanceAssumption DEF Transfer
<1>2. sent[t.run][t.to] \in Int /\ CumulativeCap \in Nat
  BY <1>1, GovernanceAssumption DEF TypeOK
<1>. QED BY <1>1, <1>2 DEF RuleDecision, Counts

LEMMA AssessCap ==
    ASSUME CapInv, TypeOK', NEW r \in Record, Assess(r)
    PROVE  CapInv'
<1>1. PICK t \in Transfer, refused \in BOOLEAN :
        /\ call[r].pc = "new"
        /\ call' = [call EXCEPT ![r] =
                      [pc |-> "scan", transfer |-> t, life |-> restarts,
                       decision |-> RuleDecision(t, refused),
                       counted |-> Counts(RuleDecision(t, refused))]]
        /\ sent' = Committed(t, RuleDecision(t, refused))
        /\ UNCHANGED <<thread, row, resume, answers, restarts>>
  BY DEF Assess
<1> DEFINE d == RuleDecision(t, refused)
<1>2. /\ d \in {"PASS", "ESCALATE", "BLOCK"}
      /\ Counts(d) => sent[t.run][t.to] + t.amount <= CumulativeCap
  BY RuleKeepsCap DEF CapInv
<1>3. sent' = Committed(t, d) /\ restarts' = restarts
  BY <1>1
<1>4. /\ call'[r].pc = "scan" /\ call'[r].transfer = t /\ call'[r].life = restarts
      /\ call'[r].decision = d /\ call'[r].counted = Counts(d)
      /\ \A q \in Record \ {r} : call'[q] = call[q]
  BY <1>1 DEF CapInv, TypeOK
<1>5. t.run \in Run /\ t.to \in Recipient /\ t.amount \in Int
  BY GovernanceAssumption DEF Transfer
<1>6. sent \in [Run -> [Recipient -> Int]] /\ restarts \in Nat
  BY DEF CapInv, TypeOK
<1> HIDE DEF d
<1>7. CallsOrdinary'
  BY <1>2, <1>3, <1>4, <1>6 DEF CapInv, CallsOrdinary
<1>8. IsFiniteSet(Started')
  <2>1. Started' = Started \cup {r}
    BY <1>1, <1>4 DEF Started
  <2>. QED BY <2>1, FS_AddElement DEF CapInv
<1>9. ASSUME NEW run \in Run, NEW to \in Recipient
      PROVE  /\ sent'[run][to] = Total(call', Counted(run, to)')
             /\ sent'[run][to] <= CumulativeCap
  <2> DEFINE S == Counted(run, to)
             T == Counted(run, to)'
  <2>1. IsFiniteSet(S) /\ \A q \in S : Amt(call, q) \in Int
    BY CountedFinite
  <2>2. r \notin S /\ \A q \in S : Amt(call, q) = Amt(call', q)
    BY <1>1, <1>4 DEF Counted, Sent, Amt
  <2>3. sent[run][to] = Total(call, S) /\ sent[run][to] <= CumulativeCap
    BY DEF CapInv, TotalsCover
  <2>4. Total(call, S) = Total(call', S)
    <3> HIDE DEF S
    <3>. QED BY <2>1, <2>2, TotalSame
  <2>5. CASE Counts(d) /\ t.run = run /\ t.to = to
    <3>1. T = S \cup {r}
      BY <1>1, <1>3, <1>4, <2>5 DEF Counted, Sent
    <3>2. Amt(call', r) = t.amount
      BY <1>4 DEF Amt
    <3>3. sent'[run][to] = sent[run][to] + t.amount
      BY <1>3, <1>6, <2>5 DEF Committed
    <3> HIDE DEF S, T
    <3>4. IsFiniteSet(T) /\ \A q \in T : Amt(call', q) \in Int
      BY <1>5, <2>1, <2>2, <3>1, <3>2, FS_AddElement
    <3>5. T \ {r} = S
      BY <2>2, <3>1
    <3>6. Total(call', T) = t.amount + Total(call', S)
      BY <3>1, <3>2, <3>4, <3>5, TotalWithout
    <3>7. sent[run][to] \in Int
      BY <1>6
    <3>8. sent'[run][to] = Total(call', T) /\ sent'[run][to] <= CumulativeCap
      BY <1>2, <1>5, <2>3, <2>4, <2>5, <3>3, <3>6, <3>7
    <3>. QED BY <3>8 DEF T
  <2>6. CASE ~(Counts(d) /\ t.run = run /\ t.to = to)
    <3>1. T = S
      BY <1>1, <1>3, <1>4, <2>6 DEF Counted, Sent
    <3>2. sent'[run][to] = sent[run][to]
      BY <1>3, <1>5, <1>6, <2>6 DEF Committed
    <3> HIDE DEF S, T
    <3>3. sent'[run][to] = Total(call', T) /\ sent'[run][to] <= CumulativeCap
      BY <2>3, <2>4, <3>1, <3>2
    <3>. QED BY <3>3 DEF T
  <2>. QED BY <2>5, <2>6
<1>10. TotalsCover'
  BY <1>9 DEF TotalsCover
<1>. QED BY <1>7, <1>8, <1>10 DEF CapInv

\* What the rest of the graph composes lets a call go only if the rules did.
LEMMA EscalateCap ==
    ASSUME CapInv, TypeOK', NEW r \in Record, Escalate(r)
    PROVE  CapInv'
<1>1. PICK found \in {"PASS", "ESCALATE", "BLOCK"} :
        /\ call[r].pc = "scan"
        /\ call' = [call EXCEPT ![r].pc = "commit",
                       ![r].decision = Supervised(Worse(call[r].decision, found))]
        /\ UNCHANGED <<sent, restarts>>
  BY DEF Escalate
<1> DEFINE final == Supervised(Worse(call[r].decision, found))
<1>2. call[r] \in Working /\ call[r].decision \in {"PASS", "ESCALATE", "BLOCK"}
  BY <1>1, WorkingType DEF CapInv, CallsOrdinary
<1>3. /\ final \in {"PASS", "ESCALATE", "BLOCK"}
      /\ final = "PASS" => call[r].decision = "PASS"
  BY <1>2 DEF Supervised, Worse, Severity
<1>4. /\ call'[r].pc = "commit" /\ call'[r].decision = final
      /\ call'[r].transfer = call[r].transfer /\ call'[r].life = call[r].life
      /\ call'[r].counted = call[r].counted
      /\ \A q \in Record \ {r} : call'[q] = call[q]
  <2>1. call \in [Record -> Call]
    BY DEF CapInv, TypeOK
  <2> HIDE DEF final
  <2>2. call' = [call EXCEPT ![r].pc = "commit", ![r].decision = final]
    BY <1>1 DEF final
  <2>. QED BY <1>2, <2>1, <2>2 DEF Working
<1> HIDE DEF final
<1>5. CallsOrdinary'
  BY <1>1, <1>3, <1>4 DEF CapInv, CallsOrdinary, Counts
<1>. QED BY <1>1, <1>4, <1>5, CapKept

\* The other ends of decide, and every step of a resume, change no decision.
LEMMA OtherCap ==
    ASSUME CapInv, TypeOK', UNCHANGED <<sent, restarts>>,
           \A r \in Record :
              \/ call'[r] = call[r]
              \/ /\ call[r].pc = "commit" /\ call'[r].pc \in {"done", "refused"}
                 /\ call'[r].transfer = call[r].transfer
                 /\ call'[r].life = call[r].life
                 /\ call'[r].decision = call[r].decision
                 /\ call'[r].counted = call[r].counted
    PROVE  CapInv'
<1>1. CallsOrdinary'
  BY DEF CapInv, CallsOrdinary
<1>. QED BY <1>1, CapKept

LEMMA RestartCap ==
    ASSUME CapInv, TypeOK', Restart
    PROVE  CapInv'
<1>1. /\ restarts' = restarts + 1 /\ restarts \in Nat
      /\ sent' = [run \in Run |-> [to \in Recipient |-> 0]]
  BY DEF Restart, CapInv, TypeOK
<1>2. \A r \in Record :
         /\ call'[r].pc = "new" <=> call[r].pc = "new"
         /\ call'[r].pc = "refused" \/ call'[r] = call[r]
         /\ call[r].pc # "new" => /\ call'[r].life = call[r].life
                                  /\ call'[r].decision = call[r].decision
  <2> SUFFICES ASSUME NEW r \in Record
               PROVE  /\ call'[r].pc = "new" <=> call[r].pc = "new"
                      /\ call'[r].pc = "refused" \/ call'[r] = call[r]
                      /\ call[r].pc # "new" => /\ call'[r].life = call[r].life
                                               /\ call'[r].decision = call[r].decision
    OBVIOUS
  <2>1. CASE call[r].pc \in {"scan", "commit"}
    <3>1. call'[r] = [call[r] EXCEPT !.pc = "refused"]
      BY <2>1 DEF Restart
    <3>2. call[r] \in Working
      BY <2>1, WorkingType DEF CapInv
    <3>. QED BY <2>1, <3>1, <3>2 DEF Working
  <2>2. CASE call[r].pc \notin {"scan", "commit"}
    BY <2>2 DEF Restart
  <2>. QED BY <2>1, <2>2
<1>3. \A r \in Record : call'[r].pc # "new" => call'[r].life \in Nat /\ call'[r].life < restarts'
  <2> SUFFICES ASSUME NEW r \in Record, call[r].pc # "new"
               PROVE  call[r].life \in Nat /\ call[r].life < restarts'
    BY <1>2
  <2>1. call[r].life \in Nat /\ call[r].life <= restarts
    BY WorkingType DEF CapInv, CallsOrdinary
  <2>. QED BY <1>1, <2>1
<1>4. CallsOrdinary'
  <2> SUFFICES ASSUME NEW r \in Record, call'[r].pc # "new"
               PROVE  /\ call'[r].decision \in {"PASS", "ESCALATE", "BLOCK"}
                      /\ call'[r].pc # "refused" /\ Counts(call'[r].decision) => call'[r].counted
                      /\ call'[r].life <= restarts'
    BY DEF CallsOrdinary, Counts
  <2>1. /\ call'[r].life <= restarts'
        /\ call'[r].decision \in {"PASS", "ESCALATE", "BLOCK"}
    BY <1>1, <1>2, <1>3 DEF CapInv, CallsOrdinary
  <2>2. CASE call'[r].pc = "refused"
    BY <2>1, <2>2
  <2>3. CASE call'[r] = call[r]
    BY <2>1, <2>3 DEF CapInv, CallsOrdinary
  <2>. QED BY <1>2, <2>2, <2>3
<1>5. IsFiniteSet(Started')
  <2>1. Started' = Started
    BY <1>2 DEF Started
  <2>. QED BY <2>1 DEF CapInv
<1>6. ASSUME NEW run \in Run, NEW to \in Recipient
      PROVE  /\ sent'[run][to] = Total(call', Counted(run, to)')
             /\ sent'[run][to] <= CumulativeCap
  <2>1. Counted(run, to)' = {}
    <3> SUFFICES ASSUME NEW r \in Record, call'[r].pc # "new", call'[r].life = restarts'
                 PROVE  FALSE
      BY DEF Counted, Sent
    <3>. QED BY <1>1, <1>3
  <2>2. Total(call', {}) = 0
    BY TotalRec, FS_EmptySet
  <2>3. sent'[run][to] = 0 /\ CumulativeCap \in Nat
    BY <1>1, GovernanceAssumption
  <2>. QED BY <2>1, <2>2, <2>3
<1>7. TotalsCover'
  BY <1>6 DEF TotalsCover
<1>. QED BY <1>4, <1>5, <1>7 DEF CapInv

LEMMA InitCap == Init => CapInv
<1> SUFFICES ASSUME Init PROVE CapInv
  OBVIOUS
<1>1. TypeOK
  BY InitInv DEF GovernanceInv
<1>2. \A r \in Record : call[r].pc = "new"
  BY DEF Init
<1>3. Started = {} /\ IsFiniteSet(Started)
  BY <1>2, FS_EmptySet DEF Started
<1>4. CallsOrdinary
  BY <1>2 DEF CallsOrdinary
<1>5. ASSUME NEW run \in Run, NEW to \in Recipient
      PROVE  /\ sent[run][to] = Total(call, Counted(run, to))
             /\ sent[run][to] <= CumulativeCap
  <2>1. Counted(run, to) = {}
    BY <1>2 DEF Counted, Sent
  <2>2. Total(call, {}) = 0
    BY TotalRec, FS_EmptySet
  <2>3. sent[run][to] = 0 /\ CumulativeCap \in Nat
    BY GovernanceAssumption DEF Init
  <2>. QED BY <2>1, <2>2, <2>3
<1>6. TotalsCover
  BY <1>5 DEF TotalsCover
<1>. QED BY <1>1, <1>3, <1>4, <1>6 DEF CapInv

LEMMA NextCap ==
    ASSUME CapInv, TypeOK', [Next]_vars
    PROVE  CapInv'
<1>1. ASSUME NEW r \in Record, DecideStep(r) PROVE CapInv'
  <2>1. CASE Commit(r) \/ Refuse(r)
    <3>1. PICK pc \in {"done", "refused"} :
             /\ call[r].pc = "commit" /\ call' = [call EXCEPT ![r].pc = pc]
             /\ UNCHANGED <<sent, restarts>>
      BY <2>1 DEF Commit, Refuse
    <3>2. call \in [Record -> Call] /\ call[r] \in Working
      BY <3>1, WorkingType DEF CapInv, TypeOK
    <3>3. /\ call'[r].pc = pc /\ call'[r].decision = call[r].decision
          /\ call'[r].transfer = call[r].transfer /\ call'[r].life = call[r].life
          /\ call'[r].counted = call[r].counted
          /\ \A q \in Record \ {r} : call'[q] = call[q]
      BY <3>1, <3>2 DEF Working
    <3>. QED BY <3>1, <3>3, OtherCap
  <2>. QED BY <1>1, <2>1, AssessCap, EscalateCap DEF DecideStep
<1>2. ASSUME NEW o \in Operator, ResumeStep(o) PROVE CapInv'
  <2>1. UNCHANGED <<sent, call, restarts>>
    BY <1>2 DEF ResumeStep, ResumeCall, ResumeLoad, ResumeGraph, ResumeFails, ResumeUpdate
  <2>. QED BY <2>1, OtherCap
<1>3. CASE Restart
  BY <1>3, RestartCap
<1>4. CASE UNCHANGED vars
  BY <1>4, OtherCap DEF vars
<1>. QED BY <1>1, <1>2, <1>3, <1>4 DEF Next

\* However the requests of a run interleave, scan slowly, are refused or are cut
\* off by a restart, and whatever the sign of their amounts, what the gate lets
\* through on its own to one recipient in one run and one life of the process
\* exceeds the cap by no more than what negative amounts have taken off the
\* total (rules.py:279, engine.py:194).
THEOREM CapCorrect == Spec => []PassedWithinCap
<1>1. Init => CapInv
  BY InitCap
<1>2. CapInv /\ TypeOK' /\ [Next]_vars => CapInv'
  BY NextCap
<1>3. CapInv => PassedWithinCap
  <2> SUFFICES ASSUME CapInv, NEW run \in Run, NEW to \in Recipient
               PROVE  Total(call, Passed(run, to) \cup Lowering(run, to)) <= CumulativeCap
    BY Zenon DEF PassedWithinCap, SumOf, Total
  <2> DEFINE S == Counted(run, to)
             T == Passed(run, to) \cup Lowering(run, to)
  <2>1. T \in SUBSET S
    BY DEF Passed, Lowering, Counted, Sent, CapInv, CallsOrdinary, Counts
  <2>2. IsFiniteSet(S) /\ \A r \in S : Amt(call, r) \in Int
    BY CountedFinite
  <2>3. \A r \in S \ T : Amt(call, r) >= 0
    BY <2>2 DEF Lowering, Counted, Amt
  <2>4. sent[run][to] = Total(call, S) /\ sent[run][to] <= CumulativeCap
    BY DEF CapInv, TotalsCover
  <2> HIDE DEF S, T
  <2>5. Total(call, T) <= Total(call, S)
    BY <2>1, <2>2, <2>3, TotalGrows
  <2>6. Total(call, T) \in Int /\ Total(call, S) \in Int /\ CumulativeCap \in Int
    BY <2>1, <2>2, FS_Subset, TotalType, GovernanceAssumption
  <2>7. Total(call, T) <= CumulativeCap
    BY <2>4, <2>5, <2>6
  <2>. QED BY <2>7 DEF T
<1>. QED BY <1>1, <1>2, <1>3, TypeCorrect, PTL DEF Spec
===============================================================================
