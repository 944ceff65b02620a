--------------------------- MODULE ShieldGateProofs ---------------------------
(***************************************************************************)
(* For any tools, ids, verdicts, pool and number of calls: the two chains  *)
(* never fork, a tool that fails closed runs on a verdict of the server    *)
(* only, and a rollback leaves nothing behind.                             *)
(***************************************************************************)
EXTENDS ShieldGate, WellFoundedInduction, TLAPS

\* Calls of earlier messages.
Earlier == calls - Len(message)

\* The elements walk the message in order: a message has the latest calls, each
\* under a key of its own, and a report returns about a decision.
ControlOK ==
    /\ pos \in 1..(Len(message) + 1)
    /\ pc = "decide" => pos <= Len(message)
    /\ pc = "submit" => Unrecorded # {}
    /\ Len(message) <= calls
    /\ \A i \in 1..Len(message) : message[i].n = Earlier + i
    /\ \A i, j \in 1..Len(message) : message[i].key = message[j].key => i = j

\* An answer is a verdict of the server.
AnswersRuled == \A n \in answered : ruled[n] # "none"

\* The guard has been at a call of the message, and has then filed a decision
\* under its key.
Passed(i) == pc \in {"guard", "decide"} => i < pos

HasDecision(key) == \E k \in 1..Len(decisions) : decisions[k].key = key

PassedDecided ==
    \A i \in 1..Len(message) : Passed(i) => HasDecision(message[i].key)

LoopInv == TypeOK /\ ControlOK /\ AnswersRuled /\ PassedDecided

-----------------------------------------------------------------------------
\* A set of natural numbers that is not empty has a least element.
LEMMA LeastOf ==
    ASSUME NEW S \in SUBSET Nat, S # {}
    PROVE  \E x \in S : \A y \in S : x <= y
<1>1. PICK x \in S : \A y \in S : ~(<<y, x>> \in OpToRel(<, Nat))
  BY NatLessThanWellFounded, WFMin
<1>2. \A y \in S : ~(y < x)
  BY <1>1, Zenon DEF OpToRel
<1>. QED BY <1>2

LEMMA NextUnrecordedIsIn ==
    ASSUME TypeOK, Unrecorded # {}
    PROVE  NextUnrecorded \in Unrecorded /\ NextUnrecorded \in 1..Len(decisions)
<1>1. Unrecorded \in SUBSET Nat
  BY DEF Unrecorded, TypeOK
<1>2. \E i \in Unrecorded : \A j \in Unrecorded : i <= j
  BY <1>1, LeastOf
<1>3. NextUnrecorded \in Unrecorded
  BY <1>2, Zenon DEF NextUnrecorded
<1>. QED BY <1>3 DEF Unrecorded

LEMMA PreType == \A n \in CallNumber : Pre(n) \in Rec
BY DEF Pre, Rec

LEMMA PostType == \A d \in DecisionRec : Post(d) \in Rec /\ Post(d).phase = "post"
BY DEF Post, Rec, DecisionRec

LEMMA ReportedType == \A d \in DecisionRec : [d EXCEPT !.recorded = TRUE] \in DecisionRec
BY DEF DecisionRec

LEMMA RecType == \A r \in Rec : r.call \in CallNumber /\ r.phase \in {"pre", "post"}
BY DEF Rec

LEMMA CurrentType ==
    ASSUME LoopInv, pos <= Len(message)
    PROVE  /\ Current \in ToolCall
           /\ Current.n \in CallNumber
           /\ Current.n = Earlier + pos
           /\ Current.tool \in Tool
           /\ Current.key \in Id \cup Nat
<1>1. pos \in 1..Len(message)
  BY DEF LoopInv, TypeOK, ControlOK
<1>2. Current \in ToolCall
  BY <1>1 DEF Current, LoopInv, TypeOK
<1>. QED BY <1>1, <1>2 DEF Current, LoopInv, ControlOK, ToolCall

\* What replacing or adding a decision does to the table.
LEMMA SetDecisionType ==
    ASSUME decisions \in Seq(DecisionRec), NEW d \in DecisionRec
    PROVE  /\ SetDecision(d) \in Seq(DecisionRec)
           /\ \E k \in 1..Len(SetDecision(d)) : SetDecision(d)[k] = d
           /\ \A k \in 1..Len(SetDecision(d)) :
                 \/ SetDecision(d)[k] = d
                 \/ /\ k \in 1..Len(decisions)
                    /\ SetDecision(d)[k] = decisions[k]
                    /\ decisions[k].key # d.key
           /\ \A k \in 1..Len(decisions) :
                 k \in 1..Len(SetDecision(d)) /\ SetDecision(d)[k].key = decisions[k].key
           /\ \A k \in 1..Len(SetDecision(d)) :
                 k \notin 1..Len(decisions) =>
                    /\ \A l \in 1..Len(decisions) : decisions[l].key # d.key
                    /\ k = Len(decisions) + 1
<1>1. CASE \E i \in 1..Len(decisions) : decisions[i].key = d.key
  <2> DEFINE new == [i \in 1..Len(decisions) |->
                        IF decisions[i].key = d.key THEN d ELSE decisions[i]]
  <2>1. SetDecision(d) = new
    BY <1>1, Zenon DEF SetDecision
  <2>2. Len(decisions) \in Nat /\ \A i \in 1..Len(decisions) : decisions[i] \in DecisionRec
    OBVIOUS
  <2>3. new \in Seq(DecisionRec) /\ Len(new) = Len(decisions)
    BY <2>2
  <2>. QED BY <1>1, <2>1, <2>2, <2>3
<1>2. CASE ~\E i \in 1..Len(decisions) : decisions[i].key = d.key
  <2>1. SetDecision(d) = Append(decisions, d)
    BY <1>2, Zenon DEF SetDecision
  <2>. QED BY <1>2, <2>1
<1>. QED BY <1>1, <1>2

-----------------------------------------------------------------------------
LEMMA InitLoop == Init => LoopInv
<1>. SUFFICES ASSUME Init PROVE LoopInv
  OBVIOUS
<1>1. TypeOK
  BY ShieldGateAssumption DEF Init, TypeOK
<1>2. ControlOK
  BY DEF Init, ControlOK, Earlier
<1>3. AnswersRuled
  BY DEF Init, AnswersRuled
<1>4. PassedDecided
  BY DEF Init, PassedDecided
<1>. QED BY <1>1, <1>2, <1>3, <1>4 DEF LoopInv

LEMMA GenerateLoop ==
    ASSUME LoopInv, Generate
    PROVE  LoopInv'
<1>. PICK len \in 1..MaxBatch :
       \E tools \in [1..len -> Tool], ids \in [1..len -> Id \cup {NoId}] :
         /\ calls + len <= MaxCalls
         /\ \A i, j \in 1..len : i # j /\ ids[i] = ids[j] => ids[i] = NoId
         /\ message' = [i \in 1..len |->
                [n |-> calls + i, tool |-> tools[i], key |-> ToolCallKey(ids[i], i)]]
         /\ calls' = calls + len
  BY DEF Generate
<1>1. PICK tools \in [1..len -> Tool], ids \in [1..len -> Id \cup {NoId}] :
         /\ calls + len <= MaxCalls
         /\ \A i, j \in 1..len : i # j /\ ids[i] = ids[j] => ids[i] = NoId
         /\ message' = [i \in 1..len |->
                [n |-> calls + i, tool |-> tools[i], key |-> ToolCallKey(ids[i], i)]]
         /\ calls' = calls + len
  OBVIOUS
<1>2. len \in Nat /\ calls \in Nat /\ MaxCalls \in Nat /\ MaxBatch \in Nat
  BY ShieldGateAssumption DEF LoopInv, TypeOK
<1>3. \A i \in 1..len : /\ ToolCallKey(ids[i], i) \in Id \cup Nat
                        /\ ids[i] = NoId => ToolCallKey(ids[i], i) = i
                        /\ ids[i] # NoId => ToolCallKey(ids[i], i) = ids[i] /\ ids[i] \in Id
  BY <1>2 DEF ToolCallKey
<1>4. \A i \in 1..len : calls + i \in CallNumber
  BY <1>1, <1>2 DEF CallNumber
<1>5. message' \in Seq(ToolCall) /\ Len(message') = len
  <2>1. \A i \in 1..len :
           [n |-> calls + i, tool |-> tools[i], key |-> ToolCallKey(ids[i], i)] \in ToolCall
    BY <1>2, <1>3, <1>4 DEF ToolCall
  <2>2. message' \in [1..len -> ToolCall]
    BY <1>1, <2>1
  <2>. QED BY <1>2, <2>2
<1>6. \A i, j \in 1..len : message'[i].key = message'[j].key => i = j
  <2>1. \A i \in 1..len : message'[i].key = ToolCallKey(ids[i], i)
    BY <1>1
  <2>2. SUFFICES ASSUME NEW i \in 1..len, NEW j \in 1..len, i # j,
                        ToolCallKey(ids[i], i) = ToolCallKey(ids[j], j)
                 PROVE  FALSE
    BY <2>1
  <2>3. CASE ids[i] # NoId /\ ids[j] # NoId
    BY <1>1, <1>3, <2>2, <2>3
  <2>4. CASE ids[i] = NoId \/ ids[j] = NoId
    <3>1. i \notin Id /\ j \notin Id
      <4>1. i \in Nat /\ j \in Nat
        BY <1>2
      <4>. QED BY <4>1, ShieldGateAssumption, Zenon
    <3>2. \A k \in 1..len : ToolCallKey(ids[k], k) = k \/ ToolCallKey(ids[k], k) \in Id
      BY <1>3, Zenon
    <3>3. ToolCallKey(ids[i], i) = i \/ ToolCallKey(ids[j], j) = j
      BY <1>3, <2>4, Zenon
    <3>. QED BY <2>2, <3>1, <3>2, <3>3, Zenon
  <2>. QED BY <2>3, <2>4
<1>7. /\ pc' = "guard" /\ pos' = 1
      /\ UNCHANGED <<decisions, head, env, restored, ran, queue, busy, wire,
                     log, ruled, answered>>
  BY DEF Generate, serverVars
<1>8. calls' \in 0..MaxCalls
  BY <1>1, <1>2
<1>9. TypeOK'
  BY <1>5, <1>7, <1>8 DEF LoopInv, TypeOK
<1>10. \A i \in 1..len : message'[i].n = calls + i
  BY <1>1
<1>11. ControlOK'
  BY <1>1, <1>2, <1>5, <1>6, <1>7, <1>10 DEF ControlOK, Earlier
<1>12. AnswersRuled'
  BY <1>7 DEF LoopInv, AnswersRuled
<1>13. PassedDecided'
  BY <1>5, <1>7 DEF PassedDecided, Passed
<1>. QED BY <1>9, <1>11, <1>12, <1>13 DEF LoopInv

LEMMA GuardSendLoop ==
    ASSUME LoopInv, GuardSend
    PROVE  LoopInv'
<1>1. [rec |-> Pre(Current.n), prev |-> head] \in Request
  BY CurrentType, PreType DEF GuardSend, LoopInv, TypeOK, Request
<1>2. TypeOK'
  BY <1>1 DEF GuardSend, LoopInv, TypeOK, serverVars
<1>3. ControlOK'
  BY DEF GuardSend, LoopInv, ControlOK, Earlier, Unrecorded
<1>4. AnswersRuled'
  BY DEF GuardSend, LoopInv, AnswersRuled, serverVars
<1>5. PassedDecided'
  BY DEF GuardSend, LoopInv, PassedDecided, Passed, HasDecision
<1>. QED BY <1>2, <1>3, <1>4, <1>5 DEF LoopInv

\* The decision the guard files.
Filed(verdict, degraded) ==
    [key |-> Current.key, call |-> Current.n, verdict |-> verdict,
     degraded |-> degraded, snapshot |-> env, recorded |-> FALSE]

LEMMA FiledType ==
    ASSUME LoopInv, pc = "decide", NEW verdict \in Verdict, NEW degraded \in BOOLEAN
    PROVE  Filed(verdict, degraded) \in DecisionRec
BY CurrentType DEF Filed, DecisionRec, LoopInv, TypeOK, ControlOK

\* The table once the guard has filed a decision.
LEMMA DecidedTable ==
    ASSUME LoopInv, pc = "decide", NEW verdict \in Verdict, NEW degraded \in BOOLEAN,
           Decided(verdict, degraded), NEW d, d = Filed(verdict, degraded)
    PROVE  /\ decisions' \in Seq(DecisionRec)
           /\ \E k \in 1..Len(decisions') : decisions'[k] = d
           /\ \A k \in 1..Len(decisions') :
                 \/ decisions'[k] = d
                 \/ /\ k \in 1..Len(decisions)
                    /\ decisions'[k] = decisions[k]
                    /\ decisions[k].key # d.key
           /\ \A k \in 1..Len(decisions) :
                 k \in 1..Len(decisions') /\ decisions'[k].key = decisions[k].key
           /\ \A k \in 1..Len(decisions') :
                 k \notin 1..Len(decisions) =>
                    /\ \A l \in 1..Len(decisions) : decisions[l].key # d.key
                    /\ k = Len(decisions) + 1
<1>1. decisions' = SetDecision(d)
  BY DEF Decided, Filed
<1>2. d \in DecisionRec /\ decisions \in Seq(DecisionRec)
  BY FiledType DEF LoopInv, TypeOK
<1> DEFINE table == SetDecision(d)
<1>3. /\ table \in Seq(DecisionRec)
      /\ \E k \in 1..Len(table) : table[k] = d
      /\ \A k \in 1..Len(table) :
            \/ table[k] = d
            \/ /\ k \in 1..Len(decisions)
               /\ table[k] = decisions[k]
               /\ decisions[k].key # d.key
      /\ \A k \in 1..Len(decisions) :
            k \in 1..Len(table) /\ table[k].key = decisions[k].key
      /\ \A k \in 1..Len(table) :
            k \notin 1..Len(decisions) =>
               /\ \A l \in 1..Len(decisions) : decisions[l].key # d.key
               /\ k = Len(decisions) + 1
  BY <1>2, SetDecisionType
<1>4. decisions' = table
  BY <1>1
<1> HIDE DEF table
<1>. QED BY <1>3, <1>4, Zenon

LEMMA DecidedLoop ==
    ASSUME LoopInv, pc = "decide", NEW verdict \in Verdict, NEW degraded \in BOOLEAN,
           Decided(verdict, degraded)
    PROVE  LoopInv'
<1>2. decisions' \in Seq(DecisionRec)
  BY DecidedTable
<1>3. head' \in Seq(Rec)
  BY CurrentType, PreType DEF Decided, LoopInv, TypeOK, ControlOK
<1>4. /\ pc' = "guard" /\ pos' = pos + 1
      /\ UNCHANGED <<message, calls, env, restored, ran, queue, busy, wire,
                     log, ruled, answered>>
  BY DEF Decided, serverVars
<1>5. TypeOK'
  BY <1>2, <1>3, <1>4 DEF LoopInv, TypeOK
<1>6. ControlOK'
  BY <1>4 DEF LoopInv, TypeOK, ControlOK, Earlier
<1>7. AnswersRuled'
  BY <1>4 DEF LoopInv, AnswersRuled
<1>8. PassedDecided'
  <2>1. SUFFICES ASSUME NEW i \in 1..Len(message), i < pos + 1
                 PROVE  \E k \in 1..Len(decisions') : decisions'[k].key = message[i].key
    BY <1>4, Zenon DEF PassedDecided, Passed, HasDecision
  <2>2. CASE i = pos
    <3>1. Filed(verdict, degraded).key = message[i].key
      BY <2>2 DEF Filed, Current
    <3>2. PICK k \in 1..Len(decisions') : decisions'[k] = Filed(verdict, degraded)
      BY DecidedTable
    <3>. QED BY <3>1, <3>2
  <2>3. CASE i < pos
    <3>1. PICK k \in 1..Len(decisions) : decisions[k].key = message[i].key
      BY <2>3 DEF LoopInv, PassedDecided, Passed, HasDecision
    <3>2. k \in 1..Len(decisions') /\ decisions'[k].key = decisions[k].key
      BY DecidedTable
    <3>. QED BY <3>1, <3>2
  <2>4. i = pos \/ i < pos
    <3>1. i \in Nat /\ pos \in Nat
      BY DEF LoopInv, TypeOK
    <3>. QED BY <2>1, <3>1
  <2>. QED BY <2>2, <2>3, <2>4
<1>. QED BY <1>5, <1>6, <1>7, <1>8 DEF LoopInv

\* What the guard is answered or makes up is a verdict.
LEMMA VerdictsGiven ==
    ASSUME LoopInv
    PROVE  /\ \A tool \in Tool : Degraded(tool) \in Verdict
           /\ \A n \in CallNumber : ruled[n] \in Verdict \cup {"none"}
BY DEF Degraded, Verdict, LoopInv, TypeOK

LEMMA GuardLoop ==
    ASSUME LoopInv, GuardAnswer \/ GuardGiveUp
    PROVE  LoopInv'
<1>1. pc = "decide" /\ Current.n \in CallNumber /\ Current.tool \in Tool
  BY CurrentType DEF GuardAnswer, GuardGiveUp, LoopInv, ControlOK
<1>2. CASE GuardAnswer
  <2>1. ruled[Current.n] \in Verdict
    BY <1>1, <1>2, VerdictsGiven DEF GuardAnswer, LoopInv, AnswersRuled
  <2>. QED BY <1>1, <1>2, <2>1, DecidedLoop DEF GuardAnswer
<1>3. CASE GuardGiveUp
  BY <1>1, <1>3, VerdictsGiven, DecidedLoop DEF GuardGiveUp
<1>. QED BY <1>2, <1>3

LEMMA DecisionOfType ==
    ASSUME TypeOK, NEW key, \E k \in 1..Len(decisions) : decisions[k].key = key
    PROVE  /\ DecisionOf(key) \in 1..Len(decisions)
           /\ decisions[DecisionOf(key)].key = key
<1>1. DecisionOf(key) \in 1..Len(decisions) /\ decisions[DecisionOf(key)].key = key
  BY Zenon DEF DecisionOf
<1>. QED BY <1>1

\* The recorder marks a decision and changes nothing else in the table.
LEMMA TableKept ==
    ASSUME LoopInv, RecordReturn
    PROVE  /\ decisions' \in Seq(DecisionRec)
           /\ Len(decisions') = Len(decisions)
           /\ \A k \in 1..Len(decisions) :
                 /\ decisions'[k].key = decisions[k].key
                 /\ decisions'[k].call = decisions[k].call
                 /\ decisions'[k].verdict = decisions[k].verdict
                 /\ decisions'[k].degraded = decisions[k].degraded
                 /\ decisions'[k].snapshot = decisions[k].snapshot
<1>1. NextUnrecorded \in 1..Len(decisions)
  BY NextUnrecordedIsIn DEF RecordReturn, LoopInv, ControlOK
<1> DEFINE d == [decisions[NextUnrecorded] EXCEPT !.recorded = TRUE]
<1>2. decisions' = [decisions EXCEPT ![NextUnrecorded] = d]
  BY Zenon DEF RecordReturn
<1>3. decisions[NextUnrecorded] \in DecisionRec
  BY <1>1 DEF LoopInv, TypeOK
<1>4. d \in DecisionRec
  BY <1>3, Zenon, ReportedType
<1>5. /\ d.key = decisions[NextUnrecorded].key
      /\ d.call = decisions[NextUnrecorded].call
      /\ d.verdict = decisions[NextUnrecorded].verdict
      /\ d.degraded = decisions[NextUnrecorded].degraded
      /\ d.snapshot = decisions[NextUnrecorded].snapshot
  BY <1>3 DEF DecisionRec
<1> HIDE DEF d
<1>6. decisions \in Seq(DecisionRec)
  BY DEF LoopInv, TypeOK
<1>. QED BY <1>1, <1>2, <1>4, <1>5, <1>6

\* Steps that leave the message, the position, the table and the server's
\* verdicts alone.
LEMMA RecordLoop ==
    ASSUME LoopInv, GuardDone \/ RecordSend \/ RecordReturn \/ RecordDone
    PROVE  LoopInv'
<1>1. TypeOK'
  <2>1. CASE GuardDone
    BY <2>1 DEF GuardDone, LoopInv, TypeOK, serverVars
  <2>2. CASE RecordSend
    <3>1. decisions[NextUnrecorded] \in DecisionRec
      BY <2>2, NextUnrecordedIsIn DEF RecordSend, LoopInv, TypeOK
    <3> DEFINE post == Post(decisions[NextUnrecorded])
    <3>2. post \in Rec
      BY <3>1, PostType
    <3> HIDE DEF post
    <3>3. wire' = wire \cup {[rec |-> post, prev |-> head]} /\ head' = Append(head, post)
      BY <2>2 DEF RecordSend, post
    <3>. QED BY <2>2, <3>2, <3>3 DEF RecordSend, LoopInv, TypeOK, Request, serverVars
  <2>3. CASE RecordReturn
    BY <2>3, TableKept DEF RecordReturn, LoopInv, TypeOK, serverVars
  <2>4. CASE RecordDone
    BY <2>4 DEF RecordDone, LoopInv, TypeOK, serverVars
  <2>. QED BY <2>1, <2>2, <2>3, <2>4
<1>2. ControlOK'
  <2>1. CASE GuardDone
    <3>1. /\ pc' = "execute" /\ pos' = 1
          /\ UNCHANGED <<message, calls, decisions>>
      BY <2>1 DEF GuardDone
    <3>2. 1 \in 1..(Len(message) + 1)
      BY DEF LoopInv, TypeOK
    <3>. QED BY <3>1, <3>2 DEF LoopInv, ControlOK, Earlier
  <2>2. CASE RecordSend
    BY <2>2 DEF RecordSend, LoopInv, ControlOK, Earlier, Unrecorded
  <2>3. CASE RecordReturn
    BY <2>3 DEF RecordReturn, LoopInv, ControlOK, Earlier
  <2>4. CASE RecordDone
    BY <2>4 DEF RecordDone, LoopInv, ControlOK, Earlier
  <2>. QED BY <2>1, <2>2, <2>3, <2>4
<1>3. AnswersRuled'
  BY DEF GuardDone, RecordSend, RecordReturn, RecordDone, LoopInv, AnswersRuled, serverVars
<1>4. PassedDecided'
  <2>1. CASE GuardDone
    BY <2>1 DEF GuardDone, LoopInv, TypeOK, PassedDecided, Passed, HasDecision
  <2>2. CASE RecordSend
    BY <2>2 DEF RecordSend, LoopInv, PassedDecided, Passed, HasDecision
  <2>3. CASE RecordReturn
    BY <2>3, TableKept DEF RecordReturn, LoopInv, PassedDecided, Passed, HasDecision
  <2>4. CASE RecordDone
    BY <2>4 DEF RecordDone, LoopInv, PassedDecided, Passed, HasDecision
  <2>. QED BY <2>1, <2>2, <2>3, <2>4
<1>. QED BY <1>1, <1>2, <1>3, <1>4 DEF LoopInv

\* Execute finds the decision of its call.
LEMMA ExecutedType ==
    ASSUME LoopInv, pc = "execute", pos <= Len(message)
    PROVE  LET k == DecisionOf(Current.key)
           IN  /\ k \in 1..Len(decisions)
               /\ decisions[k].key = Current.key
               /\ decisions[k] \in DecisionRec
               /\ decisions[k].snapshot \subseteq CallNumber
<1>1. pos \in 1..Len(message)
  BY DEF LoopInv, TypeOK, ControlOK
<1>2. HasDecision(Current.key)
  BY <1>1 DEF Current, LoopInv, PassedDecided, Passed
<1>3. /\ DecisionOf(Current.key) \in 1..Len(decisions)
      /\ decisions[DecisionOf(Current.key)].key = Current.key
  BY <1>2, DecisionOfType DEF HasDecision, LoopInv
<1>4. decisions[DecisionOf(Current.key)] \in DecisionRec
  BY <1>3 DEF LoopInv, TypeOK
<1>. QED BY <1>3, <1>4 DEF DecisionRec

\* What one call of the executor does, its decision by name.
LEMMA ExecuteStep ==
    ASSUME LoopInv, Execute
    PROVE  LET d == decisions[DecisionOf(Current.key)]
           IN  /\ pc = "execute" /\ pos <= Len(message) /\ pos' = pos + 1
               /\ UNCHANGED <<message, calls, pc, decisions, head, queue, busy, wire,
                              log, ruled, answered>>
               /\ \/ Current.tool \notin Runtime /\ UNCHANGED <<env, restored, ran>>
                  \/ /\ Current.tool \in Runtime
                     /\ MayRun(d.verdict)
                     /\ env' = env \cup {Current.n}
                     /\ ran' = ran \cup {Current.n}
                     /\ UNCHANGED restored
                  \/ /\ Current.tool \in Runtime
                     /\ MayNotRun(d.verdict)
                     /\ restored' = IF d.verdict = "ROLLBACK" THEN {d.snapshot} ELSE restored
                     /\ UNCHANGED <<env, ran>>
BY Zenon DEF Execute, serverVars

LEMMA ExecuteLoop ==
    ASSUME LoopInv, Execute
    PROVE  LoopInv'
<1> DEFINE d == decisions[DecisionOf(Current.key)]
<1>1. /\ pc = "execute" /\ pos <= Len(message) /\ pos' = pos + 1
      /\ UNCHANGED <<message, calls, pc, decisions, head, queue, busy, wire,
                     log, ruled, answered>>
  BY ExecuteStep
<1>2. d.snapshot \subseteq CallNumber /\ Current.n \in CallNumber
  BY <1>1, ExecutedType, CurrentType
<1>3. /\ env' \in {env, env \cup {Current.n}}
      /\ ran' \in {ran, ran \cup {Current.n}}
      /\ restored' \in {restored, {d.snapshot}}
  BY ExecuteStep
<1> HIDE DEF d
<1>4. env' \in SUBSET CallNumber /\ ran' \in SUBSET CallNumber
  BY <1>2, <1>3 DEF LoopInv, TypeOK
<1>5. restored' \in SUBSET SUBSET CallNumber
  BY <1>2, <1>3 DEF LoopInv, TypeOK
<1>6. TypeOK'
  BY <1>1, <1>4, <1>5 DEF LoopInv, TypeOK
<1>7. ControlOK'
  BY <1>1 DEF LoopInv, TypeOK, ControlOK, Earlier
<1>8. AnswersRuled' /\ PassedDecided'
  BY <1>1 DEF LoopInv, AnswersRuled, PassedDecided, Passed, HasDecision
<1>. QED BY <1>6, <1>7, <1>8 DEF LoopInv

LEMMA ExecuteDoneLoop ==
    ASSUME LoopInv, ExecuteDone
    PROVE  LoopInv'
<1>1. env' \in SUBSET CallNumber
  <2>1. CASE restored = {}
    BY <2>1 DEF ExecuteDone, LoopInv, TypeOK
  <2>2. CASE restored # {}
    <3>1. env' \in restored
      BY <2>2 DEF ExecuteDone
    <3>. QED BY <3>1 DEF LoopInv, TypeOK
  <2>. QED BY <2>1, <2>2
<1>2. /\ pc = "execute" /\ pc' = "record" /\ restored' = {}
      /\ UNCHANGED <<message, calls, pos, decisions, head, ran, queue, busy, wire,
                     log, ruled, answered>>
  BY DEF ExecuteDone, serverVars
<1>3. TypeOK'
  BY <1>1, <1>2 DEF LoopInv, TypeOK
<1>4. ControlOK'
  BY <1>2 DEF LoopInv, ControlOK, Earlier
<1>5. AnswersRuled' /\ PassedDecided'
  BY <1>2 DEF LoopInv, AnswersRuled, PassedDecided, Passed, HasDecision
<1>. QED BY <1>3, <1>4, <1>5 DEF LoopInv

\* The pool and the server: the loop does not notice.
LEMMA DispatchLoop ==
    ASSUME LoopInv, Dispatch
    PROVE  LoopInv'
<1>1. /\ wire' = wire \cup {Head(queue)}
      /\ busy' = busy \cup {Head(queue).rec}
      /\ queue' = Tail(queue) /\ queue # <<>>
      /\ UNCHANGED <<message, calls, pc, pos, decisions, head, env, restored, ran,
                     log, ruled, answered>>
  BY DEF Dispatch, clientVars, serverVars
<1>2. Head(queue) \in Request /\ Tail(queue) \in Seq(Request)
  BY <1>1 DEF LoopInv, TypeOK
<1>3. Head(queue).rec \in Rec
  BY <1>2 DEF Request
<1>4. TypeOK'
  BY <1>1, <1>2, <1>3 DEF LoopInv, TypeOK
<1>5. ControlOK' /\ AnswersRuled' /\ PassedDecided'
  BY <1>1 DEF LoopInv, ControlOK, Earlier, Unrecorded, AnswersRuled, PassedDecided,
              Passed, HasDecision
<1>. QED BY <1>4, <1>5 DEF LoopInv

LEMMA ThreadGivesUpLoop ==
    ASSUME LoopInv, ThreadGivesUp
    PROVE  LoopInv'
<1>1. /\ busy' \subseteq busy
      /\ UNCHANGED <<message, calls, pc, pos, decisions, head, env, restored, ran,
                     queue, wire, log, ruled, answered>>
  BY DEF ThreadGivesUp, clientVars, serverVars
<1>2. TypeOK'
  BY <1>1 DEF LoopInv, TypeOK
<1>3. ControlOK' /\ AnswersRuled' /\ PassedDecided'
  BY <1>1 DEF LoopInv, ControlOK, Earlier, Unrecorded, AnswersRuled, PassedDecided,
              Passed, HasDecision
<1>. QED BY <1>2, <1>3 DEF LoopInv

\* What the server does with a request, its effects by name.
LEMMA AcceptStep ==
    ASSUME LoopInv, NEW q, Accept(q)
    PROVE  /\ q \in wire /\ q \in Request
           /\ q.rec \in Rec /\ q.rec.call \in CallNumber
           /\ q.prev = log /\ log' = Append(log, q.rec)
           /\ wire' = wire \ {q} /\ busy' = busy \ {q.rec}
           /\ UNCHANGED <<message, calls, pc, pos, decisions, head, env, restored,
                          ran, queue>>
           /\ \/ /\ q.rec.phase = "pre"
                 /\ \E verdict \in Ruling : ruled' = [ruled EXCEPT ![q.rec.call] = verdict]
                 /\ answered' \in {answered, answered \cup {q.rec.call}}
              \/ q.rec.phase # "pre" /\ UNCHANGED <<ruled, answered>>
<1>1. q \in wire /\ q \in Request
  BY DEF Accept, LoopInv, TypeOK
<1>2. q.rec \in Rec
  BY <1>1 DEF Request
<1>. QED BY <1>1, <1>2, RecType DEF Accept, clientVars

LEMMA AcceptLoop ==
    ASSUME LoopInv, NEW q, Accept(q)
    PROVE  LoopInv'
<1>1. ruled' \in [CallNumber -> Verdict \cup {"none"}]
      /\ answered' \in SUBSET CallNumber
      /\ AnswersRuled'
  <2>1. CASE q.rec.phase = "pre"
    <3>1. PICK verdict \in Ruling : ruled' = [ruled EXCEPT ![q.rec.call] = verdict]
      BY <2>1, AcceptStep
    <3>2. verdict \in Verdict /\ verdict # "none"
      BY ShieldGateAssumption DEF Verdict
    <3>3. answered' \in {answered, answered \cup {q.rec.call}} /\ q.rec.call \in CallNumber
      BY <2>1, AcceptStep
    <3>. QED BY <3>1, <3>2, <3>3 DEF LoopInv, TypeOK, AnswersRuled
  <2>2. CASE q.rec.phase # "pre"
    BY <2>2, AcceptStep DEF LoopInv, TypeOK, AnswersRuled
  <2>. QED BY <2>1, <2>2
<1>2. /\ q.rec \in Rec
      /\ log' = Append(log, q.rec)
      /\ wire' \subseteq wire /\ busy' \subseteq busy
      /\ UNCHANGED <<message, calls, pc, pos, decisions, head, env, restored,
                     ran, queue>>
  BY AcceptStep
<1>3. TypeOK'
  BY <1>1, <1>2 DEF LoopInv, TypeOK
<1>4. ControlOK' /\ PassedDecided'
  BY <1>2 DEF LoopInv, ControlOK, Earlier, Unrecorded, PassedDecided, Passed, HasDecision
<1>. QED BY <1>1, <1>3, <1>4 DEF LoopInv

LEMMA RefuseLoop ==
    ASSUME LoopInv, NEW q, Refuse(q)
    PROVE  LoopInv'
<1>1. /\ wire' \subseteq wire /\ busy' \subseteq busy
      /\ UNCHANGED <<message, calls, pc, pos, decisions, head, env, restored, ran,
                     queue, log, ruled, answered>>
  BY DEF Refuse, clientVars, serverVars
<1>2. TypeOK'
  BY <1>1 DEF LoopInv, TypeOK
<1>3. ControlOK' /\ AnswersRuled' /\ PassedDecided'
  BY <1>1 DEF LoopInv, ControlOK, Earlier, Unrecorded, AnswersRuled, PassedDecided,
              Passed, HasDecision
<1>. QED BY <1>2, <1>3 DEF LoopInv

LEMMA StutterLoop ==
    ASSUME LoopInv, UNCHANGED vars
    PROVE  LoopInv'
BY DEF vars, clientVars, serverVars, LoopInv, TypeOK, ControlOK, Earlier, Unrecorded,
       AnswersRuled, PassedDecided, Passed, HasDecision

LEMMA NextLoop ==
    ASSUME LoopInv, [Next]_vars
    PROVE  LoopInv'
BY GenerateLoop, GuardSendLoop, GuardLoop, RecordLoop, ExecuteLoop, ExecuteDoneLoop,
   DispatchLoop, ThreadGivesUpLoop, AcceptLoop, RefuseLoop, StutterLoop
   DEF Next, ElementStep

LEMMA LoopAlways == Spec => []LoopInv
BY InitLoop, NextLoop, PTL DEF Spec

\* The thread of the run, the pool, the requests under way and the two chains
\* keep their types for any number of calls: a decision is filed with a verdict
\* (elements.py:213), never with none.
THEOREM TypeCorrect == Spec => []TypeOK
<1>1. LoopInv => TypeOK
  BY DEF LoopInv
<1>. QED BY <1>1, LoopAlways, PTL

-----------------------------------------------------------------------------
\* A request carries the next record of the chain the client believes in.
Along(chain, q) ==
    /\ Len(q.prev) < Len(chain)
    /\ \A i \in 1..Len(q.prev) : q.prev[i] = chain[i]
    /\ chain[Len(q.prev) + 1] = q.rec

ChainInv ==
    /\ \A q \in wire : Along(Believed, q)
    /\ \A i \in 1..Len(queue) : Along(Believed, queue[i])
    /\ ServerChainIsPrefix

LEMMA BelievedType ==
    ASSUME LoopInv
    PROVE  Believed \in Seq(Rec)
<1>1. CASE pc = "decide"
  <2>1. Pre(Current.n) \in Rec /\ head \in Seq(Rec)
    BY <1>1, CurrentType, PreType DEF LoopInv, TypeOK, ControlOK
  <2>. QED BY <1>1, <2>1 DEF Believed
<1>2. CASE pc # "decide"
  BY <1>2 DEF Believed, LoopInv, TypeOK
<1>. QED BY <1>1, <1>2

\* What the client sends is the next record of its chain, and its chain grows
\* by it.
LEMMA GuardSends ==
    ASSUME LoopInv, GuardSend
    PROVE  \E q \in Request :
              /\ q.prev = Believed /\ Believed' = Append(Believed, q.rec)
              /\ q.rec = Pre(Current.n)
              /\ queue' = Append(queue, q)
              /\ UNCHANGED <<wire, log>>
<1> DEFINE q == [rec |-> Pre(Current.n), prev |-> head]
<1>1. q \in Request
  BY CurrentType, PreType DEF GuardSend, LoopInv, TypeOK, Request
<1>2. /\ pc = "guard" /\ pc' = "decide"
      /\ queue' = Append(queue, q)
      /\ UNCHANGED <<message, pos, head, wire, log>>
  BY DEF GuardSend, serverVars
<1>3. Believed = head /\ Believed' = Append(head, Pre(Current.n))
  BY <1>2 DEF Believed, Current
<1>4. q.prev = head /\ q.rec = Pre(Current.n)
  OBVIOUS
<1> HIDE DEF q
<1>. QED BY <1>1, <1>2, <1>3, <1>4

LEMMA RecordSends ==
    ASSUME LoopInv, RecordSend
    PROVE  \E q \in Request :
              /\ q.prev = Believed /\ Believed' = Append(Believed, q.rec)
              /\ q.rec.phase = "post"
              /\ wire' = wire \cup {q}
              /\ UNCHANGED <<queue, log>>
<1> DEFINE post == Post(decisions[NextUnrecorded])
           q    == [rec |-> post, prev |-> head]
<1>1. decisions[NextUnrecorded] \in DecisionRec
  BY NextUnrecordedIsIn DEF RecordSend, LoopInv, TypeOK
<1>2. post \in Rec /\ post.phase = "post"
  BY <1>1, PostType
<1>3. /\ pc = "record" /\ pc' = "submit"
      /\ wire' = wire \cup {q} /\ head' = Append(head, post)
      /\ UNCHANGED <<queue, log>>
  BY DEF RecordSend, serverVars
<1> HIDE DEF post
<1>4. q \in Request /\ q.prev = head /\ q.rec = post
  BY <1>2 DEF Request, LoopInv, TypeOK
<1> HIDE DEF q
<1>5. Believed = head /\ Believed' = Append(head, post)
  BY <1>3 DEF Believed
<1>. QED BY <1>2, <1>3, <1>4, <1>5

\* A chain that grows keeps what is along it.
LEMMA ChainGrows ==
    ASSUME LoopInv, ChainInv, NEW r \in Rec, Believed' = Append(Believed, r)
    PROVE  /\ \A q \in Request : Along(Believed, q) => Along(Believed', q)
           /\ \A q \in Request : q.prev = Believed /\ q.rec = r => Along(Believed', q)
           /\ log' = log => ServerChainIsPrefix'
<1>1. Believed \in Seq(Rec) /\ log \in Seq(Rec)
  BY BelievedType DEF LoopInv, TypeOK
<1>2. \A q \in Request : q.prev \in Seq(Rec)
  BY DEF Request
<1>3. /\ Len(Believed') = Len(Believed) + 1
      /\ \A i \in 1..Len(Believed) : Believed'[i] = Believed[i]
      /\ Believed'[Len(Believed) + 1] = r
  BY <1>1
<1>4. ASSUME NEW q \in Request, Along(Believed, q) PROVE Along(Believed', q)
  BY <1>1, <1>2, <1>3, <1>4 DEF Along
<1>5. ASSUME NEW q \in Request, q.prev = Believed, q.rec = r PROVE Along(Believed', q)
  BY <1>1, <1>2, <1>3, <1>5 DEF Along
<1>6. ASSUME log' = log PROVE ServerChainIsPrefix'
  BY <1>1, <1>3, <1>6 DEF ChainInv, ServerChainIsPrefix
<1>. QED BY <1>4, <1>5, <1>6

LEMMA SendChain ==
    ASSUME LoopInv, ChainInv, GuardSend \/ RecordSend
    PROVE  ChainInv'
<1>1. wire \subseteq Request /\ queue \in Seq(Request)
  BY DEF LoopInv, TypeOK
<1>2. CASE GuardSend
  <2>1. PICK q \in Request : /\ q.prev = Believed /\ Believed' = Append(Believed, q.rec)
                             /\ queue' = Append(queue, q)
                             /\ UNCHANGED <<wire, log>>
    BY <1>2, GuardSends
  <2>2. q.rec \in Rec
    BY DEF Request
  <2>3. /\ \A p \in Request : Along(Believed, p) => Along(Believed', p)
        /\ Along(Believed', q) /\ ServerChainIsPrefix'
    BY <2>1, <2>2, ChainGrows
  <2>4. \A p \in wire' : Along(Believed', p)
    BY <1>1, <2>1, <2>3 DEF ChainInv
  <2>5. \A i \in 1..Len(queue') : Along(Believed', queue'[i])
    <3>1. SUFFICES ASSUME NEW i \in 1..Len(queue') PROVE Along(Believed', queue'[i])
      OBVIOUS
    <3>2. CASE i \in 1..Len(queue)
      <4>1. queue'[i] = queue[i] /\ queue[i] \in Request /\ Along(Believed, queue[i])
        BY <1>1, <2>1, <3>2 DEF ChainInv
      <4>2. Along(Believed', queue[i])
        BY <4>1, <2>3, Zenon
      <4>. QED BY <4>1, <4>2
    <3>3. CASE i \notin 1..Len(queue)
      <4>1. queue'[i] = q
        BY <1>1, <2>1, <3>3
      <4>. QED BY <2>3, <4>1
    <3>. QED BY <3>2, <3>3
  <2>. QED BY <2>3, <2>4, <2>5 DEF ChainInv
<1>3. CASE RecordSend
  <2>1. PICK q \in Request : /\ q.prev = Believed /\ Believed' = Append(Believed, q.rec)
                             /\ wire' = wire \cup {q}
                             /\ UNCHANGED <<queue, log>>
    BY <1>3, RecordSends
  <2>2. q.rec \in Rec
    BY DEF Request
  <2>3. /\ \A p \in Request : Along(Believed, p) => Along(Believed', p)
        /\ Along(Believed', q) /\ ServerChainIsPrefix'
    BY <2>1, <2>2, ChainGrows
  <2>4. \A p \in wire' : Along(Believed', p)
    BY <1>1, <2>1, <2>3 DEF ChainInv
  <2>5. \A i \in 1..Len(queue') : Along(Believed', queue'[i])
    <3>1. SUFFICES ASSUME NEW i \in 1..Len(queue') PROVE Along(Believed', queue'[i])
      OBVIOUS
    <3>2. queue'[i] = queue[i] /\ queue[i] \in Request /\ Along(Believed, queue[i])
      BY <1>1, <2>1 DEF ChainInv
    <3>3. Along(Believed', queue[i])
      BY <3>2, <2>3, Zenon
    <3>. QED BY <3>2, <3>3
  <2>. QED BY <2>3, <2>4, <2>5 DEF ChainInv
<1>. QED BY <1>2, <1>3

\* Every other step leaves the client's chain as it is.
LEMMA BelievedKept ==
    ASSUME LoopInv, [Next]_vars, ~GuardSend, ~RecordSend
    PROVE  Believed' = Believed
<1>1. CASE Generate
  BY <1>1 DEF Generate, Believed
<1>2. CASE GuardAnswer \/ GuardGiveUp
  BY <1>2 DEF GuardAnswer, GuardGiveUp, Decided, Believed
<1>3. CASE GuardDone \/ RecordReturn \/ RecordDone
  BY <1>3 DEF GuardDone, RecordReturn, RecordDone, Believed
<1>4. CASE Execute
  <2>1. pc = "execute" /\ UNCHANGED <<pc, head>>
    BY <1>4 DEF Execute
  <2>. QED BY <2>1 DEF Believed
<1>5. CASE ExecuteDone
  BY <1>5 DEF ExecuteDone, Believed
<1>6. CASE \/ Dispatch \/ ThreadGivesUp \/ UNCHANGED vars
           \/ \E q \in wire : Accept(q) \/ Refuse(q)
  <2>1. UNCHANGED <<pc, head, message, pos>>
    BY <1>6 DEF Dispatch, ThreadGivesUp, Accept, Refuse, vars, clientVars
  <2>. QED BY <2>1 DEF Believed, Current
<1>. QED BY <1>1, <1>2, <1>3, <1>4, <1>5, <1>6 DEF Next, ElementStep

LEMMA NextChain ==
    ASSUME LoopInv, ChainInv, [Next]_vars
    PROVE  ChainInv'
<1>1. CASE GuardSend \/ RecordSend
  BY <1>1, SendChain
<1>2. CASE ~GuardSend /\ ~RecordSend
  <2>1. Believed' = Believed
    BY <1>2, BelievedKept
  <2>3. CASE Dispatch
    <3>1. wire' = wire \cup {Head(queue)} /\ queue' = Tail(queue) /\ queue # <<>> /\ log' = log
      BY <2>3 DEF Dispatch, serverVars
    <3>2. queue \in Seq(Request)
      BY DEF LoopInv, TypeOK
    <3>3. Head(queue) = queue[1] /\ 1 \in 1..Len(queue)
      BY <3>1, <3>2
    <3>4. \A i \in 1..Len(Tail(queue)) : Tail(queue)[i] = queue[i + 1] /\ i + 1 \in 1..Len(queue)
      BY <3>1, <3>2
    <3>5. \A q \in wire' : Along(Believed, q)
      BY <3>1, <3>3 DEF ChainInv
    <3>6. \A i \in 1..Len(queue') : Along(Believed, queue'[i])
      BY <3>1, <3>4 DEF ChainInv
    <3>. QED BY <2>1, <3>1, <3>5, <3>6 DEF ChainInv, ServerChainIsPrefix
  <2>4. CASE \E q \in wire : Accept(q)
    <3>1. PICK q \in wire : Accept(q)
      BY <2>4
    <3>2. /\ q \in Request /\ q.rec \in Rec /\ q.prev = log /\ log' = Append(log, q.rec)
          /\ wire' \subseteq wire /\ queue' = queue
      BY <3>1, AcceptStep
    <3>3. log \in Seq(Rec) /\ Believed \in Seq(Rec) /\ Along(Believed, q)
      BY BelievedType DEF LoopInv, TypeOK, ChainInv
    <3>4. ServerChainIsPrefix'
      BY <2>1, <3>2, <3>3 DEF ServerChainIsPrefix, Along
    <3>. QED BY <2>1, <3>2, <3>4 DEF ChainInv
  <2>5. CASE ~Dispatch /\ ~\E q \in wire : Accept(q)
    <3>1. wire' \subseteq wire /\ UNCHANGED <<queue, log>>
      <4>1. CASE Generate \/ GuardAnswer \/ GuardGiveUp \/ GuardDone
        BY <4>1 DEF Generate, GuardAnswer, GuardGiveUp, Decided, GuardDone, serverVars
      <4>2. CASE Execute
        BY <4>2 DEF Execute, serverVars
      <4>3. CASE ExecuteDone \/ RecordReturn \/ RecordDone
        BY <4>3 DEF ExecuteDone, RecordReturn, RecordDone, serverVars
      <4>4. CASE ThreadGivesUp \/ UNCHANGED vars \/ \E q \in wire : Refuse(q)
        BY <4>4 DEF ThreadGivesUp, Refuse, vars, serverVars
      <4>. QED BY <1>2, <2>5, <4>1, <4>2, <4>3, <4>4 DEF Next, ElementStep
    <3>. QED BY <2>1, <3>1 DEF ChainInv, ServerChainIsPrefix
  <2>. QED BY <2>3, <2>4, <2>5
<1>. QED BY <1>1, <1>2

LEMMA InitChain == Init => ChainInv
BY DEF Init, ChainInv, ServerChainIsPrefix, Believed

\* The chain of the server is at all times a prefix of the one the client
\* believes in (elements.py:213), whatever the pool delays, reorders or loses:
\* every request is for the next record of the client's chain, and the server
\* takes none but the next of its own.
THEOREM ChainsNeverFork == Spec => []ServerChainIsPrefix
<1>1. Init => LoopInv /\ ChainInv
  BY InitLoop, InitChain
<1>2. LoopInv /\ ChainInv /\ [Next]_vars => (LoopInv /\ ChainInv)'
  BY NextLoop, NextChain
<1>3. ChainInv => ServerChainIsPrefix
  BY DEF ChainInv
<1>. QED BY <1>1, <1>2, <1>3, PTL DEF Spec

-----------------------------------------------------------------------------
\* The latest call the client may have asked about.
Latest == IF pc = "guard" THEN Earlier + pos - 1
          ELSE IF pc = "decide" THEN Earlier + pos ELSE calls

\* The client asks about a call once, and what the server has ruled on is in its
\* chain.
PreInv ==
    /\ \A i, j \in 1..Len(Believed) :
          Believed[i].phase = "pre" /\ Believed[j] = Believed[i] => i = j
    /\ \A i \in 1..Len(Believed) : Believed[i].phase = "pre" => Believed[i].call <= Latest
    /\ \A n \in CallNumber : ruled[n] # "none" => \E i \in 1..Len(log) : log[i] = Pre(n)

LEMMA PreOfRec == \A r \in Rec : r.phase = "pre" => r = Pre(r.call)
BY DEF Rec, Pre

LEMMA LatestGrows ==
    ASSUME LoopInv, [Next]_vars
    PROVE  /\ Latest \in Int /\ Latest' \in Int /\ Latest <= Latest'
           /\ Latest <= calls
<1>1. calls \in Nat /\ pos \in Nat /\ Len(message) \in Nat
      /\ calls' \in Nat /\ pos' \in Nat /\ Len(message') \in Nat
  BY NextLoop DEF LoopInv, TypeOK
<1>2. Latest \in Int /\ Latest' \in Int
  BY <1>1 DEF Latest, Earlier
<1>3. Latest <= calls
  BY <1>1 DEF Latest, Earlier, LoopInv, ControlOK
<1>4. Latest <= Latest'
  <2>1. CASE Generate
    <3>1. calls <= Latest'
      <4>1. pc' = "guard" /\ pos' = 1
        BY <2>1 DEF Generate
      <4>2. calls' - Len(message') = calls
        <5>1. PICK len \in 1..MaxBatch :
                 \E tools \in [1..len -> Tool], ids \in [1..len -> Id \cup {NoId}] :
                    /\ message' = [i \in 1..len |->
                          [n |-> calls + i, tool |-> tools[i],
                           key |-> ToolCallKey(ids[i], i)]]
                    /\ calls' = calls + len
          BY <2>1 DEF Generate
        <5>2. Len(message') = len /\ calls' = calls + len /\ len \in Nat
          BY <5>1, ShieldGateAssumption
        <5>. QED BY <1>1, <5>2
      <4>. QED BY <1>1, <4>1, <4>2 DEF Latest, Earlier
    <3>. QED BY <1>1, <1>2, <1>3, <3>1
  <2>2. CASE GuardSend
    <3>1. pc = "guard" /\ pc' = "decide" /\ UNCHANGED <<calls, message, pos>>
      BY <2>2 DEF GuardSend
    <3>. QED BY <1>1, <3>1 DEF Latest, Earlier
  <2>3. CASE GuardAnswer \/ GuardGiveUp
    <3>1. pc = "decide" /\ pc' = "guard" /\ pos' = pos + 1 /\ UNCHANGED <<calls, message>>
      BY <2>3 DEF GuardAnswer, GuardGiveUp, Decided
    <3>. QED BY <1>1, <3>1 DEF Latest, Earlier
  <2>4. CASE GuardDone
    <3>1. pc = "guard" /\ pc' = "execute" /\ UNCHANGED calls
      BY <2>4 DEF GuardDone
    <3>. QED BY <1>1, <1>3, <3>1 DEF Latest
  <2>5. CASE Execute \/ ExecuteDone \/ RecordSend \/ RecordReturn \/ RecordDone
    <3>1. pc \notin {"guard", "decide"} /\ pc' \notin {"guard", "decide"} /\ calls' = calls
      <4>1. CASE Execute
        BY <4>1 DEF Execute
      <4>. QED BY <2>5, <4>1 DEF ExecuteDone, RecordSend, RecordReturn, RecordDone
    <3>. QED BY <1>1, <3>1 DEF Latest
  <2>6. CASE \/ Dispatch \/ ThreadGivesUp \/ UNCHANGED vars
             \/ \E q \in wire : Accept(q) \/ Refuse(q)
    <3>1. UNCHANGED <<pc, calls, message, pos>>
      BY <2>6 DEF Dispatch, ThreadGivesUp, Accept, Refuse, vars, clientVars
    <3>. QED BY <1>1, <3>1 DEF Latest, Earlier
  <2>. QED BY <2>1, <2>2, <2>3, <2>4, <2>5, <2>6 DEF Next, ElementStep
<1>. QED BY <1>2, <1>3, <1>4

\* Only the server rules, and only when it takes a record.
LEMMA LogKept ==
    ASSUME [Next]_vars, ~\E q \in wire : Accept(q)
    PROVE  UNCHANGED <<log, ruled>>
<1>1. CASE Generate \/ GuardSend \/ GuardAnswer \/ GuardGiveUp \/ GuardDone
  BY <1>1 DEF Generate, GuardSend, GuardAnswer, GuardGiveUp, Decided, GuardDone, serverVars
<1>2. CASE Execute
  BY <1>2 DEF Execute, serverVars
<1>3. CASE ExecuteDone \/ RecordSend \/ RecordReturn \/ RecordDone
  BY <1>3 DEF ExecuteDone, RecordSend, RecordReturn, RecordDone, serverVars
<1>4. CASE \/ Dispatch \/ ThreadGivesUp \/ UNCHANGED vars \/ \E q \in wire : Refuse(q)
  BY <1>4 DEF Dispatch, ThreadGivesUp, Refuse, vars, serverVars
<1>. QED BY <1>1, <1>2, <1>3, <1>4 DEF Next, ElementStep

\* The server never rules twice on a call.
LEMMA RuledOnce ==
    ASSUME LoopInv, ChainInv, PreInv, NEW q \in wire, Accept(q), q.rec.phase = "pre"
    PROVE  ruled[q.rec.call] = "none"
<1>1. q \in Request /\ q.rec \in Rec /\ q.rec.call \in CallNumber /\ q.prev = log
  BY AcceptStep
<1>2. SUFFICES ASSUME NEW i \in 1..Len(log), log[i] = Pre(q.rec.call) PROVE FALSE
  BY <1>1 DEF PreInv
<1>3. log \in Seq(Rec) /\ Believed \in Seq(Rec)
  BY BelievedType DEF LoopInv, TypeOK
<1>4. /\ Len(log) < Len(Believed) /\ Believed[i] = log[i]
      /\ Believed[Len(log) + 1] = q.rec
  BY <1>1, <1>2, <1>3 DEF ChainInv, Along
<1>5. Believed[i] = Believed[Len(log) + 1]
  BY <1>1, <1>2, <1>4, PreOfRec
<1>6. i \in 1..Len(Believed) /\ Len(log) + 1 \in 1..Len(Believed) /\ i # Len(log) + 1
  BY <1>3, <1>4
<1>. QED BY <1>4, <1>5, <1>6 DEF PreInv

LEMMA RuledStays ==
    ASSUME LoopInv, ChainInv, PreInv, [Next]_vars,
           NEW n \in CallNumber, ruled[n] # "none"
    PROVE  ruled'[n] = ruled[n]
<1>1. CASE \E q \in wire : Accept(q)
  <2>1. PICK q \in wire : Accept(q)
    BY <1>1
  <2>2. CASE q.rec.phase = "pre"
    <3>1. ruled[q.rec.call] = "none" /\ q.rec.call \in CallNumber
      BY <2>1, <2>2, RuledOnce, AcceptStep
    <3>2. PICK verdict \in Ruling : ruled' = [ruled EXCEPT ![q.rec.call] = verdict]
      BY <2>1, <2>2, AcceptStep
    <3>. QED BY <3>1, <3>2 DEF LoopInv, TypeOK
  <2>3. CASE q.rec.phase # "pre"
    BY <2>1, <2>3, AcceptStep
  <2>. QED BY <2>2, <2>3
<1>2. CASE ~\E q \in wire : Accept(q)
  BY <1>2, LogKept
<1>. QED BY <1>1, <1>2

\* Positions of a sequence after an append.
LEMMA Appended ==
    ASSUME NEW S, NEW s \in Seq(S), NEW r \in S, NEW t, t = Append(s, r)
    PROVE  /\ t[Len(s) + 1] = r
           /\ \A i \in 1..Len(s) : t[i] = s[i]
           /\ \A i \in 1..Len(t) : i \in 1..Len(s) \/ i = Len(s) + 1
  OBVIOUS

LEMMA NextPre ==
    ASSUME LoopInv, ChainInv, PreInv, [Next]_vars
    PROVE  PreInv'
<1>1. Believed \in Seq(Rec) /\ log \in Seq(Rec)
  BY BelievedType DEF LoopInv, TypeOK
<1>2. /\ \A i, j \in 1..Len(Believed') :
            Believed'[i].phase = "pre" /\ Believed'[j] = Believed'[i] => i = j
      /\ \A i \in 1..Len(Believed') : Believed'[i].phase = "pre" => Believed'[i].call <= Latest'
  <2>0. \A i \in 1..Len(Believed) : Believed[i].phase = "pre" => Believed[i].call <= Latest'
    <3>1. SUFFICES ASSUME NEW i \in 1..Len(Believed), Believed[i].phase = "pre"
                   PROVE  Believed[i].call <= Latest'
      OBVIOUS
    <3>2. Believed[i].call \in Nat /\ Believed[i].call <= Latest
      BY <1>1, <3>1, RecType, ShieldGateAssumption DEF PreInv, CallNumber
    <3>. QED BY <3>2, LatestGrows
  <2>1. CASE GuardSend
    <3>1. Believed' = Append(Believed, Pre(Current.n)) /\ Pre(Current.n) \in Rec
      <4>1. PICK q \in Request : Believed' = Append(Believed, q.rec) /\ q.rec = Pre(Current.n)
        BY <2>1, GuardSends
      <4>. QED BY <4>1 DEF Request
    <3>2. /\ Pre(Current.n).call = Current.n
          /\ Current.n \in Nat /\ Current.n > Latest /\ Current.n <= Latest'
      <4>1. pc = "guard" /\ pc' = "decide" /\ pos <= Len(message) /\ UNCHANGED <<calls, message, pos>>
        BY <2>1 DEF GuardSend
      <4>2. Current.n \in CallNumber /\ Current.n = Earlier + pos
        BY <4>1, CurrentType
      <4>. QED BY <4>1, <4>2, ShieldGateAssumption
           DEF Pre, Latest, Earlier, CallNumber, LoopInv, TypeOK
    <3>3. \A i \in 1..Len(Believed) : Believed[i] # Pre(Current.n)
      <4>1. SUFFICES ASSUME NEW i \in 1..Len(Believed), Believed[i] = Pre(Current.n)
                     PROVE  FALSE
        OBVIOUS
      <4>2. Pre(Current.n).call <= Latest
        BY <4>1 DEF PreInv, Pre
      <4>. QED BY <3>2, <4>2, LatestGrows
    <3> DEFINE r == Pre(Current.n)
    <3> HIDE DEF r
    <3>4. /\ Believed' = Append(Believed, r) /\ r \in Rec
          /\ \A i \in 1..Len(Believed) : Believed[i] # r
          /\ r.call <= Latest'
      BY <3>1, <3>2, <3>3 DEF r
    <3>5. /\ Believed'[Len(Believed) + 1] = r
          /\ \A i \in 1..Len(Believed) : Believed'[i] = Believed[i]
          /\ \A i \in 1..Len(Believed') : i \in 1..Len(Believed) \/ i = Len(Believed) + 1
      BY <1>1, <3>4, Appended
    <3>6. \A i \in 1..Len(Believed') : Believed'[i].phase = "pre" => Believed'[i].call <= Latest'
      BY <2>0, <3>4, <3>5
    <3>7. \A i, j \in 1..Len(Believed') :
             Believed'[i].phase = "pre" /\ Believed'[j] = Believed'[i] => i = j
      BY <3>4, <3>5 DEF PreInv
    <3>. QED BY <3>6, <3>7
  <2>2. CASE RecordSend
    <3>1. PICK q \in Request : Believed' = Append(Believed, q.rec) /\ q.rec.phase = "post"
      BY <2>2, RecordSends
    <3>2. q.rec \in Rec
      BY DEF Request
    <3>3. /\ Believed'[Len(Believed) + 1] = q.rec
          /\ \A i \in 1..Len(Believed) : Believed'[i] = Believed[i]
          /\ \A i \in 1..Len(Believed') : i \in 1..Len(Believed) \/ i = Len(Believed) + 1
      BY <1>1, <3>1, <3>2, Appended
    <3>4. \A i \in 1..Len(Believed') : Believed'[i].phase = "pre" =>
             i \in 1..Len(Believed) /\ Believed'[i] = Believed[i]
      BY <3>1, <3>3
    <3>5. \A i \in 1..Len(Believed') : Believed'[i].phase = "pre" => Believed'[i].call <= Latest'
      BY <2>0, <3>4
    <3>6. \A i, j \in 1..Len(Believed') :
             Believed'[i].phase = "pre" /\ Believed'[j] = Believed'[i] => i = j
      BY <3>4, Zenon DEF PreInv
    <3>. QED BY <3>5, <3>6
  <2>3. CASE ~GuardSend /\ ~RecordSend
    BY <2>0, <2>3, BelievedKept DEF PreInv
  <2>. QED BY <2>1, <2>2, <2>3
<1>3. \A n \in CallNumber : ruled'[n] # "none" => \E i \in 1..Len(log') : log'[i] = Pre(n)
  <2>1. CASE \E q \in wire : Accept(q)
    <3>1. PICK q \in wire : Accept(q)
      BY <2>1
    <3>2. q.rec \in Rec /\ log' = Append(log, q.rec)
      BY <3>1, AcceptStep
    <3>3. /\ \A i \in 1..Len(log) : i \in 1..Len(log') /\ log'[i] = log[i]
          /\ Len(log) + 1 \in 1..Len(log') /\ log'[Len(log) + 1] = q.rec
      BY <1>1, <3>2
    <3>4. \A n \in CallNumber : ruled'[n] # ruled[n] => q.rec.phase = "pre" /\ n = q.rec.call
      <4>1. CASE q.rec.phase = "pre"
        BY <3>1, <4>1, AcceptStep DEF LoopInv, TypeOK
      <4>2. CASE q.rec.phase # "pre"
        BY <3>1, <4>2, AcceptStep
      <4>. QED BY <4>1, <4>2
    <3>5. SUFFICES ASSUME NEW n \in CallNumber, ruled'[n] # "none"
                   PROVE  \E i \in 1..Len(log') : log'[i] = Pre(n)
      OBVIOUS
    <3>6. CASE ruled'[n] = ruled[n]
      BY <3>3, <3>5, <3>6 DEF PreInv
    <3>7. CASE ruled'[n] # ruled[n]
      BY <3>2, <3>3, <3>4, <3>7, PreOfRec
    <3>. QED BY <3>6, <3>7
  <2>2. CASE ~\E q \in wire : Accept(q)
    BY <2>2, LogKept DEF PreInv
  <2>. QED BY <2>1, <2>2
<1>. QED BY <1>2, <1>3, Zenon DEF PreInv

LEMMA InitPre == Init => PreInv
BY DEF Init, PreInv, Believed

-----------------------------------------------------------------------------
\* The latest call the executor may have run.
Reached == IF pc \in {"guard", "decide"} THEN Earlier
           ELSE IF pc = "execute" THEN Earlier + pos - 1 ELSE calls

\* The environment has the effects of calls that were reached, a snapshot those
\* of earlier messages.
Effects ==
    /\ \A n \in ran \cup env : n <= Reached
    /\ \A snapshot \in restored : \A n \in snapshot : n <= Earlier
    /\ pc # "execute" => restored = {}

KeysOnce ==
    \A k, l \in 1..Len(decisions) : decisions[k].key = decisions[l].key => k = l

\* Whatever decision is under the key of a call the guard has been at is one it
\* made for that call.
DecisionOK(i, k) ==
    /\ \/ decisions[k].verdict = "BLOCK"
       \/ message[i].tool \notin Closed
       \/ decisions[k].verdict = ruled[message[i].n]
    /\ \A n \in decisions[k].snapshot : n <= Earlier

Made ==
    \A i \in 1..Len(message), k \in 1..Len(decisions) :
       Passed(i) /\ decisions[k].key = message[i].key => DecisionOK(i, k)

RolledBack(i, k) ==
    /\ decisions[k].key = message[i].key
    /\ message[i].tool \in Runtime
    /\ decisions[k].verdict = "ROLLBACK"

\* A ROLLBACK the executor has met holds a snapshot until the environment is
\* handed on, and the environment then has earlier effects only.
RollbackInv ==
    \A i \in 1..Len(message), k \in 1..Len(decisions) :
       RolledBack(i, k) =>
          /\ pc = "execute" /\ i < pos => restored # {}
          /\ pc \in {"record", "submit"} => \A n \in env : n <= Earlier

GateInv == Effects /\ KeysOnce /\ Made /\ ClosedToolsGated /\ RollbackInv

\* "none" lets no call run.
LEMMA RunsOnVerdict ==
    /\ ~MayRun("none")
    /\ ~MayRun("BLOCK")
    /\ ~MayRun("ROLLBACK")
BY DEF MayRun

LEMMA LoopNumbers ==
    ASSUME LoopInv
    PROVE  /\ calls \in Nat /\ pos \in Nat /\ Len(message) \in Nat
           /\ Earlier \in Nat /\ Earlier + Len(message) = calls
           /\ pos <= Len(message) + 1
           /\ \A i \in 1..Len(message) : message[i].n = Earlier + i
           /\ \A n \in ran \cup env : n \in Nat
           /\ \A snapshot \in restored : \A n \in snapshot : n \in Nat
           /\ \A i \in 1..Len(message) : message[i].n \in CallNumber
<1>1. /\ calls \in Nat /\ pos \in Nat /\ Len(message) \in Nat
      /\ Len(message) <= calls /\ pos <= Len(message) + 1
      /\ \A i \in 1..Len(message) : message[i].n = Earlier + i
  BY ShieldGateAssumption DEF LoopInv, TypeOK, ControlOK
<1>2. \A n \in ran \cup env : n \in Nat
  BY DEF LoopInv, TypeOK, CallNumber
<1>3. \A snapshot \in restored : \A n \in snapshot : n \in Nat
  BY DEF LoopInv, TypeOK, CallNumber
<1>4. \A i \in 1..Len(message) : message[i].n \in CallNumber
  <2>1. \A i \in 1..Len(message) : message[i] \in ToolCall
    BY DEF LoopInv, TypeOK
  <2>. QED BY <2>1 DEF ToolCall
<1>. QED BY <1>1, <1>2, <1>3, <1>4 DEF Earlier

LEMMA InitGate == Init => GateInv
BY DEF Init, GateInv, Effects, KeysOnce, Made, ClosedToolsGated, RollbackInv

\* A step that touches neither the loop nor the table: the server may rule, on a
\* call it has not ruled on.
LEMMA QuietGate ==
    ASSUME LoopInv, ChainInv, PreInv, GateInv, [Next]_vars,
           UNCHANGED <<message, calls, pos, decisions, env, restored, ran>>,
           \/ pc' = pc
           \/ /\ pc = "guard"
              /\ pc' = "decide"
           \/ /\ pc = "record"
              /\ pc' \in {"submit", "llm"}
    PROVE  GateInv'
<1>1. Effects' /\ KeysOnce'
  BY DEF GateInv, Effects, Reached, Earlier, KeysOnce
<1>2. \A i \in 1..Len(message) : message[i].n \in CallNumber
  BY LoopNumbers
<1>3. \A k \in 1..Len(decisions) : decisions[k].verdict # "none"
  <2>1. \A k \in 1..Len(decisions) : decisions[k] \in DecisionRec
    BY DEF LoopInv, TypeOK
  <2>. QED BY <2>1 DEF DecisionRec, Verdict
<1>4. Made'
  <2>1. SUFFICES ASSUME NEW i \in 1..Len(message), NEW k \in 1..Len(decisions),
                        Passed(i)', decisions[k].key = message[i].key
                 PROVE  DecisionOK(i, k)'
    BY Zenon DEF Made
  <2>2. DecisionOK(i, k)
    BY <2>1 DEF GateInv, Made, Passed
  <2>3. decisions[k].verdict = ruled[message[i].n] => decisions[k].verdict = ruled'[message[i].n]
    BY <1>2, <1>3, RuledStays
  <2>. QED BY <2>2, <2>3 DEF DecisionOK, Earlier
<1>5. ClosedToolsGated'
  <2>1. SUFFICES ASSUME NEW i \in 1..Len(message),
                        message[i].n \in ran, message[i].tool \in Closed
                 PROVE  MayRun(ruled'[message[i].n])
    BY Zenon DEF ClosedToolsGated
  <2>2. MayRun(ruled[message[i].n])
    BY <2>1 DEF GateInv, ClosedToolsGated
  <2>3. ruled[message[i].n] # "none"
    BY <2>2, RunsOnVerdict
  <2>4. ruled'[message[i].n] = ruled[message[i].n]
    BY <1>2, <2>3, RuledStays
  <2>. QED BY <2>2, <2>4
<1>6. RollbackInv'
  BY DEF GateInv, RollbackInv, RolledBack, Earlier
<1>. QED BY <1>1, <1>4, <1>5, <1>6 DEF GateInv

LEMMA GenerateGate ==
    ASSUME LoopInv, GateInv, Generate
    PROVE  GateInv'
<1>1. /\ pc = "llm" /\ pc' = "guard" /\ pos' = 1
      /\ UNCHANGED <<decisions, env, restored, ran, ruled>>
  BY DEF Generate, serverVars
<1>2. PICK len \in 1..MaxBatch :
         \E tools \in [1..len -> Tool], ids \in [1..len -> Id \cup {NoId}] :
            /\ message' = [i \in 1..len |->
                  [n |-> calls + i, tool |-> tools[i], key |-> ToolCallKey(ids[i], i)]]
            /\ calls' = calls + len
  BY DEF Generate
<1>3. /\ len \in Nat /\ Len(message') = len /\ calls' = calls + len
      /\ \A i \in 1..len : message'[i].n = calls + i
  BY <1>2, ShieldGateAssumption
<1>4. Earlier' = calls /\ calls \in Nat /\ pos' = 1
  BY <1>1, <1>3, LoopNumbers DEF Earlier
<1>5. \A n \in ran \cup env : n \in Nat /\ n <= calls
  BY <1>1, LoopNumbers DEF GateInv, Effects, Reached
<1>6. Effects'
  BY <1>1, <1>4, <1>5 DEF GateInv, Effects, Reached
<1>7. KeysOnce'
  BY <1>1 DEF GateInv, KeysOnce
<1>8. Made' /\ RollbackInv'
  BY <1>1, <1>3 DEF Made, Passed, RollbackInv
<1>9. ClosedToolsGated'
  BY <1>1, <1>3, <1>4, <1>5 DEF ClosedToolsGated
<1>. QED BY <1>6, <1>7, <1>8, <1>9 DEF GateInv

LEMMA DecidedGate ==
    ASSUME LoopInv, GateInv, pc = "decide",
           NEW verdict \in Verdict, NEW degraded \in BOOLEAN, Decided(verdict, degraded),
           \/ verdict = "BLOCK"
           \/ Current.tool \notin Closed
           \/ verdict = ruled[Current.n]
    PROVE  GateInv'
<1> DEFINE d == Filed(verdict, degraded)
<1>1. /\ d.key = message[pos].key /\ d.verdict = verdict /\ d.snapshot = env
  BY DEF Filed, Current
<1>2. /\ pc' = "guard" /\ pos' = pos + 1
      /\ UNCHANGED <<message, calls, env, restored, ran, ruled>>
  BY DEF Decided, serverVars
<1>3. /\ \A k \in 1..Len(decisions') :
            \/ decisions'[k] = d
            \/ /\ k \in 1..Len(decisions)
               /\ decisions'[k] = decisions[k]
               /\ decisions[k].key # d.key
      /\ \A k \in 1..Len(decisions) :
            k \in 1..Len(decisions') /\ decisions'[k].key = decisions[k].key
      /\ \A k \in 1..Len(decisions') :
            k \notin 1..Len(decisions) =>
               /\ \A l \in 1..Len(decisions) : decisions[l].key # d.key
               /\ k = Len(decisions) + 1
  BY DecidedTable
<1>4. pos \in 1..Len(message) /\ pos \in Nat
  BY DEF LoopInv, ControlOK, TypeOK
<1> HIDE DEF d
<1>5. Effects'
  BY <1>2, LoopNumbers DEF GateInv, Effects, Reached, Earlier
<1>6. KeysOnce'
  <2>1. SUFFICES ASSUME NEW k \in 1..Len(decisions'), NEW l \in 1..Len(decisions'),
                        decisions'[k].key = decisions'[l].key
                 PROVE  k = l
    BY Zenon DEF KeysOnce
  <2>2. CASE k \in 1..Len(decisions) /\ l \in 1..Len(decisions)
    BY <1>3, <2>1, <2>2, Zenon DEF GateInv, KeysOnce
  <2>3. CASE k \notin 1..Len(decisions) /\ l \notin 1..Len(decisions)
    BY <1>3, <2>3, Zenon
  <2>4. CASE k \in 1..Len(decisions) /\ l \notin 1..Len(decisions)
    <3>1. decisions'[l] = d /\ decisions[k].key # d.key /\ decisions'[k].key = decisions[k].key
      BY <1>3, <2>4, Zenon
    <3>. QED BY <2>1, <3>1
  <2>5. CASE k \notin 1..Len(decisions) /\ l \in 1..Len(decisions)
    <3>1. decisions'[k] = d /\ decisions[l].key # d.key /\ decisions'[l].key = decisions[l].key
      BY <1>3, <2>5, Zenon
    <3>. QED BY <2>1, <3>1
  <2>. QED BY <2>2, <2>3, <2>4, <2>5
<1>7. Made'
  <2>1. SUFFICES ASSUME NEW i \in 1..Len(message), NEW k \in 1..Len(decisions'),
                        i < pos + 1, decisions'[k].key = message[i].key
                 PROVE  DecisionOK(i, k)'
    BY <1>2, Zenon DEF Made, Passed
  <2>2. CASE decisions'[k] = d
    <3>1. i = pos
      BY <1>1, <1>4, <2>1, <2>2 DEF LoopInv, ControlOK
    <3>2. \A n \in env : n <= Earlier
      BY DEF GateInv, Effects, Reached
    <3>. QED BY <1>1, <1>2, <2>2, <3>1, <3>2 DEF DecisionOK, Earlier, Current
  <2>3. CASE /\ k \in 1..Len(decisions)
             /\ decisions'[k] = decisions[k]
             /\ decisions[k].key # d.key
    <3>1. i # pos
      BY <1>1, <2>1, <2>3
    <3>2. i < pos
      BY <1>4, <2>1, <3>1
    <3>3. DecisionOK(i, k)
      BY <2>1, <2>3, <3>2 DEF GateInv, Made, Passed
    <3>. QED BY <1>2, <2>3, <3>3 DEF DecisionOK, Earlier
  <2>. QED BY <1>3, <2>2, <2>3, Zenon
<1>8. ClosedToolsGated'
  BY <1>2 DEF GateInv, ClosedToolsGated
<1>9. RollbackInv'
  BY <1>2 DEF RollbackInv
<1>. QED BY <1>5, <1>6, <1>7, <1>8, <1>9 DEF GateInv

LEMMA GuardGate ==
    ASSUME LoopInv, GateInv, GuardAnswer \/ GuardGiveUp
    PROVE  GateInv'
<1>1. pc = "decide" /\ Current.n \in CallNumber /\ Current.tool \in Tool
  BY CurrentType DEF GuardAnswer, GuardGiveUp, LoopInv, ControlOK
<1>2. CASE GuardAnswer
  <2>1. ruled[Current.n] \in Verdict
    BY <1>1, <1>2, VerdictsGiven DEF GuardAnswer, LoopInv, AnswersRuled
  <2>. QED BY <1>1, <1>2, <2>1, DecidedGate DEF GuardAnswer
<1>3. CASE GuardGiveUp
  <2>1. Degraded(Current.tool) \in Verdict
    BY <1>1, VerdictsGiven
  <2>2. Degraded(Current.tool) = "BLOCK" \/ Current.tool \notin Closed
    BY DEF Degraded
  <2>. QED BY <1>1, <1>3, <2>1, <2>2, DecidedGate DEF GuardGiveUp
<1>. QED BY <1>2, <1>3

LEMMA GuardDoneGate ==
    ASSUME LoopInv, GateInv, GuardDone
    PROVE  GateInv'
<1>1. /\ pc = "guard" /\ pos > Len(message) /\ pc' = "execute" /\ pos' = 1
      /\ UNCHANGED <<message, calls, decisions, env, restored, ran, ruled>>
  BY DEF GuardDone, serverVars
<1>2. Effects'
  BY <1>1, LoopNumbers DEF GateInv, Effects, Reached, Earlier
<1>3. KeysOnce' /\ ClosedToolsGated'
  BY <1>1 DEF GateInv, KeysOnce, ClosedToolsGated
<1>4. Made'
  <2>1. \A i \in 1..Len(message) : Passed(i)
    BY <1>1, LoopNumbers DEF Passed
  <2>2. \A i \in 1..Len(message), k \in 1..Len(decisions) : DecisionOK(i, k) => DecisionOK(i, k)'
    BY <1>1 DEF DecisionOK, Earlier
  <2>. QED BY <1>1, <2>1, <2>2, Zenon DEF GateInv, Made
<1>5. RollbackInv'
  BY <1>1 DEF RollbackInv
<1>. QED BY <1>2, <1>3, <1>4, <1>5 DEF GateInv

\* A call that runs has been let through by the verdict on it.
LEMMA ExecuteGate ==
    ASSUME LoopInv, GateInv, Execute
    PROVE  GateInv'
<1> DEFINE at == DecisionOf(Current.key)
<1>1. /\ pc = "execute" /\ pos <= Len(message) /\ pos' = pos + 1
      /\ UNCHANGED <<message, calls, pc, decisions, ruled>>
  BY ExecuteStep
<1>2. /\ at \in 1..Len(decisions) /\ decisions[at].key = Current.key
  BY <1>1, ExecutedType
<1>3. \/ Current.tool \notin Runtime /\ UNCHANGED <<env, restored, ran>>
      \/ /\ Current.tool \in Runtime
         /\ MayRun(decisions[at].verdict)
         /\ env' = env \cup {Current.n}
         /\ ran' = ran \cup {Current.n}
         /\ UNCHANGED restored
      \/ /\ Current.tool \in Runtime
         /\ MayNotRun(decisions[at].verdict)
         /\ restored' = IF decisions[at].verdict = "ROLLBACK"
                        THEN {decisions[at].snapshot} ELSE restored
         /\ UNCHANGED <<env, ran>>
  BY ExecuteStep
<1> HIDE DEF at
<1>4. pos \in 1..Len(message) /\ Current = message[pos] /\ Current.n = Earlier + pos
  BY <1>1, CurrentType DEF LoopInv, ControlOK, Current
<1>5. DecisionOK(pos, at)
  BY <1>1, <1>2, <1>4 DEF GateInv, Made, Passed
<1>6. Earlier' = Earlier
  BY <1>1 DEF Earlier
<1>7. Effects'
  <2>1. \A n \in ran' \cup env' : n <= Earlier + pos
    <3>1. \A n \in ran \cup env : n \in Nat /\ n <= Earlier + pos - 1
      BY <1>1, LoopNumbers DEF GateInv, Effects, Reached
    <3>2. \A n \in ran' \cup env' : n \in ran \cup env \/ n = Earlier + pos
      BY <1>3, <1>4
    <3>3. Earlier \in Nat /\ pos \in Nat
      BY LoopNumbers
    <3>4. SUFFICES ASSUME NEW n \in ran' \cup env' PROVE n <= Earlier + pos
      OBVIOUS
    <3>5. CASE n \in ran \cup env
      BY <3>1, <3>3, <3>5
    <3>6. CASE n = Earlier + pos
      BY <3>3, <3>6
    <3>. QED BY <3>2, <3>5, <3>6, Zenon
  <2>2. \A snapshot \in restored' : \A n \in snapshot : n <= Earlier
    BY <1>3, <1>5 DEF GateInv, Effects, DecisionOK
  <2>3. Reached' = Earlier + pos
    BY <1>1, <1>6, LoopNumbers DEF Reached
  <2>. QED BY <1>1, <1>6, <2>1, <2>2, <2>3 DEF Effects
<1>8. KeysOnce'
  BY <1>1 DEF GateInv, KeysOnce
<1>9. Made'
  <2>1. \A i \in 1..Len(message), k \in 1..Len(decisions) : DecisionOK(i, k) => DecisionOK(i, k)'
    BY <1>1 DEF DecisionOK, Earlier
  <2>. QED BY <1>1, <2>1 DEF GateInv, Made, Passed
<1>10. ClosedToolsGated'
  <2>1. SUFFICES ASSUME NEW i \in 1..Len(message),
                        message[i].n \in ran', message[i].tool \in Closed
                 PROVE  MayRun(ruled[message[i].n])
    BY <1>1, Zenon DEF ClosedToolsGated
  <2>2. CASE message[i].n \in ran
    BY <2>1, <2>2 DEF GateInv, ClosedToolsGated
  <2>3. CASE message[i].n \notin ran
    <3>1. MayRun(decisions[at].verdict) /\ message[i].n = Earlier + pos
      BY <1>3, <1>4, <2>1, <2>3
    <3>2. i = pos
      <4>1. message[i].n = Earlier + i
        BY LoopNumbers
      <4>. QED BY <1>4, <3>1, <4>1, LoopNumbers
    <3>3. decisions[at].verdict = ruled[message[i].n]
      BY <1>5, <2>1, <3>1, <3>2, RunsOnVerdict DEF DecisionOK
    <3>. QED BY <3>1, <3>3
  <2>. QED BY <2>2, <2>3
<1>11. RollbackInv'
  <2>1. SUFFICES ASSUME NEW i \in 1..Len(message), NEW k \in 1..Len(decisions),
                        RolledBack(i, k), i < pos + 1
                 PROVE  restored' # {}
    BY <1>1, Zenon DEF RollbackInv, RolledBack
  <2>2. CASE i < pos
    <3>1. restored # {}
      BY <1>1, <2>1, <2>2 DEF GateInv, RollbackInv
    <3>. QED BY <1>3, <3>1
  <2>3. CASE i = pos
    <3>1. k = at
      BY <1>2, <1>4, <2>1, <2>3 DEF GateInv, KeysOnce, RolledBack
    <3>2. decisions[at].verdict = "ROLLBACK" /\ Current.tool \in Runtime
      BY <1>4, <2>1, <2>3, <3>1 DEF RolledBack
    <3>. QED BY <1>3, <3>2, RunsOnVerdict
  <2>. QED BY <1>4, <2>1, <2>2, <2>3, LoopNumbers
<1>. QED BY <1>7, <1>8, <1>9, <1>10, <1>11 DEF GateInv

LEMMA ExecuteDoneGate ==
    ASSUME LoopInv, GateInv, ExecuteDone
    PROVE  GateInv'
<1>1. /\ pc = "execute" /\ pos > Len(message) /\ pc' = "record" /\ restored' = {}
      /\ UNCHANGED <<message, calls, pos, decisions, ran, ruled>>
  BY DEF ExecuteDone, serverVars
<1>2. \/ restored = {} /\ env' = env
      \/ restored # {} /\ env' \in restored
  BY DEF ExecuteDone
<1>3. \A n \in ran \cup env : n \in Nat /\ n <= calls
  BY <1>1, LoopNumbers DEF GateInv, Effects, Reached
<1>4. restored # {} => \A n \in env' : n \in Nat /\ n <= Earlier
  BY <1>2, LoopNumbers DEF GateInv, Effects
<1>5. \A n \in env' : n <= calls
  BY <1>2, <1>3, <1>4, LoopNumbers
<1>6. Effects'
  BY <1>1, <1>3, <1>5 DEF Effects, Reached
<1>7. KeysOnce' /\ ClosedToolsGated'
  BY <1>1 DEF GateInv, KeysOnce, ClosedToolsGated
<1>8. Made'
  <2>1. \A i \in 1..Len(message), k \in 1..Len(decisions) : DecisionOK(i, k) => DecisionOK(i, k)'
    BY <1>1 DEF DecisionOK, Earlier
  <2>. QED BY <1>1, <2>1 DEF GateInv, Made, Passed
<1>9. RollbackInv'
  <2>1. SUFFICES ASSUME NEW i \in 1..Len(message), NEW k \in 1..Len(decisions),
                        RolledBack(i, k)
                 PROVE  \A n \in env' : n <= Earlier
    BY <1>1, Zenon DEF RollbackInv, RolledBack, Earlier
  <2>2. i < pos
    BY <1>1, LoopNumbers
  <2>. QED BY <1>1, <1>4, <2>1, <2>2 DEF GateInv, RollbackInv
<1>. QED BY <1>6, <1>7, <1>8, <1>9 DEF GateInv

LEMMA RecordReturnGate ==
    ASSUME LoopInv, GateInv, RecordReturn
    PROVE  GateInv'
<1>1. /\ pc = "submit" /\ pc' = "record"
      /\ UNCHANGED <<message, calls, pos, env, restored, ran, ruled>>
  BY DEF RecordReturn, serverVars
<1>2. /\ Len(decisions') = Len(decisions)
      /\ \A k \in 1..Len(decisions) :
            /\ decisions'[k].key = decisions[k].key
            /\ decisions'[k].verdict = decisions[k].verdict
            /\ decisions'[k].snapshot = decisions[k].snapshot
  BY TableKept
<1>3. Effects' /\ ClosedToolsGated'
  BY <1>1 DEF GateInv, Effects, Reached, Earlier, ClosedToolsGated
<1>4. KeysOnce'
  BY <1>2 DEF GateInv, KeysOnce
<1>5. Made'
  <2>1. \A i \in 1..Len(message), k \in 1..Len(decisions) : DecisionOK(i, k) => DecisionOK(i, k)'
    BY <1>1, <1>2 DEF DecisionOK, Earlier
  <2>2. \A i \in 1..Len(message) : Passed(i)
    BY <1>1 DEF Passed
  <2>. QED BY <1>1, <1>2, <2>1, <2>2 DEF GateInv, Made
<1>6. RollbackInv'
  BY <1>1, <1>2 DEF GateInv, RollbackInv, RolledBack, Earlier
<1>. QED BY <1>3, <1>4, <1>5, <1>6 DEF GateInv

LEMMA NextGate ==
    ASSUME LoopInv, ChainInv, PreInv, GateInv, [Next]_vars
    PROVE  GateInv'
<1>1. CASE GuardSend
  <2>1. /\ pc = "guard" /\ pc' = "decide"
        /\ UNCHANGED <<message, calls, pos, decisions, env, restored, ran>>
    BY <1>1 DEF GuardSend
  <2>. QED BY <2>1, QuietGate
<1>2. CASE RecordSend \/ RecordDone
  <2>1. /\ pc = "record" /\ pc' \in {"submit", "llm"}
        /\ UNCHANGED <<message, calls, pos, decisions, env, restored, ran>>
    BY <1>2 DEF RecordSend, RecordDone
  <2>. QED BY <2>1, QuietGate
<1>3. CASE \/ Dispatch \/ ThreadGivesUp \/ UNCHANGED vars
           \/ \E q \in wire : Accept(q) \/ Refuse(q)
  <2>1. UNCHANGED <<message, calls, pc, pos, decisions, env, restored, ran>>
    BY <1>3 DEF Dispatch, ThreadGivesUp, Accept, Refuse, vars, clientVars
  <2>. QED BY <2>1, QuietGate
<1>. QED BY <1>1, <1>2, <1>3, GenerateGate, GuardGate, GuardDoneGate, ExecuteGate,
            ExecuteDoneGate, RecordReturnGate DEF Next, ElementStep

LEMMA GateAlways == Spec => [](LoopInv /\ GateInv)
<1>1. Init => LoopInv /\ ChainInv /\ PreInv /\ GateInv
  BY InitLoop, InitChain, InitPre, InitGate
<1>2. LoopInv /\ ChainInv /\ PreInv /\ GateInv /\ [Next]_vars
         => (LoopInv /\ ChainInv /\ PreInv /\ GateInv)'
  BY NextLoop, NextChain, NextPre, NextGate
<1>. QED BY <1>1, <1>2, PTL DEF Spec

\* A tool that fails closed runs only on a verdict the server gave on that very
\* call (elements.py:109): a made-up verdict blocks it, a decision left under the
\* same key by an earlier message is replaced before the executor looks, and
\* the server never takes back a ruling.
THEOREM ClosedToolsStayGated == Spec => []ClosedToolsGated
<1>1. GateInv => ClosedToolsGated
  BY DEF GateInv
<1>. QED BY <1>1, GateAlways, PTL

\* A ROLLBACK undoes every effect of its message, of the calls before it and
\* after it (elements.py:375): the snapshot of every decision is older than the
\* message, and the environment handed on is the last snapshot put back.
THEOREM RollbackLeavesNothing == Spec => []RollbackUndoes
<1>1. LoopInv /\ GateInv => RollbackUndoes
  <2>1. SUFFICES ASSUME LoopInv, GateInv, pc = "record",
                        NEW i \in 1..Len(message), message[i].tool \in Runtime,
                        decisions[DecisionOf(message[i].key)].verdict = "ROLLBACK",
                        NEW j \in 1..Len(message), message[j].n \in env
                 PROVE  FALSE
    BY Zenon DEF RollbackUndoes
  <2>2. HasDecision(message[i].key)
    BY <2>1 DEF LoopInv, PassedDecided, Passed
  <2>3. /\ DecisionOf(message[i].key) \in 1..Len(decisions)
        /\ decisions[DecisionOf(message[i].key)].key = message[i].key
    BY <2>1, <2>2, DecisionOfType DEF HasDecision, LoopInv
  <2>4. \A n \in env : n <= Earlier
    BY <2>1, <2>3 DEF GateInv, RollbackInv, RolledBack
  <2>5. message[j].n = Earlier + j /\ Earlier \in Nat /\ j \in Nat /\ j > 0
    BY <2>1, LoopNumbers
  <2>. QED BY <2>1, <2>4, <2>5
<1>. QED BY <1>1, GateAlways, PTL
=============================================================================
