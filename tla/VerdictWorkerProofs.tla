------------------------- MODULE VerdictWorkerProofs -------------------------
(***************************************************************************)
(* Whatever the transport, the groups and the number of workers: entries   *)
(* are acknowledged only of judged records, and late rows, their objects   *)
(* and the stream of verdicts agree.                                       *)
(***************************************************************************)
EXTENDS VerdictWorker, FiniteSetTheorems, SequenceTheorems, TLAPS

Busy == {"check", "guard", "recheck", "put", "insert", "fan", "ack"}

Decided == {"PASS", "BLOCK"}

\* What a worker knows of the entry it is busy with.
Knows(w) ==
    /\ worker[w].pc \in Busy => worker[w].batch # <<>> /\ Current(w) \notin Poison
    /\ worker[w].pc \in {"recheck", "put", "insert"} => worker[w].decision \in Decided
    /\ worker[w].pc \in {"put", "insert", "fan"} => Current(w) \notin Gated
    /\ worker[w].pc \in {"insert", "fan"} => Current(w) \in objects
    /\ worker[w].pc = "fan" => late[Current(w)] # <<>>
    /\ worker[w].pc = "ack" => AlreadyPublished(Current(w))

InBatch(w) == \A i \in 1..Len(worker[w].batch) : worker[w].batch[i] \in 1..Len(entries)

WorkersKnow == \A w \in Worker : Knows(w) /\ InBatch(w)

AckedOnStream == \A r \in Reader : acked[r] \subseteq 1..Len(entries)

LateBacked == \A rec \in Record : late[rec] # <<>> => rec \in objects \ Gated

WorkerInv == TypeOK /\ WorkersKnow /\ AckedOnStream /\ AckedIsJudged /\ LateBacked

-----------------------------------------------------------------------------
\* A worker that is busy has an entry of the stream in hand.
LEMMA CurrentType ==
    ASSUME TypeOK, WorkersKnow, NEW w \in Worker, worker[w].pc \in Busy
    PROVE  /\ Position(w) \in 1..Len(entries)
           /\ Position(w) \in Nat
           /\ Current(w) \in Record \ Poison
           /\ Tail(worker[w].batch) \in Seq(Nat)
           /\ Len(Tail(worker[w].batch)) = Len(worker[w].batch) - 1
           /\ \A i \in 1..Len(Tail(worker[w].batch)) :
                 Tail(worker[w].batch)[i] = worker[w].batch[i + 1]
<1> DEFINE b == worker[w].batch
<1>1. b \in Seq(Nat) /\ b # <<>> /\ entries \in Seq(Record)
  BY DEF TypeOK, WorkersKnow, Knows
<1>2. Len(b) \in Nat /\ Len(b) > 0 /\ Head(b) = b[1]
  BY <1>1
<1>3. Position(w) = b[1] /\ b[1] \in 1..Len(entries)
  BY <1>2 DEF Position, WorkersKnow, InBatch
<1>4. entries[b[1]] \in Record
  BY <1>1, <1>3
<1>5. /\ Tail(b) \in Seq(Nat)
      /\ Len(Tail(b)) = Len(b) - 1
      /\ \A i \in 1..Len(Tail(b)) : Tail(b)[i] = b[i + 1]
  BY <1>1, HeadTailProperties
<1>6. Current(w) \notin Poison
  BY DEF WorkersKnow, Knows
<1>. QED BY <1>1, <1>3, <1>4, <1>5, <1>6 DEF Current

\* What a worker knows lasts while entries, objects and late rows only grow.
LEMMA KnowledgeLasts ==
    ASSUME TypeOK, TypeOK', WorkersKnow, NEW w \in Worker, worker'[w] = worker[w],
           Len(entries) <= Len(entries'),
           \A i \in 1..Len(entries) : entries'[i] = entries[i],
           objects \subseteq objects',
           \A rec \in Record : late[rec] # <<>> => late'[rec] # <<>>
    PROVE  Knows(w)' /\ InBatch(w)'
<1>1. InBatch(w)'
  <2>1. Len(entries) \in Nat /\ Len(entries') \in Nat
    BY DEF TypeOK
  <2>. QED BY <2>1 DEF WorkersKnow, InBatch
<1>2. CASE worker[w].pc \in Busy
  <2>1. Current(w)' = Current(w) /\ Current(w) \in Record
    BY <1>2, CurrentType DEF Current, Position
  <2>. QED BY <1>1, <2>1 DEF WorkersKnow, Knows, AlreadyPublished
<1>3. CASE worker[w].pc \notin Busy
  BY <1>1, <1>3 DEF Knows, Busy
<1>. QED BY <1>2, <1>3

\* The workers that are not stepping keep what they know.
LEMMA OthersKnow ==
    ASSUME TypeOK, TypeOK', WorkersKnow, NEW w \in Worker,
           \A v \in Worker \ {w} : worker'[v] = worker[v],
           Len(entries) <= Len(entries'),
           \A i \in 1..Len(entries) : entries'[i] = entries[i],
           objects \subseteq objects',
           \A rec \in Record : late[rec] # <<>> => late'[rec] # <<>>,
           Knows(w)', InBatch(w)'
    PROVE  WorkersKnow'
<1> SUFFICES ASSUME NEW v \in Worker, v # w
             PROVE  Knows(v)' /\ InBatch(v)'
  BY DEF WorkersKnow
<1>. QED BY KnowledgeLasts

\* A process that has just started: empty stores, and workers with nothing to do.
JustStarted ==
    /\ entries = <<>>
    /\ cursor = [r \in Reader |-> 0]
    /\ acked = [r \in Reader |-> {}]
    /\ late = [rec \in Record |-> <<>>]
    /\ objects = {}
    /\ published = [rec \in Record |-> 0]
    /\ keyLive = TRUE
    /\ worker = [w \in Worker |-> NewWorker]
    /\ crashes \in Nat

LEMMA StartedInv == JustStarted => WorkerInv
<1> SUFFICES ASSUME JustStarted PROVE WorkerInv
  OBVIOUS
<1>1. TypeOK
  BY DEF JustStarted, NewWorker, TypeOK, Steps
<1>2. WorkersKnow
  BY DEF JustStarted, NewWorker, WorkersKnow, Knows, InBatch, Busy
<1>3. AckedOnStream /\ AckedIsJudged /\ LateBacked
  BY DEF JustStarted, AckedOnStream, AckedIsJudged, LateBacked
<1>. QED BY <1>1, <1>2, <1>3 DEF WorkerInv

LEMMA InitStarts == Init => JustStarted
BY DEF Init, JustStarted

LEMMA DeathStarts == TypeOK /\ ProcessDies => JustStarted'
BY VerdictWorkerAssumption DEF TypeOK, ProcessDies, JustStarted

LEMMA InitInv == Init => WorkerInv
BY StartedInv, InitStarts

\* A step that changes neither stream, acknowledgements, rows nor objects keeps
\* what is said of them.
LEMMA StoreKept ==
    ASSUME AckedOnStream, AckedIsJudged, LateBacked,
           UNCHANGED <<entries, acked, late, objects>>
    PROVE  AckedOnStream' /\ AckedIsJudged' /\ LateBacked'
BY DEF AckedOnStream, AckedIsJudged, LateBacked, AlreadyPublished

LEMMA PublishInv ==
    ASSUME WorkerInv, NEW rec \in Record, Publish(rec)
    PROVE  WorkerInv'
<1>1. /\ entries \in Seq(Record)
      /\ entries' = Append(entries, rec)
      /\ Len(entries) \in Nat
      /\ Len(entries') = Len(entries) + 1
      /\ \A i \in 1..Len(entries) : entries'[i] = entries[i]
  BY DEF WorkerInv, TypeOK, Publish
<1>2. TypeOK'
  BY <1>1 DEF WorkerInv, TypeOK, Publish, verdictVars
<1>3. WorkersKnow'
  <2> SUFFICES ASSUME NEW v \in Worker PROVE Knows(v)' /\ InBatch(v)'
    BY DEF WorkersKnow
  <2>. QED BY <1>1, <1>2, KnowledgeLasts DEF WorkerInv, Publish, verdictVars
<1>4. AckedOnStream'
  BY <1>1 DEF WorkerInv, AckedOnStream, Publish
<1>5. AckedIsJudged'
  BY <1>1 DEF WorkerInv, AckedOnStream, AckedIsJudged, AlreadyPublished, Publish, verdictVars
<1>6. LateBacked'
  BY DEF WorkerInv, LateBacked, Publish, verdictVars
<1>. QED BY <1>2, <1>3, <1>4, <1>5, <1>6 DEF WorkerInv

\* A worker that goes on keeps its batch, and leaves the others alone.
Workers == [pc : Steps, batch : Seq(Nat), decision : {"none", "PASS", "BLOCK"}]

Moves(w, x) ==
    /\ worker' \in [Worker -> Workers]
    /\ worker' = [worker EXCEPT ![w] = worker'[w]]
    /\ \A v \in Worker \ {w} : worker'[v] = worker[v]
    /\ worker'[w] = x

LEMMA MovesTo ==
    ASSUME TypeOK, NEW w \in Worker, NEW x \in Workers, worker' = [worker EXCEPT ![w] = x]
    PROVE  Moves(w, x)
<1>1. worker \in [Worker -> Workers]
  BY DEF TypeOK, Workers
<1> HIDE DEF Workers
<1>. QED BY <1>1 DEF Moves

LEMMA GoesTo ==
    ASSUME TypeOK, NEW w \in Worker, NEW pc \in Steps, Goto(w, pc)
    PROVE  \E x : /\ Moves(w, x)
                  /\ x.pc = pc /\ x.batch = worker[w].batch /\ x.decision = worker[w].decision
<1> DEFINE x == [worker[w] EXCEPT !.pc = pc]
<1>1. worker' = [worker EXCEPT ![w] = x]
  BY DEF Goto
<1>2. worker[w] \in Workers
  BY DEF TypeOK, Workers
<1>3. /\ x \in Workers
      /\ x.pc = pc /\ x.batch = worker[w].batch /\ x.decision = worker[w].decision
  BY <1>2 DEF Workers
<1> HIDE DEF x
<1>. QED BY <1>1, <1>3, MovesTo

\* A step that leaves all but the worker alone.
LEMMA MovesTyped ==
    ASSUME TypeOK, NEW w, NEW x, Moves(w, x),
           UNCHANGED <<entries, cursor, acked, late, objects, published, keyLive, crashes>>
    PROVE  TypeOK'
BY DEF TypeOK, Moves, Workers

LEMMA MovesKnow ==
    ASSUME WorkerInv, NEW w \in Worker, NEW x, Moves(w, x), TypeOK',
           UNCHANGED <<entries, acked, late, objects>>,
           Knows(w)', InBatch(w)'
    PROVE  WorkerInv'
<1>1. /\ Len(entries) <= Len(entries')
      /\ \A i \in 1..Len(entries) : entries'[i] = entries[i]
      /\ objects \subseteq objects'
      /\ \A rec \in Record : late[rec] # <<>> => late'[rec] # <<>>
      /\ \A v \in Worker \ {w} : worker'[v] = worker[v]
  BY DEF WorkerInv, TypeOK, Moves
<1>2. WorkersKnow'
  BY <1>1, OthersKnow DEF WorkerInv
<1>. QED BY <1>2, StoreKept DEF WorkerInv

\* The entries delivered lie on the stream.
LEMMA ReadInv ==
    ASSUME WorkerInv, NEW w \in Worker, Read(w)
    PROVE  WorkerInv'
<1> DEFINE from == cursor[ReaderOf(w)] + 1
           upto == IF Len(entries) < from + BatchSize - 1 THEN Len(entries)
                   ELSE from + BatchSize - 1
           batch == [i \in 1..(upto - from + 1) |-> from + i - 1]
<1>1. ReaderOf(w) \in Reader
  BY DEF ReaderOf, Reader
<1>2. from \in Nat /\ from >= 1 /\ Len(entries) \in Nat /\ BatchSize \in Nat
  BY <1>1, VerdictWorkerAssumption DEF WorkerInv, TypeOK
<1>3. upto \in Nat /\ upto <= Len(entries) /\ from <= upto
  BY <1>2 DEF Read
<1>4. worker' = [worker EXCEPT ![w] = [pc |-> "next", batch |-> batch,
                                       decision |-> "none"]]
  BY DEF Read
<1>5. cursor' = [cursor EXCEPT ![ReaderOf(w)] = upto]
  BY DEF Read
<1>6. UNCHANGED <<entries, acked, late, objects, published, keyLive, crashes>>
  BY DEF Read, verdictVars
<1> HIDE DEF from, upto
<1>7. /\ batch \in Seq(Nat)
      /\ Len(batch) = upto - from + 1
      /\ \A i \in 1..Len(batch) : batch[i] \in 1..Len(entries)
  BY <1>2, <1>3
<1> HIDE DEF batch
<1> DEFINE x == [pc |-> "next", batch |-> batch, decision |-> "none"]
<1>8. /\ x \in Workers
      /\ x.pc = "next" /\ x.batch = batch
  BY <1>7 DEF Workers, Steps
<1> HIDE DEF x
<1>9. Moves(w, x)
  BY <1>4, <1>8, MovesTo DEF x, WorkerInv
<1>10. TypeOK'
  BY <1>1, <1>3, <1>5, <1>6, <1>9 DEF WorkerInv, TypeOK, Moves, Workers
<1>11. Knows(w)' /\ InBatch(w)'
  BY <1>6, <1>7, <1>8, <1>9 DEF Moves, Knows, InBatch, Busy
<1>. QED BY <1>6, <1>9, <1>10, <1>11, MovesKnow

\* A worker that stops, or starts, or takes up its next entry.
LEMMA TakeInv ==
    ASSUME WorkerInv, NEW w \in Worker, Take(w)
    PROVE  WorkerInv'
<1> DEFINE b == worker[w].batch
<1>0. \A pc \in Steps : Goto(w, pc) =>
        \E x : /\ Moves(w, x)
               /\ x.pc = pc /\ x.batch = worker[w].batch /\ x.decision = worker[w].decision
  BY GoesTo DEF WorkerInv
<1>1. UNCHANGED <<entries, cursor, acked, late, objects, published, keyLive, crashes>>
  BY DEF Take, streamVars, verdictVars
<1>2. b \in Seq(Nat) /\ worker[w].pc = "next"
  BY DEF WorkerInv, TypeOK, Take
<1>3. CASE b = <<>>
  <2>1. Goto(w, "idle") /\ "idle" \in Steps
    BY <1>3 DEF Take, Steps
  <2>2. PICK x : Moves(w, x) /\ x.pc = "idle" /\ x.batch = b
    BY <1>0, <2>1, Zenon
  <2>3. TypeOK'
    BY <1>1, <2>2, MovesTyped DEF WorkerInv
  <2>4. Knows(w)' /\ InBatch(w)'
    BY <1>1, <2>2 DEF Moves, WorkerInv, WorkersKnow, Knows, InBatch, Busy
  <2>. QED BY <1>1, <2>2, <2>3, <2>4, MovesKnow
<1>4. CASE b # <<>> /\ Current(w) \in Poison
  <2>1. worker' = [worker EXCEPT ![w].batch = Tail(@)]
    BY <1>4 DEF Take
  <2>2. /\ Tail(b) \in Seq(Nat)
        /\ Len(Tail(b)) = Len(b) - 1
        /\ Len(b) \in Nat
        /\ \A i \in 1..Len(Tail(b)) : Tail(b)[i] = b[i + 1]
    BY <1>2, <1>4, HeadTailProperties
  <2> DEFINE x == [worker[w] EXCEPT !.batch = Tail(b)]
  <2>3. worker' = [worker EXCEPT ![w] = x]
    BY <2>1
  <2>4. x \in Workers /\ x.batch = Tail(b) /\ x.pc = "next"
    <3>1. worker[w] \in Workers
      BY DEF WorkerInv, TypeOK, Workers
    <3>. QED BY <1>2, <2>2, <3>1 DEF Workers
  <2> HIDE DEF x
  <2>5. Moves(w, x)
    BY <2>3, <2>4, MovesTo DEF WorkerInv
  <2>6. TypeOK'
    BY <1>1, <2>5, MovesTyped DEF WorkerInv
  <2>7. InBatch(w)'
    <3>1. \A i \in 1..Len(b) : b[i] \in 1..Len(entries)
      BY DEF WorkerInv, WorkersKnow, InBatch
    <3>2. \A i \in 1..Len(Tail(b)) : i + 1 \in 1..Len(b)
      BY <2>2
    <3>3. \A i \in 1..Len(Tail(b)) : Tail(b)[i] \in 1..Len(entries)
      BY <2>2, <3>1, <3>2
    <3>4. worker'[w].batch = Tail(b) /\ entries' = entries
      BY <1>1, <2>4, <2>5 DEF Moves
    <3> HIDE DEF b
    <3>. QED BY <3>3, <3>4 DEF InBatch
  <2>8. Knows(w)'
    BY <2>4, <2>5 DEF Moves, Knows, Busy
  <2>. QED BY <1>1, <2>5, <2>6, <2>7, <2>8, MovesKnow
<1>5. CASE b # <<>> /\ Current(w) \notin Poison
  <2>1. Goto(w, "check") /\ "check" \in Steps
    BY <1>5 DEF Take, Steps
  <2>2. PICK x : Moves(w, x) /\ x.pc = "check" /\ x.batch = b
    BY <1>0, <2>1, Zenon
  <2>3. TypeOK'
    BY <1>1, <2>2, MovesTyped DEF WorkerInv
  <2>4. InBatch(w)'
    BY <1>1, <2>2 DEF Moves, WorkerInv, WorkersKnow, InBatch
  <2>5. Knows(w)'
    BY <1>1, <1>5, <2>2 DEF Moves, Knows, Busy, Current, Position
  <2>. QED BY <1>1, <2>2, <2>3, <2>4, <2>5, MovesKnow
<1>. QED BY <1>3, <1>4, <1>5

\* A step of a busy worker that leaves its batch and the store alone.
LEMMA GotoInv ==
    ASSUME WorkerInv, NEW w \in Worker, worker[w].pc \in Busy, NEW x, Moves(w, x),
           x.batch = worker[w].batch,
           UNCHANGED <<entries, cursor, acked, late, objects, published, keyLive, crashes>>,
           x.pc \in {"recheck", "put", "insert"} => x.decision \in Decided,
           x.pc \in {"put", "insert", "fan"} => Current(w) \notin Gated,
           x.pc \in {"insert", "fan"} => Current(w) \in objects,
           x.pc = "fan" => late[Current(w)] # <<>>,
           x.pc = "ack" => AlreadyPublished(Current(w))
    PROVE  WorkerInv'
<1>1. worker'[w] = x
  BY DEF Moves
<1>2. Current(w)' = Current(w)
  BY <1>1 DEF Current, Position
<1>3. worker[w].batch # <<>> /\ Current(w) \notin Poison
  BY DEF WorkerInv, WorkersKnow, Knows
<1>4. Knows(w)'
  BY <1>1, <1>2, <1>3 DEF Knows, AlreadyPublished
<1>5. InBatch(w)'
  BY <1>1 DEF WorkerInv, WorkersKnow, InBatch
<1>6. TypeOK'
  BY MovesTyped DEF WorkerInv
<1>. QED BY <1>4, <1>5, <1>6, MovesKnow

LEMMA CheckInv ==
    ASSUME WorkerInv, NEW w \in Worker, Check(w) \/ Judge(w) \/ Recheck(w)
    PROVE  WorkerInv'
<1>0. \A pc \in Steps : Goto(w, pc) =>
        \E x : /\ Moves(w, x)
               /\ x.pc = pc /\ x.batch = worker[w].batch /\ x.decision = worker[w].decision
  BY GoesTo DEF WorkerInv
<1>1. UNCHANGED <<entries, cursor, acked, late, objects, published, keyLive, crashes>>
  BY DEF Check, Judge, Recheck, streamVars, verdictVars
<1>2. CASE Check(w)
  <2> DEFINE pc == IF AlreadyPublished(Current(w)) THEN "ack" ELSE "guard"
  <2>1. worker[w].pc = "check" /\ Goto(w, pc)
    BY <1>2 DEF Check
  <2>2. /\ pc \in Steps /\ pc \in {"ack", "guard"}
        /\ pc = "ack" => AlreadyPublished(Current(w))
    BY DEF Steps
  <2> HIDE DEF pc
  <2>3. PICK x : Moves(w, x) /\ x.pc = pc /\ x.batch = worker[w].batch
    BY <1>0, <2>1, <2>2, Zenon
  <2>4. worker[w].pc \in Busy
    BY <2>1 DEF Busy
  <2>. QED BY <1>1, <2>2, <2>3, <2>4, GotoInv
<1>3. CASE Judge(w)
  <2> DEFINE d == IF keyLive THEN "PASS" ELSE "BLOCK"
  <2> DEFINE x == [worker[w] EXCEPT !.pc = "recheck", !.decision = d]
  <2>1. worker[w].pc = "guard" /\ worker' = [worker EXCEPT ![w] = x]
    BY <1>3 DEF Judge
  <2>2. d \in Decided /\ d \in {"none", "PASS", "BLOCK"}
    BY DEF Decided
  <2> HIDE DEF d
  <2>3. /\ x \in Workers
        /\ x.pc = "recheck" /\ x.batch = worker[w].batch /\ x.decision = d
    <3>1. worker[w] \in Workers
      BY DEF WorkerInv, TypeOK, Workers
    <3>. QED BY <2>2, <3>1 DEF Workers, Steps
  <2> HIDE DEF x
  <2>4. Moves(w, x)
    BY <2>1, <2>3, MovesTo DEF WorkerInv
  <2>5. worker[w].pc \in Busy
    BY <2>1 DEF Busy
  <2>. QED BY <1>1, <2>2, <2>3, <2>4, <2>5, GotoInv
<1>4. CASE Recheck(w)
  <2> DEFINE pc == IF AlreadyPublished(Current(w)) THEN "ack" ELSE "put"
  <2>1. worker[w].pc = "recheck" /\ Goto(w, pc)
    BY <1>4 DEF Recheck
  <2>2. /\ pc \in Steps /\ pc \in {"ack", "put"}
        /\ pc = "ack" => AlreadyPublished(Current(w))
        /\ pc = "put" => Current(w) \notin Gated
    BY DEF Steps, AlreadyPublished
  <2>3. worker[w].decision \in Decided
    BY <2>1 DEF WorkerInv, WorkersKnow, Knows
  <2> HIDE DEF pc
  <2>4. PICK x : /\ Moves(w, x)
                 /\ x.pc = pc /\ x.batch = worker[w].batch /\ x.decision = worker[w].decision
    BY <1>0, <2>1, <2>2, Zenon
  <2>5. worker[w].pc \in Busy
    BY <2>1 DEF Busy
  <2>. QED BY <1>1, <2>2, <2>3, <2>4, <2>5, GotoInv
<1>. QED BY <1>2, <1>3, <1>4

\* The verdict is stored as object, row and stream entry in this order.
LEMMA StoreInv ==
    ASSUME WorkerInv, NEW w \in Worker, PutVerdict(w) \/ InsertVerdict(w) \/ FanVerdict(w)
    PROVE  WorkerInv'
<1> DEFINE c == Current(w)
<1>0. \A pc \in Steps : Goto(w, pc) =>
        \E x : /\ Moves(w, x)
               /\ x.pc = pc /\ x.batch = worker[w].batch /\ x.decision = worker[w].decision
  BY GoesTo DEF WorkerInv
<1>1. worker[w].pc \in Busy /\ c \in Record /\ c \notin Gated
  <2>1. worker[w].pc \in {"put", "insert", "fan"}
    BY DEF PutVerdict, InsertVerdict, FanVerdict
  <2>. QED BY <2>1, CurrentType DEF WorkerInv, WorkersKnow, Knows, Busy
<1>2. ASSUME NEW pc \in {"insert", "fan", "ack"}, Goto(w, pc)
      PROVE  /\ worker'[w].pc = pc
             /\ worker'[w].batch = worker[w].batch
             /\ worker'[w].decision = worker[w].decision
             /\ worker' \in [Worker -> [pc : Steps, batch : Seq(Nat),
                                        decision : {"none", "PASS", "BLOCK"}]]
             /\ \A v \in Worker \ {w} : worker'[v] = worker[v]
  <2>1. pc \in Steps
    BY DEF Steps
  <2>2. PICK x : /\ Moves(w, x)
                 /\ x.pc = pc /\ x.batch = worker[w].batch /\ x.decision = worker[w].decision
    BY <1>0, <1>2, <2>1, Zenon
  <2>. QED BY <2>2 DEF Moves, Workers
<1>3. CASE PutVerdict(w)
  <2>1. /\ Goto(w, "insert") /\ worker[w].pc = "put"
        /\ objects' = objects \cup {c}
        /\ UNCHANGED <<entries, cursor, acked, late, published, keyLive, crashes>>
    BY <1>3 DEF PutVerdict, streamVars
  <2>2. TypeOK'
    BY <1>1, <1>2, <2>1 DEF WorkerInv, TypeOK
  <2>3. Knows(w)' /\ InBatch(w)'
    BY <1>1, <1>2, <2>1
    DEF WorkerInv, WorkersKnow, Knows, InBatch, Current, Position, Busy
  <2>4. WorkersKnow'
    BY <1>2, <2>1, <2>2, <2>3, OthersKnow DEF WorkerInv, TypeOK
  <2>5. AckedOnStream' /\ AckedIsJudged' /\ LateBacked'
    BY <2>1 DEF WorkerInv, AckedOnStream, AckedIsJudged, LateBacked, AlreadyPublished
  <2>. QED BY <2>2, <2>4, <2>5 DEF WorkerInv
<1>4. CASE InsertVerdict(w)
  <2>1. /\ Goto(w, "fan") /\ worker[w].pc = "insert"
        /\ late' = [late EXCEPT ![c] = Append(@, worker[w].decision)]
        /\ UNCHANGED <<entries, cursor, acked, objects, published, keyLive, crashes>>
    BY <1>4 DEF InsertVerdict, streamVars
  <2>2. worker[w].decision \in {"PASS", "BLOCK"} /\ c \in objects
    BY <2>1 DEF WorkerInv, WorkersKnow, Knows, Decided
  <2>3. late[c] \in Seq({"PASS", "BLOCK"})
    BY <1>1 DEF WorkerInv, TypeOK
  <2>4. /\ Append(late[c], worker[w].decision) \in Seq({"PASS", "BLOCK"})
        /\ Append(late[c], worker[w].decision) # <<>>
    BY <2>2, <2>3
  <2>5. /\ late' \in [Record -> Seq({"PASS", "BLOCK"})]
        /\ late'[c] # <<>>
        /\ \A rec \in Record \ {c} : late'[rec] = late[rec]
    BY <1>1, <2>1, <2>4 DEF WorkerInv, TypeOK
  <2>6. TypeOK'
    BY <1>2, <2>1, <2>5 DEF WorkerInv, TypeOK
  <2>7. Knows(w)' /\ InBatch(w)'
    BY <1>1, <1>2, <2>1, <2>2, <2>5
    DEF WorkerInv, WorkersKnow, Knows, InBatch, Current, Position, Busy
  <2>8. \A rec \in Record : late[rec] # <<>> => late'[rec] # <<>>
    BY <2>5
  <2>9. WorkersKnow'
    <3>1. /\ Len(entries) <= Len(entries')
          /\ \A i \in 1..Len(entries) : entries'[i] = entries[i]
          /\ objects \subseteq objects'
      BY <2>1 DEF WorkerInv, TypeOK
    <3>2. \A v \in Worker \ {w} : worker'[v] = worker[v]
      BY <1>2, <2>1
    <3>. QED BY <2>6, <2>7, <2>8, <3>1, <3>2, OthersKnow DEF WorkerInv
  <2>10. AckedOnStream'
    BY <2>1 DEF WorkerInv, AckedOnStream
  <2>11. AckedIsJudged'
    <3>1. \A r \in Reader : \A k \in acked[r] : entries[k] \in Record
      BY DEF WorkerInv, AckedOnStream, TypeOK
    <3>. QED BY <2>1, <2>8, <3>1 DEF WorkerInv, AckedIsJudged, AlreadyPublished
  <2>12. LateBacked'
    BY <1>1, <2>1, <2>2, <2>5 DEF WorkerInv, LateBacked
  <2>. QED BY <2>6, <2>9, <2>10, <2>11, <2>12 DEF WorkerInv
<1>5. CASE FanVerdict(w)
  <2>1. /\ Goto(w, "ack") /\ worker[w].pc = "fan"
        /\ published' = [published EXCEPT ![c] = @ + 1]
        /\ UNCHANGED <<entries, cursor, acked, late, objects, keyLive, crashes>>
    BY <1>5 DEF FanVerdict, streamVars
  <2>2. TypeOK'
    BY <1>1, <1>2, <2>1 DEF WorkerInv, TypeOK
  <2>3. Knows(w)' /\ InBatch(w)'
    BY <1>1, <1>2, <2>1
    DEF WorkerInv, WorkersKnow, Knows, InBatch, Current, Position, Busy, AlreadyPublished
  <2>4. WorkersKnow'
    BY <1>2, <2>1, <2>2, <2>3, OthersKnow DEF WorkerInv, TypeOK
  <2>. QED BY <2>1, <2>2, <2>4, StoreKept DEF WorkerInv
<1>. QED BY <1>3, <1>4, <1>5

\* What is acknowledged is the entry in hand, which has been judged.
LEMMA AckInv ==
    ASSUME WorkerInv, NEW w \in Worker, Ack(w)
    PROVE  WorkerInv'
<1>1. /\ worker[w].pc = "ack" /\ worker[w].pc \in Busy
      /\ acked' = [acked EXCEPT ![ReaderOf(w)] = @ \cup {Position(w)}]
      /\ worker' = [worker EXCEPT ![w] = [pc |-> "next", batch |-> Tail(@.batch),
                                          decision |-> "none"]]
      /\ UNCHANGED <<entries, cursor, late, objects, published, keyLive, crashes>>
  BY DEF Ack, verdictVars, Busy
<1>2. ReaderOf(w) \in Reader
  BY DEF ReaderOf, Reader
<1>3. /\ Position(w) \in 1..Len(entries)
      /\ Position(w) \in Nat
      /\ Tail(worker[w].batch) \in Seq(Nat)
      /\ Len(Tail(worker[w].batch)) = Len(worker[w].batch) - 1
      /\ \A i \in 1..Len(Tail(worker[w].batch)) :
            Tail(worker[w].batch)[i] = worker[w].batch[i + 1]
  BY <1>1, CurrentType DEF WorkerInv
<1> DEFINE x == [pc |-> "next", batch |-> Tail(worker[w].batch), decision |-> "none"]
<1>4. x \in Workers /\ x.pc = "next" /\ x.batch = Tail(worker[w].batch)
  BY <1>3 DEF Workers, Steps
<1>5. worker' = [worker EXCEPT ![w] = x]
  BY <1>1
<1> HIDE DEF x
<1>6. Moves(w, x)
  BY <1>4, <1>5, MovesTo DEF WorkerInv
<1>7. TypeOK'
  BY <1>1, <1>2, <1>3, <1>6 DEF WorkerInv, TypeOK, Moves, Workers
<1>8. Knows(w)'
  BY <1>4, <1>6 DEF Moves, Knows, Busy
<1>9. InBatch(w)'
  <2>1. Len(worker[w].batch) \in Nat
    BY DEF WorkerInv, TypeOK
  <2>. QED BY <1>1, <1>3, <1>4, <1>6, <2>1 DEF Moves, WorkerInv, WorkersKnow, InBatch
<1>10. WorkersKnow'
  <2>1. \A v \in Worker \ {w} : worker'[v] = worker[v]
    BY <1>6 DEF Moves
  <2>2. /\ Len(entries) <= Len(entries')
        /\ \A i \in 1..Len(entries) : entries'[i] = entries[i]
        /\ objects \subseteq objects'
        /\ \A rec \in Record : late[rec] # <<>> => late'[rec] # <<>>
    BY <1>1 DEF WorkerInv, TypeOK
  <2>. QED BY <1>7, <1>8, <1>9, <2>1, <2>2, OthersKnow DEF WorkerInv
<1>11. AlreadyPublished(Current(w)) /\ Current(w) \notin Poison
  BY <1>1 DEF WorkerInv, WorkersKnow, Knows
<1>12. AckedOnStream'
  BY <1>1, <1>2, <1>3 DEF WorkerInv, TypeOK, AckedOnStream
<1>13. AckedIsJudged'
  BY <1>1, <1>2, <1>11 DEF WorkerInv, TypeOK, AckedIsJudged, AlreadyPublished, Current
<1>14. LateBacked'
  BY <1>1 DEF WorkerInv, LateBacked
<1>. QED BY <1>7, <1>10, <1>12, <1>13, <1>14 DEF WorkerInv

\* A worker that ends forgets its batch; a new one over the cache transport
\* starts over.
LEMMA StopInv ==
    ASSUME WorkerInv, NEW w \in Worker,
           GuardianFails(w) \/ Crash(w) \/ CallAgain(w) \/ Restart(w)
    PROVE  WorkerInv'
<1>0. \A pc \in Steps : Goto(w, pc) =>
        \E x : /\ Moves(w, x)
               /\ x.pc = pc /\ x.batch = worker[w].batch /\ x.decision = worker[w].decision
  BY GoesTo DEF WorkerInv
<1>1. CASE GuardianFails(w) \/ Crash(w)
  <2>1. PICK pc \in {"down", "raised"} :
           /\ worker' = [worker EXCEPT ![w] = [pc |-> pc, batch |-> <<>>,
                                               decision |-> "none"]]
           /\ UNCHANGED <<entries, cursor, acked, late, objects, published, keyLive>>
           /\ crashes' \in {crashes, crashes + 1}
    BY <1>1 DEF GuardianFails, Crash, streamVars, verdictVars
  <2> DEFINE x == [pc |-> pc, batch |-> <<>>, decision |-> "none"]
  <2>2. x \in Workers /\ x.pc \in {"down", "raised"} /\ x.batch = <<>>
    BY DEF Workers, Steps
  <2>3. worker' = [worker EXCEPT ![w] = x]
    BY <2>1
  <2> HIDE DEF x
  <2>4. Moves(w, x)
    BY <2>2, <2>3, MovesTo DEF WorkerInv
  <2>5. TypeOK'
    BY <2>1, <2>4 DEF WorkerInv, TypeOK, Moves, Workers
  <2>6. Knows(w)' /\ InBatch(w)'
    BY <2>2, <2>4 DEF Moves, Knows, InBatch, Busy
  <2>. QED BY <2>1, <2>4, <2>5, <2>6, MovesKnow
<1>2. CASE CallAgain(w) \/ Restart(w)
  <2>1. /\ Goto(w, "idle")
        /\ UNCHANGED <<entries, late, objects, published, keyLive, crashes>>
        /\ \/ /\ Transport = "cache"
              /\ cursor' = [cursor EXCEPT ![w] = 0]
              /\ acked' = [acked EXCEPT ![w] = {}]
           \/ UNCHANGED <<cursor, acked>>
    BY <1>2 DEF CallAgain, Restart, streamVars, verdictVars
  <2>2. PICK x : Moves(w, x) /\ x.pc = "idle" /\ x.batch = worker[w].batch
    <3>1. "idle" \in Steps
      BY DEF Steps
    <3>. QED BY <1>0, <2>1, <3>1, Zenon
  <2>3. TypeOK'
    <3>1. /\ cursor' \in [Reader -> Nat]
          /\ acked' \in [Reader -> SUBSET Nat]
      <4>1. CASE /\ cursor' = [cursor EXCEPT ![w] = 0]
                 /\ acked' = [acked EXCEPT ![w] = {}]
        <5>1. cursor' \in [Reader -> Nat]
          BY <4>1 DEF WorkerInv, TypeOK
        <5>2. acked' \in [Reader -> SUBSET Nat]
          BY <4>1, Zenon DEF WorkerInv, TypeOK
        <5>. QED BY <5>1, <5>2
      <4>2. CASE UNCHANGED <<cursor, acked>>
        BY <4>2 DEF WorkerInv, TypeOK
      <4>. QED BY <2>1, <4>1, <4>2
    <3>2. worker' \in [Worker -> Workers]
      BY <2>2 DEF Moves
    <3>. QED BY <2>1, <3>1, <3>2 DEF WorkerInv, TypeOK, Workers
  <2>4. Knows(w)' /\ InBatch(w)'
    BY <2>1, <2>2 DEF Moves, WorkerInv, WorkersKnow, Knows, InBatch, Busy
  <2>5. WorkersKnow'
    <3>1. /\ Len(entries) <= Len(entries')
          /\ \A i \in 1..Len(entries) : entries'[i] = entries[i]
          /\ objects \subseteq objects'
          /\ \A rec \in Record : late[rec] # <<>> => late'[rec] # <<>>
      BY <2>1 DEF WorkerInv, TypeOK
    <3>2. \A v \in Worker \ {w} : worker'[v] = worker[v]
      BY <2>2 DEF Moves
    <3>. QED BY <2>3, <2>4, <3>1, <3>2, OthersKnow DEF WorkerInv
  <2>6. \A r \in Reader : acked'[r] \subseteq acked[r]
    BY <2>1 DEF WorkerInv, TypeOK
  <2>7. AckedOnStream' /\ AckedIsJudged' /\ LateBacked'
    BY <2>1, <2>6 DEF WorkerInv, AckedOnStream, AckedIsJudged, LateBacked, AlreadyPublished
  <2>. QED BY <2>3, <2>5, <2>7 DEF WorkerInv
<1>. QED BY <1>1, <1>2

LEMMA NextInv == WorkerInv /\ [Next]_vars => WorkerInv'
<1> SUFFICES ASSUME WorkerInv, [Next]_vars PROVE WorkerInv'
  OBVIOUS
<1>1. ASSUME NEW rec \in Record, Publish(rec) PROVE WorkerInv'
  BY <1>1, PublishInv
<1>2. ASSUME NEW w \in Worker, WorkerStep(w) PROVE WorkerInv'
  BY <1>2, ReadInv, TakeInv, CheckInv, StoreInv, AckInv DEF WorkerStep
<1>3. ASSUME NEW w \in Worker,
             GuardianFails(w) \/ Crash(w) \/ CallAgain(w) \/ Restart(w)
      PROVE  WorkerInv'
  BY <1>3, StopInv
<1>4. CASE RevokeKey \/ UNCHANGED vars
  <2>1. UNCHANGED <<entries, cursor, acked, late, objects, published, worker, crashes>>
    BY <1>4 DEF RevokeKey, vars, streamVars, verdictVars
  <2>2. keyLive' \in BOOLEAN
    BY <1>4 DEF RevokeKey, vars, WorkerInv, TypeOK
  <2>3. TypeOK'
    BY <2>1, <2>2 DEF WorkerInv, TypeOK
  <2>4. WorkersKnow'
    BY <2>1 DEF WorkerInv, WorkersKnow, Knows, InBatch, Current, Position, AlreadyPublished
  <2>. QED BY <2>1, <2>3, <2>4, StoreKept DEF WorkerInv
<1>5. CASE ProcessDies
  <2>1. JustStarted'
    BY <1>5, DeathStarts DEF WorkerInv
  <2>2. JustStarted' => WorkerInv'
    BY StartedInv, PTL
  <2>. QED BY <2>1, <2>2
<1>. QED BY <1>1, <1>2, <1>3, <1>4, <1>5 DEF Next

-----------------------------------------------------------------------------
\* The types of a worker's state (async_verdict_worker.py:207): whatever fails,
\* a worker holds entries it has read and a decision only once it has judged.
THEOREM TypeCorrect == Spec => []TypeOK
<1>1. WorkerInv => TypeOK
  BY DEF WorkerInv
<1>. QED BY <1>1, InitInv, NextInv, PTL DEF Spec

\* An entry is acknowledged only when its record has a verdict, for any number
\* of workers and groups and either transport (channel2.py:195).
THEOREM AckedCorrect == Spec => []AckedIsJudged
<1>1. WorkerInv => AckedIsJudged
  BY DEF WorkerInv
<1>. QED BY <1>1, InitInv, NextInv, PTL DEF Spec

-----------------------------------------------------------------------------
\* The workers that have stored a late row and not yet put it on the stream.
Fanning(rec) == {w \in Worker : worker[w].pc = "fan" /\ Current(w) = rec}

FanCounted ==
    \A rec \in Record : published[rec] + Cardinality(Fanning(rec)) <= Len(late[rec])

LEMMA FanningFinite ==
    \A rec : IsFiniteSet(Fanning(rec)) /\ Cardinality(Fanning(rec)) \in Nat
BY FS_Subset, FS_CardinalityType, VerdictWorkerAssumption DEF Fanning

\* Steps that bring no worker to its XADD and leave rows and stream alone.
LEMMA FanningShrinks ==
    ASSUME WorkerInv, WorkerInv', FanCounted, UNCHANGED <<late, published>>,
           \A v \in Worker : worker'[v].pc = "fan" => worker'[v] = worker[v],
           \A i \in 1..Len(entries) : entries'[i] = entries[i]
    PROVE  FanCounted'
<1> SUFFICES ASSUME NEW rec \in Record
             PROVE  published'[rec] + Cardinality(Fanning(rec)') <= Len(late'[rec])
  BY DEF FanCounted
<1>1. Fanning(rec)' \subseteq Fanning(rec)
  <2> SUFFICES ASSUME NEW v \in Worker, worker'[v].pc = "fan", Current(v)' = rec
               PROVE  worker[v].pc = "fan" /\ Current(v) = rec
    BY DEF Fanning
  <2>1. worker'[v] = worker[v] /\ worker[v].pc \in Busy
    BY DEF Busy
  <2>2. Position(v) \in 1..Len(entries)
    BY <2>1, CurrentType DEF WorkerInv
  <2>. QED BY <2>1, <2>2 DEF Current, Position
<1>2. Cardinality(Fanning(rec)') <= Cardinality(Fanning(rec))
  BY <1>1, FanningFinite, FS_Subset
<1>3. IsFiniteSet(Fanning(rec)') /\ Cardinality(Fanning(rec)') \in Nat
  BY <1>1, FanningFinite, FS_Subset, FS_CardinalityType
<1>4. Cardinality(Fanning(rec)) \in Nat /\ published[rec] \in Nat /\ Len(late[rec]) \in Nat
  BY FanningFinite DEF WorkerInv, TypeOK
<1>. QED BY <1>2, <1>3, <1>4 DEF FanCounted

\* The row is inserted, and its worker is on its way to the stream.
LEMMA InsertCounted ==
    ASSUME WorkerInv, FanCounted, NEW w \in Worker, InsertVerdict(w)
    PROVE  FanCounted'
<1> DEFINE c == Current(w)
<1>1. /\ worker[w].pc = "insert"
      /\ worker' = [worker EXCEPT ![w].pc = "fan"]
      /\ late' = [late EXCEPT ![c] = Append(@, worker[w].decision)]
      /\ UNCHANGED <<entries, published>>
  BY DEF InsertVerdict, Goto, streamVars
<1>2. c \in Record /\ worker[w].decision \in {"PASS", "BLOCK"}
  BY <1>1, CurrentType DEF WorkerInv, WorkersKnow, Knows, Busy, Decided
<1> SUFFICES ASSUME NEW rec \in Record
             PROVE  published'[rec] + Cardinality(Fanning(rec)') <= Len(late'[rec])
  BY DEF FanCounted
<1>3. \A v \in Worker : Current(v)' = Current(v)
  BY <1>1 DEF WorkerInv, TypeOK, Current, Position
<1>4. /\ worker'[w].pc = "fan" /\ worker[w].pc # "fan"
      /\ \A v \in Worker \ {w} : worker'[v] = worker[v]
  BY <1>1 DEF WorkerInv, TypeOK
<1>5. Cardinality(Fanning(rec)) \in Nat /\ published[rec] \in Nat /\ late[rec] \in Seq({"PASS", "BLOCK"})
  BY FanningFinite DEF WorkerInv, TypeOK
<1>6. CASE rec = c
  <2>1. Fanning(rec)' = Fanning(rec) \cup {w} /\ w \notin Fanning(rec)
    BY <1>3, <1>4, <1>6 DEF Fanning
  <2>2. Cardinality(Fanning(rec)') = Cardinality(Fanning(rec)) + 1
    BY <2>1, FanningFinite, FS_AddElement
  <2>3. late'[rec] = Append(late[rec], worker[w].decision)
    BY <1>1, <1>2, <1>6 DEF WorkerInv, TypeOK
  <2>4. Len(late'[rec]) = Len(late[rec]) + 1 /\ Len(late[rec]) \in Nat
    BY <1>2, <1>5, <2>3
  <2>. QED BY <1>1, <1>5, <2>2, <2>4 DEF FanCounted
<1>7. CASE rec # c
  <2>1. Fanning(rec)' = Fanning(rec)
    BY <1>3, <1>4, <1>7 DEF Fanning
  <2>2. late'[rec] = late[rec]
    BY <1>1, <1>2, <1>7 DEF WorkerInv, TypeOK
  <2>. QED BY <1>1, <2>1, <2>2 DEF FanCounted
<1>. QED BY <1>6, <1>7

\* The entry is on the stream, and its worker has left.
LEMMA FanVerdictCounted ==
    ASSUME WorkerInv, FanCounted, NEW w \in Worker, FanVerdict(w)
    PROVE  FanCounted'
<1> DEFINE c == Current(w)
<1>1. /\ worker[w].pc = "fan"
      /\ worker' = [worker EXCEPT ![w].pc = "ack"]
      /\ published' = [published EXCEPT ![c] = @ + 1]
      /\ UNCHANGED <<entries, late>>
  BY DEF FanVerdict, Goto, streamVars
<1>2. c \in Record
  BY <1>1, CurrentType DEF WorkerInv, Busy
<1> SUFFICES ASSUME NEW rec \in Record
             PROVE  published'[rec] + Cardinality(Fanning(rec)') <= Len(late'[rec])
  BY DEF FanCounted
<1>3. \A v \in Worker : Current(v)' = Current(v)
  BY <1>1 DEF WorkerInv, TypeOK, Current, Position
<1>4. /\ worker'[w].pc # "fan"
      /\ \A v \in Worker \ {w} : worker'[v] = worker[v]
  BY <1>1 DEF WorkerInv, TypeOK
<1>5. Cardinality(Fanning(rec)) \in Nat /\ published[rec] \in Nat /\ Len(late[rec]) \in Nat
  BY FanningFinite DEF WorkerInv, TypeOK
<1>6. CASE rec = c
  <2>1. Fanning(rec)' = Fanning(rec) \ {w} /\ w \in Fanning(rec)
    BY <1>1, <1>3, <1>4, <1>6 DEF Fanning
  <2>2. Cardinality(Fanning(rec)') = Cardinality(Fanning(rec)) - 1
    BY <2>1, FanningFinite, FS_RemoveElement
  <2>3. published'[rec] = published[rec] + 1
    BY <1>1, <1>2, <1>6 DEF WorkerInv, TypeOK
  <2>. QED BY <1>1, <1>5, <2>2, <2>3 DEF FanCounted
<1>7. CASE rec # c
  <2>1. Fanning(rec)' = Fanning(rec)
    BY <1>3, <1>4, <1>7 DEF Fanning
  <2>2. published'[rec] = published[rec]
    BY <1>1, <1>2, <1>7 DEF WorkerInv, TypeOK
  <2>. QED BY <1>1, <2>1, <2>2 DEF FanCounted
<1>. QED BY <1>6, <1>7

LEMMA StartedCounted == JustStarted => FanCounted
<1> SUFFICES ASSUME JustStarted, NEW rec \in Record
             PROVE  published[rec] + Cardinality(Fanning(rec)) <= Len(late[rec])
  BY DEF FanCounted
<1>1. Fanning(rec) = {}
  BY DEF JustStarted, NewWorker, Fanning
<1>2. Cardinality(Fanning(rec)) = 0
  BY <1>1, FS_EmptySet
<1>3. published[rec] = 0 /\ Len(late[rec]) = 0
  BY DEF JustStarted
<1>. QED BY <1>2, <1>3

LEMMA NextCounted == WorkerInv /\ WorkerInv' /\ FanCounted /\ [Next]_vars => FanCounted'
<1> SUFFICES ASSUME WorkerInv, WorkerInv', FanCounted, [Next]_vars PROVE FanCounted'
  OBVIOUS
<1>1. ASSUME NEW rec \in Record, Publish(rec) PROVE FanCounted'
  <2>1. /\ UNCHANGED <<late, published, worker>>
        /\ \A i \in 1..Len(entries) : entries'[i] = entries[i]
    BY <1>1 DEF WorkerInv, TypeOK, Publish, verdictVars
  <2>. QED BY <2>1, FanningShrinks
<1>2. ASSUME NEW w \in Worker,
             \/ Read(w) \/ Take(w) \/ Check(w) \/ Judge(w) \/ Recheck(w)
             \/ PutVerdict(w) \/ Ack(w) \/ GuardianFails(w) \/ Crash(w)
             \/ CallAgain(w) \/ Restart(w)
      PROVE  FanCounted'
  <2>1. UNCHANGED <<entries, late, published>>
    BY <1>2 DEF Read, Take, Check, Judge, Recheck, PutVerdict, Ack, GuardianFails,
                Crash, CallAgain, Restart, streamVars, verdictVars
  <2>2. \A v \in Worker \ {w} : worker'[v] = worker[v]
    BY <1>2 DEF WorkerInv, TypeOK, Read, Take, Check, Judge, Recheck, PutVerdict, Ack,
                GuardianFails, Crash, CallAgain, Restart, Goto
  <2>3. worker'[w].pc = "fan" => worker'[w] = worker[w]
    BY <1>2 DEF WorkerInv, TypeOK, Read, Take, Check, Judge, Recheck, PutVerdict, Ack,
                GuardianFails, Crash, CallAgain, Restart, Goto
  <2>. QED BY <2>1, <2>2, <2>3, FanningShrinks
<1>3. CASE RevokeKey \/ UNCHANGED vars
  <2>1. UNCHANGED <<entries, late, published, worker>>
    BY <1>3 DEF RevokeKey, vars, streamVars, verdictVars
  <2>. QED BY <2>1, FanningShrinks
<1>4. CASE ProcessDies
  <2>1. JustStarted'
    BY <1>4, DeathStarts DEF WorkerInv
  <2>2. JustStarted' => FanCounted'
    BY StartedCounted, PTL
  <2>. QED BY <2>1, <2>2
<1>. QED
  BY <1>1, <1>2, <1>3, <1>4, InsertCounted, FanVerdictCounted DEF Next, WorkerStep

\* Rows, objects and the stream of late verdicts agree, however many workers
\* store a verdict on the same record (governance.py:363): what is on the stream
\* has its row, a row its object, and a record the gate has ruled on gets none.
THEOREM LateCorrect == Spec => []LateVerdictBacked
<1>1. WorkerInv /\ FanCounted => LateVerdictBacked
  <2> SUFFICES ASSUME WorkerInv, FanCounted, NEW rec \in Record
               PROVE  /\ late[rec] # <<>> => rec \in objects \ Gated
                      /\ published[rec] <= Len(late[rec])
    BY DEF LateVerdictBacked
  <2>1. Cardinality(Fanning(rec)) \in Nat /\ published[rec] \in Nat /\ Len(late[rec]) \in Nat
    BY FanningFinite DEF WorkerInv, TypeOK
  <2>. QED BY <2>1 DEF WorkerInv, LateBacked, FanCounted
<1>2. Init => WorkerInv /\ FanCounted
  BY InitInv, InitStarts, StartedCounted
<1>3. WorkerInv /\ FanCounted /\ [Next]_vars => (WorkerInv /\ FanCounted)'
  BY NextInv, NextCounted
<1>. QED BY <1>1, <1>2, <1>3, PTL DEF Spec

-----------------------------------------------------------------------------
\* The workers that found no verdict and are about to store one.
Storing(rec) ==
    {w \in Worker : worker[w].pc \in {"put", "insert"} /\ Current(w) = rec}

RowsPerWorker == \A rec \in Record : Len(late[rec]) <= Cardinality(Worker)

\* Every row of a record, and every one to come, is of another worker: as long as
\* there is none, only workers count, and later none finds the record without one.
RowsCounted ==
    \A rec \in Record : Len(late[rec]) + Cardinality(Storing(rec)) <= Cardinality(Worker)

LEMMA StoringFinite ==
    \A rec : /\ IsFiniteSet(Storing(rec))
             /\ Cardinality(Storing(rec)) \in Nat
             /\ Cardinality(Worker) \in Nat
             /\ Cardinality(Storing(rec)) <= Cardinality(Worker)
<1> SUFFICES ASSUME NEW rec
             PROVE  /\ IsFiniteSet(Storing(rec))
                    /\ Cardinality(Storing(rec)) \in Nat
                    /\ Cardinality(Worker) \in Nat
                    /\ Cardinality(Storing(rec)) <= Cardinality(Worker)
  OBVIOUS
<1>1. Storing(rec) \subseteq Worker
  BY DEF Storing
<1>. QED BY <1>1, FS_Subset, FS_CardinalityType, VerdictWorkerAssumption

\* Only a worker that has looked and found none goes on to store a verdict.
LEMMA StoringShrinks ==
    ASSUME WorkerInv, WorkerInv', RowsCounted, UNCHANGED late,
           \A v \in Worker : worker'[v].pc \in {"put", "insert"} =>
              \/ /\ worker[v].pc \in {"put", "insert"}
                 /\ worker'[v].batch = worker[v].batch
              \/ late[Current(v)'] = <<>>,
           \A i \in 1..Len(entries) : entries'[i] = entries[i]
    PROVE  RowsCounted'
<1> SUFFICES ASSUME NEW rec \in Record
             PROVE  Len(late'[rec]) + Cardinality(Storing(rec)') <= Cardinality(Worker)
  BY DEF RowsCounted
<1>1. /\ Cardinality(Storing(rec)) \in Nat
      /\ Cardinality(Worker) \in Nat
      /\ IsFiniteSet(Storing(rec))
  BY StoringFinite
<1>2. Cardinality(Storing(rec)') \in Nat /\ Cardinality(Storing(rec)') <= Cardinality(Worker)
  <2>1. Storing(rec)' \subseteq Worker
    BY DEF Storing
  <2>. QED BY <2>1, FS_Subset, FS_CardinalityType, VerdictWorkerAssumption
<1>3. Len(late[rec]) \in Nat /\ late'[rec] = late[rec]
  BY DEF WorkerInv, TypeOK
<1>4. CASE late[rec] = <<>>
  BY <1>2, <1>3, <1>4
<1>5. CASE late[rec] # <<>>
  <2>1. Storing(rec)' \subseteq Storing(rec)
    <3> SUFFICES ASSUME NEW v \in Worker, worker'[v].pc \in {"put", "insert"},
                        Current(v)' = rec
                 PROVE  worker[v].pc \in {"put", "insert"} /\ Current(v) = rec
      BY DEF Storing
    <3>1. worker[v].pc \in {"put", "insert"} /\ worker'[v].batch = worker[v].batch
      BY <1>5
    <3>2. worker[v].pc \in Busy
      BY <3>1 DEF Busy
    <3>3. Position(v) \in 1..Len(entries)
      BY <3>2, CurrentType DEF WorkerInv
    <3>. QED BY <3>1, <3>3 DEF Current, Position
  <2>2. Cardinality(Storing(rec)') <= Cardinality(Storing(rec))
    BY <1>1, <2>1, FS_Subset
  <2>3. Len(late[rec]) + Cardinality(Storing(rec)) <= Cardinality(Worker)
    BY DEF RowsCounted
  <2>. QED BY <1>1, <1>2, <1>3, <2>2, <2>3
<1>. QED BY <1>4, <1>5

\* The row takes the place of its worker.
LEMMA RowCounted ==
    ASSUME WorkerInv, RowsCounted, NEW w \in Worker, InsertVerdict(w)
    PROVE  RowsCounted'
<1> DEFINE c == Current(w)
<1>1. /\ worker[w].pc = "insert"
      /\ worker' = [worker EXCEPT ![w].pc = "fan"]
      /\ late' = [late EXCEPT ![c] = Append(@, worker[w].decision)]
      /\ UNCHANGED entries
  BY DEF InsertVerdict, Goto, streamVars
<1>2. c \in Record /\ worker[w].decision \in {"PASS", "BLOCK"}
  BY <1>1, CurrentType DEF WorkerInv, WorkersKnow, Knows, Busy, Decided
<1> SUFFICES ASSUME NEW rec \in Record
             PROVE  Len(late'[rec]) + Cardinality(Storing(rec)') <= Cardinality(Worker)
  BY DEF RowsCounted
<1>3. \A v \in Worker : Current(v)' = Current(v)
  BY <1>1 DEF WorkerInv, TypeOK, Current, Position
<1>4. /\ worker'[w].pc = "fan"
      /\ \A v \in Worker \ {w} : worker'[v] = worker[v]
  BY <1>1 DEF WorkerInv, TypeOK
<1>5. /\ Cardinality(Storing(rec)) \in Nat
      /\ Cardinality(Worker) \in Nat
      /\ IsFiniteSet(Storing(rec))
      /\ late[rec] \in Seq({"PASS", "BLOCK"})
      /\ Len(late[rec]) + Cardinality(Storing(rec)) <= Cardinality(Worker)
  BY StoringFinite DEF WorkerInv, TypeOK, RowsCounted
<1>6. CASE rec = c
  <2>1. Storing(rec)' = Storing(rec) \ {w} /\ w \in Storing(rec)
    BY <1>1, <1>3, <1>4, <1>6 DEF Storing
  <2>2. Cardinality(Storing(rec)') = Cardinality(Storing(rec)) - 1
    BY <1>5, <2>1, FS_RemoveElement
  <2>3. late'[rec] = Append(late[rec], worker[w].decision)
    BY <1>1, <1>2, <1>6 DEF WorkerInv, TypeOK
  <2>4. Len(late'[rec]) = Len(late[rec]) + 1 /\ Len(late[rec]) \in Nat
    BY <1>2, <1>5, <2>3
  <2>. QED BY <1>5, <2>2, <2>4
<1>7. CASE rec # c
  <2>1. Storing(rec)' = Storing(rec)
    BY <1>3, <1>4, <1>7 DEF Storing
  <2>2. late'[rec] = late[rec]
    BY <1>1, <1>2, <1>7 DEF WorkerInv, TypeOK
  <2>. QED BY <1>5, <2>1, <2>2
<1>. QED BY <1>6, <1>7

LEMMA StartedRows == JustStarted => RowsCounted
<1> SUFFICES ASSUME JustStarted, NEW rec \in Record
             PROVE  Len(late[rec]) + Cardinality(Storing(rec)) <= Cardinality(Worker)
  BY DEF RowsCounted
<1>1. Len(late[rec]) = 0
  BY DEF JustStarted
<1>. QED BY <1>1, StoringFinite

LEMMA NextRows == WorkerInv /\ WorkerInv' /\ RowsCounted /\ [Next]_vars => RowsCounted'
<1> SUFFICES ASSUME WorkerInv, WorkerInv', RowsCounted, [Next]_vars PROVE RowsCounted'
  OBVIOUS
<1>1. ASSUME NEW rec \in Record, Publish(rec) PROVE RowsCounted'
  <2>1. /\ UNCHANGED <<late, worker>>
        /\ \A i \in 1..Len(entries) : entries'[i] = entries[i]
    BY <1>1 DEF WorkerInv, TypeOK, Publish, verdictVars
  <2>. QED BY <2>1, StoringShrinks
<1>2. ASSUME NEW w \in Worker,
             \/ Read(w) \/ Take(w) \/ Check(w) \/ Judge(w) \/ FanVerdict(w)
             \/ PutVerdict(w) \/ Ack(w) \/ GuardianFails(w) \/ Crash(w)
             \/ CallAgain(w) \/ Restart(w)
      PROVE  RowsCounted'
  <2>1. UNCHANGED <<entries, late>>
    BY <1>2 DEF Read, Take, Check, Judge, PutVerdict, FanVerdict, Ack, GuardianFails,
                Crash, CallAgain, Restart, streamVars, verdictVars
  <2>2. \A v \in Worker \ {w} : worker'[v] = worker[v]
    BY <1>2 DEF WorkerInv, TypeOK, Read, Take, Check, Judge, PutVerdict, FanVerdict, Ack,
                GuardianFails, Crash, CallAgain, Restart, Goto
  <2>3. worker'[w].pc \in {"put", "insert"} =>
           worker[w].pc \in {"put", "insert"} /\ worker'[w].batch = worker[w].batch
    <3>1. CASE PutVerdict(w)
      BY <3>1 DEF WorkerInv, TypeOK, PutVerdict, Goto
    <3>2. CASE Check(w) \/ Judge(w) \/ FanVerdict(w)
      <4>1. worker'[w].pc \in {"ack", "guard", "recheck"}
        BY <3>2 DEF WorkerInv, TypeOK, Check, Judge, FanVerdict, Goto
      <4>. QED BY <4>1
    <3>3. CASE \/ Read(w) \/ Ack(w) \/ GuardianFails(w) \/ Crash(w)
               \/ CallAgain(w) \/ Restart(w)
      <4>1. worker'[w].pc \in {"next", "down", "raised", "idle"}
        BY <3>3 DEF WorkerInv, TypeOK, Read, Ack, GuardianFails, Crash, CallAgain, Restart, Goto
      <4>. QED BY <4>1
    <3>4. CASE Take(w)
      <4>1. worker'[w].pc \in {"next", "idle", "check"}
        BY <3>4 DEF WorkerInv, TypeOK, Take, Goto
      <4>. QED BY <4>1
    <3>. QED BY <1>2, <3>1, <3>2, <3>3, <3>4
  <2>. QED BY <2>1, <2>2, <2>3, StoringShrinks
<1>3. ASSUME NEW w \in Worker, Recheck(w) PROVE RowsCounted'
  <2> DEFINE pc == IF AlreadyPublished(Current(w)) THEN "ack" ELSE "put"
  <2>1. worker' = [worker EXCEPT ![w].pc = pc] /\ UNCHANGED <<entries, late>>
    BY <1>3 DEF Recheck, Goto, streamVars, verdictVars
  <2>2. pc = "put" => late[Current(w)] = <<>>
    BY DEF AlreadyPublished
  <2> HIDE DEF pc
  <2>3. /\ \A v \in Worker \ {w} : worker'[v] = worker[v]
        /\ worker'[w].pc = pc /\ worker'[w].batch = worker[w].batch
    BY <2>1 DEF WorkerInv, TypeOK
  <2>4. worker'[w].pc \in {"put", "insert"} => late[Current(w)'] = <<>>
    <3>1. pc \in {"ack", "put"}
      BY DEF pc
    <3>2. Current(w)' = Current(w)
      BY <2>1, <2>3 DEF Current, Position
    <3>. QED BY <2>2, <2>3, <3>1, <3>2
  <2>. QED BY <2>1, <2>3, <2>4, StoringShrinks
<1>4. CASE RevokeKey \/ UNCHANGED vars
  <2>1. UNCHANGED <<entries, late, worker>>
    BY <1>4 DEF RevokeKey, vars, streamVars, verdictVars
  <2>. QED BY <2>1, StoringShrinks
<1>5. CASE ProcessDies
  <2>1. JustStarted'
    BY <1>5, DeathStarts DEF WorkerInv
  <2>2. JustStarted' => RowsCounted'
    BY StartedRows, PTL
  <2>. QED BY <2>1, <2>2
<1>. QED
  BY <1>1, <1>2, <1>3, <1>4, <1>5, RowCounted DEF Next, WorkerStep

\* A record has at most as many late verdicts as there are workers, whatever is
\* read again and whichever of them look at the same moment
\* (async_verdict_worker.py:111): the second look bounds what the missing unique
\* key on governance_verdicts leaves open.
THEOREM JudgedPerWorker == Spec => []RowsPerWorker
<1>1. WorkerInv /\ RowsCounted => RowsPerWorker
  <2> SUFFICES ASSUME WorkerInv, RowsCounted, NEW rec \in Record
               PROVE  Len(late[rec]) <= Cardinality(Worker)
    BY DEF RowsPerWorker
  <2>1. Len(late[rec]) \in Nat /\ Len(late[rec]) + Cardinality(Storing(rec)) <= Cardinality(Worker)
    BY DEF WorkerInv, TypeOK, RowsCounted
  <2>. QED BY <2>1, StoringFinite
<1>2. Init => WorkerInv /\ RowsCounted
  BY InitInv, InitStarts, StartedRows
<1>3. WorkerInv /\ RowsCounted /\ [Next]_vars => (WorkerInv /\ RowsCounted)'
  BY NextInv, NextRows
<1>. QED BY <1>1, <1>2, <1>3, PTL DEF Spec

\* A worker that is alone judges a record once (async_verdict_worker.py:207),
\* however often its entry is on the stream, read again or left by a crash.
THEOREM JudgedOnceAlone ==
    ASSUME Cardinality(Worker) = 1
    PROVE  Spec => []JudgedOnce
<1>1. RowsPerWorker => JudgedOnce
  BY DEF RowsPerWorker, JudgedOnce
<1>. QED BY <1>1, JudgedPerWorker, PTL
=============================================================================
