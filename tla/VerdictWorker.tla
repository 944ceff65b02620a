---------------------------- MODULE VerdictWorker ---------------------------
(***************************************************************************)
(* The consumer side of Channel 2: workers read the stream shield:actions  *)
(* through a transport (channel2.py), have the guardians judge each record *)
(* and publish the late verdict (async_verdict_worker.py and               *)
(* publish_async_verdict of governance.py).  Every await of a worker ends  *)
(* a step; a worker may die between any two.                               *)
(*                                                                         *)
(* Transport "redis" is RedisChannel2Transport: the server keeps the       *)
(* position of the group and reads ask for ">" only, and the task the      *)
(* server runs the worker in ends with the first failure.  Transport       *)
(* "cache" is CacheChannel2Transport over the Cache of the process: its    *)
(* position and acknowledgements are fields of the worker's transport,     *)
(* callers make a new worker over the same Cache, or call the old one      *)
(* again, and the stream ends with the process.                            *)
(***************************************************************************)
EXTENDS Naturals, Sequences, FiniteSets

CONSTANTS
    Record,     \* records that can be on the stream
    Poison,     \* those whose entry does not decode
    Gated,      \* pre_exec records: decide has stored a verdict on them
    Worker,     \* workers
    GroupOf,    \* the consumer group each worker reads for
    Transport,  \* "redis" or "cache"
    BatchSize,  \* the count of run_once
    MaxEntries, \* bound: entries put on the stream
    MaxCrashes  \* bound: workers and processes killed

ASSUME VerdictWorkerAssumption ==
    /\ Poison \subseteq Record
    /\ Gated \subseteq Record
    /\ Poison \cap Gated = {}
    /\ IsFiniteSet(Worker)
    /\ Transport \in {"redis", "cache"}
    /\ BatchSize \in Nat \ {0}
    /\ MaxEntries \in Nat
    /\ MaxCrashes \in Nat

VARIABLES
    entries,    \* the stream shield:actions
    cursor,     \* entries delivered, per reader
    acked,      \* acknowledged entries, per reader
    late,       \* decisions of the late rows in governance_verdicts, per record
    objects,    \* records with a signed late verdict in the object store
    published,  \* entries of late verdicts on shield:verdicts, per record
    keyLive,    \* the signing key is neither revoked nor retired
    worker,     \* control state, undone entries and judgement of each worker
    crashes

vars == <<entries, cursor, acked, late, objects, published, keyLive, worker,
          crashes>>

Reader == IF Transport = "redis" THEN {GroupOf[w] : w \in Worker} ELSE Worker

ReaderOf(w) == IF Transport = "redis" THEN GroupOf[w] ELSE w

Steps == {"down", "raised", "idle", "next", "check", "guard", "recheck", "put", "insert",
          "fan", "ack"}

\* Stream, readers, rows and workers keep their types: a worker judges only what
\* decodes and has no verdict yet (async_verdict_worker.py:207).
TypeOK ==
    /\ entries \in Seq(Record)
    /\ cursor \in [Reader -> Nat]
    /\ acked \in [Reader -> SUBSET Nat]
    /\ late \in [Record -> Seq({"PASS", "BLOCK"})]
    /\ objects \subseteq Record
    /\ published \in [Record -> Nat]
    /\ keyLive \in BOOLEAN
    /\ worker \in [Worker -> [pc : Steps, batch : Seq(Nat),
                              decision : {"none", "PASS", "BLOCK"}]]
    /\ crashes \in Nat

-----------------------------------------------------------------------------
streamVars  == <<entries, cursor, acked>>
verdictVars == <<late, objects, published>>

Goto(w, pc) == worker' = [worker EXCEPT ![w].pc = pc]

\* The position and the record of the entry a worker is busy with.
Position(w) == Head(worker[w].batch)
Current(w)  == entries[Position(w)]

\* Mutants: only the gate's verdicts are looked for, or only the late ones.
AlreadyGated(rec) == rec \in Gated

AlreadyLate(rec) == late[rec] # <<>>

\* SELECT * FROM governance_verdicts WHERE record_id, of whatever phase.
AlreadyPublished(rec) == rec \in Gated \/ late[rec] # <<>>

\* The server fans out a committed record (Fan of Ingest); whatever else gets
\* on the stream does not decode.
Publish(rec) ==
    /\ Len(entries) < MaxEntries
    /\ entries' = Append(entries, rec)
    /\ UNCHANGED <<cursor, acked, verdictVars, keyLive, worker, crashes>>

\* read(): the next entries are delivered and the position moves past them.
\* An empty batch makes run_loop sleep.
Read(w) ==
    /\ worker[w].pc = "idle"
    /\ LET from == cursor[ReaderOf(w)] + 1
           upto == IF Len(entries) < from + BatchSize - 1 THEN Len(entries)
                   ELSE from + BatchSize - 1
       IN  /\ from <= upto
           /\ cursor' = [cursor EXCEPT ![ReaderOf(w)] = upto]
           /\ worker' = [worker EXCEPT
                 ![w] = [pc       |-> "next",
                         batch    |-> [i \in 1..(upto - from + 1) |-> from + i - 1],
                         decision |-> "none"]]
    /\ UNCHANGED <<entries, acked, verdictVars, keyLive, crashes>>

\* Mutant: an entry that does not decode ends the batch.
TakeStopsAtPoison(w) ==
    /\ worker[w].pc = "next"
    /\ IF worker[w].batch = <<>> \/ Current(w) \in Poison
       THEN worker' = [worker EXCEPT ![w].pc = "idle", ![w].batch = <<>>]
       ELSE Goto(w, "check")
    /\ UNCHANGED <<streamVars, verdictVars, keyLive, crashes>>

\* The next entry of the batch: an entry that does not decode is passed over
\* without an acknowledgement.
Take(w) ==
    /\ worker[w].pc = "next"
    /\ IF worker[w].batch = <<>>
       THEN Goto(w, "idle")
       ELSE IF Current(w) \in Poison
       THEN worker' = [worker EXCEPT ![w].batch = Tail(@)]
       ELSE Goto(w, "check")
    /\ UNCHANGED <<streamVars, verdictVars, keyLive, crashes>>

\* Mutant: the record is published without being judged.
CheckOnly(w) ==
    /\ worker[w].pc = "check"
    /\ Goto(w, IF AlreadyPublished(Current(w)) THEN "ack" ELSE "recheck")
    /\ UNCHANGED <<streamVars, verdictVars, keyLive, crashes>>

\* _handle_record does nothing for a record that has a verdict.
Check(w) ==
    /\ worker[w].pc = "check"
    /\ Goto(w, IF AlreadyPublished(Current(w)) THEN "ack" ELSE "guard")
    /\ UNCHANGED <<streamVars, verdictVars, keyLive, crashes>>

\* The guardians judge a record that ingest has accepted and that nothing is
\* wrong with.  The key is looked up now: without one the audit counts the
\* record as not verified, and a broken chain overrides to BLOCK.
Judge(w) ==
    /\ worker[w].pc = "guard"
    /\ worker' = [worker EXCEPT ![w].pc = "recheck",
                                ![w].decision = IF keyLive THEN "PASS" ELSE "BLOCK"]
    /\ UNCHANGED <<streamVars, verdictVars, keyLive, crashes>>

\* Mutant: the failure is caught and the record acknowledged.
FailureSwallowed(w) ==
    /\ worker[w].pc = "guard"
    /\ Goto(w, "ack")
    /\ UNCHANGED <<streamVars, verdictVars, keyLive, crashes>>

\* A guardian's model call fails.  The exception leaves run_once with the rest
\* of the batch undone.  It leaves run_loop too, and the task of app.py:107 is
\* over.
GuardianFails(w) ==
    /\ worker[w].pc = "guard"
    /\ worker' = [worker EXCEPT ![w] = [pc |-> "raised", batch |-> <<>>,
                                        decision |-> "none"]]
    /\ UNCHANGED <<streamVars, verdictVars, keyLive, crashes>>

\* on_verdict looks once more.
Recheck(w) ==
    /\ worker[w].pc = "recheck"
    /\ Goto(w, IF AlreadyPublished(Current(w)) THEN "ack" ELSE "put")
    /\ UNCHANGED <<streamVars, verdictVars, keyLive, crashes>>

\* publish_async_verdict: the signed verdict, its row, its stream entry.
PutVerdict(w) ==
    /\ worker[w].pc = "put"
    /\ objects' = objects \cup {Current(w)}
    /\ Goto(w, "insert")
    /\ UNCHANGED <<streamVars, late, published, keyLive, crashes>>

InsertVerdict(w) ==
    /\ worker[w].pc = "insert"
    /\ late' = [late EXCEPT ![Current(w)] = Append(@, worker[w].decision)]
    /\ Goto(w, "fan")
    /\ UNCHANGED <<streamVars, objects, published, keyLive, crashes>>

FanVerdict(w) ==
    /\ worker[w].pc = "fan"
    /\ published' = [published EXCEPT ![Current(w)] = @ + 1]
    /\ Goto(w, "ack")
    /\ UNCHANGED <<streamVars, late, objects, keyLive, crashes>>

Ack(w) ==
    /\ worker[w].pc = "ack"
    /\ acked' = [acked EXCEPT ![ReaderOf(w)] = @ \cup {Position(w)}]
    /\ worker' = [worker EXCEPT ![w] = [pc |-> "next", batch |-> Tail(@.batch),
                                        decision |-> "none"]]
    /\ UNCHANGED <<entries, cursor, verdictVars, keyLive, crashes>>

\* The evaluation's drain catches the exception and calls run_once of the same
\* worker again: its transport has moved past the failed batch.
CallAgain(w) ==
    /\ Transport = "cache"
    /\ worker[w].pc = "raised"
    /\ Goto(w, "idle")
    /\ UNCHANGED <<streamVars, verdictVars, keyLive, crashes>>

\* The task is cancelled, or (redis) the worker's process is killed.
Crash(w) ==
    /\ worker[w].pc # "down"
    /\ crashes < MaxCrashes
    /\ crashes' = crashes + 1
    /\ worker' = [worker EXCEPT ![w] = [pc |-> "down", batch |-> <<>>,
                                        decision |-> "none"]]
    /\ UNCHANGED <<streamVars, verdictVars, keyLive>>

\* A new worker is made.  Its cache transport starts over, on the Cache the last
\* one read; the group on the Redis server is where it was.
Restart(w) ==
    /\ worker[w].pc \in {"down", "raised"}
    /\ IF Transport = "cache"
       THEN /\ cursor' = [cursor EXCEPT ![w] = 0]
            /\ acked' = [acked EXCEPT ![w] = {}]
       ELSE UNCHANGED <<cursor, acked>>
    /\ Goto(w, "idle")
    /\ UNCHANGED <<entries, verdictVars, keyLive, crashes>>

NewWorker == [pc |-> "idle", batch |-> <<>>, decision |-> "none"]

\* MemoryCache, MemoryDatabase and MemoryObjectStore end with their process: the
\* next one has neither the records nor the verdicts.
ProcessDies ==
    /\ Transport = "cache"
    /\ crashes < MaxCrashes
    /\ crashes' = crashes + 1
    /\ entries' = <<>>
    /\ cursor' = [r \in Reader |-> 0]
    /\ acked' = [r \in Reader |-> {}]
    /\ late' = [rec \in Record |-> <<>>]
    /\ objects' = {}
    /\ published' = [rec \in Record |-> 0]
    /\ keyLive' = TRUE
    /\ worker' = [w \in Worker |-> NewWorker]

\* revoke_key (RevokeCommit of Registry).
RevokeKey ==
    /\ keyLive
    /\ keyLive' = FALSE
    /\ UNCHANGED <<streamVars, verdictVars, worker, crashes>>

Init ==
    /\ entries = <<>>
    /\ cursor = [r \in Reader |-> 0]
    /\ acked = [r \in Reader |-> {}]
    /\ late = [rec \in Record |-> <<>>]
    /\ objects = {}
    /\ published = [rec \in Record |-> 0]
    /\ keyLive = TRUE
    /\ worker = [w \in Worker |-> NewWorker]
    /\ crashes = 0

WorkerStep(w) ==
    \/ Read(w)
    \/ Take(w)
    \/ Check(w)
    \/ Judge(w)
    \/ Recheck(w)
    \/ PutVerdict(w)
    \/ InsertVerdict(w)
    \/ FanVerdict(w)
    \/ Ack(w)

Next ==
    \/ \E rec \in Record : Publish(rec)
    \/ \E w \in Worker : \/ WorkerStep(w)
                         \/ GuardianFails(w)
                         \/ CallAgain(w)
                         \/ Crash(w)
                         \/ Restart(w)
    \/ ProcessDies
    \/ RevokeKey

Spec == Init /\ [][Next]_vars

\* A worker that runs goes on, and a model call that does not fail returns.
\* Nothing makes a worker again after a failure, or says that a model answers.
Fairness == \A w \in Worker : WF_vars(WorkerStep(w))

FairSpec == Spec /\ Fairness

-----------------------------------------------------------------------------
\* An entry is acknowledged only when its record has a verdict, whichever
\* worker stored it: no failure of a guardian, and no death of a worker between
\* reading and storing, acknowledges a record unjudged (channel2.py:195).
AckedIsJudged ==
    \A r \in Reader : \A i \in acked[r] :
       entries[i] \notin Poison /\ AlreadyPublished(entries[i])

\* A late row has its signed verdict in the object store, a verdict on the
\* stream has its row, and a gated record is never judged a second time.
LateVerdictBacked ==
    \A rec \in Record :
       /\ late[rec] # <<>> => rec \in objects \ Gated
       /\ published[rec] <= Len(late[rec])

\* One worker judges a record once, though its entry may be on the stream twice
\* and be read again after a restart (async_verdict_worker.py:111 and :207).
JudgedOnce == \A rec \in Record : Len(late[rec]) <= 1

Running(w) == worker[w].pc \notin {"down", "raised"}

\* A record that decodes is on the stream and has no verdict.
Waiting(rec) ==
    /\ rec \notin Poison
    /\ \E i \in 1..Len(entries) : entries[i] = rec
    /\ ~AlreadyPublished(rec)

\* A worker made over a Cache catches up: when from some moment on every worker
\* is one that has started at the beginning of the stream and does not fail, no
\* record waits for ever, whatever earlier workers left half done, entries that
\* do not decode lie in its way, or others publish and revoke meanwhile
\* (async_verdict_worker.py:57, channel2.py:187).  Records the process took with
\* it when it died wait no longer.
NewWorkerCatchesUp ==
    (\A w \in Worker : <>(cursor[ReaderOf(w)] = 0 /\ [](Running(w))))
       => \A rec \in Record : Waiting(rec) ~> ~Waiting(rec)

\* What channel2.py:152 says of a failed handler: its record is delivered again
\* on the next read.  So once the workers fail no more, nothing is left waiting.
FailedIsDeliveredAgain ==
    (\A w \in Worker : <>[](Running(w)))
       => \A rec \in Record : Waiting(rec) ~> ~Waiting(rec)
=============================================================================
