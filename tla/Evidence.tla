------------------------------ MODULE Evidence ------------------------------
(***************************************************************************)
(* What is read out of an organisation's operations: the epochs of the     *)
(* scheduler (epoch_scheduler.py) and of the routes that compute them on   *)
(* demand, exports, the views that read two tables one after the other     *)
(* (reads.py), and the keyset pages of the audit log, the timeline and the *)
(* incidents (audit.py, reads.py), while operations and verdicts commit.   *)
(*                                                                         *)
(* An operation is stamped when its request arrives and commits later, so  *)
(* stamps do not commit in order.  Operations and verdicts are numbers, in *)
(* the order of their ids.                                                 *)
(***************************************************************************)
EXTENDS Merkle

CONSTANTS
    Op,          \* operations of the organisation
    Decided,     \* those a decide request made, the others have no gate verdict
    Escalated,   \* those whose verdict, at the gate or late, is an ESCALATE
    AnyHash,     \* chain hashes, in their order as bytes
    Hash,        \* the chain hash of each operation
    Scheduler,   \* epoch schedulers
    Client,      \* reading clients
    PageSize,    \* rows of a page
    MaxTime,     \* bound: clock readings
    MaxDeaths    \* bound: schedulers that end on their own

ASSUME EvidenceAssumption ==
    /\ Escalated \cup Decided \subseteq Op /\ Op \subseteq Nat \ {0}
    /\ AnyHash \subseteq Nat
    /\ IsFiniteSet(Op) /\ IsFiniteSet(AnyHash)
    /\ Hash \in [Op -> AnyHash]
    /\ \A o, p \in Op : Hash[o] = Hash[p] => o = p
    /\ PageSize \in Nat \ {0}

VARIABLES
    clock,
    stamp,      \* created_at of an operation, 0 before its request arrives
    ops,        \* operations table
    verdicts,   \* governance_verdicts table
    log,        \* verdict ids in intervention_log
    epochs,     \* epochs table
    artifacts,  \* epochs whose artifact is in the object store
    sched,      \* each scheduler's run
    timer,      \* schedulers are --once runs that a timer starts
    deaths,
    client      \* what each client has read

tableVars == <<clock, stamp, ops, verdicts, log>>
schedVars == <<sched, timer, deaths>>
vars == <<tableVars, epochs, artifacts, schedVars, client>>

Stamps(S) == {stamp[o] : o \in S}

SmallestOf(S) == CHOOSE n \in S : \A k \in S : n <= k
LargestOf(S) == CHOOSE n \in S : \A k \in S : k <= n

RootOf == [H \in (SUBSET AnyHash) \ {{}} |-> Root(H)]

\* epoch_from_operation_rows; the id of an epoch is a hash of these.
EpochOf(S) ==
    [start |-> SmallestOf(Stamps(S)), end |-> LargestOf(Stamps(S)),
     root |-> RootOf[{Hash[o] : o \in S}], count |-> Cardinality(S)]

NoEpoch == [start |-> 0, end |-> 0, root |-> Leaf(0), count |-> 0]

NoRun == [pc |-> "idle", epoch |-> NoEpoch]
Ended == [pc |-> "down", epoch |-> NoEpoch]

\* The operations an epoch covers.
Covers(S, e) == S # {} /\ Cardinality(S) = e.count /\ EpochOf(S) = e
OpsOf(e) == CHOOSE S \in SUBSET ops : Covers(S, e)

\* A row of governance_verdicts; the gate verdict of o has id o.
VerdictRow(id, o, at, late) ==
    [id |-> id, op |-> o, at |-> at, late |-> late, resolved |-> FALSE]

LateId(o) == o + LargestOf(Op)

-----------------------------------------------------------------------------
Tick ==
    /\ clock < MaxTime
    /\ clock' = clock + 1
    /\ UNCHANGED <<stamp, ops, verdicts, log, epochs, artifacts, schedVars, client>>

\* A request arrives: its handler reads the clock.
Receive(o) ==
    /\ stamp[o] = 0
    /\ stamp' = [stamp EXCEPT ![o] = clock]
    /\ UNCHANGED <<clock, ops, verdicts, log, epochs, artifacts, schedVars, client>>

\* Mutant: the operation and its verdict are two transactions.
CommitOpFirst(o) ==
    /\ stamp[o] # 0
    /\ \/ o \notin ops /\ ops' = ops \cup {o} /\ UNCHANGED <<verdicts, log>>
       \/ /\ o \in ops \cap Decided
          /\ ~\E v \in verdicts : v.id = o
          /\ verdicts' = verdicts \cup {VerdictRow(o, o, stamp[o], FALSE)}
          /\ log' = log \cup {o}
          /\ UNCHANGED ops
    /\ UNCHANGED <<clock, stamp, epochs, artifacts, schedVars, client>>

\* Its transaction commits, with the gate verdict and the intervention of a
\* decide request.
Commit(o) ==
    /\ stamp[o] # 0
    /\ o \notin ops
    /\ ops' = ops \cup {o}
    /\ verdicts' = verdicts \cup {VerdictRow(g, g, stamp[g], FALSE) : g \in {o} \cap Decided}
    /\ log' = log \cup ({o} \cap Decided)
    /\ UNCHANGED <<clock, stamp, epochs, artifacts, schedVars, client>>

\* The worker publishes a late verdict: no intervention, its own clock reading.
PublishLate(o) ==
    /\ o \in ops
    /\ ~\E v \in verdicts : v.op = o
    /\ verdicts' = verdicts \cup {VerdictRow(LateId(o), o, clock, TRUE)}
    /\ UNCHANGED <<clock, stamp, ops, log, epochs, artifacts, schedVars, client>>

Pending(v) == v.op \in Escalated /\ ~v.resolved

\* An incident, whichever verdict it is, is resumed.
Resolve(v) ==
    /\ Pending(v)
    /\ verdicts' = (verdicts \ {v}) \cup {[v EXCEPT !.resolved = TRUE]}
    /\ UNCHANGED <<clock, stamp, ops, log, epochs, artifacts, schedVars, client>>

-----------------------------------------------------------------------------
\* Mutant: an epoch covers what was stamped after the last one.
ReadOpsSinceLast(s) ==
    LET new == {o \in ops : \A e \in epochs : stamp[o] > e.end}
    IN  /\ sched[s].pc = "idle"
        /\ new # {}
        /\ sched' = [sched EXCEPT ![s] = [pc |-> "check", epoch |-> EpochOf(new)]]
        /\ UNCHANGED <<tableVars, epochs, artifacts, timer, deaths, client>>

\* run_epoch_once computes the epoch of all operations; with none it is done.
ReadOps(s) ==
    /\ sched[s].pc = "idle"
    /\ ops # {}
    /\ sched' = [sched EXCEPT ![s] = [pc |-> "check", epoch |-> EpochOf(ops)]]
    /\ UNCHANGED <<tableVars, epochs, artifacts, timer, deaths, client>>

\* Mutant: an epoch that ends where a persisted one does counts as persisted.
CheckByEnd(s) ==
    /\ sched[s].pc = "check"
    /\ sched' = [sched EXCEPT ![s].pc =
          IF \E e \in epochs : e.end = sched[s].epoch.end THEN "idle" ELSE "put"]
    /\ UNCHANGED <<tableVars, epochs, artifacts, timer, deaths, client>>

CheckPersisted(s) ==
    /\ sched[s].pc = "check"
    /\ sched' = [sched EXCEPT ![s] = IF @.epoch \in epochs THEN NoRun ELSE [@ EXCEPT !.pc = "put"]]
    /\ UNCHANGED <<tableVars, epochs, artifacts, timer, deaths, client>>

\* Mutant: the row is inserted before its artifact is put.
PutArtifactLast(s) ==
    /\ sched[s].pc \in {"put", "insert"}
    /\ IF sched[s].pc = "put"
       THEN /\ epochs' = epochs \cup {sched[s].epoch}
            /\ sched' = [sched EXCEPT ![s].pc = "insert"]
            /\ UNCHANGED artifacts
       ELSE /\ artifacts' = artifacts \cup {sched[s].epoch}
            /\ sched' = [sched EXCEPT ![s].pc = "idle"]
            /\ UNCHANGED epochs
    /\ UNCHANGED <<tableVars, timer, deaths, client>>

PutArtifact(s) ==
    /\ sched[s].pc = "put"
    /\ artifacts' = artifacts \cup {sched[s].epoch}
    /\ sched' = [sched EXCEPT ![s].pc = "insert"]
    /\ UNCHANGED <<tableVars, epochs, timer, deaths, client>>

\* The primary key refuses the epoch another scheduler has inserted since, and
\* the exception ends the loop.
InsertEpoch(s) ==
    /\ sched[s].pc = "insert"
    /\ epochs' = epochs \cup {sched[s].epoch}
    /\ sched' = [sched EXCEPT ![s] = IF @.epoch \in epochs THEN Ended ELSE NoRun]
    /\ UNCHANGED <<tableVars, artifacts, timer, deaths, client>>

\* A run of a timer may die at any await.
Die(s) ==
    /\ timer
    /\ sched[s].pc \notin {"idle", "down"}
    /\ deaths < MaxDeaths
    /\ deaths' = deaths + 1
    /\ sched' = [sched EXCEPT ![s] = Ended]
    /\ UNCHANGED <<tableVars, epochs, artifacts, timer, client>>

\* The timer starts the next run, whatever became of the last one.
NextRun(s) ==
    /\ timer
    /\ sched[s].pc = "down"
    /\ sched' = [sched EXCEPT ![s] = NoRun]
    /\ UNCHANGED <<tableVars, epochs, artifacts, timer, deaths, client>>

SchedulerStep(s) ==
    \/ ReadOps(s)
    \/ CheckPersisted(s)
    \/ PutArtifact(s)
    \/ InsertEpoch(s)
    \/ NextRun(s)

-----------------------------------------------------------------------------
\* What a client reads: an epoch it listed before, or an answer that one
\* request puts together from two reads, or the pages of a view.
AllKinds == {"epoch", "export", "provenance", "verdict", "cost", "audit",
             "timeline", "incidents"}

Idle == [pc |-> "idle", kind |-> "epoch", ops |-> {}, verdicts |-> {}, log |-> {},
         epochs |-> {}, want |-> NoEpoch, base |-> {}, got |-> <<>>]

Steps == {"idle", "ops", "verdicts", "log", "list", "compute", "ask", "detail",
          "recheck", "recompute", "load", "put", "page", "done"}

\* The two reads of an answer.  The epochs of an export are those of ListEpochs;
\* its object is put before its row is inserted, both under a new id.
ExportReads == <<"ops", "verdicts">>
ProvenanceReads == <<"ops", "verdicts">>
VerdictReads == <<"verdicts", "ops">>
CostReads == <<"verdicts", "log">>

Reads == [export |-> ExportReads, provenance |-> ProvenanceReads,
          verdict |-> VerdictReads, cost |-> CostReads]

After(kind, step) == IF step = Reads[kind][1] THEN Reads[kind][2] ELSE "done"

Paged == {"audit", "timeline", "incidents"}

First(kind) ==
    CASE kind = "epoch" -> "list"
      [] kind \in Paged -> "page"
      [] OTHER -> Reads[kind][1]

At(c, step) == client[c].pc = step

ClientOnly == UNCHANGED <<tableVars, epochs, schedVars>>

Ask(c, kind) ==
    /\ client[c].pc \in {"idle", "done"}
    /\ client' = [client EXCEPT ![c] = [Idle EXCEPT !.pc = First(kind), !.kind = kind]]
    /\ ClientOnly /\ UNCHANGED artifacts

\* The interventions of the verdicts that the cost of a run is summed over.
CountedLog(c) == log \cap {v.id : v \in client[c].verdicts}

ReadTable(c) ==
    /\ client[c].pc \in {"ops", "verdicts", "log"}
    /\ LET next == After(client[c].kind, client[c].pc)
       IN  client' = [client EXCEPT ![c] =
             CASE At(c, "ops")      -> [@ EXCEPT !.pc = next, !.ops = ops]
               [] At(c, "verdicts") -> [@ EXCEPT !.pc = next, !.verdicts = verdicts]
               [] At(c, "log")      -> [@ EXCEPT !.pc = next, !.log = CountedLog(c)]]
    /\ ClientOnly /\ UNCHANGED artifacts

Found(c, step, found) ==
    client' = [client EXCEPT ![c] = [@ EXCEPT !.pc = step, !.epochs = found]]

Goto(c, step) == client' = [client EXCEPT ![c].pc = step]

Computed == IF ops = {} THEN {} ELSE {EpochOf(ops)}

\* _computed_epochs: the persisted epochs, or one computed from the operations.
ListEpochs(c) ==
    /\ \/ At(c, "list") /\ Found(c, IF epochs = {} THEN "compute" ELSE "ask", epochs)
       \/ At(c, "compute") /\ Found(c, "ask", Computed)
    /\ ClientOnly /\ UNCHANGED artifacts

WantEpoch(c) ==
    /\ At(c, "ask")
    /\ \E e \in client[c].epochs :
          client' = [client EXCEPT ![c] = [@ EXCEPT !.pc = "detail", !.want = e, !.epochs = {}]]
    /\ ClientOnly /\ UNCHANGED artifacts

NotFound(c) == client' = [client EXCEPT ![c] = Idle]

\* epoch_detail looks among the persisted epochs, and in the list if there are
\* none; the artifact counts only if it found some at the first read.
FindEpoch(c) ==
    /\ \/ /\ At(c, "detail")
          /\ IF client[c].want \in epochs THEN Goto(c, "load")
             ELSE IF epochs = {} THEN Goto(c, "recheck") ELSE NotFound(c)
       \/ /\ At(c, "recheck")
          /\ IF client[c].want \in epochs THEN Goto(c, "put")
             ELSE IF epochs = {} THEN Goto(c, "recompute") ELSE NotFound(c)
       \/ /\ At(c, "recompute")
          /\ IF client[c].want \in Computed THEN Goto(c, "put") ELSE NotFound(c)
    /\ ClientOnly /\ UNCHANGED artifacts

\* The artifact's EER, or one signed now and put.
LoadArtifact(c) ==
    /\ At(c, "load")
    /\ Goto(c, IF client[c].want \in artifacts THEN "done" ELSE "put")
    /\ ClientOnly /\ UNCHANGED artifacts

SignEpoch(c) ==
    /\ At(c, "put")
    /\ artifacts' = artifacts \cup {client[c].want}
    /\ Goto(c, "done")
    /\ ClientOnly

-----------------------------------------------------------------------------
AuditRows == {[at |-> stamp[o], id |-> o] : o \in ops}

TimelineRows == {[at |-> v.at, id |-> v.id] : v \in verdicts}

IncidentRows == {[at |-> v.at, id |-> v.id] : v \in {w \in verdicts : Pending(w)}}

RowsOf(kind) ==
    CASE kind = "audit" -> AuditRows
      [] kind = "timeline" -> TimelineRows
      [] kind = "incidents" -> IncidentRows

\* Mutant: rows of the cursor's own time are on the page before it.
OlderStrictly(row, cursor) == row.at < cursor.at

\* The rows behind a cursor, newest first.
Older(row, cursor) ==
    \/ row.at < cursor.at
    \/ row.at = cursor.at /\ row.id < cursor.id

Behind(rows, got) == IF got = <<>> THEN rows ELSE {r \in rows : Older(r, Last(got))}

Newer(row, other) ==
    \/ row.at > other.at
    \/ row.at = other.at /\ row.id > other.id

PageOf(rows) ==
    LET nth(i) == CHOOSE r \in rows : Cardinality({q \in rows : Newer(q, r)}) = i - 1
    IN  [i \in 1..(IF Cardinality(rows) > PageSize THEN PageSize ELSE Cardinality(rows))
           |-> nth(i)]

\* A page is cut from the rows as they are now; a shorter rest has no cursor.
NextPage(c) ==
    /\ At(c, "page")
    /\ LET now  == RowsOf(client[c].kind)
           rest == Behind(now, client[c].got)
       IN  client' = [client EXCEPT ![c] =
             [@ EXCEPT !.pc = IF Cardinality(rest) > PageSize THEN "page" ELSE "done",
                       !.base = IF client[c].got = <<>> THEN now ELSE client[c].base,
                       !.got = client[c].got \o PageOf(rest)]]
    /\ ClientOnly /\ UNCHANGED artifacts

-----------------------------------------------------------------------------
Init ==
    /\ clock = 1
    /\ stamp = [o \in Op |-> 0]
    /\ ops = {} /\ verdicts = {} /\ log = {}
    /\ epochs = {} /\ artifacts = {}
    /\ sched = [s \in Scheduler |-> NoRun]
    /\ timer \in BOOLEAN
    /\ deaths = 0
    /\ client = [c \in Client |-> Idle]

TableStep ==
    \/ Tick
    \/ \E o \in Op : Receive(o) \/ Commit(o) \/ PublishLate(o)
    \/ \E v \in verdicts : Resolve(v)

ClientStep(c) ==
    \/ ReadTable(c)
    \/ ListEpochs(c)
    \/ WantEpoch(c)
    \/ FindEpoch(c)
    \/ LoadArtifact(c)
    \/ SignEpoch(c)
    \/ NextPage(c)

Next ==
    \/ TableStep
    \/ \E s \in Scheduler : SchedulerStep(s) \/ Die(s)
    \/ \E c \in Client : ClientStep(c) \/ \E kind \in AllKinds : Ask(c, kind)

Spec == Init /\ [][Next]_vars

-----------------------------------------------------------------------------
\* A scheduler that is about to insert an epoch has put its artifact.
TypeOK ==
    /\ clock \in Nat
    /\ stamp \in [Op -> Nat]
    /\ ops \subseteq {o \in Op : stamp[o] # 0}
    /\ \A v \in verdicts : v.op \in ops /\ v.id = IF v.late THEN LateId(v.op) ELSE v.op
    /\ log \subseteq ops
    /\ \A s \in Scheduler :
          /\ sched[s].pc \in {"idle", "check", "put", "insert", "down"}
          /\ sched[s].pc = "insert" => sched[s].epoch \in artifacts
    /\ timer \in BOOLEAN /\ deaths \in Nat
    /\ \A c \in Client : client[c].pc \in Steps /\ client[c].kind \in AllKinds

\* Every epoch that is persisted or was handed to a client has its signed
\* artifact, and the artifact names its operations: of all sets of chain hashes,
\* stored or not, only theirs has its root and count (epoch_scheduler.py:88 and
\* merkle.py:41).
EpochsBacked ==
    /\ epochs \subseteq artifacts
    /\ \A c \in Client :
          At(c, "done") /\ client[c].kind = "epoch" => client[c].want \in artifacts
    /\ \A e \in artifacts :
          \E S \in SUBSET ops :
             /\ Covers(S, e)
             /\ \A H \in DOMAIN RootOf :
                   Cardinality(H) = e.count /\ RootOf[H] = e.root
                      => H = {Hash[o] : o \in S}

\* Of two persisted epochs one covers all that the other does, in whatever
\* order two schedulers insert them and operations commit
\* (epoch_scheduler.py:71).
EpochsNested ==
    \A e, f \in epochs : OpsOf(e) \subseteq OpsOf(f) \/ OpsOf(f) \subseteq OpsOf(e)

\* Committed operations never stay out of all persisted epochs: of two loops that
\* collide one goes on, and a timer starts the next run (epoch_scheduler.py:123).
EpochsCatchUp == []<>(\A o \in ops : \E e \in epochs : o \in OpsOf(e))

\* An answer that is put together from two reads agrees with itself: each
\* decided operation in it comes with its verdict, each verdict with its
\* operation, each gate verdict with its intervention (reads.py:140).
AnswersAgree ==
    \A c \in Client :
       At(c, "done") =>
          LET gates == {v.op : v \in {w \in client[c].verdicts : ~w.late}}
          IN  CASE client[c].kind \in {"export", "provenance"} ->
                     Decided \cap client[c].ops \subseteq gates
                [] client[c].kind = "verdict" ->
                     \A v \in client[c].verdicts : v.op \in client[c].ops
                [] client[c].kind = "cost" -> client[c].log = gates
                [] OTHER -> TRUE

\* Whatever commits or is resolved between two pages, no row is on two pages and
\* none is missing that was there from the first page to the last (audit.py:73).
PagesExact ==
    \A c \in Client :
       LET got == client[c].got
       IN  /\ \A i, j \in DOMAIN got : i < j => Older(got[j], got[i])
           /\ At(c, "done") /\ client[c].kind \in Paged =>
                 client[c].base \cap RowsOf(client[c].kind) \subseteq
                    {got[i] : i \in DOMAIN got}

\* The loops and the timer go on.
FairSpec == Spec /\ \A s \in Scheduler : WF_vars(SchedulerStep(s))
=============================================================================
