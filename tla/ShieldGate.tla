------------------------------ MODULE ShieldGate -----------------------------
(***************************************************************************)
(* The gate of the SDK in an agent's tool loop (instrument/agentdojo/      *)
(* elements.py): ShieldGuard asks the server for a verdict on every tool   *)
(* call of a message, ShieldedToolsExecutor runs or skips the calls, and   *)
(* ShieldRecorder reports what happened.  The client builds one hash chain *)
(* of its records and never learns which of them the server has taken.     *)
(*                                                                         *)
(* The decide requests of the guard run in a thread pool; the guard waits  *)
(* for its budget and goes on.  A request whose caller has given up may    *)
(* still be queued, on its way, or being served.  The server is the atomic *)
(* step that Ingest details: it takes a record whose prev_chain_hash is    *)
(* the hash of its own chain and refuses every other.  A chain hash is the *)
(* sequence of records it commits to.                                      *)
(*                                                                         *)
(* One run of one agent.  The effect of a call on the environment is the   *)
(* number of the call; arguments, results and the other signals are left   *)
(* out.                                                                    *)
(***************************************************************************)
EXTENDS Naturals, Sequences, FiniteSets

CONSTANTS
    Tool,           \* tools the model may call
    Runtime,        \* those the runtime has
    Closed,         \* those with FailMode.CLOSED
    Id,             \* tool call ids a provider may assign
    NoId,           \* no id
    Ruling,         \* verdicts the server gives
    EscalateMode,   \* "block", "approve" or "live"
    PoolSize,       \* worker threads of the guard's pool
    MaxBatch,       \* bound: tool calls of a message
    MaxCalls        \* bound: tool calls of the run

Verdict == {"PASS", "ALERT", "REWRITE", "ESCALATE", "BLOCK", "ROLLBACK"}

ASSUME ShieldGateAssumption ==
    /\ Runtime \subseteq Tool
    /\ Closed \subseteq Tool
    /\ Ruling \subseteq Verdict
    /\ NoId \notin Id
    /\ \A id \in Id : id \notin Nat   \* "__shield_idx_0" is no provider's id
    /\ EscalateMode \in {"block", "approve", "live"}
    /\ PoolSize \in Nat \ {0}
    /\ MaxBatch \in Nat
    /\ MaxCalls \in Nat

VARIABLES
    message,    \* the tool calls of the last assistant message
    calls,      \* tool calls made so far
    pc,         \* the element that runs, or waits
    pos,        \* the tool call it is at
    decisions,  \* extra_args["shield"]["decisions"], in order of insertion
    head,       \* _chain_head
    env,        \* effects on the environment
    restored,   \* the snapshot a ROLLBACK has put in its place, if any
    ran,        \* history: calls handed to the runtime
    queue,      \* requests the pool has not started
    busy,       \* records a thread of the pool waits on
    wire,       \* requests sent and not served
    log,        \* the agent's chain on the server
    ruled,      \* the server's verdict on each call
    answered    \* calls whose verdict has reached the pool

clientVars == <<message, calls, pc, pos, decisions, head, env, restored, ran>>
serverVars == <<log, ruled>>
vars       == <<clientVars, queue, busy, wire, serverVars, answered>>

CallNumber == 1..MaxCalls

\* Records of a call; `ref` tells whose verdict verdict_ref names.
Rec == [call : CallNumber, phase : {"pre"}, ref : {"none"}]
         \cup [call : CallNumber, phase : {"post"}, ref : {"server", "local"}]

Request == [rec : Rec, prev : Seq(Rec)]

ToolCall == [n : CallNumber, tool : Tool, key : Id \cup Nat]

\* _ShieldDecision
DecisionRec ==
    [key : Id \cup Nat, call : CallNumber, verdict : Verdict,
     degraded : BOOLEAN, snapshot : SUBSET CallNumber, recorded : BOOLEAN]

\* The loop, the pool, the wire and the chains keep their types: the guard goes
\* on only when it has a verdict or has made one up (elements.py:213).
TypeOK ==
    /\ message \in Seq(ToolCall)
    /\ calls \in 0..MaxCalls
    /\ pc \in {"llm", "guard", "decide", "execute", "record", "submit"}
    /\ pos \in Nat
    /\ decisions \in Seq(DecisionRec)
    /\ head \in Seq(Rec)
    /\ env \in SUBSET CallNumber
    /\ restored \in SUBSET SUBSET CallNumber
    /\ ran \in SUBSET CallNumber
    /\ queue \in Seq(Request)
    /\ busy \in SUBSET Rec
    /\ wire \in SUBSET Request
    /\ log \in Seq(Rec)
    /\ ruled \in [CallNumber -> Verdict \cup {"none"}]
    /\ answered \in SUBSET CallNumber

-----------------------------------------------------------------------------
Pre(n) == [call |-> n, phase |-> "pre", ref |-> "none"]

Post(d) == [call |-> d.call, phase |-> "post",
            ref |-> IF d.degraded THEN "local" ELSE "server"]

\* _tool_call_key
ToolCallKey(id, i) == IF id = NoId THEN i ELSE id

\* Mutant: setdefault, which keeps the decision that is there.
KeepDecision(d) ==
    IF \E i \in 1..Len(decisions) : decisions[i].key = d.key
    THEN decisions
    ELSE Append(decisions, d)

\* decisions[key] = decision: a key that is there keeps its place.
SetDecision(d) ==
    IF \E i \in 1..Len(decisions) : decisions[i].key = d.key
    THEN [i \in 1..Len(decisions) |->
             IF decisions[i].key = d.key THEN d ELSE decisions[i]]
    ELSE Append(decisions, d)

DecisionOf(key) == CHOOSE i \in 1..Len(decisions) : decisions[i].key = key

\* synthetic_degraded_verdict under the fail policy.
Degraded(tool) == IF tool \in Closed THEN "BLOCK" ELSE "ALERT"

Current == message[pos]

-----------------------------------------------------------------------------
\* The model answers with tool calls.  Ids are distinct within a message; they
\* and the positions may come back in later messages.
Generate ==
    /\ pc = "llm"
    /\ \E len \in 1..MaxBatch :
          \E tools \in [1..len -> Tool], ids \in [1..len -> Id \cup {NoId}] :
             /\ calls + len <= MaxCalls
             /\ \A i, j \in 1..len : i # j /\ ids[i] = ids[j] => ids[i] = NoId
             /\ message' = [i \in 1..len |->
                   [n |-> calls + i, tool |-> tools[i],
                    key |-> ToolCallKey(ids[i], i)]]
             /\ calls' = calls + len
    /\ pc' = "guard"
    /\ pos' = 1
    /\ UNCHANGED <<decisions, head, env, restored, ran, queue, busy, wire,
                   serverVars, answered>>

\* ShieldGuard.query: build the record of the next call and hand it to the
\* pool.
GuardSend ==
    /\ pc = "guard"
    /\ pos <= Len(message)
    /\ queue' = Append(queue, [rec |-> Pre(Current.n), prev |-> head])
    /\ pc' = "decide"
    /\ UNCHANGED <<message, calls, pos, decisions, head, env, restored, ran,
                   busy, wire, serverVars, answered>>

\* Mutant: the chain head moves only past records the server has answered.
DecidedIfAnswered(verdict, degraded) ==
    /\ head' = IF degraded THEN head ELSE Append(head, Pre(Current.n))
    /\ decisions' = SetDecision(
          [key |-> Current.key, call |-> Current.n, verdict |-> verdict,
           degraded |-> degraded, snapshot |-> env, recorded |-> FALSE])
    /\ pos' = pos + 1
    /\ pc' = "guard"
    /\ UNCHANGED <<message, calls, env, restored, ran, queue, busy, wire,
                   serverVars, answered>>

\* The guard goes on with a verdict: the chain head moves past the record in
\* any case.
Decided(verdict, degraded) ==
    /\ head' = Append(head, Pre(Current.n))
    /\ decisions' = SetDecision(
          [key |-> Current.key, call |-> Current.n, verdict |-> verdict,
           degraded |-> degraded, snapshot |-> env, recorded |-> FALSE])
    /\ pos' = pos + 1
    /\ pc' = "guard"
    /\ UNCHANGED <<message, calls, env, restored, ran, queue, busy, wire,
                   serverVars, answered>>

GuardAnswer ==
    /\ pc = "decide"
    /\ Current.n \in answered
    /\ Decided(ruled[Current.n], FALSE)

\* Mutant: the guard waits until its request has failed.
GuardNoBudget ==
    /\ pc = "decide"
    /\ \A i \in 1..Len(queue) : queue[i].rec # Pre(Current.n)
    /\ Pre(Current.n) \notin busy
    /\ Decided(Degraded(Current.tool), TRUE)

\* The budget is spent, or the request has failed.
GuardGiveUp ==
    /\ pc = "decide"
    /\ Decided(Degraded(Current.tool), TRUE)

GuardDone ==
    /\ pc = "guard"
    /\ pos > Len(message)
    /\ pc' = "execute"
    /\ pos' = 1
    /\ UNCHANGED <<message, calls, decisions, head, env, restored, ran, queue,
                   busy, wire, serverVars, answered>>

\* ShieldedToolsExecutor.query, one call: whether the verdict lets it run is
\* up to the handler of a live escalation only.
MayRun(verdict) ==
    \/ verdict \in {"PASS", "ALERT", "REWRITE"}
    \/ verdict = "ESCALATE" /\ EscalateMode \in {"approve", "live"}

MayNotRun(verdict) ==
    \/ verdict \in {"BLOCK", "ROLLBACK"}
    \/ verdict = "ESCALATE" /\ EscalateMode \in {"block", "live"}

\* Mutant: a rollback restores the environment the other calls run on.
ExecuteInPlace ==
    /\ pc = "execute"
    /\ pos <= Len(message)
    /\ LET d == decisions[DecisionOf(Current.key)]
       IN  \/ /\ MayRun(d.verdict)
              /\ env' = env \cup {Current.n}
              /\ ran' = ran \cup {Current.n}
           \/ /\ MayNotRun(d.verdict)
              /\ env' = IF d.verdict = "ROLLBACK" THEN d.snapshot ELSE env
              /\ UNCHANGED ran
    /\ pos' = pos + 1
    /\ UNCHANGED <<message, calls, pc, decisions, head, restored, queue, busy,
                   wire, serverVars, answered>>

Execute ==
    /\ pc = "execute"
    /\ pos <= Len(message)
    /\ LET d == decisions[DecisionOf(Current.key)]
       IN  \/ /\ Current.tool \notin Runtime
              /\ UNCHANGED <<env, restored, ran>>
           \/ /\ Current.tool \in Runtime
              /\ MayRun(d.verdict)
              /\ env' = env \cup {Current.n}
              /\ ran' = ran \cup {Current.n}
              /\ UNCHANGED restored
           \/ /\ Current.tool \in Runtime
              /\ MayNotRun(d.verdict)
              /\ restored' = IF d.verdict = "ROLLBACK" THEN {d.snapshot} ELSE restored
              /\ UNCHANGED <<env, ran>>
    /\ pos' = pos + 1
    /\ UNCHANGED <<message, calls, pc, decisions, head, queue, busy, wire,
                   serverVars, answered>>

\* The executor returns out_env.
ExecuteDone ==
    /\ pc = "execute"
    /\ pos > Len(message)
    /\ env' = IF restored = {} THEN env ELSE CHOOSE snapshot \in restored : TRUE
    /\ restored' = {}
    /\ pc' = "record"
    /\ UNCHANGED <<message, calls, pos, decisions, head, ran, queue, busy, wire,
                   serverVars, answered>>

\* ShieldRecorder.query: the first decision not reported yet.
Unrecorded == {i \in 1..Len(decisions) : ~decisions[i].recorded}

NextUnrecorded == CHOOSE i \in Unrecorded : \A j \in Unrecorded : i <= j

RecordSend ==
    /\ pc = "record"
    /\ Unrecorded # {}
    /\ LET post == Post(decisions[NextUnrecorded])
       IN  /\ wire' = wire \cup {[rec |-> post, prev |-> head]}
           /\ head' = Append(head, post)
    /\ pc' = "submit"
    /\ UNCHANGED <<message, calls, pos, decisions, env, restored, ran, queue,
                   busy, serverVars, answered>>

\* The request has been answered, has failed or timed out: the recorder does
\* not tell.
RecordReturn ==
    /\ pc = "submit"
    /\ decisions' = [decisions EXCEPT ![NextUnrecorded].recorded = TRUE]
    /\ pc' = "record"
    /\ UNCHANGED <<message, calls, pos, head, env, restored, ran, queue, busy,
                   wire, serverVars, answered>>

RecordDone ==
    /\ pc = "record"
    /\ Unrecorded = {}
    /\ pc' = "llm"
    /\ UNCHANGED <<message, calls, pos, decisions, head, env, restored, ran,
                   queue, busy, wire, serverVars, answered>>

-----------------------------------------------------------------------------
\* A thread of the pool starts on the oldest request.
Dispatch ==
    /\ queue # <<>>
    /\ Cardinality(busy) < PoolSize
    /\ wire' = wire \cup {Head(queue)}
    /\ busy' = busy \cup {Head(queue).rec}
    /\ queue' = Tail(queue)
    /\ UNCHANGED <<clientVars, serverVars, answered>>

\* The timeout of the HTTP client: the thread is free, the request is not
\* called back.
ThreadGivesUp ==
    /\ \E rec \in busy : busy' = busy \ {rec}
    /\ UNCHANGED <<clientVars, queue, wire, serverVars, answered>>

\* The server takes a record; the answer may be lost.
Accept(q) ==
    /\ q \in wire
    /\ q.prev = log
    /\ log' = Append(log, q.rec)
    /\ IF q.rec.phase = "pre"
       THEN /\ \E verdict \in Ruling : ruled' = [ruled EXCEPT ![q.rec.call] = verdict]
            /\ \/ UNCHANGED answered
               \/ q.rec \in busy /\ answered' = answered \cup {q.rec.call}
       ELSE UNCHANGED <<ruled, answered>>
    /\ wire' = wire \ {q}
    /\ busy' = busy \ {q.rec}
    /\ UNCHANGED <<clientVars, queue>>

\* The record is refused, the server fails, or the request is lost.
Refuse(q) ==
    /\ q \in wire
    /\ wire' = wire \ {q}
    /\ busy' = busy \ {q.rec}
    /\ UNCHANGED <<clientVars, queue, serverVars, answered>>

Init ==
    /\ message = <<>>
    /\ calls = 0
    /\ pc = "llm"
    /\ pos = 1
    /\ decisions = <<>>
    /\ head = <<>>
    /\ env = {}
    /\ restored = {}
    /\ ran = {}
    /\ queue = <<>>
    /\ busy = {}
    /\ wire = {}
    /\ log = <<>>
    /\ ruled = [n \in CallNumber |-> "none"]
    /\ answered = {}

ElementStep ==
    \/ GuardSend
    \/ GuardAnswer
    \/ GuardGiveUp
    \/ GuardDone
    \/ Execute
    \/ ExecuteDone
    \/ RecordSend
    \/ RecordReturn
    \/ RecordDone

Next ==
    \/ Generate
    \/ ElementStep
    \/ Dispatch
    \/ ThreadGivesUp
    \/ \E q \in wire : Accept(q) \/ Refuse(q)

Spec == Init /\ [][Next]_vars

\* The thread of the run goes on: every wait of it has a timeout.
FairSpec == Spec /\ WF_vars(ElementStep)

-----------------------------------------------------------------------------
\* A tool that fails closed is only ever run on a verdict the server gave on
\* that very call, and one that lets it run: no timeout, no answer that comes
\* late or to another call, and no key that comes back in a later message
\* (elements.py:109) opens the gate.
ClosedToolsGated ==
    \A i \in 1..Len(message) :
       message[i].n \in ran /\ message[i].tool \in Closed
          => MayRun(ruled[message[i].n])

\* The chain of the server is what the client believes it to be, up to some
\* record: requests of the pool that arrive late or out of turn
\* (elements.py:213) never make the two chains fork.
Believed == IF pc = "decide" THEN Append(head, Pre(Current.n)) ELSE head

ServerChainIsPrefix ==
    /\ Len(log) <= Len(Believed)
    /\ \A i \in 1..Len(log) : log[i] = Believed[i]

\* A ROLLBACK leaves no effect of its own message behind, of the calls before
\* it or after it (elements.py:375).
RollbackUndoes ==
    pc = "record" =>
       \A i \in 1..Len(message) :
          /\ message[i].tool \in Runtime
          /\ decisions[DecisionOf(message[i].key)].verdict = "ROLLBACK"
          => \A j \in 1..Len(message) : message[j].n \notin env

\* Whatever the server does, the loop gets through every message.
LoopGoesOn == pc # "llm" ~> pc = "llm"
=============================================================================
