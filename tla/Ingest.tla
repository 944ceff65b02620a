------------------------------- MODULE Ingest -------------------------------
(***************************************************************************)
(* The ingest of signed records by shield-server: submit_operation         *)
(* (ingest.py), decide and record with their shared _ingest_prefix         *)
(* (governance.py).  Every request is a task that runs one storage call    *)
(* per step; the steps of concurrent requests, and of the management calls *)
(* of Registry, interleave at each await.  The only mutual exclusion is    *)
(* what the database enforces when a transaction commits: the keys         *)
(* operations(operation_id) and operations(agent_id, seq_no), and the      *)
(* foreign key operations(agent_id) -> agents.                             *)
(*                                                                         *)
(* SHA-256 is taken as injective: a chain hash is the sequence of entries  *)
(* it commits to, GENESIS_CHAIN_HASH the empty one.  Body stands for the   *)
(* payload hash and issued_at.  A record that validate_record_fields       *)
(* refuses changes nothing, so the requests here are those it lets pass;   *)
(* ReplayWindow treats its time checks.                                    *)
(***************************************************************************)
EXTENDS Registry, Sequences

CONSTANTS
    Req,        \* slots for requests in flight; a slot is used again
    Op,         \* operation ids (record_id of a governance record)
    Body,
    Nonce,
    Kinds       \* routes in use, a subset of AllKinds

AllKinds == {"eor", "pre_exec", "post_exec"}

ASSUME IngestAssumption == Kinds \subseteq AllKinds

VARIABLES
    operations,     \* rows of the table operations
    receipts,       \* operation_id of each row of the table receipts
    verdicts,       \* record_id of each row of governance_verdicts
    interventions,  \* record_id of each row of intervention_log
    nonces,         \* live keys nonce:{org}:{nonce} of the cache
    hint,           \* chain:{agent}:latest of the cache, a set while unset
    envelopes,      \* records in the object store, one per object key
    ears,           \* signed receipts in the object store, one per object key
    gateVerdicts,   \* record_id of the signed verdicts in the object store
    actionStream,   \* record_id of the entries of shield:actions
    verdictStream,  \* record_id of the entries of shield:verdicts
    req,            \* control state of each request
    barred          \* history: a request and a condition not met since it arrived

dbVars     == <<operations, receipts, verdicts, interventions>>
objectVars == <<envelopes, ears, gateVerdicts>>
streamVars == <<actionStream, verdictStream>>
serverVars == <<dbVars, nonces, hint, objectVars, streamVars>>
vars       == <<registryVars, serverVars, req, barred>>

-----------------------------------------------------------------------------
Entry == [op : Op, body : Body]

ChainHash == Seq(Entry)
Genesis   == <<>>

Record == [kind : Kinds, op : Op, body : Body, org : Org, agent : Agent,
           kid : Key, signer : Org, nonce : Nonce, prev : ChainHash]

\* Mutant: the preimage leaves the payload hash out.
DeriveWithoutPayload(rec) == Append(rec.prev, [op |-> rec.op])

\* chain_hash(prev_chain_hash, payload_hash, operation_id, issued_at)
DeriveChainHash(rec) == Append(rec.prev, [op |-> rec.op, body |-> rec.body])

OperationRow == [rec : Record, seq : Nat, chain : ChainHash]
Ear == [org : Org, agent : Agent, op : Op, seq : Nat, chain : ChainHash]

Steps == {"nonce", "agent", "key", "prev", "envelope", "receipt", "gov",
          "commit", "fan", "hint", "verdict"}

ReqState == [pc : {"idle"}] \cup [pc : Steps, rec : Record, seq : Nat]

\* Tables, cache, objects, streams and requests keep their types: a chain hash
\* always commits to whole entries (canonical.py:110).
TypeOK ==
    /\ RegistryTypeOK
    /\ operations \subseteq OperationRow
    /\ receipts \subseteq Op
    /\ verdicts \subseteq Op
    /\ interventions \subseteq Op
    /\ nonces \subseteq Org \X Nonce
    /\ hint \in [Agent -> SUBSET ChainHash]
    /\ envelopes \subseteq Record
    /\ ears \subseteq Ear
    /\ gateVerdicts \subseteq Op
    /\ actionStream \in Seq(Op)
    /\ verdictStream \in Seq(Op)
    /\ req \in [Req -> ReqState]
    /\ barred \subseteq Req \X {"agent", "key"}

-----------------------------------------------------------------------------
RowsOf(a) == {row \in operations : row.rec.agent = a}

\* The rows that ORDER BY seq_no DESC LIMIT 1 may return.
Latest(a) == {row \in RowsOf(a) : \A other \in RowsOf(a) : other.seq <= row.seq}

\* Mutant: no foreign key from operations to agents.
NeverReferenced == {}

\* The agents whose rows refer to them.
Referenced == {row.rec.agent : row \in operations}

SameObject(x, rec) == x.org = rec.org /\ x.agent = rec.agent /\ x.op = rec.op

Goto(r, pc) == req' = [req EXCEPT ![r].pc = pc]

End(r) == req' = [req EXCEPT ![r] = Idle]

\* What a client can put into prev_chain_hash: a hash the server has handed
\* out, or the one it derives for a record that is still in flight on top of
\* such a hash (the bound: one record ahead of the server's answers).
CommittedHashes == {Genesis} \cup {row.chain : row \in operations}

InFlight == {req[r].rec : r \in {q \in Req : req[q].pc # "idle"}}

KnownHashes ==
    CommittedHashes
      \cup {DeriveChainHash(rec) : rec \in {x \in InFlight : x.prev \in CommittedHashes}}

\* A request arrives; the route binds org_id to the authenticated caller.
Receive(r) ==
    /\ req[r].pc = "idle"
    /\ \E kind \in Kinds, op \in Op, body \in Body, o \in Org, a \in Agent,
          k \in Key, signer \in Org, n \in Nonce, prev \in KnownHashes :
          req' = [req EXCEPT ![r] =
             [pc  |-> "nonce",
              rec |-> [kind |-> kind, op |-> op, body |-> body, org |-> o,
                       agent |-> a, kid |-> k, signer |-> signer,
                       nonce |-> n, prev |-> prev],
              seq |-> 0]]
    /\ UNCHANGED <<registryVars, serverVars>>

\* SET nonce NX: the nonce is spent even if a later step refuses the record.
CheckNonce(r) ==
    /\ req[r].pc = "nonce"
    /\ LET key == <<req[r].rec.org, req[r].rec.nonce>>
       IN  \/ /\ key \in nonces
              /\ End(r)
              /\ UNCHANGED nonces
           \/ /\ key \notin nonces
              /\ nonces' = nonces \cup {key}
              /\ Goto(r, "agent")
    /\ UNCHANGED <<registryVars, dbVars, hint, objectVars, streamVars>>

\* Mutant: the status of the agent is not looked at.
CheckAgentExists(r) ==
    /\ req[r].pc = "agent"
    /\ IF AgentRows(req[r].rec.agent, req[r].rec.org) # {}
       THEN Goto(r, "key") ELSE End(r)
    /\ UNCHANGED <<registryVars, serverVars>>

CheckAgent(r) ==
    /\ req[r].pc = "agent"
    /\ LET rec == req[r].rec
       IN  IF \E row \in AgentRows(rec.agent, rec.org) : row.status # "frozen"
           THEN Goto(r, "key") ELSE End(r)
    /\ UNCHANGED <<registryVars, serverVars>>

\* The key lookup, and the signature check that follows it without an await.
CheckKey(r) ==
    /\ req[r].pc = "key"
    /\ LET rec == req[r].rec
       IN  IF \E row \in KeyRows(rec.kid, rec.agent) :
                 row.status # "revoked" /\ row.pub = rec.signer
           THEN Goto(r, "prev") ELSE End(r)
    /\ UNCHANGED <<registryVars, serverVars>>

\* prev_chain_hash must be the latest chain hash; next_seq follows from it.
CheckPrev(r) ==
    /\ req[r].pc = "prev"
    /\ LET rec == req[r].rec
           accept(prev, seq) ==
              IF rec.prev = prev
              THEN req' = [req EXCEPT ![r].pc = "envelope", ![r].seq = seq]
              ELSE End(r)
       IN  \/ RowsOf(rec.agent) = {} /\ accept(Genesis, 1)
           \/ \E row \in Latest(rec.agent) : accept(row.chain, row.seq + 1)
    /\ UNCHANGED <<registryVars, serverVars>>

\* Store the signed record under org/agent/op.  put() replaces the object.
PutEnvelope(r) ==
    /\ req[r].pc = "envelope"
    /\ LET rec == req[r].rec
       IN  /\ envelopes' = {e \in envelopes : ~SameObject(e, rec)} \cup {rec}
           /\ Goto(r, CASE rec.kind = "eor"       -> "receipt"
                        [] rec.kind = "pre_exec"  -> "gov"
                        [] rec.kind = "post_exec" -> "commit")
    /\ UNCHANGED <<registryVars, dbVars, nonces, hint, ears, gateVerdicts,
                   streamVars>>

\* submit_operation: sign the receipt and store it under org/agent/receipts/op.
PutReceipt(r) ==
    /\ req[r].pc = "receipt"
    /\ LET rec == req[r].rec
           ear == [org |-> rec.org, agent |-> rec.agent, op |-> rec.op,
                   seq |-> req[r].seq, chain |-> DeriveChainHash(rec)]
       IN  ears' = {e \in ears : ~SameObject(e, rec)} \cup {ear}
    /\ Goto(r, "commit")
    /\ UNCHANGED <<registryVars, dbVars, nonces, hint, envelopes, gateVerdicts,
                   streamVars>>

\* decide: the governance application returns a verdict; the server signs it
\* and stores it.
Govern(r) ==
    /\ req[r].pc = "gov"
    /\ gateVerdicts' = gateVerdicts \cup {req[r].rec.op}
    /\ Goto(r, "commit")
    /\ UNCHANGED <<registryVars, dbVars, nonces, hint, envelopes, ears,
                   streamVars>>

\* Mutant: the table has no UNIQUE (agent_id, seq_no).
ConflictOnId(rec, seq) ==
    \/ \E row \in operations : row.rec.op = rec.op
    \/ \A row \in agents : row.id # rec.agent

\* The constraints of the table operations, checked when the insert commits.
Conflict(rec, seq) ==
    \/ \E row \in operations : row.rec.op = rec.op
    \/ \E row \in RowsOf(rec.agent) : row.seq = seq
    \/ \A row \in agents : row.id # rec.agent

\* Mutant: the verdict is inserted in a statement of its own, before the
\* transaction.
CommitVerdictFirst(r) ==
    /\ req[r].pc = "commit"
    /\ LET rec  == req[r].rec
           only(kind) == IF rec.kind = kind THEN {rec.op} ELSE {}
       IN  /\ verdicts' = verdicts \cup only("pre_exec")
           /\ IF Conflict(rec, req[r].seq)
              THEN End(r) /\ UNCHANGED <<operations, receipts, interventions>>
              ELSE /\ operations' = operations \cup
                         {[rec |-> rec, seq |-> req[r].seq,
                           chain |-> DeriveChainHash(rec)]}
                   /\ receipts' = receipts \cup only("eor")
                   /\ interventions' = interventions \cup only("pre_exec")
                   /\ Goto(r, IF rec.kind = "eor" THEN "hint" ELSE "fan")
    /\ UNCHANGED <<registryVars, nonces, hint, objectVars, streamVars>>

\* Mutant: a conflict is taken for an insert that had been done before, and
\* the request goes on to fan its record out.
CommitTolerant(r) ==
    /\ req[r].pc = "commit"
    /\ LET rec  == req[r].rec
           only(kind) == IF rec.kind = kind THEN {rec.op} ELSE {}
       IN  /\ IF Conflict(rec, req[r].seq)
              THEN UNCHANGED dbVars
              ELSE /\ operations' = operations \cup
                         {[rec |-> rec, seq |-> req[r].seq,
                           chain |-> DeriveChainHash(rec)]}
                   /\ receipts' = receipts \cup only("eor")
                   /\ verdicts' = verdicts \cup only("pre_exec")
                   /\ interventions' = interventions \cup only("pre_exec")
           /\ Goto(r, IF rec.kind = "eor" THEN "hint" ELSE "fan")
    /\ UNCHANGED <<registryVars, nonces, hint, objectVars, streamVars>>

\* One transaction: the operation with its receipt, or with its verdict and
\* intervention rows.  A constraint violation rolls it back and ends the
\* request with an error.
Commit(r) ==
    /\ req[r].pc = "commit"
    /\ LET rec  == req[r].rec
           only(kind) == IF rec.kind = kind THEN {rec.op} ELSE {}
       IN  IF Conflict(rec, req[r].seq)
           THEN End(r) /\ UNCHANGED dbVars
           ELSE /\ operations' = operations \cup
                      {[rec |-> rec, seq |-> req[r].seq,
                        chain |-> DeriveChainHash(rec)]}
                /\ receipts' = receipts \cup only("eor")
                /\ verdicts' = verdicts \cup only("pre_exec")
                /\ interventions' = interventions \cup only("pre_exec")
                /\ Goto(r, IF rec.kind = "eor" THEN "hint" ELSE "fan")
    /\ UNCHANGED <<registryVars, nonces, hint, objectVars, streamVars>>

\* The XADD of _fan_channel2.
Fan(r) ==
    /\ req[r].pc = "fan"
    /\ actionStream' = Append(actionStream, req[r].rec.op)
    /\ Goto(r, "hint")
    /\ UNCHANGED <<registryVars, dbVars, nonces, hint, objectVars, verdictStream>>

\* The chain hint, set by submit_operation and at the end of _fan_channel2.
SetHint(r) ==
    /\ req[r].pc = "hint"
    /\ LET rec == req[r].rec
       IN  /\ hint' = [hint EXCEPT ![rec.agent] = {DeriveChainHash(rec)}]
           /\ IF rec.kind = "pre_exec" THEN Goto(r, "verdict") ELSE End(r)
    /\ UNCHANGED <<registryVars, dbVars, nonces, objectVars, streamVars>>

\* _fan_verdicts, after which decide answers the client.
FanVerdict(r) ==
    /\ req[r].pc = "verdict"
    /\ verdictStream' = Append(verdictStream, req[r].rec.op)
    /\ End(r)
    /\ UNCHANGED <<registryVars, dbVars, nonces, hint, objectVars, actionStream>>

\* Mutant: the error path takes the row of the request back.
AbortUndoing(r) ==
    /\ req[r].pc # "idle"
    /\ operations' = {row \in operations : row.rec # req[r].rec}
    /\ End(r)
    /\ UNCHANGED <<registryVars, receipts, verdicts, interventions, nonces, hint,
                   objectVars, streamVars>>

\* A storage call or the governance application raises, the client goes away,
\* or the process dies: the request ends where it is, nothing is undone.
Abort(r) ==
    /\ req[r].pc # "idle"
    /\ End(r)
    /\ UNCHANGED <<registryVars, serverVars>>

\* The TTL of a nonce key passes.
ExpireNonce ==
    /\ \E key \in nonces : nonces' = nonces \ {key}
    /\ UNCHANGED <<registryVars, dbVars, hint, objectVars, streamVars, req>>

RequestStep(r) ==
    \/ CheckNonce(r)
    \/ CheckAgent(r)
    \/ CheckKey(r)
    \/ CheckPrev(r)
    \/ PutEnvelope(r)
    \/ PutReceipt(r)
    \/ Govern(r)
    \/ Commit(r)
    \/ Fan(r)
    \/ SetHint(r)
    \/ FanVerdict(r)

-----------------------------------------------------------------------------
\* The two conditions the prefix checks, each at a moment of its own.
InForce(rec) ==
    [agent |-> \E row \in AgentRows(rec.agent, rec.org) : row.status = "active",
     key   |-> \E row \in KeyRows(rec.kid, rec.agent) :
                  row.status = "active" /\ row.pub = rec.signer]

\* History: a request is barred by a condition from its arrival on for as
\* long as the condition has never held.
TrackBarred ==
    barred' = {b \in Req \X {"agent", "key"} :
                  /\ req'[b[1]].pc # "idle"
                  /\ req[b[1]].pc = "idle" \/ b \in barred
                  /\ ~InForce(req[b[1]].rec)'[b[2]]}

Init ==
    /\ RegistryInit
    /\ operations = {}
    /\ receipts = {}
    /\ verdicts = {}
    /\ interventions = {}
    /\ nonces = {}
    /\ hint = [a \in Agent |-> {}]
    /\ envelopes = {}
    /\ ears = {}
    /\ gateVerdicts = {}
    /\ actionStream = <<>>
    /\ verdictStream = <<>>
    /\ req = [r \in Req |-> Idle]
    /\ barred = {}

Next ==
    /\ \/ \E r \in Req : Receive(r) \/ RequestStep(r) \/ Abort(r)
       \/ ExpireNonce
       \/ /\ \E t \in Admin : RegistryStep(t, Referenced)
          /\ UNCHANGED <<serverVars, req>>
    /\ TrackBarred

Spec == Init /\ [][Next]_vars

-----------------------------------------------------------------------------
\* Every agent's rows form one chain without gap or fork: a row's hash extends
\* its prev by its own entry and its seq_no counts the entries; every row
\* below it exists, commits to a prefix of the same history, and is unique at
\* its seq_no.  Concurrent requests read the same latest row (ingest.py:144,
\* governance.py:187), so this rests on UNIQUE (agent_id, seq_no) alone.
ChainIntact ==
    /\ \A row \in operations :
          /\ row.chain = DeriveChainHash(row.rec)
          /\ row.seq = Len(row.chain)
          /\ \A k \in 1..row.seq :
                \E below \in RowsOf(row.rec.agent) :
                   below.seq = k /\ below.chain = SubSeq(row.chain, 1, k)
    /\ \A row, other \in operations :
          \/ row.rec.op = other.rec.op
          \/ row.rec.agent = other.rec.agent /\ row.seq = other.seq
          => row = other

\* Whatever is visible of a record is backed by what it refers to: a row by
\* its objects in the store (verify_operation reads them, ingest.py:325 and
\* :376), a receipt, verdict or intervention by the row of its kind, and the
\* hint and stream entries, written after the commit, by a row.
OpsOf(kind) == {row.rec.op : row \in {x \in operations : x.rec.kind = kind}}

Streamed(stream) == {stream[i] : i \in 1..Len(stream)}

EvidenceBacked ==
    /\ \A row \in operations :
          /\ \E e \in envelopes : SameObject(e, row.rec)
          /\ row.rec.kind = "eor" => \E e \in ears : SameObject(e, row.rec)
    /\ OpsOf("pre_exec") \subseteq gateVerdicts
    /\ receipts = OpsOf("eor")
    /\ verdicts = OpsOf("pre_exec")
    /\ interventions = verdicts
    /\ \A a \in Agent : hint[a] \subseteq {row.chain : row \in RowsOf(a)}
    /\ Streamed(actionStream) \subseteq OpsOf("pre_exec") \cup OpsOf("post_exec")
    /\ Streamed(verdictStream) \subseteq verdicts

\* A consumer of shield:actions sees no record twice, and no verdict is
\* published before the action it decides on.
StreamsExact ==
    /\ \A i, j \in 1..Len(actionStream) :
          actionStream[i] = actionStream[j] => i = j
    /\ Streamed(verdictStream) \subseteq Streamed(actionStream)

\* A request whose agent has been frozen or absent ever since it arrived never
\* gets beyond the agent check, one whose key has been revoked, absent or not
\* the signer's never beyond the key check, in whatever order freeze,
\* unfreeze, revoke, delete and new registrations interleave with its steps
\* (ingest.py:111-141): a freeze or revocation stops all that arrive after it.
BarredStopped ==
    \A r \in Req :
       /\ <<r, "agent">> \in barred => req[r].pc \in {"nonce", "agent"}
       /\ <<r, "key">> \in barred => req[r].pc \in {"nonce", "agent", "key"}

\* verify_operation.  It parses what lies under the object key as an operation
\* record before it checks anything: a governance record there ends it with an
\* error.  decide and record put theirs under the same org/agent/id.
Replaced(row) == \E e \in envelopes : SameObject(e, row.rec) /\ e.kind # "eor"

\* The signature of the stored record, under the key that record names.
SignatureHolds(row) ==
    \E e \in envelopes : /\ SameObject(e, row.rec)
                         /\ e.kind = "eor"
                         /\ \E k \in KeyRows(e.kid, e.agent) : k.pub = e.signer

\* The chain hash, and the link to the row below.
LinkHolds(row) ==
    /\ row.chain = DeriveChainHash(row.rec)
    /\ \A below \in RowsOf(row.rec.agent) :
          below.seq = row.seq - 1 => below.chain = row.rec.prev

\* The row of the receipt and the stored receipt.
ReceiptHolds(row) ==
    /\ row.rec.op \in receipts
    /\ \E e \in ears : SameObject(e, row.rec)

Verifies(row) == SignatureHolds(row) /\ LinkHolds(row) /\ ReceiptHolds(row)

\* The chain of an agent as the abstract log sees it: the latest chain hash.
ChainHead(a) ==
    IF RowsOf(a) = {} THEN Genesis
    ELSE (CHOOSE row \in RowsOf(a) : row \in Latest(a)).chain

Chain == INSTANCE HashChain WITH log <- [a \in Agent |-> ChainHead(a)]

\* Ingest, with all its interleavings, aborts and deletions, implements the
\* append-only log of HashChain.
ImplementsHashChain == Chain!Spec
=============================================================================
