---------------------------- MODULE IngestProofs ----------------------------
(***************************************************************************)
(* Proofs about Ingest, for every set of requests, agents, organisations,  *)
(* keys, operation ids and management tasks: its types and its chains      *)
(* first, then what it has written outside the chain, and ReplayWindow for *)
(* every issued_at, every ttl_ms and every pattern of delays.              *)
(***************************************************************************)
EXTENDS IngestHistory, ReplayWindow, SequenceTheorems, TLAPS

-----------------------------------------------------------------------------
(* Type correctness.                                                       *)

\* A request that is not idle carries a record.
LEMMA ActiveRequest ==
    ASSUME TypeOK, NEW r \in Req, req[r].pc # "idle"
    PROVE  req[r] \in [pc : Steps, rec : Record, seq : Nat]
BY DEF TypeOK, ReqState

\* A request that moves on keeps its record; one that ends is idle.
LEMMA GotoType ==
    ASSUME TypeOK, NEW r \in Req, req[r].pc # "idle", NEW pc \in Steps,
           Goto(r, pc)
    PROVE  req' \in [Req -> ReqState]
BY ActiveRequest DEF TypeOK, ReqState, Goto

\* A request that ends leaves a typed slot behind.
LEMMA EndType ==
    ASSUME TypeOK, NEW r \in Req, End(r)
    PROVE  req' \in [Req -> ReqState]
BY DEF TypeOK, ReqState, End, Idle

\* The entry a record adds, and the chain hash derived from it, are typed.
LEMMA DeriveType ==
    ASSUME NEW rec \in Record
    PROVE  /\ rec.prev \in Seq(Entry)
           /\ DeriveChainHash(rec) \in Seq(Entry)
           /\ Len(DeriveChainHash(rec)) = Len(rec.prev) + 1
BY DEF Record, DeriveChainHash, ChainHash, Entry

\* The hashes a client may know are chain hashes.
LEMMA KnownHashesType ==
    ASSUME TypeOK
    PROVE  KnownHashes \subseteq ChainHash
<1>1. CommittedHashes \subseteq ChainHash
  <2>1. Genesis \in ChainHash
    BY DEF ChainHash, Genesis
  <2>2. \A row \in operations : row.chain \in ChainHash
    BY DEF TypeOK, OperationRow
  <2>. QED BY <2>1, <2>2 DEF CommittedHashes
<1>2. \A rec \in InFlight : DeriveChainHash(rec) \in ChainHash
  <2>1. InFlight \subseteq Record
    BY ActiveRequest DEF InFlight
  <2>. QED BY <2>1, DeriveType DEF ChainHash
<1>. QED BY <1>1, <1>2 DEF KnownHashes

\* The registry tables and the management tasks stay typed whatever step a
\* management task takes.
LEMMA RegistryStepType ==
    ASSUME RegistryTypeOK, NEW t \in Admin, RegistryStep(t, Referenced)
    PROVE  RegistryTypeOK'
<1>. USE DEF RegistryTypeOK, AdminEnd, AdminGoto
<1>1. ASSUME admin[t].pc # "idle"
      PROVE  /\ admin[t] \in [pc : {"check", "key", "write"}, cmd : Command]
             /\ [admin EXCEPT ![t] = Idle] \in [Admin -> AdminState]
             /\ \A pc \in {"check", "key", "write"} :
                   [admin EXCEPT ![t] = [pc |-> pc, cmd |-> admin[t].cmd]]
                      \in [Admin -> AdminState]
  BY <1>1 DEF AdminState, Idle
<1>2. CASE AdminCall(t)
  BY <1>2, RegistryAssumption DEF AdminCall, AdminState, Command
<1>3. CASE AdminCheck(t)
  BY <1>1, <1>3 DEF AdminCheck
<1>4. CASE AdminCheckKey(t)
  BY <1>1, <1>4 DEF AdminCheckKey
<1>5. CASE RegisterCommit(t)
  BY <1>1, <1>5 DEF RegisterCommit, Command, AgentRow, KeyRow
<1>6. CASE SetStatusCommit(t)
  <2>1. \A row \in AgentRow : \A s \in {"active", "frozen"} :
           [row EXCEPT !.status = s] \in AgentRow
    BY DEF AgentRow
  <2>2. PICK s \in {"active", "frozen"} :
           /\ agents' = {IF row.id = admin[t].cmd.agent
                         THEN [row EXCEPT !.status = s] ELSE row : row \in agents}
           /\ UNCHANGED keys
           /\ admin' = [admin EXCEPT ![t] = Idle]
    BY <1>6 DEF SetStatusCommit
  <2>3. admin[t].pc # "idle"
    BY <1>6 DEF SetStatusCommit
  <2>4. agents' \subseteq AgentRow
    BY <2>1, <2>2
  <2>. QED BY <1>1, <2>2, <2>3, <2>4
<1>7. CASE RevokeCommit(t)
  <2>1. \A row \in KeyRow : [row EXCEPT !.status = "revoked"] \in KeyRow
    BY DEF KeyRow
  <2>. QED BY <1>1, <1>7, <2>1 DEF RevokeCommit
<1>8. CASE DeleteCommit(t, Referenced)
  BY <1>1, <1>8 DEF DeleteCommit
<1>. QED BY <1>2, <1>3, <1>4, <1>5, <1>6, <1>7, <1>8 DEF RegistryStep

\* The empty tables and idle slots the server starts with are typed.
LEMMA InitType == Init => TypeOK
<1>. SUFFICES ASSUME Init PROVE TypeOK
  OBVIOUS
<1>1. RegistryTypeOK
  BY RegistryAssumption
  DEF Init, RegistryInit, RegistryTypeOK, AgentRow, KeyRow, AdminState, Idle
<1>2. hint \in [Agent -> SUBSET ChainHash]
  BY DEF Init
<1>3. req \in [Req -> ReqState]
  BY DEF Init, ReqState, Idle
<1>. QED BY <1>1, <1>2, <1>3 DEF Init, TypeOK

\* One step of a request.
LEMMA RequestStepType ==
    ASSUME TypeOK, NEW r \in Req, RequestStep(r), TrackBarred
    PROVE  TypeOK'
<1>0. barred' \subseteq Req \X {"agent", "key"}
  BY DEF TrackBarred
<1>1. /\ req[r].pc # "idle"
      /\ UNCHANGED registryVars
  BY DEF RequestStep, CheckNonce, CheckAgent, CheckKey, CheckPrev, PutEnvelope,
         PutReceipt, Govern, Commit, Fan, SetHint, FanVerdict
<1>2. RegistryTypeOK'
  BY <1>1 DEF TypeOK, RegistryTypeOK, registryVars
<1>3. /\ req[r].rec \in Record
      /\ req[r].seq \in Nat
      /\ req[r].rec.op \in Op
      /\ req[r].rec.agent \in Agent
      /\ req[r].rec.org \in Org
      /\ req[r].rec.nonce \in Nonce
      /\ DeriveChainHash(req[r].rec) \in ChainHash
  BY <1>1, ActiveRequest, DeriveType DEF Record, ChainHash
<1>. USE DEF serverVars, dbVars, objectVars, streamVars
<1>4. CASE CheckNonce(r)
  <2>1. req' \in [Req -> ReqState]
    BY <1>1, <1>4, GotoType, EndType DEF CheckNonce, Steps
  <2>. QED BY <1>0, <1>2, <1>3, <1>4, <2>1 DEF CheckNonce, TypeOK
<1>5. CASE CheckAgent(r)
  <2>1. req' \in [Req -> ReqState]
    BY <1>1, <1>5, GotoType, EndType DEF CheckAgent, Steps
  <2>. QED BY <1>0, <1>2, <1>5, <2>1 DEF CheckAgent, TypeOK
<1>6. CASE CheckKey(r)
  <2>1. req' \in [Req -> ReqState]
    BY <1>1, <1>6, GotoType, EndType DEF CheckKey, Steps
  <2>. QED BY <1>0, <1>2, <1>6, <2>1 DEF CheckKey, TypeOK
<1>7. CASE CheckPrev(r)
  <2>1. \A row \in operations : row.seq + 1 \in Nat
    BY DEF TypeOK, OperationRow
  <2>2. req' \in [Req -> ReqState]
    <3>1. ASSUME NEW seq \in Nat,
                 req' = [req EXCEPT ![r].pc = "envelope", ![r].seq = seq]
          PROVE  req' \in [Req -> ReqState]
      <4>1. [req[r] EXCEPT !.pc = "envelope", !.seq = seq] \in ReqState
        BY <1>1, ActiveRequest DEF ReqState, Steps
      <4>. QED BY <3>1, <4>1 DEF TypeOK
    <3>. QED BY <1>7, <2>1, <3>1, EndType DEF CheckPrev, Latest, RowsOf
  <2>3. UNCHANGED serverVars
    BY <1>7 DEF CheckPrev
  <2>. QED BY <1>0, <1>2, <2>2, <2>3 DEF TypeOK
<1>8. CASE PutEnvelope(r)
  <2>1. req' \in [Req -> ReqState]
    <3>1. req[r].rec.kind \in AllKinds
      BY <1>3, IngestAssumption DEF Record
    <3>. QED BY <1>1, <1>8, <3>1, GotoType DEF PutEnvelope, Steps, AllKinds
  <2>. QED BY <1>0, <1>2, <1>3, <1>8, <2>1 DEF PutEnvelope, TypeOK
<1>9. CASE PutReceipt(r)
  <2>1. req' \in [Req -> ReqState]
    BY <1>1, <1>9, GotoType DEF PutReceipt, Steps
  <2>. QED BY <1>0, <1>2, <1>3, <1>9, <2>1 DEF PutReceipt, TypeOK, Ear
<1>10. CASE Govern(r)
  <2>1. req' \in [Req -> ReqState]
    BY <1>1, <1>10, GotoType DEF Govern, Steps
  <2>. QED BY <1>0, <1>2, <1>3, <1>10, <2>1 DEF Govern, TypeOK
<1>11. CASE Commit(r)
  <2>1. req' \in [Req -> ReqState]
    BY <1>1, <1>11, GotoType, EndType DEF Commit, Steps
  <2>2. [rec |-> req[r].rec, seq |-> req[r].seq,
         chain |-> DeriveChainHash(req[r].rec)] \in OperationRow
    BY <1>3 DEF OperationRow
  <2>. QED BY <1>0, <1>2, <1>3, <1>11, <2>1, <2>2 DEF Commit, TypeOK
<1>12. CASE Fan(r)
  <2>1. req' \in [Req -> ReqState]
    BY <1>1, <1>12, GotoType DEF Fan, Steps
  <2>2. actionStream' \in Seq(Op)
    BY <1>3, <1>12 DEF Fan, TypeOK
  <2>. QED BY <1>0, <1>2, <1>12, <2>1, <2>2 DEF Fan, TypeOK
<1>14. CASE SetHint(r)
  <2>1. req' \in [Req -> ReqState]
    BY <1>1, <1>14, GotoType, EndType DEF SetHint, Steps
  <2>2. hint' \in [Agent -> SUBSET ChainHash]
    BY <1>3, <1>14 DEF SetHint, TypeOK
  <2>. QED BY <1>0, <1>2, <1>14, <2>1, <2>2 DEF SetHint, TypeOK
<1>13. CASE FanVerdict(r)
  <2>1. req' \in [Req -> ReqState]
    BY <1>13, EndType DEF FanVerdict
  <2>2. verdictStream' \in Seq(Op)
    BY <1>3, <1>13 DEF FanVerdict, TypeOK
  <2>. QED BY <1>0, <1>2, <1>13, <2>1, <2>2 DEF FanVerdict, TypeOK
<1>. QED BY <1>4, <1>5, <1>6, <1>7, <1>8, <1>9, <1>10, <1>11, <1>12, <1>13,
            <1>14
         DEF RequestStep

\* No step of a request, a management call or the cache leaves the types.
LEMMA NextType == TypeOK /\ [Next]_vars => TypeOK'
<1>. SUFFICES ASSUME TypeOK, [Next]_vars PROVE TypeOK'
  OBVIOUS
<1>. USE DEF serverVars, dbVars, objectVars, streamVars, registryVars
<1>1. ASSUME NEW r \in Req, Receive(r), TrackBarred
      PROVE  TypeOK'
  <2>1. req' \in [Req -> ReqState]
    <3>1. PICK kind \in Kinds, op \in Op, body \in Body, o \in Org, a \in Agent,
               k \in Key, signer \in Org, n \in Nonce, prev \in KnownHashes :
             req' = [req EXCEPT ![r] =
                [pc  |-> "nonce",
                 rec |-> [kind |-> kind, op |-> op, body |-> body, org |-> o,
                          agent |-> a, kid |-> k, signer |-> signer,
                          nonce |-> n, prev |-> prev],
                 seq |-> 0]]
      BY <1>1 DEF Receive
    <3>. DEFINE rec == [kind |-> kind, op |-> op, body |-> body, org |-> o,
                        agent |-> a, kid |-> k, signer |-> signer,
                        nonce |-> n, prev |-> prev]
    <3>2. rec \in Record
      BY KnownHashesType DEF Record
    <3>. HIDE DEF rec
    <3>3. [pc |-> "nonce", rec |-> rec, seq |-> 0] \in ReqState
      BY <3>2 DEF ReqState, Steps
    <3>4. req' = [req EXCEPT ![r] = [pc |-> "nonce", rec |-> rec, seq |-> 0]]
      BY <3>1 DEF rec
    <3>. QED BY <3>3, <3>4 DEF TypeOK
  <2>2. barred' \subseteq Req \X {"agent", "key"}
    BY <1>1 DEF TrackBarred
  <2>3. UNCHANGED <<registryVars, serverVars>>
    BY <1>1 DEF Receive
  <2>4. RegistryTypeOK'
    BY <2>3 DEF TypeOK, RegistryTypeOK
  <2>. QED BY <2>1, <2>2, <2>3, <2>4 DEF TypeOK
<1>2. ASSUME NEW r \in Req, RequestStep(r), TrackBarred
      PROVE  TypeOK'
  BY <1>2, RequestStepType
<1>3. ASSUME NEW r \in Req, Abort(r), TrackBarred
      PROVE  TypeOK'
  BY <1>3, EndType DEF Abort, TypeOK, RegistryTypeOK, TrackBarred
<1>4. ASSUME ExpireNonce, TrackBarred
      PROVE  TypeOK'
  BY <1>4 DEF ExpireNonce, TypeOK, RegistryTypeOK, TrackBarred
<1>5. ASSUME NEW t \in Admin, RegistryStep(t, Referenced),
             UNCHANGED <<serverVars, req>>, TrackBarred
      PROVE  TypeOK'
  <2>1. RegistryTypeOK'
    BY <1>5, RegistryStepType DEF TypeOK
  <2>. QED BY <1>5, <2>1 DEF TypeOK, TrackBarred
<1>6. CASE UNCHANGED vars
  BY <1>6 DEF vars, TypeOK, RegistryTypeOK
<1>. QED BY <1>1, <1>2, <1>3, <1>4, <1>5, <1>6 DEF Next

\* Every reachable state is typed: tables hold rows of their types, tasks are
\* at one of their await points.
THEOREM TypeCorrect == Spec => []TypeOK
BY InitType, NextType, PTL DEF Spec

-----------------------------------------------------------------------------
(* The chain of every agent.                                               *)

\* The strengthening ChainIntact needs: what CheckPrev has read stays true of
\* the rows, whatever other requests commit in between, because rows are never
\* changed or deleted.  Only that the row read is still the latest is lost.
Placed(r) ==
    LET rec == req[r].rec
    IN  /\ req[r].seq = Len(rec.prev) + 1
        /\ \/ rec.prev = Genesis
           \/ \E row \in RowsOf(rec.agent) :
                 row.seq = Len(rec.prev) /\ row.chain = rec.prev

InFlightPlaced ==
    \A r \in Req :
       req[r].pc \in {"envelope", "receipt", "gov", "commit"} => Placed(r)

ChainInv == TypeOK /\ ChainIntact /\ InFlightPlaced

\* There is no row and no request in flight at first.
LEMMA InitChain == Init => ChainIntact /\ InFlightPlaced
BY DEF Init, ChainIntact, InFlightPlaced, Idle

\* Steps that leave the table operations alone keep ChainIntact.
LEMMA ChainStable ==
    ASSUME ChainIntact, UNCHANGED operations
    PROVE  ChainIntact'
BY DEF ChainIntact, RowsOf

\* Only rows are added, so a placed request that keeps its record stays placed.
LEMMA PlacedStable ==
    ASSUME operations \subseteq operations', NEW r \in Req, Placed(r),
           req'[r].rec = req[r].rec, req'[r].seq = req[r].seq
    PROVE  Placed(r)'
BY DEF Placed, RowsOf

\* Appending an entry keeps every prefix.
LEMMA AppendPrefix ==
    ASSUME NEW S, NEW s \in Seq(S), NEW e \in S, NEW k \in 1..Len(s)
    PROVE  SubSeq(Append(s, e), 1, k) = SubSeq(s, 1, k)
<1>1. \A i \in 1..Len(s) : Append(s, e)[i] = s[i]
  OBVIOUS
<1>2. /\ SubSeq(Append(s, e), 1, k) \in Seq(S)
      /\ SubSeq(s, 1, k) \in Seq(S)
      /\ Len(SubSeq(Append(s, e), 1, k)) = k
      /\ Len(SubSeq(s, 1, k)) = k
  OBVIOUS
<1>3. \A i \in 1..k : SubSeq(Append(s, e), 1, k)[i] = SubSeq(s, 1, k)[i]
  BY <1>1
<1>. QED BY <1>2, <1>3, SeqEqual


\* What the commit of a request does to the rows when no constraint refuses it:
\* one row is added, of a new operation id, on top of the agent's chain as the
\* request has read it.
Commits(r) ==
    /\ ~Conflict(req[r].rec, req[r].seq)
    /\ Placed(r)
    /\ operations' = operations \cup
          {[rec |-> req[r].rec, seq |-> req[r].seq,
            chain |-> DeriveChainHash(req[r].rec)]}

\* The transaction of a placed request keeps the chains intact.
LEMMA CommitChain ==
    ASSUME TypeOK, ChainIntact, NEW r \in Req, req[r].pc # "idle", Commits(r)
    PROVE  ChainIntact'
<1>. DEFINE rec == req[r].rec
            seq == req[r].seq
            new == [rec |-> rec, seq |-> seq, chain |-> DeriveChainHash(rec)]
            e   == [op |-> rec.op, body |-> rec.body]
<1>1. /\ rec \in Record
      /\ rec.prev \in Seq(Entry)
      /\ new.chain = Append(rec.prev, e)
      /\ e \in Entry
      /\ new.chain \in Seq(Entry)
      /\ seq = Len(rec.prev) + 1
      /\ seq = Len(new.chain)
  BY ActiveRequest, DeriveType DEF Record, DeriveChainHash, Entry, Commits, Placed
<1>2. operations' = operations \cup {new}
  BY DEF Commits
<1>3. ASSUME NEW k \in 1..seq
      PROVE  \E below \in operations' :
                /\ below.rec.agent = rec.agent
                /\ below.seq = k
                /\ below.chain = SubSeq(new.chain, 1, k)
  <2>1. CASE k = seq
    <3>1. SubSeq(new.chain, 1, seq) = new.chain
      BY <1>1, SubSeqFull
    <3>. QED BY <1>2, <2>1, <3>1 DEF RowsOf
  <2>2. CASE k # seq
    <3>1. k \in 1..Len(rec.prev)
      BY <1>1, <1>3, <2>2
    <3>2. rec.prev # Genesis
      BY <3>1 DEF Genesis
    <3>3. PICK row \in RowsOf(rec.agent) :
             row.seq = Len(rec.prev) /\ row.chain = rec.prev
      BY <3>2 DEF Commits, Placed
    <3>4. PICK below \in RowsOf(rec.agent) :
             below.seq = k /\ below.chain = SubSeq(rec.prev, 1, k)
      <4>1. row \in operations /\ row.rec.agent = rec.agent /\ k \in 1..row.seq
        BY <3>1, <3>3 DEF RowsOf
      <4>2. \E below \in RowsOf(row.rec.agent) :
               below.seq = k /\ below.chain = SubSeq(row.chain, 1, k)
        BY <4>1 DEF ChainIntact
      <4>. QED BY <3>3, <4>1, <4>2
    <3>5. SubSeq(new.chain, 1, k) = SubSeq(rec.prev, 1, k)
      BY <1>1, <3>1, AppendPrefix
    <3>. QED BY <1>2, <3>4, <3>5 DEF RowsOf
  <2>. QED BY <2>1, <2>2
<1>4. ASSUME NEW row \in operations, NEW k \in 1..row.seq
      PROVE  \E below \in operations' :
                /\ below.rec.agent = row.rec.agent
                /\ below.seq = k
                /\ below.chain = SubSeq(row.chain, 1, k)
  <2>1. PICK below \in RowsOf(row.rec.agent) :
           below.seq = k /\ below.chain = SubSeq(row.chain, 1, k)
    BY <1>4 DEF ChainIntact
  <2>. QED BY <1>2, <2>1 DEF RowsOf
<1>5. ASSUME NEW row \in operations
      PROVE  /\ row.rec.op # rec.op
             /\ ~(row.rec.agent = rec.agent /\ row.seq = seq)
  BY <1>5 DEF Commits, Conflict, RowsOf
<1>6. \A row \in operations' :
         /\ row.chain = DeriveChainHash(row.rec)
         /\ row.seq = Len(row.chain)
         /\ \A k \in 1..row.seq :
               \E below \in operations' :
                  /\ below.rec.agent = row.rec.agent
                  /\ below.seq = k
                  /\ below.chain = SubSeq(row.chain, 1, k)
  <2>1. new.chain = DeriveChainHash(new.rec) /\ new.seq = Len(new.chain)
    BY <1>1
  <2>2. \A row \in operations :
           row.chain = DeriveChainHash(row.rec) /\ row.seq = Len(row.chain)
    BY DEF ChainIntact
  <2>3. ASSUME NEW k \in 1..new.seq
        PROVE  \E below \in operations' :
                  /\ below.rec.agent = new.rec.agent
                  /\ below.seq = k
                  /\ below.chain = SubSeq(new.chain, 1, k)
    BY <1>3, <2>3
  <2>. HIDE DEF new
  <2>4. ASSUME NEW row \in operations'
        PROVE  /\ row.chain = DeriveChainHash(row.rec)
               /\ row.seq = Len(row.chain)
               /\ \A k \in 1..row.seq :
                     \E below \in operations' :
                        /\ below.rec.agent = row.rec.agent
                        /\ below.seq = k
                        /\ below.chain = SubSeq(row.chain, 1, k)
    <3>1. CASE row = new
      BY <2>1, <2>3, <3>1
    <3>2. CASE row \in operations
      BY <1>4, <2>2, <3>2
    <3>. QED BY <1>2, <3>1, <3>2
  <2>. QED BY <2>4
<1>7. \A row, other \in operations' :
         \/ row.rec.op = other.rec.op
         \/ row.rec.agent = other.rec.agent /\ row.seq = other.seq
         => row = other
  BY <1>2, <1>5 DEF ChainIntact
<1>. QED BY <1>6, <1>7 DEF ChainIntact, DeriveChainHash, RowsOf

\* A request whose prev_chain_hash matches the latest row is placed.
LEMMA CheckPrevPlaces ==
    ASSUME TypeOK, ChainIntact, NEW r \in Req, CheckPrev(r),
           req'[r].pc = "envelope"
    PROVE  Placed(r)'
<1>1. req[r] \in [pc : Steps, rec : Record, seq : Nat]
  BY ActiveRequest DEF CheckPrev
<1>2. CASE req' = [req EXCEPT ![r].pc = "envelope", ![r].seq = 1]
           /\ req[r].rec.prev = Genesis
  BY <1>1, <1>2 DEF Placed, Genesis, TypeOK
<1>3. ASSUME NEW row \in RowsOf(req[r].rec.agent), row.chain = req[r].rec.prev,
             req' = [req EXCEPT ![r].pc = "envelope", ![r].seq = row.seq + 1]
      PROVE  Placed(r)'
  <2>1. operations' = operations
    BY DEF CheckPrev, serverVars, dbVars
  <2>2. row.seq = Len(row.chain)
    BY <1>3 DEF ChainIntact, RowsOf
  <2>. QED BY <1>1, <1>3, <2>1, <2>2 DEF Placed, RowsOf, TypeOK
<1>4. ~End(r)
  BY DEF End, Idle, TypeOK
<1>. QED BY <1>2, <1>3, <1>4 DEF CheckPrev, Latest

\* A commit takes place only for a placed request, and is the only step that
\* changes the table operations.
LEMMA OperationsStep ==
    ASSUME ChainInv, [Next]_vars
    PROVE  \/ UNCHANGED operations
           \/ \E r \in Req : req[r].pc # "idle" /\ Commit(r) /\ Commits(r)
<1>. USE DEF serverVars, dbVars
<1>1. ASSUME NEW r \in Req, Commit(r)
      PROVE  \/ UNCHANGED operations
             \/ req[r].pc # "idle" /\ Commit(r) /\ Commits(r)
  BY <1>1 DEF Commit, Commits, ChainInv, InFlightPlaced
<1>2. ASSUME NEW r \in Req, RequestStep(r), ~Commit(r)
      PROVE  UNCHANGED operations
  BY <1>2 DEF RequestStep, CheckNonce, CheckAgent, CheckKey, CheckPrev,
              PutEnvelope, PutReceipt, Govern, Fan, SetHint, FanVerdict
<1>3. ASSUME NEW r \in Req, Receive(r) \/ Abort(r)
      PROVE  UNCHANGED operations
  BY <1>3 DEF Receive, Abort
<1>4. ExpireNonce => UNCHANGED operations
  BY DEF ExpireNonce
<1>5. UNCHANGED vars => UNCHANGED operations
  BY DEF vars
<1>. QED BY <1>1, <1>2, <1>3, <1>4, <1>5 DEF Next

\* A request that is past the check of prev_chain_hash after a step was so
\* before it, with the same record and seq_no, or has just passed the check.
LEMMA PlacedSource ==
    ASSUME TypeOK, [Next]_vars, NEW q \in Req,
           req'[q].pc \in {"envelope", "receipt", "gov", "commit"}
    PROVE  \/ /\ req[q].pc \in {"envelope", "receipt", "gov", "commit"}
              /\ req'[q].rec = req[q].rec
              /\ req'[q].seq = req[q].seq
           \/ CheckPrev(q) /\ req'[q].pc = "envelope"
<1>. USE DEF TypeOK, Idle, End
<1>1. ASSUME NEW r \in Req, Receive(r)
      PROVE  req'[q] = req[q]
  BY <1>1 DEF Receive
<1>2. ASSUME NEW r \in Req, Abort(r)
      PROVE  req'[q] = req[q]
  BY <1>2 DEF Abort
<1>3. ASSUME NEW r \in Req, RequestStep(r), r # q
      PROVE  req'[q] = req[q]
  BY <1>3 DEF RequestStep, CheckNonce, CheckAgent, CheckKey, CheckPrev,
              PutEnvelope, PutReceipt, Govern, Commit, Fan, SetHint, FanVerdict, Goto
<1>4. ASSUME RequestStep(q), ~CheckPrev(q)
      PROVE  /\ req[q].pc \in {"envelope", "receipt", "gov", "commit"}
             /\ req'[q].rec = req[q].rec
             /\ req'[q].seq = req[q].seq
  <2>1. req[q].pc # "idle"
    BY <1>4 DEF RequestStep, CheckNonce, CheckAgent, CheckKey, PutEnvelope,
                PutReceipt, Govern, Commit, Fan, SetHint, FanVerdict
  <2>2. req[q] \in [pc : Steps, rec : Record, seq : Nat]
    BY <2>1, ActiveRequest
  <2>3. \A pc : Goto(q, pc) => /\ req'[q].pc = pc
                               /\ req'[q].rec = req[q].rec
                               /\ req'[q].seq = req[q].seq
    BY <2>2 DEF Goto
  <2>4. ~End(q)
    OBVIOUS
  <2>. QED BY <1>4, <2>3, <2>4
           DEF RequestStep, CheckNonce, CheckAgent, CheckKey, PutEnvelope,
               PutReceipt, Govern, Commit, Fan, SetHint, FanVerdict
<1>5. CheckPrev(q) => req'[q].pc = "envelope"
  <2>1. CheckPrev(q) => req[q] \in [pc : Steps, rec : Record, seq : Nat]
    BY ActiveRequest DEF CheckPrev
  <2>. QED BY <2>1 DEF CheckPrev
<1>6. UNCHANGED req => req'[q] = req[q]
  OBVIOUS
<1>7. ExpireNonce \/ UNCHANGED vars => UNCHANGED req
  BY DEF ExpireNonce, vars
<1>. QED BY <1>1, <1>2, <1>3, <1>4, <1>5, <1>6, <1>7 DEF Next

\* The invariant is inductive: a row is added by a placed request only, and no
\* step displaces a request in flight.
LEMMA NextChain == ChainInv /\ [Next]_vars => ChainInv'
<1>. SUFFICES ASSUME ChainInv, [Next]_vars PROVE ChainInv'
  OBVIOUS
<1>1. TypeOK'
  BY NextType DEF ChainInv
<1>2. ChainIntact'
  BY OperationsStep, ChainStable, CommitChain DEF ChainInv
<1>3. InFlightPlaced'
  <2>1. operations \subseteq operations'
    BY OperationsStep DEF Commits
  <2>. SUFFICES ASSUME NEW q \in Req,
                       req'[q].pc \in {"envelope", "receipt", "gov", "commit"}
                PROVE  Placed(q)'
    BY DEF InFlightPlaced
  <2>. QED BY <2>1, PlacedSource, PlacedStable, CheckPrevPlaces
           DEF ChainInv, InFlightPlaced
<1>. QED BY <1>1, <1>2, <1>3 DEF ChainInv

\* Chains and the places of requests in flight hold together in every reachable
\* state.
LEMMA ChainInvariant == Spec => []ChainInv
<1>1. Init => ChainInv
  BY InitType, InitChain DEF ChainInv
<1>. QED BY <1>1, NextChain, PTL DEF Spec

\* The chain of every agent is gapless, unforked and hash-linked in every
\* reachable state, though no lock is held between reading the latest row and
\* inserting the next: UNIQUE (agent_id, seq_no) is enough.
THEOREM ChainCorrect == Spec => []ChainIntact
BY ChainInvariant, PTL DEF ChainInv

-----------------------------------------------------------------------------
(* Ingest implements the append-only log of HashChain.                     *)

\* A row that no other row of a set exceeds is the one CHOOSE returns when
\* rows of equal seq are equal.
LEMMA ChosenLatest ==
    ASSUME NEW S, NEW row \in S,
           \A x \in S : x.seq \in Nat,
           \A x \in S : x.seq <= row.seq,
           \A x, y \in S : x.seq = y.seq => x = y
    PROVE  row = CHOOSE x \in S : x \in {y \in S : \A z \in S : z.seq <= y.seq}
OBVIOUS

\* Every agent that has rows has a latest one.
HeadInv ==
    \A a \in Agent : RowsOf(a) # {} =>
       \E row \in RowsOf(a) : \A other \in RowsOf(a) : other.seq <= row.seq

\* The head of a chain is the chain hash of its latest row ...
LEMMA HeadOf ==
    ASSUME TypeOK, ChainIntact, NEW a \in Agent, NEW row \in RowsOf(a),
           \A other \in RowsOf(a) : other.seq <= row.seq
    PROVE  ChainHead(a) = row.chain
<1>1. /\ \A x \in RowsOf(a) : x.seq \in Nat
      /\ \A x, y \in RowsOf(a) : x.seq = y.seq => x = y
  BY DEF TypeOK, OperationRow, ChainIntact, RowsOf
<1>. QED BY <1>1, ChosenLatest DEF ChainHead, Latest

\* ... and every entry on it is the entry of a row.
LEMMA HeadEntries ==
    ASSUME TypeOK, ChainIntact, HeadInv, NEW a \in Agent,
           NEW i \in 1..Len(ChainHead(a))
    PROVE  \E row \in operations : row.rec.op = ChainHead(a)[i].op
<1>1. RowsOf(a) # {}
  BY DEF ChainHead, Genesis
<1>2. PICK row \in RowsOf(a) : \A other \in RowsOf(a) : other.seq <= row.seq
  BY <1>1 DEF HeadInv
<1>3. /\ ChainHead(a) = row.chain
      /\ row.chain \in Seq(Entry)
      /\ row.seq = Len(row.chain)
  BY <1>2, HeadOf DEF TypeOK, OperationRow, ChainHash, ChainIntact, RowsOf
<1>4. PICK below \in RowsOf(a) :
         below.seq = i /\ below.chain = SubSeq(row.chain, 1, i)
  BY <1>3 DEF ChainIntact, RowsOf
<1>5. /\ below.chain = Append(below.rec.prev,
                              [op |-> below.rec.op, body |-> below.rec.body])
      /\ below.rec.prev \in Seq(Entry)
      /\ [op |-> below.rec.op, body |-> below.rec.body] \in Entry
      /\ Len(below.chain) = i
  BY <1>4, DeriveType
  DEF ChainIntact, RowsOf, TypeOK, OperationRow, Record, DeriveChainHash, Entry
<1>6. /\ below.chain[i] = [op |-> below.rec.op, body |-> below.rec.body]
      /\ below.chain[i] = row.chain[i]
  <2>1. below.chain[Len(below.chain)]
           = [op |-> below.rec.op, body |-> below.rec.body]
    BY <1>5
  <2>2. SubSeq(row.chain, 1, i)[i] = row.chain[i]
    BY <1>3
  <2>. QED BY <1>4, <1>5, <2>1, <2>2
<1>. QED BY <1>3, <1>6 DEF RowsOf

\* A request whose commit no constraint refuses is still on top of the chain.
LEMMA CommitOnTop ==
    ASSUME TypeOK, ChainIntact, NEW r \in Req, req[r].pc # "idle", Commits(r)
    PROVE  \A row \in RowsOf(req[r].rec.agent) : row.seq < req[r].seq
<1>. SUFFICES ASSUME NEW row \in RowsOf(req[r].rec.agent), req[r].seq <= row.seq
              PROVE  FALSE
  BY ActiveRequest DEF TypeOK, OperationRow, RowsOf
<1>1. req[r].seq \in 1..row.seq
  BY ActiveRequest, DeriveType DEF Commits, Placed, TypeOK, OperationRow, RowsOf
<1>. QED BY <1>1 DEF ChainIntact, Commits, Conflict, RowsOf

\* A commit extends the head of its agent's chain by the entry of its record.
LEMMA CommitHead ==
    ASSUME TypeOK, TypeOK', ChainIntact, ChainIntact', NEW r \in Req,
           req[r].pc # "idle", Commits(r), NEW a \in Agent,
           a = req[r].rec.agent
    PROVE  /\ ChainHead(a)' = Append(ChainHead(a), [op   |-> req[r].rec.op,
                                                    body |-> req[r].rec.body])
           /\ \E row \in RowsOf(a)' : \A other \in RowsOf(a)' : other.seq <= row.seq
<1>. DEFINE rec == req[r].rec
            new == [rec |-> rec, seq |-> req[r].seq,
                    chain |-> DeriveChainHash(rec)]
<1>1. /\ RowsOf(a)' = RowsOf(a) \cup {new}
      /\ new \in RowsOf(a)'
  BY DEF Commits, RowsOf
<1>2. /\ \A x \in RowsOf(a)' : x.seq \in Nat
      /\ \A x, y \in RowsOf(a)' : x.seq = y.seq => x = y
  BY DEF TypeOK, OperationRow, ChainIntact, RowsOf
<1>3. \A x \in RowsOf(a)' : x.seq <= new.seq
  <2>1. \A x \in RowsOf(a) : x.seq < new.seq
    BY CommitOnTop
  <2>2. new.seq \in Nat
    BY <1>1, <1>2
  <2>. HIDE DEF new
  <2>. QED BY <1>1, <1>2, <2>1, <2>2
<1>4. ChainHead(a)' = new.chain
  <2>. HIDE DEF new
  <2>1. new = CHOOSE x \in RowsOf(a)' :
                 x \in {y \in RowsOf(a)' : \A z \in RowsOf(a)' : z.seq <= y.seq}
    BY <1>1, <1>2, <1>3, ChosenLatest
  <2>. QED BY <1>1, <2>1 DEF ChainHead, Latest
<1>5. ChainHead(a) = rec.prev
  <2>1. CASE RowsOf(a) = {}
    BY <2>1 DEF ChainHead, Commits, Placed
  <2>2. CASE RowsOf(a) # {}
    <3>1. PICK row \in RowsOf(a) : row.seq = Len(rec.prev) /\ row.chain = rec.prev
      <4>1. PICK x \in RowsOf(a) : TRUE
        BY <2>2
      <4>2. x.seq < Len(rec.prev) + 1 /\ x.seq \in Nat
        <5>1. x.seq < req[r].seq
          BY CommitOnTop
        <5>2. req[r].seq = Len(rec.prev) + 1
          BY DEF Commits, Placed
        <5>3. x.seq \in Nat
          BY DEF TypeOK, OperationRow, RowsOf
        <5>. QED BY <5>1, <5>2, <5>3
      <4>3. x.seq # 0
        <5>1. x.rec \in Record /\ x.seq = Len(DeriveChainHash(x.rec))
          BY DEF TypeOK, OperationRow, ChainIntact, RowsOf
        <5>. QED BY <5>1, DeriveType
      <4>. QED BY <4>2, <4>3 DEF Commits, Placed, Genesis
    <3>2. \A other \in RowsOf(a) : other.seq <= row.seq
      <4>1. rec.prev \in Seq(Entry)
        BY ActiveRequest, DeriveType
      <4>2. \A other \in RowsOf(a) : other.seq < Len(rec.prev) + 1
        BY CommitOnTop DEF Commits, Placed
      <4>. QED BY <3>1, <4>1, <4>2 DEF TypeOK, OperationRow, RowsOf
    <3>. QED BY <3>1, <3>2, HeadOf
  <2>. QED BY <2>1, <2>2
<1>. QED BY <1>1, <1>3, <1>4, <1>5 DEF DeriveChainHash

LogInv == ChainInv /\ HeadInv

\* Every step of Ingest leaves the abstract log as it is or extends it.
LEMMA LogStep ==
    ASSUME LogInv, [Next]_vars
    PROVE  /\ HeadInv'
           /\ [Chain!Next]_([a \in Agent |-> ChainHead(a)])
<1>0. ChainInv'
  BY NextChain DEF LogInv
<1>1. CASE UNCHANGED operations
  <2>1. \A a \in Agent : RowsOf(a)' = RowsOf(a)
    BY <1>1 DEF RowsOf
  <2>2. ASSUME NEW a \in Agent PROVE ChainHead(a)' = ChainHead(a)
    <3>1. RowsOf(a)' = RowsOf(a)
      BY <2>1
    <3>2. Latest(a)' = Latest(a)
      BY <3>1 DEF Latest
    <3>. QED BY <3>1, <3>2 DEF ChainHead
  <2>. QED BY <2>1, <2>2 DEF LogInv, HeadInv
<1>2. ASSUME NEW r \in Req, req[r].pc # "idle", Commit(r), Commits(r)
      PROVE  HeadInv' /\ Chain!Next
  <2>. DEFINE rec == req[r].rec
              e   == [op |-> rec.op, body |-> rec.body]
  <2>1. PICK a \in Agent : a = rec.agent
    BY <1>2, ActiveRequest DEF LogInv, ChainInv, Record
  <2>2. e \in Chain!Entry
    BY <1>2, ActiveRequest DEF LogInv, ChainInv, Record, Chain!Entry
  <2>3. /\ ChainHead(a)' = Append(ChainHead(a), e)
        /\ \E row \in RowsOf(a)' : \A x \in RowsOf(a)' : x.seq <= row.seq
    BY <1>0, <1>2, <2>1, CommitHead DEF LogInv, ChainInv
  <2>4. \A b \in Agent \ {a} : /\ RowsOf(b)' = RowsOf(b)
                               /\ ChainHead(b)' = ChainHead(b)
    <3>. SUFFICES ASSUME NEW b \in Agent \ {a}
                  PROVE  RowsOf(b)' = RowsOf(b) /\ ChainHead(b)' = ChainHead(b)
      OBVIOUS
    <3>1. RowsOf(b)' = RowsOf(b)
      BY <1>2, <2>1 DEF Commits, RowsOf
    <3>2. Latest(b)' = Latest(b)
      BY <3>1 DEF Latest
    <3>. QED BY <3>1, <3>2 DEF ChainHead
  <2>5. HeadInv'
    BY <2>3, <2>4 DEF LogInv, HeadInv
  <2>6. ~Chain!Used(e.op)
    <3>1. \A row \in operations : row.rec.op # e.op
      BY <1>2 DEF Commits, Conflict
    <3>. QED BY <3>1, HeadEntries DEF Chain!Used, LogInv, ChainInv
  <2>7. [x \in Agent |-> ChainHead(x)]'
           = [[x \in Agent |-> ChainHead(x)] EXCEPT
                ![a] = Append([x \in Agent |-> ChainHead(x)][a], e)]
    BY <2>3, <2>4
  <2>. QED BY <2>2, <2>5, <2>6, <2>7 DEF Chain!Next, Chain!Extend
<1>. QED BY <1>1, <1>2, OperationsStep DEF LogInv

\* The empty table is the empty log.
LEMMA InitLog == Init => HeadInv /\ Chain!Init
BY DEF Init, HeadInv, RowsOf, Chain!Init, ChainHead, Genesis

\* Ingest, with all its interleavings, aborts, deletions and registrations,
\* implements the append-only log without duplicates of HashChain.
THEOREM ChainRefinement == Spec => ImplementsHashChain
<1>1. Init => LogInv /\ Chain!Init
  BY InitType, InitChain, InitLog DEF LogInv, ChainInv
<1>2. LogInv /\ [Next]_vars =>
         LogInv' /\ [Chain!Next]_([a \in Agent |-> ChainHead(a)])
  BY NextChain, LogStep DEF LogInv
<1>. QED BY <1>1, <1>2, PTL DEF Spec, ImplementsHashChain, Chain!Spec

-----------------------------------------------------------------------------
(* Freezing an agent, or revoking a key, stops the requests that follow.   *)

\* The strengthening BarredStopped needs: the history variable is about the
\* state, so that a barred request finds the condition false when it checks.
BarredMeaning ==
    \A r \in Req :
       /\ <<r, "agent">> \in barred =>
             ~ \E row \in AgentRows(req[r].rec.agent, req[r].rec.org) :
                  row.status = "active"
       /\ <<r, "key">> \in barred =>
             ~ \E row \in KeyRows(req[r].rec.kid, req[r].rec.agent) :
                  row.status = "active" /\ row.pub = req[r].rec.signer

BarredInv == TypeOK /\ BarredMeaning /\ BarredStopped

\* A barred request is not idle, was barred before or has just arrived, and
\* its condition does not hold.
LEMMA BarredNext ==
    ASSUME TrackBarred, NEW r \in Req, NEW c \in {"agent", "key"},
           <<r, c>> \in barred'
    PROVE  /\ req'[r].pc # "idle"
           /\ req[r].pc = "idle" \/ <<r, c>> \in barred
           /\ ~InForce(req[r].rec)'[c]
BY DEF TrackBarred

\* What barred records of an agent and of a key holds after any step of a request
\* or a management call.
LEMMA BarredMeaningStep ==
    ASSUME TrackBarred
    PROVE  BarredMeaning'
<1>1. ASSUME NEW r \in Req, <<r, "agent">> \in barred'
      PROVE  ~ \E row \in AgentRows(req[r].rec.agent, req[r].rec.org)' :
                   row.status = "active"
  BY <1>1, BarredNext DEF InForce
<1>2. ASSUME NEW r \in Req, <<r, "key">> \in barred'
      PROVE  ~ \E row \in KeyRows(req[r].rec.kid, req[r].rec.agent)' :
                   row.status = "active" /\ row.pub = req'[r].rec.signer
  BY <1>2, BarredNext DEF InForce
<1>. QED BY <1>1, <1>2 DEF BarredMeaning

\* A barred request does not pass the check of its condition.
LEMMA BarredRequestStep ==
    ASSUME BarredInv, TypeOK', TrackBarred, NEW r \in Req, RequestStep(r)
    PROVE  BarredStopped'
<1>. USE DEF BarredInv
<1>0. ASSUME NEW q \in Req, q # r
      PROVE  req'[q] = req[q]
  BY <1>0 DEF RequestStep, CheckNonce, CheckAgent, CheckKey, CheckPrev,
              PutEnvelope, PutReceipt, Govern, Commit, Fan, SetHint, FanVerdict, Goto,
              End, TypeOK
<1>1. /\ req[r].pc # "idle"
      /\ req[r] \in [pc : Steps, rec : Record, seq : Nat]
  BY ActiveRequest
  DEF RequestStep, CheckNonce, CheckAgent, CheckKey, CheckPrev, PutEnvelope,
      PutReceipt, Govern, Commit, Fan, SetHint, FanVerdict
<1>2. \A pc : Goto(r, pc) => req'[r].pc = pc
  BY <1>1 DEF Goto, TypeOK
<1>3. End(r) => req'[r].pc = "idle"
  BY DEF End, Idle, TypeOK
<1>4. ASSUME <<r, "agent">> \in barred'
      PROVE  req'[r].pc \in {"nonce", "agent"}
  <2>1. /\ req'[r].pc # "idle"
        /\ <<r, "agent">> \in barred
    BY <1>1, <1>4, BarredNext
  <2>2. req[r].pc \in {"nonce", "agent"}
    BY <2>1 DEF BarredStopped
  <2>3. CheckNonce(r) \/ CheckAgent(r)
    BY <2>2 DEF RequestStep, CheckKey, CheckPrev, PutEnvelope, PutReceipt,
                Govern, Commit, Fan, SetHint, FanVerdict
  <2>4. CASE CheckNonce(r)
    BY <1>2, <1>3, <2>1, <2>4 DEF CheckNonce
  <2>5. CASE CheckAgent(r)
    <3>1. \A row \in AgentRows(req[r].rec.agent, req[r].rec.org) :
             row.status = "frozen"
      BY <2>1 DEF BarredMeaning, TypeOK, RegistryTypeOK, AgentRow, AgentRows
    <3>. QED BY <1>3, <2>1, <2>5, <3>1 DEF CheckAgent
  <2>. QED BY <2>3, <2>4, <2>5
<1>5. ASSUME <<r, "key">> \in barred'
      PROVE  req'[r].pc \in {"nonce", "agent", "key"}
  <2>1. /\ req'[r].pc # "idle"
        /\ <<r, "key">> \in barred
    BY <1>1, <1>5, BarredNext
  <2>2. req[r].pc \in {"nonce", "agent", "key"}
    BY <2>1 DEF BarredStopped
  <2>3. CheckNonce(r) \/ CheckAgent(r) \/ CheckKey(r)
    BY <2>2 DEF RequestStep, CheckPrev, PutEnvelope, PutReceipt, Govern,
                Commit, Fan, SetHint, FanVerdict
  <2>4. CASE CheckNonce(r)
    BY <1>2, <1>3, <2>1, <2>4 DEF CheckNonce
  <2>5. CASE CheckAgent(r)
    BY <1>2, <1>3, <2>1, <2>5 DEF CheckAgent
  <2>6. CASE CheckKey(r)
    <3>1. \A row \in KeyRows(req[r].rec.kid, req[r].rec.agent) :
             row.status = "revoked" \/ row.pub # req[r].rec.signer
      BY <2>1 DEF BarredMeaning, TypeOK, RegistryTypeOK, KeyRow, KeyRows
    <3>. QED BY <1>3, <2>1, <2>6, <3>1 DEF CheckKey
  <2>. QED BY <2>3, <2>4, <2>5, <2>6
<1>6. ASSUME NEW q \in Req, q # r, NEW c \in {"agent", "key"},
             <<q, c>> \in barred'
      PROVE  <<q, c>> \in barred
  BY <1>0, <1>6, BarredNext
<1>. QED BY <1>0, <1>4, <1>5, <1>6 DEF BarredStopped

\* The invariant is inductive whatever requests and management calls do.
LEMMA NextBarred == BarredInv /\ [Next]_vars => BarredInv'
<1>. SUFFICES ASSUME BarredInv, [Next]_vars PROVE BarredInv'
  OBVIOUS
<1>1. TypeOK'
  BY NextType DEF BarredInv
<1>2. CASE UNCHANGED vars
  BY <1>1, <1>2
  DEF vars, registryVars, BarredInv, BarredMeaning, BarredStopped, AgentRows,
      KeyRows
<1>3. CASE Next
  <2>1. TrackBarred
    BY <1>3 DEF Next
  <2>2. BarredMeaning'
    BY <2>1, BarredMeaningStep
  <2>3. ASSUME NEW r \in Req, RequestStep(r)
        PROVE  BarredStopped'
    BY <1>1, <2>1, <2>3, BarredRequestStep
  <2>4. ASSUME UNCHANGED req
        PROVE  BarredStopped'
    BY <2>1, <2>4, BarredNext DEF BarredInv, BarredStopped
  <2>5. ASSUME NEW r \in Req, Receive(r) \/ Abort(r)
        PROVE  BarredStopped'
    <3>1. /\ req'[r].pc \in {"idle", "nonce"}
          /\ \A q \in Req \ {r} : req'[q] = req[q]
      BY <2>5 DEF Receive, Abort, End, Idle, BarredInv, TypeOK
    <3>2. ASSUME NEW q \in Req \ {r}, NEW c \in {"agent", "key"},
                 <<q, c>> \in barred'
          PROVE  <<q, c>> \in barred
      BY <2>1, <3>1, <3>2, BarredNext
    <3>. QED BY <2>1, <3>1, <3>2, BarredNext DEF BarredInv, BarredStopped
  <2>. QED BY <1>1, <1>3, <2>2, <2>3, <2>4, <2>5
           DEF Next, ExpireNonce, BarredInv
<1>. QED BY <1>2, <1>3

\* No request whose agent has been frozen or absent, or whose key has been
\* revoked or absent, ever since it arrived gets beyond the check, however the
\* management calls interleave.
THEOREM BarredCorrect == Spec => []BarredStopped
<1>1. Init => BarredInv
  BY InitType DEF Init, BarredInv, BarredMeaning, BarredStopped
<1>. QED BY <1>1, NextBarred, PTL DEF Spec, BarredInv

-----------------------------------------------------------------------------
(* Rows are backed by their objects, and hints and streams by their rows,  *)
(* whatever interleaves and wherever a request ends.                       *)

Early == {"idle", "nonce", "agent", "key", "prev", "envelope"}
Storing == {"receipt", "gov", "commit"}
After == {"fan", "hint", "verdict"}

Enveloped(rec) == \E e \in envelopes : SameObject(e, rec)
Receipted(rec) == \E e \in ears : SameObject(e, rec)

\* The objects a request has put before its next await.
Stored(r) ==
    LET rec == req[r].rec
    IN  req[r].pc \in Storing =>
           /\ Enveloped(rec)
           /\ req[r].pc = "receipt" => rec.kind = "eor"
           /\ req[r].pc = "gov" => rec.kind = "pre_exec"
           /\ req[r].pc = "commit" /\ rec.kind = "eor" => Receipted(rec)
           /\ req[r].pc = "commit" /\ rec.kind = "pre_exec" => rec.op \in gateVerdicts

\* What a request has committed and how far it has published it.
Published(r) ==
    LET rec == req[r].rec
    IN  req[r].pc \in After =>
           /\ \E row \in operations : row.rec = rec /\ row.chain = DeriveChainHash(rec)
           /\ req[r].pc = "fan" => /\ rec.kind \in {"pre_exec", "post_exec"}
                                   /\ rec.op \notin Streamed(actionStream)
           /\ req[r].pc = "verdict" => rec.kind = "pre_exec"
           /\ req[r].pc \in {"hint", "verdict"} /\ rec.kind = "pre_exec" =>
                 rec.op \in Streamed(actionStream)

\* Only one request publishes an operation id.
OnePublisher ==
    \A r, q \in Req :
       /\ req[r].pc \in After /\ req[q].pc \in After
       /\ req[r].rec.op = req[q].rec.op
       => r = q

EvidenceInv ==
    /\ EvidenceBacked
    /\ StreamsExact
    /\ \A r \in Req : Stored(r) /\ Published(r)
    /\ OnePublisher

-----------------------------------------------------------------------------
LEMMA MovesOn ==
    ASSUME TypeOK, NEW r \in Req, req[r].pc # "idle", NEW pc, Goto(r, pc)
    PROVE  /\ req'[r].pc = pc
           /\ req'[r].rec = req[r].rec
           /\ \A q \in Req \ {r} : req'[q] = req[q]
BY ActiveRequest DEF TypeOK, Goto

LEMMA Ends ==
    ASSUME TypeOK, NEW r \in Req, End(r)
    PROVE  req'[r].pc = "idle" /\ \A q \in Req \ {r} : req'[q] = req[q]
BY DEF TypeOK, End, Idle

LEMMA StreamedAppend ==
    ASSUME NEW S, NEW s \in Seq(S), NEW e \in S
    PROVE  /\ Streamed(Append(s, e)) = Streamed(s) \cup {e}
           /\ (\A i, j \in 1..Len(s) : s[i] = s[j] => i = j) /\ e \notin Streamed(s)
              => \A i, j \in 1..Len(Append(s, e)) :
                    Append(s, e)[i] = Append(s, e)[j] => i = j
<1>1. /\ Len(Append(s, e)) = Len(s) + 1 /\ Len(s) \in Nat
      /\ Append(s, e)[Len(s) + 1] = e
      /\ \A i \in 1..Len(s) : Append(s, e)[i] = s[i]
  OBVIOUS
<1>2. Streamed(Append(s, e)) = Streamed(s) \cup {e}
  BY <1>1 DEF Streamed
<1>3. ASSUME \A i, j \in 1..Len(s) : s[i] = s[j] => i = j, e \notin Streamed(s),
             NEW i \in 1..Len(Append(s, e)), NEW j \in 1..Len(Append(s, e)),
             Append(s, e)[i] = Append(s, e)[j]
      PROVE  i = j
  <2>1. \A k \in 1..Len(s) : s[k] # e
    BY <1>3 DEF Streamed
  <2>. QED BY <1>1, <1>3, <2>1
<1>. QED BY <1>2, <1>3

\* Steps that commit and publish nothing, and only add objects.
LEMMA NothingPublished ==
    ASSUME EvidenceInv, UNCHANGED <<dbVars, hint, streamVars>>,
           \A x : Enveloped(x) => \E e \in envelopes' : SameObject(e, x),
           \A x : Receipted(x) => \E e \in ears' : SameObject(e, x),
           gateVerdicts \subseteq gateVerdicts',
           \A q \in Req : \/ req'[q] = req[q]
                          \/ req'[q].pc \in Early
                          \/ req'[q].pc \in Storing /\ Stored(q)'
    PROVE  EvidenceInv'
<1>1. EvidenceBacked'
  BY DEF EvidenceInv, EvidenceBacked, dbVars, streamVars, Enveloped, Receipted,
         OpsOf, RowsOf
<1>2. StreamsExact'
  BY DEF EvidenceInv, StreamsExact, streamVars
<1>3. ASSUME NEW q \in Req PROVE Stored(q)' /\ Published(q)'
  <2>1. CASE req'[q] = req[q]
    <3>1. Stored(q)'
      BY <2>1 DEF EvidenceInv, Stored, Enveloped, Receipted
    <3>2. Published(q)'
      BY <2>1 DEF EvidenceInv, Published, dbVars, streamVars
    <3>. QED BY <3>1, <3>2
  <2>2. CASE req'[q].pc \in Early
    BY <2>2 DEF Early, Storing, After, Stored, Published
  <2>3. CASE req'[q].pc \in Storing /\ Stored(q)'
    BY <2>3 DEF Storing, After, Published
  <2>. QED BY <2>1, <2>2, <2>3
<1>4. OnePublisher'
  <2>1. \A q \in Req : req'[q].pc \in After => req'[q] = req[q]
    BY DEF Early, Storing, After
  <2>. QED BY <2>1 DEF EvidenceInv, OnePublisher
<1>. QED BY <1>1, <1>2, <1>3, <1>4 DEF EvidenceInv

\* The steps up to the envelope, and a request that ends.
LEMMA QuietStep ==
    ASSUME EvidenceInv, UNCHANGED <<dbVars, hint, objectVars, streamVars>>,
           \A q \in Req : req'[q] = req[q] \/ req'[q].pc \in Early
    PROVE  EvidenceInv'
BY NothingPublished DEF objectVars, Enveloped, Receipted

LEMMA CheckStep ==
    ASSUME TypeOK, EvidenceInv, NEW r \in Req,
           \/ CheckNonce(r) \/ CheckAgent(r) \/ CheckKey(r) \/ CheckPrev(r)
    PROVE  EvidenceInv'
<1>1. req[r].pc # "idle"
  BY DEF CheckNonce, CheckAgent, CheckKey, CheckPrev
<1>2. UNCHANGED <<dbVars, hint, objectVars, streamVars>>
  BY DEF CheckNonce, CheckAgent, CheckKey, CheckPrev, serverVars
<1>3. CASE End(r)
  BY <1>2, <1>3, Ends, QuietStep DEF Early
<1>4. CASE \E pc \in Early : Goto(r, pc)
  BY <1>1, <1>2, <1>4, MovesOn, QuietStep
<1>5. CASE \E seq : req' = [req EXCEPT ![r].pc = "envelope", ![r].seq = seq]
  <2>1. req'[r].pc = "envelope" /\ \A q \in Req \ {r} : req'[q] = req[q]
    BY <1>1, <1>5, ActiveRequest DEF TypeOK
  <2>. QED BY <1>2, <2>1, QuietStep DEF Early
<1>. QED
  BY <1>3, <1>4, <1>5 DEF CheckNonce, CheckAgent, CheckKey, CheckPrev, Early

LEMMA StoreStep ==
    ASSUME TypeOK, EvidenceInv, NEW r \in Req,
           PutEnvelope(r) \/ PutReceipt(r) \/ Govern(r)
    PROVE  EvidenceInv'
<1> DEFINE rec == req[r].rec
<1>1. /\ req[r].pc # "idle"
      /\ UNCHANGED <<dbVars, hint, streamVars>>
      /\ rec.kind \in AllKinds
  <2>1. req[r].pc # "idle" /\ UNCHANGED <<dbVars, hint, streamVars>>
    BY DEF PutEnvelope, PutReceipt, Govern
  <2>. QED BY <2>1, ActiveRequest, IngestAssumption DEF Record
<1>2. CASE PutEnvelope(r)
  <2>1. /\ envelopes' = {e \in envelopes : ~SameObject(e, rec)} \cup {rec}
        /\ UNCHANGED <<ears, gateVerdicts>>
    BY <1>2 DEF PutEnvelope
  <2>2. \A x : Enveloped(x) => \E e \in envelopes' : SameObject(e, x)
    BY <2>1 DEF Enveloped, SameObject
  <2>3. Enveloped(rec)'
    <3>1. rec \in envelopes' /\ req'[r].rec = rec
      BY <1>1, <1>2, <2>1, MovesOn DEF PutEnvelope
    <3>. QED BY <3>1 DEF Enveloped, SameObject
  <2>4. /\ req'[r].rec = rec
        /\ \/ rec.kind = "eor" /\ req'[r].pc = "receipt"
           \/ rec.kind = "pre_exec" /\ req'[r].pc = "gov"
           \/ rec.kind = "post_exec" /\ req'[r].pc = "commit"
        /\ \A q \in Req \ {r} : req'[q] = req[q]
    BY <1>1, <1>2, MovesOn DEF PutEnvelope, AllKinds
  <2>5. Stored(r)' /\ req'[r].pc \in Storing
    BY <2>3, <2>4 DEF Stored, Storing
  <2>. QED BY <1>1, <2>1, <2>2, <2>4, <2>5, NothingPublished DEF Receipted
<1>3. CASE PutReceipt(r)
  <2>1. PICK ear :
          /\ SameObject(ear, rec)
          /\ ears' = {e \in ears : ~SameObject(e, rec)} \cup {ear}
          /\ UNCHANGED <<envelopes, gateVerdicts>>
    BY <1>3 DEF PutReceipt, SameObject
  <2>2. \A x : Receipted(x) => \E e \in ears' : SameObject(e, x)
    BY <2>1 DEF Receipted, SameObject
  <2>3. /\ req'[r].rec = rec /\ req'[r].pc = "commit"
        /\ \A q \in Req \ {r} : req'[q] = req[q]
    BY <1>1, <1>3, MovesOn DEF PutReceipt
  <2>4. Enveloped(rec) /\ rec.kind = "eor"
    BY <1>3 DEF PutReceipt, EvidenceInv, Stored, Storing
  <2>5. Stored(r)' /\ req'[r].pc \in Storing
    BY <2>1, <2>3, <2>4 DEF Stored, Storing, Enveloped, Receipted
  <2>. QED BY <1>1, <2>1, <2>2, <2>3, <2>5, NothingPublished DEF Enveloped
<1>4. CASE Govern(r)
  <2>1. /\ gateVerdicts' = gateVerdicts \cup {rec.op}
        /\ UNCHANGED <<envelopes, ears>>
    BY <1>4 DEF Govern
  <2>2. /\ req'[r].rec = rec /\ req'[r].pc = "commit"
        /\ \A q \in Req \ {r} : req'[q] = req[q]
    BY <1>1, <1>4, MovesOn DEF Govern
  <2>3. Enveloped(rec) /\ rec.kind = "pre_exec"
    BY <1>4 DEF Govern, EvidenceInv, Stored, Storing
  <2>4. Stored(r)' /\ req'[r].pc \in Storing
    BY <2>1, <2>2, <2>3 DEF Stored, Storing, Enveloped
  <2>. QED BY <1>1, <2>1, <2>2, <2>4, NothingPublished DEF Enveloped, Receipted
<1>. QED BY <1>2, <1>3, <1>4

\* The transaction: the row of a kind, and the rows that go with it.
LEMMA CommitStep ==
    ASSUME TypeOK, EvidenceInv, NEW r \in Req, Commit(r)
    PROVE  EvidenceInv'
<1> DEFINE rec == req[r].rec
           new == [rec |-> rec, seq |-> req[r].seq, chain |-> DeriveChainHash(rec)]
           only(kind) == IF rec.kind = kind THEN {rec.op} ELSE {}
           next == IF rec.kind = "eor" THEN "hint" ELSE "fan"
<1>1. /\ req[r].pc = "commit"
      /\ UNCHANGED <<hint, objectVars, streamVars>>
      /\ rec.kind \in AllKinds /\ rec.op \in Op
  <2>1. req[r].pc = "commit" /\ UNCHANGED <<hint, objectVars, streamVars>>
    BY DEF Commit
  <2>. QED BY <2>1, ActiveRequest, IngestAssumption DEF Record
<1>2. CASE Conflict(rec, req[r].seq)
  <2>1. End(r) /\ UNCHANGED dbVars
    BY <1>2 DEF Commit
  <2>. QED BY <1>1, <2>1, Ends, QuietStep DEF Early
<1>3. CASE ~Conflict(rec, req[r].seq)
  <2>1. /\ operations' = operations \cup {new}
        /\ receipts' = receipts \cup only("eor")
        /\ verdicts' = verdicts \cup only("pre_exec")
        /\ interventions' = interventions \cup only("pre_exec")
        /\ Goto(r, next)
    BY <1>3 DEF Commit
  <2>2. /\ req'[r].pc = next /\ req'[r].rec = rec
        /\ \A q \in Req \ {r} : req'[q] = req[q]
    BY <1>1, <2>1, MovesOn
  <2>3. \A row \in operations : row.rec.op # rec.op
    BY <1>3 DEF Conflict
  <2>4. /\ Enveloped(rec)
        /\ rec.kind = "eor" => Receipted(rec)
        /\ rec.kind = "pre_exec" => rec.op \in gateVerdicts
    BY <1>1 DEF EvidenceInv, Stored, Storing
  <2>5. new.rec = rec /\ new.chain = DeriveChainHash(rec)
    OBVIOUS
  <2> HIDE DEF new
  <2>6. \A kind : OpsOf(kind)' = OpsOf(kind) \cup only(kind)
    BY <2>1, <2>5 DEF OpsOf
  <2>7. EvidenceBacked'
    <3>1. \A row \in operations' :
             /\ \E e \in envelopes' : SameObject(e, row.rec)
             /\ row.rec.kind = "eor" => \E e \in ears' : SameObject(e, row.rec)
      BY <1>1, <2>1, <2>4, <2>5
      DEF EvidenceInv, EvidenceBacked, objectVars, Enveloped, Receipted
    <3>2. OpsOf("pre_exec")' \subseteq gateVerdicts'
      BY <1>1, <2>4, <2>6 DEF EvidenceInv, EvidenceBacked, objectVars
    <3>3. /\ receipts' = OpsOf("eor")' /\ verdicts' = OpsOf("pre_exec")'
          /\ interventions' = verdicts'
      BY <2>1, <2>6 DEF EvidenceInv, EvidenceBacked
    <3>4. \A a \in Agent : hint'[a] \subseteq {row.chain : row \in RowsOf(a)'}
      BY <1>1, <2>1 DEF EvidenceInv, EvidenceBacked, RowsOf
    <3>5. /\ Streamed(actionStream)' \subseteq OpsOf("pre_exec")' \cup OpsOf("post_exec")'
          /\ Streamed(verdictStream)' \subseteq verdicts'
      BY <1>1, <2>1, <2>6 DEF EvidenceInv, EvidenceBacked, streamVars
    <3>. QED BY <3>1, <3>2, <3>3, <3>4, <3>5 DEF EvidenceBacked
  <2>8. StreamsExact'
    BY <1>1 DEF EvidenceInv, StreamsExact, streamVars
  <2>9. rec.op \notin Streamed(actionStream)
    BY <2>3 DEF EvidenceInv, EvidenceBacked, OpsOf
  <2>10. Stored(r)' /\ Published(r)'
    <3>1. Stored(r)'
      BY <2>2 DEF Stored, Storing
    <3>2. Published(r)'
      BY <1>1, <2>1, <2>2, <2>5, <2>9 DEF Published, AllKinds, streamVars
    <3>. QED BY <3>1, <3>2
  <2>11. ASSUME NEW q \in Req \ {r} PROVE Stored(q)' /\ Published(q)'
    <3>1. req'[q] = req[q] /\ Stored(q) /\ Published(q)
      BY <2>2 DEF EvidenceInv
    <3>2. Stored(q)'
      BY <1>1, <3>1 DEF Stored, Enveloped, Receipted, objectVars
    <3>3. Published(q)'
      BY <1>1, <2>1, <3>1 DEF Published, streamVars
    <3>. QED BY <3>2, <3>3
  <2>12. OnePublisher'
    <3>1. \A q \in Req : req[q].pc \in After => req[q].rec.op # rec.op
      BY <2>3 DEF EvidenceInv, Published
    <3>. QED BY <2>2, <3>1 DEF EvidenceInv, OnePublisher
  <2>. QED BY <2>7, <2>8, <2>10, <2>11, <2>12 DEF EvidenceInv
<1>. QED BY <1>2, <1>3

\* The row a publishing request refers to.
LEMMA PublishedRow ==
    ASSUME TypeOK, EvidenceInv, NEW r \in Req, req[r].pc \in After
    PROVE  /\ req[r].rec.op \in Op /\ req[r].rec.agent \in Agent
           /\ req[r].rec.op \in OpsOf(req[r].rec.kind)
           /\ DeriveChainHash(req[r].rec) \in {row.chain : row \in RowsOf(req[r].rec.agent)}
<1>1. req[r].rec \in Record
  BY ActiveRequest DEF After
<1>2. PICK row \in operations :
         row.rec = req[r].rec /\ row.chain = DeriveChainHash(req[r].rec)
  BY DEF EvidenceInv, Published
<1>. QED BY <1>1, <1>2 DEF Record, OpsOf, RowsOf

LEMMA FanStep ==
    ASSUME TypeOK, EvidenceInv, NEW r \in Req, Fan(r)
    PROVE  EvidenceInv'
<1> DEFINE op == req[r].rec.op
<1>1. /\ req[r].pc = "fan"
      /\ actionStream' = Append(actionStream, op)
      /\ Goto(r, "hint")
      /\ UNCHANGED <<dbVars, hint, objectVars, verdictStream>>
  BY DEF Fan
<1>2. /\ req'[r].pc = "hint" /\ req'[r].rec = req[r].rec
      /\ \A q \in Req \ {r} : req'[q] = req[q]
  BY <1>1, MovesOn
<1>3. /\ req[r].rec.kind \in {"pre_exec", "post_exec"}
      /\ op \notin Streamed(actionStream)
      /\ op \in Op /\ op \in OpsOf(req[r].rec.kind)
  BY <1>1, PublishedRow DEF EvidenceInv, Published, After
<1>4. /\ Streamed(actionStream)' = Streamed(actionStream) \cup {op}
      /\ \A i, j \in 1..Len(actionStream') : actionStream'[i] = actionStream'[j] => i = j
  <2>1. actionStream \in Seq(Op)
    BY DEF TypeOK
  <2>2. \A i, j \in 1..Len(actionStream) : actionStream[i] = actionStream[j] => i = j
    BY DEF EvidenceInv, StreamsExact
  <2>3. Streamed(actionStream)' = Streamed(Append(actionStream, op))
    BY <1>1 DEF Streamed
  <2>. QED BY <1>1, <1>3, <2>1, <2>2, <2>3, StreamedAppend
<1>5. Streamed(verdictStream)' = Streamed(verdictStream)
  BY <1>1 DEF Streamed
<1>6. EvidenceBacked'
  BY <1>1, <1>3, <1>4, <1>5
  DEF EvidenceInv, EvidenceBacked, dbVars, objectVars, OpsOf, RowsOf
<1>7. StreamsExact'
  BY <1>4, <1>5 DEF EvidenceInv, StreamsExact
<1>8. Stored(r)' /\ Published(r)'
  <2>1. Stored(r)'
    BY <1>2 DEF Stored, Storing
  <2>2. Published(r)'
    BY <1>1, <1>2, <1>4 DEF EvidenceInv, Published, After, dbVars
  <2>. QED BY <2>1, <2>2
<1>9. ASSUME NEW q \in Req \ {r} PROVE Stored(q)' /\ Published(q)'
  <2>1. req'[q] = req[q] /\ Stored(q) /\ Published(q)
    BY <1>2 DEF EvidenceInv
  <2>2. Stored(q)'
    BY <1>1, <2>1 DEF Stored, Enveloped, Receipted, objectVars
  <2>3. req[q].pc \in After => req[q].rec.op # op
    BY <1>1 DEF EvidenceInv, OnePublisher, After
  <2>4. Published(q)'
    BY <1>1, <1>4, <2>1, <2>3 DEF Published, dbVars
  <2>. QED BY <2>2, <2>4
<1>10. OnePublisher'
  BY <1>1, <1>2 DEF EvidenceInv, OnePublisher, After
<1>. QED BY <1>6, <1>7, <1>8, <1>9, <1>10 DEF EvidenceInv

LEMMA HintStep ==
    ASSUME TypeOK, EvidenceInv, NEW r \in Req, SetHint(r)
    PROVE  EvidenceInv'
<1> DEFINE rec == req[r].rec
<1>1. /\ req[r].pc = "hint"
      /\ hint' = [hint EXCEPT ![rec.agent] = {DeriveChainHash(rec)}]
      /\ UNCHANGED <<dbVars, objectVars, streamVars>>
  BY DEF SetHint
<1>2. /\ req'[r].pc = "idle" \/ (rec.kind = "pre_exec" /\ req'[r].pc = "verdict"
                                   /\ req'[r].rec = rec)
      /\ \A q \in Req \ {r} : req'[q] = req[q]
  BY <1>1, MovesOn, Ends DEF SetHint
<1>3. EvidenceBacked'
  <2>1. \A a \in Agent : hint'[a] \subseteq {row.chain : row \in RowsOf(a)}
    BY <1>1, PublishedRow DEF EvidenceInv, EvidenceBacked, TypeOK, After
  <2>. QED BY <1>1, <2>1
       DEF EvidenceInv, EvidenceBacked, dbVars, objectVars, streamVars, OpsOf, RowsOf
<1>4. StreamsExact'
  BY <1>1 DEF EvidenceInv, StreamsExact, streamVars
<1>5. Stored(r)' /\ Published(r)'
  <2>1. Stored(r)'
    BY <1>2 DEF Stored, Storing
  <2>2. Published(r)'
    BY <1>1, <1>2 DEF EvidenceInv, Published, After, dbVars, streamVars
  <2>. QED BY <2>1, <2>2
<1>6. ASSUME NEW q \in Req \ {r} PROVE Stored(q)' /\ Published(q)'
  <2>1. req'[q] = req[q] /\ Stored(q) /\ Published(q)
    BY <1>2 DEF EvidenceInv
  <2>. QED BY <1>1, <2>1
       DEF Stored, Published, Enveloped, Receipted, dbVars, objectVars, streamVars
<1>7. OnePublisher'
  BY <1>1, <1>2 DEF EvidenceInv, OnePublisher, After
<1>. QED BY <1>3, <1>4, <1>5, <1>6, <1>7 DEF EvidenceInv

LEMMA FanVerdictStep ==
    ASSUME TypeOK, EvidenceInv, NEW r \in Req, FanVerdict(r)
    PROVE  EvidenceInv'
<1> DEFINE op == req[r].rec.op
<1>1. /\ req[r].pc = "verdict"
      /\ verdictStream' = Append(verdictStream, op)
      /\ End(r)
      /\ UNCHANGED <<dbVars, hint, objectVars, actionStream>>
  BY DEF FanVerdict
<1>2. req'[r].pc = "idle" /\ \A q \in Req \ {r} : req'[q] = req[q]
  BY <1>1, Ends
<1>3. op \in Op /\ op \in OpsOf("pre_exec") /\ op \in Streamed(actionStream)
  BY <1>1, PublishedRow DEF EvidenceInv, Published, After
<1>4. Streamed(verdictStream)' = Streamed(verdictStream) \cup {op}
  <2>1. Streamed(verdictStream)' = Streamed(Append(verdictStream, op))
    BY <1>1 DEF Streamed
  <2>. QED BY <1>3, <2>1, StreamedAppend DEF TypeOK
<1>5. Streamed(actionStream)' = Streamed(actionStream)
  BY <1>1 DEF Streamed
<1>6. EvidenceBacked'
  BY <1>1, <1>3, <1>4, <1>5
  DEF EvidenceInv, EvidenceBacked, dbVars, objectVars, OpsOf, RowsOf
<1>7. StreamsExact'
  BY <1>1, <1>3, <1>4, <1>5 DEF EvidenceInv, StreamsExact
<1>8. ASSUME NEW q \in Req PROVE Stored(q)' /\ Published(q)'
  <2>1. CASE q = r
    BY <1>2, <2>1 DEF Stored, Published, Storing, After
  <2>2. CASE q # r
    <3>1. req'[q] = req[q] /\ Stored(q) /\ Published(q)
      BY <1>2, <2>2 DEF EvidenceInv
    <3>. QED BY <1>1, <3>1
         DEF Stored, Published, Enveloped, Receipted, dbVars, objectVars
  <2>. QED BY <2>1, <2>2
<1>9. OnePublisher'
  BY <1>2 DEF EvidenceInv, OnePublisher, After
<1>. QED BY <1>6, <1>7, <1>8, <1>9 DEF EvidenceInv

LEMMA InitEvidence == Init => EvidenceInv
<1> SUFFICES ASSUME Init PROVE EvidenceInv
  OBVIOUS
<1>1. EvidenceBacked /\ StreamsExact
  BY DEF Init, EvidenceBacked, StreamsExact, OpsOf, Streamed
<1>2. \A r \in Req : req[r].pc = "idle"
  BY DEF Init, Idle
<1>. QED BY <1>1, <1>2 DEF EvidenceInv, Stored, Published, OnePublisher, Storing, After

LEMMA NextEvidence == TypeOK /\ EvidenceInv /\ [Next]_vars => EvidenceInv'
<1> SUFFICES ASSUME TypeOK, EvidenceInv, [Next]_vars PROVE EvidenceInv'
  OBVIOUS
<1>1. ASSUME NEW r \in Req, Receive(r) PROVE EvidenceInv'
  <2>1. UNCHANGED <<dbVars, hint, objectVars, streamVars>>
    BY <1>1 DEF Receive, serverVars
  <2>2. req'[r].pc = "nonce" /\ \A q \in Req \ {r} : req'[q] = req[q]
    BY <1>1 DEF Receive, TypeOK
  <2>. QED BY <2>1, <2>2, QuietStep DEF Early
<1>2. ASSUME NEW r \in Req, RequestStep(r) PROVE EvidenceInv'
  BY <1>2, CheckStep, StoreStep, CommitStep, FanStep, HintStep, FanVerdictStep
  DEF RequestStep
<1>3. ASSUME NEW r \in Req, Abort(r) PROVE EvidenceInv'
  <2>1. End(r) /\ UNCHANGED <<dbVars, hint, objectVars, streamVars>>
    BY <1>3 DEF Abort, serverVars
  <2>. QED BY <2>1, Ends, QuietStep DEF Early
<1>4. CASE ExpireNonce \/ UNCHANGED <<serverVars, req>> \/ UNCHANGED vars
  <2>1. UNCHANGED <<dbVars, hint, objectVars, streamVars, req>>
    BY <1>4 DEF ExpireNonce, serverVars, vars
  <2>. QED BY <2>1, QuietStep
<1>. QED BY <1>1, <1>2, <1>3, <1>4 DEF Next

LEMMA EvidenceInvariant == Spec => []EvidenceInv
BY TypeCorrect, InitEvidence, NextEvidence, PTL DEF Spec

-----------------------------------------------------------------------------
\* Whichever await a request ends at, a row has its objects, a receipt, a verdict
\* or an intervention its row, and hints and streams name committed rows only
\* (governance.py:413, ingest.py:187).
THEOREM BackedCorrect == Spec => []EvidenceBacked
<1>1. EvidenceInv => EvidenceBacked
  BY DEF EvidenceInv
<1>. QED BY <1>1, EvidenceInvariant, PTL

\* However many requests carry one operation id, it is on shield:actions at most
\* once, and before its verdict is on shield:verdicts (governance.py:442).
THEOREM StreamsCorrect == Spec => []StreamsExact
<1>1. EvidenceInv => StreamsExact
  BY DEF EvidenceInv
<1>. QED BY <1>1, EvidenceInvariant, PTL

-----------------------------------------------------------------------------
(***************************************************************************)
(* What was accepted verifies.  A key row loses its status only, until its *)
(* agent is deleted; so for an agent that was there all the time every     *)
(* stored envelope, and every request past the key check, has its key.     *)
(***************************************************************************)
HasKey(rec) == \E k \in KeyRows(rec.kid, rec.agent) : k.pub = rec.signer

Admitted(r) == req[r].pc \notin {"idle", "nonce", "agent", "key"}

Standing(a) == a \in AgentIds /\ a \notin reborn

KeysStand ==
    /\ \A e \in envelopes : Standing(e.agent) => HasKey(e)
    /\ \A r \in Req :
          Admitted(r) /\ Standing(req[r].rec.agent) => HasKey(req[r].rec)

\* The foreign key: an agent with rows is there.
RowsHeld == \A row \in operations : row.rec.agent \in AgentIds

KeysInv == KeysStand /\ RowsHeld

\* Every row of the registry is still there, whatever its status.
AgentsKept == \A row \in agents : \E after \in agents' : after.id = row.id

KeysKept ==
    \A k \in keys :
       \E after \in keys' : after.kid = k.kid /\ after.agent = k.agent /\ after.pub = k.pub

LEMMA RegistryKeeps ==
    ASSUME RegistryTypeOK, NEW t \in Admin, NEW refs, RegistryStep(t, refs)
    PROVE  \/ AgentsKept /\ KeysKept
           \/ \E a : /\ a \notin refs
                     /\ agents' = {row \in agents : row.id # a}
                     /\ keys' = {row \in keys : row.agent # a}
<1>1. CASE UNCHANGED <<agents, keys>>
  BY <1>1 DEF AgentsKept, KeysKept
<1>2. CASE RegisterCommit(t)
  <2>1. agents \subseteq agents' /\ keys \subseteq keys'
    BY <1>2 DEF RegisterCommit
  <2>. QED BY <2>1 DEF AgentsKept, KeysKept
<1>3. CASE SetStatusCommit(t)
  <2> DEFINE status == IF admin[t].cmd.kind = "freeze" THEN "frozen" ELSE "active"
             after(row) == IF row.id = admin[t].cmd.agent
                         THEN [row EXCEPT !.status = status] ELSE row
  <2>1. agents' = {after(row) : row \in agents} /\ keys' = keys
    BY <1>3, Zenon DEF SetStatusCommit
  <2>2. \A row \in agents : row \in AgentRow
    BY DEF RegistryTypeOK
  <2>3. \A row \in agents : after(row).id = row.id
    <3> HIDE DEF status
    <3>. QED BY <2>2 DEF AgentRow
  <2> HIDE DEF after
  <2>. QED BY <2>1, <2>3 DEF AgentsKept, KeysKept
<1>4. CASE RevokeCommit(t)
  <2> DEFINE after(row) == IF row.kid \in admin[t].cmd.kids
                         THEN [row EXCEPT !.status = "revoked"] ELSE row
  <2>1. keys' = {after(row) : row \in keys} /\ agents' = agents
    BY <1>4, Zenon DEF RevokeCommit
  <2>2. \A row \in keys : row \in KeyRow
    BY DEF RegistryTypeOK
  <2>3. \A row \in keys : /\ after(row).kid = row.kid /\ after(row).agent = row.agent
                          /\ after(row).pub = row.pub
    BY <2>2 DEF KeyRow
  <2> HIDE DEF after
  <2>. QED BY <2>1, <2>3 DEF AgentsKept, KeysKept
<1>5. CASE DeleteCommit(t, refs)
  <2>1. CASE UNCHANGED <<agents, keys>>
    BY <1>1, <2>1
  <2>2. CASE /\ admin[t].cmd.agent \notin refs
             /\ keys' = {row \in keys : row.agent # admin[t].cmd.agent}
             /\ agents' = {row \in agents : row.id # admin[t].cmd.agent}
    BY <2>2
  <2>. QED BY <1>5, <2>1, <2>2 DEF DeleteCommit
<1>. QED BY <1>1, <1>2, <1>3, <1>4, <1>5
         DEF RegistryStep, AdminCall, AdminCheck, AdminCheckKey

\* A request past the key check was so before the step, with the same record, or
\* its key is there; and envelopes come from requests past the check.
LEMMA AdmittedStep ==
    ASSUME TypeOK, NEW r \in Req, RequestStep(r) \/ Receive(r) \/ Abort(r)
    PROVE  /\ \A q \in Req : Admitted(q)' =>
                 \/ Admitted(q) /\ req'[q].rec = req[q].rec
                 \/ req'[q].rec = req[q].rec /\ HasKey(req[q].rec)
           /\ envelopes' \subseteq envelopes \cup {req[q].rec : q \in {p \in Req : Admitted(p)}}
           /\ UNCHANGED <<agents, keys>>
           /\ \A row \in operations' :
                 row \in operations \/ \E held \in agents : held.id = row.rec.agent
<1>1. CASE Receive(r) \/ Abort(r)
  <2>1. /\ req'[r].pc \in {"idle", "nonce"}
        /\ \A q \in Req \ {r} : req'[q] = req[q]
    BY <1>1 DEF Receive, Abort, End, Idle, TypeOK
  <2>2. UNCHANGED <<agents, keys, envelopes, operations>>
    BY <1>1 DEF Receive, Abort, registryVars, serverVars, dbVars, objectVars
  <2>. QED BY <2>1, <2>2 DEF Admitted
<1>2. CASE End(r) /\ UNCHANGED <<agents, keys, envelopes, operations>>
  BY <1>2, Ends DEF Admitted
<1>3. CASE /\ \E pc \in {"agent", "key"} : Goto(r, pc)
           /\ req[r].pc # "idle"
           /\ UNCHANGED <<agents, keys, envelopes, operations>>
  <2>1. /\ req'[r].pc \in {"agent", "key"}
        /\ \A q \in Req \ {r} : req'[q] = req[q]
    BY <1>3, MovesOn
  <2>. QED BY <1>3, <2>1 DEF Admitted
<1>4. ASSUME Admitted(r) \/ HasKey(req[r].rec), req[r].pc # "idle",
             \/ \E pc : Goto(r, pc)
             \/ \E pc, seq : req' = [req EXCEPT ![r].pc = pc, ![r].seq = seq]
      PROVE  \A q \in Req : Admitted(q)' =>
                \/ Admitted(q) /\ req'[q].rec = req[q].rec
                \/ req'[q].rec = req[q].rec /\ HasKey(req[q].rec)
  <2>1. /\ req'[r].rec = req[r].rec
        /\ \A q \in Req \ {r} : req'[q] = req[q]
    BY <1>4, MovesOn, ActiveRequest DEF TypeOK
  <2>. QED BY <1>4, <2>1 DEF Admitted
<1>5. CASE CheckKey(r)
  <2>1. req[r].pc = "key" /\ UNCHANGED <<agents, keys, envelopes, operations>>
    BY <1>5 DEF CheckKey, registryVars, serverVars, dbVars, objectVars
  <2>2. CASE HasKey(req[r].rec)
    <3>1. End(r) \/ Goto(r, "prev")
      BY <1>5, Zenon DEF CheckKey
    <3>. QED BY <1>2, <1>4, <2>1, <2>2, <3>1
  <2>3. CASE ~HasKey(req[r].rec)
    <3>1. End(r)
      BY <1>5, <2>3 DEF CheckKey, HasKey
    <3>. QED BY <1>2, <2>1, <3>1
  <2>. QED BY <2>2, <2>3
<1>6. CASE CheckPrev(r) \/ PutReceipt(r) \/ Govern(r) \/ Fan(r) \/ SetHint(r) \/ FanVerdict(r)
  <2>1. Admitted(r) /\ UNCHANGED <<agents, keys, envelopes, operations>>
    BY <1>6 DEF CheckPrev, PutReceipt, Govern, Fan, SetHint, FanVerdict, Admitted,
                registryVars, serverVars, dbVars, objectVars
  <2>2. \/ End(r) \/ \E pc : Goto(r, pc)
        \/ \E pc, seq : req' = [req EXCEPT ![r].pc = pc, ![r].seq = seq]
    BY <1>6 DEF CheckPrev, PutReceipt, Govern, Fan, SetHint, FanVerdict
  <2>. QED BY <1>2, <1>4, <2>1, <2>2 DEF Admitted
<1>7. CASE PutEnvelope(r)
  <2>1. /\ Admitted(r) /\ UNCHANGED <<agents, keys, operations>>
        /\ envelopes' = {e \in envelopes : ~SameObject(e, req[r].rec)} \cup {req[r].rec}
        /\ \E pc : Goto(r, pc)
    BY <1>7 DEF PutEnvelope, Admitted, registryVars, dbVars
  <2>. QED BY <1>4, <2>1 DEF Admitted
<1>8. CASE Commit(r)
  <2>1. Admitted(r) /\ UNCHANGED <<agents, keys, envelopes>>
    BY <1>8 DEF Commit, Admitted, registryVars, objectVars
  <2>2. \/ End(r) /\ UNCHANGED operations
        \/ /\ \E pc : Goto(r, pc)
           /\ \E held \in agents : held.id = req[r].rec.agent
           /\ \E row : row.rec = req[r].rec /\ operations' = operations \cup {row}
    BY <1>8 DEF Commit, Conflict, dbVars
  <2>. QED BY <1>2, <1>4, <2>1, <2>2 DEF Admitted
<1>. QED BY <1>1, <1>2, <1>3, <1>5, <1>6, <1>7, <1>8
         DEF RequestStep, CheckNonce, CheckAgent, registryVars, serverVars, dbVars, objectVars

LEMMA InitKeys == Init => KeysInv
BY DEF Init, KeysInv, KeysStand, RowsHeld, Admitted, Idle

LEMMA NextKeys ==
    ASSUME TypeOK, KeysInv, [Next]_vars,
           reborn' = reborn \cup (AgentIds' \ AgentIds)
    PROVE  KeysInv'
<1>1. ASSUME NEW r \in Req, RequestStep(r) \/ Receive(r) \/ Abort(r)
      PROVE  KeysInv'
  <2>1. /\ \A q \in Req : Admitted(q)' =>
              \/ Admitted(q) /\ req'[q].rec = req[q].rec
              \/ req'[q].rec = req[q].rec /\ HasKey(req[q].rec)
        /\ envelopes' \subseteq envelopes \cup {req[q].rec : q \in {p \in Req : Admitted(p)}}
        /\ UNCHANGED <<agents, keys>>
        /\ \A row \in operations' :
              row \in operations \/ \E held \in agents : held.id = row.rec.agent
    BY <1>1, AdmittedStep
  <2>2. \A rec : HasKey(rec) => \E k \in keys' : /\ k.kid = rec.kid /\ k.agent = rec.agent
                                                 /\ k.pub = rec.signer
    BY <2>1 DEF HasKey, KeyRows
  <2>3. reborn' = reborn /\ AgentIds' = AgentIds
    BY <2>1 DEF AgentIds
  <2>4. KeysStand'
    BY <2>1, <2>2, <2>3 DEF KeysInv, KeysStand, Standing, HasKey, KeyRows
  <2>5. RowsHeld'
    BY <2>1, <2>3 DEF KeysInv, RowsHeld, AgentIds
  <2>. QED BY <2>4, <2>5 DEF KeysInv
<1>2. ASSUME NEW t \in Admin, RegistryStep(t, Referenced), UNCHANGED <<serverVars, req>>
      PROVE  KeysInv'
  <2>1. UNCHANGED <<envelopes, operations, req>>
    BY <1>2 DEF serverVars, dbVars, objectVars
  <2>2. \A a : a \in AgentIds' /\ a \notin reborn' => a \in AgentIds /\ a \notin reborn
    OBVIOUS
  <2>3. CASE AgentsKept /\ KeysKept
    <3>1. AgentIds \subseteq AgentIds'
      BY <2>3 DEF AgentsKept, AgentIds
    <3>2. \A rec : HasKey(rec) => \E k \in keys' : /\ k.kid = rec.kid /\ k.agent = rec.agent
                                                   /\ k.pub = rec.signer
      BY <2>3 DEF KeysKept, HasKey, KeyRows
    <3>. QED BY <2>1, <2>2, <3>1, <3>2
             DEF KeysInv, KeysStand, RowsHeld, Standing, Admitted, HasKey, KeyRows
  <2>4. ASSUME NEW a, a \notin Referenced,
               agents' = {row \in agents : row.id # a},
               keys' = {row \in keys : row.agent # a}
        PROVE  KeysInv'
    <3>1. a \notin AgentIds' /\ \A b \in AgentIds : b # a => b \in AgentIds'
      BY <2>4 DEF AgentIds
    <3>2. \A rec : HasKey(rec) /\ rec.agent # a =>
             \E k \in keys' : /\ k.kid = rec.kid /\ k.agent = rec.agent
                              /\ k.pub = rec.signer
      BY <2>4 DEF HasKey, KeyRows
    <3>3. \A row \in operations : row.rec.agent # a
      BY <2>4 DEF Referenced
    <3>. QED BY <2>1, <2>2, <3>1, <3>2, <3>3
             DEF KeysInv, KeysStand, RowsHeld, Standing, Admitted, HasKey, KeyRows
  <2>5. RegistryTypeOK
    BY DEF TypeOK
  <2>. QED BY <1>2, <2>3, <2>4, <2>5, RegistryKeeps
<1>3. CASE UNCHANGED <<agents, keys, envelopes, operations, req>>
  BY <1>3 DEF KeysInv, KeysStand, RowsHeld, Standing, Admitted, HasKey, KeyRows, AgentIds
<1>. QED BY <1>1, <1>2, <1>3
         DEF Next, ExpireNonce, vars, registryVars, serverVars, dbVars, objectVars

\* The row below is the one the record names.
LEMMA PrevIsBelow ==
    ASSUME TypeOK, ChainIntact, NEW row \in operations, NEW below \in RowsOf(row.rec.agent),
           below.seq = row.seq - 1
    PROVE  below.chain = row.rec.prev
<1> DEFINE e == [op |-> row.rec.op, body |-> row.rec.body]
           k == Len(row.rec.prev)
<1>1. /\ row.rec \in Record /\ row.rec.prev \in Seq(Entry) /\ e \in Entry
      /\ below \in operations /\ below.rec.agent = row.rec.agent
  BY DEF TypeOK, OperationRow, Record, ChainHash, Entry, RowsOf
<1>2. row.chain = Append(row.rec.prev, e) /\ row.seq = k + 1 /\ k \in Nat
  BY <1>1 DEF ChainIntact, DeriveChainHash
<1>3. /\ below.seq = k /\ below.seq = Len(below.chain)
      /\ below.chain = DeriveChainHash(below.rec)
  <2>1. \A r \in operations : r.chain = DeriveChainHash(r.rec) /\ r.seq = Len(r.chain)
    BY DEF ChainIntact
  <2>. QED BY <1>1, <1>2, <2>1
<1>4. k > 0
  <2>1. Len(DeriveChainHash(below.rec)) > 0
    BY <1>1 DEF TypeOK, OperationRow, Record, ChainHash, Entry, DeriveChainHash
  <2>. QED BY <1>2, <1>3, <2>1
<1>5. PICK other \in RowsOf(row.rec.agent) :
         other.seq = k /\ other.chain = SubSeq(row.chain, 1, k)
  <2>1. \A n \in 1..row.seq :
           \E other \in RowsOf(row.rec.agent) :
              other.seq = n /\ other.chain = SubSeq(row.chain, 1, n)
    BY DEF ChainIntact
  <2>2. k \in 1..row.seq
    BY <1>2, <1>4
  <2> HIDE DEF k
  <2>. QED BY <2>1, <2>2
<1>6. other = below
  BY <1>1, <1>3, <1>5 DEF ChainIntact, RowsOf
<1>7. SubSeq(Append(row.rec.prev, e), 1, k) = SubSeq(row.rec.prev, 1, k)
  BY <1>1, <1>2, <1>4, AppendPrefix
<1>8. SubSeq(row.rec.prev, 1, k) = row.rec.prev
  BY <1>1
<1>. QED BY <1>2, <1>5, <1>6, <1>7, <1>8

\* However requests, aborts and management calls interleave, the link and the
\* receipt of an operation that submit_operation accepted hold ever after, and
\* it passes verify_operation as long as its agent has not been deleted and
\* registered anew (agents.py:155) and no governance record with its id lies
\* under its object key (governance.py:203, ingest.py:325).
THEOREM VerifiesCorrect == HistorySpec => []VerifiesUnlessReplaced
<1>1. HistorySpec => Spec
  <2>1. HistoryInit => Init
    BY DEF HistoryInit
  <2>2. [HistoryNext]_<<vars, reborn>> => [Next]_vars
    BY DEF HistoryNext
  <2>. QED BY <2>1, <2>2, PTL DEF HistorySpec, Spec
<1>2. HistorySpec => []KeysInv
  <2>1. HistoryInit => KeysInv
    BY InitKeys DEF HistoryInit
  <2>2. TypeOK /\ KeysInv /\ [HistoryNext]_<<vars, reborn>> => KeysInv'
    <3>1. ASSUME TypeOK, KeysInv, HistoryNext PROVE KeysInv'
      BY <3>1, NextKeys DEF HistoryNext
    <3>2. ASSUME TypeOK, KeysInv, UNCHANGED <<vars, reborn>> PROVE KeysInv'
      <4>1. [Next]_vars /\ reborn' = reborn \cup (AgentIds' \ AgentIds)
        BY <3>2 DEF vars, registryVars, AgentIds
      <4>. QED BY <3>2, <4>1, NextKeys
    <3>. QED BY <3>1, <3>2
  <2>. QED BY <1>1, <2>1, <2>2, TypeCorrect, PTL DEF HistorySpec
<1>3. ASSUME TypeOK, ChainIntact, EvidenceBacked, KeysInv PROVE VerifiesUnlessReplaced
  <2> SUFFICES ASSUME NEW row \in operations, row.rec.kind = "eor"
               PROVE  /\ LinkHolds(row)
                      /\ ReceiptHolds(row)
                      /\ row.rec.agent \in reborn \/ Replaced(row) \/ Verifies(row)
    BY DEF VerifiesUnlessReplaced
  <2>1. LinkHolds(row)
    <3>1. row.chain = DeriveChainHash(row.rec)
      BY <1>3 DEF ChainIntact
    <3>2. \A below \in RowsOf(row.rec.agent) :
             below.seq = row.seq - 1 => below.chain = row.rec.prev
      BY <1>3, PrevIsBelow
    <3>. QED BY <3>1, <3>2 DEF LinkHolds
  <2>2. ReceiptHolds(row)
    BY <1>3 DEF EvidenceBacked, OpsOf, ReceiptHolds
  <2>3. ASSUME row.rec.agent \notin reborn, ~Replaced(row) PROVE SignatureHolds(row)
    <3>1. PICK e \in envelopes : SameObject(e, row.rec)
      BY <1>3 DEF EvidenceBacked
    <3>2. e.kind = "eor"
      BY <2>3, <3>1 DEF Replaced
    <3>3. Standing(e.agent)
      BY <1>3, <2>3, <3>1 DEF KeysInv, RowsHeld, Standing, SameObject
    <3>4. HasKey(e)
      BY <1>3, <3>1, <3>3 DEF KeysInv, KeysStand
    <3>. QED BY <3>1, <3>2, <3>4 DEF SignatureHolds, HasKey
  <2>. QED BY <2>1, <2>2, <2>3 DEF Verifies
<1>. QED BY <1>1, <1>2, <1>3, TypeCorrect, ChainCorrect, BackedCorrect, PTL

-----------------------------------------------------------------------------
(* Deadlines and the nonce key.                                            *)

\* The TTL of the key is no shorter than the TTL of the record, and less than
\* a second longer (ingest.py:106).
THEOREM TtlRoundsUp ==
    \A ttl \in Nat : /\ TtlSeconds(ttl) \in Nat
                     /\ 1000 * TtlSeconds(ttl) >= ttl
                     /\ 1000 * TtlSeconds(ttl) < ttl + 1000
BY DEF TtlSeconds

\* The strengthening: the key's expiry is compared with the end of the
\* record's validity, not with the current time.
KeyOutlasts ==
    \A i \in 1..Len(passes) :
       record.issued_at <= passes[i].received /\ now <= ValidUntil
          => \E expiry \in nonceKey : expiry >= ValidUntil

\* Nothing has been read from a clock that is ahead.
ClockOrder ==
    /\ \A d \in Delivery : \A t \in delivery[d] : t <= now
    /\ \A i \in 1..Len(passes) : passes[i].received <= passes[i].at

WindowInv == WindowTypeOK /\ KeyOutlasts /\ ClockOrder /\ PassesApart

\* The times of the record are natural numbers.
LEMMA RecType ==
    ASSUME WindowTypeOK
    PROVE  record.issued_at \in Nat /\ record.ttl_ms \in Nat /\ ValidUntil \in Nat
<1>1. record.issued_at \in IssuedAt /\ record.ttl_ms \in Ttl
  BY DEF WindowTypeOK
<1>2. record.issued_at \in Nat /\ record.ttl_ms \in Nat
  BY <1>1, ReplayWindowAssumption
<1>. QED BY <1>2 DEF ValidUntil

\* Nothing has passed and no key is set at first.
LEMMA InitWindow == WindowInit => WindowInv
BY ReplayWindowAssumption
DEF WindowInit, WindowInv, WindowTypeOK, KeyOutlasts, ClockOrder, PassesApart

\* A delivery that passes finds no live key, so every earlier pass that counts
\* lies beyond the validity of the record.
LEMMA PassStep ==
    ASSUME WindowInv, NEW d \in Delivery, NEW received \in delivery[d],
           Live(now) = {},
           nonceKey' = {now + 1000 * TtlSeconds(record.ttl_ms)},
           passes' = Append(passes, [received |-> received, at |-> now]),
           delivery' = [delivery EXCEPT ![d] = {}],
           UNCHANGED <<record, now>>
    PROVE  WindowInv'
<1>. USE DEF WindowInv
<1>1. /\ received \in Nat
      /\ received <= now
      /\ now \in Nat
      /\ nonceKey \subseteq Nat
      /\ passes \in Seq([received : Nat, at : Nat])
  BY DEF WindowTypeOK, ClockOrder
<1>2. /\ Len(passes') = Len(passes) + 1
      /\ \A i \in 1..Len(passes) : passes'[i] = passes[i]
      /\ passes'[Len(passes) + 1] = [received |-> received, at |-> now]
      /\ passes' \in Seq([received : Nat, at : Nat])
  BY <1>1
<1>3. /\ record.issued_at \in Nat
      /\ record.ttl_ms \in Nat
      /\ ValidUntil \in Nat
      /\ ValidUntil' = ValidUntil
  BY RecType DEF ValidUntil
<1>4. /\ TtlSeconds(record.ttl_ms) \in Nat
      /\ 1000 * TtlSeconds(record.ttl_ms) >= record.ttl_ms
  BY ONLY <1>3, TtlRoundsUp
<1>5. WindowTypeOK'
  BY <1>1, <1>2, <1>4 DEF WindowTypeOK
<1>6. \A i \in 1..Len(passes) :
         record.issued_at <= passes[i].received => now > ValidUntil
  <2> SUFFICES ASSUME NEW i \in 1..Len(passes),
                      record.issued_at <= passes[i].received, now <= ValidUntil
               PROVE  FALSE
    BY <1>1, <1>3
  <2>1. PICK expiry \in nonceKey : expiry >= ValidUntil
    BY DEF KeyOutlasts
  <2>2. expiry \in Nat /\ expiry >= now
    BY <1>1, <1>3, <2>1
  <2>. QED BY <2>2 DEF Live
<1>7. KeyOutlasts'
  <2>1. record.issued_at <= received =>
           now + 1000 * TtlSeconds(record.ttl_ms) >= ValidUntil
    BY <1>1, <1>3, <1>4 DEF ValidUntil
  <2>2. ASSUME NEW i \in 1..Len(passes'), i # Len(passes) + 1,
               record.issued_at <= passes'[i].received
        PROVE  now > ValidUntil
    BY <1>1, <1>2, <1>6, <2>2
  <2>. QED BY <1>1, <1>2, <1>3, <2>1, <2>2 DEF KeyOutlasts
<1>8. ClockOrder'
  BY <1>1, <1>2 DEF ClockOrder, WindowTypeOK
<1>9. PassesApart'
  <2>1. ASSUME NEW i \in 1..Len(passes'), NEW j \in 1..Len(passes'), i < j,
               record.issued_at <= passes'[i].received
        PROVE  passes'[j].at > ValidUntil
    <3>1. i \in 1..Len(passes) /\ passes'[i] = passes[i]
      BY <1>1, <1>2, <2>1
    <3>2. CASE j = Len(passes) + 1
      BY <1>2, <1>6, <2>1, <3>1, <3>2
    <3>3. CASE j # Len(passes) + 1
      <4>1. j \in 1..Len(passes) /\ passes'[j] = passes[j]
        BY <1>1, <1>2, <3>3
      <4>. QED BY <2>1, <3>1, <4>1 DEF PassesApart
    <3>. QED BY <3>2, <3>3
  <2>. QED BY <1>3, <2>1 DEF PassesApart
<1>. QED BY <1>5, <1>7, <1>8, <1>9

\* A handler that reads the clock, is refused or ends leaves record, key and
\* passes alone.
LEMMA HandlerStep ==
    ASSUME WindowInv, NEW d \in Delivery, NEW held,
           held \in {{}, {now}},
           delivery' = [delivery EXCEPT ![d] = held],
           UNCHANGED <<record, now, nonceKey, passes>>
    PROVE  WindowInv'
<1>1. /\ now \in Nat /\ held \subseteq Nat
      /\ \A t \in held : t <= now
  BY DEF WindowInv, WindowTypeOK
<1>2. WindowTypeOK'
  BY <1>1 DEF WindowInv, WindowTypeOK
<1>3. ValidUntil' = ValidUntil
  BY DEF ValidUntil
<1>4. KeyOutlasts' /\ PassesApart'
  BY <1>3 DEF WindowInv, KeyOutlasts, PassesApart
<1>5. ClockOrder'
  <2>1. \A e \in Delivery : delivery'[e] = IF e = d THEN held ELSE delivery[e]
    BY DEF WindowInv, WindowTypeOK
  <2>. QED BY <1>1, <2>1 DEF WindowInv, ClockOrder
<1>. QED BY <1>2, <1>4, <1>5 DEF WindowInv

\* The invariant is inductive for every receipt, pass, loss and tick of the clock.
LEMMA NextWindow == WindowInv /\ [WindowNext]_windowVars => WindowInv'
<1>. SUFFICES ASSUME WindowInv, [WindowNext]_windowVars PROVE WindowInv'
  OBVIOUS
<1>1. ASSUME NEW d \in Delivery, Validate(d)
      PROVE  WindowInv'
  BY <1>1, HandlerStep DEF Validate
<1>2. ASSUME NEW d \in Delivery, SetNonce(d)
      PROVE  WindowInv'
  <2>1. PICK received \in delivery[d] :
           IF Live(now) # {}
           THEN UNCHANGED <<nonceKey, passes>>
           ELSE /\ nonceKey' = {now + 1000 * TtlSeconds(record.ttl_ms)}
                /\ passes' = Append(passes, [received |-> received, at |-> now])
    BY <1>2 DEF SetNonce
  <2>2. CASE Live(now) # {}
    BY <1>2, <2>1, <2>2, HandlerStep DEF SetNonce
  <2>3. CASE Live(now) = {}
    BY <1>2, <2>1, <2>3, PassStep DEF SetNonce
  <2>. QED BY <2>2, <2>3
<1>3. ASSUME NEW d \in Delivery, Lose(d)
      PROVE  WindowInv'
  BY <1>3, HandlerStep DEF Lose
<1>4. CASE Tick
  <2>. USE DEF WindowInv
  <2>1. now' \in Nat /\ now' > now
    BY <1>4, ReplayWindowAssumption DEF Tick
  <2>2. UNCHANGED <<record, nonceKey, delivery, passes>>
    BY <1>4 DEF Tick
  <2>3. WindowTypeOK'
    BY <2>1, <2>2 DEF WindowTypeOK
  <2>4. ValidUntil \in Nat /\ ValidUntil' = ValidUntil /\ now \in Nat
    BY <2>2, RecType DEF ValidUntil, WindowTypeOK
  <2>5. KeyOutlasts'
    <3>1. now' <= ValidUntil => now <= ValidUntil
      BY <2>1, <2>4
    <3>. QED BY <2>2, <2>4, <3>1 DEF KeyOutlasts
  <2>6. ClockOrder'
    BY <2>1, <2>2, <2>4 DEF ClockOrder, WindowTypeOK
  <2>7. PassesApart'
    BY <2>2, <2>4 DEF PassesApart
  <2>. QED BY <2>3, <2>5, <2>6, <2>7
<1>5. CASE UNCHANGED windowVars
  BY <1>5
  DEF windowVars, WindowInv, WindowTypeOK, KeyOutlasts, ClockOrder, PassesApart, ValidUntil
<1>. QED BY <1>1, <1>2, <1>3, <1>4, <1>5 DEF WindowNext

\* The window invariant holds in every reachable state.
LEMMA WindowInvariant == WindowSpec => []WindowInv
BY InitWindow, NextWindow, PTL DEF WindowSpec

\* The nonce of a record that is not dated ahead outlives it, for every TTL.
THEOREM NonceCorrect == WindowSpec => []NonceOutlivesRecord
<1>1. WindowInv => NonceOutlivesRecord
  <2>. SUFFICES ASSUME WindowInv PROVE NonceOutlivesRecord
    OBVIOUS
  <2>1. now \in Nat /\ nonceKey \subseteq Nat /\ ValidUntil \in Nat
    BY RecType DEF WindowInv, WindowTypeOK
  <2>2. ASSUME now <= ValidUntil,
               NEW expiry \in nonceKey, expiry >= ValidUntil
        PROVE  Live(now) # {}
    BY <2>1, <2>2 DEF Live
  <2>. QED BY <2>2 DEF WindowInv, KeyOutlasts, NonceOutlivesRecord
<1>. QED BY <1>1, WindowInvariant, PTL

\* No record passes a second time unless its call was held back beyond the
\* record's own validity.
THEOREM PassesCorrect == WindowSpec => []PassesApart
BY WindowInvariant, PTL DEF WindowInv
=============================================================================
