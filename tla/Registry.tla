------------------------------ MODULE Registry ------------------------------
(***************************************************************************)
(* The agent registry of shield-server (shield_server/agents.py).          *)
(*                                                                         *)
(* Every handler reads the agent row of the caller's organisation first    *)
(* and writes in a later database call.  Other handlers run between the    *)
(* two awaits, so each call of a handler is an action of its own here.     *)
(* The tables `agents` and `agent_keys` are sets of rows; their primary    *)
(* keys are guards of the inserts.                                         *)
(*                                                                         *)
(* Not represented: display fields, timestamps, integration_type (no code  *)
(* branches on them) and the statuses "revoked" (agents) and "retired"     *)
(* (keys), which the handlers test but never write.                        *)
(***************************************************************************)
EXTENDS Naturals, FiniteSets

CONSTANTS
    Agent,      \* agent ids
    Org,        \* organisations; the caller's one is bound by authentication
    Key,        \* key ids (agent_keys.kid)
    Admin,      \* tasks that run management calls
    AdminKinds, \* management calls the tasks make, a subset of AllAdminKinds
    Enrolled    \* registrations made before the behaviour starts

AllAdminKinds == {"register", "freeze", "unfreeze", "revoke", "delete"}

ASSUME RegistryAssumption ==
    /\ AdminKinds \subseteq AllAdminKinds
    /\ Enrolled \subseteq [agent : Agent, org : Org, kid : Key]
    /\ \A e, f \in Enrolled : e.agent = f.agent \/ e.kid = f.kid => e = f

VARIABLES
    agents,     \* rows of the table agents
    keys,       \* rows of the table agent_keys
    admin       \* control state and command of each management task

registryVars == <<agents, keys, admin>>

AgentRow == [id : Agent, org : Org, status : {"active", "frozen"}]

\* The public key of a row belongs to the organisation that registered it.
KeyRow == [kid : Key, agent : Agent, pub : Org, status : {"active", "revoked"}]

\* `kids` holds the keys of a registration, or the one key of a revocation.
Command == [kind : AllAdminKinds, agent : Agent, org : Org, kids : SUBSET Key]

AdminState ==
    [pc : {"idle"}] \cup [pc : {"check", "key", "write"}, cmd : Command]

RegistryTypeOK ==
    /\ agents \subseteq AgentRow
    /\ keys \subseteq KeyRow
    /\ admin \in [Admin -> AdminState]

-----------------------------------------------------------------------------
\* SELECT * FROM agents WHERE agent_id = a AND org_id = o
AgentRows(a, o) == {row \in agents : row.id = a /\ row.org = o}

\* SELECT * FROM agent_keys WHERE kid = k AND agent_id = a
KeyRows(k, a) == {row \in keys : row.kid = k /\ row.agent = a}

Idle == [pc |-> "idle"]

AdminGoto(t, pc) ==
    admin' = [admin EXCEPT ![t] = [pc |-> pc, cmd |-> admin[t].cmd]]

AdminEnd(t) == admin' = [admin EXCEPT ![t] = Idle]

\* A management request arrives for an agent of the caller's organisation.
AdminCall(t) ==
    /\ admin[t].pc = "idle"
    /\ \E kind \in AdminKinds, a \in Agent, o \in Org, kids \in SUBSET Key :
          /\ kind = "revoke" => \E k \in Key : kids = {k}
          /\ kind \notin {"register", "revoke"} => kids = {}
          /\ admin' = [admin EXCEPT ![t] =
                [pc  |-> "check",
                 cmd |-> [kind |-> kind, agent |-> a, org |-> o, kids |-> kids]]]
    /\ UNCHANGED <<agents, keys>>

\* The first read: register_agent stops when the agent exists, every other
\* handler (_require_agent) when it does not.
AdminCheck(t) ==
    /\ admin[t].pc = "check"
    /\ LET c     == admin[t].cmd
           found == AgentRows(c.agent, c.org) # {}
       IN  IF found = (c.kind = "register")
           THEN AdminEnd(t)
           ELSE AdminGoto(t, IF c.kind = "revoke" THEN "key" ELSE "write")
    /\ UNCHANGED <<agents, keys>>

\* revoke_key reads the key row before it updates it.
AdminCheckKey(t) ==
    /\ admin[t].pc = "key"
    /\ LET c == admin[t].cmd
       IN  IF \E k \in c.kids : KeyRows(k, c.agent) = {}
           THEN AdminEnd(t)
           ELSE AdminGoto(t, "write")
    /\ UNCHANGED <<agents, keys>>

\* The transaction of register_agent.  The primary keys are agents(agent_id)
\* and agent_keys(kid), over all organisations: a conflict rolls it back.
RegisterCommit(t) ==
    /\ admin[t].pc = "write"
    /\ LET c == admin[t].cmd
           conflict == \/ \E row \in agents : row.id = c.agent
                       \/ \E row \in keys : row.kid \in c.kids
       IN  /\ c.kind = "register"
           /\ IF conflict
              THEN UNCHANGED <<agents, keys>>
              ELSE /\ agents' = agents \cup
                         {[id |-> c.agent, org |-> c.org, status |-> "active"]}
                   /\ keys' = keys \cup
                         {[kid |-> k, agent |-> c.agent, pub |-> c.org,
                           status |-> "active"] : k \in c.kids}
    /\ AdminEnd(t)

\* UPDATE agents SET status WHERE agent_id: the organisation is not part of
\* the condition, and an agent that is gone is no row to update.
SetStatusCommit(t) ==
    /\ admin[t].pc = "write"
    /\ LET c      == admin[t].cmd
           status == IF c.kind = "freeze" THEN "frozen" ELSE "active"
       IN  /\ c.kind \in {"freeze", "unfreeze"}
           /\ agents' = {IF row.id = c.agent
                         THEN [row EXCEPT !.status = status] ELSE row :
                         row \in agents}
    /\ AdminEnd(t)
    /\ UNCHANGED keys

\* UPDATE agent_keys SET status = 'revoked' WHERE kid.
RevokeCommit(t) ==
    /\ admin[t].pc = "write"
    /\ LET c == admin[t].cmd
       IN  /\ c.kind = "revoke"
           /\ keys' = {IF row.kid \in c.kids
                       THEN [row EXCEPT !.status = "revoked"] ELSE row :
                       row \in keys}
    /\ AdminEnd(t)
    /\ UNCHANGED agents

\* The transaction of delete_agent.  The foreign key of operations rolls it back
\* for an agent that is referenced by a row.
DeleteCommit(t, referenced) ==
    /\ admin[t].pc = "write"
    /\ LET c == admin[t].cmd
       IN  /\ c.kind = "delete"
           /\ IF c.agent \in referenced
              THEN UNCHANGED <<agents, keys>>
              ELSE /\ keys' = {row \in keys : row.agent # c.agent}
                   /\ agents' = {row \in agents : row.id # c.agent}
    /\ AdminEnd(t)

RegistryInit ==
    /\ agents = {[id |-> e.agent, org |-> e.org, status |-> "active"] :
                    e \in Enrolled}
    /\ keys = {[kid |-> e.kid, agent |-> e.agent, pub |-> e.org,
                 status |-> "active"] : e \in Enrolled}
    /\ admin = [t \in Admin |-> Idle]

RegistryStep(t, referenced) ==
    \/ AdminCall(t)
    \/ AdminCheck(t)
    \/ AdminCheckKey(t)
    \/ RegisterCommit(t)
    \/ SetStatusCommit(t)
    \/ RevokeCommit(t)
    \/ DeleteCommit(t, referenced)
=============================================================================
