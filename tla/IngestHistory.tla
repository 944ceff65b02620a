---------------------------- MODULE IngestHistory ----------------------------
(***************************************************************************)
(* Ingest with a history variable that has the agents registered after the *)
(* start: what a request inserts for an agent that was deleted and         *)
(* registered anew since it read the key has no key to verify under.       *)
(***************************************************************************)
EXTENDS Ingest

VARIABLE reborn

AgentIds == {row.id : row \in agents}

HistoryInit == Init /\ reborn = {}

HistoryNext == Next /\ reborn' = reborn \cup (AgentIds' \ AgentIds)

HistorySpec == HistoryInit /\ [][HistoryNext]_<<vars, reborn>>

\* The link and the receipt of an operation accepted by submit_operation hold
\* ever after.  It passes verify_operation as a whole as long as its agent has
\* not been deleted and registered anew and no governance record lies under its
\* object key, put there by a decide or record request with its id that was
\* refused later (governance.py:203-205, before the insert): what a refused
\* submit_operation put there is itself consistently signed (ingest.py:165), a
\* revoked key still verifies, and the foreign key keeps the key of an agent
\* with operations from being deleted (agents.py:155).
VerifiesUnlessReplaced ==
    \A row \in operations :
       row.rec.kind = "eor" =>
          /\ LinkHolds(row)
          /\ ReceiptHolds(row)
          /\ row.rec.agent \in reborn \/ Replaced(row) \/ Verifies(row)
=============================================================================
