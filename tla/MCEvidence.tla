----------------------------- MODULE MCEvidence -----------------------------
(***************************************************************************)
(* Evidence for one part of its actors at a time: the two schedulers, one  *)
(* scheduler with a client that lists and opens epochs, or a client that   *)
(* reads the tables.                                                       *)
(***************************************************************************)
EXTENDS Evidence

CONSTANTS s1, s2, c1

\* Not in the order of the ids.
MCHash == <<2, 3, 1>>

VARIABLE part

PartInit ==
    /\ Init
    /\ part \in {"schedulers", "client", "tables"}
    /\ timer => part = "schedulers"

\* Only the readers of the tables look at late verdicts and resolutions and tell
\* operations apart by their ids.
Schedules ==
    /\ ops' # ops \/ UNCHANGED verdicts
    /\ \A o, p \in Op : o < p /\ stamp'[p] # 0 => stamp'[o] # 0

SchedulersNext == Next /\ Schedules /\ UNCHANGED client

ClientNext ==
    /\ Next
    /\ Schedules
    /\ sched'[s2] = NoRun
    /\ \A c \in Client : client'[c].kind = "epoch"

TablesNext ==
    /\ Next
    /\ sched'[s1] = NoRun /\ sched'[s2] = NoRun
    /\ \A c \in Client : client'[c].kind # "epoch" \/ client'[c] = Idle

PartNext ==
    /\ \/ part = "schedulers" /\ SchedulersNext
       \/ part = "client" /\ ClientNext
       \/ part = "tables" /\ TablesNext
    /\ UNCHANGED part

PartSpec ==
    /\ PartInit
    /\ [][PartNext]_<<vars, part>>
    /\ \A s \in Scheduler : WF_vars(part = "schedulers" /\ SchedulerStep(s))

\* Where two schedulers run, committed operations never stay out of all persisted
\* epochs (epoch_scheduler.py:123).
CatchUp == part = "schedulers" => EpochsCatchUp
=============================================================================
