---------------------------- MODULE ReplayWindow ----------------------------
(***************************************************************************)
(* The time checks of ingest: a record is refused once issued_at + ttl_ms  *)
(* has passed, and its nonce is kept in the cache for ttl_ms rounded up to *)
(* whole seconds.  The two clocks start at different moments, the handler  *)
(* reads the time before its call reaches the cache, and the units differ; *)
(* the nonce still has to outlive the record.                              *)
(*                                                                         *)
(* One record is delivered again and again.  Times are in milliseconds.    *)
(***************************************************************************)
EXTENDS Integers, Sequences

CONSTANTS
    Delivery,   \* handlers the record is delivered to
    Instant,    \* the moments the clock can show
    IssuedAt,   \* issued_at of the record
    Ttl,        \* ttl_ms of the record, between MinTtl and MaxTtl
    MaxPasses   \* bound: deliveries that pass both checks

MinTtl == 1000
MaxTtl == 300000

ASSUME ReplayWindowAssumption ==
    /\ Instant \subseteq Nat
    /\ IssuedAt \subseteq Nat
    /\ Ttl \subseteq Nat
    /\ MaxPasses \in Nat

VARIABLES
    record,     \* issued_at and ttl_ms
    now,
    nonceKey,   \* when the nonce key expires, a set while there is none
    delivery,   \* the time of receipt each handler has read, a set while idle
    passes      \* receipt and cache time of the deliveries that passed

windowVars == <<record, now, nonceKey, delivery, passes>>

\* The record, the key and the readings of the clock keep their types.
WindowTypeOK ==
    /\ record \in [issued_at : IssuedAt, ttl_ms : Ttl]
    /\ now \in Nat
    /\ nonceKey \in SUBSET Nat
    /\ delivery \in [Delivery -> SUBSET Nat]
    /\ passes \in Seq([received : Nat, at : Nat])

\* Mutant: the TTL in seconds is rounded down.
TtlSecondsDown(ttl) == ttl \div 1000

\* The TTL of the nonce key in seconds, -(-ttl_ms // 1000).
TtlSeconds(ttl) == -((-ttl) \div 1000)

\* set_if_absent: a key is gone once its expiry lies before the time.
Live(time) == {expiry \in nonceKey : expiry >= time}

\* The last moment at which validate_record_fields lets the record pass.
ValidUntil == record.issued_at + record.ttl_ms

\* The record arrives: bounds and expiry are checked against received_at.
Validate(d) ==
    /\ delivery[d] = {}
    /\ record.ttl_ms >= MinTtl
    /\ record.ttl_ms <= MaxTtl
    /\ ValidUntil >= now
    /\ delivery' = [delivery EXCEPT ![d] = {now}]
    /\ UNCHANGED <<record, now, nonceKey, passes>>

\* The call reaches the cache.
SetNonce(d) ==
    /\ Len(passes) < MaxPasses
    /\ \E received \in delivery[d] :
          IF Live(now) # {}
          THEN UNCHANGED <<nonceKey, passes>>
          ELSE /\ nonceKey' = {now + 1000 * TtlSeconds(record.ttl_ms)}
               /\ passes' = Append(passes, [received |-> received, at |-> now])
    /\ delivery' = [delivery EXCEPT ![d] = {}]
    /\ UNCHANGED <<record, now>>

\* The call is lost with its handler.
Lose(d) ==
    /\ delivery[d] # {}
    /\ delivery' = [delivery EXCEPT ![d] = {}]
    /\ UNCHANGED <<record, now, nonceKey, passes>>

Tick ==
    /\ \E t \in Instant : t > now /\ now' = t
    /\ UNCHANGED <<record, nonceKey, delivery, passes>>

WindowInit ==
    /\ record \in [issued_at : IssuedAt, ttl_ms : Ttl]
    /\ now \in Instant
    /\ nonceKey = {}
    /\ delivery = [d \in Delivery |-> {}]
    /\ passes = <<>>

WindowNext ==
    \/ \E d \in Delivery : Validate(d) \/ SetNonce(d) \/ Lose(d)
    \/ Tick

WindowSpec == WindowInit /\ [][WindowNext]_windowVars

-----------------------------------------------------------------------------
\* Once a delivery of a record that is not dated ahead has passed, its nonce
\* key lives as long as the record does, whatever lies between the two checks
\* (ingest.py:72 and :106).
NonceOutlivesRecord ==
    \A i \in 1..Len(passes) :
       record.issued_at <= passes[i].received /\ now <= ValidUntil
          => Live(now) # {}

\* So a further delivery passes only when its own call reached the cache after
\* the record had expired.
PassesApart ==
    \A i, j \in 1..Len(passes) :
       i < j /\ record.issued_at <= passes[i].received
          => passes[j].at > ValidUntil
=============================================================================
