----------------------------- MODULE RateLimiter -----------------------------
(***************************************************************************)
(* The per-credential rate limiter: src/ratelimit.rs.                      *)
(*                                                                         *)
(* Threads charge requests while a sweeper evicts idle buckets.  Both take *)
(* the clock mutex first and read the time under it; the bucket map has a  *)
(* mutex of its own, only ever taken inside the first, so it adds nothing. *)
(* Tokens are counted in units of a Unit-th of a token and time in ticks,  *)
(* which makes the f64 arithmetic exact; its rounding is not modelled.     *)
(***************************************************************************)
EXTENDS Integers, FiniteSets

CONSTANTS
    Keys,           \* credential hashes
    Threads,        \* threads that run handlers
    Sweeper,        \* the task of spawn_sweeper
    burst,          \* ZED_RATE_LIMIT_BURST
    Rate,           \* units refilled per tick
    Unit,           \* units one request costs
    TicksPerSecond, \* ticks in the second that Retry-After counts
    IDLE_EVICTION,  \* ticks
    MAX_BUCKETS,    \* tracked credentials
    MaxTime,        \* bound on the clock
    None

ASSUME BurstAssumption == burst \in Nat
ASSUME RateAssumption ==
    Rate \in Nat \ {0} /\ Unit \in Nat \ {0} /\ TicksPerSecond \in Nat \ {0}
ASSUME LimitAssumption == MAX_BUCKETS \in Nat /\ IDLE_EVICTION \in Nat
ASSUME TimeAssumption == MaxTime \in Nat
ASSUME ActorsAssumption ==
    Sweeper \notin Threads /\ None \notin Threads \cup {Sweeper} \cup Keys

VARIABLES
    now,      \* the monotonic clock
    clock,    \* the watermark
    mutex,    \* actors inside the clock mutex
    buckets,  \* tracked credential -> [tokens, last_seen]
    key,      \* credential each thread is charging, None when idle
    sample,   \* the time each actor inside the mutex read, else 0
    decision, \* the last answer: seconds to wait, 0 when let through
    allowed   \* requests of each credential let through

vars == <<now, clock, mutex, buckets, key, sample, decision, allowed>>

AtLeast(n, bound) == IF n >= bound THEN n ELSE bound
Least(n, bound) == IF n <= bound THEN n ELSE bound

\* new_with_limit: a zero burst or bucket limit is raised to one.
Capacity == AtLeast(burst, 1) * Unit
max_buckets == AtLeast(MAX_BUCKETS, 1)

Actors == Threads \cup {Sweeper}

Init ==
    /\ now = 0
    /\ clock = 0
    /\ mutex = {}
    /\ buckets = << >>
    /\ key = [t \in Threads |-> None]
    /\ sample = [a \in Actors |-> 0]
    /\ decision = 0
    /\ allowed = [k \in Keys |-> 0]

Tick ==
    /\ now < MaxTime
    /\ now' = now + 1
    /\ UNCHANGED <<clock, mutex, buckets, key, sample, decision, allowed>>

\* layer: a request that carries a bearer token.
layer(t) ==
    /\ key[t] = None
    /\ \E k \in Keys : key' = [key EXCEPT ![t] = k]
    /\ UNCHANGED <<now, clock, mutex, buckets, sample, decision, allowed>>

\* Take the clock mutex, then read the time.
SampleLocked(a) ==
    /\ a \in Threads => key[a] # None
    /\ mutex = {}
    /\ mutex' = {a}
    /\ sample' = [sample EXCEPT ![a] = now]
    /\ UNCHANGED <<now, clock, buckets, key, decision, allowed>>

Projected(b, at) == b.tokens + (at - b.last_seen) * Rate

\* Mutant: idleness alone is enough to forget a bucket.
ForgetIdle(b, at) == at - b.last_seen >= IDLE_EVICTION

safe_to_forget(b, at) ==
    /\ at - b.last_seen >= IDLE_EVICTION
    /\ Projected(b, at) >= Capacity

Retained(at) ==
    LET kept == {k \in DOMAIN buckets : ~safe_to_forget(buckets[k], at)}
    IN [k \in kept |-> buckets[k]]

Full(map) == Cardinality(DOMAIN map) >= max_buckets

\* What remains of the map when k is looked up in it: a newcomer to a full
\* map has the forgettable ones removed first.
Room(k, at) ==
    IF k \notin DOMAIN buckets /\ Full(buckets) THEN Retained(at) ELSE buckets

Refilled(map, k, at) ==
    IF k \in DOMAIN map THEN Least(Projected(map[k], at), Capacity) ELSE Capacity

Stored(map, k, b) ==
    [j \in DOMAIN map \cup {k} |-> IF j = k THEN b ELSE map[j]]

\* ceil(deficit / per_second), at least one second.
RetryAfter(deficit) ==
    LET perSecond == Rate * TicksPerSecond
    IN AtLeast((deficit + perSecond - 1) \div perSecond, 1)

Finish(t, k, seconds) ==
    /\ mutex' = mutex \ {t}
    /\ key' = [key EXCEPT ![t] = None]
    /\ decision' = seconds
    /\ allowed' = [allowed EXCEPT ![k] = @ + IF seconds = 0 THEN 1 ELSE 0]
    /\ sample' = [sample EXCEPT ![t] = 0]
    /\ UNCHANGED now

(***************************************************************************)
(* check_serialized                                                        *)
(***************************************************************************)

\* A clock that runs backwards denies, and touches nothing.
DenyRewind(t) == Finish(t, key[t], 1) /\ UNCHANGED <<clock, buckets>>

Charge(t, k, at, map) ==
    LET tokens == Refilled(map, k, at)
        pays == tokens >= Unit
        left == IF pays THEN tokens - Unit ELSE tokens
    IN /\ buckets' = Stored(map, k, [tokens |-> left, last_seen |-> at])
       /\ Finish(t, k, IF pays THEN 0 ELSE RetryAfter(Unit - tokens))

\* Mutant: a newcomer to a full map is denied without looking for room.
CheckNeverForgets(t) ==
    /\ t \in mutex
    /\ clock' = sample[t]
    /\ IF key[t] \notin DOMAIN buckets /\ Full(buckets)
       THEN buckets' = buckets /\ Finish(t, key[t], 1)
       ELSE Charge(t, key[t], sample[t], buckets)

check_serialized(t) ==
    /\ t \in mutex
    /\ LET k == key[t]
           at == sample[t]
           map == Room(k, at)
       IN IF at < clock THEN DenyRewind(t)
          ELSE /\ clock' = at
               /\ IF k \notin DOMAIN map /\ Full(map)
                  THEN buckets' = map /\ Finish(t, k, 1)
                  ELSE Charge(t, k, at, map)

sweep_serialized ==
    /\ Sweeper \in mutex
    /\ mutex' = mutex \ {Sweeper}
    /\ IF sample[Sweeper] < clock THEN UNCHANGED <<clock, buckets>>
       ELSE /\ clock' = sample[Sweeper]
            /\ buckets' = Retained(sample[Sweeper])
    /\ sample' = [sample EXCEPT ![Sweeper] = 0]
    /\ UNCHANGED <<now, key, decision, allowed>>

Next ==
    \/ Tick
    \/ \E a \in Actors : SampleLocked(a)
    \/ \E t \in Threads : layer(t) \/ check_serialized(t)
    \/ sweep_serialized

Spec == Init /\ [][Next]_vars

-----------------------------------------------------------------------------
(* Properties.                                                             *)

Charged(t) == t \in mutex /\ t \notin mutex'

\* The map never outgrows max_buckets; even so, and in whatever order threads
\* reach the mutex, a request is refused only when its credential is out of
\* tokens, or the map is full of buckets that cannot be forgotten yet; and in
\* the first case a client that waits as told, with nobody else spending, will
\* have a token.
RefusalIsDeserved ==
    [][/\ Cardinality(DOMAIN buckets') <= max_buckets
       /\ \A t \in Threads :
          Charged(t) /\ decision' > 0 =>
             IF key[t] \in DOMAIN buckets'
             THEN LET left == buckets'[key[t]].tokens
                  IN /\ left < Unit
                     /\ left + decision' * TicksPerSecond * Rate >= Unit
             ELSE /\ Full(buckets')
                  /\ \A k \in DOMAIN buckets' :
                        ~safe_to_forget(buckets'[k], clock')]_vars

-----------------------------------------------------------------------------
(* The limiter implements one ideal bucket per credential: a credential it *)
(* does not track has a full bucket, and forgetting one changes nothing.   *)

IdealBalance ==
    [k \in Keys |-> Refilled(buckets, k, clock)]

Ideal == INSTANCE TokenBucket WITH
            time <- clock, balance <- IdealBalance, Delays <- 0..MaxTime

\* No credential ever gets more than its bucket allows, across eviction,
\* re-admission and any order of threads.
ImplementsTokenBucket == Ideal!BucketSpec

(***************************************************************************)
(* The inductive invariant: what an actor inside the clock mutex relies on *)
(* between reading the time and using it.                                  *)
(***************************************************************************)

Bucket == [tokens : 0..Capacity, last_seen : 0..clock]

TypeOK ==
    /\ now \in 0..MaxTime
    /\ clock \in 0..now
    /\ mutex \subseteq Actors
    /\ DOMAIN buckets \subseteq Keys
    /\ buckets \in [DOMAIN buckets -> Bucket]
    /\ key \in [Threads -> Keys \cup {None}]
    /\ sample \in [Actors -> 0..now]
    /\ decision \in Nat
    /\ allowed \in [Keys -> Nat]

\* One actor is inside, charging some credential if it is a thread, and the
\* time it read is not behind the watermark: no clock runs backwards.
MutexGuardsTheClock ==
    /\ \A x, y \in mutex : x = y
    /\ \A x \in mutex : clock <= sample[x] /\ (x \in Threads => key[x] \in Keys)

MapIsBounded ==
    IsFiniteSet(DOMAIN buckets) /\ Cardinality(DOMAIN buckets) <= max_buckets

IInv ==
    /\ TypeOK
    /\ MutexGuardsTheClock
    /\ MapIsBounded

=============================================================================
