--------------------------- MODULE RequestProofs ---------------------------
(***************************************************************************)
(* What a request meets on its way in.  First the limiter, for any number  *)
(* of threads and credentials and for every rate and limit: it implements  *)
(* one unforgetful bucket per credential, it bounds the requests of a      *)
(* credential in every window of time, and it refuses only what it must.   *)
(* Then the pure decisions, for every input: package admission, delegated  *)
(* authentication, private artifact reads, binary archives and the         *)
(* registry-host boundary.                                                 *)
(***************************************************************************)
EXTENDS RateLimiter, Decisions, FiniteSetTheorems, SequenceTheorems, TLAPS

-----------------------------------------------------------------------------
(* Arithmetic.                                                             *)

\* A bucket holds at least one request.
LEMMA CapacityIsPositive == Capacity \in Nat /\ Capacity >= Unit
<1> DEFINE b == AtLeast(burst, 1)
<1>1. b \in Nat /\ b >= 1
  BY BurstAssumption DEF AtLeast
<1> HIDE DEF b
<1>2. b * Unit \in Nat /\ b * Unit >= Unit
  BY <1>1, RateAssumption
<1> QED
  BY <1>2 DEF Capacity, b

\* The map has room for one credential at least.
LEMMA LimitIsPositive == max_buckets \in Nat /\ max_buckets >= 1
BY LimitAssumption DEF max_buckets, AtLeast

\* Time earns whole units.
LEMMA EarnedIsNat == \A d \in Nat : d * Rate \in Nat
BY RateAssumption

\* What a tracked bucket is worth now, and later.
LEMMA ProjectionGrows ==
    ASSUME TypeOK, NEW b \in Bucket, NEW s \in Nat, clock <= s
    PROVE  /\ Projected(b, clock) \in Nat /\ Projected(b, s) \in Nat
           /\ Projected(b, s) = Projected(b, clock) + (s - clock) * Rate
<1>1. clock \in Nat /\ b.tokens \in Nat /\ b.last_seen \in Nat /\ b.last_seen <= clock
  BY CapacityIsPositive, TimeAssumption DEF TypeOK, Bucket
<1> DEFINE u == clock - b.last_seen
           v == s - clock
<1>2. u \in Nat /\ v \in Nat /\ s - b.last_seen = u + v
  BY <1>1
<1>3. Projected(b, s) = b.tokens + (u + v) * Rate
  BY <1>2 DEF Projected
<1>4. Projected(b, clock) = b.tokens + u * Rate
  BY DEF Projected
<1> HIDE DEF u, v
<1>5. (u + v) * Rate = u * Rate + v * Rate
  BY <1>2, RateAssumption
<1>6. u * Rate \in Nat /\ v * Rate \in Nat
  BY <1>2, EarnedIsNat
<1>7. Projected(b, s) = Projected(b, clock) + v * Rate
  BY <1>1, <1>3, <1>4, <1>5, <1>6
<1>8. Projected(b, clock) \in Nat /\ Projected(b, s) \in Nat
  BY <1>1, <1>4, <1>6, <1>7
<1> QED
  BY <1>7, <1>8 DEF v

\* Capping before and after refilling is capping once.
LEMMA CappingTwice ==
    ASSUME NEW x \in Nat, NEW e \in Nat, NEW c \in Nat
    PROVE  /\ Ideal!AtMost(Least(x, c) + e, c) = Least(x + e, c)
           /\ Least(x, c) \in 0..c
BY DEF Least, Ideal!AtMost

\* A full bucket stays full.
LEMMA FullStaysFull ==
    ASSUME NEW e \in Nat, NEW c \in Nat
    PROVE  Ideal!AtMost(c + e, c) = c
BY DEF Ideal!AtMost

\* The wait a client is told covers what it lacks.
LEMMA RetryAfterCovers ==
    ASSUME NEW x \in Nat \ {0}
    PROVE  /\ RetryAfter(x) \in Nat /\ RetryAfter(x) >= 1
           /\ RetryAfter(x) * TicksPerSecond * Rate >= x
<1> DEFINE P == Rate * TicksPerSecond
           q == (x + P - 1) \div P
<1>1. P \in Nat /\ P >= 1
  BY RateAssumption
<1>2. RetryAfter(x) = AtLeast(q, 1)
  BY DEF RetryAfter
<1>3. \A n \in Int : n * TicksPerSecond * Rate = n * P
  BY RateAssumption
<1> HIDE DEF P
<1>4. q \in Int /\ P * q > x + P - 1 - P
  BY <1>1
<1> HIDE DEF q
<1>5. P * q >= x
  BY <1>1, <1>4
<1>6. AtLeast(q, 1) \in Nat /\ AtLeast(q, 1) >= 1 /\ AtLeast(q, 1) >= q
  BY <1>4 DEF AtLeast
<1> DEFINE n == AtLeast(q, 1)
<1> HIDE DEF n
<1>7. n \in Nat /\ n >= q
  BY <1>6 DEF n
<1>8. n * P >= P * q
  BY <1>1, <1>4, <1>7
<1>9. n * P >= x
  BY <1>1, <1>4, <1>5, <1>7, <1>8
<1> QED
  BY <1>2, <1>3, <1>6, <1>7, <1>9 DEF n

-----------------------------------------------------------------------------
(* The map.                                                                *)

\* Removing what may be forgotten.
LEMMA RetainedIsPart ==
    ASSUME TypeOK, NEW s
    PROVE  /\ DOMAIN Retained(s) \subseteq DOMAIN buckets
           /\ Retained(s) \in [DOMAIN Retained(s) -> Bucket]
           /\ \A k \in DOMAIN Retained(s) :
                 Retained(s)[k] = buckets[k] /\ ~safe_to_forget(buckets[k], s)
           /\ \A k \in DOMAIN buckets \ DOMAIN Retained(s) : safe_to_forget(buckets[k], s)
BY DEF Retained, TypeOK

\* Whether or not something was forgotten, every credential has at s what its
\* ideal bucket has.
LEMMA ForgettingIsInvisible ==
    ASSUME TypeOK, NEW s \in Nat, clock <= s, NEW map \in {buckets, Retained(s)}, NEW k \in Keys
    PROVE  /\ Refilled(map, k, s) = Ideal!Filled(s - clock)[k]
           /\ Refilled(map, k, s) \in 0..Capacity
<1> DEFINE e == (s - clock) * Rate
<1>1. clock \in Nat /\ s - clock \in Nat /\ e \in Nat
  BY EarnedIsNat, TimeAssumption DEF TypeOK
<1>2. Capacity \in Nat
  BY CapacityIsPositive
<1>3. Ideal!Filled(s - clock)[k] = Ideal!AtMost(Refilled(buckets, k, clock) + e, Capacity)
  BY DEF Ideal!Filled, IdealBalance
<1> HIDE DEF e
<1>4. CASE k \in DOMAIN buckets
  <2> DEFINE x == Projected(buckets[k], clock)
  <2>1. buckets[k] \in Bucket
    BY <1>4 DEF TypeOK
  <2>2. x \in Nat /\ Projected(buckets[k], s) = x + e
    BY <2>1, ProjectionGrows DEF e
  <2>3. Refilled(buckets, k, clock) = Least(x, Capacity)
    BY <1>4 DEF Refilled
  <2> HIDE DEF x
  <2>4. Ideal!Filled(s - clock)[k] = Least(x + e, Capacity) /\ Least(x + e, Capacity) \in 0..Capacity
    <3>1. /\ Ideal!AtMost(Least(x, Capacity) + e, Capacity) = Least(x + e, Capacity)
          /\ x + e \in Nat
      BY <1>1, <1>2, <2>2, CappingTwice
    <3>2. Least(x + e, Capacity) \in 0..Capacity
      BY <1>2, <3>1, CappingTwice
    <3> QED
      BY <1>3, <2>3, <3>1, <3>2
  <2>5. CASE k \in DOMAIN map
    <3>1. map[k] = buckets[k]
      BY <2>5, RetainedIsPart
    <3> QED
      BY <2>2, <2>4, <2>5, <3>1 DEF Refilled
  <2>6. CASE k \notin DOMAIN map
    <3>1. safe_to_forget(buckets[k], s)
      BY <1>4, <2>6, RetainedIsPart
    <3>2. x + e >= Capacity
      BY <2>2, <3>1 DEF safe_to_forget
    <3>3. Least(x + e, Capacity) = Capacity
      BY <1>1, <1>2, <2>2, <3>2 DEF Least
    <3> QED
      BY <1>2, <2>4, <2>6, <3>3 DEF Refilled
  <2> QED
    BY <2>5, <2>6
<1>5. CASE k \notin DOMAIN buckets
  <2>1. k \notin DOMAIN map
    BY <1>5, RetainedIsPart
  <2>2. Refilled(buckets, k, clock) = Capacity /\ Refilled(map, k, s) = Capacity
    BY <1>5, <2>1 DEF Refilled
  <2> QED
    <3>1. Ideal!AtMost(Capacity + e, Capacity) = Capacity /\ Capacity \in 0..Capacity
      BY <1>1, <1>2, FullStaysFull
    <3> QED
      BY <1>3, <2>2, <3>1
<1> QED
  BY <1>4, <1>5

\* What is written for one credential is what it has, and nobody else's
\* bucket changes.
LEMMA StoredIsLocal ==
    ASSUME NEW map, NEW k \in Keys, NEW s \in Nat, NEW left \in 0..Capacity, NEW j \in Keys
    PROVE  Refilled(Stored(map, k, [tokens |-> left, last_seen |-> s]), j, s)
             = IF j = k THEN left ELSE Refilled(map, j, s)
<1> DEFINE b == [tokens |-> left, last_seen |-> s]
           m == Stored(map, k, b)
<1>1. DOMAIN m = DOMAIN map \cup {k} /\ m[k] = b /\ \A i \in DOMAIN map : i # k => m[i] = map[i]
  BY DEF Stored
<1>2. (s - s) * Rate = 0
  BY RateAssumption
<1>3. left \in Nat /\ left <= Capacity /\ Capacity \in Nat
  BY CapacityIsPositive
<1>4. Projected(b, s) = left
  BY <1>2, <1>3 DEF Projected
<1> HIDE DEF b, m
<1>5. CASE j = k
  BY <1>1, <1>3, <1>4, <1>5 DEF Refilled, Least, b, m
<1>6. CASE j # k
  BY <1>1, <1>6 DEF Refilled, b, m
<1> QED
  BY <1>5, <1>6

\* A map that lost credentials, or gained one while it was not full, is within
\* its limit.
LEMMA MapStaysBounded ==
    ASSUME IInv, NEW map, DOMAIN map \subseteq DOMAIN buckets, NEW k
    PROVE  /\ IsFiniteSet(DOMAIN map) /\ Cardinality(DOMAIN map) \in Nat
           /\ Cardinality(DOMAIN map) <= max_buckets
           /\ k \in DOMAIN map \/ ~Full(map) =>
                 /\ IsFiniteSet(DOMAIN map \cup {k})
                 /\ Cardinality(DOMAIN map \cup {k}) <= max_buckets
<1>1. IsFiniteSet(DOMAIN buckets) /\ Cardinality(DOMAIN buckets) <= max_buckets
  BY DEF IInv, MapIsBounded
<1>2. IsFiniteSet(DOMAIN map) /\ Cardinality(DOMAIN map) <= Cardinality(DOMAIN buckets)
  BY <1>1, FS_Subset
<1>3. Cardinality(DOMAIN map) \in Nat /\ Cardinality(DOMAIN buckets) \in Nat
  BY <1>1, <1>2, FS_CardinalityType
<1>4. Cardinality(DOMAIN map) <= max_buckets
  BY <1>1, <1>2, <1>3, LimitIsPositive
<1>5. CASE k \in DOMAIN map
  <2>1. DOMAIN map \cup {k} = DOMAIN map
    BY <1>5
  <2> QED
    BY <1>2, <1>3, <1>4, <2>1
<1>6. CASE k \notin DOMAIN map
  <2>1. /\ IsFiniteSet(DOMAIN map \cup {k})
        /\ Cardinality(DOMAIN map \cup {k}) = Cardinality(DOMAIN map) + 1
    BY <1>2, <1>6, FS_AddElement
  <2>2. ~Full(map) => Cardinality(DOMAIN map) + 1 <= max_buckets
    BY <1>3, LimitIsPositive DEF Full
  <2> QED
    BY <1>2, <1>3, <1>4, <1>6, <2>1, <2>2
<1> QED
  BY <1>5, <1>6

-----------------------------------------------------------------------------
(* The steps.                                                              *)

\* The limiter starts out empty.
LEMMA Initially == Init => IInv
<1> SUFFICES ASSUME Init PROVE IInv
  OBVIOUS
<1>1. DOMAIN buckets = {} /\ buckets \in [DOMAIN buckets -> Bucket]
  BY DEF Init
<1>2. IsFiniteSet({}) /\ Cardinality({}) = 0
  BY FS_EmptySet
<1>3. MapIsBounded
  BY <1>1, <1>2, LimitIsPositive DEF MapIsBounded
<1>4. TypeOK
  BY <1>1, TimeAssumption DEF Init, TypeOK, Actors
<1>5. MutexGuardsTheClock
  BY DEF Init, MutexGuardsTheClock
<1> QED
  BY <1>3, <1>4, <1>5 DEF IInv

\* What an actor inside the mutex works with.
LEMMA InsideTheMutex ==
    ASSUME IInv, NEW x \in mutex
    PROVE  /\ sample[x] \in Nat /\ clock \in Nat /\ now \in Nat /\ now <= MaxTime
           /\ clock <= sample[x] /\ sample[x] <= now
           /\ mutex = {x} /\ x \in Actors
           /\ x \in Threads => key[x] \in Keys
BY TimeAssumption DEF IInv, TypeOK, MutexGuardsTheClock

\* check_serialized, once it is known that the clock has not run backwards:
\* the newcomer finds no room, or the credential is charged.
LEMMA CheckCases ==
    ASSUME IInv, NEW t \in Threads, check_serialized(t)
    PROVE  /\ clock' = sample[t]
           /\ Room(key[t], sample[t]) \in {buckets, Retained(sample[t])}
           /\ \/ /\ key[t] \notin DOMAIN Room(key[t], sample[t])
                 /\ Full(Room(key[t], sample[t]))
                 /\ buckets' = Room(key[t], sample[t])
                 /\ Finish(t, key[t], 1)
              \/ /\ \/ key[t] \in DOMAIN Room(key[t], sample[t])
                    \/ ~Full(Room(key[t], sample[t]))
                 /\ Charge(t, key[t], sample[t], Room(key[t], sample[t]))
<1>1. t \in mutex
  BY DEF check_serialized
<1>2. ~(sample[t] < clock)
  BY <1>1, InsideTheMutex
<1> QED
  BY <1>2 DEF check_serialized, Room

\* The end of a check, for everything but the map and the clock.
LEMMA FinishType ==
    ASSUME IInv, NEW t \in Threads, t \in mutex, NEW n \in Nat, Finish(t, key[t], n)
    PROVE  /\ now' = now /\ mutex' = {} /\ decision' = n
           /\ key' \in [Threads -> Keys \cup {None}]
           /\ sample' \in [Actors -> 0..now]
           /\ allowed' \in [Keys -> Nat]
           /\ n # 0 => allowed' = allowed
           /\ n = 0 => allowed' = [allowed EXCEPT ![key[t]] = @ + 1]
<1>1. mutex = {t} /\ key[t] \in Keys /\ t \in Actors
  BY InsideTheMutex
<1>2. /\ mutex' = mutex \ {t} /\ key' = [key EXCEPT ![t] = None] /\ decision' = n
      /\ allowed' = [allowed EXCEPT ![key[t]] = @ + IF n = 0 THEN 1 ELSE 0]
      /\ sample' = [sample EXCEPT ![t] = 0] /\ now' = now
  BY DEF Finish
<1>3. TypeOK
  BY DEF IInv
<1>4. sample' \in [Actors -> 0..now]
  BY <1>2, <1>3, TimeAssumption DEF TypeOK
<1>5. /\ allowed' \in [Keys -> Nat] /\ (n # 0 => allowed' = allowed)
      /\ n = 0 => allowed' = [allowed EXCEPT ![key[t]] = @ + 1]
  <2>1. allowed \in [Keys -> Nat]
    BY <1>3 DEF TypeOK
  <2>2. CASE n = 0
    <3>1. allowed' = [allowed EXCEPT ![key[t]] = @ + 1]
      BY <1>2, <2>2
    <3> QED
      BY <1>1, <2>1, <2>2, <3>1
  <2>3. CASE n # 0
    <3>1. allowed' = [allowed EXCEPT ![key[t]] = @ + 0]
      BY <1>2, <2>3
    <3>2. allowed' = allowed
      BY <1>1, <2>1, <3>1
    <3> QED
      BY <2>1, <2>3, <3>2
  <2> QED
    BY <2>2, <2>3
<1>6. key' \in [Threads -> Keys \cup {None}]
  BY <1>2, <1>3 DEF TypeOK
<1> QED
  BY <1>1, <1>2, <1>4, <1>5, <1>6

\* What a charge writes and answers.
LEMMA ChargeWrites ==
    ASSUME IInv, NEW t \in Threads, t \in mutex,
           NEW map \in {buckets, Retained(sample[t])}, Charge(t, key[t], sample[t], map)
    PROVE  \E left \in 0..Capacity, n \in Nat :
              /\ buckets' = Stored(map, key[t], [tokens |-> left, last_seen |-> sample[t]])
              /\ Finish(t, key[t], n)
              /\ n = 0 => /\ Refilled(map, key[t], sample[t]) >= Unit
                         /\ left = Refilled(map, key[t], sample[t]) - Unit
              /\ n # 0 => /\ left = Refilled(map, key[t], sample[t]) /\ left < Unit
                         /\ left + n * TicksPerSecond * Rate >= Unit
<1> DEFINE tokens == Refilled(map, key[t], sample[t])
<1>1. tokens \in 0..Capacity /\ Capacity \in Nat /\ Unit \in Nat /\ Unit # 0
  BY InsideTheMutex, ForgettingIsInvisible, CapacityIsPositive, RateAssumption DEF IInv
<1>2. CASE tokens >= Unit
  <2>1. /\ buckets' = Stored(map, key[t], [tokens |-> tokens - Unit, last_seen |-> sample[t]])
        /\ Finish(t, key[t], 0)
    BY <1>2 DEF Charge
  <2>2. tokens - Unit \in 0..Capacity
    BY <1>1, <1>2
  <2> QED
    BY <1>2, <2>1, <2>2
<1>3. CASE ~(tokens >= Unit)
  <2>1. /\ buckets' = Stored(map, key[t], [tokens |-> tokens, last_seen |-> sample[t]])
        /\ Finish(t, key[t], RetryAfter(Unit - tokens))
    BY <1>3 DEF Charge
  <2> HIDE DEF tokens
  <2>2. Unit - tokens \in Nat \ {0} /\ tokens < Unit
    BY <1>1, <1>3
  <2> DEFINE n == RetryAfter(Unit - tokens)
             g == n * TicksPerSecond * Rate
  <2>3. n \in Nat /\ n # 0 /\ g >= Unit - tokens /\ g \in Nat
    BY <2>2, RetryAfterCovers, RateAssumption
  <2> HIDE DEF g
  <2>4. tokens + g >= Unit
    BY <1>1, <2>3
  <2> QED
    BY <1>1, <2>1, <2>2, <2>3, <2>4 DEF tokens, g
<1> QED
  BY <1>2, <1>3

\* A map of buckets seen by the old watermark is one of buckets seen by the new.
LEMMA BucketsAge ==
    ASSUME IInv, clock' \in Nat, clock <= clock'
    PROVE  Bucket \subseteq Bucket'
<1>1. clock \in Nat
  BY TimeAssumption DEF IInv, TypeOK
<1>2. 0..clock \subseteq 0..clock'
  BY <1>1
<1> QED
  BY <1>2 DEF Bucket, Capacity

\* A check leaves the mutex free and the map within its limit.
LEMMA IInv_check_serialized ==
    ASSUME IInv, NEW t \in Threads, check_serialized(t)
    PROVE  IInv'
<1> DEFINE s == sample[t]
           k == key[t]
           map == Room(k, s)
<1>1. t \in mutex
  BY DEF check_serialized
<1>2. /\ s \in Nat /\ clock \in Nat /\ now \in Nat /\ clock <= s /\ s <= now /\ k \in Keys
      /\ now <= MaxTime
  BY <1>1, InsideTheMutex
<1>3. /\ clock' = s /\ map \in {buckets, Retained(s)}
      /\ \/ k \notin DOMAIN map /\ Full(map) /\ buckets' = map /\ Finish(t, k, 1)
         \/ (k \in DOMAIN map \/ ~Full(map)) /\ Charge(t, k, s, map)
  BY CheckCases
<1>4. /\ DOMAIN map \subseteq DOMAIN buckets /\ map \in [DOMAIN map -> Bucket]
      /\ DOMAIN map \subseteq Keys
  BY <1>3, RetainedIsPart DEF IInv, TypeOK
<1>5. Bucket \subseteq Bucket'
  BY <1>2, <1>3, BucketsAge
<1> HIDE DEF map
<1>6. ASSUME buckets' = map, Finish(t, k, 1) PROVE IInv'
  <2>1. MapIsBounded'
    BY <1>4, <1>6, MapStaysBounded DEF MapIsBounded, max_buckets
  <2>2. TypeOK'
    BY <1>1, <1>2, <1>3, <1>4, <1>5, <1>6, FinishType DEF TypeOK
  <2>3. MutexGuardsTheClock'
    BY <1>1, <1>6, FinishType DEF MutexGuardsTheClock
  <2> QED
    BY <2>1, <2>2, <2>3 DEF IInv
<1>7. ASSUME k \in DOMAIN map \/ ~Full(map), Charge(t, k, s, map) PROVE IInv'
  <2>1. PICK left \in 0..Capacity, n \in Nat :
              /\ buckets' = Stored(map, k, [tokens |-> left, last_seen |-> s])
              /\ Finish(t, k, n)
    BY <1>1, <1>3, <1>7, ChargeWrites
  <2>2. [tokens |-> left, last_seen |-> s] \in Bucket'
    BY <1>2, <1>3 DEF Bucket, Capacity
  <2>3. DOMAIN buckets' = DOMAIN map \cup {k} /\ buckets' \in [DOMAIN buckets' -> Bucket']
    <3> DEFINE b == [tokens |-> left, last_seen |-> s]
    <3>1. b \in Bucket'
      BY <2>2
    <3> HIDE DEF b
    <3>2. buckets' = [j \in DOMAIN map \cup {k} |-> IF j = k THEN b ELSE map[j]]
      BY <2>1 DEF Stored, b
    <3>3. \A j \in DOMAIN map : map[j] \in Bucket'
      BY <1>4, <1>5
    <3> QED
      BY <3>1, <3>2, <3>3
  <2>4. MapIsBounded'
    BY <1>4, <1>7, <2>3, MapStaysBounded DEF MapIsBounded, max_buckets
  <2>5. TypeOK'
    BY <1>1, <1>2, <1>3, <1>4, <2>1, <2>3, FinishType DEF TypeOK
  <2>6. MutexGuardsTheClock'
    BY <1>1, <2>1, FinishType DEF MutexGuardsTheClock
  <2> QED
    BY <2>4, <2>5, <2>6 DEF IInv
<1> QED
  BY <1>3, <1>6, <1>7

\* The sweeper, once it is known that the clock has not run backwards.
LEMMA SweepForgets ==
    ASSUME IInv, sweep_serialized
    PROVE  /\ Sweeper \in mutex /\ mutex' = {}
           /\ clock' = sample[Sweeper] /\ buckets' = Retained(sample[Sweeper])
           /\ sample' = [sample EXCEPT ![Sweeper] = 0]
           /\ UNCHANGED <<now, key, decision, allowed>>
<1>1. Sweeper \in mutex
  BY DEF sweep_serialized
<1>2. ~(sample[Sweeper] < clock) /\ mutex = {Sweeper}
  BY <1>1, InsideTheMutex
<1> QED
  BY <1>2 DEF sweep_serialized

\* The steps that leave the watermark and the map alone.
LEMMA IInv_Other ==
    ASSUME IInv, \/ Tick \/ \E x \in Actors : SampleLocked(x)
                 \/ \E t \in Threads : layer(t)
                 \/ UNCHANGED vars
    PROVE  IInv' /\ UNCHANGED <<clock, buckets, allowed>>
<1>1. UNCHANGED <<clock, buckets, allowed, decision>>
  BY DEF Tick, SampleLocked, layer, vars
<1>2. MapIsBounded'
  BY <1>1 DEF IInv, MapIsBounded, max_buckets
<1>3. /\ DOMAIN buckets' \subseteq Keys /\ buckets' \in [DOMAIN buckets' -> Bucket']
      /\ decision' \in Nat /\ allowed' \in [Keys -> Nat]
  BY <1>1 DEF IInv, TypeOK, Bucket, Capacity
<1>4. now \in Nat /\ clock \in Nat /\ clock <= now /\ now <= MaxTime
  BY TimeAssumption DEF IInv, TypeOK
<1>5. CASE Tick
  <2>1. now < MaxTime /\ now' = now + 1 /\ UNCHANGED <<mutex, key, sample>>
    BY <1>5 DEF Tick
  <2>2. now' \in 0..MaxTime /\ clock \in 0..now' /\ 0..now \subseteq 0..now'
    BY <1>4, <2>1, TimeAssumption
  <2>3. TypeOK' /\ MutexGuardsTheClock'
    BY <1>1, <1>3, <2>1, <2>2 DEF IInv, TypeOK, MutexGuardsTheClock
  <2> QED
    BY <1>1, <1>2, <2>3 DEF IInv
<1>6. ASSUME NEW x \in Actors, SampleLocked(x) PROVE IInv'
  <2>1. /\ (x \in Threads => key[x] # None) /\ mutex' = {x}
        /\ sample' = [sample EXCEPT ![x] = now] /\ UNCHANGED <<now, key>>
    BY <1>6 DEF SampleLocked
  <2>2. TypeOK'
    BY <1>1, <1>3, <1>4, <2>1 DEF IInv, TypeOK
  <2>3. MutexGuardsTheClock'
    BY <1>1, <1>4, <2>1 DEF IInv, TypeOK, MutexGuardsTheClock
  <2> QED
    BY <1>2, <2>2, <2>3 DEF IInv
<1>7. ASSUME NEW t \in Threads, layer(t) PROVE IInv'
  <2>1. key[t] = None /\ (\E k \in Keys : key' = [key EXCEPT ![t] = k]) /\ UNCHANGED <<now, mutex, sample>>
    BY <1>7 DEF layer
  <2>2. t \notin mutex
    BY <1>7, <2>1, ActorsAssumption DEF IInv, MutexGuardsTheClock
  <2>3. TypeOK'
    BY <1>1, <1>3, <2>1 DEF IInv, TypeOK
  <2>4. MutexGuardsTheClock'
    BY <1>1, <2>1, <2>2 DEF IInv, TypeOK, MutexGuardsTheClock
  <2> QED
    BY <1>2, <2>3, <2>4 DEF IInv
<1>8. CASE UNCHANGED vars
  <2>1. UNCHANGED <<now, mutex, key, sample>>
    BY <1>8 DEF vars
  <2>2. TypeOK' /\ MutexGuardsTheClock'
    BY <1>1, <1>3, <2>1 DEF IInv, TypeOK, MutexGuardsTheClock
  <2> QED
    BY <1>1, <1>2, <2>2 DEF IInv
<1> QED
  BY <1>1, <1>5, <1>6, <1>7, <1>8

\* A sweep leaves a part of the map.
LEMMA IInv_sweep_serialized ==
    ASSUME IInv, sweep_serialized
    PROVE  IInv'
<1> DEFINE s == sample[Sweeper]
<1>1. /\ Sweeper \in mutex /\ mutex' = {} /\ clock' = s /\ buckets' = Retained(s)
      /\ sample' = [sample EXCEPT ![Sweeper] = 0] /\ UNCHANGED <<now, key, decision, allowed>>
  BY SweepForgets
<1>2. s \in Nat /\ clock \in Nat /\ now \in Nat /\ clock <= s /\ s <= now
  BY <1>1, InsideTheMutex
<1>3. /\ DOMAIN buckets' \subseteq DOMAIN buckets /\ buckets' \in [DOMAIN buckets' -> Bucket]
  BY <1>1, RetainedIsPart DEF IInv
<1>4. Bucket \subseteq Bucket'
  BY <1>1, <1>2, BucketsAge
<1>5. MapIsBounded'
  BY <1>3, MapStaysBounded DEF MapIsBounded, max_buckets
<1>6. TypeOK'
  BY <1>1, <1>2, <1>3, <1>4 DEF IInv, TypeOK
<1>7. MutexGuardsTheClock'
  BY <1>1 DEF MutexGuardsTheClock
<1> QED
  BY <1>5, <1>6, <1>7 DEF IInv

-----------------------------------------------------------------------------
(* The refinement.                                                         *)

\* The ideal balances after a step.
LEMMA NextBalance == IdealBalance' = [j \in Keys |-> Refilled(buckets', j, clock')]
BY DEF IdealBalance, Refilled, Least, Projected, Capacity, AtLeast

\* The time that passes in a step of an actor inside the mutex.
LEMMA DelayInside ==
    ASSUME IInv, NEW x \in mutex
    PROVE  /\ sample[x] - clock \in 0..MaxTime
           /\ sample[x] = clock + (sample[x] - clock)
BY InsideTheMutex, TimeAssumption

\* A step after which every credential has what its ideal bucket has by then
\* lets time pass there.
LEMMA ElapseRefines ==
    ASSUME IInv, NEW x \in mutex, clock' = sample[x], allowed' = allowed,
           \A j \in Keys : Refilled(buckets', j, sample[x]) = Ideal!Filled(sample[x] - clock)[j]
    PROVE  Ideal!BucketNext
<1> DEFINE d == sample[x] - clock
<1>1. d \in 0..MaxTime /\ clock' = clock + d
  BY DelayInside
<1>2. Ideal!Filled(d) = [j \in Keys |-> Ideal!Filled(d)[j]]
  BY DEF Ideal!Filled
<1> HIDE DEF d
<1>3. IdealBalance' = [j \in Keys |-> Ideal!Filled(d)[j]]
  BY NextBalance DEF d
<1>4. Ideal!Elapse(d)
  BY <1>1, <1>2, <1>3 DEF Ideal!Elapse
<1> QED
  BY <1>1, <1>4 DEF Ideal!BucketNext

\* A request let through is let through by the ideal bucket.
LEMMA GrantRefines ==
    ASSUME IInv, NEW x \in mutex, NEW k \in Keys, clock' = sample[x],
           allowed' = [allowed EXCEPT ![k] = @ + 1],
           Ideal!Filled(sample[x] - clock)[k] >= Unit,
           \A j \in Keys : Refilled(buckets', j, sample[x]) =
              IF j = k THEN Ideal!Filled(sample[x] - clock)[k] - Unit
              ELSE Ideal!Filled(sample[x] - clock)[j]
    PROVE  Ideal!BucketNext
<1> DEFINE d == sample[x] - clock
           F == Ideal!Filled(d)
<1>1. d \in 0..MaxTime /\ clock' = clock + d
  BY DelayInside
<1>2. F = [j \in Keys |-> F[j]]
  BY DEF Ideal!Filled
<1>3. IdealBalance' = [j \in Keys |-> IF j = k THEN F[k] - Unit ELSE F[j]]
  BY NextBalance
<1>4. F[k] >= Unit
  OBVIOUS
<1> HIDE DEF F, d
<1>5. IdealBalance' = [F EXCEPT ![k] = @ - Unit]
  BY <1>2, <1>3
<1>6. Ideal!Grant(k, d)
  BY <1>1, <1>4, <1>5 DEF Ideal!Grant, F
<1> QED
  BY <1>1, <1>6 DEF Ideal!BucketNext

\* Every step of the limiter is one of the ideal buckets, or none.
LEMMA StepRefines ==
    ASSUME IInv, [Next]_vars
    PROVE  [Ideal!BucketNext]_Ideal!bucketVars
<1>1. ASSUME UNCHANGED <<clock, buckets, allowed>> PROVE UNCHANGED Ideal!bucketVars
  BY <1>1, NextBalance DEF Ideal!bucketVars, IdealBalance
<1>2. ASSUME NEW t \in Threads, check_serialized(t) PROVE Ideal!BucketNext
  <2> DEFINE s == sample[t]
             k == key[t]
             map == Room(k, s)
  <2>1. t \in mutex
    BY <1>2 DEF check_serialized
  <2>2. s \in Nat /\ clock <= s /\ k \in Keys
    BY <2>1, InsideTheMutex
  <2>3. /\ clock' = s /\ map \in {buckets, Retained(s)}
        /\ \/ buckets' = map /\ Finish(t, k, 1)
           \/ Charge(t, k, s, map)
    BY <1>2, CheckCases
  <2> HIDE DEF map
  <2>4. \A j \in Keys : Refilled(map, j, s) = Ideal!Filled(s - clock)[j]
    BY <2>2, <2>3, ForgettingIsInvisible DEF IInv
  <2>5. CASE buckets' = map /\ Finish(t, k, 1)
    <3>1. allowed' = allowed
      BY <2>1, <2>5, FinishType
    <3> QED
      BY <2>1, <2>3, <2>4, <2>5, <3>1, ElapseRefines
  <2>6. CASE Charge(t, k, s, map)
    <3>1. PICK left \in 0..Capacity, n \in Nat :
              /\ buckets' = Stored(map, k, [tokens |-> left, last_seen |-> s])
              /\ Finish(t, k, n)
              /\ n = 0 => Refilled(map, k, s) >= Unit /\ left = Refilled(map, k, s) - Unit
              /\ n # 0 => left = Refilled(map, k, s)
      BY <2>1, <2>3, <2>6, ChargeWrites
    <3>2. \A j \in Keys : Refilled(buckets', j, s) = IF j = k THEN left ELSE Refilled(map, j, s)
      BY <2>2, <3>1, StoredIsLocal
    <3>3. CASE n = 0
      <4>1. allowed' = [allowed EXCEPT ![k] = @ + 1]
        BY <2>1, <3>1, <3>3, FinishType
      <4>2. \A j \in Keys : Refilled(buckets', j, s) =
               IF j = k THEN Ideal!Filled(s - clock)[k] - Unit ELSE Ideal!Filled(s - clock)[j]
        BY <2>2, <2>4, <3>1, <3>2, <3>3
      <4>3. Ideal!Filled(s - clock)[k] >= Unit
        BY <2>2, <2>4, <3>1, <3>3
      <4> QED
        BY <2>1, <2>2, <2>3, <4>1, <4>2, <4>3, GrantRefines
    <3>4. CASE n # 0
      <4>1. allowed' = allowed
        BY <2>1, <3>1, <3>4, FinishType
      <4>2. \A j \in Keys : Refilled(buckets', j, s) = Ideal!Filled(s - clock)[j]
        BY <2>4, <3>1, <3>2, <3>4
      <4> QED
        BY <2>1, <2>3, <4>1, <4>2, ElapseRefines
    <3> QED
      BY <3>3, <3>4
  <2> QED
    BY <2>3, <2>5, <2>6
<1>3. ASSUME sweep_serialized PROVE Ideal!BucketNext
  <2>1. /\ Sweeper \in mutex /\ clock' = sample[Sweeper] /\ allowed' = allowed
        /\ buckets' = Retained(sample[Sweeper])
    BY <1>3, SweepForgets
  <2>2. \A j \in Keys :
           Refilled(buckets', j, sample[Sweeper]) = Ideal!Filled(sample[Sweeper] - clock)[j]
    BY <2>1, InsideTheMutex, ForgettingIsInvisible DEF IInv
  <2> QED
    BY <2>1, <2>2, ElapseRefines
<1>4. CASE \/ Tick \/ \E x \in Actors : SampleLocked(x)
           \/ \E t \in Threads : layer(t)
           \/ UNCHANGED vars
  BY <1>1, <1>4, IInv_Other
<1> QED
  BY <1>2, <1>3, <1>4 DEF Next

-----------------------------------------------------------------------------
(* Every window of time.                                                   *)

\* The ideal balances are within the capacity.
LEMMA BalanceType ==
    ASSUME IInv
    PROVE  /\ clock \in Nat /\ allowed \in [Keys -> Nat]
           /\ IdealBalance \in [Keys -> 0..Capacity]
<1>1. TypeOK /\ clock \in Nat /\ allowed \in [Keys -> Nat]
  BY TimeAssumption DEF IInv, TypeOK
<1>2. \A k \in Keys : Refilled(buckets, k, clock) \in 0..Capacity
  BY <1>1, ForgettingIsInvisible
<1> QED
  BY <1>1, <1>2 DEF IdealBalance

\* Refilling never overfills, and adds no more than time has earned.
LEMMA FilledIsBounded ==
    ASSUME IInv, NEW d \in Nat
    PROVE  /\ Ideal!Filled(d) \in [Keys -> 0..Capacity]
           /\ d * Rate \in Nat
           /\ \A k \in Keys : Ideal!Filled(d)[k] <= IdealBalance[k] + d * Rate
<1> DEFINE earned == d * Rate
<1>1. earned \in Nat /\ Capacity \in Nat
  BY EarnedIsNat, CapacityIsPositive
<1>2. Ideal!Filled(d) = [k \in Keys |-> Ideal!AtMost(IdealBalance[k] + earned, Capacity)]
  BY DEF Ideal!Filled
<1>3. IdealBalance \in [Keys -> 0..Capacity]
  BY BalanceType
<1> HIDE DEF earned
<1>4. \A k \in Keys :
         /\ Ideal!AtMost(IdealBalance[k] + earned, Capacity) \in 0..Capacity
         /\ Ideal!AtMost(IdealBalance[k] + earned, Capacity) <= IdealBalance[k] + earned
  BY <1>1, <1>3 DEF Ideal!AtMost
<1> QED
  BY <1>1, <1>2, <1>4 DEF earned

\* A step in which the ideal buckets let d ticks pass, and perhaps one request
\* through, earns each credential no more than d ticks are worth.
LEMMA WorthGrows ==
    ASSUME IInv, NEW d \in Nat, Ideal!Elapse(d) \/ \E j \in Keys : Ideal!Grant(j, d), NEW k \in Keys
    PROVE  Ideal!Worth(k)' - Ideal!Worth(k) <= Rate * (clock' - clock)
<1> DEFINE paid == allowed[k] * Unit
           F == Ideal!Filled(d)
<1>1. /\ F \in [Keys -> 0..Capacity] /\ d * Rate \in Nat /\ F[k] <= IdealBalance[k] + d * Rate
      /\ clock \in Nat /\ allowed \in [Keys -> Nat] /\ IdealBalance[k] \in 0..Capacity
      /\ Unit \in Nat /\ Rate \in Nat /\ Capacity \in Nat
  BY FilledIsBounded, BalanceType, RateAssumption, CapacityIsPositive
<1>2. clock' = clock + d
  BY DEF Ideal!Elapse, Ideal!Grant
<1>3. Rate * (clock' - clock) = d * Rate
  BY <1>1, <1>2
<1>4. Ideal!Worth(k) = paid + IdealBalance[k] /\ paid \in Nat
  BY <1>1 DEF Ideal!Worth
<1>5. Ideal!Worth(k)' = paid + F[k]
  <2>1. Ideal!Worth(k)' = allowed'[k] * Unit + IdealBalance'[k]
    BY DEF Ideal!Worth
  <2>2. CASE Ideal!Elapse(d)
    BY <2>1, <2>2 DEF Ideal!Elapse
  <2>3. ASSUME NEW j \in Keys, Ideal!Grant(j, d) PROVE Ideal!Worth(k)' = paid + F[k]
    <3>1. /\ F[j] >= Unit /\ IdealBalance' = [F EXCEPT ![j] = @ - Unit]
          /\ allowed' = [allowed EXCEPT ![j] = @ + 1]
      BY <2>3 DEF Ideal!Grant
    <3> HIDE DEF F
    <3>2. CASE k = j
      <4>1. IdealBalance'[k] = F[k] - Unit /\ allowed'[k] = allowed[k] + 1 /\ allowed[k] \in Nat
        BY <1>1, <3>1, <3>2
      <4>2. (allowed[k] + 1) * Unit = paid + Unit
        BY <1>1, <4>1
      <4>3. Ideal!Worth(k)' = (paid + Unit) + (F[k] - Unit)
        BY <2>1, <4>1, <4>2
      <4> HIDE DEF paid
      <4> QED
        BY <1>1, <1>4, <4>3
    <3>3. CASE k # j
      BY <1>1, <2>1, <3>1, <3>3
    <3> QED
      BY <3>2, <3>3
  <2> QED
    BY <2>2, <2>3
<1> HIDE DEF paid, F
<1> QED
  BY <1>1, <1>3, <1>4, <1>5

-----------------------------------------------------------------------------
(* The theorems.                                                           *)

\* What an actor inside the clock mutex relies on holds throughout; in
\* particular check_serialized never sees a clock that ran backwards.
THEOREM Invariance == Spec => []IInv
<1>1. IInv /\ [Next]_vars => IInv'
  BY IInv_check_serialized, IInv_sweep_serialized, IInv_Other DEF Next
<1> QED
  BY <1>1, Initially, PTL DEF Spec

\* The limiter implements one unforgetful bucket per credential, across
\* eviction, re-admission and any order of threads at the mutex.
THEOREM Refinement == Spec => ImplementsTokenBucket
<1>1. Init => Ideal!BucketInit
  BY DEF Init, Ideal!BucketInit, IdealBalance, Refilled
<1>2. IInv /\ [Next]_vars => [Ideal!BucketNext]_Ideal!bucketVars
  BY StepRefines
<1> QED
  BY <1>1, <1>2, Invariance, PTL DEF Spec, ImplementsTokenBucket, Ideal!BucketSpec

\* In any window of t ticks, wherever it begins, a credential is let through at
\* most (Capacity + t * Rate) / Unit times: sum the steps of the window.
THEOREM WindowIsBounded == Spec => Ideal!WindowBound
<1>1. IInv /\ IInv' /\ [Next]_vars
      => [\A k \in Keys : /\ Ideal!Worth(k)' - Ideal!Worth(k) <= Rate * (clock' - clock)
                          /\ IdealBalance'[k] \in 0..Capacity]_Ideal!bucketVars
  <2> SUFFICES ASSUME IInv, IInv', [Next]_vars
               PROVE  [\A k \in Keys :
                          /\ Ideal!Worth(k)' - Ideal!Worth(k) <= Rate * (clock' - clock)
                          /\ IdealBalance'[k] \in 0..Capacity]_Ideal!bucketVars
    OBVIOUS
  <2>1. CASE UNCHANGED Ideal!bucketVars
    BY <2>1
  <2>2. CASE Ideal!BucketNext
    <3>1. PICK d \in 0..MaxTime : Ideal!Elapse(d) \/ \E j \in Keys : Ideal!Grant(j, d)
      BY <2>2 DEF Ideal!BucketNext
    <3>2. d \in Nat
      BY TimeAssumption
    <3>3. \A k \in Keys : Ideal!Worth(k)' - Ideal!Worth(k) <= Rate * (clock' - clock)
      BY <3>1, <3>2, WorthGrows
    <3>4. IdealBalance' \in [Keys -> 0..Capacity]
      <4>1. IdealBalance' = Ideal!Filled(d) \/ \E j \in Keys :
               /\ Ideal!Filled(d)[j] >= Unit
               /\ IdealBalance' = [Ideal!Filled(d) EXCEPT ![j] = @ - Unit]
        BY <3>1 DEF Ideal!Elapse, Ideal!Grant
      <4>2. Ideal!Filled(d) \in [Keys -> 0..Capacity] /\ Capacity \in Nat /\ Unit \in Nat
        BY <3>2, FilledIsBounded, CapacityIsPositive, RateAssumption
      <4> QED
        BY <4>1, <4>2
    <3> QED
      BY <3>3, <3>4
  <2> QED
    BY <2>1, <2>2, StepRefines
<1> QED
  BY <1>1, Invariance, PTL DEF Spec, Ideal!WindowBound

\* A check that refuses does so for one of the two reasons, and tells the client
\* how long to wait.
LEMMA RefusalStep ==
    ASSUME IInv, NEW t \in Threads, check_serialized(t), decision' > 0
    PROVE  IF key[t] \in DOMAIN buckets'
           THEN /\ buckets'[key[t]].tokens < Unit
                /\ buckets'[key[t]].tokens + decision' * TicksPerSecond * Rate >= Unit
           ELSE /\ Full(buckets')
                /\ \A k \in DOMAIN buckets' : ~safe_to_forget(buckets'[k], clock')
<1> DEFINE s == sample[t]
           map == Room(key[t], s)
<1>1. t \in mutex
  BY DEF check_serialized
<1>2. /\ clock' = s /\ map \in {buckets, Retained(s)}
      /\ \/ /\ key[t] \notin DOMAIN map /\ Full(map)
            /\ buckets' = map /\ Finish(t, key[t], 1)
         \/ Charge(t, key[t], s, map)
  BY CheckCases
<1>3. CASE key[t] \notin DOMAIN map /\ Full(map) /\ buckets' = map
  <2>1. map = Retained(s)
    BY <1>3 DEF Room
  <2>2. \A k \in DOMAIN map : ~safe_to_forget(map[k], s)
    BY <2>1, RetainedIsPart DEF IInv
  <2> QED
    BY <1>2, <1>3, <2>2
<1>4. CASE Charge(t, key[t], s, map)
  <2>1. PICK left \in 0..Capacity, n \in Nat :
            /\ buckets' = Stored(map, key[t], [tokens |-> left, last_seen |-> s])
            /\ Finish(t, key[t], n)
            /\ n # 0 => left < Unit /\ left + n * TicksPerSecond * Rate >= Unit
    BY <1>1, <1>2, <1>4, ChargeWrites
  <2>2. decision' = n
    BY <2>1 DEF Finish
  <2>3. key[t] \in DOMAIN buckets' /\ buckets'[key[t]].tokens = left
    BY <2>1 DEF Stored
  <2> QED
    BY <2>1, <2>2, <2>3
<1> QED
  BY <1>2, <1>3, <1>4

\* The map never outgrows its limit, and a request is refused only when its
\* credential is out of tokens, in which case the wait it is told suffices, or
\* when every tracked bucket must still be remembered.
THEOREM Refusals == Spec => RefusalIsDeserved
<1> DEFINE A == /\ Cardinality(DOMAIN buckets') <= max_buckets
                /\ \A t \in Threads :
                   Charged(t) /\ decision' > 0 =>
                      IF key[t] \in DOMAIN buckets'
                      THEN LET left == buckets'[key[t]].tokens
                           IN /\ left < Unit
                              /\ left + decision' * TicksPerSecond * Rate >= Unit
                      ELSE /\ Full(buckets')
                           /\ \A k \in DOMAIN buckets' :
                                 ~safe_to_forget(buckets'[k], clock')
<1>1. IInv /\ IInv' /\ [Next]_vars => [A]_vars
  <2> SUFFICES ASSUME IInv, IInv', Next PROVE A
    OBVIOUS
  <2>1. Cardinality(DOMAIN buckets') <= max_buckets
    BY DEF IInv, MapIsBounded, max_buckets
  <2>2. ASSUME NEW t \in Threads, Charged(t) PROVE check_serialized(t)
    <3>1. t \in mutex /\ t \notin mutex' /\ mutex = {t} /\ t # Sweeper
      BY <2>2, InsideTheMutex, ActorsAssumption DEF Charged
    <3>2. ~Tick /\ ~sweep_serialized
      BY <3>1 DEF Tick, sweep_serialized
    <3>3. \A a \in Actors : ~SampleLocked(a)
      BY <3>1 DEF SampleLocked
    <3>4. \A u \in Threads : ~layer(u)
      BY <3>1 DEF layer
    <3>5. \A u \in Threads : check_serialized(u) => u = t
      BY <3>1 DEF check_serialized
    <3> QED
      BY <3>2, <3>3, <3>4, <3>5 DEF Next
  <2>3. \A t \in Threads : Charged(t) /\ decision' > 0 =>
                      IF key[t] \in DOMAIN buckets'
                      THEN LET left == buckets'[key[t]].tokens
                           IN /\ left < Unit
                              /\ left + decision' * TicksPerSecond * Rate >= Unit
                      ELSE /\ Full(buckets')
                           /\ \A k \in DOMAIN buckets' :
                                 ~safe_to_forget(buckets'[k], clock')
    BY <2>2, RefusalStep
  <2> QED
    BY <2>1, <2>3
<1> QED
  BY <1>1, Invariance, PTL DEF Spec, RefusalIsDeserved

-----------------------------------------------------------------------------
(* Decisions.                                                              *)

\* What the decision of each subject is.
Verdicts(s, i) ==
  CASE s = "host" -> decide(i)
    [] s = "login" -> require_account(i.call, i.claims, i.application_id)
    [] s = "artifact" -> get_artifact(i.call, i.claims, i.known, i.refs, i.recorded, i.plane)
    [] s = "archive" -> verify_publish(i.archive, i.d, i.limits)
    [] s = "admission" -> evaluate(i)

\* Nothing is decided yet, or the verdict is the code's.
DecideInv == /\ subject \in Subjects
             /\ input \in Inputs(subject)
             /\ verdict \in {<<>>, <<Verdicts(subject, input)>>}

\* A behaviour decides its one input once, as the code does.
LEMMA Deciding == DecideSpec => []DecideInv
<1>1. DecideInit => DecideInv
  BY DEF DecideInit, DecideInv
<1>2. DecideInv /\ [DecideNext]_decideVars => DecideInv'
  <2> SUFFICES ASSUME DecideInv, [DecideNext]_decideVars PROVE DecideInv'
    OBVIOUS
  <2>1. CASE UNCHANGED decideVars
    BY <2>1 DEF DecideInv, decideVars, Verdicts, Inputs
  <2>2. CASE DecideNext
    <3>1. UNCHANGED <<subject, input>> /\ verdict' = <<Verdicts(subject, input)>>
      BY <2>2 DEF DecideNext, Decide, Verdicts
    <3> QED
      BY <3>1 DEF DecideInv
  <2> QED
    BY <2>1, <2>2
<1> QED
  BY <1>1, <1>2, PTL DEF DecideSpec

\* A decided subject has the verdict the code gives its input.
LEMMA DecidedIsRight ==
    ASSUME DecideInv, NEW s, Decided(s)
    PROVE  s \in Subjects /\ subject = s /\ input \in Inputs(s) /\ verdict[1] = Verdicts(s, input)
BY DEF DecideInv, Decided

-----------------------------------------------------------------------------
(* Package admission.                                                      *)

\* One piece of evidence of each kind, or none.
LEMMA AdmissionShape ==
    ASSUME NEW r \in Admission
    PROVE  /\ r = [state |-> r.state, artifact |-> r.artifact, source |-> r.source, policy |-> r.policy,
                   rebuild |-> r.rebuild, risk |-> r.risk, approval |-> r.approval]
           /\ \A k \in Kinds : r[k] = <<>> \/ (r[k] = <<r[k][1]>> /\ r[k][1] \in Evidence(k))
BY DEF Admission, Kinds

\* A piece of evidence takes its place and leaves the rest alone.
LEMMA Replaced ==
    ASSUME NEW r \in Admission, NEW k \in Kinds, NEW e \in Evidence(k)
    PROVE  LET q == Given(r, k, e)
           IN  /\ q \in Admission /\ q[k] = <<e>>
               /\ \A l \in Kinds \ {k} : q[l] = r[l]
               /\ q.state = r.state /\ q.artifact = r.artifact /\ q.source = r.source /\ q.policy = r.policy
BY DEF Admission, Kinds, Given

\* Evaluation ends in one of four decisions.
LEMMA ProgressIs ==
    /\ \A why : Progress(reject(why)) = 2 /\ Progress(Outcome("Quarantine", why)) = 0
                /\ Progress(Outcome("PendingApproval", why)) = 1
                /\ reject(why) # Publishable /\ Outcome("Quarantine", why) # Publishable
                /\ Outcome("PendingApproval", why) # Publishable
    /\ Progress(Publishable) = 2
BY DEF Progress, reject, Outcome, Publishable

\* Late evidence never revises a decision.
LEMMA LateEvidence ==
    ASSUME NEW r \in Admission, NEW k \in Kinds, r[k] = <<>>, NEW e \in Evidence(k),
           NEW later, later = evaluate(Given(r, k, e))
    PROVE  /\ Progress(evaluate(r)) <= Progress(later)
           /\ Progress(evaluate(r)) = 2 => later = evaluate(r)
<1> DEFINE q == Given(r, k, e)
<1>0. q = Given(r, k, e) /\ later = evaluate(q)
  OBVIOUS
<1> HIDE DEF q
<1>1. /\ q \in Admission /\ q[k] = <<e>> /\ \A l \in Kinds \ {k} : q[l] = r[l]
      /\ q.state = r.state /\ q.artifact = r.artifact /\ q.source = r.source /\ q.policy = r.policy
  BY <1>0, Replaced
<1>p. ASSUME NEW x PROVE /\ Progress(validate_risk(x)) \in 0..2 /\ Progress(evaluate_approval(x)) \in 0..2
                         /\ Progress(validate_rebuild(x)) \in 0..2 /\ Progress(evaluate(x)) \in 0..2
  BY DEF Progress
<1>2. r.state \notin {"Quarantined", "Evaluated", "PendingApproval"}
        => evaluate(q) = evaluate(r) 
  BY <1>1 DEF evaluate
<1>3. ASSUME r.state \in {"Quarantined", "Evaluated", "PendingApproval"}
      PROVE evaluate(r) = validate_rebuild(r) /\ evaluate(q) = validate_rebuild(q)
  BY <1>3, <1>1 DEF evaluate
<1>4. CASE k = "rebuild"
  <2>1. r.rebuild = <<>>
    BY <1>4
  <2>2. Progress(validate_rebuild(r)) = 0
    BY <2>1, ProgressIs DEF validate_rebuild
  <2> QED
    BY <1>p, <1>0, <1>2, <1>3, <2>2
<1> DEFINE f == r.rebuild[1]
           rebuilt == /\ r.rebuild # <<>> /\ rebuild_matches_request(f, r)
                      /\ ~(~f.matched \/ f.rebuilt # r.artifact)
<1>5. CASE k # "rebuild"
  <2>1. q.rebuild = r.rebuild
    BY <1>5, <1>1 DEF Kinds
  <2>2. rebuild_matches_request(f, q) <=> rebuild_matches_request(f, r)
    BY <1>1 DEF rebuild_matches_request, Agree
  <2>3. ~rebuilt => validate_rebuild(q) = validate_rebuild(r)
    BY <2>1, <2>2, <1>1 DEF validate_rebuild
  <2>4. rebuilt => validate_rebuild(q) = validate_risk(q) /\ validate_rebuild(r) = validate_risk(r)
    BY <2>1, <2>2, <1>1 DEF validate_rebuild
  <2>5. CASE k = "risk"
    <3>1. r.risk = <<>>
      BY <2>5
    <3>2. Progress(validate_risk(r)) = 0
      BY <3>1, ProgressIs DEF validate_risk
    <3> QED
      BY <1>p, <1>2, <1>3, <1>0, <2>3, <2>4, <3>2
  <2>6. CASE k = "approval"
    <3>1. r.approval = <<>> /\ q.risk = r.risk
      BY <2>6, <1>1 DEF Kinds
    <3>2. evaluate_approval(r) = Outcome("PendingApproval", "MissingApproval")
      BY <3>1 DEF evaluate_approval
    <3>3. Progress(evaluate_approval(q)) >= 1
      BY <2>6, <1>1, ProgressIs DEF evaluate_approval
    <3>4. risk_matches_request(r.risk[1], q) <=> risk_matches_request(r.risk[1], r)
      BY <1>1 DEF risk_matches_request, Agree
    <3>r. r.risk = <<>> \/ r.risk[1].decision \in {"Clear", "RequireApproval", "Reject"}
      BY AdmissionShape DEF Kinds, Evidence
    <3>5. \/ validate_risk(q) = validate_risk(r)
          \/ validate_risk(q) = evaluate_approval(q) /\ validate_risk(r) = evaluate_approval(r)
      BY <3>1, <3>4, <3>r DEF validate_risk
    <3> QED
      BY <1>p, <1>2, <1>3, <2>3, <2>4, <3>2, <3>3, <3>5, <1>0, ProgressIs
  <2> QED
    BY <1>5, <2>5, <2>6 DEF Kinds
<1> QED
  BY <1>4, <1>5

\* What a publishable package has.
LEMMA PublishableHas ==
    ASSUME NEW r \in Admission, evaluate(r) = Publishable
    PROVE  LET f == r.rebuild[1]
               g == r.risk[1]
               a == r.approval[1]
           IN  /\ f \in Evidence("rebuild") /\ f.artifact = r.artifact /\ f.source = r.source
               /\ f.rebuilt = r.artifact /\ f.matched
               /\ g \in Evidence("risk") /\ g.artifact = r.artifact /\ g.source = r.source /\ g.policy = r.policy
               /\ \/ g.decision = "Clear"
                  \/ /\ a \in Evidence("approval")
                     /\ a.artifact = r.artifact /\ a.source = r.source /\ a.policy = r.policy
                     /\ a.risk_receipt = g.receipt /\ a.rebuild_receipt = f.receipt
                     /\ a.decision = "Approved"
<1>1. validate_rebuild(r) = Publishable
  BY ProgressIs DEF evaluate
<1>2. /\ r.rebuild # <<>> /\ rebuild_matches_request(r.rebuild[1], r)
      /\ r.rebuild[1].matched /\ r.rebuild[1].rebuilt = r.artifact
      /\ validate_risk(r) = Publishable
  BY <1>1, ProgressIs DEF validate_rebuild
<1>3. /\ r.risk # <<>> /\ risk_matches_request(r.risk[1], r)
  BY <1>2, ProgressIs DEF validate_risk
<1>4. r.rebuild[1] \in Evidence("rebuild") /\ r.risk[1] \in Evidence("risk")
  BY <1>2, <1>3, AdmissionShape DEF Kinds
<1>5. r.risk[1].decision \in {"Clear", "RequireApproval", "Reject"}
  BY <1>4 DEF Evidence
<1>6. r.risk[1].decision = "Clear" \/ evaluate_approval(r) = Publishable
  BY <1>2, <1>3, <1>5, ProgressIs DEF validate_risk
<1>7. ASSUME evaluate_approval(r) = Publishable
      PROVE  /\ r.approval # <<>> /\ bindings_match_request(r.approval[1], r)
             /\ BoundToReceipts(r.approval[1], r.rebuild[1], r.risk[1])
             /\ r.approval[1].decision = "Approved"
  BY <1>7, ProgressIs DEF evaluate_approval
<1>8. r.approval # <<>> => r.approval[1] \in Evidence("approval")
  BY AdmissionShape DEF Kinds
<1> QED
  BY <1>2, <1>3, <1>4, <1>6, <1>7, <1>8
     DEF rebuild_matches_request, risk_matches_request, bindings_match_request, Agree, BoundToReceipts

\* Which fields evidence has.
LEMMA EvidenceFields ==
    /\ \A e \in Evidence("rebuild") : DOMAIN e = {"artifact", "source", "rebuilt", "matched", "receipt"}
                                      /\ e.matched \in BOOLEAN
    /\ \A e \in Evidence("risk") : DOMAIN e = {"artifact", "source", "policy", "receipt", "decision"}
    /\ \A e \in Evidence("approval") :
         DOMAIN e = {"artifact", "source", "policy", "risk_receipt", "rebuild_receipt", "decision"}
BY DEF Evidence

\* Replaced evidence never inherits an admission.
LEMMA ReplacedEvidence ==
    ASSUME NEW r \in Admission, evaluate(r) = Publishable, NEW k \in Relied(r), NEW e \in Evidence(k),
           evaluate(Given(r, k, e)) = Publishable
    PROVE  LET free == IF "approval" \in Relied(r) \cap Relied(Given(r, k, e))
                       THEN {"decision"} ELSE {"decision", "receipt"}
           IN  Agree(e, r[k][1], DOMAIN e \ free)
<1> DEFINE q == Given(r, k, e)
           free == IF "approval" \in Relied(r) \cap Relied(q) THEN {"decision"} ELSE {"decision", "receipt"}
<1>0. k \in Kinds
  BY DEF Relied, Kinds
<1>1. /\ q \in Admission /\ q[k] = <<e>> /\ \A l \in Kinds \ {k} : q[l] = r[l]
      /\ q.state = r.state /\ q.artifact = r.artifact /\ q.source = r.source /\ q.policy = r.policy
  BY <1>0, Replaced
<1>2. evaluate(q) = Publishable
  OBVIOUS
<1>f. "decision" \in free
  OBVIOUS
<1>a. ASSUME "receipt" \notin free
      PROVE  r.risk[1].decision # "Clear" /\ q.risk[1].decision # "Clear"
  BY <1>a DEF Relied
<1> HIDE DEF q, free
<1>3. CASE k = "rebuild"
  <2>1. q.rebuild[1] = e /\ q.risk = r.risk /\ q.approval = r.approval
    BY <1>1, <1>3 DEF Kinds
  <2>2. /\ e.artifact = r.rebuild[1].artifact /\ e.source = r.rebuild[1].source
        /\ e.rebuilt = r.rebuild[1].rebuilt /\ e.matched = r.rebuild[1].matched
    BY <1>1, <1>2, <2>1, PublishableHas, EvidenceFields
  <2>3. "receipt" \notin free => e.receipt = r.rebuild[1].receipt
    BY <1>1, <1>2, <1>a, <2>1, PublishableHas
  <2> QED
    BY <1>3, <1>f, <2>2, <2>3, EvidenceFields DEF Agree, q, free
<1>4. CASE k = "risk"
  <2>1. q.risk[1] = e /\ q.rebuild = r.rebuild /\ q.approval = r.approval
    BY <1>1, <1>4 DEF Kinds
  <2>2. e.artifact = r.risk[1].artifact /\ e.source = r.risk[1].source /\ e.policy = r.risk[1].policy
    BY <1>1, <1>2, <2>1, PublishableHas
  <2>3. "receipt" \notin free => e.receipt = r.risk[1].receipt
    BY <1>1, <1>2, <1>a, <2>1, PublishableHas
  <2> QED
    BY <1>4, <1>f, <2>2, <2>3, EvidenceFields DEF Agree, q, free
<1>5. CASE k = "approval"
  <2>1. q.approval[1] = e /\ q.rebuild = r.rebuild /\ q.risk = r.risk
    BY <1>1, <1>5 DEF Kinds
  <2>2. r.risk[1].decision # "Clear"
    BY <1>5 DEF Relied
  <2>3. /\ e.artifact = r.approval[1].artifact /\ e.source = r.approval[1].source
        /\ e.policy = r.approval[1].policy /\ e.risk_receipt = r.approval[1].risk_receipt
        /\ e.rebuild_receipt = r.approval[1].rebuild_receipt
    BY <1>1, <1>2, <2>1, <2>2, PublishableHas
  <2> QED
    BY <1>5, <1>f, <2>3, EvidenceFields DEF Agree, q, free
<1> QED
  BY <1>0, <1>3, <1>4, <1>5 DEF Kinds

\* package_intake.rs evaluate, whatever digests and receipts there are: late
\* evidence never revises a decision, and evidence that replaces what an
\* admission rests on never inherits it.
THEOREM AdmissionBound == DecideSpec => []AdmissionsAreBound
<1>1. DecideInv => AdmissionsAreBound
  <2> SUFFICES ASSUME DecideInv, Decided("admission") PROVE AdmissionIsBound(input)
    BY DEF AdmissionsAreBound
  <2>1. input \in Admission
    BY DecidedIsRight, AdmissionsAssumption DEF Inputs
  <2>2. ASSUME NEW k \in Kinds, input[k] = <<>>, NEW e \in Evidence(k)
        PROVE  /\ Progress(evaluate(input)) <= Progress(evaluate(Given(input, k, e)))
               /\ Progress(evaluate(input)) = 2 => evaluate(Given(input, k, e)) = evaluate(input)
    BY <2>1, <2>2, LateEvidence
  <2>3. ASSUME evaluate(input) = Publishable, NEW k \in Relied(input), NEW e \in Evidence(k),
               evaluate(Given(input, k, e)) = Publishable
        PROVE  LET free == IF "approval" \in Relied(input) \cap Relied(Given(input, k, e))
                           THEN {"decision"} ELSE {"decision", "receipt"}
               IN  Agree(e, input[k][1], DOMAIN e \ free)
    BY <2>1, <2>3, ReplacedEvidence
  <2> QED
    BY <2>2, <2>3, Zenon DEF AdmissionIsBound
<1> QED
  BY <1>1, Deciding, PTL

-----------------------------------------------------------------------------
(* Delegated authentication.                                               *)

\* A set of natural numbers has a least element.
LEMMA LeastNatural ==
    ASSUME NEW S, S \subseteq Nat, S # {}
    PROVE  \E x \in S : \A y \in S : x <= y
<1> DEFINE R == OpToRel(<, Nat)
<1>1. IsWellFoundedOn(R, Nat)
  BY NatLessThanWellFounded
<1>2. PICK x \in S : \A y \in S : ~(<<y, x>> \in R)
  <2> HIDE DEF R
  <2> QED
    BY <1>1, WFMin
<1>3. ASSUME NEW y \in S PROVE x <= y
  <2>1. x \in Nat /\ y \in Nat
    BY <1>2
  <2>2. ~(y < x)
    BY <1>2, <2>1 DEF OpToRel
  <2> QED
    BY <2>1, <2>2
<1> QED
  BY <1>2, <1>3

\* The first check that fails answers.
LEMMA FirstRefusalAnswers ==
    ASSUME NEW checks, Len(checks) \in Nat
    PROVE  \/ FirstRefusal(checks) = Ok /\ \A i \in 1..Len(checks) : checks[i][1]
           \/ \E i \in 1..Len(checks) : /\ ~checks[i][1] /\ FirstRefusal(checks) = checks[i][2]
                                        /\ \A j \in 1..Len(checks) : j < i => checks[j][1]
<1> DEFINE failing == {i \in 1..Len(checks) : ~checks[i][1]}
<1>1. CASE failing = {}
  BY <1>1 DEF FirstRefusal
<1>2. CASE failing # {}
  <2>1. \E i \in failing : \A j \in failing : i <= j
    <3>1. failing \subseteq Nat
      OBVIOUS
    <3> HIDE DEF failing
    <3> QED
      BY <1>2, <3>1, LeastNatural
  <2> DEFINE m == CHOOSE i \in failing : \A j \in failing : i <= j
  <2>2. m \in failing /\ \A j \in failing : m <= j
    BY <2>1
  <2>3. FirstRefusal(checks) = checks[m][2]
    BY <1>2 DEF FirstRefusal
  <2> HIDE DEF m
  <2>4. \A j \in 1..Len(checks) : j < m => checks[j][1]
    BY <2>2
  <2> QED
    BY <2>2, <2>3, <2>4
<1> QED
  BY <1>1, <1>2

\* What an accepted verdict has, and who is refused how.
LEMMA IntrospectionAnswers ==
    ASSUME NEW v \in Verdict, NEW party, NEW scope
    PROVE  LET a == FromIntrospection(v, party, scope)
           IN  /\ a.status \in {200, 401, 403}
               /\ a.status # 401 => v.active
               /\ a = Ok => v.azp = party
               /\ a.status = 200 => a = Ok
<1> DEFINE checks ==
            << <<v.active, unauthorized>>,
               required_claim(v, "sub"), <<v.sub = "uuid", unauthorized>>,
               required_claim(v, "iss"),
               Readable(v, "sid"), delegated_required(v, "sid"),
               Readable(v, "azp"), delegated_required(v, "azp"),
               Readable(v, "parent_jti"), delegated_required(v, "parent_jti"),
               <<v.azp = party, forbidden("wrong_authorized_party")>>,
               Readable(v, "scope"), Present(v, "scope", "insufficient_scope"),
               <<scope \in Scopes(v.scope), forbidden("insufficient_scope")>>,
               Readable(v, "auth_realm"), Readable(v, "realm"),
               <<Realm(v) = "customer", forbidden("wrong_auth_realm")>>,
               Readable(v, "display_name"), Readable(v, "avatar_url") >>
<1>1. FromIntrospection(v, party, scope) = FirstRefusal(checks)
  BY DEF FromIntrospection
<1>2. Len(checks) = 19 /\ checks[1] = <<v.active, unauthorized>>
      /\ checks[11] = <<v.azp = party, forbidden("wrong_authorized_party")>>
  OBVIOUS
<1>b. checks[1][1] = v.active /\ checks[11][1] = (v.azp = party)
  BY Zenon
<1>3. \A i \in 1..19 : checks[i][2].status \in {401, 403}
  <2>1. ASSUME NEW i \in 1..19 PROVE checks[i][2].status \in {401, 403}
    BY DEF Readable, required_claim, delegated_required, Present, forbidden, unauthorized, Answer
  <2> QED
    BY <2>1
<1> HIDE DEF checks
<1>4. \/ FirstRefusal(checks) = Ok /\ \A i \in 1..19 : checks[i][1]
      \/ \E i \in 1..19 : /\ ~checks[i][1] /\ FirstRefusal(checks) = checks[i][2]
                          /\ \A j \in 1..19 : j < i => checks[j][1]
  <2>1. Len(checks) \in Nat
    BY <1>2
  <2>2. \/ FirstRefusal(checks) = Ok /\ \A i \in 1..Len(checks) : checks[i][1]
        \/ \E i \in 1..Len(checks) : /\ ~checks[i][1] /\ FirstRefusal(checks) = checks[i][2]
                                     /\ \A j \in 1..Len(checks) : j < i => checks[j][1]
    BY <2>1, FirstRefusalAnswers, Zenon
  <2>3. Len(checks) = 19
    BY <1>2
  <2> QED
    BY <2>2, <2>3, Zenon
<1>5. CASE FirstRefusal(checks) = Ok /\ \A i \in 1..19 : checks[i][1]
  <2>1. checks[1][1] /\ checks[11][1]
    BY <1>5
  <2>2. v.active /\ v.azp = party
    BY <1>b, <2>1, Zenon
  <2> QED
    BY <1>1, <1>5, <2>2 DEF Ok, Answer
<1>6. ASSUME NEW i \in 1..19, ~checks[i][1], FirstRefusal(checks) = checks[i][2],
             \A j \in 1..19 : j < i => checks[j][1]
      PROVE  LET a == FirstRefusal(checks) IN a.status \in {401, 403} /\ (a.status # 401 => v.active)
  <2>1. CASE i = 1
    BY <1>2, <1>6, <2>1 DEF unauthorized, Answer
  <2>2. CASE i # 1
    <3>1. checks[1][1]
      BY <1>6, <2>2
    <3> QED
      BY <1>2, <1>3, <1>6, <3>1
  <2> QED
    BY <2>1, <2>2
<1> QED
  BY <1>1, <1>4, <1>5, <1>6, SMTT(30) DEF Ok, Answer

\* Authentication answers for the verdict, or for the lack of one.
LEMMA AuthenticateAnswers ==
    ASSUME NEW call \in Call, NEW a
    PROVE  \/ Authenticate(call, a) = a /\ call.reply = "verdict"
           \/ Authenticate(call, a) = unauthorized
           \/ Authenticate(call, a) = auth_unavailable /\ (~call.client \/ ~call.base \/ call.reply # "verdict")
<1> DEFINE result == introspect_for_audience(call)
<1>1. \/ result = "InvalidInput"
      \/ result = "InvalidBaseUrl" /\ ~call.base
      \/ result = "verdict" /\ call.reply = "verdict"
      \/ result \in {"Unauthorized", "Status", "Transport", "Decode"} /\ call.reply # "verdict"
  BY DEF introspect_for_audience, Call
<1>2. Authenticate(call, a) = IF call.bearer = "none" THEN unauthorized
                              ELSE IF ~call.client THEN auth_unavailable
                              ELSE IF result = "verdict" THEN a ELSE map_shared_auth_error(result)
  BY DEF Authenticate
<1> HIDE DEF result
<1> QED
  BY <1>1, <1>2 DEF map_shared_auth_error

\* auth.rs, for every verdict, web client and failure of the service: a token
\* accepted as an account and as a package reader was issued to a CLI that is
\* also the web client; 403 blames an active token, 503 the service.
THEOREM OneSurface == DecideSpec => []TokensOpenOneSurface
<1>1. DecideInv => TokensOpenOneSurface
  <2> SUFFICES ASSUME DecideInv, Decided("login")
               PROVE  OneSurfacePerToken(input.call, input.claims, input.application_id)
    BY DEF TokensOpenOneSurface
  <2>1. input \in [call : Call, claims : Verdict, application_id : STRING]
    BY DecidedIsRight, LoginsAssumption DEF Inputs
  <2> DEFINE call == input.call
             v == input.claims
             app == input.application_id
             a == account_from_introspection(v, app)
             r == package_reader_from_introspection(v)
             account == Authenticate(call, a)
             reader == Authenticate(call, r)
  <2>2. call \in Call /\ v \in Verdict
    BY <2>1
  <2>3. a.status \in {200, 401, 403} /\ (a.status # 401 => v.active) /\ (a = Ok => v.azp = app)
    BY <2>2, IntrospectionAnswers DEF account_from_introspection
  <2>4. r.status \in {200, 401, 403} /\ (r.status # 401 => v.active) /\ (r = Ok => v.azp = "zpkg-cli")
    BY <2>2, IntrospectionAnswers DEF package_reader_from_introspection
  <2>5. account = require_account(call, v, app) /\ reader = require_package_reader(call, v)
    BY DEF require_account, require_package_reader
  <2> HIDE DEF call, v, app, a, r
  <2>6. ASSUME NEW x, x.status \in {200, 401, 403}, x.status # 401 => v.active,
               NEW y, y = Authenticate(call, x)
        PROVE  /\ y = Ok => x = Ok
               /\ y.status \in {200, 403} => call.reply = "verdict" /\ v.active
               /\ y.status = 503 => ~call.client \/ ~call.base \/ call.reply # "verdict"
    BY <2>2, <2>6, AuthenticateAnswers DEF unauthorized, auth_unavailable, Ok, Answer
  <2>7. account = Ok /\ reader = Ok => app = "zpkg-cli"
    BY <2>3, <2>4, <2>6
  <2>8. \A y \in {account, reader} :
           /\ y.status \in {200, 403} => call.reply = "verdict" /\ v.active
           /\ y.status = 503 => ~call.client \/ ~call.base \/ call.reply # "verdict"
    BY <2>3, <2>4, <2>6
  <2> HIDE DEF account, reader
  <2>9. OneSurfacePerToken(call, v, app)
    BY <2>5, <2>7, <2>8 DEF OneSurfacePerToken
  <2> QED
    BY <2>9 DEF call, v, app
<1> QED
  BY <1>1, Deciding, PTL

\* artifacts.rs, for any number of packages behind one digest: an authenticated
\* reader without a role in any of them gets the answer of a digest that was
\* never published, and no query that fails opens it to anyone.
THEOREM Concealment == DecideSpec => []ArtifactsAreConcealed
<1>1. DecideInv => ArtifactsAreConcealed
  <2> SUFFICES ASSUME DecideInv, Decided("artifact")
               PROVE  PrivateArtifactIsConcealed(input.call, input.claims, input.known, input.refs,
                                                 input.plane)
    BY DEF ArtifactsAreConcealed
  <2> DEFINE call == input.call
             v == input.claims
             reader == require_package_reader(call, v)
             r == package_reader_from_introspection(v)
             refs == input.refs
             plane == input.plane
             known == input.known
  <2>1. call \in Call /\ v \in Verdict
    BY DecidedIsRight, ReadsAssumption DEF Inputs
  <2>2. r.status = 200 => r = Ok
    BY <2>1, IntrospectionAnswers DEF package_reader_from_introspection
  <2>3. reader = r \/ reader.status \in {401, 503}
    BY <2>1, AuthenticateAnswers DEF require_package_reader, unauthorized, auth_unavailable, Answer
  <2>4. reader # Ok => reader.status # 200
    BY <2>2, <2>3
  <2> HIDE DEF call, v, reader, r, refs, plane, known
  <2>5. PrivateArtifactIsConcealed(call, v, known, refs, plane)
    <3>1. reader = require_package_reader(call, v)
      BY DEF reader
    <3> QED
      BY <2>4, <3>1 DEF PrivateArtifactIsConcealed, get_artifact, authorize_artifact_read,
         artifact_requires_private_authorization, Ok, not_found, internal, data_plane_unavailable,
         Answer
  <2> QED
    BY <2>5 DEF call, v, refs, plane, known
<1> QED
  BY <1>1, Deciding, PTL

-----------------------------------------------------------------------------
(* Binary archives.                                                        *)

\* A sequence of one element.
LEMMA Singleton ==
    ASSUME NEW S, NEW x \in S
    PROVE  <<x>> \in Seq(S) /\ Len(<<x>>) = 1 /\ <<x>>[1] = x
OBVIOUS

\* A name below the root is the root and the path; keys have their length.
LEMMA NamesAreRooted ==
    ASSUME NEW e \in Entries, WellFormed(e)
    PROVE  /\ Relative(e) \in Seq(STRING) /\ e.raw = <<Root>> \o Relative(e)
           /\ Len(Key(e)) \in Nat
<1>1. e.raw \in Seq(STRING) /\ e.raw # <<>> /\ e.raw[1] = Root
  BY DEF Entries, WellFormed
<1>2. /\ Tail(e.raw) \in Seq(STRING) /\ Len(Tail(e.raw)) = Len(e.raw) - 1
      /\ \A i \in 1..Len(Tail(e.raw)) : Tail(e.raw)[i] = e.raw[i + 1]
  BY <1>1, HeadTailProperties
<1> DEFINE t == Tail(e.raw)
<1>3. e.raw = <<Root>> \o t
  <2> HIDE DEF t
  <2>1. Root \in STRING
    <3>1. 1 \in 1..Len(e.raw)
      BY <1>1, <1>2 DEF t
    <3> QED
      BY <1>1, <3>1, ElementOfSeq
  <2>2. <<Root>> \in Seq(STRING) /\ Len(<<Root>>) = 1 /\ <<Root>>[1] = Root
    BY <2>1, Singleton
  <2>3. /\ <<Root>> \o t \in Seq(STRING) /\ Len(<<Root>> \o t) = Len(e.raw)
        /\ \A i \in 1..Len(e.raw) : (<<Root>> \o t)[i] = e.raw[i]
    BY <1>1, <1>2, <2>1, <2>2, LenProperties DEF t
  <2> QED
    BY <1>1, <2>3, SeqEqual
<1>4. Len(Key(e)) = Len(t)
  BY <1>2 DEF Key, portable_path_key, Relative
<1> QED
  BY <1>2, <1>3, <1>4 DEF Relative

\* The cells of one entry.
LEMMA EntryBytes ==
    ASSUME NEW i, NEW n \in Nat
    PROVE  IsFiniteSet({i} \X (1..n)) /\ Cardinality({i} \X (1..n)) = n
<1>1. IsFiniteSet({i}) /\ Cardinality({i}) = 1
  BY FS_Singleton
<1>2. IsFiniteSet(1..n) /\ Cardinality(1..n) = n
  BY FS_Interval
<1>3. /\ IsFiniteSet({i} \X (1..n))
      /\ Cardinality({i} \X (1..n)) = Cardinality({i}) * Cardinality(1..n)
  BY <1>1, <1>2, FS_Product
<1> QED
  BY <1>1, <1>2, <1>3

\* The files met so far expand to finitely many bytes.
LEMMA BytesAreFinite ==
    ASSUME NEW archive \in Seq(Entries), NEW n
    PROVE  IsFiniteSet(Seen(archive, n).bytes)
<1> DEFINE files == {i \in Files(archive) : i <= n}
           f == [i \in files |-> {i} \X (1..archive[i].size)]
           T == {{i} \X (1..archive[i].size) : i \in files}
<1>1. files \subseteq 1..Len(archive) /\ Len(archive) \in Nat
  BY DEF Files, Body
<1>2. IsFiniteSet(files)
  <2> HIDE DEF files
  <2>1. IsFiniteSet(1..Len(archive))
    BY <1>1, FS_Interval
  <2> QED
    BY <1>1, <2>1, FS_Subset
<1>3. f \in Surjection(files, T)
  BY DEF Surjection
<1>4. IsFiniteSet(T)
  <2> HIDE DEF files, f, T
  <2> QED
    BY <1>2, <1>3, FS_Surjection
<1>5. \A U \in T : IsFiniteSet(U)
  <2> SUFFICES ASSUME NEW i \in files PROVE IsFiniteSet({i} \X (1..archive[i].size))
    OBVIOUS
  <2>1. archive[i] \in Entries
    <3> HIDE DEF files
    <3> QED
      BY <1>1, ElementOfSeq
  <2>2. archive[i].size \in Nat
    BY <2>1 DEF Entries
  <2> QED
    BY <2>2, EntryBytes
<1>6. Seen(archive, n).bytes = UNION T
  BY DEF Seen
<1> HIDE DEF T
<1> QED
  BY <1>4, <1>5, <1>6, FS_UNION

\* What is met before an entry, and what a clean scan says of two entries.
LEMMA ScanSeparates ==
    ASSUME NEW archive \in Seq(Entries), NEW limits,
           \A i \in DOMAIN archive : ScanEntry(archive, i, limits),
           NEW i \in Body(archive), NEW j \in Body(archive), i < j
    PROVE  /\ Key(archive[i]) # Key(archive[j])
           /\ i \in Files(archive) => ~Prefix(Key(archive[i]), Key(archive[j]))
           /\ j \in Files(archive) => ~Prefix(Key(archive[j]), Key(archive[i]))
<1>1. i \in 1..Len(archive) /\ j \in 1..Len(archive) /\ Len(archive) \in Nat /\ i <= j - 1
  BY DEF Body
<1>2. ~Conflicts(Seen(archive, j - 1), archive[j])
  BY <1>1 DEF Body, ScanEntry
<1>3. Key(archive[i]) \in Seen(archive, j - 1).keys
  BY <1>1 DEF Seen
<1>4. i \in Files(archive) => Key(archive[i]) \in Seen(archive, j - 1).files
  BY <1>1 DEF Seen
<1>5. j \in Files(archive) => archive[j].kind = "file"
  BY DEF Files
<1> QED
  BY <1>2, <1>3, <1>4, <1>5 DEF Conflicts


\* Every byte is a file's, and the last file was let in with all of them.
LEMMA ScanBounds ==
    ASSUME NEW archive \in Seq(Entries), NEW limits \in Limits,
           \A i \in DOMAIN archive : ScanEntry(archive, i, limits), Files(archive) # {}
    PROVE  Cardinality(Expanded(archive)) <= ExpandedCeiling
<1> DEFINE n == Len(archive)
           back == {n - i : i \in Files(archive)}
<1>1. n \in Nat /\ DOMAIN archive = 1..n /\ Files(archive) \subseteq 1..n /\ Files(archive) \subseteq Body(archive)
  BY DEF Files, Body
<1>2. ASSUME NEW i \in 1..n
      PROVE  /\ archive[i].size \in Nat /\ WellFormed(archive[i])
             /\ i \notin Files(archive) => archive[i].size = 0
  <2>1. archive[i] \in Entries
    BY <1>2, ElementOfSeq
  <2>2. WellFormed(archive[i])
    BY <1>1, <1>2 DEF ScanEntry
  <2> QED
    BY <1>1, <1>2, <2>1, <2>2 DEF Entries, WellFormed, Files, Body, IsRootDirectory
<1>3. PICK m \in Files(archive) : \A i \in Files(archive) : i <= m
  <2>1. back \subseteq Nat /\ back # {}
    BY <1>1
  <2>2. PICK x \in back : \A y \in back : x <= y
    <3> HIDE DEF back
    <3> QED
      BY <2>1, LeastNatural
  <2>3. PICK m \in Files(archive) : x = n - m
    BY <2>2
  <2>4. ASSUME NEW i \in Files(archive) PROVE i <= m
    <3>1. n - m <= n - i
      BY <2>2, <2>3
    <3> QED
      BY <1>1, <3>1
  <2> QED
    BY <2>4
<1> DEFINE before == Seen(archive, m - 1).bytes
           last == {m} \X (1..archive[m].size)
<1>4. m \in 1..n /\ archive[m].size \in Nat
  BY <1>1, <1>2
<1>5. before = UNION {{i} \X (1..archive[i].size) : i \in {j \in Files(archive) : j <= m - 1}}
  BY DEF Seen
<1>6. Expanded(archive) = before \cup last
  <2> DEFINE cells(i) == {i} \X (1..archive[i].size)
  <2>1. ASSUME NEW x \in Expanded(archive) PROVE x \in before \cup last
    <3>1. PICK i \in 1..n : x \in cells(i)
      BY <1>1 DEF Expanded
    <3>2. i \in Files(archive)
      <4>1. archive[i].size # 0
        BY <3>1
      <4> QED
        BY <1>2, <4>1
    <3>3. CASE i = m
      BY <3>1, <3>3
    <3>4. CASE i # m
      <4>1. i <= m - 1
        BY <1>3, <1>4, <3>1, <3>2, <3>4
      <4> QED
        BY <1>5, <3>1, <3>2, <4>1
    <3> QED
      BY <3>3, <3>4
  <2>2. ASSUME NEW x \in before PROVE x \in Expanded(archive)
    BY <1>1, <1>5, <2>2 DEF Expanded
  <2>3. ASSUME NEW x \in last PROVE x \in Expanded(archive)
    BY <1>1, <1>4, <2>3 DEF Expanded
  <2> HIDE DEF before, last
  <2> QED
    BY <2>1, <2>2, <2>3
<1>7. before \cap last = {}
  BY <1>1, <1>4, <1>5
<1>8. IsFiniteSet(before)
  BY BytesAreFinite
<1>9. IsFiniteSet(last) /\ Cardinality(last) = archive[m].size
  BY <1>4, EntryBytes
<1>10. Cardinality(before) + archive[m].size <= ExpandedCeiling
  <2>1. archive[m].kind = "file"
    BY <1>3 DEF Files
  <2>2. Cardinality(before) + archive[m].size <= bounded_u64_override(limits.expanded, ExpandedCeiling)
    BY <1>1, <1>4, <2>1 DEF ScanEntry
  <2>3. limits.expanded \in Nat
    BY DEF Limits
  <2>4. Cardinality(before) \in Nat
    BY <1>8, FS_CardinalityType
  <2> HIDE DEF before
  <2> QED
    BY <1>4, <2>2, <2>3, <2>4, ExpandedAssumption DEF bounded_u64_override
<1> HIDE DEF before, last
<1>11. Cardinality(before \cup last) = Cardinality(before) + Cardinality(last) - Cardinality(before \cap last)
  BY <1>8, <1>9, FS_Union
<1>12. Cardinality(before \cap last) = 0 /\ Cardinality(before) \in Nat
  BY <1>7, <1>8, FS_EmptySet, FS_CardinalityType
<1> QED
  BY <1>4, <1>6, <1>9, <1>10, <1>11, <1>12


\* A file the descriptor lists is the entry of that path.
LEMMA ListedIsThere ==
    ASSUME NEW archive \in Seq(Entries), NEW path \in Seq(STRING),
           \A i \in DOMAIN archive : WellFormed(archive[i]),
           path \in {Relative(archive[i]) : i \in Files(archive)}
    PROVE  \E i \in Files(archive) : Relative(archive[i]) = path /\ EntryAt(archive, path) = archive[i]
<1> DEFINE At(i) == archive[i].raw = <<Root>> \o path /\ archive[i].kind = "file"
           c == CHOOSE i \in DOMAIN archive : At(i)
<1>1. PICK i \in Files(archive) : Relative(archive[i]) = path
  OBVIOUS
<1>2. \A j \in DOMAIN archive : archive[j] \in Entries /\ WellFormed(archive[j])
  BY ElementOfSeq
<1>3. i \in DOMAIN archive /\ archive[i].kind = "file"
  BY DEF Files, Body
<1>4. archive[i].raw = <<Root>> \o path
  BY <1>1, <1>2, <1>3, NamesAreRooted
<1>5. c \in DOMAIN archive /\ At(c)
  BY <1>3, <1>4
<1>6. EntryAt(archive, path) = archive[c]
  BY DEF EntryAt
<1> HIDE DEF c
<1>7. c \in Files(archive)
  BY <1>5 DEF Files, Body, IsRootDirectory
<1>8. archive[c].raw = archive[i].raw
  BY <1>4, <1>5
<1>9. Relative(archive[c]) = path
  BY <1>1, <1>8 DEF Relative
<1> QED
  BY <1>6, <1>7, <1>9

\* What a clean scan and a fitting descriptor amount to.
LEMMA BinaryUnpacks ==
    ASSUME NEW archive \in Seq(Entries), NEW d \in Listings, NEW limits \in Limits,
           verify_binary_zip(archive, d, limits)
    PROVE  UnpacksAsDescribed(archive, d, "binary")
<1> DEFINE paths == Seen(archive, Len(archive)).paths
<1>1. \A i \in DOMAIN archive : ScanEntry(archive, i, limits)
  BY DEF verify_binary_zip
<1>2. DescriptorHolds(archive, d, paths)
  BY DEF verify_binary_zip
<1>3. \A i \in DOMAIN archive : WellFormed(archive[i])
  BY <1>1 DEF ScanEntry
<1>4. Body(archive) \subseteq 1..Len(archive) /\ Files(archive) \subseteq Body(archive) /\ Len(archive) \in Nat
  BY DEF Body, Files
<1>5. paths = {Relative(archive[i]) : i \in Files(archive)}
  BY <1>4 DEF Seen
<1>6. Descriptor \in paths /\ paths \ {Descriptor} = {f.path : f \in d.files}
      /\ \A f \in d.files : PayloadMatches(archive, f)
  BY <1>2 DEF DescriptorHolds
<1> HIDE DEF paths
<1>7. ASSUME NEW i \in Body(archive), NEW j \in Body(archive), i # j
      PROVE  Key(archive[i]) # Key(archive[j])
  <2>1. i < j \/ j < i
    BY <1>4, <1>7
  <2> QED
    BY <1>1, <2>1, ScanSeparates
<1>8. ASSUME NEW i \in Files(archive), NEW j \in Body(archive)
      PROVE  ~Prefix(Key(archive[i]), Key(archive[j]))
  <2>1. i \in Body(archive) /\ (i < j \/ j < i \/ i = j)
    BY <1>4
  <2>2. CASE i = j
    <3>1. archive[i] \in Entries /\ WellFormed(archive[i])
      BY <1>3, <1>4, ElementOfSeq
    <3>2. Len(Key(archive[i])) \in Nat
      BY <3>1, NamesAreRooted
    <3> QED
      BY <2>2, <3>2 DEF Prefix
  <2> QED
    BY <1>1, <2>1, <2>2, ScanSeparates
<1>9. {Relative(archive[i]) : i \in Files(archive)} = {f.path : f \in d.files} \cup {Descriptor}
  BY <1>5, <1>6
<1>10. ASSUME NEW f \in d.files
       PROVE  \E i \in Files(archive) : Relative(archive[i]) = f.path /\ archive[i].digest = f.digest
  <2>1. f.path \in Seq(STRING)
    BY DEF Listings
  <2>2. f.path \in {Relative(archive[i]) : i \in Files(archive)}
    BY <1>9
  <2>3. PICK i \in Files(archive) : Relative(archive[i]) = f.path /\ EntryAt(archive, f.path) = archive[i]
    BY <1>3, <2>1, <2>2, ListedIsThere
  <2> QED
    BY <1>6, <2>3 DEF PayloadMatches
<1>11. Cardinality(Expanded(archive)) <= ExpandedCeiling
  BY <1>1, <1>5, <1>6, ScanBounds
<1> QED
  BY <1>7, <1>8, <1>9, <1>10, <1>11 DEF UnpacksAsDescribed

\* binary_artifact.rs, for archives of any length, any names and any limits in
\* the environment: what is accepted as binary unpacks to the one tree its
\* descriptor lists, on every host and within the ceiling, and what is accepted
\* as source has no name that some host would unpack as the descriptor.
THEOREM Unpacking == DecideSpec => []ArchivesUnpackAsDescribed
<1>1. DecideInv => ArchivesUnpackAsDescribed
  <2> SUFFICES ASSUME DecideInv, Decided("archive")
               PROVE  UnpacksAsDescribed(input.archive, input.d, verdict[1])
    BY DEF ArchivesUnpackAsDescribed
  <2>1. input \in Archives /\ verdict[1] = verify_publish(input.archive, input.d, input.limits)
    BY DecidedIsRight DEF Inputs, Verdicts
  <2> DEFINE archive == input.archive
  <2>2. archive \in Seq(Entries) /\ input.d \in Listings /\ input.limits \in Limits
    BY <2>1, ArchivesAssumption
  <2> DEFINE presence == descriptor_presence(archive)
             v == verify_publish(archive, input.d, input.limits)
  <2>3. \/ v = "source" /\ presence = "absent"
        \/ v = "binary" /\ verify_binary_zip(archive, input.d, input.limits)
        \/ v = "refused"
    BY DEF verify_publish
  <2> HIDE DEF archive, presence, v
  <2>4. CASE v = "source" /\ presence = "absent"
    <3>1. \A i \in DOMAIN archive : ~Exact(archive[i]) /\ ~Alias(archive[i])
      BY <2>4 DEF presence, descriptor_presence
    <3>2. \A i \in DOMAIN archive : normalized_archive_path(archive[i].raw) # Reserved
      BY <3>1 DEF Alias
    <3> QED
      BY <2>1, <2>4, <3>2 DEF UnpacksAsDescribed, v, archive
  <2>5. CASE v = "binary" /\ verify_binary_zip(archive, input.d, input.limits)
    <3>1. UnpacksAsDescribed(archive, input.d, "binary")
      BY <2>2, <2>5, BinaryUnpacks
    <3> QED
      BY <2>1, <2>5, <3>1 DEF v, archive
  <2>6. CASE v = "refused"
    BY <2>1, <2>6 DEF UnpacksAsDescribed, v, archive
  <2> QED
    BY <2>3, <2>4, <2>5, <2>6
<1> QED
  BY <1>1, Deciding, PTL

-----------------------------------------------------------------------------
(* The registry-host boundary.                                             *)

Placeholders == Params \cup {AnyRest, Slug, VersionText, Digest, Resolution, FilesRest}
Rest == {AnyRest, FilesRest}

\* The literals of the routing tables.
Literals == {"healthz", "v1", "packages", "versions", "yank", "embedding",
              "signed-index", "dependency-graph", "export", "resolutions", "artifacts", "files",
              "search", "semantic", "orgs", "keys", "mirrors", "audit",
              "verify", "storage", "status", "api", "auth", "account",
              "session", "me"}

\* The one machine route a path can match.
NameOf(segs) ==
  LET n == Len(segs)
  IN  IF n = 1 THEN "healthz"
      ELSE CASE segs[2] = "packages" ->
                  (CASE n = 2 -> "list_packages"
                     [] n = 4 -> "get_package"
                     [] n = 5 -> IF segs[5] = "embedding" THEN "embedding" ELSE "signed_index"
                     [] n = 6 -> "version"
                     [] n = 7 -> IF segs[7] = "yank" THEN "yank" ELSE "declared_graph"
                     [] OTHER -> "declared_graph_export")
             [] segs[2] = "orgs" ->
                  (CASE n = 2 -> "claim_org"
                     [] n = 4 -> IF segs[4] = "keys" THEN "org_keys" ELSE "audit"
                     [] OTHER -> "audit_verify")
             [] segs[2] = "search" -> IF n = 2 THEN "search" ELSE "semantic_search"
             [] segs[2] = "storage" -> IF n = 3 THEN "storage_status" ELSE "storage_artifact"
             [] segs[2] = "resolutions" -> "resolution_graph"
             [] segs[2] = "artifacts" -> "artifact"
             [] segs[2] = "files" -> "files"
             [] OTHER -> "mirrors"

\* A literal takes itself only; axum's placeholders take everything.
LEMMA LiteralTakes ==
    /\ \A p \in Literals : \A s : Takes(p, s) <=> p = s
    /\ \A s : Takes(AnyRest, s) /\ Takes(FilesRest, s) /\ \A p \in Params : Takes(p, s)
<1>1. \A p \in Literals : p \notin Placeholders
  BY DEF Literals, Placeholders, Params, AnyOne, OrgParam, NameParam, VersionParam, Sha256Param, ResolutionParam, FormatParam,
         AnyRest, Slug, VersionText, Digest, Resolution, FilesRest
<1> QED
  BY <1>1 DEF Takes, Placeholders

\* Only the last placeholder of a file route takes more than one segment.
LEMMA OneIsNotRest ==
    /\ NameParam \notin Rest /\ VersionParam \notin Rest /\ FormatParam \notin Rest
    /\ Sha256Param \notin Rest /\ ResolutionParam \notin Rest
    /\ \A p \in Literals : p \notin Rest
BY DEF Literals, Rest, NameParam, VersionParam, FormatParam, Sha256Param, ResolutionParam,
       AnyRest, FilesRest

\* What a match says: the length, and the literals in their places.
LEMMA MatchSays ==
    ASSUME NEW at, NEW segs, Len(at) \in Nat, Len(segs) \in Nat, Matches(at, segs)
    PROVE  /\ Len(segs) >= Len(at)
           /\ at[Len(at)] \notin Rest => Len(segs) = Len(at)
           /\ \A i \in 1..Len(at) : at[i] \in Literals => segs[i] = at[i]
BY LiteralTakes DEF Matches, Last, Rest

\* No path matches two machine routes: a match has the name the path spells,
\* and anything but the health check begins with v1 and a word of the registry.
LEMMA RoutesAreUnambiguous ==
    ASSUME NEW segs, Len(segs) \in Nat, NEW r \in MachineRoutes, Matches(r.at, segs)
    PROVE  /\ r.name = NameOf(segs)
           /\ \/ Len(segs) = 1
              \/ /\ segs[1] = "v1"
                 /\ segs[2] \in {"packages", "orgs", "search", "storage", "resolutions", "artifacts",
                                "files", "mirrors"}
<1>0. ASSUME Len(r.at) \in Nat
      PROVE  /\ Len(segs) >= Len(r.at)
             /\ r.at[Len(r.at)] \notin Rest => Len(segs) = Len(r.at)
             /\ \A i \in 1..Len(r.at) : r.at[i] \in Literals => segs[i] = r.at[i]
  BY <1>0, MatchSays
<1>1. CASE r = Route("healthz", <<"healthz">>, {"GET"})
  <2>1. r.name = "healthz" /\ Len(r.at) = 1 /\ r.at[1] = "healthz"
    BY <1>1 DEF Route
  <2>2. Len(segs) = 1
    BY <1>0, <2>1, OneIsNotRest DEF Literals
  <2> QED
    BY <2>1, <2>2 DEF NameOf
<1>2. CASE r = Route("list_packages", <<"v1", "packages">>, {"GET"})
  <2>1. r.name = "list_packages" /\ Len(r.at) = 2 /\ r.at[1] = "v1" /\ r.at[2] = "packages"
    BY <1>2 DEF Route
  <2>2. Len(segs) = 2 /\ segs[1] = "v1" /\ segs[2] = "packages"
    BY <1>0, <2>1, OneIsNotRest DEF Literals
  <2> QED
    BY <2>1, <2>2 DEF NameOf
<1>3. CASE r = Route("get_package", <<"v1", "packages", OrgParam, NameParam>>, {"GET"})
  <2>1. r.name = "get_package" /\ Len(r.at) = 4 /\ r.at[1] = "v1" /\ r.at[2] = "packages" /\ r.at[4] = NameParam
    BY <1>3 DEF Route
  <2>2. Len(segs) = 4 /\ segs[1] = "v1" /\ segs[2] = "packages"
    BY <1>0, <2>1, OneIsNotRest DEF Literals
  <2> QED
    BY <2>1, <2>2 DEF NameOf
<1>4. CASE r = Route("version", <<"v1", "packages", OrgParam, NameParam, "versions", VersionParam>>, {"GET", "PUT"})
  <2>1. r.name = "version" /\ Len(r.at) = 6 /\ r.at[1] = "v1" /\ r.at[2] = "packages" /\ r.at[6] = VersionParam
    BY <1>4 DEF Route
  <2>2. Len(segs) = 6 /\ segs[1] = "v1" /\ segs[2] = "packages"
    BY <1>0, <2>1, OneIsNotRest DEF Literals
  <2> QED
    BY <2>1, <2>2 DEF NameOf
<1>5. CASE r = Route("yank", <<"v1", "packages", OrgParam, NameParam, "versions", VersionParam, "yank">>, {"POST"})
  <2>1. r.name = "yank" /\ Len(r.at) = 7 /\ r.at[1] = "v1" /\ r.at[2] = "packages" /\ r.at[7] = "yank"
    BY <1>5 DEF Route
  <2>2. Len(segs) = 7 /\ segs[1] = "v1" /\ segs[2] = "packages" /\ segs[7] = "yank"
    BY <1>0, <2>1, OneIsNotRest DEF Literals
  <2> QED
    BY <2>1, <2>2 DEF NameOf
<1>6. CASE r = Route("embedding", <<"v1", "packages", OrgParam, NameParam, "embedding">>, {"PUT"})
  <2>1. r.name = "embedding" /\ Len(r.at) = 5 /\ r.at[1] = "v1" /\ r.at[2] = "packages" /\ r.at[5] = "embedding"
    BY <1>6 DEF Route
  <2>2. Len(segs) = 5 /\ segs[1] = "v1" /\ segs[2] = "packages" /\ segs[5] = "embedding"
    BY <1>0, <2>1, OneIsNotRest DEF Literals
  <2> QED
    BY <2>1, <2>2 DEF NameOf
<1>7. CASE r = Route("signed_index", <<"v1", "packages", OrgParam, NameParam, "signed-index">>, {"GET", "PUT"})
  <2>1. r.name = "signed_index" /\ Len(r.at) = 5 /\ r.at[1] = "v1" /\ r.at[2] = "packages" /\ r.at[5] = "signed-index"
    BY <1>7 DEF Route
  <2>2. Len(segs) = 5 /\ segs[1] = "v1" /\ segs[2] = "packages" /\ segs[5] = "signed-index"
    BY <1>0, <2>1, OneIsNotRest DEF Literals
  <2> QED
    BY <2>1, <2>2 DEF NameOf
<1>8. CASE r = Route("declared_graph", <<"v1", "packages", OrgParam, NameParam, "versions", VersionParam, "dependency-graph">>, {"GET"})
  <2>1. r.name = "declared_graph" /\ Len(r.at) = 7 /\ r.at[1] = "v1" /\ r.at[2] = "packages" /\ r.at[7] = "dependency-graph"
    BY <1>8 DEF Route
  <2>2. Len(segs) = 7 /\ segs[1] = "v1" /\ segs[2] = "packages" /\ segs[7] = "dependency-graph"
    BY <1>0, <2>1, OneIsNotRest DEF Literals
  <2> QED
    BY <2>1, <2>2 DEF NameOf
<1>9. CASE r = Route("declared_graph_export", <<"v1", "packages", OrgParam, NameParam, "versions", VersionParam, "dependency-graph", "export", FormatParam>>, {"GET"})
  <2>1. r.name = "declared_graph_export" /\ Len(r.at) = 9 /\ r.at[1] = "v1" /\ r.at[2] = "packages" /\ r.at[9] = FormatParam
    BY <1>9 DEF Route
  <2>2. Len(segs) = 9 /\ segs[1] = "v1" /\ segs[2] = "packages"
    BY <1>0, <2>1, OneIsNotRest DEF Literals
  <2> QED
    BY <2>1, <2>2 DEF NameOf
<1>10. CASE r = Route("resolution_graph", <<"v1", "resolutions", ResolutionParam, "dependency-graph">>, {"GET"})
  <2>1. r.name = "resolution_graph" /\ Len(r.at) = 4 /\ r.at[1] = "v1" /\ r.at[2] = "resolutions" /\ r.at[4] = "dependency-graph"
    BY <1>10 DEF Route
  <2>2. Len(segs) = 4 /\ segs[1] = "v1" /\ segs[2] = "resolutions"
    BY <1>0, <2>1, OneIsNotRest DEF Literals
  <2> QED
    BY <2>1, <2>2 DEF NameOf
<1>11. CASE r = Route("artifact", <<"v1", "artifacts", Sha256Param>>, {"GET"})
  <2>1. r.name = "artifact" /\ Len(r.at) = 3 /\ r.at[1] = "v1" /\ r.at[2] = "artifacts" /\ r.at[3] = Sha256Param
    BY <1>11 DEF Route
  <2>2. Len(segs) = 3 /\ segs[1] = "v1" /\ segs[2] = "artifacts"
    BY <1>0, <2>1, OneIsNotRest DEF Literals
  <2> QED
    BY <2>1, <2>2 DEF NameOf
<1>12. CASE r = Route("files", <<"v1", "files", OrgParam, NameParam, VersionParam, AnyRest>>, {"GET"})
  <2>1. r.name = "files" /\ Len(r.at) = 6 /\ r.at[1] = "v1" /\ r.at[2] = "files" /\ r.at[6] = AnyRest
    BY <1>12 DEF Route
  <2>2. Len(segs) >= 6 /\ segs[1] = "v1" /\ segs[2] = "files"
    BY <1>0, <2>1, OneIsNotRest DEF Literals
  <2> QED
    BY <2>1, <2>2 DEF NameOf
<1>13. CASE r = Route("search", <<"v1", "search">>, {"GET"})
  <2>1. r.name = "search" /\ Len(r.at) = 2 /\ r.at[1] = "v1" /\ r.at[2] = "search"
    BY <1>13 DEF Route
  <2>2. Len(segs) = 2 /\ segs[1] = "v1" /\ segs[2] = "search"
    BY <1>0, <2>1, OneIsNotRest DEF Literals
  <2> QED
    BY <2>1, <2>2 DEF NameOf
<1>14. CASE r = Route("semantic_search", <<"v1", "search", "semantic">>, {"POST"})
  <2>1. r.name = "semantic_search" /\ Len(r.at) = 3 /\ r.at[1] = "v1" /\ r.at[2] = "search" /\ r.at[3] = "semantic"
    BY <1>14 DEF Route
  <2>2. Len(segs) = 3 /\ segs[1] = "v1" /\ segs[2] = "search"
    BY <1>0, <2>1, OneIsNotRest DEF Literals
  <2> QED
    BY <2>1, <2>2 DEF NameOf
<1>15. CASE r = Route("claim_org", <<"v1", "orgs">>, {"POST"})
  <2>1. r.name = "claim_org" /\ Len(r.at) = 2 /\ r.at[1] = "v1" /\ r.at[2] = "orgs"
    BY <1>15 DEF Route
  <2>2. Len(segs) = 2 /\ segs[1] = "v1" /\ segs[2] = "orgs"
    BY <1>0, <2>1, OneIsNotRest DEF Literals
  <2> QED
    BY <2>1, <2>2 DEF NameOf
<1>16. CASE r = Route("org_keys", <<"v1", "orgs", OrgParam, "keys">>, {"GET", "PUT"})
  <2>1. r.name = "org_keys" /\ Len(r.at) = 4 /\ r.at[1] = "v1" /\ r.at[2] = "orgs" /\ r.at[4] = "keys"
    BY <1>16 DEF Route
  <2>2. Len(segs) = 4 /\ segs[1] = "v1" /\ segs[2] = "orgs" /\ segs[4] = "keys"
    BY <1>0, <2>1, OneIsNotRest DEF Literals
  <2> QED
    BY <2>1, <2>2 DEF NameOf
<1>17. CASE r = Route("mirrors", <<"v1", "mirrors">>, {"GET"})
  <2>1. r.name = "mirrors" /\ Len(r.at) = 2 /\ r.at[1] = "v1" /\ r.at[2] = "mirrors"
    BY <1>17 DEF Route
  <2>2. Len(segs) = 2 /\ segs[1] = "v1" /\ segs[2] = "mirrors"
    BY <1>0, <2>1, OneIsNotRest DEF Literals
  <2> QED
    BY <2>1, <2>2 DEF NameOf
<1>18. CASE r = Route("audit", <<"v1", "orgs", OrgParam, "audit">>, {"GET"})
  <2>1. r.name = "audit" /\ Len(r.at) = 4 /\ r.at[1] = "v1" /\ r.at[2] = "orgs" /\ r.at[4] = "audit"
    BY <1>18 DEF Route
  <2>2. Len(segs) = 4 /\ segs[1] = "v1" /\ segs[2] = "orgs" /\ segs[4] = "audit"
    BY <1>0, <2>1, OneIsNotRest DEF Literals
  <2> QED
    BY <2>1, <2>2 DEF NameOf
<1>19. CASE r = Route("audit_verify", <<"v1", "orgs", OrgParam, "audit", "verify">>, {"GET"})
  <2>1. r.name = "audit_verify" /\ Len(r.at) = 5 /\ r.at[1] = "v1" /\ r.at[2] = "orgs" /\ r.at[5] = "verify"
    BY <1>19 DEF Route
  <2>2. Len(segs) = 5 /\ segs[1] = "v1" /\ segs[2] = "orgs"
    BY <1>0, <2>1, OneIsNotRest DEF Literals
  <2> QED
    BY <2>1, <2>2 DEF NameOf
<1>20. CASE r = Route("storage_status", <<"v1", "storage", "status">>, {"GET"})
  <2>1. r.name = "storage_status" /\ Len(r.at) = 3 /\ r.at[1] = "v1" /\ r.at[2] = "storage" /\ r.at[3] = "status"
    BY <1>20 DEF Route
  <2>2. Len(segs) = 3 /\ segs[1] = "v1" /\ segs[2] = "storage"
    BY <1>0, <2>1, OneIsNotRest DEF Literals
  <2> QED
    BY <2>1, <2>2 DEF NameOf
<1>21. CASE r = Route("storage_artifact", <<"v1", "storage", "artifacts", Sha256Param>>, {"GET"})
  <2>1. r.name = "storage_artifact" /\ Len(r.at) = 4 /\ r.at[1] = "v1" /\ r.at[2] = "storage" /\ r.at[4] = Sha256Param
    BY <1>21 DEF Route
  <2>2. Len(segs) = 4 /\ segs[1] = "v1" /\ segs[2] = "storage"
    BY <1>0, <2>1, OneIsNotRest DEF Literals
  <2> QED
    BY <2>1, <2>2 DEF NameOf
<1> QED
  BY <1>1, <1>2, <1>3, <1>4, <1>5, <1>6, <1>7, <1>8, <1>9, <1>10, <1>11, <1>12, <1>13, <1>14, <1>15, <1>16, <1>17, <1>18, <1>19, <1>20, <1>21 DEF MachineRoutes

\* A pattern that only replaces literals and guarded bindings by axum's own
\* placeholders matches what the guarded pattern matches.
LEMMA UnguardedMatches ==
    ASSUME NEW at, NEW bt, NEW segs, Len(bt) = Len(at), Len(at) \in Nat \ {0},
           at[Len(at)] \in Rest <=> bt[Len(at)] \in Rest,
           \A i \in 1..Len(at) : bt[i] = at[i] \/ bt[i] \in Params \cup {AnyRest},
           Matches(at, segs)
    PROVE  Matches(bt, segs)
<1>1. \A i \in 1..Len(at) : Takes(bt[i], segs[i])
  BY LiteralTakes DEF Matches
<1> QED
  BY <1>1 DEF Matches, Last, Rest

\* The guarded bindings take one segment.
LEMMA GuardedIsNotRest ==
    /\ Slug \notin Rest /\ VersionText \notin Rest /\ Digest \notin Rest
    /\ FilesRest \in Rest /\ AnyRest \in Rest
BY DEF Rest, Digest, Slug, VersionText, AnyRest, FilesRest

\* Route r answers entry t on a path.
StandsFor(t, r, segs) ==
  /\ r.name = t.name /\ Matches(r.at, segs)
  /\ \A m : /\ m \in t.serves /\ m # "OPTIONS" => Handler(m) \in r.serves
            /\ Handler(m) \in r.serves => m \in t.serves

\* Every entry of the boundary's table stands for the machine route of its name:
\* it matches no other path, and admits the methods that route serves, HEAD
\* and OPTIONS.
LEMMA EntryHasRoute ==
    ASSUME NEW t \in RegistryTable, NEW segs, Matches(t.at, segs)
    PROVE  \E r \in MachineRoutes : StandsFor(t, r, segs)
<1>0. ASSUME NEW r, Len(r.at) = Len(t.at), Len(t.at) \in Nat \ {0},
             t.at[Len(t.at)] \in Rest <=> r.at[Len(t.at)] \in Rest,
             \A i \in 1..Len(t.at) : r.at[i] = t.at[i] \/ r.at[i] \in Params \cup {AnyRest}
      PROVE  Matches(r.at, segs)
  BY <1>0, UnguardedMatches
<1>1. CASE t = Route("healthz", <<"healthz">>, READ)
  <2> DEFINE r == Route("healthz", <<"healthz">>, {"GET"})
  <2>1. r \in MachineRoutes /\ r.name = t.name
    BY <1>1 DEF MachineRoutes, Route
  <2>2. /\ Len(r.at) = 1 /\ Len(t.at) = 1 /\ r.at[1] = "healthz" /\ t.at[1] = "healthz"
        /\ \A i \in 1..1 : r.at[i] = t.at[i] \/ r.at[i] \in Params \cup {AnyRest}
    BY <1>1 DEF Route, Params
  <2>3. \A m : /\ m \in t.serves /\ m # "OPTIONS" => Handler(m) \in r.serves
               /\ Handler(m) \in r.serves => m \in t.serves
    BY <1>1 DEF Route, Handler, READ, POST, PUT, VERSION
  <2> HIDE DEF r
  <2>4. Matches(r.at, segs)
    BY <1>0, <2>2, OneIsNotRest, GuardedIsNotRest DEF Literals
  <2>5. StandsFor(t, r, segs)
    BY <2>1, <2>3, <2>4, Zenon DEF StandsFor
  <2> QED
    BY <2>1, <2>5, Zenon
<1>2. CASE t = Route("list_packages", <<"v1", "packages">>, READ)
  <2> DEFINE r == Route("list_packages", <<"v1", "packages">>, {"GET"})
  <2>1. r \in MachineRoutes /\ r.name = t.name
    BY <1>2 DEF MachineRoutes, Route
  <2>2. /\ Len(r.at) = 2 /\ Len(t.at) = 2 /\ r.at[2] = "packages" /\ t.at[2] = "packages"
        /\ \A i \in 1..2 : r.at[i] = t.at[i] \/ r.at[i] \in Params \cup {AnyRest}
    BY <1>2 DEF Route, Params
  <2>3. \A m : /\ m \in t.serves /\ m # "OPTIONS" => Handler(m) \in r.serves
               /\ Handler(m) \in r.serves => m \in t.serves
    BY <1>2 DEF Route, Handler, READ, POST, PUT, VERSION
  <2> HIDE DEF r
  <2>4. Matches(r.at, segs)
    BY <1>0, <2>2, OneIsNotRest, GuardedIsNotRest DEF Literals
  <2>5. StandsFor(t, r, segs)
    BY <2>1, <2>3, <2>4, Zenon DEF StandsFor
  <2> QED
    BY <2>1, <2>5, Zenon
<1>3. CASE t = Route("get_package", <<"v1", "packages", Slug, Slug>>, READ)
  <2> DEFINE r == Route("get_package", <<"v1", "packages", OrgParam, NameParam>>, {"GET"})
  <2>1. r \in MachineRoutes /\ r.name = t.name
    BY <1>3 DEF MachineRoutes, Route
  <2>2. /\ Len(r.at) = 4 /\ Len(t.at) = 4 /\ r.at[4] = NameParam /\ t.at[4] = Slug
        /\ \A i \in 1..4 : r.at[i] = t.at[i] \/ r.at[i] \in Params \cup {AnyRest}
    BY <1>3 DEF Route, Params
  <2>3. \A m : /\ m \in t.serves /\ m # "OPTIONS" => Handler(m) \in r.serves
               /\ Handler(m) \in r.serves => m \in t.serves
    BY <1>3 DEF Route, Handler, READ, POST, PUT, VERSION
  <2> HIDE DEF r
  <2>4. Matches(r.at, segs)
    BY <1>0, <2>2, OneIsNotRest, GuardedIsNotRest DEF Literals
  <2>5. StandsFor(t, r, segs)
    BY <2>1, <2>3, <2>4, Zenon DEF StandsFor
  <2> QED
    BY <2>1, <2>5, Zenon
<1>4. CASE t = Route("version", <<"v1", "packages", Slug, Slug, "versions", VersionText>>, VERSION)
  <2> DEFINE r == Route("version", <<"v1", "packages", OrgParam, NameParam, "versions", VersionParam>>, {"GET", "PUT"})
  <2>1. r \in MachineRoutes /\ r.name = t.name
    BY <1>4 DEF MachineRoutes, Route
  <2>2. /\ Len(r.at) = 6 /\ Len(t.at) = 6 /\ r.at[6] = VersionParam /\ t.at[6] = VersionText
        /\ \A i \in 1..6 : r.at[i] = t.at[i] \/ r.at[i] \in Params \cup {AnyRest}
    BY <1>4 DEF Route, Params
  <2>3. \A m : /\ m \in t.serves /\ m # "OPTIONS" => Handler(m) \in r.serves
               /\ Handler(m) \in r.serves => m \in t.serves
    BY <1>4 DEF Route, Handler, READ, POST, PUT, VERSION
  <2> HIDE DEF r
  <2>4. Matches(r.at, segs)
    BY <1>0, <2>2, OneIsNotRest, GuardedIsNotRest DEF Literals
  <2>5. StandsFor(t, r, segs)
    BY <2>1, <2>3, <2>4, Zenon DEF StandsFor
  <2> QED
    BY <2>1, <2>5, Zenon
<1>5. CASE t = Route("yank", <<"v1", "packages", Slug, Slug, "versions", VersionText, "yank">>, POST)
  <2> DEFINE r == Route("yank", <<"v1", "packages", OrgParam, NameParam, "versions", VersionParam, "yank">>, {"POST"})
  <2>1. r \in MachineRoutes /\ r.name = t.name
    BY <1>5 DEF MachineRoutes, Route
  <2>2. /\ Len(r.at) = 7 /\ Len(t.at) = 7 /\ r.at[7] = "yank" /\ t.at[7] = "yank"
        /\ \A i \in 1..7 : r.at[i] = t.at[i] \/ r.at[i] \in Params \cup {AnyRest}
    BY <1>5 DEF Route, Params
  <2>3. \A m : /\ m \in t.serves /\ m # "OPTIONS" => Handler(m) \in r.serves
               /\ Handler(m) \in r.serves => m \in t.serves
    BY <1>5 DEF Route, Handler, READ, POST, PUT, VERSION
  <2> HIDE DEF r
  <2>4. Matches(r.at, segs)
    BY <1>0, <2>2, OneIsNotRest, GuardedIsNotRest DEF Literals
  <2>5. StandsFor(t, r, segs)
    BY <2>1, <2>3, <2>4, Zenon DEF StandsFor
  <2> QED
    BY <2>1, <2>5, Zenon
<1>6. CASE t = Route("embedding", <<"v1", "packages", Slug, Slug, "embedding">>, PUT)
  <2> DEFINE r == Route("embedding", <<"v1", "packages", OrgParam, NameParam, "embedding">>, {"PUT"})
  <2>1. r \in MachineRoutes /\ r.name = t.name
    BY <1>6 DEF MachineRoutes, Route
  <2>2. /\ Len(r.at) = 5 /\ Len(t.at) = 5 /\ r.at[5] = "embedding" /\ t.at[5] = "embedding"
        /\ \A i \in 1..5 : r.at[i] = t.at[i] \/ r.at[i] \in Params \cup {AnyRest}
    BY <1>6 DEF Route, Params
  <2>3. \A m : /\ m \in t.serves /\ m # "OPTIONS" => Handler(m) \in r.serves
               /\ Handler(m) \in r.serves => m \in t.serves
    BY <1>6 DEF Route, Handler, READ, POST, PUT, VERSION
  <2> HIDE DEF r
  <2>4. Matches(r.at, segs)
    BY <1>0, <2>2, OneIsNotRest, GuardedIsNotRest DEF Literals
  <2>5. StandsFor(t, r, segs)
    BY <2>1, <2>3, <2>4, Zenon DEF StandsFor
  <2> QED
    BY <2>1, <2>5, Zenon
<1>7. CASE t = Route("declared_graph", <<"v1", "packages", Slug, Slug, "versions", VersionText, "dependency-graph">>, READ)
  <2> DEFINE r == Route("declared_graph", <<"v1", "packages", OrgParam, NameParam, "versions", VersionParam, "dependency-graph">>, {"GET"})
  <2>1. r \in MachineRoutes /\ r.name = t.name
    BY <1>7 DEF MachineRoutes, Route
  <2>2. /\ Len(r.at) = 7 /\ Len(t.at) = 7 /\ r.at[7] = "dependency-graph" /\ t.at[7] = "dependency-graph"
        /\ \A i \in 1..7 : r.at[i] = t.at[i] \/ r.at[i] \in Params \cup {AnyRest}
    BY <1>7 DEF Route, Params
  <2>3. \A m : /\ m \in t.serves /\ m # "OPTIONS" => Handler(m) \in r.serves
               /\ Handler(m) \in r.serves => m \in t.serves
    BY <1>7 DEF Route, Handler, READ, POST, PUT, VERSION
  <2> HIDE DEF r
  <2>4. Matches(r.at, segs)
    BY <1>0, <2>2, OneIsNotRest, GuardedIsNotRest DEF Literals
  <2>5. StandsFor(t, r, segs)
    BY <2>1, <2>3, <2>4, Zenon DEF StandsFor
  <2> QED
    BY <2>1, <2>5, Zenon
<1>8. CASE t = Route("declared_graph_export", <<"v1", "packages", Slug, Slug, "versions", VersionText, "dependency-graph", "export", Slug>>, READ)
  <2> DEFINE r == Route("declared_graph_export", <<"v1", "packages", OrgParam, NameParam, "versions", VersionParam, "dependency-graph", "export", FormatParam>>, {"GET"})
  <2>1. r \in MachineRoutes /\ r.name = t.name
    BY <1>8 DEF MachineRoutes, Route
  <2>2. /\ Len(r.at) = 9 /\ Len(t.at) = 9 /\ r.at[9] = FormatParam /\ t.at[9] = Slug
        /\ \A i \in 1..9 : r.at[i] = t.at[i] \/ r.at[i] \in Params \cup {AnyRest}
    BY <1>8 DEF Route, Params
  <2>3. \A m : /\ m \in t.serves /\ m # "OPTIONS" => Handler(m) \in r.serves
               /\ Handler(m) \in r.serves => m \in t.serves
    BY <1>8 DEF Route, Handler, READ, POST, PUT, VERSION
  <2> HIDE DEF r
  <2>4. Matches(r.at, segs)
    BY <1>0, <2>2, OneIsNotRest, GuardedIsNotRest DEF Literals
  <2>5. StandsFor(t, r, segs)
    BY <2>1, <2>3, <2>4, Zenon DEF StandsFor
  <2> QED
    BY <2>1, <2>5, Zenon
<1>9. CASE t = Route("artifact", <<"v1", "artifacts", Digest>>, READ)
  <2> DEFINE r == Route("artifact", <<"v1", "artifacts", Sha256Param>>, {"GET"})
  <2>1. r \in MachineRoutes /\ r.name = t.name
    BY <1>9 DEF MachineRoutes, Route
  <2>2. /\ Len(r.at) = 3 /\ Len(t.at) = 3 /\ r.at[3] = Sha256Param /\ t.at[3] = Digest
        /\ \A i \in 1..3 : r.at[i] = t.at[i] \/ r.at[i] \in Params \cup {AnyRest}
    BY <1>9 DEF Route, Params
  <2>3. \A m : /\ m \in t.serves /\ m # "OPTIONS" => Handler(m) \in r.serves
               /\ Handler(m) \in r.serves => m \in t.serves
    BY <1>9 DEF Route, Handler, READ, POST, PUT, VERSION
  <2> HIDE DEF r
  <2>4. Matches(r.at, segs)
    BY <1>0, <2>2, OneIsNotRest, GuardedIsNotRest DEF Literals
  <2>5. StandsFor(t, r, segs)
    BY <2>1, <2>3, <2>4, Zenon DEF StandsFor
  <2> QED
    BY <2>1, <2>5, Zenon
<1>10. CASE t = Route("files", <<"v1", "files", Slug, Slug, VersionText, FilesRest>>, READ)
  <2> DEFINE r == Route("files", <<"v1", "files", OrgParam, NameParam, VersionParam, AnyRest>>, {"GET"})
  <2>1. r \in MachineRoutes /\ r.name = t.name
    BY <1>10 DEF MachineRoutes, Route
  <2>2. /\ Len(r.at) = 6 /\ Len(t.at) = 6 /\ r.at[6] = AnyRest /\ t.at[6] = FilesRest
        /\ \A i \in 1..6 : r.at[i] = t.at[i] \/ r.at[i] \in Params \cup {AnyRest}
    BY <1>10 DEF Route, Params
  <2>3. \A m : /\ m \in t.serves /\ m # "OPTIONS" => Handler(m) \in r.serves
               /\ Handler(m) \in r.serves => m \in t.serves
    BY <1>10 DEF Route, Handler, READ, POST, PUT, VERSION
  <2> HIDE DEF r
  <2>4. Matches(r.at, segs)
    BY <1>0, <2>2, OneIsNotRest, GuardedIsNotRest DEF Literals
  <2>5. StandsFor(t, r, segs)
    BY <2>1, <2>3, <2>4, Zenon DEF StandsFor
  <2> QED
    BY <2>1, <2>5, Zenon
<1>11. CASE t = Route("search", <<"v1", "search">>, READ)
  <2> DEFINE r == Route("search", <<"v1", "search">>, {"GET"})
  <2>1. r \in MachineRoutes /\ r.name = t.name
    BY <1>11 DEF MachineRoutes, Route
  <2>2. /\ Len(r.at) = 2 /\ Len(t.at) = 2 /\ r.at[2] = "search" /\ t.at[2] = "search"
        /\ \A i \in 1..2 : r.at[i] = t.at[i] \/ r.at[i] \in Params \cup {AnyRest}
    BY <1>11 DEF Route, Params
  <2>3. \A m : /\ m \in t.serves /\ m # "OPTIONS" => Handler(m) \in r.serves
               /\ Handler(m) \in r.serves => m \in t.serves
    BY <1>11 DEF Route, Handler, READ, POST, PUT, VERSION
  <2> HIDE DEF r
  <2>4. Matches(r.at, segs)
    BY <1>0, <2>2, OneIsNotRest, GuardedIsNotRest DEF Literals
  <2>5. StandsFor(t, r, segs)
    BY <2>1, <2>3, <2>4, Zenon DEF StandsFor
  <2> QED
    BY <2>1, <2>5, Zenon
<1>12. CASE t = Route("semantic_search", <<"v1", "search", "semantic">>, POST)
  <2> DEFINE r == Route("semantic_search", <<"v1", "search", "semantic">>, {"POST"})
  <2>1. r \in MachineRoutes /\ r.name = t.name
    BY <1>12 DEF MachineRoutes, Route
  <2>2. /\ Len(r.at) = 3 /\ Len(t.at) = 3 /\ r.at[3] = "semantic" /\ t.at[3] = "semantic"
        /\ \A i \in 1..3 : r.at[i] = t.at[i] \/ r.at[i] \in Params \cup {AnyRest}
    BY <1>12 DEF Route, Params
  <2>3. \A m : /\ m \in t.serves /\ m # "OPTIONS" => Handler(m) \in r.serves
               /\ Handler(m) \in r.serves => m \in t.serves
    BY <1>12 DEF Route, Handler, READ, POST, PUT, VERSION
  <2> HIDE DEF r
  <2>4. Matches(r.at, segs)
    BY <1>0, <2>2, OneIsNotRest, GuardedIsNotRest DEF Literals
  <2>5. StandsFor(t, r, segs)
    BY <2>1, <2>3, <2>4, Zenon DEF StandsFor
  <2> QED
    BY <2>1, <2>5, Zenon
<1>13. CASE t = Route("claim_org", <<"v1", "orgs">>, POST)
  <2> DEFINE r == Route("claim_org", <<"v1", "orgs">>, {"POST"})
  <2>1. r \in MachineRoutes /\ r.name = t.name
    BY <1>13 DEF MachineRoutes, Route
  <2>2. /\ Len(r.at) = 2 /\ Len(t.at) = 2 /\ r.at[2] = "orgs" /\ t.at[2] = "orgs"
        /\ \A i \in 1..2 : r.at[i] = t.at[i] \/ r.at[i] \in Params \cup {AnyRest}
    BY <1>13 DEF Route, Params
  <2>3. \A m : /\ m \in t.serves /\ m # "OPTIONS" => Handler(m) \in r.serves
               /\ Handler(m) \in r.serves => m \in t.serves
    BY <1>13 DEF Route, Handler, READ, POST, PUT, VERSION
  <2> HIDE DEF r
  <2>4. Matches(r.at, segs)
    BY <1>0, <2>2, OneIsNotRest, GuardedIsNotRest DEF Literals
  <2>5. StandsFor(t, r, segs)
    BY <2>1, <2>3, <2>4, Zenon DEF StandsFor
  <2> QED
    BY <2>1, <2>5, Zenon
<1>14. CASE t = Route("audit", <<"v1", "orgs", Slug, "audit">>, READ)
  <2> DEFINE r == Route("audit", <<"v1", "orgs", OrgParam, "audit">>, {"GET"})
  <2>1. r \in MachineRoutes /\ r.name = t.name
    BY <1>14 DEF MachineRoutes, Route
  <2>2. /\ Len(r.at) = 4 /\ Len(t.at) = 4 /\ r.at[4] = "audit" /\ t.at[4] = "audit"
        /\ \A i \in 1..4 : r.at[i] = t.at[i] \/ r.at[i] \in Params \cup {AnyRest}
    BY <1>14 DEF Route, Params
  <2>3. \A m : /\ m \in t.serves /\ m # "OPTIONS" => Handler(m) \in r.serves
               /\ Handler(m) \in r.serves => m \in t.serves
    BY <1>14 DEF Route, Handler, READ, POST, PUT, VERSION
  <2> HIDE DEF r
  <2>4. Matches(r.at, segs)
    BY <1>0, <2>2, OneIsNotRest, GuardedIsNotRest DEF Literals
  <2>5. StandsFor(t, r, segs)
    BY <2>1, <2>3, <2>4, Zenon DEF StandsFor
  <2> QED
    BY <2>1, <2>5, Zenon
<1>15. CASE t = Route("audit_verify", <<"v1", "orgs", Slug, "audit", "verify">>, READ)
  <2> DEFINE r == Route("audit_verify", <<"v1", "orgs", OrgParam, "audit", "verify">>, {"GET"})
  <2>1. r \in MachineRoutes /\ r.name = t.name
    BY <1>15 DEF MachineRoutes, Route
  <2>2. /\ Len(r.at) = 5 /\ Len(t.at) = 5 /\ r.at[5] = "verify" /\ t.at[5] = "verify"
        /\ \A i \in 1..5 : r.at[i] = t.at[i] \/ r.at[i] \in Params \cup {AnyRest}
    BY <1>15 DEF Route, Params
  <2>3. \A m : /\ m \in t.serves /\ m # "OPTIONS" => Handler(m) \in r.serves
               /\ Handler(m) \in r.serves => m \in t.serves
    BY <1>15 DEF Route, Handler, READ, POST, PUT, VERSION
  <2> HIDE DEF r
  <2>4. Matches(r.at, segs)
    BY <1>0, <2>2, OneIsNotRest, GuardedIsNotRest DEF Literals
  <2>5. StandsFor(t, r, segs)
    BY <2>1, <2>3, <2>4, Zenon DEF StandsFor
  <2> QED
    BY <2>1, <2>5, Zenon
<1>16. CASE t = Route("resolution_graph", <<"v1", "resolutions", Resolution, "dependency-graph">>, READ)
  <2> DEFINE r == Route("resolution_graph", <<"v1", "resolutions", ResolutionParam, "dependency-graph">>, {"GET"})
  <2>1. r \in MachineRoutes /\ r.name = t.name
    BY <1>16 DEF MachineRoutes, Route
  <2>2. /\ Len(r.at) = 4 /\ Len(t.at) = 4 /\ r.at[4] = "dependency-graph" /\ t.at[4] = "dependency-graph"
        /\ \A i \in 1..4 : r.at[i] = t.at[i] \/ r.at[i] \in Params \cup {AnyRest}
    BY <1>16 DEF Route, Params
  <2>3. \A m : /\ m \in t.serves /\ m # "OPTIONS" => Handler(m) \in r.serves
               /\ Handler(m) \in r.serves => m \in t.serves
    BY <1>16 DEF Route, Handler, READ, POST, PUT, VERSION
  <2> HIDE DEF r
  <2>4. Matches(r.at, segs)
    BY <1>0, <2>2, OneIsNotRest, GuardedIsNotRest DEF Literals
  <2>5. StandsFor(t, r, segs)
    BY <2>1, <2>3, <2>4, Zenon DEF StandsFor
  <2> QED
    BY <2>1, <2>5, Zenon
<1> QED
  BY <1>1, <1>2, <1>3, <1>4, <1>5, <1>6, <1>7, <1>8, <1>9, <1>10, <1>11, <1>12, <1>13, <1>14, <1>15, <1>16 DEF RegistryTable

\* A guarded binding takes every well-formed segment of the parameter it stands for.
Guards(b, a) ==
  \/ b = a
  \/ b = Slug /\ a \in {OrgParam, NameParam, FormatParam}
  \/ b = VersionText /\ a = VersionParam
  \/ b = Digest /\ a = Sha256Param
  \/ b = Resolution /\ a = ResolutionParam
  \/ b = FilesRest /\ a = AnyRest

\* A path with well-formed parameters that matches a template matches the
\* pattern that guards each of them.
LEMMA GuardedMatches ==
    ASSUME NEW at, NEW bt, NEW segs, Len(bt) = Len(at), Len(at) \in Nat \ {0},
           at[Len(at)] \in Rest <=> bt[Len(at)] \in Rest,
           \A i \in 1..Len(at) : Guards(bt[i], at[i]) /\ Admits(at[i], segs[i]),
           Matches(at, segs)
    PROVE  Matches(bt, segs)
<1>1. ASSUME NEW i \in 1..Len(at) PROVE Takes(bt[i], segs[i])
  <2>1. Takes(at[i], segs[i]) /\ Guards(bt[i], at[i]) /\ Admits(at[i], segs[i])
    BY DEF Matches
  <2> QED
    BY <2>1 DEF Guards, Admits, Takes, slug, version_segment, sha256, resolution_digest
<1> QED
  BY <1>1 DEF Matches, Last, Rest

\* Every machine route, with parameters or without, is listed by the boundary
\* or kept off the registry host.
LEMMA RoutesAreListed ==
    ASSUME NEW r \in MachineRoutes, NEW path, Names(path, r), Matches(r.at, path.segs)
    PROVE  r.name \in OffTheRegistryHost \/ \E t \in RegistryTable : Matches(t.at, path.segs)
<1>0. ASSUME NEW t, Len(t.at) = Len(r.at), Len(r.at) \in Nat \ {0},
             r.at[Len(r.at)] \in Rest <=> t.at[Len(r.at)] \in Rest,
             \A i \in 1..Len(r.at) : Guards(t.at[i], r.at[i])
      PROVE  Matches(t.at, path.segs)
  BY <1>0, GuardedMatches DEF Names
<1>1. CASE r = Route("healthz", <<"healthz">>, {"GET"})
  <2> DEFINE t == Route("healthz", <<"healthz">>, READ)
  <2>1. t \in RegistryTable
    BY DEF RegistryTable, Route
  <2>2. /\ Len(r.at) = 1 /\ Len(t.at) = 1 /\ r.at[1] = "healthz" /\ t.at[1] = "healthz"
        /\ \A i \in 1..1 : Guards(t.at[i], r.at[i])
    BY <1>1 DEF Route, Guards
  <2> HIDE DEF t
  <2>3. Matches(t.at, path.segs)
    BY <1>0, <2>2, OneIsNotRest, GuardedIsNotRest DEF Literals
  <2> QED
    BY <2>1, <2>3, Zenon
<1>2. CASE r = Route("list_packages", <<"v1", "packages">>, {"GET"})
  <2> DEFINE t == Route("list_packages", <<"v1", "packages">>, READ)
  <2>1. t \in RegistryTable
    BY DEF RegistryTable, Route
  <2>2. /\ Len(r.at) = 2 /\ Len(t.at) = 2 /\ r.at[2] = "packages" /\ t.at[2] = "packages"
        /\ \A i \in 1..2 : Guards(t.at[i], r.at[i])
    BY <1>2 DEF Route, Guards
  <2> HIDE DEF t
  <2>3. Matches(t.at, path.segs)
    BY <1>0, <2>2, OneIsNotRest, GuardedIsNotRest DEF Literals
  <2> QED
    BY <2>1, <2>3, Zenon
<1>3. CASE r = Route("get_package", <<"v1", "packages", OrgParam, NameParam>>, {"GET"})
  <2> DEFINE t == Route("get_package", <<"v1", "packages", Slug, Slug>>, READ)
  <2>1. t \in RegistryTable
    BY DEF RegistryTable, Route
  <2>2. /\ Len(r.at) = 4 /\ Len(t.at) = 4 /\ r.at[4] = NameParam /\ t.at[4] = Slug
        /\ \A i \in 1..4 : Guards(t.at[i], r.at[i])
    BY <1>3 DEF Route, Guards
  <2> HIDE DEF t
  <2>3. Matches(t.at, path.segs)
    BY <1>0, <2>2, OneIsNotRest, GuardedIsNotRest DEF Literals
  <2> QED
    BY <2>1, <2>3, Zenon
<1>4. CASE r = Route("version", <<"v1", "packages", OrgParam, NameParam, "versions", VersionParam>>, {"GET", "PUT"})
  <2> DEFINE t == Route("version", <<"v1", "packages", Slug, Slug, "versions", VersionText>>, VERSION)
  <2>1. t \in RegistryTable
    BY DEF RegistryTable, Route
  <2>2. /\ Len(r.at) = 6 /\ Len(t.at) = 6 /\ r.at[6] = VersionParam /\ t.at[6] = VersionText
        /\ \A i \in 1..6 : Guards(t.at[i], r.at[i])
    BY <1>4 DEF Route, Guards
  <2> HIDE DEF t
  <2>3. Matches(t.at, path.segs)
    BY <1>0, <2>2, OneIsNotRest, GuardedIsNotRest DEF Literals
  <2> QED
    BY <2>1, <2>3, Zenon
<1>5. CASE r = Route("yank", <<"v1", "packages", OrgParam, NameParam, "versions", VersionParam, "yank">>, {"POST"})
  <2> DEFINE t == Route("yank", <<"v1", "packages", Slug, Slug, "versions", VersionText, "yank">>, POST)
  <2>1. t \in RegistryTable
    BY DEF RegistryTable, Route
  <2>2. /\ Len(r.at) = 7 /\ Len(t.at) = 7 /\ r.at[7] = "yank" /\ t.at[7] = "yank"
        /\ \A i \in 1..7 : Guards(t.at[i], r.at[i])
    BY <1>5 DEF Route, Guards
  <2> HIDE DEF t
  <2>3. Matches(t.at, path.segs)
    BY <1>0, <2>2, OneIsNotRest, GuardedIsNotRest DEF Literals
  <2> QED
    BY <2>1, <2>3, Zenon
<1>6. CASE r = Route("embedding", <<"v1", "packages", OrgParam, NameParam, "embedding">>, {"PUT"})
  <2> DEFINE t == Route("embedding", <<"v1", "packages", Slug, Slug, "embedding">>, PUT)
  <2>1. t \in RegistryTable
    BY DEF RegistryTable, Route
  <2>2. /\ Len(r.at) = 5 /\ Len(t.at) = 5 /\ r.at[5] = "embedding" /\ t.at[5] = "embedding"
        /\ \A i \in 1..5 : Guards(t.at[i], r.at[i])
    BY <1>6 DEF Route, Guards
  <2> HIDE DEF t
  <2>3. Matches(t.at, path.segs)
    BY <1>0, <2>2, OneIsNotRest, GuardedIsNotRest DEF Literals
  <2> QED
    BY <2>1, <2>3, Zenon
<1>7. CASE r = Route("signed_index", <<"v1", "packages", OrgParam, NameParam, "signed-index">>, {"GET", "PUT"})
  BY <1>7 DEF Route, OffTheRegistryHost
<1>8. CASE r = Route("declared_graph", <<"v1", "packages", OrgParam, NameParam, "versions", VersionParam, "dependency-graph">>, {"GET"})
  <2> DEFINE t == Route("declared_graph", <<"v1", "packages", Slug, Slug, "versions", VersionText, "dependency-graph">>, READ)
  <2>1. t \in RegistryTable
    BY DEF RegistryTable, Route
  <2>2. /\ Len(r.at) = 7 /\ Len(t.at) = 7 /\ r.at[7] = "dependency-graph" /\ t.at[7] = "dependency-graph"
        /\ \A i \in 1..7 : Guards(t.at[i], r.at[i])
    BY <1>8 DEF Route, Guards
  <2> HIDE DEF t
  <2>3. Matches(t.at, path.segs)
    BY <1>0, <2>2, OneIsNotRest, GuardedIsNotRest DEF Literals
  <2> QED
    BY <2>1, <2>3, Zenon
<1>9. CASE r = Route("declared_graph_export", <<"v1", "packages", OrgParam, NameParam, "versions", VersionParam, "dependency-graph", "export", FormatParam>>, {"GET"})
  <2> DEFINE t == Route("declared_graph_export", <<"v1", "packages", Slug, Slug, "versions", VersionText, "dependency-graph", "export", Slug>>, READ)
  <2>1. t \in RegistryTable
    BY DEF RegistryTable, Route
  <2>2. /\ Len(r.at) = 9 /\ Len(t.at) = 9 /\ r.at[9] = FormatParam /\ t.at[9] = Slug
        /\ \A i \in 1..9 : Guards(t.at[i], r.at[i])
    BY <1>9 DEF Route, Guards
  <2> HIDE DEF t
  <2>3. Matches(t.at, path.segs)
    BY <1>0, <2>2, OneIsNotRest, GuardedIsNotRest DEF Literals
  <2> QED
    BY <2>1, <2>3, Zenon
<1>10. CASE r = Route("resolution_graph", <<"v1", "resolutions", ResolutionParam, "dependency-graph">>, {"GET"})
  <2> DEFINE t == Route("resolution_graph", <<"v1", "resolutions", Resolution, "dependency-graph">>, READ)
  <2>1. t \in RegistryTable
    BY DEF RegistryTable, Route
  <2>2. /\ Len(r.at) = 4 /\ Len(t.at) = 4 /\ r.at[4] = "dependency-graph" /\ t.at[4] = "dependency-graph"
        /\ \A i \in 1..4 : Guards(t.at[i], r.at[i])
    BY <1>10 DEF Route, Guards
  <2> HIDE DEF t
  <2>3. Matches(t.at, path.segs)
    BY <1>0, <2>2, OneIsNotRest, GuardedIsNotRest DEF Literals
  <2> QED
    BY <2>1, <2>3, Zenon
<1>11. CASE r = Route("artifact", <<"v1", "artifacts", Sha256Param>>, {"GET"})
  <2> DEFINE t == Route("artifact", <<"v1", "artifacts", Digest>>, READ)
  <2>1. t \in RegistryTable
    BY DEF RegistryTable, Route
  <2>2. /\ Len(r.at) = 3 /\ Len(t.at) = 3 /\ r.at[3] = Sha256Param /\ t.at[3] = Digest
        /\ \A i \in 1..3 : Guards(t.at[i], r.at[i])
    BY <1>11 DEF Route, Guards
  <2> HIDE DEF t
  <2>3. Matches(t.at, path.segs)
    BY <1>0, <2>2, OneIsNotRest, GuardedIsNotRest DEF Literals
  <2> QED
    BY <2>1, <2>3, Zenon
<1>12. CASE r = Route("files", <<"v1", "files", OrgParam, NameParam, VersionParam, AnyRest>>, {"GET"})
  <2> DEFINE t == Route("files", <<"v1", "files", Slug, Slug, VersionText, FilesRest>>, READ)
  <2>1. t \in RegistryTable
    BY DEF RegistryTable, Route
  <2>2. /\ Len(r.at) = 6 /\ Len(t.at) = 6 /\ r.at[6] = AnyRest /\ t.at[6] = FilesRest
        /\ \A i \in 1..6 : Guards(t.at[i], r.at[i])
    BY <1>12 DEF Route, Guards
  <2> HIDE DEF t
  <2>3. Matches(t.at, path.segs)
    BY <1>0, <2>2, OneIsNotRest, GuardedIsNotRest DEF Literals
  <2> QED
    BY <2>1, <2>3, Zenon
<1>13. CASE r = Route("search", <<"v1", "search">>, {"GET"})
  <2> DEFINE t == Route("search", <<"v1", "search">>, READ)
  <2>1. t \in RegistryTable
    BY DEF RegistryTable, Route
  <2>2. /\ Len(r.at) = 2 /\ Len(t.at) = 2 /\ r.at[2] = "search" /\ t.at[2] = "search"
        /\ \A i \in 1..2 : Guards(t.at[i], r.at[i])
    BY <1>13 DEF Route, Guards
  <2> HIDE DEF t
  <2>3. Matches(t.at, path.segs)
    BY <1>0, <2>2, OneIsNotRest, GuardedIsNotRest DEF Literals
  <2> QED
    BY <2>1, <2>3, Zenon
<1>14. CASE r = Route("semantic_search", <<"v1", "search", "semantic">>, {"POST"})
  <2> DEFINE t == Route("semantic_search", <<"v1", "search", "semantic">>, POST)
  <2>1. t \in RegistryTable
    BY DEF RegistryTable, Route
  <2>2. /\ Len(r.at) = 3 /\ Len(t.at) = 3 /\ r.at[3] = "semantic" /\ t.at[3] = "semantic"
        /\ \A i \in 1..3 : Guards(t.at[i], r.at[i])
    BY <1>14 DEF Route, Guards
  <2> HIDE DEF t
  <2>3. Matches(t.at, path.segs)
    BY <1>0, <2>2, OneIsNotRest, GuardedIsNotRest DEF Literals
  <2> QED
    BY <2>1, <2>3, Zenon
<1>15. CASE r = Route("claim_org", <<"v1", "orgs">>, {"POST"})
  <2> DEFINE t == Route("claim_org", <<"v1", "orgs">>, POST)
  <2>1. t \in RegistryTable
    BY DEF RegistryTable, Route
  <2>2. /\ Len(r.at) = 2 /\ Len(t.at) = 2 /\ r.at[2] = "orgs" /\ t.at[2] = "orgs"
        /\ \A i \in 1..2 : Guards(t.at[i], r.at[i])
    BY <1>15 DEF Route, Guards
  <2> HIDE DEF t
  <2>3. Matches(t.at, path.segs)
    BY <1>0, <2>2, OneIsNotRest, GuardedIsNotRest DEF Literals
  <2> QED
    BY <2>1, <2>3, Zenon
<1>16. CASE r = Route("org_keys", <<"v1", "orgs", OrgParam, "keys">>, {"GET", "PUT"})
  BY <1>16 DEF Route, OffTheRegistryHost
<1>17. CASE r = Route("mirrors", <<"v1", "mirrors">>, {"GET"})
  BY <1>17 DEF Route, OffTheRegistryHost
<1>18. CASE r = Route("audit", <<"v1", "orgs", OrgParam, "audit">>, {"GET"})
  <2> DEFINE t == Route("audit", <<"v1", "orgs", Slug, "audit">>, READ)
  <2>1. t \in RegistryTable
    BY DEF RegistryTable, Route
  <2>2. /\ Len(r.at) = 4 /\ Len(t.at) = 4 /\ r.at[4] = "audit" /\ t.at[4] = "audit"
        /\ \A i \in 1..4 : Guards(t.at[i], r.at[i])
    BY <1>18 DEF Route, Guards
  <2> HIDE DEF t
  <2>3. Matches(t.at, path.segs)
    BY <1>0, <2>2, OneIsNotRest, GuardedIsNotRest DEF Literals
  <2> QED
    BY <2>1, <2>3, Zenon
<1>19. CASE r = Route("audit_verify", <<"v1", "orgs", OrgParam, "audit", "verify">>, {"GET"})
  <2> DEFINE t == Route("audit_verify", <<"v1", "orgs", Slug, "audit", "verify">>, READ)
  <2>1. t \in RegistryTable
    BY DEF RegistryTable, Route
  <2>2. /\ Len(r.at) = 5 /\ Len(t.at) = 5 /\ r.at[5] = "verify" /\ t.at[5] = "verify"
        /\ \A i \in 1..5 : Guards(t.at[i], r.at[i])
    BY <1>19 DEF Route, Guards
  <2> HIDE DEF t
  <2>3. Matches(t.at, path.segs)
    BY <1>0, <2>2, OneIsNotRest, GuardedIsNotRest DEF Literals
  <2> QED
    BY <2>1, <2>3, Zenon
<1>20. CASE r = Route("storage_status", <<"v1", "storage", "status">>, {"GET"})
  BY <1>20 DEF Route, OffTheRegistryHost
<1>21. CASE r = Route("storage_artifact", <<"v1", "storage", "artifacts", Sha256Param>>, {"GET"})
  BY <1>21 DEF Route, OffTheRegistryHost
<1> QED
  BY <1>1, <1>2, <1>3, <1>4, <1>5, <1>6, <1>7, <1>8, <1>9, <1>10, <1>11, <1>12, <1>13, <1>14, <1>15, <1>16, <1>17, <1>18, <1>19, <1>20, <1>21 DEF MachineRoutes

\* An account route says so in one of its first two segments.
LEMMA AccountRoutesAreApart ==
    ASSUME NEW at \in AccountRoutes, NEW segs, Len(segs) \in Nat, Matches(at, segs)
    PROVE  Len(segs) # 1 /\ (segs[1] = "api" \/ segs[2] \in {"auth", "account", "session", "me"})
<1>1. \A r \in account_routes : /\ Len(r) \in 2..6 /\ r[1] \in {"auth", "account"}
                               /\ Len(<<"api", "v1">> \o r) = 2 + Len(r) /\ (<<"api", "v1">> \o r)[1] = "api"
                               /\ Len(<<"v1">> \o r) = 1 + Len(r) /\ (<<"v1">> \o r)[2] = r[1]
  <2>1. \A r \in account_routes : Len(r) \in 2..6
    BY DEF account_routes
  <2>2. \A r \in account_routes : r[1] \in {"auth", "account"}
    BY DEF account_routes
  <2>3. \A r \in account_routes : Len(<<"api", "v1">> \o r) = 2 + Len(r) /\ Len(<<"v1">> \o r) = 1 + Len(r)
    BY DEF account_routes
  <2>4. \A r \in account_routes : (<<"api", "v1">> \o r)[1] = "api"
    BY DEF account_routes
  <2>5. \A r \in account_routes : (<<"v1">> \o r)[2] = r[1]
    BY DEF account_routes
  <2> QED
    BY <2>1, <2>2, <2>3, <2>4, <2>5, Zenon
<1>2. /\ Len(at) \in Nat /\ Len(at) >= 2
      /\ at[1] = "api" \/ at[2] \in {"auth", "account", "session", "me"}
  BY <1>1 DEF AccountRoutes
<1>3. Len(segs) >= Len(at) /\ \A i \in 1..Len(at) : at[i] \in Literals => segs[i] = at[i]
  BY <1>2, MatchSays
<1>4. {"api", "auth", "account", "session", "me"} \subseteq Literals
  BY DEF Literals
<1>5. \A m, n \in Nat : m >= n /\ n >= 2 => m # 1
  OBVIOUS
<1>6. Len(segs) # 1
  BY <1>2, <1>3, <1>5, Zenon
<1>7. segs[1] = "api" \/ segs[2] \in {"auth", "account", "session", "me"}
  BY <1>2, <1>3, <1>4
<1> QED
  BY <1>6, <1>7

\* A name belongs to one machine route.
LEMMA NamesAreDistinct ==
    ASSUME NEW r \in MachineRoutes, NEW x \in MachineRoutes, r.name = x.name
    PROVE  x = r
BY DEF MachineRoutes, Route

\* What the boundary lets through is no account route; the machine route it
\* reaches, if any, is the one the boundary named; and it is reached when the
\* path has no slash at its end and the method is not OPTIONS.
LEMMA AllowedIsMachine ==
    ASSUME NEW q, Len(q.path.segs) \in Nat, NEW t \in RegistryTable, Matches(t.at, q.path.segs)
    PROVE  /\ ~ \E at \in AccountRoutes : Matches(at, q.path.segs)
           /\ \A r \in Reached(MachineRoutes, q) : r.name = t.name /\ q.method \in t.serves
           /\ q.method \in t.serves /\ q.method # "OPTIONS" /\ ~q.path.trailing => Reached(MachineRoutes, q) # {}
<1> DEFINE segs == q.path.segs
<1>1. PICK r \in MachineRoutes : StandsFor(t, r, segs)
  BY EntryHasRoute
<1>2. r.name = t.name /\ Matches(r.at, segs)
  BY <1>1 DEF StandsFor
<1>3. ASSUME NEW at \in AccountRoutes, Matches(at, segs) PROVE FALSE
  <2>1. Len(segs) # 1 /\ (segs[1] = "api" \/ segs[2] \in {"auth", "account", "session", "me"})
    BY <1>3, AccountRoutesAreApart
  <2>2. \/ Len(segs) = 1
        \/ /\ segs[1] = "v1"
           /\ segs[2] \in {"packages", "orgs", "search", "storage", "resolutions", "artifacts",
                          "files", "mirrors"}
    BY <1>2, RoutesAreUnambiguous
  <2>3. segs[1] = "v1" /\ segs[2] \notin {"auth", "account", "session", "me"}
    BY <2>1, <2>2
  <2> QED
    BY <2>1, <2>3
<1>4. ASSUME NEW x \in Reached(MachineRoutes, q) PROVE x.name = t.name /\ q.method \in t.serves
  <2>1. x \in MachineRoutes /\ Matches(x.at, segs) /\ Handler(q.method) \in x.serves
    BY DEF Reached
  <2>2. x.name = NameOf(segs) /\ r.name = NameOf(segs)
    BY <1>2, <2>1, RoutesAreUnambiguous
  <2>3. x = r
    BY <1>1, <2>1, <2>2, NamesAreDistinct
  <2> QED
    BY <1>1, <1>2, <2>1, <2>3 DEF StandsFor
<1>5. ASSUME q.method \in t.serves, q.method # "OPTIONS", ~q.path.trailing
      PROVE  r \in Reached(MachineRoutes, q)
  BY <1>1, <1>2, <1>5 DEF StandsFor, Reached
<1> QED
  BY <1>3, <1>4, <1>5

\* registry_host.rs in front of routes/mod.rs and account_router.rs, for every
\* path, method and host a request may name: on a registry host the boundary
\* and the routers agree on what is served, under which name, and by which
\* methods.
THEOREM Boundary == DecideSpec => []RegistryHostIsMachineOnly
<1>1. DecideInv => RegistryHostIsMachineOnly
  <2> SUFFICES ASSUME DecideInv, Decided("host") PROVE BoundaryAgrees(input, verdict[1])
    BY DEF RegistryHostIsMachineOnly
  <2> DEFINE q == input
             d == verdict[1]
             routes == registry_route(q.path)
             reached == Reached(MachineRoutes, q)
  <2>1. q \in Requests /\ d = decide(q)
    BY DecidedIsRight DEF Inputs, Verdicts
  <2>2. Len(q.path.segs) \in Nat
    BY <2>1, RequestsAssumption
  <2>3. \A t \in routes : t \in RegistryTable /\ Matches(t.at, q.path.segs)
    BY DEF registry_route
  <2>4. CASE ~is_registry_host(q)
    <3>1. d.verdict = "bypass"
      BY <2>1, <2>4 DEF decide
    <3> QED
      BY <2>4, <3>1 DEF BoundaryAgrees
  <2>5. CASE is_registry_host(q) /\ routes = {}
    <3>1. d.verdict = "reject_route"
      BY <2>1, <2>5 DEF decide
    <3>2. ASSUME NEW r \in reached, Names(q.path, r), ~q.path.refused, q.path.rooted
          PROVE  r.name \in OffTheRegistryHost
      <4>1. r \in MachineRoutes /\ Matches(r.at, q.path.segs)
        BY DEF Reached
      <4>2. \A t \in RegistryTable : ~Matches(t.at, q.path.segs)
        BY <2>5, <3>2 DEF registry_route
      <4> QED
        BY <3>2, <4>1, <4>2, RoutesAreListed
    <3>3. \A r \in reached : \/ r.name \in OffTheRegistryHost \/ ~Names(q.path, r)
                             \/ q.path.refused \/ ~q.path.rooted
      BY <3>2
    <3> QED
      BY <3>1, <3>3 DEF BoundaryAgrees
  <2>6. CASE is_registry_host(q) /\ routes # {}
    <3> DEFINE t == CHOOSE r \in routes : TRUE
    <3>1. t \in routes
      BY <2>6
    <3>2. d = [verdict |-> IF q.method \in t.serves THEN "allow" ELSE "reject_method", route |-> t.name]
      BY <2>1, <2>6 DEF decide
    <3> HIDE DEF t
    <3>3. t \in RegistryTable /\ Matches(t.at, q.path.segs)
      BY <2>3, <3>1
    <3>4. /\ ~ \E at \in AccountRoutes : Matches(at, q.path.segs)
          /\ \A r \in reached : r.name = t.name /\ q.method \in t.serves
          /\ q.method \in t.serves /\ q.method # "OPTIONS" /\ ~q.path.trailing => reached # {}
      BY <2>2, <3>3, AllowedIsMachine
    <3>5. CASE q.method \in t.serves
      <4>1. d.verdict = "allow" /\ d.route = t.name
        BY <3>2, <3>5
      <4> QED
        BY <3>4, <3>5, <4>1 DEF BoundaryAgrees
    <3>6. CASE q.method \notin t.serves
      <4>1. d.verdict = "reject_method"
        BY <3>2, <3>6
      <4>2. reached = {}
        BY <3>4, <3>6
      <4> QED
        BY <4>1, <4>2 DEF BoundaryAgrees
    <3> QED
      BY <3>5, <3>6
  <2> QED
    BY <2>4, <2>5, <2>6
<1> QED
  BY <1>1, Deciding, PTL

====
