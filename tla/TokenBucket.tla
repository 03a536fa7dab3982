----------------------------- MODULE TokenBucket -----------------------------
(***************************************************************************)
(* What a rate limiter owes every credential: a bucket of Capacity units   *)
(* that refills at Rate units a tick, and Unit units to pay for each       *)
(* request let through.  Nothing is ever forgotten here and no credential  *)
(* is ever out of room; refusing is always allowed.                        *)
(***************************************************************************)
EXTENDS Integers

CONSTANTS Keys, Capacity, Rate, Unit,
          Delays  \* how far the clock may move in one step

VARIABLES
    time,    \* when the buckets were last brought up to date
    balance, \* units each credential has left
    allowed  \* requests of each credential let through

bucketVars == <<time, balance, allowed>>

AtMost(n, bound) == IF n <= bound THEN n ELSE bound

Filled(d) == [k \in Keys |-> AtMost(balance[k] + d * Rate, Capacity)]

BucketInit ==
    /\ time = 0
    /\ balance = [k \in Keys |-> Capacity]
    /\ allowed = [k \in Keys |-> 0]

\* d ticks pass.
Elapse(d) ==
    /\ time' = time + d
    /\ balance' = Filled(d)
    /\ UNCHANGED allowed

\* d ticks pass and a request of k is let through.
Grant(k, d) ==
    /\ time' = time + d
    /\ Filled(d)[k] >= Unit
    /\ balance' = [Filled(d) EXCEPT ![k] = @ - Unit]
    /\ allowed' = [allowed EXCEPT ![k] = @ + 1]

BucketNext == \E d \in Delays : Elapse(d) \/ \E k \in Keys : Grant(k, d)

BucketSpec == BucketInit /\ [][BucketNext]_bucketVars

\* Requests let through plus the balance grow no faster than Rate, and the
\* balance stays within the capacity: so any window of t ticks, wherever it
\* begins, lets at most (Capacity + t * Rate) / Unit requests through.
Worth(k) == allowed[k] * Unit + balance[k]
WindowBound ==
    [][\A k \in Keys : /\ Worth(k)' - Worth(k) <= Rate * (time' - time)
                       /\ balance'[k] \in 0..Capacity]_bucketVars

=============================================================================
