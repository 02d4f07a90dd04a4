----------------------------- MODULE RateLimiter -----------------------------
(***************************************************************************)
(* internal/server/ratelimit.go: the token buckets that throttle attempts  *)
(* to authenticate.  Time is in ticks; a bucket gains one unit a tick, so  *)
(* that the refill of 1/12 token a second is Cost = 12 units for a token   *)
(* and ticks of a second.  Buckets exist from the first attempt of a client *)
(* until a sweep finds them idle and full.                                 *)
(***************************************************************************)
EXTENDS Integers

CONSTANTS
  Clients,   \* the keys of clientKey: addresses, or /64 prefixes
  Capacity,  \* capacity, in units
  Cost,      \* the units of one attempt
  Minute,    \* the least time between sweeps, and the idle time that allows eviction
  MaxTime    \* bound: ticks in a behaviour

ASSUME LimiterConstants ==
  /\ Capacity \in Nat \ {0} /\ Cost \in Nat \ {0} /\ Minute \in Nat /\ MaxTime \in Nat

VARIABLES
  clock,      \* rl.now()
  buckets,    \* the clients that have a bucket: units, and when they were counted
  lastSweep,
  answer,     \* the client and outcome of the last attempt
  spent       \* history: the units each client's allowed attempts have cost

limiter == <<clock, buckets, lastSweep, answer, spent>>

Lesser(a, b) == IF a <= b THEN a ELSE b

LimiterInit ==
  /\ clock = 0
  /\ buckets = [c \in {} |-> [tokens |-> 0, last |-> 0]]
  /\ lastSweep = 0 - Minute      \* the zero time: the first attempt sweeps
  /\ answer = <<>>
  /\ spent = [c \in Clients |-> 0]

Known(c) == c \in DOMAIN buckets

\* What the bucket of c holds now.
Refilled(c) == IF Known(c) THEN Lesser(Capacity, buckets[c].tokens + (clock - buckets[c].last)) ELSE Capacity

\* Evicts as soon as a bucket has been idle.
SweptIdle(c) ==
  /\ clock - lastSweep >= Minute
  /\ Known(c)
  /\ clock - buckets[c].last > Minute

\* sweep, run for another client: a bucket with nothing to remember.
Swept(c) ==
  /\ clock - lastSweep >= Minute
  /\ Known(c)
  /\ clock - buckets[c].last > Minute
  /\ buckets[c].tokens + (clock - buckets[c].last) >= Capacity

\* allow: refill, sweep, and take a token if there is one.
Allow(c) ==
  LET ok == Refilled(c) >= Cost
      kept == {d \in DOMAIN buckets : d # c /\ ~Swept(d)} \cup {c}
  IN /\ buckets' = [d \in kept |->
          IF d = c THEN [tokens |-> IF ok THEN Refilled(c) - Cost ELSE Refilled(c), last |-> clock]
          ELSE buckets[d]]
     /\ lastSweep' = IF clock - lastSweep >= Minute THEN clock ELSE lastSweep
     /\ answer' = <<c, ok>>
     /\ spent' = [spent EXCEPT ![c] = @ + (IF ok THEN Cost ELSE 0)]
     /\ UNCHANGED clock

Tick ==
  /\ clock < MaxTime
  /\ clock' = clock + 1
  /\ UNCHANGED <<buckets, lastSweep, answer, spent>>

LimiterNext == Tick \/ \E c \in Clients : Allow(c)

LimiterSpec == LimiterInit /\ [][LimiterNext]_limiter

-----------------------------------------------------------------------------
\* The buckets are those of an ideal limiter that forgets nobody.
Ideal == INSTANCE IdealLimiter WITH level <- [c \in Clients |-> Refilled(c)]

\* However attempts, pauses and sweeps alternate, every attempt gets the answer
\* it would get if no bucket were ever evicted.
SweepsUnseen == Ideal!Spec

\* No client ever gets more out of its bucket than a full bucket and what time
\* has added to it: at most Capacity / Cost attempts at once and one every Cost
\* ticks after that, across evictions ("~5 burst, refilling 1 attempt / 12s").
RateBound == \A c \in Clients : spent[c] + Refilled(c) <= Capacity + clock

\* The map does not grow with the clients of the past: all it has were active
\* shortly before the last sweep, or after it.
BucketsRecent ==
  \A c \in DOMAIN buckets : buckets[c].last + Minute >= lastSweep \/ buckets[c].last + Capacity > lastSweep
=============================================================================
