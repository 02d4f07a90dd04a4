---------------------------- MODULE LoginProofs ----------------------------
(***************************************************************************)
(* Authentication for any number of browsers, sessions and key rotations:  *)
(* the rate limit holds of everything the server does, discoveryMu is held *)
(* by whoever fetches, and a session lives until it expires or is deleted, *)
(* and no longer.                                                          *)
(***************************************************************************)
EXTENDS Login, FiniteSetTheorems, TLAPS

USE ZenonT(60)

-----------------------------------------------------------------------------
(* The limiter of internal/server/ratelimit.go by itself, for any clients,  *)
(* capacity, price and sweep interval: it evicts buckets, bounds every      *)
(* client, and answers as the ideal limiter that evicts nothing.            *)

\* What allow, sweep and the clock keep true: buckets are of clients, hold no
\* more than the capacity and were counted in the past, as was the last sweep.
LimiterInv ==
  /\ clock \in Nat
  /\ lastSweep \in Int /\ lastSweep <= clock
  /\ spent \in [Clients -> Nat]
  /\ DOMAIN buckets \subseteq Clients
  /\ \A c \in DOMAIN buckets :
       /\ buckets[c].tokens \in 0 .. Capacity
       /\ buckets[c].last \in 0 .. clock

\* A refilled bucket holds between nothing and its capacity (allow's min).
LEMMA RefilledType ==
  ASSUME LimiterInv, NEW c \in Clients
  PROVE  Refilled(c) \in 0 .. Capacity
BY SMTT(60), LimiterConstants DEF LimiterInv, Refilled, Known, Lesser

\* Time alone adds one unit to every bucket that is not full, known or evicted.
LEMMA TickRefills ==
  ASSUME LimiterInv, Tick, NEW c \in Clients
  PROVE  Refilled(c)' = Lesser(Capacity, Refilled(c) + 1)
<1>1. clock' = clock + 1 /\ buckets' = buckets /\ clock \in Nat /\ Capacity \in Nat
  BY LimiterConstants DEF Tick, LimiterInv
<1>2. CASE Known(c)
  <2>1. buckets[c].tokens \in Nat /\ buckets[c].last \in Nat
    BY SMTT(60), <1>2, LimiterConstants DEF LimiterInv, Known
  <2> QED
    BY SMTT(60), <1>1, <1>2, <2>1 DEF Refilled, Known, Lesser
<1>3. CASE ~Known(c)
  BY SMTT(60), <1>1, <1>3 DEF Refilled, Known, Lesser
<1> QED
  BY <1>2, <1>3

\* An attempt costs its client's bucket the price or nothing, and no other
\* bucket anything, although a sweep may evict them (allow and sweep).
LEMMA AllowTakes ==
  ASSUME LimiterInv, NEW c \in Clients, Allow(c), NEW d \in Clients
  PROVE  Refilled(d)' = IF d = c /\ Refilled(c) >= Cost THEN Refilled(c) - Cost ELSE Refilled(d)
<1> DEFINE kept == {e \in DOMAIN buckets : e # c /\ ~Swept(e)} \cup {c}
           paid == IF Refilled(c) >= Cost THEN Refilled(c) - Cost ELSE Refilled(c)
<1>1. /\ DOMAIN buckets' = kept
      /\ \A e \in kept : buckets'[e] = IF e = c THEN [tokens |-> paid, last |-> clock] ELSE buckets[e]
      /\ clock' = clock
  BY DEF Allow
<1>2. Refilled(c) \in 0 .. Capacity /\ Cost \in Nat /\ Capacity \in Nat /\ clock \in Nat
  BY RefilledType, LimiterConstants DEF LimiterInv
<1>3. CASE d = c
  <2>1. Known(d)' /\ buckets'[d].tokens = paid /\ buckets'[d].last = clock
    BY SMTT(60), <1>1, <1>3 DEF Known
  <2>2. paid \in 0 .. Capacity
    BY SMTT(60), <1>2
  <2> HIDE DEF paid
  <2>3. Refilled(d)' = paid
    BY SMTT(60), <1>1, <1>2, <2>1, <2>2 DEF Refilled, Lesser
  <2> QED
    BY <1>3, <2>3 DEF paid
<1>4. CASE d # c /\ d \in kept
  <2>1. Known(d) /\ Known(d)' /\ buckets'[d] = buckets[d]
    BY <1>1, <1>4 DEF Known
  <2> QED
    BY <1>1, <1>4, <2>1 DEF Refilled
<1>5. CASE d # c /\ d \notin kept /\ Known(d)
  <2>1. Swept(d) /\ ~Known(d)'
    BY <1>1, <1>5 DEF Known
  <2>2. buckets[d].tokens \in Nat /\ buckets[d].last \in Nat
    BY SMTT(60), <1>5, LimiterConstants DEF LimiterInv, Known
  <2>3. Refilled(d) = Capacity
    BY <1>2, <1>5, <2>1, <2>2 DEF Swept, Refilled, Lesser
  <2> QED
    BY <1>5, <2>1, <2>3 DEF Refilled
<1>6. CASE d # c /\ d \notin kept /\ ~Known(d)
  <2>1. ~Known(d)'
    BY <1>1, <1>6 DEF Known
  <2> QED
    BY <1>6, <2>1 DEF Refilled
<1> QED
  BY <1>3, <1>4, <1>5, <1>6

-----------------------------------------------------------------------------
\* What a history of attempts may hold: the type facts, the bound on what was
\* spent, and the age of the buckets.
IInv == LimiterInv /\ RateBound /\ BucketsRecent

\* The map and the clock are as LimiterInv says after every attempt and tick.
LEMMA LimiterTypes ==
  ASSUME LimiterInv, [LimiterNext]_limiter
  PROVE  LimiterInv'
<1>1. CASE Tick
  BY SMTT(60), <1>1 DEF Tick, LimiterInv
<1>2. ASSUME NEW c \in Clients, Allow(c) PROVE LimiterInv'
  <2> DEFINE kept == {e \in DOMAIN buckets : e # c /\ ~Swept(e)} \cup {c}
             paid == IF Refilled(c) >= Cost THEN Refilled(c) - Cost ELSE Refilled(c)
  <2>1. /\ DOMAIN buckets' = kept
        /\ \A e \in kept : buckets'[e] = IF e = c THEN [tokens |-> paid, last |-> clock] ELSE buckets[e]
    BY <1>2 DEF Allow
  <2>2. /\ clock' = clock
        /\ lastSweep' \in {clock, lastSweep}
        /\ spent' = [spent EXCEPT ![c] = @ + (IF Refilled(c) >= Cost THEN Cost ELSE 0)]
    BY <1>2 DEF Allow
  <2>3. paid \in 0 .. Capacity
    BY SMTT(60), RefilledType, LimiterConstants
  <2>4. spent' \in [Clients -> Nat]
    BY SMTT(60), <2>2, LimiterConstants DEF LimiterInv
  <2>5. kept \subseteq Clients
    BY DEF LimiterInv
  <2>6. ASSUME NEW e \in kept
        PROVE  buckets'[e].tokens \in 0 .. Capacity /\ buckets'[e].last \in 0 .. clock
    <3> HIDE DEF paid
    <3>1. CASE e = c
      BY SMTT(60), <2>1, <2>3, <3>1 DEF LimiterInv
    <3>2. CASE e # c
      BY <2>1, <3>2 DEF LimiterInv
    <3> QED
      BY <3>1, <3>2
  <2> HIDE DEF kept, paid
  <2> QED
    BY SMTT(60), <2>1, <2>2, <2>4, <2>5, <2>6 DEF LimiterInv
<1>3. CASE UNCHANGED limiter
  BY <1>3 DEF limiter, LimiterInv
<1> QED
  BY <1>1, <1>2, <1>3 DEF LimiterNext

\* What an attempt costs comes out of the bucket, what a tick adds to the bucket
\* it adds to the bound (allow).
LEMMA BoundKept ==
  ASSUME LimiterInv, RateBound, [LimiterNext]_limiter
  PROVE  RateBound'
<1> SUFFICES ASSUME NEW d \in Clients
             PROVE  spent'[d] + Refilled(d)' <= Capacity + clock'
  BY DEF RateBound
<1>0. /\ Refilled(d) \in Nat /\ Refilled(d) <= Capacity /\ spent[d] \in Nat /\ clock \in Nat
      /\ Capacity \in Nat /\ Cost \in Nat
      /\ spent[d] + Refilled(d) <= Capacity + clock
  BY SMTT(60), RefilledType, LimiterConstants DEF LimiterInv, RateBound
<1>1. CASE Tick
  <2>1. Refilled(d)' = Lesser(Capacity, Refilled(d) + 1)
    BY <1>1, TickRefills
  <2>2. spent' = spent /\ clock' = clock + 1
    BY <1>1 DEF Tick
  <2> QED
    BY SMTT(60), <1>0, <2>1, <2>2 DEF Lesser
<1>2. ASSUME NEW c \in Clients, Allow(c) PROVE spent'[d] + Refilled(d)' <= Capacity + clock'
  <2>1. Refilled(d)' = IF d = c /\ Refilled(c) >= Cost THEN Refilled(c) - Cost ELSE Refilled(d)
    BY <1>2, AllowTakes
  <2>2. spent' = [spent EXCEPT ![c] = @ + (IF Refilled(c) >= Cost THEN Cost ELSE 0)] /\ clock' = clock
    BY <1>2 DEF Allow
  <2>3. spent'[d] = IF d = c /\ Refilled(c) >= Cost THEN spent[d] + Cost ELSE spent[d]
    BY SMTT(60), <1>0, <2>2 DEF LimiterInv
  <2> QED
    BY SMTT(60), <1>0, <2>1, <2>2, <2>3
<1>3. CASE UNCHANGED limiter
  BY <1>0, <1>3 DEF limiter, Refilled, Known
<1> QED
  BY <1>1, <1>2, <1>3 DEF LimiterNext

\* A sweep leaves no bucket that was idle and full; between sweeps buckets are
\* only added or refreshed (sweep).
LEMMA RecentKept ==
  ASSUME LimiterInv, BucketsRecent, [LimiterNext]_limiter
  PROVE  BucketsRecent'
<1>1. CASE Tick
  BY <1>1 DEF Tick, BucketsRecent
<1>2. ASSUME NEW c \in Clients, Allow(c) PROVE BucketsRecent'
  <2> DEFINE kept == {e \in DOMAIN buckets : e # c /\ ~Swept(e)} \cup {c}
  <2>1. /\ DOMAIN buckets' = kept
        /\ \A e \in kept : buckets'[e].last = IF e = c THEN clock ELSE buckets[e].last
        /\ lastSweep' = IF clock - lastSweep >= Minute THEN clock ELSE lastSweep
    BY <1>2 DEF Allow
  <2>2. SUFFICES ASSUME NEW e \in kept
                 PROVE  buckets'[e].last + Minute >= lastSweep' \/ buckets'[e].last + Capacity > lastSweep'
    BY <2>1 DEF BucketsRecent
  <2>3. clock \in Nat /\ lastSweep \in Int /\ lastSweep <= clock /\ Minute \in Nat /\ Capacity \in Nat
    BY LimiterConstants DEF LimiterInv
  <2>4. CASE e = c
    BY SMTT(60), <2>1, <2>3, <2>4
  <2>5. CASE e # c
    <3>1. e \in DOMAIN buckets /\ ~Swept(e) /\ buckets'[e].last = buckets[e].last
      BY <2>1, <2>5
    <3>2. buckets[e].tokens \in Nat /\ buckets[e].last \in Nat
      BY SMTT(60), <3>1, LimiterConstants DEF LimiterInv
    <3>3. CASE clock - lastSweep >= Minute
      BY SMTT(60), <2>1, <2>3, <3>1, <3>2, <3>3 DEF Swept, Known
    <3>4. CASE ~(clock - lastSweep >= Minute)
      BY <2>1, <2>3, <3>1, <3>4 DEF BucketsRecent
    <3> QED
      BY <3>3, <3>4
  <2> QED
    BY <2>4, <2>5
<1>3. CASE UNCHANGED limiter
  BY <1>3 DEF limiter, BucketsRecent
<1> QED
  BY <1>1, <1>2, <1>3 DEF LimiterNext

\* All three hold initially: no bucket, nothing spent.
LEMMA LimiterStarts == LimiterInit => IInv
BY SMTT(60), LimiterConstants DEF LimiterInit, IInv, LimiterInv, RateBound, BucketsRecent, Refilled, Known

\* The invariant of all behaviours of the limiter.
THEOREM LimiterInvariant == LimiterSpec => []IInv
<1>1. IInv /\ [LimiterNext]_limiter => IInv'
  BY LimiterTypes, BoundKept, RecentKept DEF IInv
<1> QED
  BY <1>1, LimiterStarts, PTL DEF LimiterSpec

\* No client is ever allowed more than a full bucket and what time has added to
\* it, however the sweeps of other clients' attempts evict its bucket (allow).
THEOREM LimiterBounds == LimiterSpec => []RateBound
BY LimiterInvariant, PTL DEF IInv

\* The map of buckets holds only clients that were active shortly before the last
\* sweep or after it (sweep).
THEOREM LimiterForgets == LimiterSpec => []BucketsRecent
BY LimiterInvariant, PTL DEF IInv

\* Evictions cannot be observed: the limiter implements the ideal one, with the
\* level of a bucket that is not there at its capacity (sweep).
THEOREM LimiterImplements == LimiterSpec => SweepsUnseen
<1>1. LimiterInit => Ideal!Init
  BY DEF LimiterInit, Ideal!Init, Refilled, Known
<1>2. ASSUME LimiterInv, [LimiterNext]_limiter
      PROVE  [Ideal!Next]_Ideal!ideal
  <2>1. CASE Tick
    <3>1. [c \in Clients |-> Refilled(c)]' = [c \in Clients |-> Lesser(Capacity, Refilled(c) + 1)]
      BY <1>2, <2>1, TickRefills
    <3>2. Ideal!Tick
      BY <2>1, <3>1 DEF Tick, Ideal!Tick, Ideal!Lesser, Lesser
    <3> QED
      BY <3>2 DEF Ideal!Next
  <2>2. ASSUME NEW c \in Clients, Allow(c) PROVE [Ideal!Next]_Ideal!ideal
    <3> DEFINE level == [d \in Clients |-> Refilled(d)]
    <3>1. \A d \in Clients :
            Refilled(d)' = IF d = c /\ Refilled(c) >= Cost THEN Refilled(c) - Cost ELSE Refilled(d)
      BY <1>2, <2>2, AllowTakes
    <3>2. level' = [level EXCEPT ![c] = IF @ >= Cost THEN @ - Cost ELSE @]
      BY <3>1
    <3>3. clock' = clock /\ answer' = <<c, level[c] >= Cost>>
      BY <2>2 DEF Allow
    <3>4. Ideal!Allow(c)
      BY <3>2, <3>3 DEF Ideal!Allow
    <3> QED
      BY <3>4 DEF Ideal!Next
  <2>3. CASE UNCHANGED limiter
    BY <2>3 DEF limiter, Ideal!ideal, Refilled, Known
  <2> QED
    BY <1>2, <2>1, <2>2, <2>3 DEF LimiterNext
<1> QED
  BY <1>1, <1>2, LimiterInvariant, PTL DEF LimiterSpec, SweepsUnseen, Ideal!Spec, IInv

-----------------------------------------------------------------------------
(* The limiter, as the middleware and the handlers use it.                  *)

\* Whatever the server does is an attempt, a tick, or nothing to the limiter.
LEMMA LimiterStep ==
  ASSUME [Next]_vars
  PROVE  [LimiterNext]_limiter
<1>1. CASE Tick /\ UNCHANGED <<mode, provider, store>>
  BY <1>1 DEF LimiterNext
<1>2. CASE Rotate \/ GarbageCollectSessions \/ \E id \in touches : TouchSession(id)
  BY <1>2 DEF Rotate, GarbageCollectSessions, TouchSession, Quiet
<1>3. ASSUME NEW b \in Clients, (\E good \in BOOLEAN : PasswordLogin(b, good)) \/ FailedBasic(b)
      PROVE  [LimiterNext]_limiter
  BY <1>3 DEF PasswordLogin, FailedBasic, LimiterNext
<1>4. ASSUME NEW b \in Clients, UseSession(b) \/ Logout(b) \/ OIDCStart(b) \/ OIDCCallback(b)
      PROVE  UNCHANGED limiter
  BY <1>4 DEF UseSession, Logout, OIDCStart, OIDCCallback, Quiet
<1>5. ASSUME NEW b \in Clients, Working(b)
      PROVE  UNCHANGED limiter
  BY <1>5 DEF Working, EnsureDiscovery, DiscoveryLock, Discover, Discovered, Exchange,
              VerifyIDToken, RefreshLock, Refetch, Refetched, Mint, Quiet
<1>6. CASE UNCHANGED vars
  BY <1>6 DEF vars
<1> QED
  BY <1>1, <1>2, <1>3, <1>4, <1>5, <1>6 DEF Next

\* The limiter inside the server is the limiter by itself.
THEOREM LoginLimiter == Spec => LimiterSpec
<1>1. Init => LimiterInit
  BY DEF Init
<1>2. [Next]_vars => [LimiterNext]_limiter
  BY LimiterStep
<1> QED
  BY <1>1, <1>2, PTL DEF Spec, LimiterSpec

\* Password logins and failed basic credentials together never get a client more
\* than its bucket and what time has added to it.
THEOREM LoginRateBound == Spec => []RateBound
BY LoginLimiter, LimiterBounds, PTL

\* Evictions stay unseen in the server too.
THEOREM LoginSweepsUnseen == Spec => SweepsUnseen
BY LoginLimiter, LimiterImplements, PTL

-----------------------------------------------------------------------------
(* discoveryMu.                                                             *)

Pcs == {"idle", "ensure", "lock", "discover", "discovered", "redirect", "token",
        "verify", "refresh", "refetch", "refetched", "mint"}

Flow == [pc : Pcs, back : {"idle", "redirect", "token"}, kid : Nat, got : SUBSET Nat,
         retried : BOOLEAN]

FlowInv == key \in Nat /\ flow \in [Clients -> Flow] /\ DiscoveryOnce

\* Steps that leave the provider alone.
LEMMA FlowUntouched ==
  ASSUME FlowInv, UNCHANGED provider
  PROVE  FlowInv'
BY DEF FlowInv, DiscoveryOnce, provider, cache

\* A step of one login that ends outside the fetches and leaves the lock, the
\* document and the key alone.
LEMMA FlowMoves ==
  ASSUME FlowInv, NEW b \in Clients, NEW f \in Flow,
         f.pc \notin {"discover", "discovered", "refetch", "refetched"},
         flow' = [flow EXCEPT ![b] = f], mutex' = mutex, doc' = doc, key' = key
  PROVE  FlowInv'
BY DEF FlowInv, DiscoveryOnce

\* A step that ends a fetch of the holder and releases discoveryMu.
LEMMA FlowReleases ==
  ASSUME FlowInv, NEW b \in Clients, NEW f \in Flow,
         f.pc \notin {"discover", "discovered", "refetch", "refetched"}, mutex = b,
         flow' = [flow EXCEPT ![b] = f], mutex' = Nobody, key' = key
  PROVE  FlowInv'
BY DEF FlowInv, DiscoveryOnce

\* A step of a login that holds discoveryMu or takes it when it is free.
LEMMA FlowHolds ==
  ASSUME FlowInv, NEW b \in Clients, NEW f \in Flow,
         mutex \in {Nobody, b}, f.pc \in {"discover", "discovered"} => ~doc,
         flow' = [flow EXCEPT ![b] = f], mutex' = b, doc' = doc, key' = key
  PROVE  FlowInv'
BY LoginConstants DEF FlowInv, DiscoveryOnce

\* Every step keeps whoever fetches behind discoveryMu (EnsureDiscovery,
\* refreshJWKS).
LEMMA FlowKept ==
  ASSUME FlowInv, [Next]_vars
  PROVE  FlowInv'
<1>1. CASE (Tick /\ UNCHANGED <<mode, provider, store>>) \/ GarbageCollectSessions
           \/ (\E id \in touches : TouchSession(id)) \/ UNCHANGED vars
  <2>1. UNCHANGED provider
    BY <1>1 DEF GarbageCollectSessions, TouchSession, vars
  <2> QED
    BY <2>1, FlowUntouched
<1>2. CASE Rotate
  <2>1. key' = key + 1 /\ UNCHANGED <<doc, mutex, flow>>
    BY <1>2 DEF Rotate
  <2> QED
    BY SMTT(60), <2>1 DEF FlowInv, DiscoveryOnce
<1>3. ASSUME NEW b \in Clients,
             \/ \E good \in BOOLEAN : PasswordLogin(b, good)
             \/ FailedBasic(b) \/ UseSession(b) \/ Logout(b)
      PROVE  FlowInv'
  <2>1. UNCHANGED provider
    BY <1>3 DEF PasswordLogin, FailedBasic, UseSession, Logout
  <2> QED
    BY <2>1, FlowUntouched
<1>4. ASSUME NEW b \in Clients, OIDCStart(b) \/ OIDCCallback(b) \/ Working(b)
      PROVE  FlowInv'
  <2> DEFINE f == flow[b]
  <2>0. f \in Flow /\ NoFlow \in Flow /\ key \in Nat
    BY DEF FlowInv, Flow, NoFlow, Pcs
  <2>0a. flow \in [Clients -> Flow] /\ DiscoveryOnce
    BY DEF FlowInv
  <2>0b. Published \in SUBSET Nat
    BY SMTT(60), <2>0 DEF Published
  <2>1. CASE End(b) /\ mutex' = mutex /\ doc' = doc /\ key' = key
    BY <2>0, <2>1, FlowMoves DEF End, NoFlow
  <2>2. CASE OIDCStart(b)
    <3> DEFINE g == [NoFlow EXCEPT !.pc = "ensure", !.back = "redirect"]
    <3>1. g \in Flow /\ g.pc = "ensure"
      BY DEF Flow, NoFlow, Pcs
    <3>2. flow' = [flow EXCEPT ![b] = g] /\ mutex' = mutex /\ doc' = doc /\ key' = key
      BY <2>2 DEF OIDCStart, cache
    <3> HIDE DEF g
    <3> QED
      BY <3>1, <3>2, FlowMoves
  <2>3. CASE OIDCCallback(b)
    <3> DEFINE g == [f EXCEPT !.pc = "ensure", !.back = "token"]
    <3>1. g \in Flow /\ g.pc = "ensure"
      BY <2>0 DEF Flow, Pcs
    <3>2. /\ flow' = [flow EXCEPT ![b] = g] \/ End(b)
          /\ mutex' = mutex /\ doc' = doc /\ key' = key
      BY <2>0a, <2>3 DEF OIDCCallback, cache
    <3> HIDE DEF g
    <3> QED
      BY <2>1, <3>1, <3>2, FlowMoves
  <2>4. CASE EnsureDiscovery(b)
    <3> DEFINE g == [f EXCEPT !.pc = IF doc THEN f.back ELSE "lock"]
    <3>1. g \in Flow /\ g.pc \in {"idle", "redirect", "token", "lock"}
      BY <2>0 DEF Flow, Pcs
    <3>2. flow' = [flow EXCEPT ![b] = g] /\ mutex' = mutex /\ doc' = doc /\ key' = key
      BY <2>0a, <2>4 DEF EnsureDiscovery, Goto, cache
    <3> HIDE DEF g
    <3> QED
      BY <3>1, <3>2, FlowMoves
  <2>5. CASE DiscoveryLock(b)
    <3> DEFINE g == [f EXCEPT !.pc = IF doc THEN f.back ELSE "discover"]
    <3>1. g \in Flow /\ g.pc \in {"idle", "redirect", "token", "discover"} /\ (g.pc = "discover" => ~doc)
      BY <2>0 DEF Flow, Pcs
    <3>2. /\ flow' = [flow EXCEPT ![b] = g] /\ doc' = doc /\ key' = key
          /\ mutex = Nobody /\ mutex' = IF doc THEN mutex ELSE b
      BY <2>0a, <2>5 DEF DiscoveryLock, Goto, cache
    <3>3. doc => g.pc # "discover"
      BY <3>1
    <3> HIDE DEF g
    <3>4. CASE doc
      BY <3>1, <3>2, <3>3, <3>4, FlowMoves
    <3>5. CASE ~doc
      BY <3>1, <3>2, <3>5, FlowHolds
    <3> QED
      BY <3>4, <3>5
  <2>6. CASE Discover(b)
    <3>1. mutex = b /\ ~doc
      BY <2>0a, <2>6 DEF Discover, At, DiscoveryOnce
    <3> DEFINE g == [f EXCEPT !.pc = "discovered", !.got = Published]
    <3>2. g \in Flow
      BY <2>0, <2>0b DEF Flow, Pcs
    <3>3. /\ doc' = doc /\ key' = key
          /\ \/ flow' = [flow EXCEPT ![b] = g] /\ mutex' = b
             \/ flow' = [flow EXCEPT ![b] = NoFlow] /\ mutex' = Nobody
      BY <2>0a, <2>6, <3>1 DEF Discover, End, cache
    <3> HIDE DEF g
    <3>4. CASE flow' = [flow EXCEPT ![b] = g] /\ mutex' = b
      BY <3>1, <3>2, <3>3, <3>4, FlowHolds
    <3>5. CASE flow' = [flow EXCEPT ![b] = NoFlow] /\ mutex' = Nobody
      BY <2>0, <3>1, <3>3, <3>5, FlowReleases DEF NoFlow
    <3> QED
      BY <3>3, <3>4, <3>5
  <2>7. CASE Discovered(b)
    <3>1. mutex = b
      BY <2>0a, <2>7 DEF Discovered, At, DiscoveryOnce
    <3> DEFINE g == [f EXCEPT !.pc = f.back, !.got = {}]
    <3>2. g \in Flow /\ g.pc \in {"idle", "redirect", "token"}
      BY <2>0 DEF Flow, Pcs
    <3>3. key' = key /\ mutex' = Nobody /\ flow' = [flow EXCEPT ![b] = g]
      BY <2>0a, <2>7 DEF Discovered
    <3> HIDE DEF g
    <3> QED
      BY <3>1, <3>2, <3>3, FlowReleases
  <2>8. CASE Exchange(b)
    <3> DEFINE g == [f EXCEPT !.pc = "verify", !.kid = key]
    <3>1. g \in Flow /\ g.pc = "verify"
      BY <2>0 DEF Flow, Pcs
    <3>2. /\ flow' = [flow EXCEPT ![b] = g] \/ End(b)
          /\ mutex' = mutex /\ doc' = doc /\ key' = key
      BY <2>0a, <2>8 DEF Exchange, cache
    <3> HIDE DEF g
    <3> QED
      BY <2>1, <3>1, <3>2, FlowMoves
  <2>9. CASE VerifyIDToken(b)
    <3> DEFINE g(pc) == [f EXCEPT !.pc = pc]
    <3>1. \A pc \in {"mint", "refresh"} : g(pc) \in Flow /\ g(pc).pc = pc
      BY <2>0 DEF Flow, Pcs
    <3>2. /\ (\E pc \in {"mint", "refresh"} : flow' = [flow EXCEPT ![b] = g(pc)]) \/ End(b)
          /\ mutex' = mutex /\ doc' = doc /\ key' = key
      BY <2>0a, <2>9 DEF VerifyIDToken, Goto, cache
    <3> HIDE DEF g
    <3> QED
      BY <2>1, <3>1, <3>2, FlowMoves
  <2>10. CASE RefreshLock(b)
    <3> DEFINE g == [f EXCEPT !.pc = "refetch"]
    <3>1. g \in Flow /\ g.pc = "refetch"
      BY <2>0 DEF Flow, Pcs
    <3>2. /\ doc' = doc /\ key' = key /\ mutex = Nobody
          /\ \/ End(b) /\ mutex' = mutex
             \/ flow' = [flow EXCEPT ![b] = g] /\ mutex' = b
      BY <2>0a, <2>10 DEF RefreshLock, Goto, cache
    <3> HIDE DEF g
    <3> QED
      BY <2>1, <3>1, <3>2, FlowHolds
  <2>11. CASE Refetch(b)
    <3>1. mutex = b
      BY <2>0a, <2>11 DEF Refetch, At, DiscoveryOnce
    <3> DEFINE g == [f EXCEPT !.pc = "refetched", !.got = Published]
    <3>2. g \in Flow /\ g.pc = "refetched"
      BY <2>0, <2>0b DEF Flow, Pcs
    <3>3. /\ doc' = doc /\ key' = key
          /\ \/ flow' = [flow EXCEPT ![b] = g] /\ mutex' = b
             \/ flow' = [flow EXCEPT ![b] = NoFlow] /\ mutex' = Nobody
      BY <2>0a, <2>11, <3>1 DEF Refetch, End
    <3> HIDE DEF g
    <3>4. CASE flow' = [flow EXCEPT ![b] = g] /\ mutex' = b
      BY <3>1, <3>2, <3>3, <3>4, FlowHolds
    <3>5. CASE flow' = [flow EXCEPT ![b] = NoFlow] /\ mutex' = Nobody
      BY <2>0, <3>1, <3>3, <3>5, FlowReleases DEF NoFlow
    <3> QED
      BY <3>3, <3>4, <3>5
  <2>12. CASE Refetched(b)
    <3>1. mutex = b
      BY <2>0a, <2>12 DEF Refetched, At, DiscoveryOnce
    <3> DEFINE g == [f EXCEPT !.pc = "verify", !.retried = TRUE, !.got = {}]
    <3>2. g \in Flow /\ g.pc = "verify"
      BY <2>0 DEF Flow, Pcs
    <3>3. key' = key /\ mutex' = Nobody /\ flow' = [flow EXCEPT ![b] = g]
      BY <2>0a, <2>12 DEF Refetched
    <3> HIDE DEF g
    <3> QED
      BY <3>1, <3>2, <3>3, FlowReleases
  <2>13. CASE Mint(b)
    <3>1. End(b) /\ mutex' = mutex /\ doc' = doc /\ key' = key
      BY <2>13 DEF Mint, cache
    <3> QED
      BY <2>1, <3>1
  <2> HIDE DEF f
  <2> QED
    BY <1>4, <2>2, <2>3, <2>4, <2>5, <2>6, <2>7, <2>8, <2>9, <2>10, <2>11, <2>12, <2>13 DEF Working
<1> QED
  BY <1>1, <1>2, <1>3, <1>4 DEF Next

\* Whoever fetches from the identity provider holds discoveryMu, and nobody
\* fetches the discovery document once it is there.
THEOREM LoginDiscovery == Spec => []DiscoveryOnce
<1>1. Init => FlowInv
  BY SMTT(60) DEF Init, FlowInv, Flow, Pcs, NoFlow, DiscoveryOnce
<1>2. FlowInv /\ [Next]_vars => FlowInv'
  BY FlowKept
<1> QED
  BY <1>1, <1>2, PTL DEF Spec, FlowInv

-----------------------------------------------------------------------------
(* Sessions.                                                                *)

SessionRows == [id : Nat, expires : Nat, seen : Nat]

\* Session ids count the sessions minted, so a new one was never ended; and what
\* SessionsKept says of a session, with the row it has.
SessionInv ==
  /\ clock \in Nat
  /\ IsFiniteSet(minted) /\ minted \subseteq SessionRows /\ sessions \subseteq SessionRows
  /\ \A m \in minted : m.id \in 1 .. Cardinality(minted)
  /\ cookie \in [Clients -> 0 .. Cardinality(minted)]
  /\ ended \subseteq 1 .. Cardinality(minted)
  /\ NoResurrection
  /\ \A m \in minted : m.id \notin ended /\ m.expires >= clock =>
       \E s \in sessions : s.id = m.id /\ s.expires = m.expires

\* A touch changes neither the id nor the expiry of a row (TouchSession).
LEMMA SeenRow ==
  ASSUME clock \in Nat, NEW s \in SessionRows, NEW id
  PROVE  Seen(s, id) \in SessionRows /\ Seen(s, id).id = s.id /\ Seen(s, id).expires = s.expires
BY DEF Seen, SessionRows

\* mintSession: a new id, a row that lasts for the TTL.
LEMMA MintKeeps ==
  ASSUME SessionInv, NEW b \in Clients, MintSession(b), clock' = clock
  PROVE  SessionInv'
<1> DEFINE n == Cardinality(minted)
           s == [id |-> n + 1, expires |-> clock + SessionTTL, seen |-> clock]
<1>1. n \in Nat /\ clock \in Nat
  BY FS_CardinalityType DEF SessionInv
<1>2. /\ s \in SessionRows /\ s.id = n + 1
      /\ minted' = minted \cup {s} /\ sessions' = sessions \cup {s}
      /\ cookie' = [cookie EXCEPT ![b] = s.id] /\ ended' = ended
  BY SMTT(60), <1>1, LoginConstants DEF MintSession, SessionRows
<1>3. s \notin minted
  BY SMTT(60), <1>1, <1>2 DEF SessionInv
<1>4. IsFiniteSet(minted') /\ Cardinality(minted') = n + 1
  BY <1>2, <1>3, FS_AddElement DEF SessionInv
<1> HIDE DEF s, n
<1>5. /\ \A m \in minted : m.id \in 1 .. n
      /\ cookie \in [Clients -> 0 .. n] /\ ended \subseteq 1 .. n
  BY DEF SessionInv, n
<1>6. \A m \in minted' : m.id \in 1 .. (n + 1)
  BY SMTT(60), <1>1, <1>2, <1>5
<1>7. cookie' \in [Clients -> 0 .. (n + 1)] /\ ended' \subseteq 1 .. (n + 1)
  BY SMTT(60), <1>1, <1>2, <1>5
<1>8. NoResurrection'
  BY SMTT(60), <1>1, <1>2, <1>5 DEF SessionInv, NoResurrection
<1>9. ASSUME NEW m \in minted', m.id \notin ended', m.expires >= clock'
      PROVE  \E t \in sessions' : t.id = m.id /\ t.expires = m.expires
  <2>1. CASE m = s
    BY <1>2, <2>1
  <2>2. CASE m \in minted
    BY <1>2, <1>9, <2>2 DEF SessionInv
  <2> QED
    BY <1>2, <2>1, <2>2
<1> QED
  BY <1>2, <1>4, <1>6, <1>7, <1>8, <1>9 DEF SessionInv

\* Everything that is done to sessions keeps SessionInv (mintSession, TouchSession,
\* DeleteSession, GarbageCollectSessions).
LEMMA SessionsStep ==
  ASSUME SessionInv, [Next]_vars
  PROVE  SessionInv'
<1>1. CASE UNCHANGED <<clock, store>>
  BY <1>1 DEF SessionInv, store, NoResurrection
<1>2. CASE Tick /\ UNCHANGED <<mode, provider, store>>
  BY SMTT(60), <1>2 DEF SessionInv, store, NoResurrection, Tick, SessionRows
<1>3. CASE GarbageCollectSessions
  <2>1. sessions' = {s \in sessions : ~(s.expires < clock)} /\ clock' = clock
        /\ UNCHANGED <<cookie, touches, ended, minted>>
    BY <1>3 DEF GarbageCollectSessions, limiter
  <2>2. \A m \in minted : m.id \notin ended /\ m.expires >= clock =>
          \E s \in sessions' : s.id = m.id /\ s.expires = m.expires
    BY SMTT(60), <2>1 DEF SessionInv, SessionRows
  <2> QED
    BY <2>1, <2>2 DEF SessionInv, NoResurrection
<1>4. ASSUME NEW id \in touches, TouchSession(id) PROVE SessionInv'
  <2>1. sessions' = {Seen(s, id) : s \in sessions} /\ clock' = clock
        /\ UNCHANGED <<cookie, ended, minted>>
    BY <1>4 DEF TouchSession, limiter
  <2>2. \A s \in sessions :
          Seen(s, id) \in SessionRows /\ Seen(s, id).id = s.id /\ Seen(s, id).expires = s.expires
    BY SeenRow DEF SessionInv
  <2>3. sessions' \subseteq SessionRows /\ NoResurrection'
    BY <2>1, <2>2 DEF SessionInv, NoResurrection
  <2>4. \A m \in minted : m.id \notin ended /\ m.expires >= clock =>
          \E s \in sessions' : s.id = m.id /\ s.expires = m.expires
    BY SMTT(60), <2>1, <2>2 DEF SessionInv
  <2> QED
    BY <2>1, <2>3, <2>4 DEF SessionInv
<1>5. ASSUME NEW b \in Clients, NEW good \in BOOLEAN, PasswordLogin(b, good) PROVE SessionInv'
  <2>1. clock' = clock /\ (MintSession(b) \/ UNCHANGED store)
    BY <1>5 DEF PasswordLogin, Allow
  <2> QED
    BY <1>1, <2>1, MintKeeps
<1>6. ASSUME NEW b \in Clients, FailedBasic(b) PROVE UNCHANGED <<clock, store>>
  BY <1>6 DEF FailedBasic, Allow
<1>7. ASSUME NEW b \in Clients, UseSession(b) PROVE SessionInv'
  BY <1>7 DEF UseSession, SessionInv, NoResurrection, limiter
<1>8. ASSUME NEW b \in Clients, Logout(b) PROVE SessionInv'
  <2>1. /\ cookie[b] # 0 /\ clock' = clock /\ minted' = minted
        /\ cookie' = [cookie EXCEPT ![b] = 0]
        /\ \/ sessions' = {s \in sessions : s.id # cookie[b]} /\ ended' = ended \cup {cookie[b]}
           \/ sessions' = sessions /\ ended' = ended
    BY <1>8 DEF Logout, limiter
  <2>2. Cardinality(minted) \in Nat
    BY FS_CardinalityType DEF SessionInv
  <2>2a. cookie \in [Clients -> 0 .. Cardinality(minted)] /\ ended \subseteq 1 .. Cardinality(minted)
    BY DEF SessionInv
  <2>2b. 0 \in 0 .. Cardinality(minted) /\ cookie[b] \in 1 .. Cardinality(minted)
    BY SMTT(60), <2>1, <2>2, <2>2a
  <2>3. cookie' \in [Clients -> 0 .. Cardinality(minted)] /\ ended' \subseteq 1 .. Cardinality(minted)
    BY <2>1, <2>2a, <2>2b
  <2>4. NoResurrection' /\ sessions' \subseteq SessionRows
    BY <2>1 DEF SessionInv, NoResurrection
  <2>5. \A m \in minted : m.id \notin ended' /\ m.expires >= clock =>
          \E s \in sessions' : s.id = m.id /\ s.expires = m.expires
    BY <2>1 DEF SessionInv
  <2> QED
    BY <2>1, <2>3, <2>4, <2>5 DEF SessionInv
<1>9. ASSUME NEW b \in Clients, Mint(b) PROVE SessionInv'
  <2>1. clock' = clock /\ (MintSession(b) \/ UNCHANGED store)
    BY <1>9 DEF Mint, limiter
  <2> QED
    BY <1>1, <2>1, MintKeeps
<1>10. CASE Rotate
  BY <1>1, <1>10 DEF Rotate, Quiet, limiter
<1>11. ASSUME NEW b \in Clients, OIDCStart(b) \/ OIDCCallback(b) \/ (Working(b) /\ ~Mint(b))
       PROVE  UNCHANGED <<clock, store>>
  <2>1. Quiet
    BY <1>11 DEF OIDCStart, OIDCCallback, Working, EnsureDiscovery, DiscoveryLock, Discover,
                 Discovered, Exchange, VerifyIDToken, RefreshLock, Refetch, Refetched
  <2> QED
    BY <2>1 DEF Quiet, limiter
<1>12. CASE UNCHANGED vars
  BY <1>1, <1>12 DEF vars, limiter
<1> QED
  BY <1>1, <1>2, <1>3, <1>4, <1>5, <1>6, <1>7, <1>8, <1>9, <1>10, <1>11, <1>12 DEF Next

\* SessionInv holds of all behaviours of the server.
THEOREM LoginSessions == Spec => []SessionInv
<1>1. Init => SessionInv
  <2> SUFFICES ASSUME Init PROVE SessionInv
    OBVIOUS
  <2>1. minted = {} /\ sessions = {} /\ ended = {} /\ clock = 0 /\ cookie = [b \in Clients |-> 0]
    BY DEF Init, LimiterInit
  <2>2. IsFiniteSet(minted) /\ Cardinality(minted) = 0
    BY <2>1, FS_EmptySet
  <2> QED
    BY SMTT(60), <2>1, <2>2 DEF SessionInv, NoResurrection
<1>2. SessionInv /\ [Next]_vars => SessionInv'
  BY SessionsStep
<1> QED
  BY <1>1, <1>2, PTL DEF Spec

\* A session that a logout deleted stays out, however late the touches of earlier
\* requests come (TouchSession against DeleteSession).
THEOREM LoginNoResurrection == Spec => []NoResurrection
<1>1. SessionInv => NoResurrection
  BY DEF SessionInv
<1> QED
  BY <1>1, LoginSessions, PTL

\* A session that no logout deleted is accepted up to its last moment (GetSession
\* against GarbageCollectSessions).
THEOREM LoginSessionsKept == Spec => []SessionsKept
<1>1. SessionInv => SessionsKept
  BY SMTT(60) DEF SessionInv, SessionsKept, GetSession, SessionRows
<1> QED
  BY <1>1, LoginSessions, PTL

\* A session is accepted from its login until its time has passed or a logout deletes
\* its row, and not after that (sessions.go and the auth middleware).
THEOREM LoginSessionsExact == Spec => []SessionsExact
BY LoginNoResurrection, LoginSessionsKept, PTL DEF SessionsExact

-----------------------------------------------------------------------------
(* The interval between two fetches of the key set.                         *)

Past == {"redirect", "token", "verify", "refresh", "refetch", "refetched", "mint"}

\* A login has its provider's document once EnsureDiscovery returned, and jwksFetchedAt is
\* not before the last fetch, save between a fetch and the assignments that follow it.
SpacingInv ==
  /\ clock \in Nat /\ fetchedAt \in Int /\ asked \in Int /\ asked <= clock
  /\ \A b \in Clients : flow[b].pc \in Past => doc
  /\ doc /\ (\A b \in Clients : flow[b].pc # "refetched") => asked <= fetchedAt
  /\ \A b \in Clients : flow[b].pc = "refetch" => clock - asked >= Interval

\* Steps that leave the provider alone; time may pass.
LEMMA SpacingUntouched ==
  ASSUME SpacingInv, UNCHANGED <<doc, fetchedAt, flow, asked>>, clock' \in {clock, clock + 1}
  PROVE  SpacingInv'
<1>1. PICK c, n, a, i : c = clock /\ n = clock' /\ a = asked /\ i = Interval
  OBVIOUS
<1>2. c \in Nat /\ a \in Int /\ i \in Nat /\ a <= c
  BY <1>1, LoginConstants DEF SpacingInv
<1>3. n = c \/ n = c + 1
  BY <1>1
<1>4. n \in Nat /\ a <= n /\ (c - a >= i => n - a >= i)
  BY SMTT(60), <1>2, <1>3
<1>5. \A b \in Clients : flow[b].pc = "refetch" => c - a >= i
  BY <1>1 DEF SpacingInv
<1> QED
  BY <1>1, <1>4, <1>5 DEF SpacingInv

\* A step of one login that asks for no keys.
LEMMA SpacingMoves ==
  ASSUME SpacingInv, FlowInv, NEW b \in Clients, NEW f \in Flow, flow' = [flow EXCEPT ![b] = f],
         UNCHANGED <<clock, doc, fetchedAt, asked>>,
         flow[b].pc # "refetched", f.pc \in Past => doc,
         f.pc = "refetch" => clock - asked >= Interval
  PROVE  SpacingInv'
BY DEF SpacingInv, FlowInv

\* A step of the holder of discoveryMu that asks for keys or takes note of the time: nobody
\* else is at a fetch.
LEMMA SpacingFetches ==
  ASSUME SpacingInv, FlowInv, NEW b \in Clients, NEW f \in Flow, flow' = [flow EXCEPT ![b] = f],
         mutex = b, clock' = clock, asked' \in {asked, clock}, fetchedAt' \in {fetchedAt, clock},
         doc => doc', f.pc \in Past => doc', f.pc # "refetch",
         fetchedAt' = clock \/ ~doc' \/ f.pc = "refetched"
  PROVE  SpacingInv'
<1>1. \A c \in Clients : c # b => flow'[c] = flow[c] /\ flow[c].pc \notin {"refetch", "refetched"}
  BY DEF FlowInv, DiscoveryOnce
<1>2. flow'[b] = f
  BY DEF FlowInv
<1> QED
  BY SMTT(60), <1>1, <1>2 DEF SpacingInv

\* Every step keeps the interval (EnsureDiscovery, refreshJWKS).
LEMMA SpacingStep ==
  ASSUME SpacingInv, FlowInv, [Next]_vars
  PROVE  SpacingInv'
<1>1. CASE (Tick /\ UNCHANGED <<mode, provider, store>>) \/ GarbageCollectSessions
           \/ (\E id \in touches : TouchSession(id)) \/ Rotate \/ UNCHANGED vars
  <2>1. UNCHANGED <<doc, fetchedAt, flow, asked>> /\ clock' \in {clock, clock + 1}
    BY <1>1 DEF GarbageCollectSessions, TouchSession, Rotate, Tick, Quiet, vars, provider, cache, limiter
  <2> QED
    BY <2>1, SpacingUntouched
<1>2. ASSUME NEW b \in Clients,
             \/ \E good \in BOOLEAN : PasswordLogin(b, good)
             \/ FailedBasic(b) \/ UseSession(b) \/ Logout(b)
      PROVE  SpacingInv'
  <2>1. UNCHANGED provider /\ clock' = clock
    BY <1>2 DEF PasswordLogin, FailedBasic, UseSession, Logout, Allow, limiter
  <2> QED
    BY <2>1, SpacingUntouched DEF provider, cache
<1>3. ASSUME NEW b \in Clients, OIDCStart(b) \/ OIDCCallback(b) \/ Working(b)
      PROVE  SpacingInv'
  <2>0. PICK f : f = flow[b]
    OBVIOUS
  <2>1. f \in Flow /\ NoFlow \in Flow /\ NoFlow.pc = "idle" /\ flow \in [Clients -> Flow] /\ DiscoveryOnce
    BY <2>0 DEF FlowInv, Flow, NoFlow, Pcs
  <2>2. Published \in SUBSET Nat
    BY SMTT(60) DEF Published, FlowInv
  <2>3. clock' = clock
    BY <1>3 DEF OIDCStart, OIDCCallback, Working, EnsureDiscovery, DiscoveryLock, Discover, Discovered,
                Exchange, VerifyIDToken, RefreshLock, Refetch, Refetched, Mint, Quiet, limiter
  <2>4. CASE OIDCStart(b)
    <3> DEFINE g == [NoFlow EXCEPT !.pc = "ensure", !.back = "redirect"]
    <3>1. g \in Flow /\ g.pc = "ensure"
      BY DEF Flow, NoFlow, Pcs
    <3>2. flow' = [flow EXCEPT ![b] = g] /\ f.pc = "idle" /\ UNCHANGED <<doc, fetchedAt, asked>>
      BY <2>0, <2>4 DEF OIDCStart, cache, At
    <3> HIDE DEF g
    <3> QED
      BY <2>0, <2>3, <3>1, <3>2, SpacingMoves DEF Past
  <2>5. CASE OIDCCallback(b) \/ Exchange(b)
    <3> DEFINE g == [f EXCEPT !.pc = "ensure", !.back = "token"]
               h == [f EXCEPT !.pc = "verify", !.kid = key]
    <3>1. g \in Flow /\ g.pc = "ensure" /\ h \in Flow /\ h.pc = "verify"
      BY <2>1 DEF Flow, Pcs, FlowInv
    <3>2. /\ \E x \in {g, h, NoFlow} : flow' = [flow EXCEPT ![b] = x]
          /\ f.pc \in {"redirect", "token"} /\ UNCHANGED <<doc, fetchedAt, asked>>
      BY <2>0, <2>1, <2>5 DEF OIDCCallback, Exchange, End, cache, At
    <3>3. doc
      BY <2>0, <3>2 DEF SpacingInv, Past
    <3> HIDE DEF g, h
    <3> QED
      BY <2>0, <2>1, <2>3, <3>1, <3>2, <3>3, SpacingMoves
  <2>6. CASE EnsureDiscovery(b) \/ DiscoveryLock(b)
    <3> DEFINE g(pc) == [f EXCEPT !.pc = pc]
    <3>1. \A pc \in {f.back, "lock", "discover"} : g(pc) \in Flow /\ g(pc).pc = pc /\ pc # "refetch"
      BY <2>1 DEF Flow, Pcs
    <3>2. /\ \E pc \in {f.back, "lock", "discover"} :
                flow' = [flow EXCEPT ![b] = g(pc)] /\ (pc \in {"lock", "discover"} \/ doc)
          /\ f.pc \in {"ensure", "lock"} /\ UNCHANGED <<doc, fetchedAt, asked>>
      BY <2>0, <2>1, <2>6 DEF EnsureDiscovery, DiscoveryLock, Goto, cache, At
    <3> HIDE DEF g
    <3> QED
      BY <2>0, <2>1, <2>3, <3>1, <3>2, SpacingMoves DEF Past
  <2>7. CASE VerifyIDToken(b)
    <3> DEFINE g(pc) == [f EXCEPT !.pc = pc]
    <3>1. \A pc \in {"mint", "refresh"} : g(pc) \in Flow /\ g(pc).pc = pc
      BY <2>1 DEF Flow, Pcs
    <3>2. /\ (\E pc \in {"mint", "refresh"} : flow' = [flow EXCEPT ![b] = g(pc)])
             \/ flow' = [flow EXCEPT ![b] = NoFlow]
          /\ f.pc = "verify" /\ UNCHANGED <<doc, fetchedAt, asked>>
      BY <2>0, <2>1, <2>7 DEF VerifyIDToken, Goto, End, cache, At
    <3>3. doc
      BY <2>0, <3>2 DEF SpacingInv, Past
    <3> HIDE DEF g
    <3> QED
      BY <2>0, <2>1, <2>3, <3>1, <3>2, <3>3, SpacingMoves
  <2>8. CASE Mint(b)
    <3>1. flow' = [flow EXCEPT ![b] = NoFlow] /\ f.pc = "mint" /\ UNCHANGED <<doc, fetchedAt, asked>>
      BY <2>0, <2>8 DEF Mint, End, cache, At
    <3> QED
      BY <2>0, <2>1, <2>3, <3>1, SpacingMoves DEF Past
  <2>9. CASE RefreshLock(b)
    <3> DEFINE g == [f EXCEPT !.pc = "refetch"]
    <3>1. g \in Flow /\ g.pc = "refetch"
      BY <2>1 DEF Flow, Pcs
    <3>2. /\ mutex = Nobody /\ f.pc = "refresh" /\ UNCHANGED <<doc, fetchedAt, asked>>
          /\ \/ flow' = [flow EXCEPT ![b] = NoFlow]
             \/ flow' = [flow EXCEPT ![b] = g] /\ ~(clock - fetchedAt < Interval)
      BY <2>0, <2>1, <2>9 DEF RefreshLock, Goto, End, cache, At
    <3>3. doc
      BY <2>0, <3>2 DEF SpacingInv, Past
    <3>4. \A c \in Clients : flow[c].pc # "refetched"
      BY <2>1, <3>2, LoginConstants DEF DiscoveryOnce
    <3>5. asked <= fetchedAt /\ asked \in Int /\ fetchedAt \in Int /\ clock \in Nat
      BY <3>3, <3>4 DEF SpacingInv
    <3>6. ~(clock - fetchedAt < Interval) => clock - asked >= Interval
      BY SMTT(60), <3>5, LoginConstants
    <3> HIDE DEF g
    <3> QED
      BY <2>0, <2>1, <2>3, <3>1, <3>2, <3>3, <3>6, SpacingMoves
  <2>10. CASE Discover(b) \/ Refetch(b)
    <3> DEFINE g(pc) == [f EXCEPT !.pc = pc, !.got = Published]
    <3>1. \A pc \in {"discovered", "refetched"} : g(pc) \in Flow /\ g(pc).pc = pc
      BY <2>1, <2>2 DEF Flow, Pcs
    <3>2. mutex = b /\ (Discover(b) => ~doc) /\ (Refetch(b) => doc)
      BY <2>1, <2>10 DEF Discover, Refetch, At, DiscoveryOnce, SpacingInv, Past
    <3>3. asked' = clock /\ doc' = doc
      BY <2>10 DEF Discover, Refetch, cache
    <3>4. CASE Discover(b)
      <4>1. /\ fetchedAt' = fetchedAt
            /\ flow' = [flow EXCEPT ![b] = g("discovered")] \/ flow' = [flow EXCEPT ![b] = NoFlow]
        BY <2>0, <2>1, <3>4 DEF Discover, End, cache
      <4> HIDE DEF g
      <4> QED
        BY <2>1, <2>3, <3>1, <3>2, <3>3, <3>4, <4>1, SpacingFetches DEF Past
    <3>5. CASE Refetch(b)
      <4>1. \/ flow' = [flow EXCEPT ![b] = g("refetched")] /\ fetchedAt' = fetchedAt
            \/ flow' = [flow EXCEPT ![b] = NoFlow] /\ fetchedAt' = clock
        BY <2>0, <2>1, <3>5 DEF Refetch, End
      <4> HIDE DEF g
      <4> QED
        BY <2>1, <2>3, <3>1, <3>2, <3>3, <3>5, <4>1, SpacingFetches
    <3> QED
      BY <2>10, <3>4, <3>5
  <2>11. CASE Discovered(b)
    <3> DEFINE g == [f EXCEPT !.pc = f.back, !.got = {}]
    <3>1. g \in Flow /\ g.pc \in {"idle", "redirect", "token"}
      BY <2>1 DEF Flow, Pcs
    <3>2. mutex = b /\ doc' /\ fetchedAt' = clock /\ asked' = asked /\ flow' = [flow EXCEPT ![b] = g]
      BY <2>0, <2>1, <2>11 DEF Discovered, At, DiscoveryOnce
    <3> HIDE DEF g
    <3> QED
      BY <2>3, <3>1, <3>2, SpacingFetches
  <2>12. CASE Refetched(b)
    <3> DEFINE g == [f EXCEPT !.pc = "verify", !.retried = TRUE, !.got = {}]
    <3>1. g \in Flow /\ g.pc = "verify"
      BY <2>1 DEF Flow, Pcs
    <3>2. /\ mutex = b /\ doc /\ doc' = doc /\ fetchedAt' = clock /\ asked' = asked
          /\ flow' = [flow EXCEPT ![b] = g]
      BY <2>0, <2>1, <2>12 DEF Refetched, At, DiscoveryOnce, SpacingInv, Past
    <3> HIDE DEF g
    <3> QED
      BY <2>3, <3>1, <3>2, SpacingFetches
  <2> QED
    BY <1>3, <2>4, <2>5, <2>6, <2>7, <2>8, <2>9, <2>10, <2>11, <2>12 DEF Working
<1> QED
  BY <1>1, <1>2, <1>3 DEF Next

\* However many logins come with tokens whose keys are unknown, and however often the
\* provider fails, refreshJWKS asks it at most once an interval.
THEOREM LoginRefreshSpaced == Spec => RefreshSpaced
<1> DEFINE A == \A b \in Clients : At(b, "refetch") /\ flow'[b].pc # "refetch" => clock - asked >= Interval
<1>1. Init => FlowInv /\ SpacingInv
  <2> SUFFICES ASSUME Init PROVE FlowInv /\ SpacingInv
    OBVIOUS
  <2>1. FlowInv
    BY DEF Init, FlowInv, Flow, Pcs, NoFlow, DiscoveryOnce
  <2>2. clock = 0 /\ fetchedAt = 0 /\ asked = 0 - Interval /\ Interval \in Nat
    BY LoginConstants DEF Init, LimiterInit
  <2>3. \A b \in Clients : flow[b].pc = "idle"
    BY DEF Init, NoFlow
  <2> QED
    BY SMTT(60), <2>1, <2>2, <2>3 DEF SpacingInv, Past
<1>2. FlowInv /\ SpacingInv /\ [Next]_vars => FlowInv' /\ SpacingInv'
  BY FlowKept, SpacingStep
<1>3. SpacingInv /\ [Next]_vars => [A]_vars
  BY DEF SpacingInv, At
<1>4. RefreshSpaced <=> [][A]_vars
  BY DEF RefreshSpaced
<1> HIDE DEF A
<1> QED
  BY <1>1, <1>2, <1>3, <1>4, PTL DEF Spec
=============================================================================
