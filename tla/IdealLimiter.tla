---------------------------- MODULE IdealLimiter ----------------------------
(***************************************************************************)
(* What internal/server/ratelimit.go promises: every client has a bucket   *)
(* that refills by one unit a tick up to its capacity, for ever, and an    *)
(* attempt is allowed when the bucket holds the price of one.              *)
(***************************************************************************)
EXTENDS Integers

CONSTANTS Clients, Capacity, Cost, MaxTime

VARIABLES clock, level, answer

ideal == <<clock, level, answer>>

Lesser(a, b) == IF a <= b THEN a ELSE b

Init ==
  /\ clock = 0
  /\ level = [c \in Clients |-> Capacity]
  /\ answer = <<>>

Tick ==
  /\ clock < MaxTime
  /\ clock' = clock + 1
  /\ level' = [c \in Clients |-> Lesser(Capacity, level[c] + 1)]
  /\ UNCHANGED answer

Allow(c) ==
  /\ answer' = <<c, level[c] >= Cost>>
  /\ level' = [level EXCEPT ![c] = IF @ >= Cost THEN @ - Cost ELSE @]
  /\ UNCHANGED clock

Next == Tick \/ \E c \in Clients : Allow(c)

Spec == Init /\ [][Next]_ideal
=============================================================================
