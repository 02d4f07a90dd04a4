------------------------------ MODULE Delivery ------------------------------
(***************************************************************************)
(* What the webhook dispatcher promises its callers, per delivery job:     *)
(* best effort with a bounded backlog.  A job is accepted or dropped; an   *)
(* accepted job is tried until it succeeds, MaxRetries tries have failed,  *)
(* or the dispatcher is closed after at least one try.                     *)
(***************************************************************************)
EXTENDS Naturals, FiniteSets

CONSTANTS Jobs, MaxRetries, Backlog

VARIABLES state, tries, closed

dvars == <<state, tries, closed>>

Init ==
  /\ state = [j \in Jobs |-> "none"]
  /\ tries = [j \in Jobs |-> 0]
  /\ closed = FALSE

Accept(j) ==
  /\ state[j] = "none"
  /\ Cardinality({i \in Jobs : state[i] = "pending"}) < Backlog
  /\ state' = [state EXCEPT ![j] = "pending"]
  /\ UNCHANGED <<tries, closed>>

\* Some jobs of one notification.
Drop(js) ==
  /\ \A j \in js : state[j] = "none"
  /\ state' = [j \in Jobs |-> IF j \in js THEN "dropped" ELSE state[j]]
  /\ UNCHANGED <<tries, closed>>

Try(j, outcome) ==
  /\ state[j] = "pending" /\ tries[j] < MaxRetries
  /\ tries' = [tries EXCEPT ![j] = @ + 1]
  /\ outcome = "gaveUp" => tries[j] + 1 = MaxRetries
  /\ outcome = "pending" => tries[j] + 1 < MaxRetries
  /\ state' = [state EXCEPT ![j] = outcome]
  /\ UNCHANGED closed

Abandon(j) ==
  /\ state[j] = "pending" /\ closed /\ tries[j] > 0
  /\ state' = [state EXCEPT ![j] = "gaveUp"]
  /\ UNCHANGED <<tries, closed>>

Close ==
  /\ closed' = TRUE
  /\ UNCHANGED <<state, tries>>

Next ==
  \/ \E j \in Jobs : \/ Accept(j) \/ Abandon(j)
                     \/ \E outcome \in {"pending", "delivered", "gaveUp"} : Try(j, outcome)
  \/ \E js \in SUBSET Jobs : Drop(js)
  \/ Close

Spec == Init /\ [][Next]_dvars
=============================================================================
