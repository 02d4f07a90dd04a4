-------------------------- MODULE DispatcherProofs --------------------------
(***************************************************************************)
(* The dispatcher for any number of calls, webhooks, workers and retries:  *)
(* every job is in exactly one place, so its attempts fit its end and the  *)
(* dispatcher implements Delivery.                                         *)
(***************************************************************************)
EXTENDS Dispatcher, FiniteSetTheorems, WellFoundedInduction, NaturalsInduction, TLAPS

USE ZenonT(60)

Fates == {"none", "dropped", "uncounted", "unlisted", "queued", "taken",
          "delivered", "failed", "aborted"}
Ended == {"delivered", "failed", "aborted"}
Busy == {"post", "wait"}
Homes(a) == IF a \in Workers THEN {"select", "drain"} ELSE {"sweep"}
Idles(a) == IF a \in Workers THEN {"select", "drain", "exited"}
            ELSE {"running", "stopping", "timedOut", "sweep", "stopped"}

\* Where a Notify is, and the jobs it has not come to yet.
CallInv ==
  \A n \in Calls :
    /\ call[n] \in [pc : {"new", "list", "check", "send", "returned"}, todo : SUBSET Hooks]
    /\ call[n].pc \in {"new", "list"} => \A h \in Hooks : fate[<<n, h>>] = "none"
    /\ call[n].pc \in {"check", "send"} =>
         call[n].todo # {} /\ \A h \in call[n].todo : fate[<<n, h>>] = "none"

\* The channel holds the queued jobs, each once.
QueueInv ==
  /\ queue \in Seq(Jobs) /\ Len(queue) <= QueueCapacity
  /\ \A i \in 1 .. Len(queue) : fate[queue[i]] = "queued"
  /\ \A i, k \in 1 .. Len(queue) : queue[i] = queue[k] => i = k
  /\ \A j \in Jobs : fate[j] = "queued" => \E i \in 1 .. Len(queue) : queue[i] = j

\* Whoever delivers a job is the only one, and knows how often it was posted.
AgentInv ==
  /\ \A a \in Agents :
       /\ agent[a] \in [pc : Busy \cup Idles(a), job : Jobs \cup {NoJob}, failed : Nat,
                        back : Homes(a) \cup Idles(a)]
       /\ agent[a].pc \in Busy =>
            /\ agent[a].job \in Jobs /\ fate[agent[a].job] = "taken"
            /\ agent[a].failed = posts[agent[a].job] /\ agent[a].failed < MaxRetries
            /\ agent[a].pc = "wait" => agent[a].failed > 0
            /\ agent[a].back \in Homes(a)
       /\ a \in Stoppers /\ agent[a].pc \in Busy \cup {"sweep", "stopped"} => AllExited
  /\ \A a, b \in Agents :
       agent[a].pc \in Busy /\ agent[b].pc \in Busy /\ agent[a].job = agent[b].job => a = b
  /\ \A j \in Jobs : fate[j] = "taken" => \E a \in Agents : agent[a].pc \in Busy /\ agent[a].job = j
  /\ \A s \in Stoppers : agent[s].pc # "running" => stopCh

\* The attempts of a job fit what became of it.
FateInv ==
  \A j \in Jobs :
    /\ fate[j] \in Fates /\ posts[j] \in Nat
    /\ fate[j] \in Ended => posts[j] > 0
    /\ fate[j] = "failed" => posts[j] = MaxRetries
    /\ fate[j] = "aborted" => stopCh /\ posts[j] < MaxRetries
    /\ fate[j] \in {"none", "dropped", "uncounted", "unlisted", "queued"} => posts[j] = 0
    /\ fate[j] \in {"delivered", "failed"} => j \in recorded

\* A job sent before Stop is not lost.
EarlyInv ==
  /\ early \subseteq Jobs
  /\ \A j \in early : fate[j] \in {"queued", "taken"} \cup Ended

Shape ==
  /\ call = [n \in Calls |-> call[n]] /\ agent = [a \in Agents |-> agent[a]]
  /\ fate = [j \in Jobs |-> fate[j]] /\ posts = [j \in Jobs |-> posts[j]]
  /\ stopCh \in BOOLEAN /\ recorded \subseteq Jobs

DInv == Shape /\ CallInv /\ QueueInv /\ AgentInv /\ FateInv /\ EarlyInv

-----------------------------------------------------------------------------
(* Agents that are between two deliveries.                                  *)

\* A worker or a Stop moves on without a job, and without missing the exit of a worker.
LEMMA AgentMoves ==
  ASSUME DInv, NEW a \in Agents, NEW pc \in Idles(a),
         agent' = [agent EXCEPT ![a] = At(pc)],
         agent[a].pc \notin Busy \cup {"exited"},
         a \in Stoppers /\ pc \in {"sweep", "stopped"} => AllExited,
         a \in Stoppers /\ pc # "running" => stopCh',
         stopCh' \in BOOLEAN, stopCh => stopCh',
         UNCHANGED <<call, queue, recorded, posts, fate, early>>
  PROVE  DInv'
<1>1. agent'[a] = [pc |-> pc, job |-> NoJob, failed |-> 0, back |-> pc]
  BY DEF DInv, Shape, At
<1>2. \A b \in Agents : b # a => agent'[b] = agent[b]
  BY DEF DInv, Shape
<1>3. Shape' /\ CallInv' /\ QueueInv' /\ EarlyInv'
  BY DEF DInv, Shape, CallInv, QueueInv, EarlyInv
<1>4. FateInv'
  BY DEF DInv, Shape, FateInv
<1>5. AllExited => AllExited'
  BY <1>2 DEF AllExited, Agents
<1>6. pc \notin Busy
  BY DEF Busy, Idles
<1>7. AgentInv'
  <2>1. ASSUME NEW b \in Agents
        PROVE  /\ agent'[b] \in [pc : Busy \cup Idles(b), job : Jobs \cup {NoJob}, failed : Nat,
                                 back : Homes(b) \cup Idles(b)]
               /\ agent'[b].pc \in Busy =>
                    /\ agent'[b].job \in Jobs /\ fate'[agent'[b].job] = "taken"
                    /\ agent'[b].failed = posts'[agent'[b].job] /\ agent'[b].failed < MaxRetries
                    /\ agent'[b].pc = "wait" => agent'[b].failed > 0
                    /\ agent'[b].back \in Homes(b)
               /\ b \in Stoppers /\ agent'[b].pc \in Busy \cup {"sweep", "stopped"} => AllExited'
    <3>1. CASE b = a
      BY SMTT(60), <1>1, <1>5, <1>6, <3>1
    <3>2. CASE b # a
      BY <1>2, <1>5, <3>2 DEF DInv, AgentInv
    <3> QED
      BY <3>1, <3>2
  <2>2. ASSUME NEW b \in Agents, NEW c \in Agents,
               agent'[b].pc \in Busy, agent'[c].pc \in Busy, agent'[b].job = agent'[c].job
        PROVE  b = c
    BY SMTT(60), <1>1, <1>2, <1>6, <2>2 DEF DInv, AgentInv
  <2>3. \A j \in Jobs : fate'[j] = "taken" => \E b \in Agents : agent'[b].pc \in Busy /\ agent'[b].job = j
    BY SMTT(60), <1>2 DEF DInv, AgentInv, Busy
  <2>4. \A s \in Stoppers : agent'[s].pc # "running" => stopCh'
    BY SMTT(60), <1>1, <1>2 DEF DInv, AgentInv, Agents
  <2> QED
    BY <2>1, <2>2, <2>3, <2>4 DEF AgentInv
<1> QED
  BY <1>3, <1>4, <1>7 DEF DInv

\* A receive moves the first job of the channel to whoever receives.
LEMMA ReceiveKeeps ==
  ASSUME DInv, NEW a \in Agents, agent[a].pc \in Homes(a), Receive(a)
  PROVE  DInv'
<1> DEFINE j == Head(queue)
<1>1. /\ queue # <<>> /\ queue' = Tail(queue) /\ stopCh' = stopCh
      /\ fate' = [i \in Jobs |-> IF i \in {j} THEN "taken" ELSE fate[i]]
      /\ UNCHANGED <<call, stopCh, recorded, posts, early>>
      /\ agent' = [agent EXCEPT ![a] = [pc |-> "post", job |-> j, failed |-> 0, back |-> agent[a].pc]]
  BY DEF Receive, Mark
<1>2. queue \in Seq(Jobs) /\ j \in Jobs /\ j = queue[1] /\ Len(queue) \in Nat \ {0}
  BY SMTT(60), <1>1 DEF DInv, QueueInv
<1>3. fate[j] = "queued" /\ posts[j] = 0
  BY SMTT(60), <1>2 DEF DInv, QueueInv, FateInv
<1>4. fate'[j] = "taken" /\ \A i \in Jobs : i # j => fate'[i] = fate[i]
  BY <1>1, <1>2
<1>5. /\ Len(queue') = Len(queue) - 1 /\ queue' \in Seq(Jobs)
      /\ \A i \in 1 .. Len(queue') : queue'[i] = queue[i + 1] /\ i + 1 \in 1 .. Len(queue)
  BY SMTT(60), <1>1, <1>2
<1>6. agent'[a] = [pc |-> "post", job |-> j, failed |-> 0, back |-> agent[a].pc]
  BY <1>1 DEF DInv, Shape, AgentInv
<1>7. \A b \in Agents : b # a => agent'[b] = agent[b]
  BY <1>1 DEF DInv, Shape
<1> HIDE DEF j
<1>8. Shape'
  BY <1>1, <1>2 DEF DInv, Shape
<1>9. CallInv'
  BY <1>1, <1>3, <1>4 DEF DInv, CallInv, Jobs
<1>10. QueueInv'
  <2>1. \A i \in 1 .. Len(queue') : queue'[i] # j
    BY SMTT(60), <1>2, <1>5 DEF DInv, QueueInv
  <2>2. \A i \in 1 .. Len(queue') : fate'[queue'[i]] = "queued"
    BY SMTT(60), <1>4, <1>5, <2>1 DEF DInv, QueueInv
  <2>3. \A i, k \in 1 .. Len(queue') : queue'[i] = queue'[k] => i = k
    BY SMTT(60), <1>2, <1>5 DEF DInv, QueueInv
  <2>4. ASSUME NEW x \in Jobs, fate'[x] = "queued" PROVE \E i \in 1 .. Len(queue') : queue'[i] = x
    <3>1. x # j /\ fate[x] = "queued"
      BY <1>4, <2>4
    <3>2. PICK i \in 1 .. Len(queue) : queue[i] = x
      BY <3>1 DEF DInv, QueueInv
    <3>3. i # 1 /\ i - 1 \in 1 .. Len(queue') /\ (i - 1) + 1 = i
      BY SMTT(60), <1>2, <1>5, <3>1, <3>2
    <3> QED
      BY <1>5, <3>2, <3>3
  <2> QED
    BY SMTT(60), <1>2, <1>5, <2>2, <2>3, <2>4, DispatcherConstants DEF DInv, QueueInv
<1>11. \A b \in Agents : b # a /\ agent[b].pc \in Busy => agent[b].job # j
  BY <1>3 DEF DInv, AgentInv
<1>12. AllExited => AllExited'
  BY <1>7 DEF AllExited, Agents, Homes
<1>13. AgentInv'
  <2>1. ASSUME NEW b \in Agents
        PROVE  /\ agent'[b] \in [pc : Busy \cup Idles(b), job : Jobs \cup {NoJob}, failed : Nat,
                                 back : Homes(b) \cup Idles(b)]
               /\ agent'[b].pc \in Busy =>
                    /\ agent'[b].job \in Jobs /\ fate'[agent'[b].job] = "taken"
                    /\ agent'[b].failed = posts'[agent'[b].job] /\ agent'[b].failed < MaxRetries
                    /\ agent'[b].pc = "wait" => agent'[b].failed > 0
                    /\ agent'[b].back \in Homes(b)
               /\ b \in Stoppers /\ agent'[b].pc \in Busy \cup {"sweep", "stopped"} => AllExited'
    <3>1. CASE b = a
      <4>1. /\ agent'[b] \in [pc : Busy \cup Idles(b), job : Jobs \cup {NoJob}, failed : Nat,
                              back : Homes(b) \cup Idles(b)]
            /\ agent'[b].job \in Jobs /\ fate'[agent'[b].job] = "taken"
            /\ agent'[b].failed = posts'[agent'[b].job] /\ agent'[b].failed < MaxRetries
            /\ agent'[b].pc # "wait"
            /\ agent'[b].back \in Homes(b)
        <5>1. agent[a].pc \in Homes(b) /\ 0 < MaxRetries /\ posts' = posts
          BY SMTT(60), <1>1, <3>1, DispatcherConstants
        <5> QED
          BY SMTT(60), <1>2, <1>3, <1>4, <1>6, <3>1, <5>1 DEF Busy
      <4>2. b \in Stoppers => AllExited
        BY <3>1, DispatcherConstants DEF DInv, AgentInv, Homes
      <4> QED
        BY <1>12, <4>1, <4>2
    <3>2. CASE b # a
      <4>1. agent'[b] = agent[b]
        BY <1>7, <3>2
      <4>2. agent[b].pc \in Busy => agent[b].job \in Jobs /\ fate'[agent[b].job] = "taken"
        BY <1>4, <1>11, <3>2 DEF DInv, AgentInv
      <4> QED
        BY <1>1, <1>12, <4>1, <4>2 DEF DInv, AgentInv
    <3> QED
      BY <3>1, <3>2
  <2>2. ASSUME NEW b \in Agents, NEW c \in Agents,
               agent'[b].pc \in Busy, agent'[c].pc \in Busy, agent'[b].job = agent'[c].job
        PROVE  b = c
    BY SMTT(60), <1>6, <1>7, <1>11, <2>2 DEF DInv, AgentInv
  <2>3. ASSUME NEW x \in Jobs, fate'[x] = "taken"
        PROVE  \E b \in Agents : agent'[b].pc \in Busy /\ agent'[b].job = x
    <3>1. CASE x = j
      BY SMTT(60), <1>6, <3>1 DEF Busy
    <3>2. CASE x # j
      <4>1. PICK b \in Agents : agent[b].pc \in Busy /\ agent[b].job = x
        BY <1>4, <2>3, <3>2 DEF DInv, AgentInv
      <4>2. b # a
        BY <4>1 DEF Homes, Busy
      <4> QED
        BY <1>7, <4>1, <4>2
    <3> QED
      BY <3>1, <3>2
  <2>4. \A s \in Stoppers : agent'[s].pc # "running" => stopCh'
    BY SMTT(60), <1>1, <1>6, <1>7, DispatcherConstants DEF DInv, AgentInv, Agents, Homes
  <2> QED
    BY <2>1, <2>2, <2>3, <2>4 DEF AgentInv
<1>14. FateInv'
  BY SMTT(60), <1>1, <1>3, <1>4 DEF DInv, FateInv, Fates, Ended
<1>15. EarlyInv'
  BY <1>1, <1>2, <1>4 DEF DInv, EarlyInv
<1> QED
  BY <1>8, <1>9, <1>10, <1>13, <1>14, <1>15 DEF DInv

-----------------------------------------------------------------------------
(* deliver.                                                                 *)

\* deliver returns: the job has the end its attempts account for, and whoever
\* delivered it goes back to where it received it.
LEMMA FinishKeeps ==
  ASSUME DInv, NEW a \in Agents, agent[a].pc \in Busy,
         NEW outcome \in Ended, NEW record \in BOOLEAN, Finish(a, outcome, record),
         NEW n \in Nat \ {0}, posts' = [posts EXCEPT ![agent[a].job] = n],
         outcome = "failed" => n = MaxRetries,
         outcome = "aborted" => stopCh /\ n < MaxRetries,
         outcome # "aborted" => record,
         UNCHANGED <<call, queue, stopCh, early>>
  PROVE  DInv'
<1> DEFINE j == agent[a].job
           home == agent[a].back
<1>1. /\ agent' = [agent EXCEPT ![a] = At(home)]
      /\ fate' = [i \in Jobs |-> IF i \in {j} THEN outcome ELSE fate[i]]
      /\ recorded' = IF record THEN recorded \cup {j} ELSE recorded
  BY DEF Finish, Mark
<1>2. j \in Jobs /\ fate[j] = "taken" /\ home \in Homes(a)
  BY DEF DInv, AgentInv
<1>3. fate'[j] = outcome /\ \A i \in Jobs : i # j => fate'[i] = fate[i]
  BY <1>1, <1>2
<1>4. posts'[j] = n /\ \A i \in Jobs : i # j => posts'[i] = posts[i]
  BY <1>2 DEF DInv, Shape
<1>5. agent'[a] = [pc |-> home, job |-> NoJob, failed |-> 0, back |-> home]
  BY <1>1 DEF DInv, Shape, At
<1>6. \A b \in Agents : b # a => agent'[b] = agent[b]
  BY <1>1 DEF DInv, Shape
<1>7. \A b \in Agents : b # a /\ agent[b].pc \in Busy => agent[b].job # j
  BY DEF DInv, AgentInv
<1> HIDE DEF j, home
<1>8. Shape'
  BY <1>1, <1>2 DEF DInv, Shape, j
<1>9. CallInv'
  BY SMTT(60), <1>2, <1>3 DEF DInv, CallInv, Jobs
<1>10. QueueInv'
  BY SMTT(60), <1>2, <1>3 DEF DInv, QueueInv, Ended
<1>11. FateInv'
  <2>1. ASSUME NEW i \in Jobs, i = j
        PROVE  /\ fate'[i] \in Fates /\ posts'[i] \in Nat
               /\ fate'[i] \in Ended => posts'[i] > 0
               /\ fate'[i] = "failed" => posts'[i] = MaxRetries
               /\ fate'[i] = "aborted" => stopCh' /\ posts'[i] < MaxRetries
               /\ fate'[i] \in {"none", "dropped", "uncounted", "unlisted", "queued"} => posts'[i] = 0
               /\ fate'[i] \in {"delivered", "failed"} => i \in recorded'
    BY SMTT(60), <1>1, <1>3, <1>4, <2>1 DEF Fates, Ended
  <2>2. ASSUME NEW i \in Jobs, i # j
        PROVE  /\ fate'[i] \in Fates /\ posts'[i] \in Nat
               /\ fate'[i] \in Ended => posts'[i] > 0
               /\ fate'[i] = "failed" => posts'[i] = MaxRetries
               /\ fate'[i] = "aborted" => stopCh' /\ posts'[i] < MaxRetries
               /\ fate'[i] \in {"none", "dropped", "uncounted", "unlisted", "queued"} => posts'[i] = 0
               /\ fate'[i] \in {"delivered", "failed"} => i \in recorded'
    BY <1>1, <1>3, <1>4, <2>2 DEF DInv, FateInv
  <2> QED
    BY <2>1, <2>2 DEF FateInv
<1>12. EarlyInv'
  BY <1>3 DEF DInv, EarlyInv
<1>13. AllExited => AllExited'
  BY <1>6 DEF AllExited, Agents, Busy
<1>14. AgentInv'
  <2>1. ASSUME NEW b \in Agents
        PROVE  /\ agent'[b] \in [pc : Busy \cup Idles(b), job : Jobs \cup {NoJob}, failed : Nat,
                                 back : Homes(b) \cup Idles(b)]
               /\ agent'[b].pc \in Busy =>
                    /\ agent'[b].job \in Jobs /\ fate'[agent'[b].job] = "taken"
                    /\ agent'[b].failed = posts'[agent'[b].job] /\ agent'[b].failed < MaxRetries
                    /\ agent'[b].pc = "wait" => agent'[b].failed > 0
                    /\ agent'[b].back \in Homes(b)
               /\ b \in Stoppers /\ agent'[b].pc \in Busy \cup {"sweep", "stopped"} => AllExited'
    <3>1. CASE b = a
      <4>1. home \in Idles(b) /\ home \notin Busy
        BY <1>2, <3>1 DEF Homes, Idles, Busy
      <4>2. b \in Stoppers => AllExited
        BY <3>1 DEF DInv, AgentInv
      <4> QED
        BY SMTT(60), <1>5, <1>13, <3>1, <4>1, <4>2
    <3>2. CASE b # a
      <4>1. agent'[b] = agent[b]
        BY <1>6, <3>2
      <4>2. agent[b].pc \in Busy =>
              /\ agent[b].job \in Jobs /\ fate'[agent[b].job] = "taken"
              /\ posts'[agent[b].job] = posts[agent[b].job]
        BY SMTT(60), <1>3, <1>4, <1>7, <3>2 DEF DInv, AgentInv
      <4> QED
        BY <1>13, <4>1, <4>2 DEF DInv, AgentInv
    <3> QED
      BY <3>1, <3>2
  <2>2. home \notin Busy
    BY <1>2 DEF Homes, Busy
  <2>3. ASSUME NEW b \in Agents, NEW c \in Agents,
               agent'[b].pc \in Busy, agent'[c].pc \in Busy, agent'[b].job = agent'[c].job
        PROVE  b = c
    BY SMTT(60), <1>5, <1>6, <2>2, <2>3 DEF DInv, AgentInv
  <2>4. ASSUME NEW x \in Jobs, fate'[x] = "taken"
        PROVE  \E b \in Agents : agent'[b].pc \in Busy /\ agent'[b].job = x
    <3>1. x # j
      BY <1>3, <2>4 DEF Ended
    <3>2. PICK b \in Agents : agent[b].pc \in Busy /\ agent[b].job = x
      BY <1>3, <2>4, <3>1 DEF DInv, AgentInv
    <3>3. b # a
      BY <3>1, <3>2 DEF j
    <3> QED
      BY <1>6, <3>2, <3>3
  <2>5. \A s \in Stoppers : agent'[s].pc # "running" => stopCh'
    <3>1. a \in Stoppers => stopCh
      BY DEF DInv, AgentInv, Busy
    <3> QED
      BY <1>6, <3>1 DEF DInv, AgentInv, Agents
  <2> QED
    BY <2>1, <2>3, <2>4, <2>5 DEF AgentInv
<1> QED
  BY <1>8, <1>9, <1>10, <1>11, <1>12, <1>14 DEF DInv

\* A failed attempt that is not the last, and the backoff before the next one.
LEMMA RetryKeeps ==
  ASSUME DInv, NEW a \in Agents, agent[a].pc \in Busy, NEW pc \in Busy, NEW n \in Nat,
         agent' = [agent EXCEPT ![a] = [pc |-> pc, job |-> agent[a].job, failed |-> n, back |-> agent[a].back]],
         posts' = [posts EXCEPT ![agent[a].job] = n], n < MaxRetries, pc = "wait" => n > 0,
         UNCHANGED <<call, queue, stopCh, recorded, fate, early>>
  PROVE  DInv'
<1> DEFINE j == agent[a].job
<1>1. j \in Jobs /\ fate[j] = "taken" /\ agent[a].back \in Homes(a)
  BY DEF DInv, AgentInv
<1>2. posts'[j] = n /\ \A i \in Jobs : i # j => posts'[i] = posts[i]
  BY <1>1 DEF DInv, Shape
<1>3. agent'[a] = [pc |-> pc, job |-> j, failed |-> n, back |-> agent[a].back]
  BY DEF DInv, Shape
<1>4. \A b \in Agents : b # a => agent'[b] = agent[b]
  BY DEF DInv, Shape
<1>5. \A b \in Agents : b # a /\ agent[b].pc \in Busy => agent[b].job # j
  BY DEF DInv, AgentInv
<1> HIDE DEF j
<1>6. Shape'
  BY <1>1 DEF DInv, Shape, j
<1>7. CallInv' /\ QueueInv' /\ EarlyInv'
  BY DEF DInv, CallInv, QueueInv, EarlyInv
<1>8. FateInv'
  BY <1>1, <1>2 DEF DInv, FateInv, Ended
<1>9. AllExited => AllExited'
  BY <1>4 DEF AllExited, Agents, Busy
<1>10. AgentInv'
  <2>1. ASSUME NEW b \in Agents
        PROVE  /\ agent'[b] \in [pc : Busy \cup Idles(b), job : Jobs \cup {NoJob}, failed : Nat,
                                 back : Homes(b) \cup Idles(b)]
               /\ agent'[b].pc \in Busy =>
                    /\ agent'[b].job \in Jobs /\ fate'[agent'[b].job] = "taken"
                    /\ agent'[b].failed = posts'[agent'[b].job] /\ agent'[b].failed < MaxRetries
                    /\ agent'[b].pc = "wait" => agent'[b].failed > 0
                    /\ agent'[b].back \in Homes(b)
               /\ b \in Stoppers /\ agent'[b].pc \in Busy \cup {"sweep", "stopped"} => AllExited'
    <3>1. CASE b = a
      <4>1. b \in Stoppers => AllExited
        BY <3>1 DEF DInv, AgentInv
      <4> QED
        BY SMTT(60), <1>1, <1>2, <1>3, <1>9, <3>1, <4>1
    <3>2. CASE b # a
      <4>1. agent'[b] = agent[b]
        BY <1>4, <3>2
      <4>2. agent[b].pc \in Busy => posts'[agent[b].job] = posts[agent[b].job]
        BY <1>2, <1>5, <3>2 DEF DInv, AgentInv
      <4> QED
        BY <1>9, <4>1, <4>2 DEF DInv, AgentInv
    <3> QED
      BY <3>1, <3>2
  <2>2. ASSUME NEW b \in Agents, NEW c \in Agents,
               agent'[b].pc \in Busy, agent'[c].pc \in Busy, agent'[b].job = agent'[c].job
        PROVE  b = c
    BY SMTT(60), <1>3, <1>4, <1>5, <2>2 DEF DInv, AgentInv
  <2>3. ASSUME NEW x \in Jobs, fate'[x] = "taken"
        PROVE  \E b \in Agents : agent'[b].pc \in Busy /\ agent'[b].job = x
    <3>1. PICK b \in Agents : agent[b].pc \in Busy /\ agent[b].job = x
      BY <2>3 DEF DInv, AgentInv
    <3> QED
      BY SMTT(60), <1>3, <1>4, <3>1 DEF j
  <2>4. \A s \in Stoppers : agent'[s].pc # "running" => stopCh'
    <3>1. a \in Stoppers => stopCh
      BY DEF DInv, AgentInv, Busy
    <3> QED
      BY <1>4, <3>1 DEF DInv, AgentInv, Agents
  <2> QED
    BY <2>1, <2>2, <2>3, <2>4 DEF AgentInv
<1> QED
  BY <1>6, <1>7, <1>8, <1>10 DEF DInv

-----------------------------------------------------------------------------
(* Notify.                                                                  *)

\* A non-empty set of naturals has a least member (the next webhook of the loop).
LEMMA LeastHook ==
  ASSUME NEW S \in SUBSET Nat, S # {}
  PROVE  \E m \in S : \A i \in S : m <= i
<1> DEFINE R == OpToRel(<, Nat)
<1>1. IsWellFoundedOn(R, Nat)
  BY NatLessThanWellFounded
<1>2. PICK m \in S : \A y \in S : ~(<<y, m>> \in R)
  <2> HIDE DEF R
  <2> QED
    BY <1>1, WFMin
<1>3. ASSUME NEW i \in S PROVE m <= i
  <2>1. ~(i < m)
    BY <1>2 DEF OpToRel
  <2> QED
    BY SMTT(60), <2>1
<1> QED
  BY <1>3

\* The loop's next webhook is one it has still to do.
LEMMA NextHookOK ==
  ASSUME DInv, NEW n \in Calls, call[n].todo # {}
  PROVE  NextHook(n) \in call[n].todo
<1>1. call[n].todo \in SUBSET Nat
  BY DispatcherConstants DEF DInv, CallInv
<1>2. \E h \in call[n].todo : \A i \in call[n].todo : h <= i
  BY <1>1, LeastHook
<1> QED
  BY <1>2 DEF NextHook

\* A Notify gives up jobs it has not sent: nobody else knows of them.
LEMMA DropKeeps ==
  ASSUME DInv, NEW n \in Calls, NEW c,
         call' = [call EXCEPT ![n] = c],
         c \in [pc : {"new", "list", "check", "send", "returned"}, todo : SUBSET Hooks],
         c.pc # "new" /\ (c.pc = "list" => call[n].pc = "new"),
         c.pc \in {"check", "send"} =>
           c.todo # {} /\ \A h \in c.todo : fate'[<<n, h>>] = "none",
         c.pc = "list" => \A h \in Hooks : fate'[<<n, h>>] = "none",
         fate' = [j \in Jobs |-> fate'[j]],
         \A j \in Jobs : \/ fate'[j] = fate[j]
                         \/ /\ fate[j] = "none" /\ j[1] = n
                            /\ fate'[j] \in {"dropped", "uncounted", "unlisted"},
         UNCHANGED <<queue, agent, stopCh, recorded, posts, early>>
  PROVE  DInv'
<1>1. \A m \in Calls : m # n => call'[m] = call[m] /\ \A h \in Hooks : fate'[<<m, h>>] = fate[<<m, h>>]
  BY DEF DInv, Shape, Jobs
<1>2. call'[n] = c
  BY DEF DInv, Shape
<1>3. CallInv'
  <2> SUFFICES ASSUME NEW m \in Calls
               PROVE  /\ call'[m] \in [pc : {"new", "list", "check", "send", "returned"}, todo : SUBSET Hooks]
                      /\ call'[m].pc \in {"new", "list"} => \A h \in Hooks : fate'[<<m, h>>] = "none"
                      /\ call'[m].pc \in {"check", "send"} =>
                           call'[m].todo # {} /\ \A h \in call'[m].todo : fate'[<<m, h>>] = "none"
    BY DEF CallInv
  <2>1. CASE m = n
    BY <1>2, <2>1
  <2>2. CASE m # n
    BY SMTT(60), <1>1, <2>2 DEF DInv, CallInv
  <2> QED
    BY <2>1, <2>2
<1>4. QueueInv'
  BY SMTT(60) DEF DInv, QueueInv
<1>5. AgentInv'
  <2>1. \A j \in Jobs : fate'[j] = "taken" <=> fate[j] = "taken"
    OBVIOUS
  <2>2. AllExited' = AllExited
    BY DEF AllExited
  <2> QED
    BY SMTT(60), <2>1, <2>2 DEF DInv, AgentInv
<1>6. FateInv' /\ EarlyInv'
  BY DEF DInv, FateInv, EarlyInv, Ended, Fates
<1>7. Shape'
  BY DEF DInv, Shape
<1> QED
  BY <1>3, <1>4, <1>5, <1>6, <1>7 DEF DInv

\* A Notify returns before its loop is over.
LEMMA ReturnKeeps ==
  ASSUME DInv, NEW n \in Calls, Return(n), fate' = [j \in Jobs |-> fate'[j]],
         \A j \in Jobs : \/ fate'[j] = fate[j]
                         \/ /\ fate[j] = "none" /\ j[1] = n
                            /\ fate'[j] \in {"dropped", "uncounted", "unlisted"},
         UNCHANGED <<queue, agent, stopCh, recorded, posts, early>>
  PROVE  DInv'
<1> DEFINE c == [pc |-> "returned", todo |-> {}]
<1>1. /\ c \in [pc : {"new", "list", "check", "send", "returned"}, todo : SUBSET Hooks]
      /\ c.pc = "returned" /\ call' = [call EXCEPT ![n] = c]
  BY DEF Return
<1> HIDE DEF c
<1> QED
  BY <1>1, DropKeeps

\* A job enters the channel.
LEMMA SendKeeps ==
  ASSUME DInv, NEW n \in Calls, call[n].pc = "send", Len(queue) < QueueCapacity,
         NEW j, j = <<n, NextHook(n)>>,
         queue' = Append(queue, j), early' = IF stopCh THEN early ELSE early \cup {j},
         Mark({j}, "queued"), call' = [call EXCEPT ![n] = Advance(n)],
         UNCHANGED <<agent, stopCh, recorded, posts>>
  PROVE  DInv'
<1> DEFINE h == NextHook(n)
<1>1. h \in call[n].todo /\ h \in Hooks
  BY NextHookOK DEF DInv, CallInv
<1>2. j \in Jobs /\ fate[j] = "none"
  BY <1>1 DEF DInv, CallInv, Jobs
<1>3. fate'[j] = "queued" /\ \A i \in Jobs : i # j => fate'[i] = fate[i]
  BY <1>2 DEF Mark
<1>4. Shape'
  BY DEF DInv, Shape, Mark
<1> HIDE DEF h
<1>5. CallInv'
  <2> SUFFICES ASSUME NEW m \in Calls
               PROVE  /\ call'[m] \in [pc : {"new", "list", "check", "send", "returned"}, todo : SUBSET Hooks]
                      /\ call'[m].pc \in {"new", "list"} => \A g \in Hooks : fate'[<<m, g>>] = "none"
                      /\ call'[m].pc \in {"check", "send"} =>
                           call'[m].todo # {} /\ \A g \in call'[m].todo : fate'[<<m, g>>] = "none"
    BY DEF CallInv
  <2>1. CASE m = n
    <3>1. call'[m] = [pc |-> IF call[n].todo = {h} THEN "returned" ELSE "check",
                      todo |-> call[n].todo \ {h}]
      BY <2>1 DEF DInv, Shape, Advance, h
    <3>2. call[n].todo \subseteq Hooks /\ \A g \in call[n].todo : fate[<<n, g>>] = "none"
      BY DEF DInv, CallInv
    <3>3. \A g \in call[n].todo \ {h} : fate'[<<n, g>>] = "none"
      BY <1>3, <3>2 DEF Jobs, h
    <3> QED
      BY SMTT(60), <1>1, <2>1, <3>1, <3>2, <3>3
  <2>2. CASE m # n
    <3>1. call'[m] = call[m] /\ \A g \in Hooks : fate'[<<m, g>>] = fate[<<m, g>>]
      BY <1>3, <2>2 DEF DInv, Shape, Jobs
    <3> QED
      BY <3>1 DEF DInv, CallInv
  <2> QED
    BY <2>1, <2>2
<1>6. QueueInv'
  <2>1. queue \in Seq(Jobs) /\ \A i \in 1 .. Len(queue) : queue[i] # j
    BY <1>2 DEF DInv, QueueInv
  <2>2. /\ queue' \in Seq(Jobs) /\ Len(queue') = Len(queue) + 1 /\ queue'[Len(queue) + 1] = j
        /\ \A i \in 1 .. Len(queue) : queue'[i] = queue[i] /\ queue[i] \in Jobs
    BY SMTT(60), <1>2, <2>1
  <2>3. Len(queue') <= QueueCapacity
    BY SMTT(60), <2>1, <2>2, DispatcherConstants
  <2>4. \A i \in 1 .. Len(queue') : fate'[queue'[i]] = "queued"
    BY SMTT(60), <1>3, <2>1, <2>2 DEF DInv, QueueInv
  <2>5. \A i, k \in 1 .. Len(queue') : queue'[i] = queue'[k] => i = k
    BY SMTT(60), <2>1, <2>2 DEF DInv, QueueInv
  <2>6. \A i \in Jobs : fate'[i] = "queued" => \E k \in 1 .. Len(queue') : queue'[k] = i
    BY SMTT(60), <1>3, <2>1, <2>2 DEF DInv, QueueInv
  <2> QED
    BY <2>2, <2>3, <2>4, <2>5, <2>6 DEF QueueInv
<1>7. AgentInv'
  <2>1. \A i \in Jobs : fate'[i] = "taken" <=> fate[i] = "taken"
    BY <1>2, <1>3
  <2>2. AllExited' = AllExited
    BY DEF AllExited
  <2> QED
    BY <2>1, <2>2 DEF DInv, AgentInv
<1>8. FateInv' /\ EarlyInv'
  BY <1>2, <1>3 DEF DInv, FateInv, EarlyInv, Ended, Fates
<1> QED
  BY <1>4, <1>5, <1>6, <1>7, <1>8 DEF DInv

-----------------------------------------------------------------------------
(* The invariant.                                                           *)

\* Before the first call, with every worker at its select.
LEMMA DInit == Init => DInv
<1> SUFFICES ASSUME Init PROVE DInv
  OBVIOUS
<1>1. Shape /\ EarlyInv /\ FateInv
  BY DEF Init, Shape, EarlyInv, FateInv, Fates, Ended
<1>4. QueueInv
  BY SMTT(60), DispatcherConstants DEF Init, QueueInv
<1>2. CallInv
  BY DEF Init, CallInv, Jobs
<1>3. AgentInv
  <2>1. \A a \in Agents : agent[a] = IF a \in Workers THEN At("select") ELSE At("running")
    BY DEF Init
  <2>2. \A a \in Agents :
          /\ agent[a] \in [pc : Idles(a), job : {NoJob}, failed : {0}, back : Idles(a)]
          /\ agent[a].pc \in {"select", "running"}
    BY SMTT(60), <2>1 DEF At, Idles
  <2>3. ASSUME NEW a \in Agents, a \in Stoppers PROVE agent[a].pc = "running"
    BY SMTT(60), <2>1, <2>3, DispatcherConstants DEF At
  <2>4. \A j \in Jobs : fate[j] = "none"
    BY DEF Init
  <2> QED
    BY SMTT(60), <2>2, <2>3, <2>4 DEF AgentInv, Busy, Agents
<1> QED
  BY <1>1, <1>2, <1>3, <1>4 DEF DInv

\* Notify: each of its steps leaves jobs alone, gives up its own or sends one.
LEMMA NotifySteps ==
  ASSUME DInv, NEW n \in Calls, Notify(n)
  PROVE  DInv'
<1>0. /\ call[n] \in [pc : {"new", "list", "check", "send", "returned"}, todo : SUBSET Hooks]
      /\ call[n].pc \in {"new", "list"} => \A h \in Hooks : fate[<<n, h>>] = "none"
      /\ call[n].pc \in {"check", "send"} =>
           call[n].todo # {} /\ \A h \in call[n].todo : fate[<<n, h>>] = "none"
      /\ fate = [j \in Jobs |-> fate[j]]
  BY DEF DInv, Shape, CallInv
<1>1. CASE NotifyBegin(n)
  <2>1. CASE stopCh /\ Return(n) /\ Mark(JobsOf(n, Hooks), "uncounted")
    <3>1. \A j \in Jobs : \/ fate'[j] = fate[j]
                          \/ fate[j] = "none" /\ j[1] = n /\ fate'[j] = "uncounted"
      BY SMTT(60), <1>0, <1>1, <2>1 DEF NotifyBegin, Mark, JobsOf
    <3>2. fate' = [j \in Jobs |-> fate'[j]]
      BY <2>1 DEF Mark
    <3> QED
      BY <1>1, <2>1, <3>1, <3>2, ReturnKeeps DEF NotifyBegin
  <2>2. CASE ~stopCh /\ call' = [call EXCEPT ![n] = [pc |-> "list", todo |-> {}]] /\ UNCHANGED fate
    <3> DEFINE c == [pc |-> "list", todo |-> {}]
    <3>1. /\ c \in [pc : {"new", "list", "check", "send", "returned"}, todo : SUBSET Hooks]
          /\ c.pc = "list" /\ call[n].pc = "new" /\ call' = [call EXCEPT ![n] = c]
          /\ UNCHANGED <<fate, queue, agent, stopCh, recorded, posts, early>>
      BY <1>1, <2>2 DEF NotifyBegin
    <3> HIDE DEF c
    <3> QED
      BY <1>0, <3>1, DropKeeps
  <2> QED
    BY <1>1, <2>1, <2>2 DEF NotifyBegin
<1>2. CASE NotifyList(n)
  <2>1. CASE /\ call' = [call EXCEPT ![n] = [pc |-> IF Hooks = {} THEN "returned" ELSE "check", todo |-> Hooks]]
             /\ UNCHANGED fate
    <3> DEFINE c == [pc |-> IF Hooks = {} THEN "returned" ELSE "check", todo |-> Hooks]
    <3>1. /\ c \in [pc : {"new", "list", "check", "send", "returned"}, todo : SUBSET Hooks]
          /\ c.pc \in {"check", "returned"} /\ c.todo = Hooks /\ call' = [call EXCEPT ![n] = c]
          /\ c.pc = "check" => Hooks # {}
          /\ UNCHANGED <<fate, queue, agent, stopCh, recorded, posts, early>>
          /\ call[n].pc = "list"
      BY <1>2, <2>1 DEF NotifyList
    <3> HIDE DEF c
    <3> QED
      BY <1>0, <3>1, DropKeeps
  <2>2. CASE Return(n) /\ Mark(JobsOf(n, Hooks), "unlisted")
    <3>1. \A j \in Jobs : \/ fate'[j] = fate[j]
                          \/ fate[j] = "none" /\ j[1] = n /\ fate'[j] = "unlisted"
      BY SMTT(60), <1>0, <1>2, <2>2 DEF NotifyList, Mark, JobsOf
    <3>2. fate' = [j \in Jobs |-> fate'[j]]
      BY <2>2 DEF Mark
    <3> QED
      BY <1>2, <2>2, <3>1, <3>2, ReturnKeeps DEF NotifyList
  <2> QED
    BY <1>2, <2>1, <2>2 DEF NotifyList
<1>3. CASE NotifyCheck(n)
  <2>0. NextHook(n) \in call[n].todo
    BY <1>0, <1>3, NextHookOK DEF NotifyCheck
  <2>1. CASE stopCh
    <3>1. fate' = [j \in Jobs |-> IF j = <<n, NextHook(n)>> THEN "dropped"
                                  ELSE IF j \in JobsOf(n, call[n].todo) THEN "uncounted" ELSE fate[j]]
      BY <1>3, <2>1 DEF NotifyCheck
    <3>2. \A j \in Jobs : \/ fate'[j] = fate[j]
                          \/ /\ fate[j] = "none" /\ j[1] = n
                             /\ fate'[j] \in {"dropped", "uncounted", "unlisted"}
      BY SMTT(60), <1>0, <1>3, <2>0, <3>1 DEF NotifyCheck, JobsOf
    <3>3. fate' = [j \in Jobs |-> fate'[j]]
      BY <3>1
    <3> QED
      BY <1>3, <2>1, <3>2, <3>3, ReturnKeeps DEF NotifyCheck
  <2>2. CASE ~stopCh
    <3> DEFINE c == [pc |-> "send", todo |-> call[n].todo]
    <3>1. /\ c \in [pc : {"new", "list", "check", "send", "returned"}, todo : SUBSET Hooks]
          /\ c.pc = "send" /\ c.todo = call[n].todo /\ call' = [call EXCEPT ![n] = c]
          /\ UNCHANGED <<fate, queue, agent, stopCh, recorded, posts, early>>
          /\ call[n].pc = "check"
      BY <1>0, <1>3, <2>2 DEF NotifyCheck
    <3> HIDE DEF c
    <3> QED
      BY <1>0, <3>1, DropKeeps
  <2> QED
    BY <2>1, <2>2
<1>4. CASE NotifySend(n)
  <2>0. NextHook(n) \in call[n].todo
    BY <1>0, <1>4, NextHookOK DEF NotifySend
  <2>1. CASE Len(queue) < QueueCapacity
    <3>1. Len(queue) # QueueCapacity
      BY SMTT(60), <2>1, DispatcherConstants
    <3> QED
      BY <1>4, <2>1, <3>1, SendKeeps DEF NotifySend
  <2>2. CASE ~(Len(queue) < QueueCapacity)
    <3>1. /\ call' = [call EXCEPT ![n] = Advance(n)] /\ Mark({<<n, NextHook(n)>>}, "dropped")
          /\ UNCHANGED <<queue, agent, stopCh, recorded, posts, early>>
          /\ call[n].pc = "send"
      BY <1>4, <2>2 DEF NotifySend
    <3>2. \A j \in Jobs : \/ fate'[j] = fate[j]
                          \/ fate[j] = "none" /\ j[1] = n /\ fate'[j] = "dropped"
      BY SMTT(60), <1>0, <2>0, <3>1 DEF Mark
    <3>3. fate' = [j \in Jobs |-> fate'[j]]
      BY <3>1 DEF Mark
    <3>4. /\ Advance(n) \in [pc : {"new", "list", "check", "send", "returned"}, todo : SUBSET Hooks]
          /\ Advance(n).pc \in {"check", "returned"}
          /\ Advance(n).pc = "check" => Advance(n).todo # {}
          /\ Advance(n).todo = call[n].todo \ {NextHook(n)}
      BY <1>0, <2>0 DEF Advance
    <3>5. \A h \in Advance(n).todo : fate'[<<n, h>>] = "none"
      BY <1>0, <3>1, <3>4 DEF Mark, Jobs
    <3> QED
      BY ZenonT(60), <3>1, <3>2, <3>3, <3>4, <3>5, DropKeeps
  <2> QED
    BY <2>1, <2>2
<1> QED
  BY <1>1, <1>2, <1>3, <1>4 DEF Notify

\* deliver: one attempt, and the wait before the next one.
LEMMA DeliverSteps ==
  ASSUME DInv, NEW a \in Agents, Post(a) \/ Backoff(a)
  PROVE  DInv'
<1>0. agent[a].pc \in Busy
  BY DEF Post, Backoff, Busy
<1> DEFINE j == agent[a].job
<1>1. /\ agent[a] \in [pc : Busy \cup Idles(a), job : Jobs \cup {NoJob}, failed : Nat,
                       back : Homes(a) \cup Idles(a)]
      /\ j \in Jobs /\ agent[a].failed = posts[j] /\ agent[a].failed < MaxRetries
      /\ agent[a].pc = "wait" => agent[a].failed > 0
      /\ posts = [i \in Jobs |-> posts[i]]
  BY <1>0 DEF DInv, AgentInv, Shape
<1> HIDE DEF j
<1>2. CASE Post(a)
  <2> DEFINE n == agent[a].failed + 1
  <2>0. /\ n \in Nat \ {0} /\ posts' = [posts EXCEPT ![agent[a].job] = n]
        /\ UNCHANGED <<call, queue, stopCh, early>>
    BY SMTT(60), <1>1, <1>2 DEF Post, j
  <2>1. CASE Finish(a, "delivered", TRUE)
    BY <1>0, <2>0, <2>1, FinishKeeps DEF Ended
  <2>2. CASE LastAttempt(a) /\ Finish(a, "failed", TRUE)
    BY <1>0, <2>0, <2>2, FinishKeeps DEF Ended, LastAttempt
  <2>3. CASE /\ ~LastAttempt(a) /\ UNCHANGED <<fate, recorded>>
             /\ agent' = [agent EXCEPT ![a] = Attempt(a, "wait", agent[a].failed + 1)]
    <3>1. agent' = [agent EXCEPT ![a] = [pc |-> "wait", job |-> agent[a].job, failed |-> n,
                                         back |-> agent[a].back]]
      BY <2>3 DEF Attempt
    <3>2. n < MaxRetries
      BY SMTT(60), <1>1, <2>3, DispatcherConstants DEF LastAttempt
    <3>3. n \in Nat /\ n > 0
      BY SMTT(60), <2>0
    <3> HIDE DEF n
    <3> QED
      BY <1>0, <2>0, <2>3, <3>1, <3>2, <3>3, RetryKeeps DEF Busy
  <2> QED
    BY <1>2, <2>1, <2>2, <2>3 DEF Post
<1>3. CASE Backoff(a)
  <2>0. /\ UNCHANGED <<call, queue, stopCh, early>>
        /\ posts' = [posts EXCEPT ![agent[a].job] = agent[a].failed]
        /\ agent[a].failed \in Nat \ {0} /\ agent[a].failed < MaxRetries
    BY SMTT(60), <1>1, <1>3 DEF Backoff, j
  <2>1. CASE /\ agent' = [agent EXCEPT ![a] = Attempt(a, "post", agent[a].failed)]
             /\ UNCHANGED <<fate, recorded>>
    <3>1. agent' = [agent EXCEPT ![a] = [pc |-> "post", job |-> agent[a].job, failed |-> agent[a].failed,
                                         back |-> agent[a].back]]
      BY <2>1 DEF Attempt
    <3> QED
      BY <1>0, <2>0, <2>1, <3>1, RetryKeeps DEF Busy
  <2>2. CASE stopCh /\ Finish(a, "aborted", FALSE)
    BY <1>0, <2>0, <2>2, FinishKeeps DEF Ended
  <2> QED
    BY <1>3, <2>1, <2>2 DEF Backoff
<1> QED
  BY <1>2, <1>3

\* The workers and Stop: they receive, or move on.
LEMMA WorkerSteps ==
  ASSUME DInv, NEW w \in Workers, WorkerSelect(w) \/ WorkerDrain(w)
  PROVE  DInv'
<1>0. w \in Agents /\ w \notin Stoppers /\ stopCh \in BOOLEAN
  BY DispatcherConstants DEF Agents, DInv, Shape
<1>1. CASE Receive(w)
  <2>1. agent[w].pc \in Homes(w)
    BY DEF WorkerSelect, WorkerDrain, Homes
  <2> QED
    BY <1>0, <1>1, <2>1, ReceiveKeeps
<1>2. CASE ~Receive(w)
  <2>1. PICK pc \in {"drain", "exited"} :
          /\ agent' = [agent EXCEPT ![w] = At(pc)]
          /\ UNCHANGED <<call, queue, stopCh, recorded, posts, fate, early>>
    BY <1>2 DEF WorkerSelect, WorkerDrain
  <2>2. agent[w].pc \notin Busy \cup {"exited"}
    BY DEF WorkerSelect, WorkerDrain, Busy
  <2>3. pc \in Idles(w)
    BY <2>1 DEF Idles
  <2> QED
    BY <1>0, <2>1, <2>2, <2>3, AgentMoves
<1> QED
  BY <1>1, <1>2

\* Stop closes stopCh, waits for the workers and sweeps.
LEMMA StopSteps ==
  ASSUME DInv, NEW s \in Stoppers, StopBegin(s) \/ StopWait(s) \/ StopSweep(s)
  PROVE  DInv'
<1>0. /\ s \in Agents /\ s \notin Workers /\ stopCh \in BOOLEAN
      /\ agent[s].pc # "running" => stopCh
      /\ agent[s].pc = "sweep" => AllExited
  BY DispatcherConstants DEF Agents, DInv, Shape, AgentInv
<1>1. CASE Receive(s) /\ agent[s].pc = "sweep"
  <2>1. agent[s].pc \in Homes(s)
    BY <1>0, <1>1 DEF Homes
  <2> QED
    BY <1>0, <1>1, <2>1, ReceiveKeeps
<1>2. CASE ~(Receive(s) /\ agent[s].pc = "sweep")
  <2>1. PICK pc \in {"stopping", "sweep", "timedOut", "stopped"} :
          /\ agent' = [agent EXCEPT ![s] = At(pc)]
          /\ pc \in {"sweep", "stopped"} => AllExited
          /\ UNCHANGED <<call, queue, recorded, posts, fate, early>>
          /\ stopCh' = TRUE
    BY <1>0, <1>2 DEF StopBegin, StopWait, StopSweep
  <2>2. agent[s].pc \notin Busy \cup {"exited"}
    BY DEF StopBegin, StopWait, StopSweep, Busy
  <2>3. pc \in Idles(s)
    BY <1>0, <2>1 DEF Idles
  <2> QED
    BY <1>0, <2>1, <2>2, <2>3, AgentMoves
<1> QED
  BY <1>1, <1>2

\* Every step of a call, a worker or a Stop.
LEMMA DStep == DInv /\ [Next]_vars => DInv'
<1> SUFFICES ASSUME DInv, [Next]_vars PROVE DInv'
  OBVIOUS
<1>1. ASSUME NEW n \in Calls, Notify(n) PROVE DInv'
  BY <1>1, NotifySteps
<1>2. ASSUME NEW w \in Workers, Worker(w) PROVE DInv'
  <2>1. w \in Agents
    BY DEF Agents
  <2> QED
    BY <1>2, <2>1, WorkerSteps, DeliverSteps DEF Worker
<1>3. ASSUME NEW s \in Stoppers, Stop(s) PROVE DInv'
  <2>1. s \in Agents
    BY DEF Agents
  <2> QED
    BY <1>3, <2>1, StopSteps, DeliverSteps DEF Stop
<1>4. CASE UNCHANGED vars
  <2>1. Shape' /\ CallInv' /\ QueueInv' /\ EarlyInv'
    BY <1>4 DEF DInv, Shape, CallInv, QueueInv, EarlyInv, vars
  <2>2. AgentInv' /\ FateInv'
    BY <1>4 DEF DInv, AgentInv, FateInv, AllExited, vars
  <2> QED
    BY <2>1, <2>2 DEF DInv
<1> QED
  BY <1>1, <1>2, <1>3, <1>4 DEF Next

\* Every job is in one place, and its attempts are counted where it is.
THEOREM DispatcherInvariant == Spec => []DInv
  BY DInit, DStep, PTL DEF Spec

-----------------------------------------------------------------------------
(* A job ends as its attempts say.                                          *)

\* Stop is called once (server.go calls it when the server shuts down).
OneStopper == \A s, t \in Stoppers : s = t

\* A Stop that returned without a timeout left no job sent before it unposted.
SweptInv == \A s \in Stoppers, j \in early : agent[s].pc = "stopped" => posts[j] > 0

\* The only Stop returns when it finds the channel empty, every worker gone and
\* nothing in its own hands.
LEMMA SweptStep ==
  ASSUME OneStopper, DInv, DInv', SweptInv, [Next]_vars
  PROVE  SweptInv'
<1> SUFFICES ASSUME NEW s \in Stoppers, NEW j \in early', agent'[s].pc = "stopped"
             PROVE  posts'[j] > 0
  BY DEF SweptInv
<1>0. s \in Agents /\ s \notin Workers /\ j \in Jobs
  BY DispatcherConstants DEF Agents, DInv, EarlyInv
<1>1. CASE agent[s].pc = "stopped"
  <2>1. stopCh
    BY <1>1 DEF DInv, AgentInv
  <2>2. early' = early
    BY <2>1 DEF Next, vars, Notify, NotifyBegin, NotifyList, NotifyCheck, NotifySend, Worker, Stop,
       WorkerSelect, WorkerDrain, Receive, Post, Backoff, StopBegin, StopWait, StopSweep
  <2>3. posts[j] > 0 /\ posts[j] \in Nat
    BY <1>0, <1>1, <2>2 DEF SweptInv, DInv, FateInv
  <2>4. posts'[j] = posts[j] \/ posts'[j] = posts[j] + 1
    <3>1. posts' = posts \/ \E a \in Agents : posts' = [posts EXCEPT ![agent[a].job] = @ + 1]
      BY DEF Next, vars, Notify, NotifyBegin, NotifyList, NotifyCheck, NotifySend, Worker, Stop, Agents,
         WorkerSelect, WorkerDrain, Receive, Post, Backoff, StopBegin, StopWait, StopSweep
    <3> QED
      BY <1>0, <3>1 DEF DInv, Shape
  <2> QED
    BY SMTT(60), <2>3, <2>4
<1>2. CASE agent[s].pc # "stopped"
  <2>1. StopSweep(s) /\ ~Receive(s)
    <3>1. ASSUME NEW a \in Agents, Receive(a) PROVE FALSE
      <4>1. agent'[a].pc = "post"
        BY <3>1 DEF Receive, DInv, Shape
      <4>2. a # s => agent'[s] = agent[s]
        BY <1>0, <3>1 DEF Receive, DInv, Shape
      <4> QED
        BY <1>2, <4>1, <4>2
    <3>2. ASSUME NEW a \in Agents, Post(a) \/ Backoff(a) PROVE FALSE
      <4>1. a # s => agent'[s] = agent[s]
        BY <1>0, <3>2 DEF Post, Backoff, Finish, DInv, Shape
      <4>2. a = s => agent'[s].pc \in {"post", "wait", agent[s].back}
        <5>1. \/ agent' = [agent EXCEPT ![a] = At(agent[a].back)]
              \/ \E pc \in {"post", "wait"} : \E n : agent' = [agent EXCEPT ![a] = Attempt(a, pc, n)]
          BY <3>2 DEF Post, Backoff, Finish
        <5> QED
          BY SMTT(60), <1>0, <5>1 DEF DInv, Shape, At, Attempt
      <4>3. a = s => agent[s].back = "sweep"
        <5>1. agent[a].pc \in Busy
          BY <3>2 DEF Post, Backoff, Busy
        <5>2. agent[a].back \in Homes(a)
          BY <5>1 DEF DInv, AgentInv
        <5> QED
          BY <1>0, <5>2 DEF Homes
      <4> QED
        BY <1>2, <4>1, <4>2, <4>3
    <3>3. ASSUME NEW w \in Workers, NEW pc, agent' = [agent EXCEPT ![w] = At(pc)] PROVE FALSE
      <4>1. agent'[s] = agent[s]
        BY <1>0, <3>3 DEF DInv, Shape
      <4> QED
        BY <1>2, <4>1
    <3>4. ~UNCHANGED agent
      BY <1>2
    <3>5. ASSUME NEW t \in Stoppers, NEW pc \in {"stopping", "sweep", "timedOut"},
                 agent' = [agent EXCEPT ![t] = At(pc)]
          PROVE  FALSE
      <4>1. agent'[s].pc = pc
        BY <1>0, <3>5 DEF DInv, Shape, OneStopper, At
      <4> QED
        BY <4>1
    <3>6. \E t \in Stoppers : StopSweep(t)
      BY <3>1, <3>2, <3>3, <3>4, <3>5 DEF Next, vars, Notify, NotifyBegin, NotifyList, NotifyCheck, NotifySend,
         Worker, Stop, Agents, WorkerSelect, WorkerDrain, StopBegin, StopWait
    <3> QED
      BY <1>0, <3>1, <3>6 DEF OneStopper
  <2>2. queue = <<>> /\ agent[s].pc = "sweep" /\ UNCHANGED <<early, posts>>
    BY <2>1 DEF StopSweep
  <2>3. fate[j] # "queued"
    BY SMTT(60), <1>0, <2>2 DEF DInv, QueueInv
  <2>4. fate[j] # "taken"
    <3>1. AllExited
      BY <1>0, <2>2 DEF DInv, AgentInv
    <3>2. \A a \in Agents : agent[a].pc \notin Busy
      BY <2>2, <3>1 DEF AllExited, Agents, Busy, OneStopper
    <3> QED
      BY <1>0, <3>2 DEF DInv, AgentInv
  <2>5. fate[j] \in Ended
    BY <2>2, <2>3, <2>4 DEF DInv, EarlyInv
  <2> QED
    BY <1>0, <2>2, <2>5 DEF DInv, FateInv
<1> QED
  BY <1>1, <1>2

\* With one call of Stop, the attempts of every job fit its end, and a Stop that
\* returned in time left no job sent before it without a post.
THEOREM OutcomesExplained == OneStopper => (Spec => []OutcomeExplained)
<1> SUFFICES ASSUME OneStopper PROVE Spec => []OutcomeExplained
  OBVIOUS
<1>1. Init => SweptInv
  BY DEF Init, SweptInv
<1>2. DInv /\ DInv' /\ SweptInv /\ [Next]_vars => SweptInv'
  BY SweptStep
<1>3. DInv /\ SweptInv => OutcomeExplained
  BY DEF DInv, FateInv, SweptInv, OutcomeExplained, Ended
<1> QED
  BY <1>1, <1>2, <1>3, DispatcherInvariant, PTL DEF Spec

-----------------------------------------------------------------------------
(* The dispatcher implements Delivery.                                      *)

\* The jobs accepted and not ended are in the channel or in somebody's hands.
LEMMA BacklogBound ==
  ASSUME DInv, Len(queue) < QueueCapacity
  PROVE  Cardinality({j \in Jobs : fate[j] \in {"queued", "taken"}}) < QueueCapacity + Cardinality(Agents)
<1> DEFINE P == {j \in Jobs : fate[j] \in {"queued", "taken"}}
           Q == {j \in Jobs : fate[j] = "queued"}
           T == {j \in Jobs : fate[j] = "taken"}
           B == {a \in Agents : agent[a].pc \in Busy}
           f == [i \in 1 .. Len(queue) |-> queue[i]]
           g == [a \in B |-> agent[a].job]
<1>1. Len(queue) \in Nat
  BY SMTT(60) DEF DInv, QueueInv
<1>2. IsFiniteSet(1 .. Len(queue)) /\ Cardinality(1 .. Len(queue)) = Len(queue)
  <2>1. IsFiniteSet(1 .. Len(queue)) /\ Cardinality(1 .. Len(queue)) = IF 1 > Len(queue) THEN 0 ELSE Len(queue) - 1 + 1
    <3>1. 1 \in Int /\ Len(queue) \in Int
      BY SMTT(60), <1>1
    <3> QED
      BY <3>1, FS_Interval
  <2> QED
    BY SMTT(60), <1>1, <2>1
<1>3. f \in Surjection(1 .. Len(queue), Q)
  <2>1. queue \in Seq(Jobs) /\ \A i \in 1 .. Len(queue) : queue[i] \in Jobs /\ fate[queue[i]] = "queued"
    BY SMTT(60) DEF DInv, QueueInv
  <2>2. f \in [1 .. Len(queue) -> Q]
    BY <2>1
  <2>3. ASSUME NEW j \in Q PROVE \E i \in 1 .. Len(queue) : f[i] = j
    BY DEF DInv, QueueInv
  <2> HIDE DEF f, Q
  <2> QED
    BY <2>2, <2>3 DEF Surjection
<1>4. IsFiniteSet(Q) /\ Cardinality(Q) <= Len(queue)
  <2> HIDE DEF f, Q
  <2> QED
    BY SMTT(60), <1>2, <1>3, FS_Surjection
<1>5. IsFiniteSet(Agents)
  BY DispatcherConstants, FS_Union DEF Agents
<1>6. IsFiniteSet(B) /\ Cardinality(B) <= Cardinality(Agents)
  <2>1. B \in SUBSET Agents
    OBVIOUS
  <2> HIDE DEF B
  <2> QED
    BY <1>5, <2>1, FS_Subset
<1>7. g \in Surjection(B, T)
  BY DEF DInv, AgentInv, Surjection
<1>8. IsFiniteSet(T) /\ Cardinality(T) <= Cardinality(B)
  <2> HIDE DEF g, T, B
  <2> QED
    BY <1>6, <1>7, FS_Surjection
<1>9. P = Q \cup T
  OBVIOUS
<1> HIDE DEF P, Q, T, B
<1>10. Cardinality(P) = Cardinality(Q) + Cardinality(T) - Cardinality(Q \cap T)
  BY <1>4, <1>8, <1>9, FS_Union
<1>11. IsFiniteSet(Q \cap T)
  <2>1. Q \cap T \in SUBSET Q
    OBVIOUS
  <2> QED
    BY <1>4, <2>1, FS_Subset
<1>12. /\ Cardinality(Q) \in Nat /\ Cardinality(T) \in Nat /\ Cardinality(Q \cap T) \in Nat
       /\ Cardinality(B) \in Nat /\ Cardinality(Agents) \in Nat
  BY <1>4, <1>5, <1>6, <1>8, <1>11, FS_CardinalityType
<1>13. Cardinality(P) < QueueCapacity + Cardinality(Agents)
  BY SMTT(60), <1>1, <1>4, <1>6, <1>8, <1>10, <1>12, DispatcherConstants
<1> QED
  BY <1>13 DEF P

\* What a caller can tell of a job, for each thing that can become of it.
LEMMA States ==
  /\ StateOf("none") = "none" /\ StateOf("delivered") = "delivered"
  /\ StateOf("queued") = "pending" /\ StateOf("taken") = "pending"
  /\ StateOf("failed") = "gaveUp" /\ StateOf("aborted") = "gaveUp"
  /\ StateOf("uncounted") = "dropped" /\ StateOf("unlisted") = "dropped" /\ StateOf("dropped") = "dropped"
  BY DEF StateOf

\* Giving up jobs of a call is Drop, of any set of untouched jobs.
LEMMA DropImplements ==
  ASSUME DInv, fate' = [j \in Jobs |-> fate'[j]],
         \A j \in Jobs : \/ fate'[j] = fate[j]
                         \/ fate[j] = "none" /\ fate'[j] \in {"dropped", "uncounted", "unlisted"},
         UNCHANGED <<posts, stopCh>>
  PROVE  Promise!Next
<1> DEFINE js == {j \in Jobs : fate'[j] # fate[j]}
           st == [j \in Jobs |-> StateOf(fate[j])]
<1>1. \A j \in js : st[j] = "none"
  BY States
<1>2. [j \in Jobs |-> StateOf(fate'[j])] = [j \in Jobs |-> IF j \in js THEN "dropped" ELSE st[j]]
  <2>1. ASSUME NEW j \in Jobs PROVE StateOf(fate'[j]) = IF j \in js THEN "dropped" ELSE st[j]
    BY States
  <2> HIDE DEF js, st
  <2> QED
    BY <2>1
<1>3. Promise!Drop(js)
  <2> HIDE DEF js
  <2> QED
    BY <1>1, <1>2 DEF Promise!Drop
<1>4. js \in SUBSET Jobs
  OBVIOUS
<1> QED
  BY <1>3, <1>4 DEF Promise!Next

\* Delivery's Cardinality is the one of FiniteSets.
LEMMA SameCardinality ==
  ASSUME NEW S
  PROVE  Promise!Cardinality(S) = Cardinality(S)
  BY DEF Promise!Cardinality, Cardinality

\* Sending a job is Accept.
LEMMA AcceptImplements ==
  ASSUME DInv, NEW j \in Jobs, fate[j] = "none", Len(queue) < QueueCapacity,
         Mark({j}, "queued"), UNCHANGED <<posts, stopCh>>
  PROVE  Promise!Next
<1> DEFINE st == [i \in Jobs |-> StateOf(fate[i])]
<1>1. st[j] = "none"
  BY States
<1>2. {i \in Jobs : st[i] = "pending"} = {i \in Jobs : fate[i] \in {"queued", "taken"}}
  <2>1. ASSUME NEW i \in Jobs PROVE st[i] = "pending" <=> fate[i] \in {"queued", "taken"}
    BY States DEF DInv, FateInv, Fates
  <2> QED
    BY <2>1
<1>3. [i \in Jobs |-> StateOf(fate'[i])] = [st EXCEPT ![j] = "pending"]
  BY States DEF Mark
<1>4. Cardinality({i \in Jobs : st[i] = "pending"}) < QueueCapacity + Cardinality(Agents)
  BY <1>2, BacklogBound
<1>5. Promise!Accept(j)
  BY <1>1, <1>3, <1>4, SameCardinality DEF Promise!Accept
<1> QED
  BY <1>5 DEF Promise!Next

\* An attempt is Try, with the outcome of the attempt.
LEMMA TryImplements ==
  ASSUME DInv, NEW j \in Jobs, fate[j] = "taken", posts[j] < MaxRetries,
         posts' = [posts EXCEPT ![j] = @ + 1], NEW o \in {"taken", "delivered", "failed"},
         fate' = [i \in Jobs |-> IF i \in {j} THEN o ELSE fate[i]],
         o = "failed" => posts[j] + 1 = MaxRetries, o = "taken" => posts[j] + 1 < MaxRetries,
         UNCHANGED stopCh
  PROVE  Promise!Next
<1> DEFINE st == [i \in Jobs |-> StateOf(fate[i])]
<1>1. st[j] = "pending"
  BY States
<1>2. [i \in Jobs |-> StateOf(fate'[i])] = [st EXCEPT ![j] = StateOf(o)]
  OBVIOUS
<1>3. /\ StateOf(o) \in {"pending", "delivered", "gaveUp"}
      /\ StateOf(o) = "gaveUp" => o = "failed"
      /\ StateOf(o) = "pending" => o = "taken"
  BY States
<1>4. Promise!Try(j, StateOf(o))
  BY <1>1, <1>2, <1>3 DEF Promise!Try
<1> QED
  BY <1>3, <1>4 DEF Promise!Next

\* Giving up the retries when Stop closed the channel is Abandon.
LEMMA AbandonImplements ==
  ASSUME DInv, NEW j \in Jobs, fate[j] = "taken", stopCh, posts[j] > 0,
         Mark({j}, "aborted"), UNCHANGED <<posts, stopCh>>
  PROVE  Promise!Next
<1> DEFINE st == [i \in Jobs |-> StateOf(fate[i])]
<1>1. st[j] = "pending"
  BY States
<1>2. [i \in Jobs |-> StateOf(fate'[i])] = [st EXCEPT ![j] = "gaveUp"]
  BY States DEF Mark
<1>3. Promise!Abandon(j)
  BY <1>1, <1>2 DEF Promise!Abandon
<1> QED
  BY <1>3 DEF Promise!Next

\* Receiving a job changes nothing a caller can tell.
LEMMA ReceiveImplements ==
  ASSUME DInv, NEW a \in Agents, Receive(a)
  PROVE  UNCHANGED Promise!dvars
<1>1. Head(queue) \in Jobs /\ fate[Head(queue)] = "queued"
  BY SMTT(60) DEF DInv, QueueInv, Receive
<1>2. [i \in Jobs |-> StateOf(fate'[i])] = [i \in Jobs |-> StateOf(fate[i])]
  BY <1>1, States DEF Receive, Mark
<1> QED
  BY <1>2 DEF Receive, Promise!dvars

\* deliver: its attempts and its waits.
LEMMA DeliverImplements ==
  ASSUME DInv, NEW a \in Agents, Post(a) \/ Backoff(a)
  PROVE  [Promise!Next]_Promise!dvars
<1> DEFINE j == agent[a].job
<1>0. agent[a].pc \in Busy
  BY DEF Post, Backoff, Busy
<1>1. /\ j \in Jobs /\ fate[j] = "taken" /\ posts[j] \in Nat
      /\ agent[a].failed = posts[j] /\ posts[j] < MaxRetries
      /\ agent[a].pc = "wait" => posts[j] > 0
      /\ fate = [i \in Jobs |-> fate[i]]
  BY <1>0 DEF DInv, AgentInv, FateInv, Shape
<1>2. CASE Post(a)
  <2>1. posts' = [posts EXCEPT ![j] = @ + 1] /\ UNCHANGED stopCh
    BY <1>2 DEF Post
  <2>2. PICK o \in {"taken", "delivered", "failed"} :
          /\ fate' = [i \in Jobs |-> IF i \in {j} THEN o ELSE fate[i]]
          /\ o = "failed" => LastAttempt(a)
          /\ o = "taken" => ~LastAttempt(a)
    <3>1. CASE Finish(a, "delivered", TRUE)
      BY <3>1 DEF Finish, Mark
    <3>2. CASE LastAttempt(a) /\ Finish(a, "failed", TRUE)
      BY <3>2 DEF Finish, Mark
    <3>3. CASE ~LastAttempt(a) /\ UNCHANGED fate
      <4>1. fate' = [i \in Jobs |-> IF i \in {j} THEN "taken" ELSE fate[i]]
        BY <1>1, <3>3
      <4> QED
        BY <3>3, <4>1
    <3> QED
      BY <1>2, <3>1, <3>2, <3>3 DEF Post
  <2>3. /\ o = "failed" => posts[j] + 1 = MaxRetries
        /\ o = "taken" => posts[j] + 1 < MaxRetries
    BY SMTT(60), <1>1, <2>2, DispatcherConstants DEF LastAttempt
  <2> HIDE DEF j
  <2> QED
    BY <1>1, <2>1, <2>2, <2>3, TryImplements
<1>3. CASE Backoff(a)
  <2>1. CASE UNCHANGED fate
    BY <1>3, <2>1 DEF Backoff, Promise!dvars
  <2>2. CASE stopCh /\ Finish(a, "aborted", FALSE)
    <3>1. Mark({j}, "aborted") /\ UNCHANGED <<posts, stopCh>> /\ posts[j] > 0
      BY <1>1, <1>3, <2>2 DEF Backoff, Finish
    <3> HIDE DEF j
    <3> QED
      BY <1>1, <2>2, <3>1, AbandonImplements
  <2> QED
    BY <1>3, <2>1, <2>2 DEF Backoff
<1> QED
  BY <1>2, <1>3

\* Notify: its sends are Accept, what it gives up is Drop.
LEMMA NotifyImplements ==
  ASSUME DInv, NEW n \in Calls, Notify(n)
  PROVE  [Promise!Next]_Promise!dvars
<1>0. /\ call[n] \in [pc : {"new", "list", "check", "send", "returned"}, todo : SUBSET Hooks]
      /\ call[n].pc \in {"new", "list"} => \A h \in Hooks : fate[<<n, h>>] = "none"
      /\ call[n].pc \in {"check", "send"} =>
           call[n].todo # {} /\ \A h \in call[n].todo : fate[<<n, h>>] = "none"
  BY DEF DInv, CallInv
<1>1. UNCHANGED <<posts, stopCh>>
  BY DEF Notify, NotifyBegin, NotifyList, NotifyCheck, NotifySend
<1>2. CASE UNCHANGED fate
  BY <1>1, <1>2 DEF Promise!dvars
<1>3. ASSUME NEW f \in {"uncounted", "unlisted"}, Mark(JobsOf(n, Hooks), f), call[n].pc \in {"new", "list"}
      PROVE  Promise!Next
  <2>1. \A j \in Jobs : \/ fate'[j] = fate[j]
                        \/ fate[j] = "none" /\ fate'[j] \in {"dropped", "uncounted", "unlisted"}
    BY <1>0, <1>3 DEF Mark, JobsOf
  <2>2. fate' = [j \in Jobs |-> fate'[j]]
    BY <1>3 DEF Mark
  <2> QED
    BY <1>1, <2>1, <2>2, DropImplements
<1>4. CASE NotifyBegin(n)
  BY <1>2, <1>3, <1>4 DEF NotifyBegin
<1>5. CASE NotifyList(n)
  BY <1>2, <1>3, <1>5 DEF NotifyList
<1>6. CASE NotifyCheck(n)
  <2>0. NextHook(n) \in call[n].todo
    BY <1>0, <1>6, NextHookOK DEF NotifyCheck
  <2>1. CASE stopCh
    <3>1. fate' = [j \in Jobs |-> IF j = <<n, NextHook(n)>> THEN "dropped"
                                  ELSE IF j \in JobsOf(n, call[n].todo) THEN "uncounted" ELSE fate[j]]
      BY <1>6, <2>1 DEF NotifyCheck
    <3>2. \A j \in Jobs : \/ fate'[j] = fate[j]
                          \/ fate[j] = "none" /\ fate'[j] \in {"dropped", "uncounted", "unlisted"}
      BY <1>0, <1>6, <2>0, <3>1 DEF NotifyCheck, JobsOf
    <3>3. fate' = [j \in Jobs |-> fate'[j]]
      BY <3>1
    <3> QED
      BY <1>1, <3>2, <3>3, DropImplements
  <2>2. CASE ~stopCh
    BY <1>2, <1>6, <2>2 DEF NotifyCheck
  <2> QED
    BY <2>1, <2>2
<1>7. CASE NotifySend(n)
  <2> DEFINE j == <<n, NextHook(n)>>
  <2>0. NextHook(n) \in call[n].todo /\ call[n].pc = "send"
    BY <1>0, <1>7, NextHookOK DEF NotifySend
  <2>1. j \in Jobs /\ fate[j] = "none"
    BY <1>0, <2>0 DEF Jobs
  <2>2. \/ Len(queue) < QueueCapacity /\ Mark({j}, "queued")
        \/ Mark({j}, "dropped")
    BY <1>7 DEF NotifySend
  <2> HIDE DEF j
  <2>3. CASE Len(queue) < QueueCapacity /\ Mark({j}, "queued")
    BY <1>1, <2>1, <2>3, AcceptImplements
  <2>4. CASE Mark({j}, "dropped")
    <3>1. \A i \in Jobs : \/ fate'[i] = fate[i]
                          \/ fate[i] = "none" /\ fate'[i] \in {"dropped", "uncounted", "unlisted"}
      BY <2>1, <2>4 DEF Mark
    <3>2. fate' = [i \in Jobs |-> fate'[i]]
      BY <2>4 DEF Mark
    <3> QED
      BY <1>1, <3>1, <3>2, DropImplements
  <2> QED
    BY <2>2, <2>3, <2>4
<1> QED
  BY <1>4, <1>5, <1>6, <1>7 DEF Notify

\* Whatever the calls, the webhooks, the pool, the channel's capacity and the number
\* of Stops, a caller sees best-effort delivery with a bounded backlog.
THEOREM DispatcherImplements == Spec => KeepsPromise
<1>1. Init => Promise!Init
  BY States DEF Init, Promise!Init
<1>2. DInv /\ [Next]_vars => [Promise!Next]_Promise!dvars
  <2> SUFFICES ASSUME DInv, [Next]_vars PROVE [Promise!Next]_Promise!dvars
    OBVIOUS
  <2>1. ASSUME NEW n \in Calls, Notify(n) PROVE [Promise!Next]_Promise!dvars
    BY <2>1, NotifyImplements
  <2>2. ASSUME NEW a \in Agents, Post(a) \/ Backoff(a) PROVE [Promise!Next]_Promise!dvars
    BY <2>2, DeliverImplements
  <2>3. ASSUME NEW a \in Agents, Receive(a) PROVE [Promise!Next]_Promise!dvars
    BY <2>3, ReceiveImplements
  <2>4. ASSUME UNCHANGED <<posts, fate, stopCh>> PROVE [Promise!Next]_Promise!dvars
    BY <2>4 DEF Promise!dvars
  <2>5. ASSUME NEW w \in Workers, Worker(w) PROVE [Promise!Next]_Promise!dvars
    <3>1. w \in Agents
      BY DEF Agents
    <3> QED
      BY <2>2, <2>3, <2>4, <2>5, <3>1 DEF Worker, WorkerSelect, WorkerDrain
  <2>6. ASSUME NEW s \in Stoppers, Stop(s) PROVE [Promise!Next]_Promise!dvars
    <3>1. s \in Agents
      BY DEF Agents
    <3>2. CASE StopBegin(s)
      <4>1. Promise!Close
        BY <3>2 DEF StopBegin, Promise!Close
      <4> QED
        BY <4>1 DEF Promise!Next
    <3> QED
      BY <2>2, <2>3, <2>4, <2>6, <3>1, <3>2 DEF Stop, StopWait, StopSweep
  <2> QED
    BY <2>1, <2>4, <2>5, <2>6 DEF Next, vars
<1> QED
  BY <1>1, <1>2, DispatcherInvariant, PTL DEF Spec, KeepsPromise, Promise!Spec

=============================================================================
