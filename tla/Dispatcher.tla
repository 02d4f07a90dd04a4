----------------------------- MODULE Dispatcher -----------------------------
(***************************************************************************)
(* internal/webhooks/dispatcher.go: Notify calls from request handlers     *)
(* enqueue delivery jobs on a bounded channel, a fixed pool of workers     *)
(* posts them with retries, and Stop closes stopCh, waits for the workers  *)
(* to drain the channel and sweeps what is left.  Each select statement    *)
(* and each blocking call is a step; a select with several ready cases     *)
(* takes any of them.  The context of the workers is context.Background()  *)
(* in the server and is never cancelled.                                   *)
(***************************************************************************)
EXTENDS Naturals, Sequences, FiniteSets

CONSTANTS
  Calls,         \* calls of Notify
  Hooks,         \* webhook ids, in ORDER BY id ASC
  EchoHooks,     \* those whose URL is lmf://echo
  Workers,       \* the pool (maxWorkers)
  Stoppers,      \* calls of Stop
  NoJob,
  QueueCapacity,
  MaxRetries

ASSUME DispatcherConstants ==
  /\ Hooks \subseteq Nat /\ IsFiniteSet(Hooks) /\ EchoHooks \subseteq Hooks
  /\ IsFiniteSet(Calls) /\ IsFiniteSet(Workers) /\ IsFiniteSet(Stoppers)
  /\ Workers \cap Stoppers = {}
  /\ QueueCapacity \in Nat \ {0} /\ MaxRetries \in Nat \ {0}
  /\ NoJob \notin Calls \X Hooks

\* Every webhook is enabled and subscribes to the event of every call: the ones
\* Notify skips make no job.
Jobs == Calls \X Hooks
Agents == Workers \cup Stoppers

VARIABLES
  call,      \* where each Notify is, and the webhooks its loop has still to do
  queue,     \* chan job
  agent,     \* workers and Stop: where they are, the job in deliver and its failed attempts
  stopCh,    \* closed?
  dropped,   \* atomic counter
  recorded,  \* history: jobs whose outcome RecordWebhookAttempt was given
  posts,     \* history: calls of post for each job (or Record, for an echo URL)
  fate,      \* history: what became of each job
  early      \* history: jobs sent to the queue before stopCh was closed

vars == <<call, queue, agent, stopCh, dropped, recorded, posts, fate, early>>

At(pc) == [pc |-> pc, job |-> NoJob, failed |-> 0, back |-> pc]

Init ==
  /\ call = [n \in Calls |-> [pc |-> "new", todo |-> {}]]
  /\ queue = <<>>
  /\ agent = [a \in Agents |-> IF a \in Workers THEN At("select") ELSE At("running")]
  /\ stopCh = FALSE /\ dropped = 0
  /\ recorded = {} /\ early = {}
  /\ posts = [j \in Jobs |-> 0]
  /\ fate = [j \in Jobs |-> "none"]

Mark(js, f) == fate' = [j \in Jobs |-> IF j \in js THEN f ELSE fate[j]]

-----------------------------------------------------------------------------
(* Notify.                                                                  *)

JobsOf(n, hooks) == {<<n, h>> : h \in hooks}
Return(n) == call' = [call EXCEPT ![n] = [pc |-> "returned", todo |-> {}]]

\* The first test of stopCh.
NotifyBegin(n) ==
  /\ call[n].pc = "new"
  /\ \/ /\ stopCh
        /\ Return(n) /\ Mark(JobsOf(n, Hooks), "uncounted")
     \/ /\ ~stopCh
        /\ call' = [call EXCEPT ![n] = [pc |-> "list", todo |-> {}]]
        /\ UNCHANGED fate
  /\ UNCHANGED <<queue, agent, stopCh, dropped, recorded, posts, early>>

\* ListWebhooks, and the end of the call when it fails.
NotifyList(n) ==
  /\ call[n].pc = "list"
  /\ \/ /\ call' = [call EXCEPT ![n] = [pc |-> IF Hooks = {} THEN "returned" ELSE "check", todo |-> Hooks]]
        /\ UNCHANGED fate
     \/ /\ Return(n) /\ Mark(JobsOf(n, Hooks), "unlisted")
  /\ UNCHANGED <<queue, agent, stopCh, dropped, recorded, posts, early>>

NextHook(n) == CHOOSE h \in call[n].todo : \A i \in call[n].todo : h <= i
Advance(n) == [pc |-> IF call[n].todo = {NextHook(n)} THEN "returned" ELSE "check",
               todo |-> call[n].todo \ {NextHook(n)}]

\* Stage 1: the test of stopCh before each send.
NotifyCheck(n) ==
  /\ call[n].pc = "check"
  /\ \/ /\ stopCh
        /\ dropped' = dropped + 1
        /\ Return(n)
        /\ fate' = [j \in Jobs |-> IF j = <<n, NextHook(n)>> THEN "dropped"
                                   ELSE IF j \in JobsOf(n, call[n].todo) THEN "uncounted" ELSE fate[j]]
     \/ /\ ~stopCh
        /\ call' = [call EXCEPT ![n] = [pc |-> "send", todo |-> call[n].todo]]
        /\ UNCHANGED <<dropped, fate>>
  /\ UNCHANGED <<queue, agent, stopCh, recorded, posts, early>>

NotifySend(n) ==
  LET j == <<n, NextHook(n)>>
  IN /\ call[n].pc = "send"
     /\ \/ /\ Len(queue) < QueueCapacity
           /\ queue' = Append(queue, j)
           /\ early' = IF stopCh THEN early ELSE early \cup {j}
           /\ Mark({j}, "queued")
           /\ UNCHANGED dropped
        \/ /\ Len(queue) = QueueCapacity
           /\ dropped' = dropped + 1
           /\ Mark({j}, "dropped")
           /\ UNCHANGED <<queue, early>>
     /\ call' = [call EXCEPT ![n] = Advance(n)]
     /\ UNCHANGED <<agent, stopCh, recorded, posts>>

-----------------------------------------------------------------------------
(* deliver.                                                                 *)

Receive(a) ==
  /\ queue # <<>>
  /\ agent' = [agent EXCEPT ![a] = [pc |-> "post", job |-> Head(queue), failed |-> 0, back |-> agent[a].pc]]
  /\ queue' = Tail(queue)
  /\ Mark({Head(queue)}, "taken")
  /\ UNCHANGED <<call, stopCh, dropped, recorded, posts, early>>

\* deliver returns; RecordWebhookAttempt's own error is ignored.
Finish(a, outcome, record) ==
  /\ agent' = [agent EXCEPT ![a] = At(agent[a].back)]
  /\ Mark({agent[a].job}, outcome)
  /\ recorded' = IF record THEN recorded \cup {agent[a].job} ELSE recorded

\* deliver goes on with its job.
Attempt(a, pc, failed) ==
  [pc |-> pc, job |-> agent[a].job, failed |-> failed, back |-> agent[a].back]

LastAttemptEarly(a) == agent[a].failed + 2 >= MaxRetries   \* mutant: attempt <= maxRetries - 2
LastAttempt(a) == agent[a].failed + 1 = MaxRetries

\* One attempt: 2xx, or a status or an error that counts as failure.
Post(a) ==
  LET j == agent[a].job
  IN /\ agent[a].pc = "post"
     /\ posts' = [posts EXCEPT ![j] = @ + 1]
     /\ \/ Finish(a, "delivered", TRUE)
        \/ /\ j[2] \notin EchoHooks
           /\ LastAttempt(a)
           /\ Finish(a, "failed", TRUE)
        \/ /\ j[2] \notin EchoHooks
           /\ ~LastAttempt(a)
           /\ agent' = [agent EXCEPT ![a] = Attempt(a, "wait", agent[a].failed + 1)]
           /\ UNCHANGED <<fate, recorded>>
     /\ UNCHANGED <<call, queue, stopCh, dropped, early>>

\* The select before a retry: the backoff timer, or Stop.
BackoffGivesUp(a) ==        \* mutant: a retry is abandoned without Stop
  /\ agent[a].pc = "wait"
  /\ \/ /\ agent' = [agent EXCEPT ![a] = Attempt(a, "post", agent[a].failed)]
        /\ UNCHANGED <<fate, recorded>>
     \/ Finish(a, "aborted", FALSE)
  /\ UNCHANGED <<call, queue, stopCh, dropped, posts, early>>
Backoff(a) ==
  /\ agent[a].pc = "wait"
  /\ \/ /\ agent' = [agent EXCEPT ![a] = Attempt(a, "post", agent[a].failed)]
        /\ UNCHANGED <<fate, recorded>>
     \/ /\ stopCh
        /\ Finish(a, "aborted", FALSE)
  /\ UNCHANGED <<call, queue, stopCh, dropped, posts, early>>

-----------------------------------------------------------------------------
(* The workers and Stop.                                                    *)

WorkerSelect(w) ==
  /\ agent[w].pc = "select"
  /\ \/ Receive(w)
     \/ /\ stopCh
        /\ agent' = [agent EXCEPT ![w] = At("drain")]
        /\ UNCHANGED <<call, queue, stopCh, dropped, recorded, posts, fate, early>>

WorkerDrainForever(w) ==    \* mutant: the drain loop falls back into the select
  /\ agent[w].pc = "drain"
  /\ \/ Receive(w)
     \/ /\ queue = <<>>
        /\ agent' = [agent EXCEPT ![w] = At("select")]
        /\ UNCHANGED <<call, queue, stopCh, dropped, recorded, posts, fate, early>>
WorkerDrain(w) ==
  /\ agent[w].pc = "drain"
  /\ \/ Receive(w)
     \/ /\ queue = <<>>
        /\ agent' = [agent EXCEPT ![w] = At("exited")]
        /\ UNCHANGED <<call, queue, stopCh, dropped, recorded, posts, fate, early>>

\* once.Do(close(stopCh))
StopBegin(s) ==
  /\ agent[s].pc = "running"
  /\ stopCh' = TRUE
  /\ agent' = [agent EXCEPT ![s] = At("stopping")]
  /\ UNCHANGED <<call, queue, dropped, recorded, posts, fate, early>>

AllExited == \A w \in Workers : agent[w].pc = "exited"

\* <-d.stopped, or the drain timeout.
StopWait(s) ==
  /\ agent[s].pc = "stopping"
  /\ \/ /\ AllExited
        /\ agent' = [agent EXCEPT ![s] = At("sweep")]
     \/ agent' = [agent EXCEPT ![s] = At("timedOut")]
  /\ UNCHANGED <<call, queue, stopCh, dropped, recorded, posts, fate, early>>

StopSweep(s) ==
  /\ agent[s].pc = "sweep"
  /\ \/ Receive(s)
     \/ /\ queue = <<>>
        /\ agent' = [agent EXCEPT ![s] = At("stopped")]
        /\ UNCHANGED <<call, queue, stopCh, dropped, recorded, posts, fate, early>>

-----------------------------------------------------------------------------
Notify(n) == NotifyBegin(n) \/ NotifyList(n) \/ NotifyCheck(n) \/ NotifySend(n)
Worker(w) == WorkerSelect(w) \/ WorkerDrain(w) \/ Post(w) \/ Backoff(w)
Stop(s) == StopBegin(s) \/ StopWait(s) \/ StopSweep(s) \/ Post(s) \/ Backoff(s)

Next ==
  \/ \E n \in Calls : Notify(n)
  \/ \E w \in Workers : Worker(w)
  \/ \E s \in Stoppers : Stop(s)

Spec == Init /\ [][Next]_vars

\* Goroutines keep running, and post returns: the HTTP client has a 10 s timeout.
FairSpec == /\ Spec
            /\ \A n \in Calls : WF_vars(Notify(n))
            /\ \A w \in Workers : WF_vars(Worker(w))

-----------------------------------------------------------------------------
(* Properties.                                                              *)

\* The attempts of a job fit its end: exactly MaxRetries before it is given up,
\* fewer only when Stop cut the retries short, none when it was dropped; only a job
\* that Stop cut short ends without RecordWebhookAttempt; and a Stop that returns
\* without a timeout has had every job sent before it posted at least once (Run:
\* "don't lose in-flight audit-log deliveries").
OutcomeExplained ==
  /\ \A j \in Jobs :
       /\ fate[j] \in {"delivered", "failed", "aborted"} => posts[j] > 0
       /\ fate[j] = "failed" => posts[j] = MaxRetries
       /\ fate[j] = "aborted" => stopCh /\ posts[j] < MaxRetries
       /\ fate[j] \in {"none", "dropped", "uncounted", "unlisted", "queued"} => posts[j] = 0
       /\ fate[j] \in {"delivered", "failed"} => j \in recorded
  /\ \A s \in Stoppers, j \in early : agent[s].pc = "stopped" => posts[j] > 0

\* Once stopCh is closed every worker exits: receivers stop retrying, senders stop
\* sending, and the drain loops end.  And a job sent before Stop comes to an end,
\* delivered, failed or cut short by Stop.
StopSettles ==
  /\ stopCh ~> AllExited
  /\ \A j \in Jobs : j \in early ~> fate[j] \in {"delivered", "failed", "aborted"}

\* What a caller can tell of a job.
StateOf(f) ==
  CASE f \in {"queued", "taken"} -> "pending"
    [] f \in {"failed", "aborted"} -> "gaveUp"
    [] f \in {"uncounted", "unlisted", "dropped"} -> "dropped"
    [] OTHER -> f

Promise == INSTANCE Delivery WITH
  Backlog <- QueueCapacity + Cardinality(Agents),
  state <- [j \in Jobs |-> StateOf(fate[j])], tries <- posts, closed <- stopCh

\* The dispatcher implements Delivery: best effort within the backlog the channel,
\* the workers and the sweep can hold.
KeepsPromise == Promise!Spec
=============================================================================
