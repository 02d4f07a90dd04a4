----------------------------- MODULE Federation -----------------------------
(***************************************************************************)
(* Federated search: the peers of internal/store/sqlite_peers.go, the      *)
(* signed requests and the response cache of internal/federation, and the  *)
(* handlers of internal/api/native/federation.go with the federated half   *)
(* of GlobalSearch.                                                        *)
(*                                                                         *)
(* One server, one workspace, one query.  The other servers are known by   *)
(* their URLs; their answer to the query is a version number.  A search    *)
(* runs one goroutine for each connected peer.                             *)
(***************************************************************************)
EXTENDS Integers, Sequences, SequencesExt

CONSTANTS
  Names, Urls, Secrets,
  Skew,        \* external: how far the clock of each URL is ahead
  MaxSkew,     \* DefaultClockSkewMS
  Cap,         \* the capacity of the cache
  TTL,         \* DefaultCacheTTL
  Timeout,     \* the client's timeout
  Searchers,   \* numbers
  OldPeers,    \* the peers that are there, connected, when a behaviour begins
  MaxTime, MaxAdds, MaxChanges,  \* bounds
  MaxCalls,    \* bound: searches and echoes
  MaxAtOnce    \* bound: goroutines at a time

ASSUME FederationConstants ==
  /\ Searchers \subseteq Nat /\ Skew \in [Urls -> Int]
  /\ Cap \in Nat \ {0} /\ {MaxSkew, TTL, Timeout, MaxTime, MaxAdds, MaxChanges, MaxCalls, MaxAtOnce} \subseteq Nat

\* Peer: a row of the peers table.
PeerRow ==
  [id : Nat, name : Names, url : Urls, secret : Secrets, status : {"pending", "connected", "error"}]

\* The rows there are when a behaviour begins were added like any others.
ASSUME OldPeersNumbered ==
  /\ IsFiniteSet(OldPeers) /\ OldPeers \subseteq PeerRow
  /\ \A p \in OldPeers : p.id \in 1 .. Cardinality(OldPeers)
  /\ \A p, q \in OldPeers : p.id = q.id => p = q

VARIABLES
  clock,
  peers,     \* the peers table
  lastId,    \* its AUTOINCREMENT
  echoes,    \* EchoPeer calls under way: the rows they read
  entries,   \* Cache.entries, by peer id
  keys,      \* Cache.keys
  search,    \* each searcher: the peers it asks, and its goroutines by peer id
  calls,     \* the searches and echoes begun
  remote,    \* external: what each URL answers, and the secret it has for this server
  replaced,  \* history: when each version stopped being the answer
  proven     \* history: ids of peers that accepted an echo

db == <<peers, lastId, echoes, proven>>
cache == <<entries, keys>>
outside == <<remote, replaced>>
vars == <<clock, db, cache, search, calls, outside>>

None == [x \in {} |-> 0]
Idle == [pc |-> "idle", peers |-> {}, g |-> None]

Init ==
  /\ clock = 0 /\ echoes = {}
  /\ peers = OldPeers /\ lastId = Cardinality(peers) /\ proven = {p.id : p \in peers}
  /\ entries = None /\ keys = <<>>
  /\ search = [s \in Searchers |-> Idle] /\ calls = 0
  /\ remote \in [Urls -> [version : {0}, secret : Secrets]]
  /\ \A p \in peers : remote[p.url].secret = p.secret
  /\ replaced = [u \in Urls |-> <<>>]

-----------------------------------------------------------------------------
(* Peers.                                                                   *)

\* The id of a new row.
NewId == lastId + 1

\* AddPeer and CreatePeer: UNIQUE (workspace_id, name).
AddPeer(n, u, k) ==
  /\ lastId < MaxAdds
  /\ \A p \in peers : p.name # n
  /\ peers' = peers \cup {[id |-> NewId, name |-> n, url |-> u, secret |-> k, status |-> "pending"]}
  /\ lastId' = lastId + 1
  /\ UNCHANGED <<clock, echoes, proven, cache, search, calls, outside>>

\* DeletePeer.  The cache keeps what it has of it.
DeletePeer(p) ==
  /\ peers' = peers \ {p}
  /\ UNCHANGED <<clock, lastId, echoes, proven, cache, search, calls, outside>>

\* GetPeer, at the start of EchoPeer.
EchoPeer(p) ==
  /\ echoes = {} /\ calls < MaxCalls
  /\ calls' = calls + 1
  /\ echoes' = {[p EXCEPT !.status = "pending"]}   \* which it does not look at
  /\ UNCHANGED <<clock, peers, lastId, proven, cache, search, outside>>

Abs(x) == IF x < 0 THEN -x ELSE x

\* VerifyRequest at the other end, for a request signed at time ts.
VerifyRequest(p, ts) ==
  /\ Abs((clock + Skew[p.url]) - ts) <= MaxSkew
  /\ remote[p.url].secret = p.secret

\* Finds the row by its name.
StatusByName(p, st) == {IF q.name = p.name THEN [q EXCEPT !.status = st] ELSE q : q \in peers}

\* UpdatePeerStatus: WHERE id = ?.
UpdatePeerStatus(p, st) == {IF q.id = p.id THEN [q EXCEPT !.status = st] ELSE q : q \in peers}

\* The rest of EchoPeer: the peer accepts; or NewClient, the peer or the network
\* fails; or the caller has left and the update fails.
EchoEnd(p) ==
  /\ p \in echoes
  /\ echoes' = {}
  /\ \/ VerifyRequest(p, clock)
        /\ peers' = UpdatePeerStatus(p, "connected") /\ proven' = proven \cup {p.id}
     \/ peers' = UpdatePeerStatus(p, "error") /\ UNCHANGED proven
     \/ UNCHANGED <<peers, proven>>
  /\ UNCHANGED <<clock, lastId, cache, search, calls, outside>>

-----------------------------------------------------------------------------
(* The cache.                                                               *)

\* Get, when the entry has expired.
DropExpired(id) ==
  /\ entries' = [i \in DOMAIN entries \ {id} |-> entries[i]]
  /\ keys' = SelectSeq(keys, LAMBDA i : i # id)

\* An entry stays until there is no room.
NeverExpired(id) == FALSE

\* time.Since(e.at) > c.ttl.
Expired(id) == clock - entries[id].at > TTL

\* Put: the oldest key makes room.
Put(id, payload) ==
  LET added == IF id \in DOMAIN entries THEN keys ELSE Append(keys, id)
      kept == IF Len(added) > Cap THEN Tail(added) ELSE added
      left == (DOMAIN entries \cap ToSet(kept)) \cup {id}
  IN /\ keys' = kept
     /\ entries' = [i \in left |-> IF i = id THEN [at |-> clock, payload |-> payload] ELSE entries[i]]

-----------------------------------------------------------------------------
(* The search.                                                              *)

Peer(s, id) == CHOOSE p \in search[s].peers : p.id = id
Failed == <<"failed", 0>>
Send(s, id, val) == search' = [search EXCEPT ![s].g[id] = [pc |-> "sent", began |-> 0, val |-> val]]

\* Returns without a word.
SendNothing(s, id) == Send(s, id, <<>>)

\* The channel has no buffer, and nobody reads it before Wait returns.
SendBlocks(s, id) == search[s].pc = "idle" /\ Send(s, id, Failed)

\* An error goes to the channel, which has room for all.
SendError(s, id) == Send(s, id, Failed)

\* federatedFanOut: ListPeers, and the goroutines.
Search(s) ==
  LET connected == {p \in peers : p.status = "connected"}
  IN /\ search[s].pc = "idle" /\ calls < MaxCalls
     /\ \A t \in Searchers : t < s => search[t].pc # "idle"   \* searchers are alike
     /\ Cardinality(connected) + MapThenSumSet(LAMBDA x : Cardinality(search[x].peers), Searchers) <= MaxAtOnce
     /\ calls' = calls + 1
     /\ search' = [search EXCEPT ![s] =
          [pc |-> "wait", peers |-> connected,
           g |-> [id \in {p.id : p \in connected} |-> [pc |-> "get", began |-> 0, val |-> <<>>]]]]
     /\ UNCHANGED <<clock, db, cache, outside>>

\* ListPeers fails: the answer is partial at once, without a peer's results.
Unlisted(s) ==
  /\ search[s].pc = "idle" /\ calls < MaxCalls
  /\ calls' = calls + 1
  /\ UNCHANGED <<clock, db, cache, search, outside>>

\* The cache is asked first.
Lookup(s, id) ==
  /\ search[s].g[id].pc = "get"
  /\ \/ /\ id \in DOMAIN entries /\ ~Expired(id)
        /\ Send(s, id, entries[id].payload) /\ UNCHANGED cache
     \/ /\ id \in DOMAIN entries /\ Expired(id)
        /\ search' = [search EXCEPT ![s].g[id] = [pc |-> "do", began |-> clock, val |-> <<>>]]
        /\ DropExpired(id)
     \/ /\ id \notin DOMAIN entries
        /\ search' = [search EXCEPT ![s].g[id] = [pc |-> "do", began |-> clock, val |-> <<>>]]
        /\ UNCHANGED cache
  /\ UNCHANGED <<clock, db, calls, outside>>

\* FederateSearch at the other end, and its answer; or HTTP 401.
Serve(s, id) ==
  LET p == Peer(s, id)
  IN /\ search[s].g[id].pc = "do"
     /\ IF VerifyRequest(p, search[s].g[id].began)
          THEN search' = [search EXCEPT ![s].g[id].pc = "got", ![s].g[id].val = <<p.url, remote[p.url].version>>]
          ELSE SendError(s, id)
     /\ UNCHANGED <<clock, db, cache, calls, outside>>

\* A timeout, a broken connection, an answer that is too long or is not JSON, or
\* the caller has left.
Lose(s, id) ==
  /\ search[s].g[id].pc \in {"do", "got"}
  /\ SendError(s, id)
  /\ UNCHANGED <<clock, db, cache, calls, outside>>

\* The goroutine keeps the answer and sends it.
Store(s, id) ==
  /\ search[s].g[id].pc = "got"
  /\ Put(id, search[s].g[id].val)
  /\ Send(s, id, search[s].g[id].val)
  /\ UNCHANGED <<clock, db, calls, outside>>

Messages(s) == {search[s].g[id].val : id \in DOMAIN search[s].g}
Partial(s) == Failed \in Messages(s)

\* wg.Wait, and the merge.
Merge(s) ==
  /\ search[s].pc = "wait"
  /\ \A id \in DOMAIN search[s].g : search[s].g[id].pc = "sent"
  /\ search' = [search EXCEPT ![s] = Idle]
  /\ UNCHANGED <<clock, db, cache, calls, outside>>

-----------------------------------------------------------------------------
\* External: another server's runs change.
Change(u) ==
  /\ MapThenSumSet(LAMBDA x : remote[x].version, Urls) < MaxChanges
  /\ remote' = [remote EXCEPT ![u].version = @ + 1]
  /\ replaced' = [replaced EXCEPT ![u] = Append(@, clock)]
  /\ UNCHANGED <<clock, db, cache, search, calls>>

\* Time, which a request outlives by no more than the client's timeout.
Tick ==
  /\ clock < MaxTime
  /\ \A s \in Searchers : \A id \in DOMAIN search[s].g :
       search[s].g[id].pc \in {"do", "got"} => clock - search[s].g[id].began < Timeout
  /\ clock' = clock + 1
  /\ UNCHANGED <<db, cache, search, calls, outside>>

Goroutine(s, id) == Lookup(s, id) \/ Serve(s, id) \/ Lose(s, id) \/ Store(s, id)

Next ==
  \/ Tick
  \/ \E u \in Urls : Change(u)
  \/ \E n \in Names, u \in Urls, k \in Secrets : AddPeer(n, u, k)
  \/ \E p \in peers : DeletePeer(p) \/ EchoPeer(p)
  \/ \E p \in echoes : EchoEnd(p)
  \/ \E s \in Searchers : Search(s) \/ Unlisted(s) \/ Merge(s) \/ \E id \in DOMAIN search[s].g : Goroutine(s, id)

Spec == Init /\ [][Next]_vars

\* Goroutines run, and requests end by the timeout at the latest.
FairSpec ==
  /\ Spec
  /\ \A s \in Searchers :
       WF_vars(Merge(s)) /\ WF_vars(\E id \in DOMAIN search[s].g : Goroutine(s, id))

-----------------------------------------------------------------------------
Age(v) == IF v[2] = remote[v[1]].version THEN 0 ELSE clock - replaced[v[1]][v[2] + 1]

\* A result is no older than the cache's lifetime and one request, when it is
\* sent: two searches that overlap cannot keep an old answer alive between them.
Fresh ==
  [][\A s \in Searchers : \A id \in DOMAIN search[s].g :
       search[s].g[id].pc # "sent" /\ search'[s].g[id].pc = "sent"
         => LET v == search'[s].g[id].val IN v \in {<<>>, Failed} \/ Age(v) <= TTL + Timeout]_vars

\* A search that does not say it is partial has the results of every peer that was
\* connected when it began, each from the server that the peer's row names, also when
\* a peer was deleted and its name given to another while the cache had its answers.
Complete ==
  [][\A s \in Searchers :
       search[s].pc = "wait" /\ search'[s].pc = "idle" /\ ~Partial(s) =>
         \A p \in search[s].peers :
           search[s].g[p.id].val \in {p.url} \X (0 .. remote[p.url].version)]_vars

\* Only a peer that has itself accepted this server's signature is connected:
\* the late result of an echo is never given to the peer that took the name.
ConnectedProven == \A p \in peers : p.status = "connected" => p.id \in proven

\* Every search comes to an end, whatever its peers do.
SearchesEnd == \A s \in Searchers : search[s].pc = "wait" ~> search[s].pc = "idle"
=============================================================================
