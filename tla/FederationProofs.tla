-------------------------- MODULE FederationProofs --------------------------
(***************************************************************************)
(* Federated search for any peers, clocks, cache, timeouts and number of   *)
(* searches at a time.  The rowids of the peers table are what holds it    *)
(* together: they key the cache and are what a late echo updates, and no   *)
(* two rows ever share one.                                                *)
(***************************************************************************)
EXTENDS Federation, FiniteSetTheorems, TLAPS

USE ZenonT(60)

\* The rows the server has in hand: those of the table, the one an echo has read,
\* and those that searches have listed.
Rows == peers \cup echoes \cup UNION {search[s].peers : s \in Searchers}

\* An answer: the server it is from, and one of the versions it has had.
IsAnswer(v, u) == /\ v \in Urls \X Nat
                  /\ v[1] = u /\ v[2] <= remote[u].version

\* The answer was still the server's at time t, or later.
CurrentAt(v, t) == v[2] < remote[v[1]].version => replaced[v[1]][v[2] + 1] >= t

\* The other servers: when each of their versions was replaced.
RemoteOK ==
  /\ clock \in Nat
  /\ remote \in [Urls -> [version : Nat, secret : Secrets]]
  /\ replaced \in [Urls -> Seq(Nat)]
  /\ \A u \in Urls : Len(replaced[u]) = remote[u].version

\* The ids that were given out, each to one row and with it to one URL.
RowsOK ==
  /\ lastId \in Nat
  /\ peers \subseteq PeerRow /\ echoes \subseteq PeerRow
  /\ \A p \in Rows : p.id <= lastId
  /\ \A p, q \in Rows : p.id = q.id => p.url = q.url

\* An entry of the cache: from the server of whichever row has its id, and current
\* when the request for it was sent.
EntryOK(id) ==
  /\ id \in Nat /\ id <= lastId
  /\ entries[id].at \in Nat /\ entries[id].at <= clock
  /\ \E u \in Urls : IsAnswer(entries[id].payload, u)
  /\ \A p \in Rows : p.id = id => entries[id].payload[1] = p.url
  /\ CurrentAt(entries[id].payload, entries[id].at - Timeout)

CacheOK == \A id \in DOMAIN entries : EntryOK(id)

\* A goroutine of search s, for its peer p.
GoroutineOK(g, p) ==
  /\ g.pc \in {"get", "do", "got", "sent"}
  /\ g.pc \in {"do", "got"} =>
       /\ g.began \in Nat /\ g.began <= clock
       /\ clock - g.began <= Timeout
  /\ g.pc = "got" => IsAnswer(g.val, p.url) /\ CurrentAt(g.val, g.began)
  /\ g.pc = "sent" => g.val = Failed \/ IsAnswer(g.val, p.url)

GoroutineSet ==
  [pc : {"get", "do", "got", "sent"}, began : Nat, val : {<<>>, Failed} \cup (Urls \X Nat)]

SearchSet == [pc : {"idle", "wait"}, peers : SUBSET PeerRow, g : UNION {[D -> GoroutineSet] : D \in SUBSET Nat}]

\* A search has a goroutine for each of the peers it has listed.
SearchOK(s) ==
  /\ search[s].pc = "idle" => search[s] = Idle
  /\ DOMAIN search[s].g = {p.id : p \in search[s].peers}
  /\ \A p \in search[s].peers : GoroutineOK(search[s].g[p.id], p)

SearchesOK == /\ search \in [Searchers -> SearchSet]
              /\ \A s \in Searchers : SearchOK(s)

FederationInv == RemoteOK /\ RowsOK /\ CacheOK /\ SearchesOK /\ ConnectedProven

\* The lifetimes are numbers.
LEMMA TimesNatural == Timeout \in Nat /\ TTL \in Nat
BY FederationConstants

-----------------------------------------------------------------------------
(* What a step may leave alone.                                             *)

\* The rows in hand after a step have the ids and URLs of rows before it.
NoNewRow == \A p \in Rows' : \E q \in Rows : q.id = p.id /\ q.url = p.url

\* A step that adds no row keeps the ids.
LEMMA RowsKept ==
  ASSUME RowsOK, NoNewRow, lastId' = lastId, peers' \subseteq PeerRow, echoes' \subseteq PeerRow
  PROVE  RowsOK'
BY SMTT(60) DEF RowsOK, NoNewRow

\* A cache that only loses entries stays in order.
LEMMA CacheKept ==
  ASSUME CacheOK, NoNewRow, lastId' = lastId, UNCHANGED <<clock, remote, replaced>>,
         \A id \in DOMAIN entries' : id \in DOMAIN entries /\ entries'[id] = entries[id]
  PROVE  CacheOK'
<1> SUFFICES ASSUME NEW id \in DOMAIN entries' PROVE EntryOK(id)'
  BY DEF CacheOK
<1>1. EntryOK(id) /\ entries'[id] = entries[id]
  BY DEF CacheOK
<1> QED
  BY <1>1 DEF EntryOK, IsAnswer, CurrentAt, NoNewRow

\* Searches are not affected by what happens to the tables and to the cache.
LEMMA SearchesKept ==
  ASSUME SearchesOK, UNCHANGED <<search, clock, remote, replaced>>
  PROVE  SearchesOK'
<1>1. ASSUME NEW s \in Searchers, SearchOK(s) PROVE SearchOK(s)'
  BY <1>1 DEF SearchOK, GoroutineOK, IsAnswer, CurrentAt
<1> QED
  BY <1>1 DEF SearchesOK

\* The rows of the table and of the searches are rows in hand.
LEMMA RowsInHand ==
  /\ peers \subseteq Rows /\ echoes \subseteq Rows
  /\ \A s \in Searchers : search[s].peers \subseteq Rows
BY DEF Rows

-----------------------------------------------------------------------------
(* The peers.                                                               *)

\* A new row has an id that nobody has seen, in the cache or elsewhere.
LEMMA AddPeerStep ==
  ASSUME FederationInv, NEW n \in Names, NEW u \in Urls, NEW k \in Secrets, AddPeer(n, u, k)
  PROVE  FederationInv'
<1> DEFINE new == [id |-> NewId, name |-> n, url |-> u, secret |-> k, status |-> "pending"]
<1>1. peers' = peers \cup {new} /\ lastId' = lastId + 1 /\ lastId \in Nat
  BY DEF AddPeer, FederationInv, RowsOK
<1>2. UNCHANGED <<clock, echoes, proven, entries, search, remote, replaced>>
  BY DEF AddPeer, cache, outside
<1>3. new \in PeerRow /\ new.id = lastId + 1 /\ new.url = u /\ new.status = "pending"
  BY SMTT(60), <1>1 DEF PeerRow, NewId
<1> HIDE DEF new
<1>4. Rows' = Rows \cup {new}
  BY <1>1, <1>2 DEF Rows
<1>5. RemoteOK' /\ SearchesOK'
  BY <1>2, SearchesKept DEF FederationInv, RemoteOK
<1>6. RowsOK'
  <2>1. \A p \in Rows : p.id \in Nat /\ p.id <= lastId
    BY SMTT(60) DEF FederationInv, RowsOK, Rows, PeerRow, SearchesOK, SearchSet
  <2> QED
    BY SMTT(60), <1>1, <1>2, <1>3, <1>4, <2>1 DEF FederationInv, RowsOK
<1>7. CacheOK'
  <2> SUFFICES ASSUME NEW id \in DOMAIN entries PROVE EntryOK(id)'
    BY <1>2 DEF CacheOK
  <2>1. EntryOK(id) /\ id # new.id
    BY SMTT(60), <1>1, <1>3 DEF FederationInv, CacheOK, EntryOK
  <2> QED
    BY SMTT(60), <1>1, <1>2, <1>4, <2>1 DEF EntryOK, IsAnswer, CurrentAt
<1>8. ConnectedProven'
  BY <1>1, <1>2, <1>3 DEF FederationInv, ConnectedProven
<1> QED
  BY <1>5, <1>6, <1>7, <1>8 DEF FederationInv

\* UpdatePeerStatus changes the status of a row, and nothing else.
LEMMA StatusOnly ==
  ASSUME peers \subseteq PeerRow, NEW p \in PeerRow, NEW st \in {"connected", "error"},
         NEW r \in UpdatePeerStatus(p, st)
  PROVE  /\ r \in PeerRow
         /\ \E q \in peers : /\ q.id = r.id /\ q.url = r.url
                             /\ r = q \/ (q.id = p.id /\ r.status = st)
<1>1. PICK q \in peers : r = IF q.id = p.id THEN [q EXCEPT !.status = st] ELSE q
  BY DEF UpdatePeerStatus
<1>2. q \in PeerRow
  OBVIOUS
<1> QED
  BY <1>1, <1>2 DEF PeerRow

\* Deleting a row, and echoing a peer: an echo connects the peer that has accepted.
LEMMA PeersStep ==
  ASSUME FederationInv,
         (\E p \in peers : DeletePeer(p) \/ EchoPeer(p)) \/ \E p \in echoes : EchoEnd(p)
  PROVE  FederationInv'
<1>1. UNCHANGED <<clock, lastId, entries, search, remote, replaced>>
  BY DEF DeletePeer, EchoPeer, EchoEnd, cache, outside
<1>2. peers \subseteq PeerRow /\ echoes \subseteq PeerRow
  BY DEF FederationInv, RowsOK
<1> DEFINE Fine == /\ peers' \subseteq PeerRow /\ echoes' \subseteq PeerRow
                   /\ \A r \in peers' \cup echoes' : \E q \in Rows : q.id = r.id /\ q.url = r.url
                   /\ ConnectedProven'
<1>3. ASSUME NEW p \in peers, DeletePeer(p) PROVE Fine
  BY <1>2, <1>3, RowsInHand DEF DeletePeer, FederationInv, ConnectedProven
<1>4. ASSUME NEW p \in peers, EchoPeer(p) PROVE Fine
  <2> DEFINE e == [p EXCEPT !.status = "pending"]
  <2>1. e \in PeerRow /\ e.id = p.id /\ e.url = p.url
    BY <1>2 DEF PeerRow
  <2>2. peers' = peers /\ echoes' = {e} /\ proven' = proven
    BY <1>4 DEF EchoPeer
  <2> HIDE DEF e
  <2> QED
    BY <1>2, <2>1, <2>2, RowsInHand DEF FederationInv, ConnectedProven
<1>5. ASSUME NEW p \in echoes, EchoEnd(p) PROVE Fine
  <2>1. echoes' = {}
    BY <1>5 DEF EchoEnd
  <2>2. CASE UNCHANGED <<peers, proven>>
    BY <1>2, <2>1, <2>2, RowsInHand DEF FederationInv, ConnectedProven
  <2>3. ASSUME NEW st \in {"connected", "error"}, peers' = UpdatePeerStatus(p, st),
               proven \subseteq proven', st = "connected" => p.id \in proven'
        PROVE  Fine
    <3>1. \A r \in peers' : r \in PeerRow /\ \E q \in peers :
             q.id = r.id /\ q.url = r.url /\ (r = q \/ (q.id = p.id /\ r.status = st))
      BY <1>2, <2>3, StatusOnly
    <3> QED
      BY <1>2, <2>1, <2>3, <3>1, RowsInHand DEF FederationInv, ConnectedProven
  <2> QED
    BY <1>5, <2>2, <2>3 DEF EchoEnd
<1>6. Fine
  BY <1>3, <1>4, <1>5
<1>7. NoNewRow
  BY <1>1, <1>6 DEF NoNewRow, Rows
<1> HIDE DEF Fine
<1>8. Fine => peers' \subseteq PeerRow /\ echoes' \subseteq PeerRow /\ ConnectedProven'
  BY DEF Fine
<1> QED
  BY <1>1, <1>6, <1>7, <1>8, RowsKept, CacheKept, SearchesKept DEF FederationInv, RemoteOK

-----------------------------------------------------------------------------
(* Time, and the other servers.                                             *)

\* Time passes only while no request is older than the client's timeout.
LEMMA TickStep ==
  ASSUME FederationInv, Tick
  PROVE  FederationInv'
<1>1. clock' = clock + 1 /\ clock \in Nat
  BY DEF FederationInv, RemoteOK, Tick
<1>2. UNCHANGED <<peers, lastId, echoes, proven, entries, search, remote, replaced>>
  BY DEF Tick, db, cache, outside
<1>3. Rows' = Rows
  BY <1>2 DEF Rows
<1>4. RemoteOK' /\ RowsOK' /\ ConnectedProven'
  BY SMTT(60), <1>1, <1>2, <1>3 DEF FederationInv, RemoteOK, RowsOK, ConnectedProven
<1>5. CacheOK'
  <2> SUFFICES ASSUME NEW id \in DOMAIN entries PROVE EntryOK(id)'
    BY <1>2 DEF CacheOK
  <2>1. EntryOK(id)
    BY DEF FederationInv, CacheOK
  <2> QED
    BY SMTT(60), <1>1, <1>2, <1>3, <2>1 DEF EntryOK, IsAnswer, CurrentAt
<1>6. SearchesOK'
  <2> SUFFICES ASSUME NEW s \in Searchers PROVE SearchOK(s)'
    BY <1>2 DEF SearchesOK, FederationInv
  <2>1. SearchOK(s) /\ search'[s] = search[s]
    BY <1>2 DEF FederationInv, SearchesOK
  <2>2. ASSUME NEW p \in search[s].peers
        PROVE  GoroutineOK(search[s].g[p.id], p)'
    <3>1. PICK g : g = search[s].g[p.id]
      OBVIOUS
    <3>2. p.id \in DOMAIN search[s].g /\ GoroutineOK(g, p)
      BY <2>1, <3>1 DEF SearchOK
    <3>3. g.pc \in {"do", "got"} => clock - g.began < Timeout
      BY <3>1, <3>2 DEF Tick
    <3>4. g.pc \in {"do", "got"} => g.began <= clock' /\ clock' - g.began <= Timeout
      BY SMTT(60), <1>1, <3>2, <3>3, TimesNatural DEF GoroutineOK
    <3>5. GoroutineOK(g, p)'
      BY <1>2, <3>2, <3>4 DEF GoroutineOK, IsAnswer, CurrentAt
    <3> QED
      BY <1>2, <3>1, <3>5
  <2> QED
    BY <2>1, <2>2 DEF SearchOK
<1> QED
  BY <1>4, <1>5, <1>6 DEF FederationInv

\* A change replaces the answer now: what was current at a time t stays so.
LEMMA AnswersKept ==
  ASSUME RemoteOK, NEW w \in Urls, Change(w), NEW v, NEW u \in Urls, IsAnswer(v, u)
  PROVE  /\ IsAnswer(v, u)'
         /\ \A t \in Int : t <= clock /\ CurrentAt(v, t) => CurrentAt(v, t)'
<1>1. PICK n \in Nat : v = <<u, n>> /\ n <= remote[u].version
  BY SMTT(60) DEF IsAnswer
<1>2. /\ remote \in [Urls -> [version : Nat, secret : Secrets]] /\ replaced \in [Urls -> Seq(Nat)]
      /\ Len(replaced[u]) = remote[u].version /\ clock \in Nat
  BY DEF RemoteOK
<1>3. /\ remote' = [remote EXCEPT ![w].version = @ + 1]
      /\ replaced' = [replaced EXCEPT ![w] = Append(@, clock)]
  BY DEF Change
<1>4. CASE u = w
  <2>1. remote'[u].version = remote[u].version + 1 /\ replaced'[u] = Append(replaced[u], clock)
    BY <1>2, <1>3, <1>4
  <2>2. /\ \A i \in 1 .. Len(replaced[u]) : replaced'[u][i] = replaced[u][i]
        /\ replaced'[u][Len(replaced[u]) + 1] = clock
    BY SMTT(60), <1>2, <2>1
  <2>3. IsAnswer(v, u)'
    BY SMTT(60), <1>1, <1>2, <2>1 DEF IsAnswer
  <2>4. ASSUME NEW t \in Int, t <= clock, CurrentAt(v, t) PROVE CurrentAt(v, t)'
    <3>1. n < remote[u].version => n + 1 \in 1 .. Len(replaced[u]) /\ replaced[u][n + 1] >= t
      BY SMTT(60), <1>1, <1>2, <2>4 DEF CurrentAt
    <3>2. replaced'[u][n + 1] >= t
      BY SMTT(60), <1>1, <1>2, <2>2, <2>4, <3>1
    <3> QED
      BY <1>1, <3>2 DEF CurrentAt
  <2> QED
    BY <2>3, <2>4
<1>5. CASE u # w
  <2>1. remote'[u] = remote[u] /\ replaced'[u] = replaced[u]
    BY <1>2, <1>3, <1>5
  <2> QED
    BY <1>1, <2>1 DEF IsAnswer, CurrentAt
<1> QED
  BY <1>4, <1>5

\* Another server's runs change.
LEMMA ChangeStep ==
  ASSUME FederationInv, NEW w \in Urls, Change(w)
  PROVE  FederationInv'
<1>1. UNCHANGED <<clock, peers, lastId, echoes, proven, entries, search>>
  BY DEF Change, db, cache
<1>2. Rows' = Rows
  BY <1>1 DEF Rows
<1>3. RowsOK' /\ ConnectedProven'
  BY <1>1, <1>2 DEF FederationInv, RowsOK, ConnectedProven
<1>4. RemoteOK'
  <2>1. /\ remote \in [Urls -> [version : Nat, secret : Secrets]] /\ replaced \in [Urls -> Seq(Nat)]
        /\ \A u \in Urls : Len(replaced[u]) = remote[u].version
        /\ clock \in Nat
    BY DEF FederationInv, RemoteOK
  <2>2. /\ remote' = [remote EXCEPT ![w].version = @ + 1]
        /\ replaced' = [replaced EXCEPT ![w] = Append(@, clock)]
    BY DEF Change
  <2>3. Append(replaced[w], clock) \in Seq(Nat) /\ Len(Append(replaced[w], clock)) = Len(replaced[w]) + 1
    BY SMTT(60), <2>1
  <2>4. remote' \in [Urls -> [version : Nat, secret : Secrets]] /\ replaced' \in [Urls -> Seq(Nat)]
    <3>1. PICK x : x = [remote[w] EXCEPT !.version = @ + 1]
      OBVIOUS
    <3>2. x \in [version : Nat, secret : Secrets]
      BY SMTT(60), <2>1, <3>1
    <3>3. remote' = [remote EXCEPT ![w] = x]
      BY <2>2, <3>1
    <3>4. remote' \in [Urls -> [version : Nat, secret : Secrets]]
      BY <2>1, <3>2, <3>3
    <3>5. replaced' \in [Urls -> Seq(Nat)]
      BY <2>1, <2>2, <2>3
    <3> QED
      BY <3>4, <3>5
  <2>5. \A u \in Urls : Len(replaced'[u]) = remote'[u].version
    BY <2>1, <2>2, <2>3
  <2> QED
    BY <1>1, <2>1, <2>4, <2>5 DEF RemoteOK
<1>5. CacheOK'
  <2> SUFFICES ASSUME NEW id \in DOMAIN entries PROVE EntryOK(id)'
    BY <1>1 DEF CacheOK
  <2>1. EntryOK(id) /\ RemoteOK
    BY DEF FederationInv, CacheOK
  <2>2. PICK u \in Urls : IsAnswer(entries[id].payload, u)
    BY <2>1 DEF EntryOK
  <2>3. entries[id].at - Timeout \in Int /\ entries[id].at - Timeout <= clock
    BY SMTT(60), <2>1, TimesNatural DEF EntryOK, RemoteOK
  <2>4. /\ IsAnswer(entries[id].payload, u)'
        /\ CurrentAt(entries[id].payload, entries[id].at - Timeout)'
    <3>1. PICK v, t : v = entries[id].payload /\ t = entries[id].at - Timeout
      OBVIOUS
    <3>2. IsAnswer(v, u)' /\ CurrentAt(v, t)'
      BY <2>1, <2>2, <2>3, <3>1, AnswersKept DEF EntryOK
    <3> QED
      BY <1>1, <3>1, <3>2 DEF IsAnswer, CurrentAt
  <2> QED
    BY <1>1, <1>2, <2>1, <2>4 DEF EntryOK
<1>6. SearchesOK'
  <2> SUFFICES ASSUME NEW s \in Searchers PROVE SearchOK(s)'
    BY <1>1 DEF SearchesOK, FederationInv
  <2>1. SearchOK(s) /\ search'[s] = search[s] /\ search[s].peers \subseteq PeerRow /\ RemoteOK
    BY <1>1 DEF FederationInv, SearchesOK, SearchSet
  <2>2. ASSUME NEW p \in search[s].peers
        PROVE  GoroutineOK(search[s].g[p.id], p)'
    <3>1. PICK g : g = search[s].g[p.id]
      OBVIOUS
    <3>2. GoroutineOK(g, p) /\ p.url \in Urls
      BY <2>1, <3>1 DEF SearchOK, PeerRow
    <3>3. GoroutineOK(g, p)'
      BY SMTT(60), <1>1, <2>1, <3>2, AnswersKept DEF GoroutineOK
    <3> QED
      BY <1>1, <3>1, <3>3
  <2> QED
    BY <2>1, <2>2 DEF SearchOK
<1> QED
  BY <1>3, <1>4, <1>5, <1>6 DEF FederationInv

-----------------------------------------------------------------------------
(* Searches.                                                                *)

\* Setting the goroutine for one peer of a search to x.
Set(s, id, x) == search' = [search EXCEPT ![s].g[id] = x]

LEMMA SetEffect ==
  ASSUME SearchesOK, NEW s \in Searchers, NEW id \in DOMAIN search[s].g, NEW x \in GoroutineSet,
         Set(s, id, x)
  PROVE  /\ search' \in [Searchers -> SearchSet]
         /\ \A t \in Searchers : /\ search'[t].pc = search[t].pc /\ search'[t].peers = search[t].peers
                                 /\ DOMAIN search'[t].g = DOMAIN search[t].g
                                 /\ t # s => search'[t] = search[t]
         /\ \A i \in DOMAIN search[s].g : search'[s].g[i] = IF i = id THEN x ELSE search[s].g[i]
<1>1. search \in [Searchers -> SearchSet]
  BY DEF SearchesOK
<1>2. PICK r, h : r = search[s] /\ h = [r.g EXCEPT ![id] = x]
  OBVIOUS
<1>3. r \in SearchSet /\ id \in DOMAIN r.g
  BY <1>1, <1>2
<1>4. PICK D \in SUBSET Nat : r.g \in [D -> GoroutineSet]
  BY <1>3 DEF SearchSet
<1>5. h \in [D -> GoroutineSet] /\ DOMAIN h = DOMAIN r.g
      /\ \A i \in DOMAIN r.g : h[i] = IF i = id THEN x ELSE r.g[i]
  BY <1>2, <1>3, <1>4
<1>6. PICK n : n = [r EXCEPT !.g = h]
  OBVIOUS
<1>7. n \in SearchSet /\ n.pc = r.pc /\ n.peers = r.peers /\ n.g = h
  BY <1>3, <1>5, <1>6 DEF SearchSet
<1>8. search' = [search EXCEPT ![s] = n]
  BY <1>2, <1>6 DEF Set
<1> QED
  BY <1>1, <1>2, <1>5, <1>7, <1>8

\* The peer that a goroutine asks is one of those the search listed.
LEMMA PeerListed ==
  ASSUME SearchesOK, NEW s \in Searchers, NEW id \in DOMAIN search[s].g
  PROVE  Peer(s, id) \in search[s].peers /\ Peer(s, id).id = id
<1>1. \E p \in search[s].peers : p.id = id
  BY SMTT(60) DEF SearchesOK, SearchOK
<1> QED
  BY <1>1 DEF Peer

\* A goroutine that goes from one good state to another leaves the searches in order.
LEMMA SetKeeps ==
  ASSUME SearchesOK, UNCHANGED <<clock, remote, replaced>>,
         NEW s \in Searchers, NEW id \in DOMAIN search[s].g, NEW x \in GoroutineSet, Set(s, id, x),
         \A p \in search[s].peers : p.id = id => GoroutineOK(x, p)
  PROVE  SearchesOK' /\ Rows' = peers' \cup echoes' \cup UNION {search[t].peers : t \in Searchers}
<1>1. /\ search' \in [Searchers -> SearchSet]
      /\ \A t \in Searchers : /\ search'[t].pc = search[t].pc /\ search'[t].peers = search[t].peers
                              /\ DOMAIN search'[t].g = DOMAIN search[t].g
                              /\ t # s => search'[t] = search[t]
      /\ \A i \in DOMAIN search[s].g : search'[s].g[i] = IF i = id THEN x ELSE search[s].g[i]
  BY SetEffect
<1>2. ASSUME NEW t \in Searchers PROVE SearchOK(t)'
  <2>1. SearchOK(t)
    BY DEF SearchesOK
  <2>2. search[s].pc = "wait"
    BY SMTT(60) DEF SearchesOK, SearchOK, SearchSet, Idle, None
  <2>3. search'[t].pc = "idle" => search'[t] = Idle
    BY <1>1, <2>1, <2>2 DEF SearchOK
  <2>4. ASSUME NEW p \in search[t].peers
        PROVE  GoroutineOK(search[t].g[p.id], p)'
    <3>1. p.id \in DOMAIN search[t].g /\ GoroutineOK(search[t].g[p.id], p)
      BY <2>1 DEF SearchOK
    <3>2. PICK h : h = search'[t].g[p.id]
      OBVIOUS
    <3>3. GoroutineOK(h, p)
      BY SMTT(60), <1>1, <3>1, <3>2
    <3> QED
      BY <3>2, <3>3 DEF GoroutineOK, IsAnswer, CurrentAt
  <2> QED
    BY <1>1, <2>1, <2>3, <2>4 DEF SearchOK
<1>3. SearchesOK'
  BY <1>1, <1>2 DEF SearchesOK
<1> QED
  BY SMTT(60), <1>1, <1>3 DEF Rows

\* A search begins: the rows it lists are of the table, its goroutines have to look.
LEMMA SearchStep ==
  ASSUME FederationInv, NEW s \in Searchers, Search(s)
  PROVE  FederationInv'
<1> DEFINE connected == {p \in peers : p.status = "connected"}
           fresh == [pc |-> "get", began |-> 0, val |-> <<>>]
           begun == [id \in {p.id : p \in connected} |-> fresh]
<1>1. UNCHANGED <<clock, peers, lastId, echoes, proven, entries, remote, replaced>>
  BY DEF Search, db, cache, outside
<1>2. peers \subseteq PeerRow /\ echoes \subseteq PeerRow /\ search \in [Searchers -> SearchSet]
  BY DEF FederationInv, RowsOK, SearchesOK
<1>3. fresh \in GoroutineSet /\ fresh.pc = "get"
  BY DEF GoroutineSet
<1>4. PICK r : r = [pc |-> "wait", peers |-> connected, g |-> begun]
  OBVIOUS
<1>5. search' = [search EXCEPT ![s] = r]
  BY <1>4 DEF Search
<1> HIDE DEF fresh
<1>6. connected \subseteq PeerRow /\ {p.id : p \in connected} \in SUBSET Nat
  BY <1>2 DEF PeerRow
<1> HIDE DEF connected
<1>7. begun \in [{p.id : p \in connected} -> GoroutineSet] /\ \A p \in connected : begun[p.id] = fresh
  BY <1>3
<1> HIDE DEF begun
<1>8. r \in SearchSet /\ r.pc = "wait" /\ r.peers = connected /\ r.g = begun
      /\ DOMAIN begun = {p.id : p \in connected}
  BY <1>4, <1>6, <1>7 DEF SearchSet
<1>9. SearchesOK'
  <2>1. search' \in [Searchers -> SearchSet] /\ search'[s] = r
        /\ \A t \in Searchers : t # s => search'[t] = search[t]
    BY <1>2, <1>5, <1>8
  <2>2. ASSUME NEW t \in Searchers, t # s PROVE SearchOK(t)'
    <3>1. SearchOK(t) /\ search'[t] = search[t]
      BY <2>1, <2>2 DEF FederationInv, SearchesOK
    <3> QED
      BY <1>1, <3>1 DEF SearchOK, GoroutineOK, IsAnswer, CurrentAt
  <2>3. SearchOK(s)'
    <3>1. \A p \in connected : GoroutineOK(fresh, p)'
      BY <1>3 DEF GoroutineOK
    <3> QED
      BY <1>7, <1>8, <2>1, <3>1 DEF SearchOK
  <2> QED
    BY <2>1, <2>2, <2>3 DEF SearchesOK
<1>10. NoNewRow
  <2>1. connected \subseteq peers
    BY DEF connected
  <2>2. \A t \in Searchers : search'[t].peers \subseteq search[t].peers \cup connected
    BY <1>2, <1>5, <1>8
  <2>3. Rows' \subseteq Rows
    BY SMTT(60), <1>1, <2>1, <2>2 DEF Rows
  <2> QED
    BY <2>3 DEF NoNewRow
<1> QED
  BY <1>1, <1>2, <1>9, <1>10, RowsKept, CacheKept DEF FederationInv, RemoteOK, ConnectedProven

\* A search ends.
LEMMA MergeStep ==
  ASSUME FederationInv, NEW s \in Searchers, Merge(s)
  PROVE  FederationInv'
<1>1. UNCHANGED <<clock, peers, lastId, echoes, proven, entries, remote, replaced>>
  BY DEF Merge, db, cache, outside
<1>2. peers \subseteq PeerRow /\ echoes \subseteq PeerRow /\ search \in [Searchers -> SearchSet]
  BY DEF FederationInv, RowsOK, SearchesOK
<1>3. search' = [search EXCEPT ![s] = Idle]
  BY DEF Merge
<1>4. None \in [{} -> GoroutineSet]
  BY DEF None
<1>5. Idle \in SearchSet /\ Idle.pc = "idle" /\ Idle.peers = {} /\ Idle.g = None /\ DOMAIN None = {}
  BY <1>4 DEF Idle, SearchSet, None
<1>6. SearchesOK'
  <2>1. search' \in [Searchers -> SearchSet] /\ search'[s] = Idle
        /\ \A t \in Searchers : t # s => search'[t] = search[t]
    BY <1>2, <1>3, <1>5
  <2>2. ASSUME NEW t \in Searchers, t # s PROVE SearchOK(t)'
    <3>1. SearchOK(t) /\ search'[t] = search[t]
      BY <2>1, <2>2 DEF FederationInv, SearchesOK
    <3> QED
      BY <1>1, <3>1 DEF SearchOK, GoroutineOK, IsAnswer, CurrentAt
  <2>3. SearchOK(s)'
    BY <1>5, <2>1 DEF SearchOK
  <2> QED
    BY <2>1, <2>2, <2>3 DEF SearchesOK
<1>7. NoNewRow
  <2>1. \A t \in Searchers : search'[t].peers \subseteq search[t].peers
    BY <1>2, <1>3, <1>5
  <2>2. Rows' \subseteq Rows
    BY <1>1, <2>1 DEF Rows
  <2> QED
    BY <2>2 DEF NoNewRow
<1> QED
  BY <1>1, <1>2, <1>6, <1>7, RowsKept, CacheKept DEF FederationInv, RemoteOK, ConnectedProven

-----------------------------------------------------------------------------
(* Goroutines.                                                              *)

\* The age of an answer that was current at time t.
LEMMA AgeBound ==
  ASSUME RemoteOK, NEW u \in Urls, NEW v, IsAnswer(v, u), NEW t \in Int, CurrentAt(v, t),
         NEW d \in Nat, clock - t <= d
  PROVE  Age(v) <= d
<1>1. PICK n \in Nat : v = <<u, n>> /\ n <= remote[u].version
  BY SMTT(60) DEF IsAnswer
<1>2. remote[u].version \in Nat /\ clock \in Nat /\ replaced[u] \in Seq(Nat)
      /\ Len(replaced[u]) = remote[u].version
  BY DEF RemoteOK
<1>3. CASE n = remote[u].version
  BY SMTT(60), <1>1, <1>3 DEF Age
<1>4. CASE n < remote[u].version
  <2>1. n + 1 \in 1 .. Len(replaced[u])
    BY SMTT(60), <1>2, <1>4
  <2>2. replaced[u][n + 1] \in Nat /\ replaced[u][n + 1] >= t
    BY SMTT(60), <1>1, <1>2, <1>4, <2>1 DEF CurrentAt
  <2>3. Age(v) = clock - replaced[u][n + 1]
    BY SMTT(60), <1>1, <1>2, <1>4 DEF Age
  <2> QED
    BY SMTT(60), <1>2, <2>2, <2>3
<1> QED
  BY SMTT(60), <1>1, <1>2, <1>3, <1>4

\* What a goroutine may become: in order for its peer and, when it sends, not too old.
Good(s, id, x) ==
  /\ x \in GoroutineSet
  /\ \A p \in search[s].peers : p.id = id => GoroutineOK(x, p)
  /\ x.pc = "sent" => x.val = Failed \/ Age(x.val) <= TTL + Timeout

Sent(val) == [pc |-> "sent", began |-> 0, val |-> val]

\* An error is a message too.
LEMMA ErrorsGood ==
  ASSUME NEW s, NEW id
  PROVE  Good(s, id, Sent(Failed))
BY DEF Good, Sent, GoroutineSet, GoroutineOK

\* The cache answers for the peer, if the entry has not expired.
LEMMA HitsGood ==
  ASSUME FederationInv, NEW s \in Searchers, NEW id \in DOMAIN search[s].g,
         id \in DOMAIN entries, ~Expired(id)
  PROVE  Good(s, id, Sent(entries[id].payload))
<1>1. EntryOK(id) /\ RemoteOK
  BY DEF FederationInv, CacheOK
<1>2. PICK v, t : v = entries[id].payload /\ t = entries[id].at
  OBVIOUS
<1>3. PICK u \in Urls : IsAnswer(v, u)
  BY <1>1, <1>2 DEF EntryOK
<1>4. v \in Urls \X Nat /\ v[1] = u
  BY <1>3 DEF IsAnswer
<1>5. \A p \in search[s].peers : p.id = id => IsAnswer(v, p.url)
  BY <1>1, <1>2, <1>3, <1>4, RowsInHand DEF EntryOK
<1>6. Age(v) <= TTL + Timeout
  <2>1. t \in Nat /\ CurrentAt(v, t - Timeout)
    BY <1>1, <1>2 DEF EntryOK
  <2>2. clock \in Nat /\ clock - t <= TTL
    BY SMTT(60), <1>1, <1>2, <2>1, TimesNatural DEF Expired, RemoteOK
  <2>3. t - Timeout \in Int /\ clock - (t - Timeout) <= TTL + Timeout /\ TTL + Timeout \in Nat
    BY SMTT(60), <2>1, <2>2, TimesNatural
  <2> QED
    BY <1>1, <1>3, <2>1, <2>3, AgeBound
<1>7. Sent(v) \in GoroutineSet /\ Sent(v).pc = "sent" /\ Sent(v).val = v
  BY <1>4 DEF Sent, GoroutineSet
<1>8. \A p \in search[s].peers : p.id = id => GoroutineOK(Sent(v), p)
  BY <1>5, <1>7 DEF GoroutineOK
<1> QED
  BY <1>2, <1>6, <1>7, <1>8 DEF Good

\* A request is signed with the time it begins at.
LEMMA RequestsGood ==
  ASSUME FederationInv, NEW s \in Searchers, NEW id
  PROVE  Good(s, id, [pc |-> "do", began |-> clock, val |-> <<>>])
<1>1. clock \in Nat /\ clock - clock <= Timeout
  BY SMTT(60), TimesNatural DEF FederationInv, RemoteOK
<1> QED
  BY SMTT(60), <1>1 DEF Good, GoroutineOK, GoroutineSet

\* The other server answers, with its current version.
LEMMA AnswersGood ==
  ASSUME FederationInv, NEW s \in Searchers, NEW id \in DOMAIN search[s].g, search[s].g[id].pc = "do",
         NEW x, x = [search[s].g[id] EXCEPT !.pc = "got",
                       !.val = <<Peer(s, id).url, remote[Peer(s, id).url].version>>]
  PROVE  Good(s, id, x)
<1>1. PICK p : p = Peer(s, id)
  OBVIOUS
<1>2. p \in search[s].peers /\ p.id = id
  BY <1>1, PeerListed DEF FederationInv
<1>3. search[s].peers \subseteq PeerRow /\ search[s].peers \subseteq Rows
  BY RowsInHand DEF FederationInv, SearchesOK, SearchSet
<1>4. p.url \in Urls /\ \A q \in search[s].peers : q.id = id => q.url = p.url
  BY <1>2, <1>3 DEF PeerRow, FederationInv, RowsOK
<1>5. PICK g : g = search[s].g[id]
  OBVIOUS
<1>6. g \in GoroutineSet
  <2>1. PICK r : r = search[s]
    OBVIOUS
  <2>2. r \in SearchSet
    BY <2>1 DEF FederationInv, SearchesOK
  <2>3. PICK D \in SUBSET Nat : r.g \in [D -> GoroutineSet]
    BY <2>2 DEF SearchSet
  <2> QED
    BY <1>5, <2>1, <2>3
<1>7. GoroutineOK(g, p)
  BY <1>2, <1>5 DEF FederationInv, SearchesOK, SearchOK
<1>8. PICK v : v = <<p.url, remote[p.url].version>>
  OBVIOUS
<1>9. remote[p.url].version \in Nat
  BY <1>4 DEF FederationInv, RemoteOK
<1>10. IsAnswer(v, p.url) /\ v \in Urls \X Nat /\ \A t : CurrentAt(v, t)
  BY SMTT(60), <1>4, <1>8, <1>9 DEF IsAnswer, CurrentAt
<1>11. x = [g EXCEPT !.pc = "got", !.val = v]
  BY <1>1, <1>5, <1>8
<1>12. x \in GoroutineSet /\ x.pc = "got" /\ x.val = v /\ x.began = g.began
  BY <1>6, <1>10, <1>11 DEF GoroutineSet
<1>13. g.pc = "do"
  BY <1>5
<1>14. \A q \in search[s].peers : q.id = id => GoroutineOK(x, q)
  BY <1>4, <1>7, <1>10, <1>12, <1>13 DEF GoroutineOK
<1> QED
  BY <1>12, <1>14 DEF Good

\* An answer that has come is kept with the time it came, within the timeout.
LEMMA StoresGood ==
  ASSUME FederationInv, NEW s \in Searchers, NEW id \in DOMAIN search[s].g, search[s].g[id].pc = "got",
         NEW v, v = search[s].g[id].val
  PROVE  /\ Good(s, id, Sent(v))
         /\ \E u \in Urls : IsAnswer(v, u)
         /\ \A p \in Rows : p.id = id => v[1] = p.url
         /\ CurrentAt(v, clock - Timeout)
<1>1. PICK p \in search[s].peers : p.id = id
  BY SMTT(60) DEF FederationInv, SearchesOK, SearchOK
<1>2. search[s].peers \subseteq PeerRow /\ search[s].peers \subseteq Rows
  BY RowsInHand DEF FederationInv, SearchesOK, SearchSet
<1>3. p.url \in Urls /\ \A q \in Rows : q.id = id => q.url = p.url
  BY <1>1, <1>2 DEF PeerRow, FederationInv, RowsOK
<1>4. PICK g : g = search[s].g[id]
  OBVIOUS
<1>5. GoroutineOK(g, p) /\ g.pc = "got" /\ g.val = v
  BY <1>1, <1>4 DEF FederationInv, SearchesOK, SearchOK
<1>6. /\ IsAnswer(v, p.url) /\ CurrentAt(v, g.began)
      /\ g.began \in Nat /\ g.began <= clock /\ clock - g.began <= Timeout
  BY <1>5 DEF GoroutineOK
<1>7. v \in Urls \X Nat /\ v[1] = p.url
  BY <1>6 DEF IsAnswer
<1>8. RemoteOK /\ clock \in Nat
  BY DEF FederationInv, RemoteOK
<1>9. CurrentAt(v, clock - Timeout)
  <2>1. clock - Timeout <= g.began
    BY SMTT(60), <1>6, <1>8, TimesNatural
  <2>2. PICK u \in Urls, n \in Nat : v = <<u, n>>
    BY SMTT(60), <1>7
  <2>3. /\ replaced[u] \in Seq(Nat) /\ Len(replaced[u]) = remote[u].version
        /\ remote[u].version \in Nat
    BY <1>8, <2>2 DEF RemoteOK
  <2>4. ASSUME n < remote[u].version PROVE replaced[u][n + 1] >= clock - Timeout
    <3>1. n + 1 \in 1 .. Len(replaced[u])
      BY SMTT(60), <2>2, <2>3, <2>4
    <3>2. replaced[u][n + 1] \in Nat /\ replaced[u][n + 1] >= g.began
      BY SMTT(60), <1>6, <2>2, <2>3, <2>4, <3>1 DEF CurrentAt
    <3> QED
      BY SMTT(60), <1>6, <1>8, <2>1, <3>2, TimesNatural
  <2> QED
    BY SMTT(60), <2>2, <2>4 DEF CurrentAt
<1>10. Age(v) <= TTL + Timeout
  <2>1. clock - g.began <= TTL + Timeout /\ TTL + Timeout \in Nat
    BY SMTT(60), <1>6, <1>8, TimesNatural
  <2> QED
    BY SMTT(60), <1>3, <1>6, <1>8, <2>1, AgeBound
<1>11. Sent(v) \in GoroutineSet /\ Sent(v).pc = "sent" /\ Sent(v).val = v
  BY <1>7 DEF Sent, GoroutineSet
<1>12. \A q \in search[s].peers : q.id = id => GoroutineOK(Sent(v), q)
  BY <1>2, <1>3, <1>6, <1>11 DEF GoroutineOK
<1>13. Good(s, id, Sent(v))
  BY <1>10, <1>11, <1>12 DEF Good
<1> QED
  BY <1>3, <1>6, <1>7, <1>9, <1>13

\* Every step of a goroutine makes it a good one, and leaves a cache in order: an
\* entry is one that was there, or the answer that has just come.
LEMMA GoroutineMoves ==
  ASSUME FederationInv, NEW s \in Searchers, NEW id \in DOMAIN search[s].g, Goroutine(s, id)
  PROVE  /\ \E x : Good(s, id, x) /\ Set(s, id, x)
         /\ \A i \in DOMAIN entries' :
              \/ i \in DOMAIN entries /\ entries'[i] = entries[i]
              \/ /\ i = id /\ search[s].g[id].pc = "got"
                 /\ entries'[i] = [at |-> clock, payload |-> search[s].g[id].val]
         /\ UNCHANGED <<clock, peers, lastId, echoes, proven, remote, replaced>>
<1> DEFINE Kept == \A i \in DOMAIN entries' : i \in DOMAIN entries /\ entries'[i] = entries[i]
<1>1. UNCHANGED <<clock, peers, lastId, echoes, proven, remote, replaced>>
  BY DEF Goroutine, Lookup, Serve, Lose, Store, db, outside
<1>2. ASSUME SendError(s, id) PROVE \E x : Good(s, id, x) /\ Set(s, id, x)
  BY <1>2, ErrorsGood DEF SendError, Send, Set, Sent
<1>3. ASSUME Lookup(s, id)
      PROVE  Kept /\ \E x : Good(s, id, x) /\ Set(s, id, x)
  <2>1. CASE id \in DOMAIN entries /\ ~Expired(id) /\ Send(s, id, entries[id].payload) /\ UNCHANGED cache
    BY <2>1, HitsGood DEF Send, Set, Sent, cache
  <2>2. ASSUME search' = [search EXCEPT ![s].g[id] = [pc |-> "do", began |-> clock, val |-> <<>>]]
        PROVE  \E x : Good(s, id, x) /\ Set(s, id, x)
    BY <2>2, RequestsGood DEF Set
  <2>3. ASSUME DropExpired(id) PROVE Kept
    BY <2>3 DEF DropExpired
  <2>4. ASSUME UNCHANGED cache PROVE Kept
    BY <2>4 DEF cache
  <2> QED
    BY <1>3, <2>1, <2>2, <2>3, <2>4 DEF Lookup
<1>4. ASSUME Serve(s, id)
      PROVE  Kept /\ \E x : Good(s, id, x) /\ Set(s, id, x)
  <2>1. Kept
    BY <1>4 DEF Serve, cache
  <2>2. CASE VerifyRequest(Peer(s, id), search[s].g[id].began)
    <3>1. PICK p, v : p = Peer(s, id) /\ v = <<p.url, remote[p.url].version>>
      OBVIOUS
    <3>2. search' = [search EXCEPT ![s].g[id].pc = "got", ![s].g[id].val = v]
      BY <1>4, <2>2, <3>1 DEF Serve
    <3>3. PICK x : x = [search[s].g[id] EXCEPT !.pc = "got", !.val = v]
      OBVIOUS
    <3>4. Set(s, id, x)
      BY <3>2, <3>3 DEF Set, FederationInv, SearchesOK
    <3>5. Good(s, id, x)
      BY <1>4, <3>1, <3>3, AnswersGood DEF Serve
    <3> QED
      BY <2>1, <3>4, <3>5
  <2>3. CASE ~VerifyRequest(Peer(s, id), search[s].g[id].began)
    BY <1>2, <1>4, <2>1, <2>3 DEF Serve
  <2> QED
    BY <2>1, <2>2, <2>3
<1>5. ASSUME Lose(s, id)
      PROVE  Kept /\ \E x : Good(s, id, x) /\ Set(s, id, x)
  BY <1>2, <1>5 DEF Lose, cache
<1>6. ASSUME Store(s, id)
      PROVE  /\ search[s].g[id].pc = "got"
             /\ \A i \in DOMAIN entries' :
                  \/ i \in DOMAIN entries /\ entries'[i] = entries[i]
                  \/ i = id /\ entries'[i] = [at |-> clock, payload |-> search[s].g[id].val]
             /\ \E x : Good(s, id, x) /\ Set(s, id, x)
  <2>1. PICK v : v = search[s].g[id].val
    OBVIOUS
  <2>2. search[s].g[id].pc = "got" /\ Put(id, v) /\ Send(s, id, v)
    BY <1>6, <2>1 DEF Store
  <2>3. Good(s, id, Sent(v)) /\ Set(s, id, Sent(v))
    BY <2>1, <2>2, StoresGood DEF Send, Set, Sent
  <2>4. PICK S : /\ S \subseteq DOMAIN entries \cup {id}
                 /\ entries' = [i \in S |-> IF i = id THEN [at |-> clock, payload |-> v] ELSE entries[i]]
    BY <2>2 DEF Put
  <2> QED
    BY <2>1, <2>2, <2>3, <2>4
<1> HIDE DEF Kept
<1>7. Kept => \A i \in DOMAIN entries' : i \in DOMAIN entries /\ entries'[i] = entries[i]
  BY DEF Kept
<1> QED
  BY <1>1, <1>3, <1>4, <1>5, <1>6, <1>7 DEF Goroutine

\* The steps of the goroutines keep the invariant.
LEMMA GoroutineStep ==
  ASSUME FederationInv, NEW s \in Searchers, NEW id \in DOMAIN search[s].g, Goroutine(s, id)
  PROVE  FederationInv'
<1>1. UNCHANGED <<clock, peers, lastId, echoes, proven, remote, replaced>>
  BY GoroutineMoves
<1>2. PICK x : Good(s, id, x) /\ Set(s, id, x)
  BY GoroutineMoves
<1>3. SearchesOK' /\ Rows' = peers' \cup echoes' \cup UNION {search[t].peers : t \in Searchers}
  <2>1. x \in GoroutineSet /\ \A p \in search[s].peers : p.id = id => GoroutineOK(x, p)
    BY <1>2 DEF Good
  <2> QED
    BY <1>1, <1>2, <2>1, SetKeeps DEF FederationInv
<1>4. Rows' = Rows
  BY <1>1, <1>3 DEF Rows
<1>5. RemoteOK' /\ RowsOK' /\ ConnectedProven'
  BY <1>1, <1>4 DEF FederationInv, RemoteOK, RowsOK, ConnectedProven
<1>6. CacheOK'
  <2> SUFFICES ASSUME NEW i \in DOMAIN entries' PROVE EntryOK(i)'
    BY DEF CacheOK
  <2>1. CASE i \in DOMAIN entries /\ entries'[i] = entries[i]
    <3>1. EntryOK(i)
      BY <2>1 DEF FederationInv, CacheOK
    <3> QED
      BY <1>1, <1>4, <2>1, <3>1 DEF EntryOK, IsAnswer, CurrentAt
  <2>2. CASE /\ i = id /\ search[s].g[id].pc = "got"
             /\ entries'[i] = [at |-> clock, payload |-> search[s].g[id].val]
    <3>1. PICK v : v = search[s].g[id].val
      OBVIOUS
    <3>2. entries'[i].at = clock /\ entries'[i].payload = v
      BY SMTT(60), <2>2, <3>1
    <3>3. /\ \E u \in Urls : IsAnswer(v, u)
          /\ \A p \in Rows : p.id = i => v[1] = p.url
          /\ CurrentAt(v, clock - Timeout)
      BY <2>2, <3>1, StoresGood
    <3>4. i \in Nat /\ i <= lastId
      <4>1. PICK p \in search[s].peers : p.id = i
        BY SMTT(60), <2>2 DEF FederationInv, SearchesOK, SearchOK
      <4>2. p \in PeerRow /\ p \in Rows
        BY <4>1, RowsInHand DEF FederationInv, SearchesOK, SearchSet
      <4> QED
        BY <4>1, <4>2 DEF PeerRow, FederationInv, RowsOK
    <3>5. clock \in Nat
      BY DEF FederationInv, RemoteOK
    <3> QED
      BY SMTT(60), <1>1, <1>4, <3>2, <3>3, <3>4, <3>5 DEF EntryOK, IsAnswer, CurrentAt
  <2> QED
    BY SMTT(60), <2>1, <2>2, GoroutineMoves
<1> QED
  BY <1>3, <1>5, <1>6 DEF FederationInv

-----------------------------------------------------------------------------
(* The theorems.                                                            *)

LEMMA FederationStep ==
  ASSUME FederationInv, [Next]_vars
  PROVE  FederationInv'
<1>1. CASE UNCHANGED vars \/ \E s \in Searchers : Unlisted(s)
  <2>1. UNCHANGED <<clock, peers, lastId, echoes, proven, entries, search, remote, replaced>>
    BY <1>1 DEF vars, db, cache, outside, Unlisted
  <2>2. NoNewRow
    BY <2>1 DEF NoNewRow, Rows
  <2> QED
    BY <2>1, <2>2, RowsKept, CacheKept, SearchesKept DEF FederationInv, RemoteOK, RowsOK, ConnectedProven
<1> QED
  BY <1>1, TickStep, ChangeStep, AddPeerStep, PeersStep, SearchStep, MergeStep, GoroutineStep DEF Next

\* At the beginning the cache is empty and nobody searches.
LEMMA FederationInit ==
  ASSUME Init
  PROVE  FederationInv
<1>1. /\ clock = 0 /\ echoes = {} /\ peers = OldPeers /\ lastId = Cardinality(OldPeers)
      /\ proven = {p.id : p \in peers} /\ entries = None /\ search = [s \in Searchers |-> Idle]
      /\ remote \in [Urls -> [version : {0}, secret : Secrets]] /\ replaced = [u \in Urls |-> <<>>]
  BY DEF Init
<1>2. None \in [{} -> GoroutineSet] /\ DOMAIN None = {}
  BY DEF None
<1>3. Idle \in SearchSet /\ Idle.pc = "idle" /\ Idle.peers = {} /\ Idle.g = None
  BY <1>2 DEF Idle, SearchSet
<1>4. SearchesOK
  <2>1. search \in [Searchers -> SearchSet] /\ \A s \in Searchers : search[s] = Idle
    BY <1>1, <1>3
  <2> QED
    BY <1>2, <1>3, <2>1 DEF SearchesOK, SearchOK
<1>5. Rows = OldPeers
  BY <1>1, <1>3 DEF Rows
<1>6. Cardinality(OldPeers) \in Nat
  BY OldPeersNumbered, FS_CardinalityType
<1>7. RowsOK
  BY SMTT(60), <1>1, <1>5, <1>6, OldPeersNumbered DEF RowsOK
<1>8. RemoteOK
  <2>1. <<>> \in Seq(Nat) /\ Len(<<>>) = 0
    BY SMTT(60)
  <2>2. replaced \in [Urls -> Seq(Nat)] /\ \A u \in Urls : Len(replaced[u]) = 0
    BY <1>1, <2>1
  <2>3. \A u \in Urls : remote[u] \in [version : {0}, secret : Secrets]
    BY <1>1
  <2>4. \A u \in Urls : remote[u].version = 0 /\ remote[u] \in [version : Nat, secret : Secrets]
    BY SMTT(60), <2>3
  <2> QED
    BY <1>1, <2>2, <2>4 DEF RemoteOK
<1>9. CacheOK /\ ConnectedProven
  BY <1>1, <1>2 DEF CacheOK, ConnectedProven
<1> QED
  BY <1>4, <1>7, <1>8, <1>9 DEF FederationInv

\* The ids of the peers are never reused, and what the cache and the goroutines hold
\* is from the server of the row with their id.
THEOREM FederationInvariant == Spec => []FederationInv
<1>1. Init => FederationInv
  BY FederationInit
<1>2. FederationInv /\ [Next]_vars => FederationInv'
  BY FederationStep
<1> QED
  BY <1>1, <1>2, PTL DEF Spec

\* An echo connects the peer that accepted it, however late, and no other.
THEOREM ConnectionsProven == Spec => []ConnectedProven
BY FederationInvariant, PTL DEF FederationInv

\* What changes of the searches in a step: one goroutine makes a good move, or a
\* search begins, or it ends.
LEMMA SearchMoves ==
  ASSUME FederationInv, [Next]_vars
  PROVE  \/ search' = search
         \/ \E s \in Searchers : \E id \in DOMAIN search[s].g : \E x : Good(s, id, x) /\ Set(s, id, x)
         \/ \E s \in Searchers : Search(s) \/ Merge(s)
<1>1. ASSUME NEW s \in Searchers, NEW id \in DOMAIN search[s].g, Goroutine(s, id)
      PROVE  \E x : Good(s, id, x) /\ Set(s, id, x)
  BY <1>1, GoroutineMoves
<1>2. ASSUME UNCHANGED vars \/ Tick \/ (\E u \in Urls : Change(u))
             \/ (\E n \in Names, u \in Urls, k \in Secrets : AddPeer(n, u, k))
             \/ (\E p \in peers : DeletePeer(p) \/ EchoPeer(p)) \/ (\E p \in echoes : EchoEnd(p))
             \/ (\E t \in Searchers : Unlisted(t))
      PROVE  search' = search
  BY <1>2 DEF vars, Tick, Change, AddPeer, DeletePeer, EchoPeer, EchoEnd, Unlisted
<1> QED
  BY <1>1, <1>2 DEF Next

\* Results are no older than the cache's lifetime and one request.
LEMMA FreshStep ==
  ASSUME FederationInv, [Next]_vars,
         NEW s \in Searchers, NEW id \in DOMAIN search[s].g,
         search[s].g[id].pc # "sent", search'[s].g[id].pc = "sent",
         NEW v, v = search'[s].g[id].val
  PROVE  v \in {<<>>, Failed} \/ Age(v) <= TTL + Timeout
<1>1. search \in [Searchers -> SearchSet] /\ SearchOK(s)
  BY DEF FederationInv, SearchesOK
<1>2. CASE search' = search
  BY <1>2
<1>3. ASSUME NEW t \in Searchers, NEW i \in DOMAIN search[t].g, NEW x, Good(t, i, x), Set(t, i, x)
      PROVE  v = Failed \/ Age(v) <= TTL + Timeout
  <2>1. /\ t # s => search'[s] = search[s]
        /\ t = s => search'[s].g[id] = IF id = i THEN x ELSE search[s].g[id]
    BY SMTT(60), <1>3, SetEffect DEF Good, FederationInv
  <2>2. search'[s].g[id] = x
    BY <2>1
  <2> QED
    BY <1>3, <2>2 DEF Good
<1>4. ASSUME NEW t \in Searchers, Search(t) PROVE FALSE
  <2>1. PICK r : search' = [search EXCEPT ![t] = r] /\ search[t].pc = "idle"
    BY <1>4 DEF Search
  <2>2. t # s
    BY SMTT(60), <1>1, <2>1 DEF SearchOK, Idle, None
  <2> QED
    BY <1>1, <2>1, <2>2
<1>5. ASSUME NEW t \in Searchers, Merge(t) PROVE FALSE
  <2>1. t # s
    BY <1>5 DEF Merge
  <2> QED
    BY <1>1, <1>5, <2>1 DEF Merge
<1> QED
  BY <1>2, <1>3, <1>4, <1>5, SearchMoves

\* A search never shows a result older than the cache's lifetime and one request
\* allow, for any number of searches that share the cache.
THEOREM ResultsFresh == Spec => Fresh
<1>1. FederationInv /\ [Next]_vars =>
        [\A s \in Searchers : \A id \in DOMAIN search[s].g :
           search[s].g[id].pc # "sent" /\ search'[s].g[id].pc = "sent"
             => LET v == search'[s].g[id].val IN v \in {<<>>, Failed} \/ Age(v) <= TTL + Timeout]_vars
  BY FreshStep
<1> QED
  BY <1>1, FederationInvariant, PTL DEF Spec, Fresh

\* What a search that ends without an error has received.
LEMMA CompleteStep ==
  ASSUME FederationInv, [Next]_vars, NEW s \in Searchers,
         search[s].pc = "wait", search'[s].pc = "idle", ~Partial(s), NEW p \in search[s].peers
  PROVE  search[s].g[p.id].val \in {p.url} \X (0 .. remote[p.url].version)
<1>1. search \in [Searchers -> SearchSet] /\ SearchOK(s)
  BY DEF FederationInv, SearchesOK
<1>2. ASSUME NEW t \in Searchers, NEW i \in DOMAIN search[t].g, NEW x, Good(t, i, x), Set(t, i, x)
      PROVE  FALSE
  BY <1>2, SetEffect DEF Good, FederationInv
<1>3. ASSUME NEW t \in Searchers, Search(t) PROVE FALSE
  <2>1. PICK r : search' = [search EXCEPT ![t] = r] /\ search[t].pc = "idle"
    BY <1>3 DEF Search
  <2> QED
    BY <1>1, <2>1
<1>4. PICK t \in Searchers : Merge(t)
  BY <1>2, <1>3, SearchMoves
<1>5. t = s
  BY <1>1, <1>4 DEF Merge
<1>6. PICK g : g = search[s].g[p.id]
  OBVIOUS
<1>7. p.id \in DOMAIN search[s].g /\ GoroutineOK(g, p)
  BY <1>1, <1>6 DEF SearchOK
<1>8. g.pc = "sent" /\ g.val # Failed
  BY <1>4, <1>5, <1>6, <1>7 DEF Merge, Partial, Messages
<1>9. IsAnswer(g.val, p.url)
  BY <1>7, <1>8 DEF GoroutineOK
<1>10. p.url \in Urls /\ remote[p.url].version \in Nat
  BY SMTT(60), <1>1 DEF SearchSet, PeerRow, FederationInv, RemoteOK
<1> QED
  BY SMTT(60), <1>6, <1>9, <1>10 DEF IsAnswer

\* A search that is not partial has an answer of every peer it listed, from the
\* server of that peer's row, whatever became of the row meanwhile.
THEOREM SearchesComplete == Spec => Complete
<1>1. FederationInv /\ [Next]_vars =>
        [\A s \in Searchers :
           search[s].pc = "wait" /\ search'[s].pc = "idle" /\ ~Partial(s) =>
             \A p \in search[s].peers :
               search[s].g[p.id].val \in {p.url} \X (0 .. remote[p.url].version)]_vars
  BY CompleteStep
<1> QED
  BY <1>1, FederationInvariant, PTL DEF Spec, Complete
=============================================================================
