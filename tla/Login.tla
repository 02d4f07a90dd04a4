-------------------------------- MODULE Login --------------------------------
(***************************************************************************)
(* Authentication: the rate limiter, the OIDC provider of                  *)
(* internal/auth/oidc.go, the sessions of internal/store/sessions.go, the  *)
(* auth middleware of internal/server/middleware.go, and the handlers      *)
(* Login, Logout, OIDCStart and OIDCCallback of                            *)
(* internal/api/native/handlers.go.                                        *)
(*                                                                         *)
(* A browser does one thing at a time and has an address of its own.  Every *)
(* wait for a lock and every call to the identity provider is a step.  An  *)
(* ID token is known by the key that signed it; whatever else can be wrong  *)
(* with it is an error the environment chooses.                            *)
(***************************************************************************)
EXTENDS RateLimiter, FiniteSets

CONSTANTS
  SessionTTL,  \* Cfg.SessionTTL, in ticks
  Interval,    \* jwksRefreshMinInterval, in ticks
  MaxKey,      \* bound: rotations of the provider's signing key
  MaxSessions  \* bound: sessions minted

Nobody == "nobody"

ASSUME LoginConstants ==
  /\ SessionTTL \in Nat /\ Interval \in Nat \ {0} /\ MaxKey \in Nat /\ MaxSessions \in Nat
  /\ Nobody \notin Clients

VARIABLES
  mode,        \* cfg.Auth
  key,         \* external: the key the identity provider signs with
  doc,         \* p.discoveryDoc is loaded
  jwks,        \* p.jwks: the key ids
  fetchedAt,   \* p.jwksFetchedAt
  mutex,       \* p.discoveryMu: its holder
  flow,        \* the OIDC login of each browser
  asked,       \* history: when a key set was last asked for
  cookie,      \* the session cookie of each browser, 0 for none
  sessions,    \* the sessions table
  touches,     \* TouchSession goroutines under way: their sessions
  ended,       \* history: sessions whose row a logout deleted, or found gone
  minted       \* history: sessions created

cache == <<key, doc, jwks, fetchedAt>>
provider == <<cache, mutex, flow, asked>>
store == <<cookie, sessions, touches, ended, minted>>
vars == <<mode, provider, store, limiter>>

NoFlow == [pc |-> "idle", back |-> "idle", kid |-> 0, got |-> {}, retried |-> FALSE]

Init ==
  /\ LimiterInit
  /\ mode \in {"none", "basic", "oidc"}
  /\ key = 0 /\ doc = FALSE /\ jwks = {} /\ fetchedAt = 0 /\ mutex = Nobody
  /\ asked = 0 - Interval
  /\ flow = [b \in Clients |-> NoFlow]
  /\ cookie = [b \in Clients |-> 0]
  /\ sessions = {} /\ touches = {} /\ ended = {} /\ minted = {}

-----------------------------------------------------------------------------
(* Sessions.                                                                *)

\* GetSession: an expired row is not found.
GetSession(id) == {s \in sessions : s.id = id /\ ~(s.expires < clock)}

\* mintSession, and the cookie in the answer.
MintSession(b) ==
  LET s == [id |-> Cardinality(minted) + 1, expires |-> clock + SessionTTL, seen |-> clock]
  IN /\ sessions' = sessions \cup {s}
     /\ minted' = minted \cup {s}
     /\ cookie' = [cookie EXCEPT ![b] = s.id]
     /\ UNCHANGED <<touches, ended>>

\* A request with a session cookie: GetSession, and a goroutine for TouchSession.
UseSession(b) ==
  /\ GetSession(cookie[b]) # {}
  /\ touches' = touches \cup {cookie[b]}
  /\ UNCHANGED <<mode, cookie, sessions, ended, minted>> /\ UNCHANGED provider /\ UNCHANGED limiter

\* The row after the update of last_seen.
Seen(s, id) == IF s.id = id /\ s.expires > clock THEN [s EXCEPT !.seen = clock] ELSE s

\* Writes the row that the middleware read.
TouchUpserts(id) ==
  /\ touches' = touches \ {id}
  /\ sessions' = {s \in sessions : s.id # id} \cup {Seen(s, id) : s \in {m \in minted : m.id = id}}
  /\ UNCHANGED <<mode, cookie, ended, minted>> /\ UNCHANGED provider /\ UNCHANGED limiter

TouchSession(id) ==
  /\ touches' = touches \ {id}
  /\ sessions' = {Seen(s, id) : s \in sessions}
  /\ UNCHANGED <<mode, cookie, ended, minted>> /\ UNCHANGED provider /\ UNCHANGED limiter

\* Logout: DeleteSession, whose error is ignored, and the cookie is cleared.
Logout(b) ==
  /\ cookie[b] # 0
  /\ \/ /\ sessions' = {s \in sessions : s.id # cookie[b]}
        /\ ended' = ended \cup {cookie[b]}
     \/ UNCHANGED <<sessions, ended>>
  /\ cookie' = [cookie EXCEPT ![b] = 0]
  /\ UNCHANGED <<mode, touches, minted>> /\ UNCHANGED provider /\ UNCHANGED limiter

GarbageCollectSessions ==
  /\ sessions' = {s \in sessions : ~(s.expires < clock)}
  /\ UNCHANGED <<mode, cookie, touches, ended, minted>> /\ UNCHANGED provider /\ UNCHANGED limiter

-----------------------------------------------------------------------------
(* Passwords.                                                               *)

\* POST /api/v1/auth/login: the limiter, then Login.  (With auth = oidc it also
\* takes a token, for an error: the OIDC flow does not use the limiter.)
PasswordLogin(b, good) ==
  /\ mode \in {"none", "basic"}
  /\ Cardinality(minted) < MaxSessions
  /\ Allow(b)
  /\ IF answer'[2] /\ (good \/ mode = "none") THEN MintSession(b) ELSE UNCHANGED store
  /\ UNCHANGED mode /\ UNCHANGED provider

\* Any other request without a session and with wrong credentials takes a token;
\* with the right ones it takes none.
FailedBasic(b) ==
  /\ mode = "basic" /\ GetSession(cookie[b]) = {}
  /\ Allow(b)
  /\ UNCHANGED mode /\ UNCHANGED provider /\ UNCHANGED store

-----------------------------------------------------------------------------
(* OIDC.                                                                    *)

Quiet == UNCHANGED mode /\ UNCHANGED store /\ UNCHANGED limiter
At(b, pc) == flow[b].pc = pc
Goto(b, pc) == flow' = [flow EXCEPT ![b].pc = pc]
End(b) == flow' = [flow EXCEPT ![b] = NoFlow]

\* External: the identity provider takes a new signing key and publishes the
\* last two.
Published == {k \in 0..key : k + 1 >= key}
Rotate ==
  /\ mode = "oidc" /\ key < MaxKey
  /\ key' = key + 1
  /\ UNCHANGED <<doc, jwks, fetchedAt, mutex, flow, asked>> /\ Quiet

\* OIDCStart: the state cookie, then BeginPKCE.
OIDCStart(b) ==
  /\ mode = "oidc" /\ At(b, "idle")
  /\ Cardinality(minted) < MaxSessions
  /\ flow' = [flow EXCEPT ![b] = [NoFlow EXCEPT !.pc = "ensure", !.back = "redirect"]]
  /\ UNCHANGED <<cache, mutex, asked>> /\ Quiet

\* EnsureDiscovery looks under the read lock first.
EnsureDiscovery(b) ==
  /\ At(b, "ensure")
  /\ Goto(b, IF doc THEN flow[b].back ELSE "lock")
  /\ UNCHANGED <<cache, mutex, asked>> /\ Quiet

\* discoveryMu.Lock, and the second look.
DiscoveryLock(b) ==
  /\ At(b, "lock") /\ mutex = Nobody
  /\ IF doc THEN Goto(b, flow[b].back) /\ UNCHANGED mutex
            ELSE Goto(b, "discover") /\ mutex' = b
  /\ UNCHANGED <<cache, asked>> /\ Quiet

\* An error return without the Unlock.
DiscoverKeepsLock(b) ==
  /\ At(b, "discover")
  /\ \/ flow' = [flow EXCEPT ![b].pc = "discovered", ![b].got = Published]
     \/ End(b)
  /\ asked' = clock
  /\ UNCHANGED <<cache, mutex>> /\ Quiet

\* The document and the key set are fetched; an error releases the lock.
Discover(b) ==
  /\ At(b, "discover")
  /\ \/ flow' = [flow EXCEPT ![b].pc = "discovered", ![b].got = Published] /\ UNCHANGED mutex
     \/ End(b) /\ mutex' = Nobody
  /\ asked' = clock
  /\ UNCHANGED cache /\ Quiet

Discovered(b) ==
  /\ At(b, "discovered")
  /\ doc' = TRUE /\ jwks' = flow[b].got /\ fetchedAt' = clock
  /\ mutex' = Nobody
  /\ flow' = [flow EXCEPT ![b].pc = flow[b].back, ![b].got = {}]
  /\ UNCHANGED <<key, asked>> /\ Quiet

\* Back from the identity provider: OIDCCallback checks the error, the state
\* cookie and the code, and calls Exchange.
OIDCCallback(b) ==
  /\ At(b, "redirect")
  /\ \/ flow' = [flow EXCEPT ![b].pc = "ensure", ![b].back = "token"]
     \/ End(b)
  /\ UNCHANGED <<cache, mutex, asked>> /\ Quiet

\* The token endpoint answers with a token signed by the current key, or an error.
Exchange(b) ==
  /\ At(b, "token")
  /\ \/ flow' = [flow EXCEPT ![b].pc = "verify", ![b].kid = key]
     \/ End(b)
  /\ UNCHANGED <<cache, mutex, asked>> /\ Quiet

\* verifyIDToken and the nonce; without a matching key, once more after refreshJWKS.
VerifyIDToken(b) ==
  /\ At(b, "verify")
  /\ \/ flow[b].kid \in jwks /\ (Goto(b, "mint") \/ End(b))
     \/ flow[b].kid \notin jwks /\ ~flow[b].retried /\ Goto(b, "refresh")
     \/ flow[b].kid \notin jwks /\ flow[b].retried /\ End(b)
  /\ UNCHANGED <<cache, mutex, asked>> /\ Quiet

\* refreshJWKS: discoveryMu.Lock, and the interval.
RefreshLock(b) ==
  /\ At(b, "refresh") /\ mutex = Nobody
  /\ IF clock - fetchedAt < Interval THEN End(b) /\ UNCHANGED mutex
                                     ELSE Goto(b, "refetch") /\ mutex' = b
  /\ UNCHANGED <<cache, asked>> /\ Quiet

\* Only a fetch that succeeds counts for the interval.
RefetchUncounted(b) ==
  /\ At(b, "refetch")
  /\ \/ flow' = [flow EXCEPT ![b].pc = "refetched", ![b].got = Published] /\ UNCHANGED <<mutex, fetchedAt>>
     \/ End(b) /\ mutex' = Nobody /\ UNCHANGED fetchedAt
  /\ asked' = clock
  /\ UNCHANGED <<key, doc, jwks>> /\ Quiet

\* fetchJWKS; a failure counts for the interval too.
Refetch(b) ==
  /\ At(b, "refetch")
  /\ \/ flow' = [flow EXCEPT ![b].pc = "refetched", ![b].got = Published] /\ UNCHANGED <<mutex, fetchedAt>>
     \/ End(b) /\ mutex' = Nobody /\ fetchedAt' = clock
  /\ asked' = clock
  /\ UNCHANGED <<key, doc, jwks>> /\ Quiet

Refetched(b) ==
  /\ At(b, "refetched")
  /\ jwks' = flow[b].got /\ fetchedAt' = clock
  /\ mutex' = Nobody
  /\ flow' = [flow EXCEPT ![b].pc = "verify", ![b].retried = TRUE, ![b].got = {}]
  /\ UNCHANGED <<key, doc, asked>> /\ Quiet

\* The end of OIDCCallback; the insert may fail.
Mint(b) ==
  /\ At(b, "mint")
  /\ MintSession(b) \/ UNCHANGED store
  /\ End(b)
  /\ UNCHANGED <<mode, cache, mutex, asked>> /\ UNCHANGED limiter

-----------------------------------------------------------------------------
Working(b) ==
  \/ EnsureDiscovery(b) \/ DiscoveryLock(b) \/ Discover(b) \/ Discovered(b)
  \/ Exchange(b) \/ VerifyIDToken(b) \/ RefreshLock(b) \/ Refetch(b) \/ Refetched(b) \/ Mint(b)

Next ==
  \/ Tick /\ UNCHANGED <<mode, provider, store>>
  \/ Rotate \/ GarbageCollectSessions
  \/ \E id \in touches : TouchSession(id)
  \/ \E b \in Clients :
       \/ \E good \in BOOLEAN : PasswordLogin(b, good)
       \/ FailedBasic(b) \/ UseSession(b) \/ Logout(b)
       \/ OIDCStart(b) \/ OIDCCallback(b) \/ Working(b)

Spec == Init /\ [][Next]_vars

\* A request goes on: httpClient gives up after 15 seconds, and sync.Mutex lets
\* nobody starve.
FairSpec ==
  /\ Spec
  /\ \A b \in Clients :
       /\ WF_vars(Working(b))
       /\ SF_vars(DiscoveryLock(b)) /\ SF_vars(RefreshLock(b))

-----------------------------------------------------------------------------
\* Whoever fetches holds discoveryMu, so there is one at a time, and a discovery
\* is never repeated once one has succeeded, however many logins find the cache
\* empty at the same time ("only the first caller fetches").
DiscoveryOnce ==
  \A b \in Clients :
    /\ flow[b].pc \in {"discover", "discovered", "refetch", "refetched"} => mutex = b
    /\ flow[b].pc \in {"discover", "discovered"} => ~doc

\* Tokens with unknown keys ask the identity provider for its keys at most once
\* an interval, whether or not it answers.
RefreshSpaced ==
  [][\A b \in Clients : At(b, "refetch") /\ flow'[b].pc # "refetch" => clock - asked >= Interval]_vars

\* A session whose row no logout deleted is there until its time has passed: it is
\* accepted at its last moment, whenever the collector runs and requests touch it.
SessionsKept ==
  \A m \in minted : m.id \notin ended /\ m.expires >= clock => GetSession(m.id) # {}

\* A session whose row a logout deleted does not come back, also when the touch of
\* an earlier request is late.
NoResurrection == \A s \in sessions : s.id \notin ended

\* A session is accepted from its login until its time has passed or the
\* DeleteSession of a logout succeeds, and not after that, whatever the collector
\* and late touches do meanwhile (sessions.go, the auth middleware).  A logout whose
\* DeleteSession fails answers 200 all the same, and its session goes on.
SessionsExact == SessionsKept /\ NoResurrection

\* Every login that the server works on comes to an answer: nobody waits for ever
\* behind a discovery or a refresh that failed.
LoginsEnd ==
  \A b \in Clients : flow[b].pc \notin {"idle", "redirect"} ~> flow[b].pc \in {"idle", "redirect"}
=============================================================================
