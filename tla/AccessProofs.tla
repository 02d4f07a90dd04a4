---------------------------- MODULE AccessProofs ----------------------------
(***************************************************************************)
(* Workspaces, roles and experiments for any number of goroutines,         *)
(* workspaces, users and requests: a handler runs only for a caller who    *)
(* was entitled, what was acknowledged stays, and a search that is paged   *)
(* to its end has seen every row that matched all along, once.             *)
(***************************************************************************)
EXTENDS Access, FiniteSetTheorems, TLAPS

USE ZenonT(60)

-----------------------------------------------------------------------------
(* The pages of Keyset, for sort keys of two columns.                       *)

\* The image of a finite set under a function on it.
LEMMA Image ==
  ASSUME NEW S, IsFiniteSet(S), NEW T, NEW f \in [S -> T], \A y \in T : \E x \in S : y = f[x]
  PROVE  IsFiniteSet(T)
<1>1. f \in Surjection(S, T)
  BY DEF Surjection
<1> QED
  BY <1>1, FS_Surjection

\* A non-empty set of naturals has a least member.
LEMMA LeastNat ==
  ASSUME NEW S \in SUBSET Nat, S # {}
  PROVE  \E m \in S : \A i \in S : m <= i
<1> DEFINE R == OpToRel(<, Nat)
<1>1. IsWellFoundedOn(R, Nat)
  BY NatLessThanWellFounded
<1>2. PICK m \in S : \A y \in S : ~(<<y, m>> \in R)
  <2> HIDE DEF R
  <2> QED
    BY <1>1, WFMin
<1>3. ASSUME NEW i \in S PROVE m <= i
  <2>1. ~(i < m)
    BY <1>2 DEF OpToRel
  <2> QED
    BY SMTT(60), <2>1
<1> QED
  BY <1>3

\* A strict order on a finite set has a maximal member: one with the most predecessors.
LEMMA Maximal ==
  ASSUME NEW S, IsFiniteSet(S), S # {}, NEW R,
         \A x \in S : <<x, x>> \notin R,
         \A x, y, z \in S : <<x, y>> \in R /\ <<y, z>> \in R => <<x, z>> \in R
  PROVE  \E m \in S : \A x \in S : <<m, x>> \notin R
<1> DEFINE P == [x \in S |-> {y \in S : <<y, x>> \in R}]
           D == {Cardinality(S) - Cardinality(P[x]) : x \in S}
<1>1. \A x \in S : P[x] = {y \in S : <<y, x>> \in R} /\ P[x] \in SUBSET S
  OBVIOUS
<1> HIDE DEF P
<1>2. \A x \in S : IsFiniteSet(P[x]) /\ Cardinality(P[x]) <= Cardinality(S)
  BY <1>1, FS_Subset
<1>3. Cardinality(S) \in Nat /\ \A x \in S : Cardinality(P[x]) \in Nat
  BY <1>2, FS_CardinalityType
<1>4. D \in SUBSET Nat /\ D # {}
  BY SMTT(60), <1>2, <1>3
<1>5. PICK d \in D : \A e \in D : d <= e
  <2> HIDE DEF D
  <2> QED
    BY <1>4, LeastNat
<1>6. PICK m \in S : d = Cardinality(S) - Cardinality(P[m])
  BY <1>5
<1>7. ASSUME NEW z \in S, <<m, z>> \in R PROVE FALSE
  <2>1. m \notin P[m] /\ P[m] \cup {m} \in SUBSET P[z]
    <3>1. m \notin P[m]
      <4>1. <<m, m>> \notin R
        OBVIOUS
      <4>2. P[m] = {y \in S : <<y, m>> \in R}
        BY <1>1
      <4> QED
        BY <4>1, <4>2
    <3>2. m \in P[z]
      BY SMTT(60), <1>1, <1>7
    <3>3. ASSUME NEW y \in P[m] PROVE y \in P[z]
      <4>1. y \in S /\ <<y, m>> \in R
        BY SMTT(60), <1>1
      <4>2. <<y, z>> \in R
        BY <1>7, <4>1
      <4> QED
        BY <1>1, <4>1, <4>2
    <3> QED
      BY <3>1, <3>2, <3>3
  <2>2. IsFiniteSet(P[m] \cup {m}) /\ Cardinality(P[m] \cup {m}) = Cardinality(P[m]) + 1
    BY <1>2, <2>1, FS_AddElement
  <2>3. Cardinality(P[m] \cup {m}) <= Cardinality(P[z])
    BY <1>2, <2>1, FS_Subset
  <2>4. d <= Cardinality(S) - Cardinality(P[z])
    BY SMTT(60), <1>5
  <2> QED
    BY SMTT(60), <1>3, <1>6, <2>2, <2>3, <2>4
<1> QED
  BY <1>7

\* ORDER BY ... LIMIT n: the members with fewer than n predecessors.
Segment(S, R, n) == {x \in S : Cardinality({y \in S : <<y, x>> \in R}) < n}

\* They are an initial segment, not empty unless the set is, and everything there is when
\* LIMIT n + 1 finds no more than n.
LEMMA SegmentIs ==
  ASSUME NEW S, IsFiniteSet(S), NEW R, NEW n \in Nat \ {0},
         \A x \in S : <<x, x>> \notin R,
         \A x, y, z \in S : <<x, y>> \in R /\ <<y, z>> \in R => <<x, z>> \in R
  PROVE  /\ \A x \in Segment(S, R, n), y \in S : <<y, x>> \in R => y \in Segment(S, R, n)
         /\ S # {} => Segment(S, R, n) # {}
         /\ Segment(S, R, n) # {} => \E m \in Segment(S, R, n) : \A x \in Segment(S, R, n) : <<m, x>> \notin R
         /\ Cardinality(Segment(S, R, n + 1)) <= n => Segment(S, R, n) = S
<1> DEFINE P == [x \in S |-> {y \in S : <<y, x>> \in R}]
           F == Segment(S, R, n)
           G == Segment(S, R, n + 1)
           Q == {e \in S \X S : <<e[2], e[1]>> \in R}
<1>1. \A x \in S : P[x] = {y \in S : <<y, x>> \in R} /\ P[x] \in SUBSET S
  OBVIOUS
<1>2. F \in SUBSET S /\ G \in SUBSET S
  BY DEF Segment
<1>3. \A x \in S : (x \in F <=> Cardinality(P[x]) < n) /\ (x \in G <=> Cardinality(P[x]) < n + 1)
  BY DEF Segment
<1>a. \A x, y \in S : <<x, y>> \in Q <=> <<y, x>> \in R
  OBVIOUS
<1> HIDE DEF P, F, G, Q
<1>4. \A x \in S : IsFiniteSet(P[x])
  BY <1>1, FS_Subset
<1>5. \A x \in S : Cardinality(P[x]) \in Nat
  BY <1>4, FS_CardinalityType
<1>6. ASSUME NEW x \in F, NEW y \in S, <<y, x>> \in R PROVE y \in F
  <2>1. x \in S
    BY <1>2
  <2>2. P[y] \in SUBSET P[x]
    <3>1. ASSUME NEW z \in P[y] PROVE z \in P[x]
      <4>1. z \in S /\ <<z, y>> \in R
        BY <1>1
      <4>2. <<z, x>> \in R
        BY <1>6, <2>1, <4>1
      <4> QED
        BY <1>1, <2>1, <4>1, <4>2
    <3> QED
      BY <3>1
  <2>3. Cardinality(P[y]) <= Cardinality(P[x])
    BY <1>4, <2>1, <2>2, FS_Subset
  <2> QED
    BY SMTT(60), <1>3, <1>5, <2>1, <2>3
\* A set of members has a first one.
<1>b. ASSUME NEW D \in SUBSET S, D # {} PROVE \E m \in D : \A x \in D : <<x, m>> \notin R
  <2>1. IsFiniteSet(D)
    BY FS_Subset
  <2>2. /\ \A x \in D : <<x, x>> \notin Q
        /\ \A x, y, z \in D : <<x, y>> \in Q /\ <<y, z>> \in Q => <<x, z>> \in Q
    BY <1>a
  <2>3. PICK m \in D : \A x \in D : <<m, x>> \notin Q
    BY <1>b, <2>1, <2>2, Maximal
  <2>4. ASSUME NEW x \in D PROVE <<x, m>> \notin R
    <3>1. m \in S /\ x \in S /\ <<m, x>> \notin Q
      BY <2>3
    <3> QED
      BY <1>a, <3>1
  <2> QED
    BY <2>3, <2>4
<1>7. ASSUME S # {} PROVE F # {}
  <2>1. PICK m \in S : \A x \in S : <<x, m>> \notin R
    BY <1>b, <1>7
  <2>2. P[m] = {y \in S : <<y, m>> \in R}
    BY <1>1
  <2>3. P[m] = {}
    BY <2>1, <2>2
  <2>4. Cardinality(P[m]) = 0
    BY <2>3, FS_EmptySet
  <2> QED
    BY SMTT(60), <1>3, <2>4
<1>8. ASSUME F # {} PROVE \E m \in F : \A x \in F : <<m, x>> \notin R
  <2>1. IsFiniteSet(F)
    BY <1>2, FS_Subset
  <2>2. /\ \A x \in F : <<x, x>> \notin R
        /\ \A x, y, z \in F : <<x, y>> \in R /\ <<y, z>> \in R => <<x, z>> \in R
    BY <1>2
  <2> QED
    BY <1>8, <2>1, <2>2, Maximal
<1>9. ASSUME Cardinality(G) <= n PROVE F = S
  <2>1. IsFiniteSet(G)
    BY <1>2, FS_Subset
  <2>2. Cardinality(G) \in Nat
    BY <2>1, FS_CardinalityType
  <2>3. G = S
    <3>1. SUFFICES ASSUME S \ G # {} PROVE FALSE
      BY <1>2
    <3>2. PICK m \in S \ G : \A x \in S \ G : <<x, m>> \notin R
      BY <1>b, <3>1
    <3>3. P[m] \in SUBSET G
      <4>1. P[m] = {y \in S : <<y, m>> \in R}
        BY <1>1
      <4> QED
        BY <3>2, <4>1
    <3>4. Cardinality(P[m]) <= Cardinality(G)
      BY <2>1, <3>3, FS_Subset
    <3> QED
      BY SMTT(60), <1>3, <1>5, <1>9, <2>2, <3>2, <3>4
  <2>4. ASSUME NEW x \in S PROVE x \in F
    <3>1. x \notin P[x] /\ P[x] \cup {x} \in SUBSET S
      <4>1. P[x] = {y \in S : <<y, x>> \in R} /\ <<x, x>> \notin R
        BY <1>1
      <4> QED
        BY <4>1
    <3>2. Cardinality(P[x] \cup {x}) = Cardinality(P[x]) + 1
      BY <1>4, <3>1, FS_AddElement
    <3>3. Cardinality(P[x] \cup {x}) <= Cardinality(S)
      BY <3>1, FS_Subset
    <3> QED
      BY SMTT(60), <1>3, <1>5, <1>9, <2>2, <2>3, <3>2, <3>3
  <2> QED
    BY <1>2, <2>4
<1> QED
  BY <1>6, <1>7, <1>8, <1>9 DEF F, G

\* keysetPredicate on two columns is the lexicographic order.
LEMMA BeyondPair ==
  ASSUME NEW k \in Int \X Int, NEW c \in Int \X Int
  PROVE  Beyond(k, c) <=> k[1] > c[1] \/ (k[1] = c[1] /\ k[2] > c[2])
<1>1. DOMAIN k = 1 .. 2 /\ k[1] \in Int /\ k[2] \in Int /\ c[1] \in Int /\ c[2] \in Int
  BY SMTT(60)
<1>2. ASSUME Beyond(k, c) PROVE k[1] > c[1] \/ (k[1] = c[1] /\ k[2] > c[2])
  <2>1. PICK i \in 1 .. 2 : k[i] > c[i] /\ \A j \in 1 .. i - 1 : k[j] = c[j]
    BY <1>1, <1>2 DEF Beyond
  <2>2. CASE i = 1
    BY <2>1, <2>2
  <2>3. CASE i = 2
    <3>1. 1 \in 1 .. i - 1
      BY SMTT(60), <2>3
    <3> QED
      BY <2>1, <2>3, <3>1
  <2> QED
    BY SMTT(60), <2>2, <2>3
<1>3. ASSUME k[1] > c[1] PROVE Beyond(k, c)
  <2>1. 1 \in DOMAIN k /\ \A j \in 1 .. 1 - 1 : k[j] = c[j]
    BY SMTT(60), <1>1
  <2> QED
    BY <1>3, <2>1 DEF Beyond
<1>4. ASSUME k[1] = c[1], k[2] > c[2] PROVE Beyond(k, c)
  <2>1. 2 \in DOMAIN k /\ \A j \in 1 .. 2 - 1 : j = 1
    BY SMTT(60), <1>1
  <2>2. \A j \in 1 .. 2 - 1 : k[j] = c[j]
    BY <1>4, <2>1
  <2> QED
    BY <1>4, <2>1, <2>2 DEF Beyond
<1> QED
  BY <1>2, <1>3, <1>4

\* Such keys are in a strict total order, and none is the empty token.
LEMMA BeyondOrders ==
  ASSUME NEW a \in Int \X Int, NEW b \in Int \X Int, NEW c \in Int \X Int
  PROVE  /\ ~Beyond(a, a)
         /\ Beyond(a, b) /\ Beyond(b, c) => Beyond(a, c)
         /\ Beyond(a, b) \/ Beyond(b, a) \/ a = b
         /\ a # Start
<1>1. a = <<a[1], a[2]>> /\ b = <<b[1], b[2]>> /\ a[1] \in Int /\ a[2] \in Int /\ b[1] \in Int /\ b[2] \in Int
      /\ c[1] \in Int /\ c[2] \in Int /\ Len(a) = 2
  BY SMTT(60)
<1>2. ~Beyond(a, a)
  BY SMTT(60), <1>1, BeyondPair
<1>3. Beyond(a, b) /\ Beyond(b, c) => Beyond(a, c)
  BY SMTT(60), <1>1, BeyondPair
<1>4. Beyond(a, b) \/ Beyond(b, a) \/ (a[1] = b[1] /\ a[2] = b[2])
  BY SMTT(60), <1>1, BeyondPair
<1>5. a # Start
  <2>1. Len(a) # Len(<< >>)
    BY SMTT(60), <1>1
  <2> QED
    BY <2>1 DEF Start
<1> QED
  BY <1>1, <1>2, <1>3, <1>4, <1>5

\* A page of n rows out of L, and its token: either the page is all of L, or the token
\* separates it from the rest.
LEMMA PageIs ==
  ASSUME NEW L, IsFiniteSet(L), \A r \in L : r.key \in Int \X Int, NEW n \in Nat \ {0}
  PROVE  /\ First(L, n) \subseteq L
         /\ Token(L, n) = Start => First(L, n) = L
         /\ Token(L, n) # Start =>
              \E m \in First(L, n) :
                /\ Token(L, n) = m.key
                /\ \A s \in L : s \in First(L, n) <=> ~Beyond(s.key, m.key)
<1> DEFINE R == {e \in L \X L : Beyond(e[2].key, e[1].key)}
<1>1. \A x, y \in L : <<x, y>> \in R <=> Beyond(y.key, x.key)
  OBVIOUS
<1> HIDE DEF R
<1>2. \A x \in L : {y \in L : <<y, x>> \in R} = {y \in L : Beyond(x.key, y.key)}
  BY <1>1
<1>3. First(L, n) = Segment(L, R, n) /\ First(L, n + 1) = Segment(L, R, n + 1)
  BY <1>2 DEF First, Segment
<1>4. \A x \in L : <<x, x>> \notin R
  BY <1>1, BeyondOrders
<1>5. \A x, y, z \in L : <<x, y>> \in R /\ <<y, z>> \in R => <<x, z>> \in R
  <2> SUFFICES ASSUME NEW x \in L, NEW y \in L, NEW z \in L, <<x, y>> \in R, <<y, z>> \in R PROVE <<x, z>> \in R
    OBVIOUS
  <2>1. x.key \in Int \X Int /\ y.key \in Int \X Int /\ z.key \in Int \X Int
    OBVIOUS
  <2>2. Beyond(y.key, x.key) /\ Beyond(z.key, y.key)
    BY <1>1
  <2>3. Beyond(z.key, x.key)
    BY <2>1, <2>2, BeyondOrders
  <2> QED
    BY <1>1, <2>3
<1>6. /\ \A x \in First(L, n), y \in L : <<y, x>> \in R => y \in First(L, n)
      /\ L # {} => First(L, n) # {}
      /\ First(L, n) # {} => \E m \in First(L, n) : \A x \in First(L, n) : <<m, x>> \notin R
      /\ Cardinality(First(L, n + 1)) <= n => First(L, n) = L
  BY SMTT(60), <1>3, <1>4, <1>5, SegmentIs
<1>7. First(L, n) \subseteq L /\ First(L, n + 1) \subseteq L
  BY DEF First
<1>8. CASE Cardinality(First(L, n + 1)) <= n
  <2>1. Token(L, n) = Start
    BY <1>8 DEF Token
  <2> QED
    BY <1>6, <1>7, <1>8, <2>1
<1>9. CASE ~(Cardinality(First(L, n + 1)) <= n)
  <2>1. First(L, n + 1) # {}
    <3>1. Cardinality({}) <= n
      BY SMTT(60), FS_EmptySet
    <3> QED
      BY <1>9, <3>1
  <2>2. First(L, n) # {}
    BY <1>6, <1>7, <2>1
  <2>3. \E m \in First(L, n) : \A s \in First(L, n) : ~Beyond(s.key, m.key)
    BY <1>1, <1>6, <1>7, <2>2
  <2>4. PICK m : m = CHOOSE r \in First(L, n) : \A s \in First(L, n) : ~Beyond(s.key, r.key)
    OBVIOUS
  <2>5. m \in First(L, n) /\ \A s \in First(L, n) : ~Beyond(s.key, m.key)
    BY <2>3, <2>4
  <2>6. Token(L, n) = m.key
    BY <1>9, <2>4 DEF Token, LastKey
  <2>7. Token(L, n) # Start
    <3>1. m.key \in Int \X Int
      BY <1>7, <2>5
    <3> QED
      BY <2>6, <3>1, BeyondOrders
  <2>8. ASSUME NEW s \in L, ~Beyond(s.key, m.key) PROVE s \in First(L, n)
    <3>0. s.key \in Int \X Int /\ m.key \in Int \X Int /\ m \in L
      BY <1>7, <2>5
    <3>1. CASE Beyond(m.key, s.key)
      BY <1>1, <1>6, <2>5, <3>0, <3>1
    <3>2. CASE m.key = s.key
      <4>1. {y \in L : Beyond(s.key, y.key)} = {y \in L : Beyond(m.key, y.key)}
        BY <3>2
      <4>2. Cardinality({y \in L : Beyond(m.key, y.key)}) < n
        BY <2>5 DEF First
      <4> QED
        BY <4>1, <4>2 DEF First
    <3> QED
      BY <2>8, <3>0, <3>1, <3>2, BeyondOrders
  <2> QED
    BY <1>7, <2>5, <2>6, <2>7, <2>8
<1> QED
  BY <1>8, <1>9

-----------------------------------------------------------------------------


Whole(r) ==
  r = [pc |-> r.pc, q |-> r.q, id |-> r.id, tag |-> r.tag, cursor |-> r.cursor, out |-> r.out, twice |-> r.twice]

\* Where a handler is between two store calls.
Working == {"insert", "locate", "tag", "apply", "upsert"}
Paging == {"page", "searched"}

\* A request is of those clients send, and where it is fits what it is.
ReqOK(r) ==
  /\ Whole(r) /\ r.pc \in {"idle", "serve"} \cup Checks \cup Working \cup Paging
  /\ r.pc # "idle" => r.q \in Requests
  /\ r.pc = "insert" => r.q.op = "cloneExperiment"
  /\ r.pc = "upsert" => r.q.op = "addMember"
  /\ r.pc = "apply" => r.q.op \in Changes
  /\ r.pc = "tag" => r.tag # Nothing
  /\ r.pc \in Paging => r.q.op = "searchExperiments"
ReqInv ==
  /\ req = [p \in Procs |-> req[p]]
  /\ \A p \in Procs : ReqOK(req[p])

\* The same search, if it is one.
SameSearch(r, s) == r.q = s.q /\ r.cursor = s.cursor /\ r.out = s.out /\ r.twice = s.twice

Moved(p, r) == req' = [req EXCEPT ![p] = r] /\ ReqOK(r)

\* The steps of the middlewares, with what they have seen.
Checked(p, r) ==
  LET q == req[p].q IN
  /\ SameSearch(r, req[p]) /\ req[p].pc \in Checks /\ r.pc \in Checks \cup {"serve"}
  /\ UNCHANGED db
  /\ Auth # "none" =>
       \/ req[p].pc = "resolve" /\ r.pc = "target" /\ q.target \notin {Nothing, q.ws}
       \/ req[p].pc = "resolve" /\ r.pc = "open" /\ q.target \in {Nothing, q.ws}
       \/ req[p].pc = "target" /\ r.pc = "targetRole"
       \/ req[p].pc = "target" /\ r.pc = "open" /\ Members(q.target) = {}
       \/ req[p].pc = "targetRole" /\ r.pc = "serve" /\ roleAtLeast(role[q.target][q.user], q.op)
       \/ req[p].pc = "open" /\ r.pc = "role"
       \/ req[p].pc = "open" /\ r.pc = "serve" /\ q.ws = Default /\ Members(q.ws) = {}
       \/ req[p].pc = "role" /\ r.pc = "serve" /\ roleAtLeast(role[q.ws][q.user], q.op)

\* What a step of goroutine p does to its request.
Move(p) ==
  \/ End(p)
  \/ \E r :
       /\ Moved(p, r)
       /\ \/ /\ req[p].pc = "idle" /\ r.pc = "resolve"
             /\ r.cursor = Start /\ r.out = {} /\ r.twice = {} /\ UNCHANGED db
          \/ Checked(p, r)
          \/ req[p].pc \in {"serve"} \cup Working /\ r.pc \in Working /\ SameSearch(r, req[p])
          \/ SearchPage(p) /\ req[p].pc \in {"serve"} \cup Paging /\ r.pc \in Paging /\ r.q = req[p].q

-----------------------------------------------------------------------------
(* Requests.                                                                *)

\* A goroutine goes on elsewhere.
LEMMA GotoMoves ==
  ASSUME ReqInv, NEW p \in Procs, NEW pc, Goto(p, pc), req[p].pc # "idle",
         pc \in {"serve"} \cup Checks \cup {"apply", "upsert"},
         pc = "upsert" => req[p].q.op = "addMember", pc = "apply" => req[p].q.op \in Changes
  PROVE  \E r : Moved(p, r) /\ r.pc = pc /\ SameSearch(r, req[p])
<1>1. PICK r : r = [req[p] EXCEPT !.pc = pc]
  OBVIOUS
<1>2. ReqOK(req[p]) /\ Whole(req[p])
  BY DEF ReqInv, ReqOK
<1>3. /\ Whole(r) /\ r.pc = pc /\ SameSearch(r, req[p])
  BY <1>1, <1>2 DEF Whole, SameSearch
<1>4. ReqOK(r)
  BY <1>2, <1>3 DEF ReqOK, SameSearch, Checks, Working, Paging
<1>5. req' = [req EXCEPT ![p] = r]
  BY <1>1 DEF Goto
<1> QED
  BY <1>3, <1>4, <1>5 DEF Moved

\* A request arrives.
LEMMA ArriveMoves ==
  ASSUME ReqInv, NEW p \in Procs, Arrive(p)
  PROVE  Move(p)
<1>1. PICK q \in Requests : req' = [req EXCEPT ![p] = [Idle EXCEPT !.pc = "resolve", !.q = q]]
  BY DEF Arrive
<1>2. PICK r : r = [Idle EXCEPT !.pc = "resolve", !.q = q]
  OBVIOUS
<1>3. Whole(r) /\ r.pc = "resolve" /\ r.q = q /\ r.cursor = Start /\ r.out = {} /\ r.twice = {}
  BY <1>2 DEF Idle, Whole
<1>4. ReqOK(r)
  BY <1>3 DEF ReqOK, Checks, Paging
<1> QED
  BY <1>1, <1>2, <1>3, <1>4 DEF Move, Moved, Arrive

\* A request ends.
LEMMA EndMoves ==
  ASSUME ReqInv, NEW p \in Procs, End(p)
  PROVE  Moved(p, Idle) /\ Idle.pc = "idle" /\ Idle.twice = {}
<1>1. Whole(Idle) /\ Idle.pc = "idle" /\ Idle.twice = {}
  BY DEF Idle, Whole
<1>2. ReqOK(Idle)
  BY <1>1 DEF ReqOK, Checks, Paging
<1> QED
  BY <1>1, <1>2 DEF Moved, End

\* The middlewares.
LEMMA CheckMoves ==
  ASSUME ReqInv, NEW p \in Procs,
         ResolveWorkspace(p) \/ ListTargetMembers(p) \/ GetTargetRole(p) \/ OpenMode(p) \/ GetMemberRole(p)
  PROVE  Move(p)
<1> DEFINE q == req[p].q
<1>0. SUFFICES ASSUME ~End(p) PROVE Move(p)
  BY DEF Move
<1>1. CASE ResolveWorkspace(p)
  <2>1. PICK pc : pc = CASE Auth = "none" -> "serve"
                    [] Auth # "none" /\ q.target \notin {Nothing, q.ws} -> "target"
                    [] OTHER -> "open"
    OBVIOUS
  <2>2. Goto(p, pc) /\ req[p].pc = "resolve" /\ UNCHANGED db
    BY <1>0, <1>1, <2>1 DEF ResolveWorkspace
  <2>3. pc \in {"serve", "target", "open"}
    BY <2>1
  <2>4. PICK r : Moved(p, r) /\ r.pc = pc /\ SameSearch(r, req[p])
    BY <2>2, <2>3, GotoMoves DEF Checks
  <2>5. Checked(p, r)
    BY <2>1, <2>2, <2>4 DEF Checked, Checks
  <2> QED
    BY <2>4, <2>5 DEF Move
<1>2. CASE ListTargetMembers(p)
  <2>1. PICK pc \in {"targetRole", "open"} : /\ Goto(p, pc) /\ req[p].pc = "target" /\ UNCHANGED db
                                             /\ pc = "open" => Members(q.target) = {}
    BY <1>2 DEF ListTargetMembers
  <2>2. PICK r : Moved(p, r) /\ r.pc = pc /\ SameSearch(r, req[p])
    BY <2>1, GotoMoves DEF Checks
  <2>3. Checked(p, r)
    BY <2>1, <2>2 DEF Checked, Checks
  <2> QED
    BY <2>2, <2>3 DEF Move
<1>3. CASE GetTargetRole(p) \/ GetMemberRole(p)
  <2>1. /\ Goto(p, "serve") /\ UNCHANGED db
        /\ \/ req[p].pc = "targetRole" /\ roleAtLeast(role[q.target][q.user], q.op)
           \/ req[p].pc = "role" /\ roleAtLeast(role[q.ws][q.user], q.op)
    BY <1>0, <1>3 DEF GetTargetRole, GetMemberRole
  <2>2. PICK r : Moved(p, r) /\ r.pc = "serve" /\ SameSearch(r, req[p])
    BY <2>1, GotoMoves DEF Checks
  <2>3. Checked(p, r)
    BY <2>1, <2>2 DEF Checked, Checks
  <2> QED
    BY <2>2, <2>3 DEF Move
<1>4. CASE OpenMode(p)
  <2>1. PICK pc \in {"serve", "role"} : /\ Goto(p, pc) /\ req[p].pc = "open" /\ UNCHANGED db
                                        /\ pc = "serve" => q.ws = Default /\ Members(q.ws) = {}
    BY <1>4 DEF OpenMode
  <2>2. PICK r : Moved(p, r) /\ r.pc = pc /\ SameSearch(r, req[p])
    BY <2>1, GotoMoves DEF Checks
  <2>3. Checked(p, r)
    BY <2>1, <2>2 DEF Checked, Checks
  <2> QED
    BY <2>2, <2>3 DEF Move
<1> QED
  BY <1>1, <1>2, <1>3, <1>4

\* The handlers that go on with another statement.
LEMMA WorkMoves ==
  ASSUME ReqInv, NEW p \in Procs, NEW pc \in {"insert", "apply", "upsert"}, NEW tag,
         req[p].pc \in {"serve"} \cup Working,
         pc \in {"apply", "upsert"} => Goto(p, pc),
         pc = "insert" => req' = [req EXCEPT ![p].pc = pc, ![p].tag = tag],
         pc = "insert" => req[p].q.op = "cloneExperiment",
         pc = "upsert" => req[p].q.op = "addMember", pc = "apply" => req[p].q.op \in Changes
  PROVE  Move(p)
<1>1. Whole(req[p]) /\ req[p].q \in Requests /\ req[p].pc # "idle" /\ req = [q \in Procs |-> req[q]]
  BY DEF ReqInv, ReqOK, Working
<1>0. pc \in Working
  BY DEF Working
<1>2. CASE pc \in {"apply", "upsert"}
  <2>1. PICK r : Moved(p, r) /\ r.pc = pc /\ SameSearch(r, req[p])
    BY <1>0, <1>1, <1>2, GotoMoves
  <2> QED
    BY <1>0, <2>1 DEF Move
<1>3. CASE pc = "insert"
  <2>1. PICK r : r = [req[p] EXCEPT !.pc = pc, !.tag = tag]
    OBVIOUS
  <2>2. Whole(r) /\ r.pc = pc /\ SameSearch(r, req[p])
    BY <1>1, <2>1 DEF Whole, SameSearch
  <2>3. ReqOK(r)
    BY <1>1, <1>3, <2>2 DEF ReqOK, SameSearch, Working, Paging, Checks
  <2>4. req' = [req EXCEPT ![p] = r]
    BY <1>1, <1>3, <2>1 DEF Whole
  <2> QED
    BY <1>0, <2>2, <2>3, <2>4 DEF Move, Moved
<1> QED
  BY <1>2, <1>3

\* The rest of a creation.
LEMMA ProceedMoves ==
  ASSUME ReqInv, NEW p \in Procs, NEW id, NEW tag, NEW step, Proceed(p, id, tag, step),
         req[p].pc \in {"serve"} \cup Working
  PROVE  Move(p)
<1>1. CASE End(p)
  BY <1>1 DEF Move
<1>2. CASE /\ step \in {"locate", "tag"} /\ (step = "tag" => tag # Nothing)
           /\ req' = [req EXCEPT ![p].pc = step, ![p].id = id, ![p].tag = tag]
  <2>0. Whole(req[p]) /\ req[p].q \in Requests /\ req = [q \in Procs |-> req[q]]
    BY DEF ReqInv, ReqOK, Working
  <2>1. PICK r : r = [req[p] EXCEPT !.pc = step, !.id = id, !.tag = tag]
    OBVIOUS
  <2>2. Whole(r) /\ r.pc = step /\ SameSearch(r, req[p]) /\ r.tag = tag
    BY <2>0, <2>1 DEF Whole, SameSearch
  <2>3. ReqOK(r)
    BY <1>2, <2>0, <2>2 DEF ReqOK, SameSearch, Working, Paging, Checks
  <2>4. req' = [req EXCEPT ![p] = r]
    BY <1>2, <2>0, <2>1 DEF Whole
  <2>5. r.pc \in Working
    BY <1>2, <2>2 DEF Working
  <2> QED
    BY <2>2, <2>3, <2>4, <2>5 DEF Move, Moved
<1> QED
  BY <1>1, <1>2 DEF Proceed

\* A page.
LEMMA PageMoves ==
  ASSUME ReqInv, NEW p \in Procs, SearchPage(p)
  PROVE  Move(p) /\ \E r : Moved(p, r) /\ r.pc \in Paging
<1> DEFINE left == Rest(Matching(req[p].q), req[p].cursor)
<1>1. Whole(req[p]) /\ req[p].q \in Requests /\ req = [q \in Procs |-> req[q]]
      /\ req[p].pc \in {"serve", "page"} /\ req[p].q.op = "searchExperiments"
  BY DEF ReqInv, ReqOK, Paging, SearchPage, Serving
<1>2. PICK token, pc, out, twice :
        /\ pc \in Paging
        /\ req' = [req EXCEPT ![p].pc = pc, ![p].cursor = token, ![p].out = out, ![p].twice = twice]
  <2> DEFINE page == {r.id : r \in First(left, PageSize)}
  <2>1. PICK token, out, twice : /\ token = Token(left, PageSize) /\ out = req[p].out \cup page
                                 /\ twice = req[p].twice \cup (req[p].out \cap page)
    OBVIOUS
  <2>2. PICK pc : pc = IF token = Start THEN "searched" ELSE "page"
    OBVIOUS
  <2>3. req' = [req EXCEPT ![p].pc = pc, ![p].cursor = token, ![p].out = out, ![p].twice = twice]
    BY <2>1, <2>2 DEF SearchPage
  <2>4. pc \in Paging
    BY <2>2 DEF Paging
  <2> QED
    BY <2>3, <2>4
<1>3. PICK r : r = [req[p] EXCEPT !.pc = pc, !.cursor = token, !.out = out, !.twice = twice]
  OBVIOUS
<1>4. Whole(r) /\ r.pc = pc /\ r.q = req[p].q
  BY <1>1, <1>3 DEF Whole
<1>5. ReqOK(r)
  BY <1>1, <1>2, <1>4 DEF ReqOK, Paging, Working, Checks
<1>6. req' = [req EXCEPT ![p] = r]
  BY <1>1, <1>2, <1>3 DEF Whole
<1>7. req[p].pc \in {"serve"} \cup Paging
  BY <1>1 DEF Paging
<1> QED
  BY <1>2, <1>4, <1>5, <1>6, <1>7 DEF Move, Moved

\* Every step is of one goroutine, and moves it so.
LEMMA StepMoves ==
  ASSUME ReqInv, NEW p \in Procs, Arrive(p) \/ Serve(p) \/ Fail(p)
  PROVE  Move(p)
<1>0. ReqOK(req[p])
  BY DEF ReqInv
<1>1. CASE Arrive(p)
  BY <1>1, ArriveMoves
<1>2. CASE ResolveWorkspace(p) \/ ListTargetMembers(p) \/ GetTargetRole(p) \/ OpenMode(p) \/ GetMemberRole(p)
  BY <1>2, CheckMoves
<1>3. CASE CreateWorkspace(p) \/ DeleteWorkspace(p) \/ UpsertMember(p) \/ RemoveMember(p)
           \/ ServeElsewhere(p) \/ SaveDashboard(p) \/ ChangeExperiment(p) \/ EndSearch(p) \/ Fail(p)
  BY <1>3 DEF Move, CreateWorkspace, DeleteWorkspace, UpsertMember, RemoveMember, ServeElsewhere, SaveDashboard,
     ChangeExperiment, EndSearch, Fail
<1>4. CASE AddMember(p)
  <2>1. CASE End(p)
    BY <2>1 DEF Move
  <2>2. CASE Goto(p, "upsert")
    BY <1>4, <2>2, WorkMoves DEF AddMember, Serving, Working
  <2> QED
    BY <1>4, <2>1, <2>2 DEF AddMember
<1>5. CASE FindExperiment(p)
  <2>1. CASE End(p)
    BY <2>1 DEF Move
  <2>2. CASE Goto(p, "apply")
    BY <1>5, <2>2, WorkMoves DEF FindExperiment, Serving, Working
  <2> QED
    BY <1>5, <2>1, <2>2 DEF FindExperiment
<1>6. CASE CloneExperiment(p)
  <2>1. CASE End(p)
    BY <2>1 DEF Move
  <2>2. CASE \E e \in Found(p) : req' = [req EXCEPT ![p].pc = "insert", ![p].tag = e.tag]
    <3>1. PICK tag : req' = [req EXCEPT ![p].pc = "insert", ![p].tag = tag]
      BY <2>2
    <3> QED
      BY <1>6, <3>1, WorkMoves DEF CloneExperiment, Serving, Working
  <2> QED
    BY <1>6, <2>1, <2>2 DEF CloneExperiment
<1>7. CASE InsertExperiment(p)
  <2>1. req[p].pc \in {"serve"} \cup Working
    BY <1>7 DEF InsertExperiment, Serving, Working
  <2>2. CASE End(p)
    BY <2>2 DEF Move
  <2>3. CASE \E id, tag, step : Proceed(p, id, tag, step)
    BY <2>1, <2>3, ProceedMoves
  <2>4. End(p) \/ \E id, tag, step : Proceed(p, id, tag, step)
    <3>1. PICK tag, step : /\ tag = IF req[p].q.op = "cloneExperiment" THEN req[p].tag ELSE req[p].q.arg.tag
                           /\ step = IF req[p].q.arg.located THEN "tag" ELSE "locate"
      OBVIOUS
    <3>2. End(p) \/ \E id : Proceed(p, id, tag, step)
      BY <1>7, <3>1 DEF InsertExperiment
    <3> QED
      BY <3>2
  <2> QED
    BY <2>2, <2>3, <2>4
<1>8. CASE SetLocation(p) \/ SetCreationTag(p)
  <2>1. req[p].pc \in Working /\ \E id, tag, step : Proceed(p, id, tag, step)
    BY <1>8 DEF SetLocation, SetCreationTag, Working
  <2> QED
    BY <2>1, ProceedMoves
<1>9. CASE SearchPage(p)
  BY <1>9, PageMoves
<1> QED
  BY <1>1, <1>2, <1>3, <1>4, <1>5, <1>6, <1>7, <1>8, <1>9 DEF Serve

\* Requests stay what they are.
LEMMA ReqStep ==
  ASSUME ReqInv, NEW p \in Procs, Move(p)
  PROVE  ReqInv'
<1>1. PICK r : Moved(p, r)
  BY EndMoves DEF Move
<1> QED
  BY <1>1 DEF Moved, ReqInv

-----------------------------------------------------------------------------
(* Roles.                                                                   *)

Entitled(q, g) ==
  IF q.target \in {Nothing, q.ws} THEN "own" \in g
  ELSE "target" \in g \/ {"unmanned", "own"} \subseteq g

\* A request r for which g was granted: whatever the tables grant now is noted, and each
\* check that was passed had its reason.
AuthOK(r, g) ==
  /\ r.pc \in Checks => Grants(r.q) \subseteq g
  /\ r.pc \in {"target", "targetRole"} => r.q.target \notin {Nothing, r.q.ws}
  /\ r.pc \in {"open", "role"} /\ r.q.target \notin {Nothing, r.q.ws} => "unmanned" \in g
  /\ r.pc \notin Checks \cup {"idle"} => Entitled(r.q, g)
AuthInv == Auth # "none" => \A p \in Procs : AuthOK(req[p], granted[p])

\* The history of a request.
LEMMA Observed ==
  ASSUME Observe, NEW p \in Procs
  PROVE  /\ req'[p].pc \in Checks => granted'[p] = granted[p] \cup Grants(req[p].q)'
         /\ req'[p].pc \notin Checks \cup {"idle"} => granted'[p] = granted[p]
BY DEF Observe, Checks

\* A check that is passed is passed for a reason.
LEMMA AuthStep ==
  ASSUME ReqInv, AuthInv, NEW p \in Procs, Move(p), Observe
  PROVE  AuthInv'
<1> SUFFICES ASSUME Auth # "none", NEW s \in Procs PROVE AuthOK(req[s], granted[s])'
  BY DEF AuthInv
<1>0. AuthOK(req[s], granted[s])
  BY DEF AuthInv
<1>1. ASSUME req'[s] = req[s] PROVE AuthOK(req[s], granted[s])'
  BY <1>0, <1>1, Observed DEF AuthOK, Entitled
<1>2. ASSUME req'[s].pc = "idle" PROVE AuthOK(req[s], granted[s])'
  BY <1>2 DEF AuthOK, Checks
<1>3. ASSUME NEW r, Moved(p, r), s = p PROVE req'[s] = r
  BY <1>3 DEF Moved, ReqInv
<1>4. ASSUME NEW r, Moved(p, r), s # p PROVE req'[s] = req[s]
  BY <1>4 DEF Moved, ReqInv
<1>5. CASE s # p
  BY <1>1, <1>4, <1>5, EndMoves DEF Move
<1>6. CASE s = p /\ End(p)
  BY <1>2, <1>3, <1>6, EndMoves
<1>7. ASSUME s = p, NEW r, Moved(p, r), r.pc = "resolve" PROVE AuthOK(req[s], granted[s])'
  <2>1. req'[s] = r /\ r.pc \in Checks
    BY <1>3, <1>7 DEF Checks
  <2>2. granted'[s] = granted[s] \cup Grants(req[s].q)'
    BY <2>1, Observed
  <2> QED
    BY <1>7, <2>1, <2>2 DEF AuthOK, Checks
<1>8. ASSUME s = p, NEW r, Moved(p, r), Checked(p, r) PROVE AuthOK(req[s], granted[s])'
  <2>1. req'[s] = r /\ r.q = req[s].q
    BY <1>3, <1>8 DEF Checked, SameSearch
  <2>2. req[s].pc \in Checks /\ Grants(req[s].q) \subseteq granted[s]
    BY <1>0, <1>8 DEF AuthOK, Checked
  <2>3. CASE r.pc \in Checks
    <3>1. granted'[s] = granted[s] \cup Grants(req[s].q)'
      BY <2>1, <2>3, Observed
    <3>2. r.pc \in {"target", "targetRole"} => r.q.target \notin {Nothing, r.q.ws}
      BY <1>0, <1>8, <2>1 DEF Checked, AuthOK
    <3>3. r.pc \in {"open", "role"} /\ r.q.target \notin {Nothing, r.q.ws} => "unmanned" \in granted[s]
      BY <1>0, <1>8, <2>1, <2>2 DEF Checked, AuthOK, Grants
    <3> QED
      BY <2>1, <2>3, <3>1, <3>2, <3>3 DEF AuthOK
  <2>4. CASE r.pc = "serve"
    <3>1. granted'[s] = granted[s]
      BY <2>1, <2>4, Observed DEF Checks
    <3>2. Entitled(r.q, granted[s])
      BY <1>0, <1>8, <2>1, <2>2, <2>4 DEF Checked, AuthOK, Grants, Entitled
    <3> QED
      BY <2>1, <2>4, <3>1, <3>2 DEF AuthOK, Checks, Entitled
  <2> QED
    BY <1>8, <2>3, <2>4 DEF Checked
<1>9. ASSUME s = p, NEW r, Moved(p, r), req[p].pc \in {"serve"} \cup Working \cup Paging, r.pc \in Working \cup Paging,
             r.q = req[p].q
      PROVE  AuthOK(req[s], granted[s])'
  <2>1. req'[s] = r
    BY <1>3, <1>9
  <2>2. req[s].pc \notin Checks \cup {"idle"} /\ r.pc \notin Checks \cup {"idle"}
    BY <1>9 DEF Checks, Working, Paging
  <2>3. granted'[s] = granted[s]
    BY <2>1, <2>2, Observed
  <2>4. Entitled(req[s].q, granted[s])
    BY <1>0, <2>2 DEF AuthOK
  <2>5. r.pc \notin {"target", "targetRole", "open", "role"}
    BY <2>2 DEF Checks
  <2> QED
    BY <1>9, <2>1, <2>2, <2>3, <2>4, <2>5 DEF AuthOK, Entitled
<1> QED
  BY <1>5, <1>6, <1>7, <1>8, <1>9 DEF Move, SameSearch

-----------------------------------------------------------------------------
(* Tables.                                                                  *)

\* A row after any number of statements: it is never lost, and neither is its location
\* or its tag.
Grown(f, e) ==
  /\ f.id = e.id /\ f.ws = e.ws /\ f.ctime = e.ctime
  /\ (e.located = TRUE => f.located = TRUE) /\ (e.tag # Nothing => f.tag # Nothing)

ExpOK(e) == Row(e) /\ e.id \in Nat /\ e.id <= lastId /\ e.ctime \in Int /\ e.ws \in workspaces /\ e.located \in BOOLEAN

TableInv ==
  /\ IsFiniteSet(experiments) /\ lastId \in Nat
  /\ \A e \in experiments : ExpOK(e)
  /\ \A e, f \in experiments : e.id = f.id => e = f
  /\ role \in [Workspaces -> [Users -> Roles \cup {Nothing}]]
  /\ \A ws \in Workspaces \ workspaces : Members(ws) = {}

Evolves == \A e \in experiments : \E f \in experiments' : Grown(f, e)

\* UPDATE ... WHERE id = ?
LEMMA Updated ==
  ASSUME TableInv, NEW e \in experiments, NEW f, ExpOK(f), Grown(f, e),
         experiments' = Patched(e.id, f), UNCHANGED <<workspaces, role, lastId>>
  PROVE  TableInv' /\ Evolves /\ f \in experiments'
<1> DEFINE g == [x \in experiments |-> IF x.id = e.id THEN f ELSE x]
<1>1. g \in [experiments -> experiments'] /\ \A y \in experiments' : \E x \in experiments : y = g[x]
  BY DEF Patched
<1>2. \A x \in experiments : g[x] = IF x.id = e.id THEN f ELSE x
  OBVIOUS
<1> HIDE DEF g
<1>3. IsFiniteSet(experiments')
  BY SMTT(60), <1>1, Image DEF TableInv
<1>4. \A x \in experiments : Grown(g[x], x) /\ ExpOK(g[x]) /\ g[x].id = x.id
  BY <1>2 DEF Grown, TableInv
<1>5. \A y \in experiments' : ExpOK(y)'
  BY SMTT(60), <1>1, <1>4 DEF ExpOK
<1>6. \A y, z \in experiments' : y.id = z.id => y = z
  BY SMTT(60), <1>1, <1>4 DEF TableInv
<1>7. f \in experiments'
  BY SMTT(60), <1>1, <1>2
<1>8. \A x \in experiments : \E y \in experiments' : Grown(y, x)
  BY <1>1, <1>4
<1> QED
  BY <1>3, <1>5, <1>6, <1>7, <1>8 DEF TableInv, Evolves, Members

\* Statements that leave experiments alone.
LEMMA OtherTables ==
  ASSUME TableInv, UNCHANGED <<experiments, lastId>>, workspaces \subseteq workspaces',
         role' \in [Workspaces -> [Users -> Roles \cup {Nothing}]],
         \A ws \in Workspaces \ workspaces' : Members(ws)' = {}
  PROVE  TableInv' /\ Evolves
<1>1. \A e \in experiments : ExpOK(e)'
  BY DEF TableInv, ExpOK
<1>2. Evolves
  BY DEF Evolves, Grown
<1> QED
  BY <1>1, <1>2 DEF TableInv

\* The statements of workspaces and members.
LEMMA WorkspaceStatements ==
  ASSUME ReqInv, TableInv, NEW p \in Procs,
         CreateWorkspace(p) \/ DeleteWorkspace(p) \/ UpsertMember(p) \/ RemoveMember(p) \/ SaveDashboard(p) \/ UNCHANGED db
  PROVE  TableInv' /\ Evolves
<1> DEFINE q == req[p].q
<1>1. CASE UNCHANGED db \/ SaveDashboard(p) \/ CreateWorkspace(p)
  <2>1. UNCHANGED <<role, experiments, lastId>> /\ workspaces \subseteq workspaces'
    BY <1>1 DEF db, SaveDashboard, CreateWorkspace
  <2>2. \A ws \in Workspaces \ workspaces' : Members(ws)' = {}
    BY SMTT(60), <2>1 DEF TableInv, Members
  <2> QED
    BY <2>1, <2>2, OtherTables DEF TableInv
<1>2. CASE RemoveMember(p)
  <2>1. UNCHANGED <<workspaces, experiments, lastId>> /\ role' = [role EXCEPT ![q.target][q.arg] = Nothing]
    BY <1>2 DEF RemoveMember
  <2>2. /\ role' \in [Workspaces -> [Users -> Roles \cup {Nothing}]]
        /\ \A ws \in Workspaces, u \in Users : role'[ws][u] \in {role[ws][u], Nothing}
    BY <2>1 DEF TableInv
  <2>3. \A ws \in Workspaces \ workspaces' : Members(ws)' = {}
    BY SMTT(60), <2>1, <2>2 DEF TableInv, Members
  <2> QED
    BY <2>1, <2>2, <2>3, OtherTables
<1>3. CASE UpsertMember(p)
  <2>1. UNCHANGED <<workspaces, experiments, lastId>>
    BY <1>3 DEF UpsertMember
  <2>2. CASE UNCHANGED role
    BY <2>1, <2>2, OtherTables DEF TableInv, Members
  <2>3. CASE q.target \in workspaces /\ role' = [role EXCEPT ![q.target][q.arg.user] = q.arg.role]
    <3>1. q.arg.role \in Roles
      BY <1>3, AccessConstants DEF UpsertMember, ReqInv, ReqOK
    <3>2. /\ role' \in [Workspaces -> [Users -> Roles \cup {Nothing}]]
          /\ \A ws \in Workspaces \ workspaces : role'[ws] = role[ws]
      BY <2>3, <3>1 DEF TableInv
    <3>3. \A ws \in Workspaces \ workspaces' : Members(ws)' = {}
      BY <2>1, <3>2 DEF TableInv, Members
    <3> QED
      BY <2>1, <3>2, <3>3, OtherTables
  <2> QED
    BY <1>3, <2>2, <2>3 DEF UpsertMember
<1>4. CASE DeleteWorkspace(p)
  <2>1. CASE UNCHANGED db
    BY <1>1, <2>1
  <2>2. CASE DropWorkspace(q.target) /\ \A e \in experiments : e.ws # q.target
    <3>1. experiments' = experiments /\ lastId' = lastId /\ workspaces' = workspaces \ {q.target}
      BY <2>2 DEF DropWorkspace
    <3>2. role' = [role EXCEPT ![q.target] = [u \in Users |-> Nothing]]
      BY <2>2 DEF DropWorkspace
    <3>3. /\ role' \in [Workspaces -> [Users -> Roles \cup {Nothing}]]
          /\ \A ws \in Workspaces : ws # q.target => role'[ws] = role[ws]
          /\ q.target \in Workspaces => \A u \in Users : role'[q.target][u] = Nothing
      BY <3>2 DEF TableInv
    <3>4. ASSUME NEW ws \in Workspaces \ workspaces' PROVE Members(ws)' = {}
      BY SMTT(60), <3>1, <3>3 DEF TableInv, Members
    <3>5. \A e \in experiments : ExpOK(e)'
      BY <2>2, <3>1 DEF TableInv, ExpOK
    <3>6. Evolves
      BY <3>1 DEF Evolves, Grown
    <3> QED
      BY <3>1, <3>3, <3>4, <3>5, <3>6 DEF TableInv
  <2> QED
    BY <1>4, <2>1, <2>2 DEF DeleteWorkspace
<1> QED
  BY <1>1, <1>2, <1>3, <1>4

\* What the store answered it did.
AckInv ==
  \A a \in acked : \E e \in experiments : e.id = a.id /\ e.located = TRUE /\ (a.tag # Nothing => e.tag # Nothing)

LEMMA EvolvesAcks ==
  ASSUME AckInv, Evolves, UNCHANGED acked
  PROVE  AckInv'
<1> SUFFICES ASSUME NEW a \in acked
             PROVE  \E e \in experiments' : e.id = a.id /\ e.located = TRUE /\ (a.tag # Nothing => e.tag # Nothing)
  BY DEF AckInv
<1>1. PICK e \in experiments : e.id = a.id /\ e.located = TRUE /\ (a.tag # Nothing => e.tag # Nothing)
  BY DEF AckInv
<1>2. PICK f \in experiments' : Grown(f, e)
  BY DEF Evolves
<1> QED
  BY <1>1, <1>2 DEF Grown

\* Where CreateExperiment is between its statements: the row is there, and it has its
\* location once the tag is next.
CreatingOK(r) ==
  r.pc \in {"locate", "tag"} => \E e \in experiments : e.id = r.id /\ (r.pc = "tag" => e.located = TRUE)
Creating == \A p \in Procs : CreatingOK(req[p])

LEMMA CreatingKept ==
  ASSUME ReqInv, Creating, Evolves, NEW p \in Procs, CreatingOK(req[p])',
         \A o \in Procs \ {p} : req'[o] = req[o]
  PROVE  Creating'
<1> SUFFICES ASSUME NEW o \in Procs, o # p PROVE CreatingOK(req[o])'
  BY DEF Creating
<1>1. CreatingOK(req[o]) /\ req'[o] = req[o]
  BY DEF Creating
<1>2. CASE req[o].pc \in {"locate", "tag"}
  <2>1. PICK e \in experiments : e.id = req[o].id /\ (req[o].pc = "tag" => e.located = TRUE)
    BY <1>1, <1>2 DEF CreatingOK
  <2>2. PICK f \in experiments' : Grown(f, e)
    BY DEF Evolves
  <2> QED
    BY <1>1, <2>1, <2>2 DEF Grown, CreatingOK
<1> QED
  BY <1>1, <1>2 DEF CreatingOK

\* A statement of a creation, whose row is f after it.
LEMMA ProceedAcks ==
  ASSUME ReqInv, AckInv, Creating, Evolves, NEW p \in Procs, NEW f \in experiments', NEW tag, NEW step,
         Proceed(p, f.id, tag, step), step # "locate" => f.located = TRUE,
         step \notin {"locate", "tag"} => (tag # Nothing => f.tag # Nothing)
  PROVE  AckInv' /\ Creating'
<1>0. req = [o \in Procs |-> req[o]] /\ Whole(req[p])
  BY DEF ReqInv, ReqOK
<1>1. CASE /\ step \in {"locate", "tag"} /\ UNCHANGED acked
           /\ req' = [req EXCEPT ![p].pc = step, ![p].id = f.id, ![p].tag = tag]
  <2>1. AckInv'
    BY <1>1, EvolvesAcks
  <2>2. /\ req'[p] = [req[p] EXCEPT !.pc = step, !.id = f.id, !.tag = tag]
        /\ \A o \in Procs \ {p} : req'[o] = req[o]
    BY <1>0, <1>1
  <2>3. req'[p].pc = step /\ req'[p].id = f.id
    BY <1>0, <2>2 DEF Whole
  <2>4. CreatingOK(req[p])'
    BY <1>1, <2>3 DEF CreatingOK
  <2> QED
    BY <2>1, <2>2, <2>4, CreatingKept
<1>2. CASE /\ f.located = TRUE /\ (tag # Nothing => f.tag # Nothing)
           /\ End(p) /\ acked' = acked \cup {[id |-> f.id, tag |-> tag]}
  <2>1. ASSUME NEW a \in acked'
        PROVE  \E e \in experiments' : e.id = a.id /\ e.located = TRUE /\ (a.tag # Nothing => e.tag # Nothing)
    <3>1. CASE a \in acked
      <4>1. PICK e \in experiments : e.id = a.id /\ e.located = TRUE /\ (a.tag # Nothing => e.tag # Nothing)
        BY <3>1 DEF AckInv
      <4>2. PICK g \in experiments' : Grown(g, e)
        BY DEF Evolves
      <4> QED
        BY <4>1, <4>2 DEF Grown
    <3>2. CASE a = [id |-> f.id, tag |-> tag]
      BY <1>2, <3>2
    <3> QED
      BY <1>2, <2>1, <3>1, <3>2
  <2>2. req'[p] = Idle /\ \A o \in Procs \ {p} : req'[o] = req[o]
    BY <1>0, <1>2 DEF End
  <2>3. CreatingOK(req[p])'
    <3>1. Idle.pc = "idle"
      BY DEF Idle
    <3>2. req'[p].pc = "idle"
      BY <2>2, <3>1
    <3> QED
      BY <3>2 DEF CreatingOK
  <2>4. Creating'
    BY <2>2, <2>3, CreatingKept
  <2> QED
    BY <2>1, <2>4 DEF AckInv
<1> QED
  BY <1>1, <1>2 DEF Proceed

\* The other steps leave creations where they are, or end them.
LEMMA OthersCreate ==
  ASSUME ReqInv, Creating, Evolves, NEW p \in Procs, Arrive(p) \/ Serve(p) \/ Fail(p),
         ~SetLocation(p), ~SetCreationTag(p), InsertExperiment(p) => End(p)
  PROVE  Creating'
<1>0. req = [o \in Procs |-> req[o]] /\ Whole(req[p])
  BY DEF ReqInv, ReqOK
<1>1. ASSUME NEW r, req' = [req EXCEPT ![p] = r], r.pc \notin {"locate", "tag"}
      PROVE  Creating'
  <2>1. req'[p] = r /\ \A o \in Procs \ {p} : req'[o] = req[o]
    BY <1>0, <1>1
  <2>2. CreatingOK(req[p])'
    BY <1>1, <2>1 DEF CreatingOK
  <2> QED
    BY <2>1, <2>2, CreatingKept
<1>2. CASE End(p)
  BY <1>1, <1>2 DEF End, Idle
<1>3. ASSUME NEW pc, Goto(p, pc), pc \notin {"locate", "tag"} PROVE Creating'
  <2>1. PICK r : r = [req[p] EXCEPT !.pc = pc]
    OBVIOUS
  <2>2. r.pc = pc
    BY <1>0, <2>1 DEF Whole
  <2>3. req' = [req EXCEPT ![p] = r]
    BY <1>0, <1>3, <2>1 DEF Goto
  <2> QED
    BY <1>1, <1>3, <2>2, <2>3
<1>4. CASE Arrive(p)
  <2>1. PICK q \in Requests : req' = [req EXCEPT ![p] = [Idle EXCEPT !.pc = "resolve", !.q = q]]
    BY <1>4 DEF Arrive
  <2>2. [Idle EXCEPT !.pc = "resolve", !.q = q].pc = "resolve"
    BY DEF Idle
  <2> QED
    BY <1>1, <2>1, <2>2
<1>5. CASE CloneExperiment(p) /\ ~End(p)
  <2>1. PICK tag : req' = [req EXCEPT ![p].pc = "insert", ![p].tag = tag]
    BY <1>5 DEF CloneExperiment
  <2>2. PICK r : r = [req[p] EXCEPT !.pc = "insert", !.tag = tag]
    OBVIOUS
  <2>3. r.pc = "insert" /\ req' = [req EXCEPT ![p] = r]
    BY <1>0, <2>1, <2>2 DEF Whole
  <2> QED
    BY <1>1, <2>3
<1>6. CASE SearchPage(p)
  <2>1. PICK r : Moved(p, r) /\ r.pc \in Paging
    BY <1>6, PageMoves
  <2> QED
    BY <1>1, <2>1 DEF Moved, Paging
<1>7. CASE ~End(p) /\ (ResolveWorkspace(p) \/ ListTargetMembers(p) \/ GetTargetRole(p) \/ OpenMode(p)
                       \/ GetMemberRole(p) \/ AddMember(p) \/ FindExperiment(p))
  <2>1. \E pc : Goto(p, pc) /\ pc \notin {"locate", "tag"}
    <3>1. ASSUME ResolveWorkspace(p) PROVE \E pc \in {"serve", "target", "open"} : Goto(p, pc)
      <4>1. PICK pc : /\ pc = CASE Auth = "none" -> "serve"
                                 [] Auth # "none" /\ req[p].q.target \notin {Nothing, req[p].q.ws} -> "target"
                                 [] OTHER -> "open"
                      /\ Goto(p, pc)
        BY <1>7, <3>1 DEF ResolveWorkspace
      <4>2. pc \in {"serve", "target", "open"}
        BY <4>1
      <4> QED
        BY <4>1, <4>2
    <3>2. ASSUME ListTargetMembers(p) \/ OpenMode(p)
          PROVE  \E pc \in {"targetRole", "open", "serve", "role"} : Goto(p, pc)
      BY <3>2 DEF ListTargetMembers, OpenMode
    <3>3. ASSUME GetTargetRole(p) \/ GetMemberRole(p) \/ AddMember(p) \/ FindExperiment(p)
          PROVE  \E pc \in {"serve", "upsert", "apply"} : Goto(p, pc)
      BY <1>7, <3>3 DEF GetTargetRole, GetMemberRole, AddMember, FindExperiment
    <3> QED
      BY <1>7, <3>1, <3>2, <3>3
  <2> QED
    BY <1>3, <2>1
<1>8. CASE CreateWorkspace(p) \/ DeleteWorkspace(p) \/ UpsertMember(p) \/ RemoveMember(p) \/ ServeElsewhere(p)
           \/ SaveDashboard(p) \/ ChangeExperiment(p) \/ EndSearch(p) \/ Fail(p)
  BY <1>2, <1>8 DEF CreateWorkspace, DeleteWorkspace, UpsertMember, RemoveMember, ServeElsewhere, SaveDashboard,
     ChangeExperiment, EndSearch, Fail
<1> QED
  BY <1>2, <1>4, <1>5, <1>6, <1>7, <1>8 DEF Serve

\* The statements of experiments.
LEMMA InsertTables ==
  ASSUME ReqInv, TableInv, AckInv, Creating, NEW p \in Procs, InsertExperiment(p)
  PROVE  TableInv' /\ Evolves /\ AckInv' /\ Creating'
<1> DEFINE q == req[p].q
           tag == IF q.op = "cloneExperiment" THEN req[p].tag ELSE q.arg.tag
<1>1. UNCHANGED <<workspaces, role>> /\ q.arg.located \in BOOLEAN
  <2>1. q \in Requests /\ q.op \in {"createExperiment", "cloneExperiment"}
    BY DEF InsertExperiment, Serving, ReqInv, ReqOK
  <2> QED
    BY <2>1, AccessConstants DEF InsertExperiment
<1>2. CASE End(p) /\ UNCHANGED <<experiments, lastId, acked>>
  <2>1. TableInv' /\ Evolves
    BY <1>1, <1>2, OtherTables DEF TableInv, Members
  <2>2. ~SetLocation(p) /\ ~SetCreationTag(p) /\ Serve(p)
    BY DEF InsertExperiment, Serving, SetLocation, SetCreationTag, Serve
  <2>3. Creating'
    BY <1>2, <2>1, <2>2, OthersCreate
  <2> QED
    BY <1>2, <2>1, <2>3, EvolvesAcks
<1>3. ASSUME NEW t \in Times, NEW e,
             e = [Experiment(lastId + 1, q.ws, q.arg.name, t) EXCEPT !.located = q.arg.located],
             q.ws \in workspaces,
             experiments' = experiments \cup {e}, lastId' = lastId + 1,
             Proceed(p, e.id, tag, IF q.arg.located THEN "tag" ELSE "locate")
      PROVE  TableInv' /\ Evolves /\ AckInv' /\ Creating'
  <2>1. Row(e) /\ e.id = lastId + 1 /\ e.ws = q.ws /\ e.ctime = t /\ e.located = q.arg.located
    BY <1>3 DEF Experiment, Row
  <2>2. t \in Int /\ lastId \in Nat
    BY AccessConstants DEF TableInv
  <2>0. experiments' = experiments \cup {e} /\ lastId' = lastId + 1
    BY <1>3
  <2>3. \A f \in experiments' : ExpOK(f)'
    <3>0. e.ws \in workspaces' /\ e.located \in BOOLEAN
      <4>1. e.ws = q.ws /\ q.ws \in workspaces /\ workspaces' = workspaces
        BY <1>1, <1>3, <2>1
      <4>2. e.located = q.arg.located /\ q.arg.located \in BOOLEAN
        BY <1>1, <2>1
      <4> HIDE DEF q
      <4> QED
        BY <4>1, <4>2
    <3>1. ExpOK(e)'
      BY SMTT(60), <2>0, <2>1, <2>2, <3>0 DEF ExpOK
    <3>2. \A f \in experiments : ExpOK(f)'
      BY SMTT(60), <1>1, <2>0, <2>2 DEF ExpOK, TableInv
    <3> QED
      BY <2>0, <3>1, <3>2
  <2>4. IsFiniteSet(experiments')
    BY <2>0, FS_AddElement DEF TableInv
  <2>5. \A f, g \in experiments' : f.id = g.id => f = g
    <3>1. \A f \in experiments : f.id # e.id
      BY SMTT(60), <2>1, <2>2 DEF TableInv, ExpOK
    <3> QED
      BY <2>0, <3>1 DEF TableInv
  <2>6. Evolves
    BY <2>0 DEF Evolves, Grown
  <2>7. TableInv'
    BY SMTT(60), <1>1, <2>0, <2>2, <2>3, <2>4, <2>5 DEF TableInv, Members
  <2>8. AckInv' /\ Creating'
    <3>1. PICK step : step = IF q.arg.located THEN "tag" ELSE "locate"
      OBVIOUS
    <3>2. step \in {"tag", "locate"} /\ (step # "locate" => e.located = TRUE)
      BY <1>1, <2>1, <3>1
    <3>3. Proceed(p, e.id, tag, step) /\ e \in experiments'
      BY <1>3, <3>1
    <3> HIDE DEF tag
    <3>4. step \notin {"locate", "tag"} => (tag # Nothing => e.tag # Nothing)
      BY <3>2
    <3> QED
      BY <2>6, <3>2, <3>3, <3>4, ProceedAcks
  <2> QED
    BY <2>6, <2>7, <2>8
<1>4. \/ End(p) /\ UNCHANGED <<experiments, lastId, acked>>
      \/ /\ q.ws \in workspaces
         /\ \E t \in Times :
              LET e == [Experiment(lastId + 1, q.ws, q.arg.name, t) EXCEPT !.located = q.arg.located] IN
              /\ experiments' = experiments \cup {e} /\ lastId' = lastId + 1
              /\ Proceed(p, e.id, tag, IF q.arg.located THEN "tag" ELSE "locate")
  BY DEF InsertExperiment
<1> QED
  BY <1>2, <1>3, <1>4

LEMMA UpdateTables ==
  ASSUME ReqInv, TableInv, AckInv, Creating, NEW p \in Procs,
         SetLocation(p) \/ SetCreationTag(p) \/ ChangeExperiment(p)
  PROVE  TableInv' /\ Evolves /\ AckInv' /\ Creating'
<1>0. UNCHANGED <<workspaces, role, lastId>> /\ CreatingOK(req[p])
  BY DEF SetLocation, SetCreationTag, ChangeExperiment, Creating
<1>1. CASE SetLocation(p)
  <2>1. PICK e \in experiments : e.id = req[p].id
    BY <1>0, <1>1 DEF SetLocation, CreatingOK
  <2>2. PICK f : f = [e EXCEPT !.located = TRUE]
    OBVIOUS
  <2>3. Row(e) /\ ExpOK(e)
    BY DEF TableInv, ExpOK
  <2>4. Row(f) /\ Grown(f, e) /\ f.located = TRUE /\ f.id = e.id
    BY <2>2, <2>3 DEF Row, Grown
  <2>5. ExpOK(f)
    BY <2>3, <2>4 DEF ExpOK, Grown
  <2>6. experiments' = Patched(e.id, f)
    <3>1. \A x \in experiments : x.id = e.id => x = e
      BY DEF TableInv
    <3>2. experiments' = {IF x.id = e.id THEN [x EXCEPT !.located = TRUE] ELSE x : x \in experiments}
      BY <1>1, <2>1 DEF SetLocation
    <3> QED
      BY <2>2, <3>1, <3>2 DEF Patched
  <2>7. TableInv' /\ Evolves /\ f \in experiments'
    BY <1>0, <2>4, <2>5, <2>6, Updated
  <2>8. Proceed(p, f.id, req[p].tag, "tag")
    BY <1>1, <2>1, <2>4 DEF SetLocation
  <2>9. AckInv' /\ Creating'
    BY <2>4, <2>7, <2>8, ProceedAcks
  <2> QED
    BY <2>7, <2>9
<1>2. CASE SetCreationTag(p)
  <2>1. PICK e \in experiments : e.id = req[p].id /\ experiments' = Patched(e.id, [e EXCEPT !.tag = req[p].tag])
    BY <1>2 DEF SetCreationTag
  <2>2. PICK f : f = [e EXCEPT !.tag = req[p].tag]
    OBVIOUS
  <2>3. Row(e) /\ ExpOK(e) /\ req[p].tag # Nothing /\ e.located = TRUE
    BY <1>0, <1>2, <2>1 DEF TableInv, ExpOK, SetCreationTag, ReqInv, ReqOK, CreatingOK
  <2>4. Row(f) /\ Grown(f, e) /\ f.located = TRUE /\ f.tag # Nothing /\ f.id = e.id
    BY <2>2, <2>3 DEF Row, Grown
  <2>5. ExpOK(f)
    BY <2>3, <2>4 DEF ExpOK, Grown
  <2>6. TableInv' /\ Evolves /\ f \in experiments'
    BY <1>0, <2>1, <2>2, <2>4, <2>5, Updated
  <2>7. Proceed(p, f.id, req[p].tag, "answer")
    BY <1>2, <2>1, <2>4 DEF SetCreationTag
  <2>8. AckInv' /\ Creating'
    BY <2>4, <2>6, <2>7, ProceedAcks
  <2> QED
    BY <2>6, <2>8
<1>3. CASE ChangeExperiment(p)
  <2> DEFINE q == req[p].q
             f(e) == CASE q.op = "setStage" -> [e EXCEPT !.stage = q.arg]
                       [] q.op = "setTag" -> [e EXCEPT !.tag = q.arg]
                       [] q.op = "rename" -> IF Named(e.ws, q.arg) = {} THEN [e EXCEPT !.name = q.arg] ELSE e
  <2>1. PICK e \in experiments : experiments' = Patched(e.id, f(e))
    BY <1>3 DEF ChangeExperiment
  <2>2. q.op \in Changes /\ (q.op = "setTag" => q.arg # Nothing)
    BY <1>3, AccessConstants DEF ChangeExperiment, ReqInv, ReqOK, Changes
  <2>3. PICK g : g = f(e)
    OBVIOUS
  <2>4. Row(e) /\ ExpOK(e)
    BY DEF TableInv, ExpOK
  <2>5. \/ g = e \/ g = [e EXCEPT !.stage = q.arg] \/ g = [e EXCEPT !.name = q.arg]
        \/ g = [e EXCEPT !.tag = q.arg] /\ q.arg # Nothing
    BY <2>2, <2>3 DEF Changes
  <2>6. Row(g) /\ Grown(g, e) /\ g.located = e.located
    BY <2>4, <2>5 DEF Row, Grown
  <2>7. ExpOK(g)
    BY <2>4, <2>6 DEF ExpOK, Grown
  <2>8. experiments' = Patched(e.id, g) /\ UNCHANGED acked
    BY <1>3, <2>1, <2>3 DEF ChangeExperiment
  <2>9. TableInv' /\ Evolves
    BY <1>0, <2>6, <2>7, <2>8, Updated
  <2>10. ~SetLocation(p) /\ ~SetCreationTag(p) /\ ~InsertExperiment(p) /\ Serve(p)
    BY <1>3 DEF ChangeExperiment, SetLocation, SetCreationTag, InsertExperiment, Serving, Serve
  <2>11. Creating'
    BY <2>9, <2>10, OthersCreate
  <2> QED
    BY <2>8, <2>9, <2>11, EvolvesAcks
<1> QED
  BY <1>1, <1>2, <1>3

\* Every step keeps the tables.
LEMMA TableStep ==
  ASSUME ReqInv, TableInv, AckInv, Creating, NEW p \in Procs, Arrive(p) \/ Serve(p) \/ Fail(p)
  PROVE  TableInv' /\ Evolves /\ AckInv' /\ Creating'
<1>0. Evolves /\ ~InsertExperiment(p) /\ ~SetLocation(p) /\ ~SetCreationTag(p) => Creating'
  BY OthersCreate
<1>1. CASE InsertExperiment(p)
  BY <1>1, InsertTables
<1>2. CASE SetLocation(p) \/ SetCreationTag(p) \/ ChangeExperiment(p)
  BY <1>2, UpdateTables
<1>3. ASSUME CreateWorkspace(p) \/ DeleteWorkspace(p) \/ UpsertMember(p) \/ RemoveMember(p) \/ SaveDashboard(p)
      PROVE  TableInv' /\ Evolves /\ AckInv'
  <2>1. TableInv' /\ Evolves
    BY <1>3, WorkspaceStatements
  <2>2. UNCHANGED acked
    BY <1>3 DEF CreateWorkspace, DeleteWorkspace, UpsertMember, RemoveMember, SaveDashboard
  <2> QED
    BY <2>1, <2>2, EvolvesAcks
<1>4. ASSUME UNCHANGED db /\ UNCHANGED acked PROVE TableInv' /\ Evolves /\ AckInv'
  <2>1. TableInv' /\ Evolves
    BY <1>4, WorkspaceStatements
  <2> QED
    BY <1>4, <2>1, EvolvesAcks
<1>5. ASSUME Arrive(p) \/ Fail(p) \/ ResolveWorkspace(p) \/ ListTargetMembers(p) \/ GetTargetRole(p) \/ OpenMode(p)
             \/ GetMemberRole(p) \/ AddMember(p) \/ ServeElsewhere(p) \/ CloneExperiment(p) \/ FindExperiment(p)
             \/ SearchPage(p) \/ EndSearch(p)
      PROVE  TableInv' /\ Evolves /\ AckInv'
  <2>1. UNCHANGED db /\ UNCHANGED acked
    BY <1>5 DEF Arrive, Fail, ResolveWorkspace, ListTargetMembers, GetTargetRole, OpenMode, GetMemberRole, AddMember,
       ServeElsewhere, CloneExperiment, FindExperiment, SearchPage, EndSearch
  <2> QED
    BY <1>4, <2>1
<1> QED
  BY <1>0, <1>1, <1>2, <1>3, <1>5 DEF Serve

-----------------------------------------------------------------------------
(* Pages.                                                                   *)

\* ORDER BY creation_time DESC, id ASC.
KeyOf(e) == <<0 - e.ctime, e.id>>

\* Where a search is: it has returned only rows up to its cursor, and all those that
\* matched ever since.
Passed(out, cursor) == \A i \in out : \E e \in experiments : e.id = i /\ ~Beyond(KeyOf(e), cursor)
SearchOK(r, st) ==
  /\ r.twice = {}
  /\ r.pc \notin Paging => r.cursor = Start /\ r.out = {}
  /\ r.pc = "page" => /\ r.cursor \in Int \X Int /\ Passed(r.out, r.cursor)
                      /\ \A m \in st : ~Beyond(m.key, r.cursor) => m.id \in r.out
  /\ r.pc = "searched" => \A m \in st : m.id \in r.out
SearchInv == \A p \in Procs : SearchOK(req[p], steady[p])

\* The rows of a search.
LEMMA MatchingIs ==
  ASSUME TableInv, NEW q
  PROVE  /\ IsFiniteSet(Matching(q))
         /\ \A m \in Matching(q) : /\ m.key \in Int \X Int
                                   /\ \E e \in experiments : m.id = e.id /\ m.key = KeyOf(e)
<1> DEFINE E == {f \in experiments : f.ws = q.ws /\ q.arg \in {"all", f.stage}}
           g == [e \in E |-> [id |-> e.id, key |-> <<0 - e.ctime, e.id>>]]
<1>1. E \subseteq experiments
  OBVIOUS
<1>2. g \in [E -> Matching(q)] /\ \A m \in Matching(q) : \E e \in E : m = g[e]
  BY DEF Matching
<1>3. \A e \in E : g[e] = [id |-> e.id, key |-> KeyOf(e)]
  BY DEF KeyOf
<1> HIDE DEF E, g
<1>4. IsFiniteSet(E)
  BY <1>1, FS_Subset DEF TableInv
<1>5. IsFiniteSet(Matching(q))
  BY <1>2, <1>4, Image
<1>6. \A e \in experiments : KeyOf(e) \in Int \X Int
  BY SMTT(60) DEF TableInv, ExpOK, KeyOf
<1>7. \A m \in Matching(q) : m.key \in Int \X Int /\ \E e \in experiments : m.id = e.id /\ m.key = KeyOf(e)
  BY SMTT(60), <1>1, <1>2, <1>3, <1>6
<1> QED
  BY <1>5, <1>7

\* The history of a search.
LEMMA Watched ==
  ASSUME Observe, NEW p \in Procs, req'[p].pc \in Paging
  PROVE  steady'[p] \subseteq steady[p] /\ steady'[p] \subseteq Matching(req[p].q)'
BY DEF Observe, Paging, Serving

\* Statements of other requests move no row out of its place.
LEMMA SearchKept ==
  ASSUME TableInv, Evolves, Observe, NEW p \in Procs, SearchOK(req[p], steady[p]), req'[p] = req[p]
  PROVE  SearchOK(req[p], steady[p])'
<1> DEFINE r == req[p]
<1>1. CASE r.pc \notin Paging
  BY <1>1 DEF SearchOK, Paging
<1>2. CASE r.pc \in Paging
  <2>1. steady'[p] \subseteq steady[p]
    BY <1>2, Watched
  <2>2. ASSUME r.pc = "page" PROVE Passed(r.out, r.cursor)'
    <3> SUFFICES ASSUME NEW i \in r.out PROVE \E e \in experiments' : e.id = i /\ ~Beyond(KeyOf(e), r.cursor)
      BY DEF Passed, KeyOf
    <3>1. PICK e \in experiments : e.id = i /\ ~Beyond(KeyOf(e), r.cursor)
      BY <2>2 DEF SearchOK, Passed
    <3>2. PICK f \in experiments' : Grown(f, e)
      BY DEF Evolves
    <3> QED
      BY <3>1, <3>2 DEF Grown, KeyOf
  <2> QED
    BY <1>2, <2>1, <2>2 DEF SearchOK, Paging
<1> QED
  BY <1>1, <1>2

PageIds(left) == {r.id : r \in First(left, PageSize)}

\* What a page does to its request.
LEMMA PageFields ==
  ASSUME ReqInv, NEW p \in Procs, SearchPage(p),
         NEW left, left = Rest(Matching(req[p].q), req[p].cursor),
         NEW page, page = PageIds(left),
         NEW token, token = Token(left, PageSize)
  PROVE  /\ req'[p].pc = (IF token = Start THEN "searched" ELSE "page")
         /\ req'[p].cursor = token /\ req'[p].q = req[p].q
         /\ req'[p].out = req[p].out \cup page
         /\ req'[p].twice = req[p].twice \cup (req[p].out \cap page)
<1>1. Whole(req[p]) /\ req = [q \in Procs |-> req[q]]
  BY DEF ReqInv, ReqOK
<1>2. PICK pc : pc = IF token = Start THEN "searched" ELSE "page"
  OBVIOUS
<1>3. PICK out, twice : out = req[p].out \cup page /\ twice = req[p].twice \cup (req[p].out \cap page)
  OBVIOUS
<1>4. req' = [req EXCEPT ![p].pc = pc, ![p].cursor = token, ![p].out = out, ![p].twice = twice]
  BY <1>2, <1>3 DEF SearchPage, PageIds
<1>5. PICK r : r = [req[p] EXCEPT !.pc = pc, !.cursor = token, !.out = out, !.twice = twice]
  OBVIOUS
<1>6. r.pc = pc /\ r.cursor = token /\ r.out = out /\ r.twice = twice /\ r.q = req[p].q
  BY <1>1, <1>5 DEF Whole
<1>7. req'[p] = r
  BY <1>1, <1>4, <1>5 DEF Whole
<1> QED
  BY <1>2, <1>3, <1>6, <1>7

\* A page adds the rows up to its token, none of them a second time.
LEMMA PageExact ==
  ASSUME ReqInv, TableInv, Observe, NEW p \in Procs, SearchOK(req[p], steady[p]), SearchPage(p)
  PROVE  SearchOK(req[p], steady[p])'
<1> DEFINE r == req[p]
           All == Matching(r.q)
<1>0. UNCHANGED experiments /\ r.pc \in {"serve", "page"}
  BY DEF SearchPage, db, Serving
<1>1. PICK left : left = Rest(All, r.cursor)
  OBVIOUS
<1>2. PICK F : F = First(left, PageSize)
  OBVIOUS
<1>a. PICK page : page = PageIds(left)
  OBVIOUS
<1>3. page = {m.id : m \in F}
  BY <1>2, <1>a DEF PageIds
<1>4. PICK token : token = Token(left, PageSize)
  OBVIOUS
<1>5. /\ req'[p].pc = (IF token = Start THEN "searched" ELSE "page")
      /\ req'[p].cursor = token /\ req'[p].q = r.q
      /\ req'[p].out = r.out \cup page
      /\ req'[p].twice = r.twice \cup (r.out \cap page)
  BY SMTT(60), <1>1, <1>a, <1>4, PageFields
<1>6. /\ IsFiniteSet(All)
      /\ \A m \in All : /\ m.key \in Int \X Int
                        /\ \E e \in experiments : m.id = e.id /\ m.key = KeyOf(e)
  BY MatchingIs
<1>7. left \subseteq All /\ \A m \in All : m \in left <=> r.cursor = Start \/ Beyond(m.key, r.cursor)
  BY <1>1 DEF Rest
<1>8. IsFiniteSet(left) /\ PageSize \in Nat \ {0}
  BY <1>6, <1>7, FS_Subset, AccessConstants
<1>9. /\ F \subseteq left
      /\ token = Start => F = left
      /\ token # Start => \E m \in F : token = m.key /\ \A s \in left : s \in F <=> ~Beyond(s.key, m.key)
  BY <1>2, <1>4, <1>6, <1>7, <1>8, PageIs
<1>10. steady'[p] \subseteq steady[p] /\ steady'[p] \subseteq All
  <2>1. req'[p].pc \in Paging
    BY <1>5 DEF Paging
  <2>2. Matching(req[p].q)' = All
    BY <1>0, <1>5 DEF Matching
  <2> QED
    BY <2>1, <2>2, Watched
<1>d. \A k \in Int \X Int : k # Start
  BY BeyondOrders
<1>11. \/ r.pc = "serve" /\ r.cursor = Start /\ r.out = {}
       \/ /\ r.pc = "page" /\ r.cursor \in Int \X Int /\ r.cursor # Start /\ Passed(r.out, r.cursor)
          /\ \A m \in steady[p] : ~Beyond(m.key, r.cursor) => m.id \in r.out
  BY <1>0, <1>d DEF SearchOK, Paging
<1>12. r.out \cap page = {}
  <2> SUFFICES ASSUME NEW i \in r.out, i \in page PROVE FALSE
    OBVIOUS
  <2>1. PICK m \in F : m.id = i
    BY <1>3
  <2>2. r.cursor \in Int \X Int /\ Passed(r.out, r.cursor) /\ Beyond(m.key, r.cursor)
    BY <1>7, <1>9, <1>11
  <2>3. PICK e \in experiments : e.id = i /\ ~Beyond(KeyOf(e), r.cursor)
    BY <2>2 DEF Passed
  <2>4. PICK f \in experiments : m.id = f.id /\ m.key = KeyOf(f)
    BY <1>6, <1>7, <1>9
  <2>5. e = f
    BY <2>1, <2>3, <2>4 DEF TableInv
  <2> QED
    BY <2>2, <2>3, <2>4, <2>5
<1>13. req'[p].twice = {}
  BY <1>5, <1>12 DEF SearchOK
<1>14. ASSUME NEW m \in steady'[p], m \notin left PROVE m.id \in r.out
  BY <1>7, <1>10, <1>11, <1>14
<1>15. ASSUME NEW m \in F PROVE m.id \in page
  BY <1>3
<1>16. CASE token = Start
  <2>1. \A m \in steady'[p] : m.id \in r.out \cup page
    BY <1>9, <1>14, <1>15, <1>16
  <2> QED
    BY <1>5, <1>13, <1>16, <2>1 DEF SearchOK, Paging
<1>17. CASE token # Start
  <2>1. PICK l \in F : token = l.key /\ \A s \in left : s \in F <=> ~Beyond(s.key, l.key)
    BY <1>9, <1>17
  <2>2. token \in Int \X Int /\ (r.cursor # Start => Beyond(token, r.cursor))
    BY <1>6, <1>7, <1>9, <2>1
  <2>3. \A m \in steady'[p] : ~Beyond(m.key, token) => m.id \in r.out \cup page
    BY <1>14, <1>15, <2>1
  <2>4. ASSUME NEW i \in r.out \cup page PROVE \E e \in experiments : e.id = i /\ ~Beyond(KeyOf(e), token)
    <3>1. CASE i \in page
      <4>1. PICK m \in F : m.id = i
        BY <1>3, <3>1
      <4>2. PICK f \in experiments : m.id = f.id /\ m.key = KeyOf(f)
        BY <1>6, <1>7, <1>9
      <4> QED
        BY <1>9, <2>1, <4>1, <4>2
    <3>2. CASE i \in r.out
      <4>1. r.cursor \in Int \X Int /\ Passed(r.out, r.cursor) /\ Beyond(token, r.cursor)
        BY <1>11, <2>2, <3>2
      <4>2. PICK e \in experiments : e.id = i /\ ~Beyond(KeyOf(e), r.cursor)
        BY <3>2, <4>1 DEF Passed
      <4>3. KeyOf(e) \in Int \X Int
        BY SMTT(60) DEF TableInv, ExpOK, KeyOf
      <4> QED
        BY SMTT(60), <2>2, <4>1, <4>2, <4>3, BeyondOrders
    <3> QED
      BY <3>1, <3>2
  <2>5. Passed(req[p].out, req[p].cursor)'
    BY <1>0, <1>5, <2>4 DEF Passed, KeyOf
  <2> QED
    BY <1>5, <1>13, <1>17, <2>2, <2>3, <2>5 DEF SearchOK, Paging
<1> QED
  BY <1>16, <1>17

LEMMA SearchStep ==
  ASSUME ReqInv, TableInv, Evolves, SearchInv, NEW p \in Procs, Move(p), Observe
  PROVE  SearchInv'
<1> SUFFICES ASSUME NEW s \in Procs PROVE SearchOK(req[s], steady[s])'
  BY DEF SearchInv
<1>0. SearchOK(req[s], steady[s])
  BY DEF SearchInv
<1>1. ASSUME NEW r, Moved(p, r), s = p PROVE req'[s] = r
  BY <1>1 DEF Moved, ReqInv
<1>2. ASSUME NEW r, Moved(p, r), s # p PROVE req'[s] = req[s]
  BY <1>2 DEF Moved, ReqInv
<1>3. ASSUME NEW r, req'[s] = r, r.pc \notin Paging, r.cursor = Start, r.out = {}, r.twice = {}
      PROVE  SearchOK(req[s], steady[s])'
  BY <1>3 DEF SearchOK, Paging
<1>4. CASE s # p
  <2>1. req'[s] = req[s]
    BY <1>2, <1>4, EndMoves DEF Move
  <2> QED
    BY <1>0, <2>1, SearchKept
<1>5. CASE s = p /\ End(p)
  <2>1. req'[s] = Idle
    BY <1>5 DEF End, ReqInv
  <2> QED
    BY SMTT(60), <1>3, <2>1 DEF Idle, Paging
<1>6. ASSUME s = p, NEW r, Moved(p, r), r.pc = "resolve", r.cursor = Start, r.out = {}, r.twice = {}
      PROVE  SearchOK(req[s], steady[s])'
  BY <1>1, <1>3, <1>6 DEF Paging
<1>7. ASSUME s = p, NEW r, Moved(p, r), SameSearch(r, req[p]), req[p].pc \notin Paging, r.pc \notin Paging
      PROVE  SearchOK(req[s], steady[s])'
  BY <1>0, <1>1, <1>3, <1>7 DEF SameSearch, SearchOK
<1>8. ASSUME s = p, NEW r, Moved(p, r), Checked(p, r) PROVE SearchOK(req[s], steady[s])'
  <2>1. SameSearch(r, req[p]) /\ req[p].pc \notin Paging /\ r.pc \notin Paging
    BY <1>8 DEF Checked, Checks, Paging
  <2> QED
    BY <1>7, <1>8, <2>1
<1>9. ASSUME s = p, NEW r, Moved(p, r), req[p].pc \in {"serve"} \cup Working, r.pc \in Working, SameSearch(r, req[p])
      PROVE  SearchOK(req[s], steady[s])'
  <2>1. req[p].pc \notin Paging /\ r.pc \notin Paging
    BY <1>9 DEF Working, Paging
  <2> QED
    BY <1>7, <1>9, <2>1
<1>10. CASE s = p /\ SearchPage(p)
  BY <1>0, <1>10, PageExact
<1> QED
  BY <1>4, <1>5, <1>6, <1>8, <1>9, <1>10 DEF Move

-----------------------------------------------------------------------------
(* The theorems.                                                            *)

AccessInv == ReqInv /\ AuthInv /\ TableInv /\ AckInv /\ Creating /\ SearchInv

LEMMA AccessInit ==
  Init => AccessInv
<1> SUFFICES ASSUME Init PROVE AccessInv
  OBVIOUS
<1>1. \A p \in Procs : req[p] = Idle
  BY DEF Init
<1>2. Whole(Idle) /\ Idle.pc = "idle" /\ Idle.cursor = Start /\ Idle.out = {} /\ Idle.twice = {}
  BY DEF Whole, Idle
<1>3. ReqInv
  BY <1>1, <1>2 DEF Init, ReqInv, ReqOK, Checks, Working, Paging
<1>4. AuthInv
  BY <1>1, <1>2 DEF AuthInv, AuthOK, Checks
<1>5. SearchInv
  BY <1>1, <1>2 DEF SearchInv, SearchOK, Paging
<1>6. AckInv /\ Creating
  BY DEF Init, AckInv, Creating, CreatingOK, Idle
<1>7. TableInv
  <2>1. IsFiniteSet(experiments) /\ lastId \in Nat /\ lastId = Cardinality(OldExperiments)
    BY AccessConstants, FS_CardinalityType DEF Init
  <2>2. \A e \in experiments : ExpOK(e)
    <3> SUFFICES ASSUME NEW e \in OldExperiments PROVE ExpOK(e)
      BY DEF Init
    <3>1. Row(e) /\ e.ws \in Workspaces /\ e.ctime \in Int /\ e.located \in BOOLEAN /\ e.id \in 1 .. lastId
      BY <2>1, AccessConstants
    <3> QED
      BY SMTT(60), <2>1, <3>1 DEF ExpOK, Init
  <2>3. \A e, f \in experiments : e.id = f.id => e = f
    BY AccessConstants DEF Init
  <2>4. role \in [Workspaces -> [Users -> Roles \cup {Nothing}]] /\ Workspaces \ workspaces = {}
    BY AccessConstants DEF Init
  <2> QED
    BY <2>1, <2>2, <2>3, <2>4 DEF TableInv
<1> QED
  BY <1>3, <1>4, <1>5, <1>6, <1>7 DEF AccessInv

LEMMA AccessStep ==
  AccessInv /\ [Next]_vars => AccessInv'
<1> SUFFICES ASSUME AccessInv, [Next]_vars PROVE AccessInv'
  OBVIOUS
<1>1. CASE UNCHANGED vars
  <2>1. ReqInv'
    BY <1>1 DEF vars, AccessInv, ReqInv
  <2>2. AuthInv'
    BY ZenonT(60), <1>1 DEF vars, AccessInv, AuthInv, AuthOK, Grants, Members
  <2>3. TableInv' /\ Evolves
    BY <1>1, OtherTables DEF vars, AccessInv, TableInv, Members
  <2>4. AckInv' /\ Creating'
    BY <1>1, <2>3, EvolvesAcks DEF vars, AccessInv, Creating, CreatingOK
  <2>5. SearchInv'
    BY SMTT(60), <1>1 DEF vars, AccessInv, SearchInv, SearchOK, Passed
  <2> QED
    BY <2>1, <2>2, <2>3, <2>4, <2>5 DEF AccessInv
<1>2. CASE Next
  <2>1. PICK p \in Procs : Arrive(p) \/ Serve(p) \/ Fail(p)
    BY <1>2 DEF Next
  <2>2. Observe
    BY <1>2 DEF Next
  <2>3. Move(p)
    BY <2>1, StepMoves DEF AccessInv
  <2>4. ReqInv'
    BY <2>3, ReqStep DEF AccessInv
  <2>5. TableInv' /\ Evolves /\ AckInv' /\ Creating'
    BY <2>1, TableStep DEF AccessInv
  <2>6. AuthInv'
    BY <2>2, <2>3, AuthStep DEF AccessInv
  <2>7. SearchInv'
    BY <2>2, <2>3, <2>5, SearchStep DEF AccessInv
  <2> QED
    BY <2>4, <2>5, <2>6, <2>7 DEF AccessInv
<1> QED
  BY <1>1, <1>2

\* The inductive invariant of requests, tables and searches.
THEOREM AccessInvariant ==
  Spec => []AccessInv
BY AccessInit, AccessStep, PTL DEF Spec

\* rbacMiddleware and the gRPC interceptor, for any number of requests, users and
\* workspaces: no handler runs for a caller who was not entitled since the request came in.
THEOREM HandlersAuthorized ==
  Spec => []Authorized
<1>1. AccessInv => Authorized
  BY DEF AccessInv, AuthInv, AuthOK, Entitled, Authorized
<1> QED
  BY <1>1, AccessInvariant, PTL

\* CreateExperiment and DeleteWorkspace: what was acknowledged stays, and a workspace that
\* is gone leaves neither experiments nor members.
THEOREM CreationsKept ==
  Spec => []AckedKept
<1>1. AccessInv => AckedKept
  BY DEF AccessInv, AckInv, TableInv, ExpOK, AckedKept
<1> QED
  BY <1>1, AccessInvariant, PTL

\* SearchExperiments and the keyset of its page tokens: whatever runs between two pages, no
\* row comes twice and none that matched all along is left out.
THEOREM SearchesExact ==
  Spec => []SearchExact
<1>1. AccessInv => SearchExact
  BY SMTT(60) DEF AccessInv, SearchInv, SearchOK, SearchExact
<1> QED
  BY <1>1, AccessInvariant, PTL

=============================================================================
